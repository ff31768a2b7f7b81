------------------------------ MODULE MCAlerting ------------------------------
(* An instance of Alerting for TLC. *)
EXTENDS Alerting, TLC

CONSTANTS r1, p1, p2

\* Every point breaks the rule, unless it is a NO_DATA rule.
MCBreaches == Points \X Rules
===============================================================================
