------------------------------ MODULE MCRecompute ------------------------------
(* An instance of Recompute for TLC. *)
EXTENDS Recompute, TLC

CONSTANTS kpiA, kpiB, kpiC

Formula(x, y) == <<"recompute", x, y>>
Cascade(x, y) == <<"rollup", x, y>>
\* A triangle of formulas, a chain of cascades, and a loop through both kinds.
MCGraphs == {{Formula(kpiA, kpiB), Formula(kpiB, kpiC), Formula(kpiA, kpiC)},
             {Cascade(kpiA, kpiB), Cascade(kpiB, kpiC)},
             {Formula(kpiA, kpiB), Cascade(kpiB, kpiA), Formula(kpiB, kpiC)}}
\* A chain of formulas.
MCPlainGraphs == {{Formula(kpiA, kpiB), Formula(kpiB, kpiC)}}
===============================================================================
