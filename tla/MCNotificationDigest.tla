------------------------- MODULE MCNotificationDigest -------------------------
(* An instance of NotificationDigest for TLC. *)
EXTENDS NotificationDigest, TLC
===============================================================================
