------------------------ MODULE MCNotificationDelivery ------------------------
(* An instance of NotificationDelivery for TLC. *)
EXTENDS NotificationDelivery, TLC

CallerSymmetry == Permutations(Callers)
===============================================================================
