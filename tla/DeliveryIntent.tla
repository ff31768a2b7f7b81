---------------------------- MODULE DeliveryIntent ----------------------------
(***************************************************************************)
(* What is promised of each notification delivery: its attempts happen one *)
(* after the other and are counted, a message goes out once, the row says  *)
(* SENT for good when and only when one did, and a refusal or the last     *)
(* attempt is the end.  A disturbed delivery is promised nothing: it was   *)
(* retried by hand, or a write, an enqueue or a process failed.            *)
(***************************************************************************)
EXTENDS Naturals

CONSTANTS Deliveries, MaxAttempts

VARIABLES
    delivery,   \* [status, attempts, accepted, refused] of each delivery
    disturbed   \* deliveries that are promised nothing any more

Unsent == [status |-> "none", attempts |-> 0, accepted |-> 0, refused |-> FALSE]

Init ==
    /\ delivery = [d \in Deliveries |-> Unsent]
    /\ disturbed = {}

Open(r) == r.status \in {"PENDING", "FAILED"}
\* Nothing has gone out yet, and something still may.
Pending(r) == r.status # "none" /\ r.accepted = 0 /\ ~r.refused /\ r.attempts < MaxAttempts

\* What one step makes of a delivery r.
Create(r, s) == r = Unsent /\ s = [r EXCEPT !.status = "PENDING"]
\* The row may be deleted while an attempt of it is under way.
Accept(r, s) == Pending(r) /\ s = [r EXCEPT !.accepted = 1]
Record(r, s) ==
    /\ Open(r) /\ r.accepted = 1 /\ r.attempts < MaxAttempts
    /\ s = [r EXCEPT !.status = "SENT", !.attempts = @ + 1]
Fail(r, s) ==
    /\ Open(r) /\ Pending(r)
    /\ \E refusal \in BOOLEAN :
           s = [r EXCEPT !.status = "FAILED", !.attempts = @ + 1, !.refused = refusal]
Delete(r, s) == r.status \notin {"none", "gone"} /\ s = [r EXCEPT !.status = "gone"]

Moves(r, s) == Create(r, s) \/ Accept(r, s) \/ Record(r, s) \/ Fail(r, s) \/ Delete(r, s)

OthersStay(S) == \A d \in Deliveries \ S : delivery'[d] = delivery[d]

Step(d) == Moves(delivery[d], delivery'[d]) /\ OthersStay({d}) /\ UNCHANGED disturbed
Disturb == disturbed \subseteq disturbed' /\ OthersStay(disturbed')

Next == (\E d \in Deliveries : Step(d)) \/ Disturb

Spec == Init /\ [][Next]_<<delivery, disturbed>>
==============================================================================
