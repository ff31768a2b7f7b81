---------------------------- MODULE ApprovalIntent ----------------------------
(***************************************************************************)
(* What the approval seam promises of each request: a request is opened,   *)
(* collects one vote per user, none of them lost, is settled once, and is  *)
(* replayed at most once and only when approved.                           *)
(***************************************************************************)
EXTENDS Naturals

CONSTANTS Users, Requests

VARIABLES
    status,   \* NONE, PENDING, APPROVED, REJECTED or CANCELLED
    votes,    \* the decisions of each request
    replays   \* how often each request was replayed

Init ==
    /\ status = [r \in Requests |-> "NONE"]
    /\ votes = [r \in Requests |-> {}]
    /\ replays = [r \in Requests |-> 0]

Open(r) ==
    /\ status[r] = "NONE"
    /\ status' = [status EXCEPT ![r] = "PENDING"]
    /\ UNCHANGED <<votes, replays>>

\* A first rejection settles the request, an approval may.
Vote(r, u, choice) ==
    /\ status[r] = "PENDING"
    /\ \A v \in votes[r] : v.user # u
    /\ votes' = [votes EXCEPT ![r] = @ \cup {[user |-> u, choice |-> choice]}]
    /\ \E s \in IF choice = "reject" THEN {"REJECTED"} ELSE {"PENDING", "APPROVED"} :
           status' = [status EXCEPT ![r] = s]
    /\ UNCHANGED replays

Cancel(r) ==
    /\ status[r] = "PENDING"
    /\ status' = [status EXCEPT ![r] = "CANCELLED"]
    /\ UNCHANGED <<votes, replays>>

Replay(r) ==
    /\ status[r] = "APPROVED"
    /\ replays[r] = 0
    /\ replays' = [replays EXCEPT ![r] = 1]
    /\ UNCHANGED <<status, votes>>

Next ==
    \E r \in Requests :
        \/ Open(r) \/ Cancel(r) \/ Replay(r)
        \/ \E u \in Users, choice \in {"approve", "reject"} : Vote(r, u, choice)

Spec == Init /\ [][Next]_<<status, votes, replays>>
==============================================================================
