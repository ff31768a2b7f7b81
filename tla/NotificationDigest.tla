-------------------------- MODULE NotificationDigest --------------------------
(***************************************************************************)
(* The alert digest.  Every escalation that notifies a user enqueues the   *)
(* delayed job digest-<org>-<user>; the worker counts the user's open      *)
(* alerts of the last 24 hours and publishes one summary.  Finished jobs   *)
(* stay in the queue's completed set, up to a count.                       *)
(***************************************************************************)
EXTENDS Naturals, Sequences

CONSTANTS
    Users,
    Kept,        \* removeOnComplete: finished jobs the queue keeps
    MaxAlerts,   \* bound: alerts raised for a user
    MaxHiccups   \* bound: Redis errors swallowed by enqueueDigest

VARIABLES
    open,       \* open alerts of each user in the last 24 hours
    raised,     \* history: alerts raised for each user
    job,        \* "none", "delayed", "active" or "kept"
    finished,   \* the kept jobs, oldest first
    unseen,     \* history: users notified since their last digest started
    hiccups

vars == <<open, raised, job, finished, unseen, hiccups>>

Init ==
    /\ open = [u \in Users |-> 0]
    /\ raised = [u \in Users |-> 0]
    /\ job = [u \in Users |-> "none"]
    /\ finished = << >>
    /\ unseen = {}
    /\ hiccups = 0

\* Queue.add with a custom jobId: ignored while a job of that id exists.
AddDigest(u) == [job EXCEPT ![u] = IF @ = "none" THEN "delayed" ELSE @]

\* An alert of u escalates and kicks the digest; a queue error is forgotten.
EnqueueDigest(u) ==
    /\ raised[u] < MaxAlerts
    /\ raised' = [raised EXCEPT ![u] = @ + 1]
    /\ open' = [open EXCEPT ![u] = @ + 1]
    /\ \/ job' = AddDigest(u) /\ unseen' = unseen \cup {u} /\ UNCHANGED hiccups
       \/ /\ hiccups < MaxHiccups /\ hiccups' = hiccups + 1
          /\ UNCHANGED <<job, unseen>>
    /\ UNCHANGED finished

\* An alert is acknowledged, resolved or older than 24 hours.
CloseAlert(u) ==
    /\ open[u] > 0
    /\ open' = [open EXCEPT ![u] = @ - 1]
    /\ UNCHANGED <<raised, job, finished, unseen, hiccups>>

\* The window is over: the worker counts what is open, and publishes a summary
\* unless that is nothing.
StartDigest(u) ==
    /\ job[u] = "delayed"
    /\ job' = [job EXCEPT ![u] = "active"]
    /\ unseen' = unseen \ {u}
    /\ UNCHANGED <<open, raised, finished, hiccups>>

\* The job joins the kept ones and may push out the oldest.
FinishDigest(u) ==
    /\ job[u] = "active"
    /\ LET all == Append(finished, u)
           dropped == IF Len(all) > Kept THEN {Head(all)} ELSE {}
       IN /\ finished' = IF dropped = {} THEN all ELSE Tail(all)
          /\ job' = [v \in Users |-> IF v \in dropped THEN "none"
                                     ELSE IF v = u THEN "kept" ELSE job[v]]
    /\ UNCHANGED <<open, raised, unseen, hiccups>>

Next == \E u \in Users : EnqueueDigest(u) \/ CloseAlert(u) \/ StartDigest(u) \/ FinishDigest(u)

Spec == Init /\ [][Next]_vars

------------------------------------------------------------------------------
(* Properties *)

\* The comment of NotificationDigestService: calls inside the window collapse
\* onto the scheduled job, so a user who was notified has a digest under way.
CallsCollapseOntoScheduled == \A u \in unseen : job[u] \in {"delayed", "active"}
==============================================================================
