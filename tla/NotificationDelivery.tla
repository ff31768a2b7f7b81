------------------------- MODULE NotificationDelivery -------------------------
(***************************************************************************)
(* Delivery of alert notifications.  An escalation creates a delivery row  *)
(* per channel and attempts it; a failed attempt schedules a retry job with*)
(* backoff; an administrator may re-attempt any row.  An attempt reads the *)
(* row, sends, and writes the outcome: three steps that attempts of the    *)
(* same row, by a retry job and by a request, may interleave.              *)
(***************************************************************************)
EXTENDS Naturals, FiniteSets

CONSTANTS
    Deliveries,   \* NotificationDelivery rows
    Callers,      \* attempts that can be in progress at once, in any process
    MaxRetries,   \* RETRY_BACKOFF_MS.length
    MaxManual,    \* bound: manual retries of a delivery
    MaxHiccups,   \* bound: database and Redis errors
    MaxCrashes    \* bound: crashes of a process

ASSUME DeliveryAssumption ==
    /\ IsFiniteSet(Callers)
    /\ MaxRetries \in Nat /\ MaxManual \in Nat /\ MaxHiccups \in Nat /\ MaxCrashes \in Nat

VARIABLES
    row,       \* NotificationDelivery rows
    channel,   \* the channel of each delivery
    retries,   \* delayed retry jobs of each delivery (jobIds never repeat)
    ending,    \* retry jobs whose attempt is over but which are not yet completed
    attempt,   \* what each caller is doing
    sends,     \* history: messages the adapters accepted, by delivery
    refused,   \* history: deliveries whose failure was final at once
    manual,    \* history: manual retries, by delivery
    hiccups, crashes

history == <<sends, refused, manual>>
vars == <<row, channel, retries, ending, attempt, sends, refused, manual, hiccups, crashes>>

------------------------------------------------------------------------------
MAX_ATTEMPTS == 1 + MaxRetries
\* The attempts a delivery may see in all, manual ones and reruns included.
MostAttempts == MAX_ATTEMPTS + MaxManual + MaxCrashes
Rows == [status : {"none", "PENDING", "SENT", "FAILED", "gone"}, attempts : 0..MostAttempts]
Idle == [stage |-> "idle"]
Origins == {"dispatch", "job", "manual"}
Attempts == [stage : {"load", "send", "sent", "retryable", "final", "schedule"},
             of : Deliveries, by : Origins, no : 0..MostAttempts]

Begin(d, origin) == [stage |-> "load", of |-> d, by |-> origin, no |-> 0]
Exists(d) == row[d].status \notin {"none", "gone"}
Busy(d) == {c \in Callers : attempt[c] # Idle /\ attempt[c].of = d}

Init ==
    /\ row = [d \in Deliveries |-> [status |-> "none", attempts |-> 0]]
    /\ channel \in [Deliveries -> {"IN_APP", "active"}]
    /\ retries = [d \in Deliveries |-> 0]
    /\ ending = [d \in Deliveries |-> 0]
    /\ attempt = [c \in Callers |-> Idle]
    /\ sends = [d \in Deliveries |-> 0]
    /\ refused = [d \in Deliveries |-> FALSE]
    /\ manual = [d \in Deliveries |-> 0]
    /\ hiccups = 0 /\ crashes = 0

(* Who attempts a delivery *)

\* dispatch: the row is created, then attempted.
Dispatch(c, d) ==
    /\ attempt[c] = Idle /\ row[d].status = "none"
    /\ row' = [row EXCEPT ![d].status = "PENDING"]
    /\ attempt' = [attempt EXCEPT ![c] = Begin(d, "dispatch")]
    /\ UNCHANGED <<channel, retries, ending, history, hiccups, crashes>>

\* A retry job is due.
StartRetry(c, d) ==
    /\ attempt[c] = Idle /\ retries[d] > 0
    /\ retries' = [retries EXCEPT ![d] = @ - 1]
    /\ attempt' = [attempt EXCEPT ![c] = Begin(d, "job")]
    /\ UNCHANGED <<row, channel, ending, history, hiccups, crashes>>

\* The administrator's retry checks only that the row exists.
ManualRetry(c, d) ==
    /\ attempt[c] = Idle /\ Exists(d) /\ manual[d] < MaxManual
    /\ manual' = [manual EXCEPT ![d] = @ + 1]
    /\ attempt' = [attempt EXCEPT ![c] = Begin(d, "manual")]
    /\ UNCHANGED <<row, channel, retries, ending, sends, refused, hiccups, crashes>>

(* attemptDelivery *)

Attemptable(d) == Exists(d) /\ row[d].status # "SENT"

NextNumber(n) == n + 1

Proceed(c, stage) ==
    attempt' = [attempt EXCEPT ![c] = [@ EXCEPT !.stage = stage]] /\ UNCHANGED ending

\* attemptDelivery returns or throws; the retry job it ran for, which is tried
\* once whatever happens, has yet to be moved to the finished ones.
Finish(c) ==
    /\ attempt' = [attempt EXCEPT ![c] = Idle]
    /\ ending' = [ending EXCEPT ![attempt[c].of] = IF attempt[c].by = "job" THEN @ + 1 ELSE @]

\* The row and the channel are read, and not read again.
Load(c) ==
    /\ attempt[c].stage = "load"
    /\ LET d == attempt[c].of
       IN \/ /\ Attemptable(d)
             /\ attempt' = [attempt EXCEPT ![c] =
                   [@ EXCEPT !.no = NextNumber(row[d].attempts),
                             !.stage = IF channel[d] = "inactive" THEN "final" ELSE "send"]]
             /\ UNCHANGED <<ending, hiccups>>
          \/ ~Attemptable(d) /\ Finish(c) /\ UNCHANGED hiccups
          \/ hiccups < MaxHiccups /\ hiccups' = hiccups + 1 /\ Finish(c)
    /\ UNCHANGED <<row, channel, retries, history, crashes>>

\* The adapter accepts the message, fails, or refuses it for good (4xx); the
\* in-app adapter has nothing to do.
Send(c) ==
    /\ attempt[c].stage = "send"
    /\ LET d == attempt[c].of
       IN \/ sends' = [sends EXCEPT ![d] = @ + 1] /\ Proceed(c, "sent")
          \/ channel[d] # "IN_APP" /\ Proceed(c, "retryable") /\ UNCHANGED sends
          \/ channel[d] # "IN_APP" /\ Proceed(c, "final") /\ UNCHANGED sends
    /\ UNCHANGED <<row, channel, retries, refused, manual, hiccups, crashes>>

\* The row becomes SENT.  An error here lands in the same catch as a failed send.
RecordSent(c) ==
    /\ attempt[c].stage = "sent"
    /\ LET m == attempt[c]
       IN \/ /\ Exists(m.of)
             /\ row' = [row EXCEPT ![m.of] = [status |-> "SENT", attempts |-> m.no]]
             /\ Finish(c) /\ UNCHANGED hiccups
          \/ ~Exists(m.of) /\ Proceed(c, "retryable") /\ UNCHANGED <<row, hiccups>>
          \/ /\ hiccups < MaxHiccups /\ hiccups' = hiccups + 1
             /\ Proceed(c, "retryable") /\ UNCHANGED row
    /\ UNCHANGED <<channel, retries, history, crashes>>

\* Mutant: only refusals are final.
OnlyRefusals(m) == m.stage = "final"
\* Mutant: one attempt too many.
BeyondMax(m) == m.stage = "final" \/ m.no > MAX_ATTEMPTS
\* Mutant: a refusal is retried.
OnlyTheLast(m) == m.no >= MAX_ATTEMPTS
Terminal(m) == m.stage = "final" \/ m.no >= MAX_ATTEMPTS

\* markFailed writes over whatever the row became; when the write fails, so
\* does the attempt, and no retry is scheduled.
MarkFailed(c) ==
    /\ attempt[c].stage \in {"retryable", "final"}
    /\ LET m == attempt[c]
       IN \/ /\ Exists(m.of)
             /\ row' = [row EXCEPT ![m.of] = [status |-> "FAILED", attempts |-> m.no]]
             /\ refused' = [refused EXCEPT ![m.of] = @ \/ m.stage = "final"]
             /\ IF Terminal(m) THEN Finish(c) ELSE Proceed(c, "schedule")
             /\ UNCHANGED hiccups
          \/ ~Exists(m.of) /\ Finish(c) /\ UNCHANGED <<row, refused, hiccups>>
          \/ /\ hiccups < MaxHiccups /\ hiccups' = hiccups + 1
             /\ Finish(c) /\ UNCHANGED <<row, refused>>
    /\ UNCHANGED <<channel, retries, sends, manual, crashes>>

\* Mutant: the queue retries the job as well.
TwoMore(n) == n + 2
\* Mutant: the retry is forgotten.
NoRetry(n) == n
OneMore(n) == n + 1

\* A queue error is logged and forgotten.
ScheduleRetry(c) ==
    /\ attempt[c].stage = "schedule"
    /\ \/ retries' = [retries EXCEPT ![attempt[c].of] = OneMore(@)] /\ UNCHANGED hiccups
       \/ hiccups < MaxHiccups /\ hiccups' = hiccups + 1 /\ UNCHANGED retries
    /\ Finish(c)
    /\ UNCHANGED <<row, channel, history, crashes>>

\* The queue moves a retry job to the finished ones.
Complete(d) ==
    /\ ending[d] > 0
    /\ ending' = [ending EXCEPT ![d] = @ - 1]
    /\ UNCHANGED <<row, channel, retries, attempt, history, hiccups, crashes>>

(* Environment *)

\* An administrator switches the channel off or on (remove counts as off).
SwitchChannel(d) ==
    /\ channel[d] # "IN_APP"
    /\ channel' = [channel EXCEPT ![d] = IF @ = "active" THEN "inactive" ELSE "active"]
    /\ UNCHANGED <<row, retries, ending, attempt, history, hiccups, crashes>>

\* The alert is deleted with its KPI or organization, and its deliveries with it.
Cascade(d) ==
    /\ Exists(d)
    /\ row' = [row EXCEPT ![d].status = "gone"]
    /\ UNCHANGED <<channel, retries, ending, attempt, history, hiccups, crashes>>

\* The process of a caller dies; a retry job it was running is run again.
Crash(c) ==
    /\ crashes < MaxCrashes /\ attempt[c] # Idle
    /\ crashes' = crashes + 1
    /\ retries' = IF attempt[c].by = "job"
                  THEN [retries EXCEPT ![attempt[c].of] = @ + 1] ELSE retries
    /\ attempt' = [attempt EXCEPT ![c] = Idle]
    /\ UNCHANGED <<row, channel, ending, history, hiccups>>

\* The process dies when the attempt of a retry job is over, its successor
\* scheduled or its last failure written, and the job is run again as well.
CrashAtEnd(d) ==
    /\ crashes < MaxCrashes /\ ending[d] > 0
    /\ crashes' = crashes + 1
    /\ ending' = [ending EXCEPT ![d] = @ - 1]
    /\ retries' = [retries EXCEPT ![d] = @ + 1]
    /\ UNCHANGED <<row, channel, attempt, history, hiccups>>

AttemptStep(c) ==
    Load(c) \/ Send(c) \/ RecordSent(c) \/ MarkFailed(c) \/ ScheduleRetry(c)

Next ==
    \/ \E c \in Callers, d \in Deliveries : Dispatch(c, d) \/ StartRetry(c, d) \/ ManualRetry(c, d)
    \/ \E c \in Callers : AttemptStep(c) \/ Crash(c)
    \/ \E d \in Deliveries : SwitchChannel(d) \/ Cascade(d) \/ Complete(d) \/ CrashAtEnd(d)

Spec == Init /\ [][Next]_vars

\* Attempts in progress finish (the adapters time out) and due retry jobs are
\* taken up.
FairSpec ==
    /\ Spec
    /\ \A c \in Callers : WF_vars(AttemptStep(c))
    /\ \A d \in Deliveries : WF_vars(\E c \in Callers : StartRetry(c, d))

------------------------------------------------------------------------------
(* Properties *)

\* Every variable holds a value of its type.
TypeOK ==
    /\ row \in [Deliveries -> Rows]
    /\ channel \in [Deliveries -> {"IN_APP", "active", "inactive"}]
    /\ retries \in [Deliveries -> Nat] /\ ending \in [Deliveries -> Nat]
    /\ attempt \in [Callers -> Attempts \cup {Idle}]
    /\ sends \in [Deliveries -> Nat]
    /\ refused \in [Deliveries -> BOOLEAN]
    /\ manual \in [Deliveries -> 0..MaxManual]
    /\ hiccups \in 0..MaxHiccups /\ crashes \in 0..MaxCrashes

\* Everything that still wants to attempt d.
Chains(d) == Cardinality(Busy(d)) + retries[d]

\* Every failure schedules at most one successor: a delivery is attempted by
\* one chain of retries, and one more for each manual retry or crash (of an
\* attempt, or of its retry job when the successor is queued already).
ChainsBounded == \A d \in Deliveries : Chains(d) <= 1 + manual[d] + crashes

\* A chain ends at MAX_ATTEMPTS, whatever attempts interleave: a row beyond it
\* was pushed there by manual retries, or by the rerun of a retry job that died
\* after the last failure was written, one attempt each.
AttemptsBounded ==
    \A d \in Deliveries : row[d].attempts <= MAX_ATTEMPTS + manual[d] + crashes

\* The receiver gets a message once, unless an administrator, a crash or a
\* failed write intervenes.
SentOnce == \A d \in Deliveries : sends[d] <= 1 + manual[d] + crashes + hiccups

Disturbed == {d \in Deliveries : manual[d] > 0 \/ hiccups > 0 \/ crashes > 0}
Outcomes == [d \in Deliveries |-> [status |-> row[d].status, attempts |-> row[d].attempts,
                                  accepted |-> sends[d], refused |-> refused[d]]]
Intent == INSTANCE DeliveryIntent
          WITH MaxAttempts <- MAX_ATTEMPTS, delivery <- Outcomes, disturbed <- Disturbed

\* Attempts that read the row, send and write its outcome in separate steps, the
\* dispatcher's and the retry jobs', implement DeliveryIntent: as long as nobody
\* intervenes and nothing fails, a delivery is attempted as if by one process.
ImplementsIntent == Intent!Spec

\* Comment of attemptDelivery: SENT is terminal.
SentIsFinal ==
    [][\A d \in Deliveries : row[d].status = "SENT" => row'[d].status \in {"SENT", "gone"}]_vars

\* A delivery is retried until it is sent, refused or out of attempts, unless a
\* write or an enqueue fails or a process dies.
RetriedUntilSettled ==
    \A d \in Deliveries :
        Exists(d) ~> \/ row[d].status \in {"SENT", "gone"} \/ refused[d]
                     \/ row[d].attempts >= MAX_ATTEMPTS \/ hiccups > 0 \/ crashes > 0
==============================================================================
