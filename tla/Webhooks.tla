--------------------------------- MODULE Webhooks ---------------------------------
(***************************************************************************)
(* One outbound webhook subscription, the deliveries enqueued for it and   *)
(* the workers that post them.  A delivery that fails is counted on the    *)
(* subscription, which is switched off in a later statement once it has    *)
(* too many, and retried by the queue; one that succeeds resets the count. *)
(* The secret only signs the body and is left out.                         *)
(***************************************************************************)
EXTENDS Naturals, FiniteSets

CONSTANTS
    Deliveries,       \* jobs of the outbound-webhook queue
    Posters,          \* workers, one per API process
    Threshold,        \* AUTO_DISABLE_THRESHOLD, 100 in the code
    PostAttempts,     \* attempts of a job, 5 in the code
    MaxSwitches,      \* bound: requests of administrators
    MaxPostFaults     \* bound: database and queue errors and crashes

ASSUME WebhooksAssumption ==
    /\ Threshold \in Nat \ {0} /\ PostAttempts \in Nat \ {0}
    /\ MaxSwitches \in Nat /\ MaxPostFaults \in Nat /\ IsFiniteSet(Posters)

VARIABLES
    webhook,          \* the WebhookSubscription row
    delivery,         \* what became of each job
    posting,          \* what each worker is doing
    used,             \* requests and faults so far
    endpoint          \* history: what the endpoint saw, below

webhookVars == <<webhook, delivery, posting, used, endpoint>>

------------------------------------------------------------------------------
NotPosting == [stage |-> "none"]
Stages == {"post", "succeeded", "failed", "disable"}

\* endpoint.streak: attempts it refused since it accepted one; endpoint.unclear: a
\* success and a failure were recorded out of order, or a success was not recorded.
WebhooksInit ==
    /\ webhook = [row |-> "stored", active |-> TRUE, failures |-> 0]
    /\ delivery = [d \in Deliveries |-> [state |-> "none", attempts |-> 0]]
    /\ posting = [w \in Posters |-> NotPosting]
    /\ used = [switches |-> 0, faults |-> 0]
    /\ endpoint = [streak |-> 0, unclear |-> FALSE]

GoesWrong == used.faults < MaxPostFaults /\ used' = [used EXCEPT !.faults = @ + 1]
InStage(stages) == {w \in Posters : posting[w].stage \in stages}

(* WebhooksService *)

\* dispatchEvent goes to an active subscription; test to any.  A queue error is logged
\* and forgotten.
EnqueueDelivery(d, test) ==
    /\ delivery[d].state = "none" /\ webhook.row = "stored" /\ (test \/ webhook.active)
    /\ \/ delivery' = [delivery EXCEPT ![d].state = "waiting"] /\ UNCHANGED used
       \/ delivery' = [delivery EXCEPT ![d].state = "lost"] /\ GoesWrong
    /\ UNCHANGED <<webhook, posting, endpoint>>

Switches == used.switches < MaxSwitches /\ used' = [used EXCEPT !.switches = @ + 1]

\* The failures counted before stay.
SetActive(active) ==
    /\ webhook.row = "stored" /\ Switches
    /\ webhook' = [webhook EXCEPT !.active = active]
    /\ UNCHANGED <<delivery, posting, endpoint>>

RemoveWebhook ==
    /\ webhook.row = "stored" /\ Switches
    /\ webhook' = [webhook EXCEPT !.row = "deleted"]
    /\ UNCHANGED <<delivery, posting, endpoint>>

(* OutboundWebhookProcessor *)

\* Mutant: one attempt too many.
AttemptedOnceMore(d) ==
    LET n == delivery[d].attempts + 1
    IN [delivery EXCEPT ![d] = [state |-> IF n <= PostAttempts THEN "waiting" ELSE "exhausted",
                                attempts |-> n]]
\* The attempt throws: BullMQ retries until the attempts are exhausted.
Attempted(d) ==
    LET n == delivery[d].attempts + 1
    IN [delivery EXCEPT ![d] = [state |-> IF n < PostAttempts THEN "waiting" ELSE "exhausted",
                                attempts |-> n]]
StopsPosting(w) == posting' = [posting EXCEPT ![w] = NotPosting]
PostingGoes(w, stage) == posting' = [posting EXCEPT ![w].stage = stage]

\* A subscription that is gone or inactive is skipped.
StartDelivery(w, d) ==
    /\ posting[w] = NotPosting /\ delivery[d].state = "waiting"
    /\ LET goes == webhook.row = "stored" /\ webhook.active
       IN /\ delivery' = [delivery EXCEPT ![d].state = IF goes THEN "active" ELSE "skipped"]
          /\ posting' = [posting EXCEPT ![w] = IF goes THEN [stage |-> "post", job |-> d] ELSE @]
    /\ UNCHANGED <<webhook, used, endpoint>>

\* The endpoint accepts, or it answers with an error or not in time.
Post(w) ==
    /\ posting[w].stage = "post"
    /\ \/ /\ PostingGoes(w, "succeeded")
          /\ endpoint' = [endpoint EXCEPT !.streak = 0,
                              !.unclear = @ \/ InStage({"failed", "disable"}) # {}]
       \/ /\ PostingGoes(w, "failed")
          /\ endpoint' = [endpoint EXCEPT !.streak = @ + 1,
                              !.unclear = @ \/ InStage({"succeeded"}) # {}]
    /\ UNCHANGED <<webhook, delivery, used>>

\* Mutant: a success leaves the count.
KeepsCount(failures) == failures
CountAfterSuccess(failures) == 0

\* The count is reset; the update of a row that is gone throws.
RecordSuccess(w) ==
    /\ posting[w].stage = "succeeded"
    /\ LET d == posting[w].job
       IN IF webhook.row = "stored"
          THEN /\ webhook' = [webhook EXCEPT !.failures = CountAfterSuccess(@)]
               /\ delivery' = [delivery EXCEPT ![d].state = "delivered"]
          ELSE delivery' = Attempted(d) /\ UNCHANGED webhook
    /\ StopsPosting(w)
    /\ UNCHANGED <<used, endpoint>>

\* Mutant: one failure too early.
OneTooFew(failures) == failures + 1 >= Threshold
TooMany(failures) == failures >= Threshold

\* The failure is counted, in one statement.
RecordFailure(w) ==
    /\ posting[w].stage = "failed"
    /\ LET d == posting[w].job
           n == webhook.failures + 1
           stored == webhook.row = "stored"
       IN /\ webhook' = IF stored THEN [webhook EXCEPT !.failures = n] ELSE webhook
          /\ IF stored /\ TooMany(n)
             THEN PostingGoes(w, "disable") /\ UNCHANGED delivery
             ELSE StopsPosting(w) /\ delivery' = Attempted(d)
    /\ UNCHANGED <<used, endpoint>>

\* The subscription is switched off whatever its row says now, and the attempt fails.
DisableWebhook(w) ==
    /\ posting[w].stage = "disable"
    /\ webhook' = IF webhook.row = "stored" THEN [webhook EXCEPT !.active = FALSE] ELSE webhook
    /\ delivery' = Attempted(posting[w].job)
    /\ StopsPosting(w)
    /\ UNCHANGED <<used, endpoint>>

\* A database error fails the attempt; when the process dies the stalled job runs again.
CutDelivery(w) ==
    /\ posting[w] # NotPosting /\ GoesWrong
    /\ \/ delivery' = Attempted(posting[w].job)
       \/ delivery' = [delivery EXCEPT ![posting[w].job].state = "waiting"]
    /\ endpoint' = [endpoint EXCEPT !.unclear = @ \/ posting[w].stage = "succeeded"]
    /\ StopsPosting(w)
    /\ UNCHANGED webhook

WebhooksNext ==
    \/ \E d \in Deliveries : \E test \in BOOLEAN : EnqueueDelivery(d, test)
    \/ \E active \in BOOLEAN : SetActive(active)
    \/ RemoveWebhook
    \/ \E w \in Posters :
           \/ \E d \in Deliveries : StartDelivery(w, d)
           \/ Post(w) \/ RecordSuccess(w) \/ RecordFailure(w) \/ DisableWebhook(w) \/ CutDelivery(w)

WebhooksSpec == WebhooksInit /\ [][WebhooksNext]_webhookVars

------------------------------------------------------------------------------
(* Properties *)

\* Every variable holds a value of its type.
WebhooksTypeOK ==
    /\ webhook \in [row : {"stored", "deleted"}, active : BOOLEAN, failures : Nat]
    /\ delivery \in [Deliveries -> [state : {"none", "waiting", "active", "delivered", "skipped",
                                             "exhausted", "lost"},
                                    attempts : 0..PostAttempts]]
    /\ \A w \in Posters : posting[w] = NotPosting \/ posting[w] \in [stage : Stages, job : Deliveries]
    /\ used \in [switches : 0..MaxSwitches, faults : 0..MaxPostFaults]
    /\ endpoint \in [streak : Nat, unclear : BOOLEAN]

\* When the processor switches a subscription off, its endpoint has refused at least
\* Threshold attempts in a row, those before an administrator switched it on again
\* included, unless attempts of two workers were recorded in another order than they
\* ended or a success was not recorded at all.
DisabledForFailures ==
    [][(webhook.active /\ ~webhook'.active /\ used' = used) =>
           endpoint.streak >= Threshold \/ endpoint.unclear]_webhookVars
===================================================================================
