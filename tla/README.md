# KPI Nexus: a TLA+ model of the API

KPI Nexus is a multi-tenant KPI platform. `apps/api` (NestJS, Prisma/Postgres,
BullMQ/Redis) holds all business state; `apps/web` is its user interface,
`apps/ml` a stateless Python sidecar, `apps/worker` an echo queue. All BullMQ
processors run inside the API process. This directory models the parts of the
API whose correctness depends on the order of steps: calls that read a row,
await, and write it by id; jobs that run twice, late, or not at all; a process
that dies between a database write and a queue write.

Paths below are relative to `apps/api/src`.

## 1. Inventory

| Component | State it keeps | Operations | Interacts with | Modules |
|---|---|---|---|---|
| approvals | `ApprovalWorkflow`, `ApprovalRequest` rows | upsert workflow, gate an edit, decide, cancel, replay | KPI, target and role services call the gate and are called back by the replay | `Approvals`, `ApprovalIntent` |
| alert rules | `AlertRule`, `EscalationRule` rows | create, update, remove | read by the alert engine and the escalation worker | `Alerting` |
| alert engine | `alert-eval` jobs | enqueue per data point, NO_DATA scan every 5 minutes, evaluate, suppress, create | data points in, alerts and level-0 jobs out | `Alerting` |
| alerts | `Alert` rows | acknowledge, resolve | guard of the escalation worker | `Alerting` |
| escalations | delayed jobs `escalate-<alert>-lvl<n>` | enqueue a level, fire it, enqueue the next | calls the dispatcher and the digest | `Alerting` |
| notifications | `NotificationDelivery` rows, retry jobs, digest jobs | dispatch, attempt, retry, manual retry; enqueue and process a digest | channels, adapters, escalations | `NotificationDelivery`, `DeliveryIntent`, `NotificationDigest` |
| calculation engine | recompute and rollup jobs, COMPUTED data points | enqueue, recompute a formula, roll up a parent | data points, formula and cascade graphs | `Recompute` |
| formula and cascade graphs | `KPIDependency`, `KPICascade` edges | attach, replace, detach, cycle check, levels; archive, restore and purge of KPIs | decides what the calculation engine follows | `KpiGraph` |
| sessions and accounts | `User`, `RefreshToken`, `PasswordResetToken`, invitation token | login, rotate, revoke one, others or all, reset, change and set a password, suspend, offboard, purge | SCIM sets the status beside the application | `Accounts` |
| access caches | three caches per API process, with their own clocks | resolve permissions, profile, people of the units; change and drop | roles, overrides, memberships, delegations, grants | `AccessCache` |
| onboarding | `OnboardingSession` | start, patch, apply template, complete, cleanup job | creates an organization | `Onboarding` |
| scheduled reports | `ScheduledReport` and `ReportRun` rows, the repeatable job | create, update, remove, trigger, run | storage, e-mail | `ScheduledReports` |
| outbound webhooks | subscription row with failure counter, jobs | enqueue, post, count, switch off; switch, remove | the subscriber's endpoint | `Webhooks` |
| OKRs | objectives, key results, stored progress | create, change, re-parent, remove, roll up, sync from KPIs | KPI data points | `Okrs` |
| realtime | streams, their count and the Redis subscription of an organization | publish, subscribe, tear down, fan out | alerts, data points | `Realtime` |
| org units | unit tree, memberships | create, move, merge, split, remove; add, remove and move members | offboarding closes memberships | `OrgTree` |

`PROJECT.json` lists the remaining components (RBAC, dashboards, NLQ,
connectors, KPI metadata, the user interface and so on), each with the reason
it is not modelled: a single-row write behind an existence check, a pure
computation, or input and output against an external service.

### Behaviours that are hard

* **Check, await, write by id.** `decide`, `cancel`, `attemptDelivery`,
  `patchDraft`, `rotate` and the cycle checks decide from a row they read
  earlier; two of them overlap on every double click or pair of approvers.
* **Jobs with deterministic ids.** BullMQ ignores an `add` whose id exists in
  any state, finished and kept included. That is what makes a rerun harmless
  for escalation levels, and what swallows work for digests.
* **Two stores.** A row is written to Postgres, then a job to Redis, and queue
  errors are logged and dropped. A crash or a refused enqueue between the two
  leaves a row nothing will act on.
* **Reruns.** A process that dies leaves active jobs behind, which BullMQ
  restores once; every step of a processor may happen again.

### What makes each part correct

* approvals: nobody approves his own edit, one vote per user, a rejection is
  final, an approved edit is applied once;
* alerting: one alert per data point and cooldown window; levels fire in order,
  once each, until somebody acknowledges;
* notifications: a delivery is attempted a bounded number of times, received
  once, and settled; every notified user gets a digest;
* KPI graphs: formulas and cascades stay acyclic, and a cascade's level is the
  depth of its parent;
* calculation engine: a change spreads through both graphs, comes to rest, and
  leaves every derived value up to date with its sources;
* accounts: a revoked session leaves no descendant, a new password no session of
  an old one, a blocked user no session at all;
* access caches: no decision rests on access that is too old, and a change that
  drops the caches is seen;
* onboarding: one session makes one organization, and it is the draft;
* scheduled reports: queue and row agree between requests, and a run's status
  says what happened to it;
* webhooks: a subscription is switched off for its failures and nothing else;
* realtime: an open stream gets the events, and the process is subscribed while
  there is one;
* org units: the hierarchy is a forest, and reorganizing it loses nobody;
* OKRs: progress is what the results amount to, once the roll-ups have ended.

The hazards behind these are in `PROJECT.json`, each at its line. The four
without a property say what it would take to state one.

## 2. Modules

| Modules | Checked by | Proved in |
|---|---|---|
| `ApprovalIntent` (what the approval seam promises), `Approvals` | `MCApprovals` | `ApprovalsProofs` |
| `Alerting` | `MCAlerting` | `AlertingProofs` |
| `DeliveryIntent` (what is promised of a delivery), `NotificationDelivery` | `MCNotificationDelivery` | `DeliveryProofs` |
| `NotificationDigest` | `MCNotificationDigest` | |
| `KpiGraph` | `MCHierarchies` | `KpiGraphProofs` |
| `OrgTree`, `Okrs` | `MCHierarchies` | `HierarchyProofs` |
| `Recompute` | `MCRecompute`, `MCServices` | `ServicesProofs` |
| `AccessCache`, `Accounts` | `MCServices` | `AccessProofs` |
| `Onboarding`, `ScheduledReports`, `Webhooks`, `Realtime` | `MCServices` | `ServicesProofs` |

*Components that interact* meet in one module: rules, alerts and escalations in
`Alerting`; users, tokens, links and statuses in `Accounts`; roles, memberships
and the caches above them in `AccessCache`. `Recompute` takes the graphs as
constants that are acyclic per kind, which is what `KpiGraph` guarantees.

*Components that share no state* are checked side by side: `MCHierarchies`
(KPI graphs, org units, objectives) and `MCServices` (engine, accounts, access
caches, onboarding, reports, webhooks, realtime) have a variable `part`, chosen
in the initial state, which says whose behaviour this is. The others rest in a
single state, so the state space is the sum of the components' and no
interleaving of unrelated steps is explored; there is none to lose.

`MCHierarchies` and `MCServices` compose the components for TLC and for the
theorems about their types. `FiniteSums` holds lemmas and no model: what the sum
over a finite set, a fold of the community modules, comes to.

All modules keep their parameters as CONSTANTS under named assumptions, have
one action per operation or await-to-await segment, and declare no RECURSIVE
operator, so that each can be proved about as well as checked. The names of
variables and actions differ between the modules that are checked together.

## 3. The models

### Approvals

One entity edit goes through `requireApprovalIfActive` (action
`RequireApproval`): if the entity type has an active workflow, a PENDING
request row is stored instead of the edit. `decide()` is three actions, cut at
its awaits: `OpenDecision` reads the row and checks PENDING, self approval;
`ReadWorkflow` reads the workflow, checks the role and a previous decision, and
computes the new decisions and status; `WriteDecision` updates the row **by
id**. If the result is APPROVED, `Apply` replays the edit. `cancel()` is
`OpenCancel` and `WriteCancel`. `UpsertWorkflow` and `RemoveEntity` change what
the others read, `Crash` drops the calls in flight. The variable `call` holds
what each call carries between its awaits; `cast` (a history variable, the
audit of accepted decisions) and `applied` exist for the properties.

`ApprovalIntent` is the promise: votes accumulate and are never lost, a request
is settled once, and replayed at most once, after an approval. `Approvals` maps
its rows to it (`Intent == INSTANCE ApprovalIntent WITH ...`).

### Alerting

`EnqueueEvaluation` and `ScanDue` create evaluation jobs, `StartEvaluation`
takes one and reads the active rules that trigger. `CheckCooldown`,
`CreateAlert` and `EnqueueLevel0` are the three statements of
`maybeCreateAlert`; `FinishEvaluation` completes the job. On the escalation side
`StartLevel` reads the alert and its policy (and ends the job when the alert is
not OPEN), `Notify` sends, `ScheduleNext` enqueues the next level and
`FinishLevel` completes the job: four steps, so that a crash can fall between
the enqueue and the completion. `Crash` restores active jobs. Users
acknowledge, resolve, and edit or delete rules in between; `WindowPasses` ends
the cooldown window. Which points break which rule is a constant (`Breaches`),
time is the flag `recent` of an alert, and `fired`, `late`, `origin` and
`point` are history.

### NotificationDelivery

`Dispatch`, `StartRetry` and `ManualRetry` begin an attempt of a delivery;
`Load` reads the row and the channel, `Send` calls the adapter (accepted,
failed, or refused for good), `RecordSent` and `MarkFailed` write the outcome
by id, `ScheduleRetry` adds the retry job. Several attempts of one row may be
in progress. A failed write of SENT lands in the failure handler, as in the
code; a failed write of FAILED ends the attempt. The attempt of a retry job
leaves the job in `ending` until the queue moves it to the finished ones
(`Complete`). A process that dies (`Crash`, or `CrashAtEnd` in that last window,
when the successor is queued or the last failure written) has its jobs run
again: a second chain, or an attempt more, which the bounds count per crash.

`DeliveryIntent` is the promise: attempts are counted one by one, the message
goes out once and only while attempts are left, the row says SENT for good when
and only when it did, and a refusal or the last attempt is the end. It holds of a
delivery until it is *disturbed*: retried by hand, or a write or an enqueue
failed or a process died. `Outcomes` (status and attempts of the row, messages
accepted, refused) and `Disturbed` map `NotificationDelivery` to it.

### NotificationDigest

One job per user with a fixed id, through `none`, `delayed`, `active` and
`kept`; `FinishDigest` pushes the oldest finished job out when more than `Kept`
are held.

### KpiGraph

Both attaches are cut at their awaits. `BeginFormula` and `BeginCascade` are
the existence checks, `CheckFormula` and `CheckCascade` the read of the edges
with the cycle check, `SaveFormula` and `SaveCascade` the transaction or upsert
that writes them. A replaced formula loses its old dependencies in the same
transaction. Postgres runs it READ COMMITTED, so a detach may overlap it:
`DetachBesideSave` is the order in which the detach has deleted the old
dependencies before, and deletes the formula after, the attach committed.
Attaching or detaching a cascade goes on to `recomputeLevels`: `ReadLevels`
reads all rows and runs Kahn's algorithm (`ComputeLevels`), `WriteLevel` updates
one row at a time. The edge is committed by then: an update that the database
refuses (`FailWrite`; the others of the `Promise.all` go on) and a request that
dies (`GiveUp`) leave the levels as they happen to be. `Archive`, `Restore` and `Purge` are the KPI lifecycle;
archiving leaves all edges, purging takes the cascade rows along and leaves the
formula's. The field `overtaken`, `raced` and `disturbed` are history: an edge
written behind a check; cascades changed behind somebody's levels or with a
purge, or a recomputation that did not get through. `LevelsAreDepths` excuses
these, until the next recomputation that is alone and completes.

### Recompute

A run of the engine, a worker's job or a user's "recompute now", goes through
`ReadSource` (one source at a time), `Write` (the computed point) and `Enqueue`
(one dependent at a time), and `Finish` removes the job. `Insert` is a user's
data point with its enqueues. Job ids are per target, and `AddJob` is BullMQ's
rule that an id that is waiting or active is ignored. `EvaluationFails` is the
caught error, after which propagation goes on, `Fail` a database error, `Crash`
the death of a process, whose active jobs are run again. A value is abstracted
to `basis`: how many points of each source it has seen. One period is modelled,
so that a rollup job is one per parent. `lost` is history: the targets with a
change that no remaining job will bring to them.

### Accounts

One user. A token is rotated in two statements, `IssueToken` for the successor
and `LinkToken` for the old row, after `BeginRotate` has read it; a revoked row
that has a successor is a reuse, which revokes its chain. `ReadLink` and
`RevokeLink` are the read and the update of one link of `revokeChain`, which goes
on to the successor it read; `Logout`, `RevokeOthers` and `RevokeAll` are the other
revocations. `BeginPassword` checks a password change, a reset link or an
invitation, `WritePassword` is its transaction, and `RevokeAll` follows in a
later statement, or fails (`GiveUp`). `BeginReset` and `CreateReset` make a
link. `BeginStatus` and `ApplyStatus` suspend, reactivate, offboard and purge;
`ScimStatus` sets the status with no check and no revocation. What a request
relies on can be revoked after it was read: `late` marks such a request, and
`past.astray` the tokens it went on to issue, and those that were linked to a row
between the read and the update of a walk. Every property names these and
says that nothing else gets through. Tokens do not expire, a password is its
number, and MFA (a second check at login that creates nothing) is left out.

### AccessCache

The caches of one process and one user. `BeginResolution` starts at the lowest
cache that is not fresh; `ReadInput` is one of the reads a resolution makes,
`FillCache` the last read and the entry, `FillMembers` the read of the people in
the units. `StoreChange` is the transaction of a change, `DropCaches` the drop
after it, and between the two resolutions go on. `StoreElsewhere` is a change by
another process, whose drops do not reach this one. The services of delegations
and resource grants drop nothing in any process (`StoreUndropped`): what is read
of those is known by its age alone. Whose people are in the units depends on the
administrator bit of the profile, so that cache shows what the role said up to
three lifetimes ago. What a role or a membership says is abstracted to its version,
and time to ticks.

### Onboarding

`ReadForPatch` and `PatchDraft` are the read and the write by id of
`patchDraft` (a template is a patch); `ReadForComplete` and `Complete` the
checks and the transaction of completion, which looks at the slug but not again
at the status. `GrowsStale` and `CleanupStale` are 30 days and the cleanup job.
A draft is the number of the patch each section has. `accepted` is history: what
the patches that were answered amount to, and whether requests overlapped.

### ScheduledReports

`CreateReport`, `ReadReport`, `FindJob`, `DropJob`, `AddRepeatable` and
`StoreReport` are the statements of create, update and remove, in the order of
the code: the repeatable job is moved before the row is written. Any of them may
be the last (`StopHandling`). `FallsDue` puts a job in the queue, `StartRun`,
`RenderStep`, `StampReport`, `StepThrows` and `MarkFailed` are the processor,
whose catch block marks a run FAILED, and `CutRun` is a worker that dies.

### Webhooks

`EnqueueDelivery`, `StartDelivery`, `Post`, then `RecordSuccess` or
`RecordFailure` and `DisableWebhook`: the counter is incremented in one
statement and the subscription switched off in a later one. `SetActive` and
`RemoveWebhook` are the administrator's. The counter survives re-activation, as
in the code, and the property counts the endpoint's refusals the same way.

### Realtime

`OpenStream` and `CloseStream` count the streams of an organization and issue
SUBSCRIBE and UNSUBSCRIBE without waiting; Redis executes the commands of a
connection in order (`ExecuteCommand`) or, after the retries of the client, not
at all (`LoseCommand`). `Publish` passes an event on while the channel is
subscribed, and `FanOut` delivers it to the streams whose filter it matches.

### OrgTree

`BeginMove`, `BeginMerge`, `BeginSplit` and `BeginRemove` are the reads and
checks before the transaction; `WalkUp` is one step of `assertNotDescendant`,
which reads a row per step while others write, and `ReadMembers` the members a
merge will move. `WriteMove`, `WriteMerge`, `WriteSplit` and `WriteRemove` are
the transactions, with the memberships they carry along; `AddMember`,
`RemoveMember`, `MovePerson` and `LeaveOrg` (an offboarding) change memberships
directly. `crossed` and `caught` are history: a
parent written behind a walk another write had overtaken, and people who joined
or left behind the reads of a request.

### Okrs

Progress is exact, a fraction in lowest terms. `KeyResultProgress` and
`ObjectiveProgress` are the two computations; a change of a key result starts a
roll-up, which reads an objective's key results, writes those that drifted,
reads the children, writes the objective and climbs to the parent it read first
(four actions per level). `UpdateKeyResult` reads the key result and computes its
progress, `WriteUpdate` writes what the request gives of baseline, target, weight
and value over whatever the row became: two updates can store a progress of
neither, which the roll-up that follows puts right. A new alignment is checked by
`ClimbAlign`, a row at a time, and written by `WriteAlign`. `stale` is history: objectives that no later roll-up
will bring up to date, because an input changed behind a read, a child joined or
left (the code starts no roll-up then), or a request failed.

## 4. Runs

| Run | Instance | Shows |
|---|---|---|
| `approvals_overlap` | 3 users of 2 roles, 1 request, 2 overlapping calls, 2 workflow edits, 1 crash; calls symmetric | what the guards still guarantee on a stale row: `DecidersEligible`, `StatusMatchesDecisions`, `ReplayHasGrounds`, `AppliedWasApproved` |
| `approvals_serial` | 1 call at a time, 2 requests, 1 workflow edit | `ImplementsIntent` (which implies `AppliedAtMostOnce`), and `ApprovedIsApplied` under fairness |
| `approvals_rejection` | as overlap, no crash | **violation** of `RejectionIsFinal` |
| `approvals_roles` | 4 users, 1 call | **violation** of `EveryRequiredRoleApproved` |
| `alert_window` | 1 rule of any type, 2 points, 1 scan, 2 alerts, 1 level; one edit, lost enqueue or crash | `OneAlertPerWindow`, `OneAlertPerPoint` |
| `escalation` | 1 alert, up to 3 levels, 2 escalation workers; one edit, lost enqueue or crash | `LevelsInOrder`, `LevelFiresOnce`, `AcknowledgeHalts`, and `EscalationRuns` under fairness |
| `delivery` | 1 delivery, 2 attempts at once, the real 3 retries, 1 manual retry, 1 failing write, 1 crash (the end of a retry job included) | `ChainsBounded`, `AttemptsBounded`, `SentOnce`, `ImplementsIntent`, and `RetriedUntilSettled` under fairness |
| `delivery_resent` | as delivery, no errors | **violation** of `SentIsFinal` |
| `digest_again` | 2 users, queue keeps 3 finished jobs | **violation** of `CallsCollapseOntoScheduled` |
| `hierarchies` | 3 KPIs, 4 requests; or 3 units, 1 person, 3 requests; or 3 objectives, 2 key results, 2 updates, 2 changes; always 2 callers; nodes and callers symmetric | `AcyclicUnlessRaced`, `ComputesDepths`, `LevelsAreDepths`; `HierarchyIsForest`, `EveryoneKeepsAUnit`; `ProgressFollowsResults` |
| `services` | one of seven components, below | `FreshUnlessLost`, `NeverOlder`, and `PropagationEnds` under fairness; `EndedChainsStayEnded`, `OldPasswordSessionsEnd`, `BlockedAreSignedOut`; `StaleWithinLifetimes`, `DroppedChangesAreSeen`; `OrganizationFollowsDraft`; `ScheduleFollowsReport`; `DisabledForFailures`; `StreamsGetEvents` |
| `recompute_swallowed` | 3 KPIs in a chain of formulas, 1 worker, no extras | **violation** of `LaterChangeSeen` |

The components of `services` have these instances. *Engine*: 3 KPIs; a triangle
of formulas, a chain of cascades, a loop through both; 2 workers, 1 user, 2
points, one extra (recompute now, failure, lost enqueue or crash). *Accounts*:
an invited or an active user, 2 requests at a time, 4 in all, 3 tokens. *Access
caches*: 1 resolution at a time, lifetime 2, 4 ticks, 1 change. *Onboarding*: 2
requests at a time, 5 in all, 2 sections, 2 slugs. *Reports*: 2 requests at a
time, 3 in all, 2 patterns, 1 worker, 2 runs, 1 fault. *Webhooks*: 2 deliveries
with 2 attempts, 2 workers, a threshold of 2, 2 switches, 1 fault. *Realtime*: 2
streams, opened 3 times, 2 events of 3 kinds, 1 lost command.

Each property of a passing run has a mutant: a small change of one definition,
such as a dropped guard, under which the same run reports a violation. They
stand next to the definition they replace.

**Bounds.** Two overlapping calls are the least that can interleave, and every
property about votes concerns one request. Three users make a requester and two
approvers. Two alerts suffice for a cooldown to be broken. Three levels let a
crash repeat a level whose successor has already fired, and show that the
repetition does not spread. `MaxTrouble` is 1 in both alerting runs: an edit, a
lost enqueue and a crash are explored one at a time, against all interleavings
of the workers and users. `MaxRetries` has the value of the code. Three KPIs
hold every shape that matters to the graphs: a cycle longer than two, a node
with two parents at different depths, and a chain whose lower level depends on
the upper. Two callers race each other; four requests build a path, start a
recompute and disturb it. Two recorded points are the least of which the first
can be under way when the second arrives; the points the engine adds itself need
no bound, since a change comes to rest. Three tokens make a chain whose middle is revoked
while its end is issued; four requests hold a sign-in, a rotation, a revocation
and a request overtaken by it. Three units make a cycle through a unit that
neither request names. Two objectives under one parent, or a chain of three, are
where roll-ups meet. A lifetime of two ticks tells the first half of a lifetime
from the second. An entry may then be one tick old per cache it came through,
three for the people in the units, and four ticks exceed each of these bounds:
a resolution that takes whatever the cache below keeps breaks them. A threshold
of two needs a count over two deliveries. Three openings let the last stream
close and another open while both commands are on their way to Redis. One
resolution at a time overlaps changes and drops; the theorems allow any number.
Time in
`AccessCache` passes only between resolutions: one takes milliseconds, and an
entry lives for five minutes.

**Deadlock** is not checked: every one of these systems may come to rest, with
all requests decided, alerts closed, attaches made and jobs done.

**Fairness** is weak fairness of the steps of a call or worker that has begun,
and of workers taking due jobs: a running process finishes its awaits (adapters
time out after 10 seconds) and BullMQ hands out due jobs. Users, edits, time and
crashes have none. The liveness properties name what breaks them: a crash or a
refused enqueue at the hand-over between Postgres and Redis.

### What the violations show

* `approvals_rejection`: of two overlapping decisions the later write wins. A
  rejection answered with success disappears and the edit is replayed.
* `approvals_roles`: `requireAll` compares the number of approving users with
  the number of roles, so two users of one role satisfy it.
* `delivery_resent`: a manual retry that overlaps another attempt can turn SENT
  into FAILED, and the retry it schedules sends the message again.
* `digest_again`: the digest job keeps its id when it has finished, so a user's
  next digest is ignored until enough other digests pushed the old job out.
* `recompute_swallowed`: the comment in the producer says that coalescing
  swallows no later change. The id is also taken while its job is running: a
  point recorded after that run read its sources enqueues nothing.

## 5. Proofs

TLAPS proves the following for every value of the constants, under the named
assumptions of the modules: roles and types are functions, bounds are naturals,
`None` and `NoUnit` are no row, an objective is not a key result, lifetimes are
positive, a report's faults are among its runs, edges of the engine's graphs
join KPIs and have no cycle of one kind, weights of key results are not negative,
targets and values are numbers, updates give such values or none, and there are
finitely many KPIs, alerts, escalation workers, callers of the delivery service,
webhook workers, streams, objectives and key results.

| Module | Theorem | Statement |
|---|---|---|
| `ApprovalsProofs` | `TypeCorrect` | `Spec => []TypeOK` |
| | `Eligibility` | `Spec => []DecidersEligible` |
| | `StatusAgrees` | `Spec => []StatusMatchesDecisions` |
| | `ReplayGrounded` | `Spec => []ReplayHasGrounds` |
| | `ReplayApproved` | `Spec => []AppliedWasApproved` |
| | `SerialOnce` | with one call at a time, `Spec => []AppliedAtMostOnce` |
| | `SerialImplements` | with one call at a time, `Spec => ImplementsIntent` |
| `AlertingProofs` | `AlertingTypes` | `Spec => []TypeOK` |
| | `LevelsFireInOrder` | `Spec => []LevelsInOrder` |
| | `LevelsNotifyOnce` | `Spec => []LevelFiresOnce` |
| | `AcknowledgingHalts` | `Spec => []AcknowledgeHalts` |
| | `PointRaisesOnce` | `Spec => []OneAlertPerPoint` |
| | `WindowRaisesOnce` | with one alert-eval worker, `Spec => []OneAlertPerWindow` |
| `DeliveryProofs` | `DeliveryTypeCorrect` | `Spec => []TypeOK` |
| | `OneChain` | `Spec => []ChainsBounded` |
| | `AttemptsEnd` | `Spec => []AttemptsBounded` |
| | `MessageSentOnce` | `Spec => []SentOnce` |
| | `DeliveryImplements` | `Spec => ImplementsIntent` |
| `KpiGraphProofs` | `StaysAcyclic` | `GraphSpec => []AcyclicUnlessRaced` |
| | `ChecksAreExact` | a cycle check refuses exactly the edges that close a loop |
| | `LevelsAreComputed` | `GraphSpec => []ComputesDepths` |
| | `LevelsSettle` | `GraphSpec => []LevelsAreDepths` |
| `HierarchyProofs` | `OrgTypeCorrect` | `OrgSpec => []OrgTypeOK` |
| | `StaysForest` | `OrgSpec => []HierarchyIsForest` |
| | `NobodyIsLost` | `OrgSpec => []EveryoneKeepsAUnit` |
| | `ProgressSettles` | `OkrSpec => []ProgressFollowsResults` |
| | `MeanIsProgress` | `ObjectiveProgress` of progresses lies between 0 and 1 |
| | `HierarchiesTyped` | `HierarchiesSpec => []HierarchiesTypeOK` |
| `AccessProofs` | `AccessIsRecent` | `AccessSpec => []StaleWithinLifetimes` |
| | `DropsAreComplete` | `AccessSpec => []DroppedChangesAreSeen` |
| | `EndedStayEnded` | `AccountsSpec => []EndedChainsStayEnded` |
| | `OldSessionsEnd` | `AccountsSpec => []OldPasswordSessionsEnd` |
| | `BlockedStaySignedOut` | `AccountsSpec => []BlockedAreSignedOut` |
| `ServicesProofs` | `ValuesAreFresh` | `EngineSpec => []FreshUnlessLost` |
| | `NeverGoesBack` | `EngineSpec => NeverOlder` |
| | `OnboardingMakesDraft` | `OnboardingSpec => []OrganizationFollowsDraft` |
| | `ReportIsRun` | `ReportsSpec => []ScheduleFollowsReport` |
| | `OnlyFailuresDisable` | `WebhooksSpec => DisabledForFailures` |
| | `StreamsAreServed` | `RealtimeSpec => []StreamsGetEvents` |
| | `ServicesTyped` | `ServicesSpec => []ServicesTypeOK` |

Each rests on an inductive invariant, which TLC checked on a small instance
before it was proved, and on a preservation lemma per action.

*Approvals.* None of the safety properties is inductive: what a
call writes was computed from a row that other calls have since replaced.
`IInv == TypeOK /\ CallsSound /\ RowsSound` therefore says of every call in
flight that the votes it carries are already fit to be written (one per user,
none of the requester, quorum and role if it is going to apply, an accepted
approval behind it), and of every row that status and decisions agree.
`RowsPersist` (rows are never deleted, requester and entity never change) lets
a call's facts survive the steps of others. `NextType`, `NextCalls` and
`NextRowsSound` prove preservation action by action; each theorem is then a
consequence of `IInv`.

*Serial calls.* `SInv` adds, under the assumption that at most one call is in
flight, that what this call read is still what the row holds and that a request
is applied only once it is APPROVED. Under it every step of `Approvals` is a
step of `ApprovalIntent` or leaves its variables unchanged, which gives the
refinement. The overlap runs show that the assumption is needed.

*Alerting.* `LevelInv` adds to the types that what a worker is about to queue is
backed: the alert it holds exists, the level it works on is queued, and a worker
past `Notify` has notified (`Known`, `FiredHold`). Counts of alerts need two more
invariants. `CountInv` says that a job in work is active and has one worker
(`JobsHeld`), and that without a crash a point has no alert yet of a rule that
is still to be decided (`PointCount`): this is where the fixed id of the
evaluation job enters, which makes a second enqueue no job. `WindowInv` says
that nothing lies in the window of a rule the worker has found free of alerts;
only a second worker could put something there between the query and the
insert, so the theorem assumes one, as the default concurrency of one API
process gives; with several processes the two statements can overlap.

*Escalation.* `FireInv` counts. `LevelsHeld` and `Reruns` say that a level which
is still to notify has not, except for the jobs a crash made active again, and
that of these there were at most as many as workers, once per crash.
`OneLevelAhead` says that without a crash one level of an alert is queued or in
work at a time. `LateCounts` adds up the levels that notified after the alert
was closed and those a worker has loaded and may yet send. The proof corrected
`AcknowledgeHalts`: it used to allow two late notifications after a crash, which
held only because the instance has two workers. After a crash the levels that
were active run again side by side, and each worker may have loaded one, so the
bound is their number.

*Deliveries.* `DeliveryInv` keeps, for each delivery, one account: what it has
sent, what is retried and what the attempts in progress may still send or retry
is no more than one chain, the manual retries and the crashes pay for
(`Counted`). A job that is ending owes nothing: its chain lives on in the
successor it queued, or is over, and only a crash makes it one again (`CrashAtEnd`
pays for that). `Spent` handles the numbers: an attempt whose number is the
largest leaves that much less to come. `Recount` says what a step of one caller does to
the number of callers with a property, and every action's lemma is an instance.

*Delivery refines its intent.* `SerialInv` adds what holds of a delivery that
nothing disturbed (`Calm`). `DeliveryInv` leaves it one chain: an attempt in
progress is the only one and no retry waits (`Alone`), or a retry waits and nobody
attempts it (`Waiting`). So what the attempt read of the row still holds when it
writes (`Placed`): its number is one more than the row's, nothing was sent before
it, and only the deletion of the row can have come between. `StepAdvances` maps
every step: of a calm delivery to a `Step` of the intent, of any other, and every
fault and manual retry, to `Disturb`. Unlike that of the approvals this refinement
assumes no number of callers, since the code itself serializes the attempts of a
row by scheduling the next one only when the last has been recorded;
`delivery_resent` shows what one manual retry does to it.

*Graphs.* `AcyclicUnlessRaced` is not inductive, because an attach writes long
after its check. `GInv` adds `Shapes`, what the proof needs of the types, and
`ChecksHold`: every check that nobody overtook would still come out the same.
Two lemmas carry the argument. `CascadeCheckSound`: an edge whose parent the
walk does not reach from the child closes no loop, since the set that proves it
unreached splits any loop. `FormulaCheckSound`: the same for all the references
of a formula at once, though the code checks them one by one against the old
edges, because all the new edges end in the dependent. `HarmlessStep` disposes
of every step that only removes edges, by monotonicity of `Reachable`;
`CheckStep`, `SaveFormulaStep` and `SaveCascadeStep` are the remaining ones.
`Reachable` is defined as the least closed set, not by recursion on the walk,
which keeps it within the prover's reach. `ChecksAreExact` adds the converse: what
the checks refuse would have closed a loop.

*Levels.* The library's induction theorems are out of the provers' reach, but its
minimum of a well-founded set is not: `FromZero` states induction for a set of
naturals, and `Iterates` that a recursion over `0..N` has a solution, so that the
recursive functions in `ComputeLevels` and `Depth` are what their equations say.
`Served` is the loop invariant of Kahn's algorithm, for the set of KPIs that have
left the queue: the queue holds those with all their parents in the set, the
counters what is missing, and levels are right as far as the set goes. After as
many steps as there are KPIs the queue is empty, and without a cycle everybody
was served (`AllServed`); which node the queue gives does not matter.
`LongestPath` turns the equations of the levels into the length of the longest
path. `LevelsInv` says of the rows, unless disturbed, that what a recomputation
has still to write is right for the present cascades, and that every row is right
or some recomputation will read or write it. A recomputation that reads alone
restores this after whatever went before, failures included.

*Engine.* `EngineInv` is about coverage: unless a change was lost, every value
has seen the latest point of each of its sources, or something will still bring
it: a waiting job, a run that will enqueue the job, or a run that has yet to read
that source or has read what it holds now (`Covered`). `NotOlder` says of every
run that reads that what it has read is no older than the value it will replace:
points only grow and a job has one run at a time (`Held`) as long as nobody
recomputes by hand. `NeverOlder` follows.

*Org units.* The walk of `assertNotDescendant` reads one row per step while
others write. `OrgInv` adds `WalksHold`: of a request nobody has overtaken, the
unit to be moved is not among those the walk has seen, and these are closed
under "parent" up to where the walk stands. When it reaches the root, that set
separates the unit from its new parent, and `AdmittedBreaksNothing` concludes
that the write closes no loop. Memberships (`NobodyIsLost`) need only the types
beside themselves; `TransferKeeps` is what merge and split share.

*Objectives.* `OkrInv` says that what a roll-up has read is still so, or the
objective is marked outdated (`ReadsSound`; an update keeps only that its key
result stays where it was, since the roll-up after it reads everything again), and that every key result and every
objective is right unless it is marked or some request is on its way to write it
(`ResultsFollow`, `ObjectivesFollow`). Whoever changes an input of an objective
goes on to roll up exactly that objective, which carries the second part from
level to level. `ObjectiveProgress` is a fold and stays opaque: two roll-ups
agree when they saw the same inputs, and only its value on no input is used.
Initially all objectives are rolled up; no initial state of the instance is
excluded by that.

*Access caches.* An entry is made from reads of different times and, for a
profile, from another entry. `AccessInv == AccessKinds /\ Ages /\ Current` says of
entries and of resolutions alike, stage by stage, how old what they have read
can be (`Slack`, `Age`) and which changes it can have missed: only those still
to drop the caches, those that never will here, and those that dropped them
behind a read. `AccessKinds` are the types without the bounds of the instances.

*Accounts.* A chain of tokens has gaps: a rotation issues the successor before
it links the old row to it, and a request may issue or link after a revocation
has passed. `past.line` is the set of tokens a token descends from, with itself.
`AccountInv` says that whatever ended a chain cuts every live descendant off: on
the line to it there is a later token that went astray, or is about to be linked
by a rotation that was overtaken (`Cut`, `Loose`). `RowsLink` carries it: a live
row links to none, and a row that was revoked is linked to the next one on the
line or that one is loose, so that a walk which revokes a row goes on to the
next: to the one it read, the one linked to since being astray. `OldPasswords`, `SignedOut` and `PurgedBare` say the same of the
revocations of all sessions. TLC checked it with five tokens before the proof.

*Onboarding.* `OnboardingInv` adds that, unless a patch was lost, what each
request has read of the draft is what the accepted patches amounted to at the
time (`DraftsAgree`), and that no completion is under way once an organization
exists (`OneCompletion`).

*Reports.* `ScheduleInv` says, unless requests overlapped or one stopped
halfway, what the request under way has done to the repeatable jobs by each of
its stages (`Reached`): this is where the order of the statements enters.
`RunsInv` is about the worker: runs are numbered without gaps and each is paid
for by a job that fell due or a fault, so that the next one exists; a run is
sent before it is closed and closed before the report is stamped; one that is
open is somebody's, unless it was cut.

*Webhooks.* `FailuresRefused` says of a subscription that the failures counted
and those still to be counted are refusals the endpoint has given in a row, and
that a success which is still to be recorded has none beside it. A counter at
the threshold therefore stands for as many refusals, however the increments and
the switch-off interleave.

*Realtime.* `CountsStreams` says that the last command on its way to Redis agrees
with the number of open streams. `StreamsOwed` says what each stream has to get:
instead of induction over the two sequences, of events received and events owed,
a function matches each event that arrives to the place where it is owed
(`OnTheWay`), and every step extends or shifts it.

*Types of the composed modules.* A component's invariant says what its proof needs
of the types; `HierarchiesTyped` and `ServicesTyped` add the bounds, which are
seldom inductive alone. Progress: the weighted mean of fractions between 0 and 1
is one (`MeanIsProgress`), which takes sums of fractions over a common
denominator. Levels: a path visits a KPI once. Versions of an access source: a
change needs their sum to be below `MaxWrites`, which each of them then is too
(`VersionsSum`, `VersionGrows`). Passwords: each one set, and each a request is
about to store, has its own request (`AccountsBounded`). Attempts of a delivery:
one that may still be posted has an attempt left, and no two workers post one
(`DeliveriesTyped`). Open streams: none is counted that was not opened
(`UsageCounted`). Sums are folds, recursive functions over sets: `FiniteSums`
shows that the recursion has a solution and that it adds up the terms in any
order (`FoldExists`, `SumsUp`, `SameFold`). `ServicesInv` and `HierarchiesKinds`
say of the component at work that its invariant holds, and each component's step
lemmas carry that.

*Only model-checked.* Liveness (`ApprovedIsApplied`, `EscalationRuns`,
`RetriedUntilSettled`, `PropagationEnds`) is outside the prover's reach, as is
ENABLED. `LaterChangeSeen` and the other properties of runs that expect a
violation have nothing to prove.

## 6. Not modelled

*Left out of the modules.* The payload of an edit, the text of a notification,
threshold comparison, the evaluation of formulas and the aggregation of rollups,
periods of data, several tenants, and permissions in front of the endpoints.
Real time (cooldown, backoff and delay) is an order of steps, except in
`AccessCache`. Token expiry, MFA, the rotation of webhook secrets, unit heads
and types, and the names of things. The queue's limit of kept jobs matters only
for the digest; elsewhere a finished job id is taken as kept for good. Retry job
ids contain the millisecond, and two of one delivery in the same millisecond are
treated as different. Deleting an alert happens only through its KPI or
organization and appears as `Cascade` of its deliveries. The reconnection of the
Redis client and what BullMQ does inside Redis are external.

*Components without a module.* The AI budget admits concurrent calls by design
and has no bound that could be checked; admission by the rate limit is one
MULTI. Tasks, comments, dashboards, metadata and the administration of an
organization are single rows written behind an existence check. The workflow
rules, the formula evaluator, anomaly detection, forecasts, rendering and
imports are functions of their input, floating-point for the most part, which
unit tests reach better. Connectors, e-mail, storage, language models and the ML
sidecar are input and output. Most of the repository's lines are the user
interface (every state change it causes is a call of the API) and such code; the
modules stand for the small part in which the order of steps decides.
