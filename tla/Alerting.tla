------------------------------- MODULE Alerting -------------------------------
(***************************************************************************)
(* Alert evaluation and escalation.  A recorded data point enqueues an     *)
(* alert-eval job; a worker evaluates the active rules, suppresses within  *)
(* the cooldown window, creates the alert and enqueues escalation level 0. *)
(* Each escalation job checks that the alert is still OPEN, notifies, and  *)
(* enqueues the next level.  Jobs live in Redis, rows in Postgres, and the *)
(* API process that runs the workers may die between any two writes.       *)
(***************************************************************************)
EXTENDS Naturals, FiniteSets

CONSTANTS
    Rules,
    Points,        \* data points, one alert-eval job each
    Breaches,      \* <<point, rule>>: the value triggers the rule, unless it is NO_DATA
    Alerts,        \* alert ids
    EvalWorkers, EscWorkers,  \* one of each per API process (concurrency 1)
    MaxLevels,     \* bound: levels of an escalation policy
    MaxScans,      \* bound: NO_DATA cron ticks
    PolicySizes,   \* bound: the numbers of levels a policy is given
    MaxTrouble,    \* bound: rule edits, swallowed Redis errors and crashes together
    None

ASSUME AlertingAssumption ==
    /\ Breaches \subseteq Points \X Rules
    /\ MaxLevels \in Nat \ {0} /\ PolicySizes \subseteq 0..MaxLevels
    /\ MaxScans \in Nat /\ MaxTrouble \in Nat
    /\ None \notin Rules /\ None \notin Points
    /\ IsFiniteSet(Alerts) /\ IsFiniteSet(EscWorkers)

VARIABLES
    rule,     \* AlertRule rows with the number of levels of their EscalationRule
    job,      \* alert-eval jobs: one per point, and the cron scan under None
    eval,     \* what each alert-eval worker is doing
    alert,    \* Alert rows, None while the id is unused
    esc,      \* escalation jobs, by alert and level
    fire,     \* what each escalation worker is doing
    fired,    \* history: notifications of each alert and level
    late,     \* history: notifications sent after an alert left OPEN
    scans, edits, hiccups, crashes

evalVars == <<job, eval, scans>>
escVars == <<esc, fire, fired, late>>
vars == <<rule, job, eval, alert, esc, fire, fired, late, scans, edits, hiccups, crashes>>

------------------------------------------------------------------------------
Levels == 0..(MaxLevels - 1)
Jobs == Points \cup {None}
\* type and cooldown (config.cooldownMinutes > 0) are set at creation only.
RuleRows == [phase : {"new", "live", "deleted"}, type : {"NO_DATA", "OTHER"}, cooldown : BOOLEAN,
             active : BOOLEAN, levels : 0..MaxLevels]
\* origin and point are history: the rule and the job that raised the alert.
\* recent: created within the cooldown window.
AlertRows == [rule : Rules \cup {None}, status : {"OPEN", "ACKNOWLEDGED", "RESOLVED"},
              recent : BOOLEAN, origin : Rules, point : Jobs]
ASSUME NoneAssumption == None \notin AlertRows
Idle == [stage |-> "idle"]
\* todo: triggered rules of the findMany not handled yet
Evaluating == [stage : {"next"}, job : Jobs, todo : SUBSET Rules]
Raising == [stage : {"create"}, job : Jobs, todo : SUBSET Rules, rule : Rules]
Raised == [stage : {"enqueue"}, job : Jobs, todo : SUBSET Rules, alert : Alerts]
Firing == [stage : {"loaded", "fired", "scheduled"}, alert : Alerts, level : Levels, levels : 0..MaxLevels]

Trouble == edits + hiccups + crashes < MaxTrouble
Active(r) == rule[r].phase = "live" /\ rule[r].active
Raisedby(r) == {a \in Alerts : alert[a] # None /\ alert[a].rule = r}
Recent(r) == {a \in Raisedby(r) : alert[a].recent}

\* Mutant: the job has no id of its own, so nothing is ignored.
AddAnyway(jobs, a, l) == [jobs EXCEPT ![a][l] = "delayed"]
\* Queue.add with a custom jobId: ignored while a job of that id is in any
\* state, completed and kept included.
AddLevel(jobs, a, l) ==
    IF jobs[a][l] = "none" THEN [jobs EXCEPT ![a][l] = "delayed"] ELSE jobs

------------------------------------------------------------------------------
Init ==
    /\ rule = [r \in Rules |-> [phase |-> "new", type |-> "OTHER", cooldown |-> FALSE,
                               active |-> FALSE, levels |-> 0]]
    /\ job = [j \in Jobs |-> "none"]
    /\ eval = [w \in EvalWorkers |-> Idle]
    /\ alert = [a \in Alerts |-> None]
    /\ esc = [a \in Alerts |-> [l \in Levels |-> "none"]]
    /\ fire = [v \in EscWorkers |-> Idle]
    /\ fired = [a \in Alerts |-> [l \in Levels |-> 0]]
    /\ late = [a \in Alerts |-> 0]
    /\ scans = 0 /\ edits = 0 /\ hiccups = 0 /\ crashes = 0

(* Rules *)

CreateRule(r, row) ==
    /\ rule[r].phase = "new" /\ row.phase = "live" /\ row.levels \in PolicySizes
    /\ rule' = [rule EXCEPT ![r] = row]
    /\ UNCHANGED <<evalVars, alert, escVars, edits, hiccups, crashes>>

\* update() writes the rule row, then the policy: two statements, either of
\* which a call may leave out.
SetActive(r, active) ==
    /\ rule[r].phase = "live" /\ Trouble
    /\ rule' = [rule EXCEPT ![r].active = active]
    /\ edits' = edits + 1
    /\ UNCHANGED <<evalVars, alert, escVars, hiccups, crashes>>

SetLevels(r, levels) ==
    /\ rule[r].phase = "live" /\ Trouble
    /\ rule' = [rule EXCEPT ![r].levels = levels]
    /\ edits' = edits + 1
    /\ UNCHANGED <<evalVars, alert, escVars, hiccups, crashes>>

\* The policy goes with the rule, its alerts keep a null alertRuleId.
RemoveRule(r) ==
    /\ rule[r].phase = "live" /\ Trouble
    /\ rule' = [rule EXCEPT ![r].phase = "deleted", ![r].levels = 0]
    /\ alert' = [a \in Alerts |-> IF a \in Raisedby(r)
                                  THEN [alert[a] EXCEPT !.rule = None] ELSE alert[a]]
    /\ edits' = edits + 1
    /\ UNCHANGED <<evalVars, escVars, hiccups, crashes>>

(* Producers *)

\* enqueueEvaluateKpi: jobId eval-<point>, so a second call is ignored.
EnqueueEvaluation(p) ==
    /\ job[p] = "none"
    /\ job' = [job EXCEPT ![p] = "waiting"]
    /\ UNCHANGED <<rule, eval, alert, escVars, scans, edits, hiccups, crashes>>

\* The repeatable NO_DATA scan comes due; its finished jobs do not stand in the way.
ScanDue ==
    /\ job[None] = "none" /\ scans < MaxScans
    /\ job' = [job EXCEPT ![None] = "waiting"]
    /\ scans' = scans + 1
    /\ UNCHANGED <<rule, eval, alert, escVars, edits, hiccups, crashes>>

(* alert-eval worker *)

\* Mutant: finished jobs are removed.
RemovedWhenDone(j) == "none"
\* Evaluations of points are kept when done (removeOnComplete is a count).
Done(j) == IF j = None THEN "none" ELSE "kept"

\* The rules findMany returns that trigger.  Staleness depends on data outside
\* this module, so any of the NO_DATA rules may.
Triggered(j) ==
    IF j = None THEN SUBSET {r \in Rules : Active(r) /\ rule[r].type = "NO_DATA"}
    ELSE {{r \in Rules : Active(r) /\ rule[r].type # "NO_DATA" /\ <<j, r>> \in Breaches}}

StartEvaluation(w, j) ==
    /\ eval[w] = Idle /\ job[j] = "waiting"
    /\ job' = [job EXCEPT ![j] = "active"]
    /\ \E todo \in Triggered(j) :
           eval' = [eval EXCEPT ![w] = [stage |-> "next", job |-> j, todo |-> todo]]
    /\ UNCHANGED <<rule, alert, escVars, scans, edits, hiccups, crashes>>

\* Mutant: only open alerts count for the cooldown.
SuppressedByOpen(r) == rule[r].cooldown /\ \E a \in Recent(r) : alert[a].status = "OPEN"
Suppressed(r) == rule[r].cooldown /\ Recent(r) # {}

\* maybeCreateAlert: the cooldown query.  The alert itself is a later statement.
CheckCooldown(w) ==
    /\ eval[w].stage = "next"
    /\ LET m == eval[w]
       IN \E r \in m.todo :
              eval' = [eval EXCEPT ![w] =
                  IF Suppressed(r) THEN [m EXCEPT !.todo = m.todo \ {r}]
                  ELSE [stage |-> "create", job |-> m.job, todo |-> m.todo \ {r}, rule |-> r]]
    /\ UNCHANGED <<rule, job, alert, escVars, scans, edits, hiccups, crashes>>

\* The database makes a fresh id.
NewId(a) == alert[a] = None /\ a = CHOOSE b \in Alerts : alert[b] = None

\* Mutant: rule and job are swapped.
SwappedAlert(m) == [rule |-> m.job, status |-> "OPEN", recent |-> TRUE,
                    origin |-> m.rule, point |-> m.job]
NewAlert(m) == [rule |-> m.rule, status |-> "OPEN", recent |-> TRUE,
                origin |-> m.rule, point |-> m.job]

\* The insert fails on the foreign key when the rule is gone; the job then
\* fails, is not retried, and the remaining rules are not evaluated.
CreateAlert(w, a) ==
    /\ eval[w].stage = "create" /\ NewId(a)
    /\ LET m == eval[w]
       IN IF rule[m.rule].phase = "live"
          THEN /\ alert' = [alert EXCEPT ![a] = NewAlert(m)]
               /\ eval' = [eval EXCEPT ![w] =
                      [stage |-> "enqueue", job |-> m.job, todo |-> m.todo, alert |-> a]]
               /\ UNCHANGED job
          ELSE /\ eval' = [eval EXCEPT ![w] = Idle]
               /\ job' = [job EXCEPT ![m.job] = Done(m.job)]
               /\ UNCHANGED alert
    /\ UNCHANGED <<rule, escVars, scans, edits, hiccups, crashes>>

\* Mutant: the first level is never scheduled.
NoFirstLevel(jobs, a) == jobs
FirstLevel(jobs, a) == AddLevel(jobs, a, 0)

\* Escalation level 0; a queue error is logged and forgotten.
EnqueueLevel0(w) ==
    /\ eval[w].stage = "enqueue"
    /\ \/ esc' = FirstLevel(esc, eval[w].alert) /\ UNCHANGED hiccups
       \/ Trouble /\ hiccups' = hiccups + 1 /\ UNCHANGED esc
    /\ eval' = [eval EXCEPT ![w] = [stage |-> "next", job |-> @.job, todo |-> @.todo]]
    /\ UNCHANGED <<rule, job, alert, fire, fired, late, scans, edits, crashes>>

FinishEvaluation(w) ==
    /\ eval[w].stage = "next" /\ eval[w].todo = {}
    /\ job' = [job EXCEPT ![eval[w].job] = Done(eval[w].job)]
    /\ eval' = [eval EXCEPT ![w] = Idle]
    /\ UNCHANGED <<rule, alert, escVars, scans, edits, hiccups, crashes>>

(* Users and time *)

Acknowledge(a) ==
    /\ alert[a] # None /\ alert[a].status = "OPEN"
    /\ alert' = [alert EXCEPT ![a].status = "ACKNOWLEDGED"]
    /\ UNCHANGED <<rule, evalVars, escVars, edits, hiccups, crashes>>

Resolve(a) ==
    /\ alert[a] # None /\ alert[a].status # "RESOLVED"
    /\ alert' = [alert EXCEPT ![a].status = "RESOLVED"]
    /\ UNCHANGED <<rule, evalVars, escVars, edits, hiccups, crashes>>

\* Time passes: no alert is within its rule's cooldown window any more.
WindowPasses ==
    /\ alert' = [a \in Alerts |-> IF alert[a] = None THEN None
                                  ELSE [alert[a] EXCEPT !.recent = FALSE]]
    /\ UNCHANGED <<rule, evalVars, escVars, edits, hiccups, crashes>>

(* escalation worker *)

\* Mutant: the OPEN guard is missing.
AnyAlert(a) == alert[a].rule # None
Escalatable(a) == alert[a].status = "OPEN" /\ alert[a].rule # None

\* fireLevel: the alert and its policy are read; the job ends at once when the
\* alert is not open, its rule is gone or the policy has no such level.
StartLevel(v, a, l) ==
    /\ fire[v] = Idle /\ esc[a][l] = "delayed"
    /\ LET levels == IF alert[a].rule = None THEN 0 ELSE rule[alert[a].rule].levels
       IN IF Escalatable(a) /\ l < levels
          THEN /\ fire' = [fire EXCEPT ![v] = [stage |-> "loaded", alert |-> a, level |-> l,
                                               levels |-> levels]]
               /\ esc' = [esc EXCEPT ![a][l] = "active"]
          ELSE esc' = [esc EXCEPT ![a][l] = "kept"] /\ UNCHANGED fire
    /\ UNCHANGED <<rule, evalVars, alert, fired, late, edits, hiccups, crashes>>

\* The level's channels and users are notified.
Notify(v) ==
    /\ fire[v].stage = "loaded"
    /\ LET a == fire[v].alert
       IN /\ fired' = [fired EXCEPT ![a][fire[v].level] = @ + 1]
          /\ late' = IF alert[a].status = "OPEN" THEN late ELSE [late EXCEPT ![a] = @ + 1]
    /\ fire' = [fire EXCEPT ![v].stage = "fired"]
    /\ UNCHANGED <<rule, evalVars, alert, esc, edits, hiccups, crashes>>

\* Mutant: the level after the next is scheduled.
SkipLevel(m) == m.level + 2
NextLevel(m) == m.level + 1

\* The next level, if the policy read has one; a queue error is forgotten.
ScheduleNext(v) ==
    /\ fire[v].stage = "fired"
    /\ LET m == fire[v]
       IN \/ /\ esc' = IF NextLevel(m) < m.levels THEN AddLevel(esc, m.alert, NextLevel(m))
                       ELSE esc
             /\ UNCHANGED hiccups
          \/ /\ NextLevel(m) < m.levels /\ Trouble
             /\ hiccups' = hiccups + 1 /\ UNCHANGED esc
    /\ fire' = [fire EXCEPT ![v].stage = "scheduled"]
    /\ UNCHANGED <<rule, evalVars, alert, fired, late, edits, crashes>>

FinishLevel(v) ==
    /\ fire[v].stage = "scheduled"
    /\ esc' = [esc EXCEPT ![fire[v].alert][fire[v].level] = "kept"]
    /\ fire' = [fire EXCEPT ![v] = Idle]
    /\ UNCHANGED <<rule, evalVars, alert, fired, late, edits, hiccups, crashes>>

\* The API process dies; BullMQ puts its active jobs back to be run again.
Crash ==
    /\ crashes = 0 /\ Trouble   \* a stalled job is restored once
    /\ crashes' = crashes + 1
    /\ job' = [j \in Jobs |-> IF job[j] = "active" THEN "waiting" ELSE job[j]]
    /\ esc' = [a \in Alerts |-> [l \in Levels |->
                  IF esc[a][l] = "active" THEN "delayed" ELSE esc[a][l]]]
    /\ eval' = [w \in EvalWorkers |-> Idle]
    /\ fire' = [v \in EscWorkers |-> Idle]
    /\ UNCHANGED <<rule, alert, fired, late, scans, edits, hiccups>>

EvalStep(w) ==
    \/ \E j \in Jobs : StartEvaluation(w, j)
    \/ CheckCooldown(w)
    \/ \E a \in Alerts : CreateAlert(w, a)
    \/ EnqueueLevel0(w)
    \/ FinishEvaluation(w)

EscStep(v) ==
    \/ \E a \in Alerts, l \in Levels : StartLevel(v, a, l)
    \/ Notify(v)
    \/ ScheduleNext(v)
    \/ FinishLevel(v)

Next ==
    \/ \E r \in Rules, row \in RuleRows : CreateRule(r, row)
    \/ \E r \in Rules, active \in BOOLEAN : SetActive(r, active)
    \/ \E r \in Rules, levels \in PolicySizes : SetLevels(r, levels)
    \/ \E r \in Rules : RemoveRule(r)
    \/ \E p \in Points : EnqueueEvaluation(p)
    \/ ScanDue
    \/ \E a \in Alerts : Acknowledge(a) \/ Resolve(a)
    \/ WindowPasses
    \/ \E w \in EvalWorkers : EvalStep(w)
    \/ \E v \in EscWorkers : EscStep(v)
    \/ Crash

Spec == Init /\ [][Next]_vars

\* The workers of a running process take the jobs that are due and finish them;
\* nobody is obliged to edit, record or acknowledge.
FairSpec ==
    /\ Spec
    /\ \A w \in EvalWorkers : WF_vars(EvalStep(w))
    /\ \A v \in EscWorkers : WF_vars(EscStep(v))

------------------------------------------------------------------------------
(* Properties *)

\* Every variable holds a value of its type.
TypeOK ==
    /\ rule \in [Rules -> RuleRows]
    /\ job \in [Jobs -> {"none", "waiting", "active", "kept"}]
    /\ eval \in [EvalWorkers -> {Idle} \cup Evaluating \cup Raising \cup Raised]
    /\ alert \in [Alerts -> AlertRows \cup {None}]
    /\ esc \in [Alerts -> [Levels -> {"none", "delayed", "active", "kept"}]]
    /\ fire \in [EscWorkers -> {Idle} \cup Firing]
    /\ fired \in [Alerts -> [Levels -> Nat]]
    /\ late \in [Alerts -> Nat]
    /\ scans \in 0..MaxScans /\ edits \in Nat /\ hiccups \in Nat /\ crashes \in {0, 1}
    /\ edits + hiccups + crashes <= MaxTrouble

\* With one alert-eval worker a rule with a cooldown raises at most one alert
\* per window, whatever crashes, acknowledgements and scans come between the
\* cooldown query and the insert.
OneAlertPerWindow ==
    \A r \in Rules : rule[r].cooldown => Cardinality(Recent(r)) <= 1

\* A data point raises at most one alert per rule however often its evaluation
\* is enqueued; only a crash, which runs the job again, may add one.
OneAlertPerPoint ==
    \A r \in Rules, p \in Points :
        Cardinality({a \in Alerts : /\ alert[a] # None
                                    /\ alert[a].origin = r /\ alert[a].point = p}) <= 1 + crashes

\* A level is scheduled only after the level before it notified somebody.
LevelsInOrder ==
    \A a \in Alerts, l \in Levels \ {0} : esc[a][l] # "none" => fired[a][l - 1] > 0

\* A level notifies once.  A crash runs the jobs that were active again, and
\* only those: the levels they had already scheduled are not repeated.
LevelFiresOnce ==
    \A a \in Alerts :
        /\ \A l \in Levels : fired[a][l] <= 1 + crashes
        /\ Cardinality({l \in Levels : fired[a][l] > 1}) <= crashes * Cardinality(EscWorkers)

\* Acknowledging or resolving an alert halts its escalation: at most one level,
\* which a worker had already loaded, may still notify.  A crash runs the levels
\* that were still active again, all at once: then each worker may have loaded one.
AcknowledgeHalts ==
    \A a \in Alerts : late[a] <= IF crashes = 0 THEN 1 ELSE Cardinality(EscWorkers)

\* An open alert whose rule has a policy reaches every level of it, a crash
\* included, unless it is acknowledged or resolved, rules are edited, Redis
\* refuses an enqueue, or the process dies before level 0 is enqueued.
EscalationRuns ==
    \A a \in Alerts, l \in Levels :
        (/\ alert[a] # None
         /\ alert[a].status = "OPEN"
         /\ rule[alert[a].origin].levels > l)
        ~> (\/ fired[a][l] > 0
            \/ alert[a] # None /\ alert[a].status # "OPEN"
            \/ edits > 0 \/ hiccups > 0
            \/ crashes > 0 /\ esc[a][0] = "none")
==============================================================================
