----------------------------- MODULE AlertingProofs -----------------------------
(***************************************************************************)
(* Theorems of Alerting, for any rules, points, alerts, workers and levels. *)
(***************************************************************************)
EXTENDS Alerting, FiniteSetTheorems, TLAPS

\* What exists: a level belongs to an alert that was raised.
Known ==
    /\ \A a \in Alerts, l \in Levels : esc[a][l] # "none" => alert[a] # None
    /\ \A w \in EvalWorkers : eval[w].stage = "enqueue" => alert[eval[w].alert] # None
    /\ \A v \in EscWorkers : fire[v].stage # "idle" => esc[fire[v].alert][fire[v].level] # "none"

\* A level that a worker has fired was notified, and so were those before any scheduled one.
FiredHold ==
    \A v \in EscWorkers : fire[v].stage \in {"fired", "scheduled"} => fired[fire[v].alert][fire[v].level] > 0

LevelInv == TypeOK /\ Known /\ FiredHold /\ LevelsInOrder

------------------------------------------------------------------------------
(* Types *)

EvalStates == {Idle} \cup Evaluating \cup Raising \cup Raised

LEMMA EvalStages ==
    ASSUME NEW m \in EvalStates
    PROVE  /\ m.stage \in {"idle", "next", "create", "enqueue"}
           /\ m.stage = "idle" => m = Idle
           /\ m.stage = "next" => m \in Evaluating
           /\ m.stage = "create" => m \in Raising
           /\ m.stage = "enqueue" => m \in Raised
<1>1. Idle.stage = "idle"
  BY DEF Idle
<1> QED BY <1>1 DEF EvalStates, Evaluating, Raising, Raised

LEMMA FireStages ==
    ASSUME NEW m \in {Idle} \cup Firing
    PROVE  /\ m.stage = "idle" => m = Idle
           /\ m.stage \in {"loaded", "fired", "scheduled"} => m \in Firing
           /\ m \in Firing => m.stage \in {"loaded", "fired", "scheduled"} /\ m.alert \in Alerts
                              /\ m.level \in Levels /\ m.levels \in 0..MaxLevels
<1>1. Idle.stage = "idle"
  BY DEF Idle
<1> QED BY <1>1 DEF Firing

\* The rows and jobs of the evaluation side, and those of the escalation side.
EvalTyped == /\ job \in [Jobs -> {"none", "waiting", "active", "kept"}]
             /\ eval \in [EvalWorkers -> EvalStates]
EscTyped == /\ esc \in [Alerts -> [Levels -> {"none", "delayed", "active", "kept"}]]
            /\ fire \in [EscWorkers -> {Idle} \cup Firing]
            /\ fired \in [Alerts -> [Levels -> Nat]]
            /\ late \in [Alerts -> Nat]
Bounded == /\ edits \in Nat /\ hiccups \in Nat /\ crashes \in {0, 1}
           /\ edits + hiccups + crashes <= MaxTrouble
RowsTyped == rule \in [Rules -> RuleRows] /\ alert \in [Alerts -> AlertRows \cup {None}]

LEMMA TypeParts == TypeOK <=> RowsTyped /\ EvalTyped /\ EscTyped /\ Bounded /\ scans \in 0..MaxScans
BY DEF TypeOK, RowsTyped, EvalTyped, EscTyped, Bounded, EvalStates

LEMMA TypeInit == Init => TypeOK
<1> SUFFICES ASSUME Init PROVE TypeOK
  OBVIOUS
<1>1. MaxLevels \in Nat /\ MaxScans \in Nat /\ MaxTrouble \in Nat
  BY AlertingAssumption DEF AlertingAssumption
<1>2. RowsTyped
  BY <1>1 DEF Init, RowsTyped, RuleRows
<1>3. EvalTyped /\ EscTyped
  BY DEF Init, EvalTyped, EscTyped, EvalStates
<1>4. Bounded /\ scans \in 0..MaxScans
  BY <1>1 DEF Init, Bounded
<1> QED BY <1>2, <1>3, <1>4, TypeParts

\* A fault or an edit is counted.
LEMMA TroubleCounts ==
    ASSUME Bounded, Trouble,
           \/ edits' = edits + 1 /\ UNCHANGED <<hiccups, crashes>>
           \/ hiccups' = hiccups + 1 /\ UNCHANGED <<edits, crashes>>
           \/ crashes = 0 /\ crashes' = crashes + 1 /\ UNCHANGED <<edits, hiccups>>
    PROVE  Bounded'
BY AlertingAssumption DEF AlertingAssumption, Bounded, Trouble

\* Steps that change rules and alerts, and count.
LEMMA RuleStepTyped ==
    ASSUME TypeOK,
           \/ \E r \in Rules, row \in RuleRows : CreateRule(r, row)
           \/ \E r \in Rules, active \in BOOLEAN : SetActive(r, active)
           \/ \E r \in Rules, levels \in PolicySizes : SetLevels(r, levels)
           \/ \E r \in Rules : RemoveRule(r)
    PROVE  TypeOK'
<1>1. RowsTyped /\ EvalTyped /\ EscTyped /\ Bounded /\ scans \in 0..MaxScans
  BY TypeParts
<1>2. UNCHANGED <<evalVars, escVars, hiccups, crashes>>
  BY DEF CreateRule, SetActive, SetLevels, RemoveRule
<1>3. EvalTyped' /\ EscTyped' /\ scans' \in 0..MaxScans
  BY <1>1, <1>2 DEF EvalTyped, EscTyped, evalVars, escVars
<1>4. ASSUME NEW r \in Rules, NEW row \in RuleRows, CreateRule(r, row) PROVE RowsTyped' /\ Bounded'
  BY <1>1, <1>4 DEF CreateRule, RowsTyped, Bounded
<1>5. ASSUME NEW r \in Rules, NEW active \in BOOLEAN, SetActive(r, active) PROVE RowsTyped' /\ Bounded'
  <2>1. [rule[r] EXCEPT !.active = active] \in RuleRows
    BY <1>1 DEF RowsTyped, RuleRows
  <2>2. rule' = [rule EXCEPT ![r] = [rule[r] EXCEPT !.active = active]] /\ UNCHANGED alert
    BY <1>1, <1>5 DEF SetActive, RowsTyped
  <2>3. RowsTyped'
    BY <1>1, <2>1, <2>2 DEF RowsTyped
  <2> QED BY <1>1, <1>5, <2>3, TroubleCounts DEF SetActive
<1>6. ASSUME NEW r \in Rules, NEW levels \in PolicySizes, SetLevels(r, levels) PROVE RowsTyped' /\ Bounded'
  <2>1. [rule[r] EXCEPT !.levels = levels] \in RuleRows
    BY <1>1, AlertingAssumption DEF AlertingAssumption, RowsTyped, RuleRows
  <2>2. rule' = [rule EXCEPT ![r] = [rule[r] EXCEPT !.levels = levels]] /\ UNCHANGED alert
    BY <1>1, <1>6 DEF SetLevels, RowsTyped
  <2>3. RowsTyped'
    BY <1>1, <2>1, <2>2 DEF RowsTyped
  <2> QED BY <1>1, <1>6, <2>3, TroubleCounts DEF SetLevels
<1>7. ASSUME NEW r \in Rules, RemoveRule(r) PROVE RowsTyped' /\ Bounded'
  <2>0. 0 \in 0..MaxLevels /\ rule[r] \in RuleRows
    BY <1>1, AlertingAssumption DEF AlertingAssumption, RowsTyped
  <2>1. [rule[r] EXCEPT !.phase = "deleted", !.levels = 0] \in RuleRows
    BY <2>0 DEF RuleRows
  <2>2. rule' = [rule EXCEPT ![r] = [rule[r] EXCEPT !.phase = "deleted", !.levels = 0]]
    BY <1>1, <1>7 DEF RemoveRule, RowsTyped
  <2>3. rule' \in [Rules -> RuleRows]
    BY <1>1, <2>1, <2>2 DEF RowsTyped
  <2>4. \A a \in Raisedby(r) : [alert[a] EXCEPT !.rule = None] \in AlertRows
    BY <1>1 DEF Raisedby, RowsTyped, AlertRows
  <2>5. alert' \in [Alerts -> AlertRows \cup {None}]
    BY <1>1, <1>7, <2>4 DEF RemoveRule, RowsTyped
  <2>6. RowsTyped'
    BY <2>3, <2>5 DEF RowsTyped
  <2> QED BY <1>1, <1>7, <2>6, TroubleCounts DEF RemoveRule
<1>8. RowsTyped' /\ Bounded'
  BY <1>4, <1>5, <1>6, <1>7, Zenon
<1>9. TypeOK'
  BY <1>3, <1>8 DEF TypeOK, RowsTyped, EvalTyped, EscTyped, Bounded, EvalStates
<1> QED BY <1>9

\* Users close alerts and time passes.
LEMMA AlertStepTyped ==
    ASSUME TypeOK, (\E a \in Alerts : Acknowledge(a) \/ Resolve(a)) \/ WindowPasses
    PROVE  TypeOK'
<1>1. RowsTyped /\ EvalTyped /\ EscTyped /\ Bounded /\ scans \in 0..MaxScans
  BY TypeParts
<1>2. UNCHANGED <<rule, evalVars, escVars, edits, hiccups, crashes>>
  BY DEF Acknowledge, Resolve, WindowPasses
<1>3. alert' \in [Alerts -> AlertRows \cup {None}]
  <2>1. ASSUME NEW a \in Alerts, Acknowledge(a) \/ Resolve(a) PROVE alert' \in [Alerts -> AlertRows \cup {None}]
    <3>1. alert[a] \in AlertRows
      BY <1>1, <2>1 DEF Acknowledge, Resolve, RowsTyped
    <3>2. \A st \in {"ACKNOWLEDGED", "RESOLVED"} : [alert[a] EXCEPT !.status = st] \in AlertRows
      BY <3>1 DEF AlertRows
    <3>3. \E st \in {"ACKNOWLEDGED", "RESOLVED"} : alert' = [alert EXCEPT ![a] = [alert[a] EXCEPT !.status = st]]
      BY <1>1, <2>1 DEF Acknowledge, Resolve, RowsTyped
    <3> QED BY <1>1, <3>2, <3>3 DEF RowsTyped
  <2>2. CASE WindowPasses
    <3>1. \A a \in Alerts : alert[a] # None => [alert[a] EXCEPT !.recent = FALSE] \in AlertRows
      BY <1>1 DEF RowsTyped, AlertRows
    <3> QED BY <2>2, <3>1 DEF WindowPasses
  <2> QED BY <2>1, <2>2
<1>4. TypeOK'
  BY <1>1, <1>2, <1>3 DEF TypeOK, RowsTyped, EvalTyped, EscTyped, Bounded, EvalStates, evalVars, escVars
<1> QED BY <1>4

\* A worker's state becomes m.
LEMMA EvalBecomes ==
    ASSUME EvalTyped, NEW w \in EvalWorkers, NEW m \in EvalStates, eval' = [eval EXCEPT ![w] = m]
    PROVE  eval' \in [EvalWorkers -> EvalStates] /\ \A v \in EvalWorkers : eval'[v] = IF v = w THEN m ELSE eval[v]
BY DEF EvalTyped

LEMMA EvalMade ==
    /\ Idle \in EvalStates
    /\ \A j \in Jobs, todo \in SUBSET Rules : [stage |-> "next", job |-> j, todo |-> todo] \in EvalStates
    /\ \A j \in Jobs, todo \in SUBSET Rules, r \in Rules :
           [stage |-> "create", job |-> j, todo |-> todo, rule |-> r] \in EvalStates
    /\ \A j \in Jobs, todo \in SUBSET Rules, a \in Alerts :
           [stage |-> "enqueue", job |-> j, todo |-> todo, alert |-> a] \in EvalStates
BY DEF EvalStates, Evaluating, Raising, Raised

LEMMA JobDone == \A j \in Jobs : Done(j) \in {"none", "kept"}
BY DEF Done

\* The evaluation worker's steps, as seen from its own state m.
LEMMA StartedEvaluation ==
    ASSUME TypeOK, NEW w \in EvalWorkers, NEW j \in Jobs, StartEvaluation(w, j)
    PROVE  \E todo \in SUBSET Rules :
               /\ todo \subseteq {r \in Rules : Active(r)}
               /\ eval' = [eval EXCEPT ![w] = [stage |-> "next", job |-> j, todo |-> todo]]
BY DEF StartEvaluation, Triggered

LEMMA CheckedCooldown ==
    ASSUME TypeOK, NEW w \in EvalWorkers, CheckCooldown(w)
    PROVE  \E m \in Evaluating, r \in Rules, n \in EvalStates :
               /\ m = eval[w] /\ r \in m.todo /\ eval' = [eval EXCEPT ![w] = n]
               /\ \/ Suppressed(r) /\ n = [stage |-> "next", job |-> m.job, todo |-> m.todo \ {r}]
                  \/ ~Suppressed(r) /\ n = [stage |-> "create", job |-> m.job, todo |-> m.todo \ {r}, rule |-> r]
<1>1. PICK m \in Evaluating : m = eval[w]
  BY EvalStages, TypeParts DEF CheckCooldown, EvalTyped
<1>2. PICK r \in m.todo : eval' = [eval EXCEPT ![w] =
               IF Suppressed(r) THEN [m EXCEPT !.todo = m.todo \ {r}]
               ELSE [stage |-> "create", job |-> m.job, todo |-> m.todo \ {r}, rule |-> r]]
  <2>1. PICK r \in eval[w].todo : eval' = [eval EXCEPT ![w] =
                IF Suppressed(r) THEN [eval[w] EXCEPT !.todo = eval[w].todo \ {r}]
                ELSE [stage |-> "create", job |-> eval[w].job, todo |-> eval[w].todo \ {r}, rule |-> r]]
    BY TypeParts DEF CheckCooldown, EvalTyped
  <2> QED BY <1>1, <2>1
<1>3. r \in Rules /\ m.todo \ {r} \in SUBSET Rules /\ m.job \in Jobs
  BY DEF Evaluating
<1>4. [m EXCEPT !.todo = m.todo \ {r}] = [stage |-> "next", job |-> m.job, todo |-> m.todo \ {r}]
  BY DEF Evaluating
<1> DEFINE kept == [stage |-> "next", job |-> m.job, todo |-> m.todo \ {r}]
           made == [stage |-> "create", job |-> m.job, todo |-> m.todo \ {r}, rule |-> r]
<1>5. kept \in EvalStates /\ made \in EvalStates
  BY <1>3, EvalMade
<1>6. CASE Suppressed(r)
  <2>1. eval' = [eval EXCEPT ![w] = kept]
    BY <1>2, <1>4, <1>6
  <2> QED BY <1>1, <1>3, <1>5, <1>6, <2>1
<1>7. CASE ~Suppressed(r)
  <2>1. eval' = [eval EXCEPT ![w] = made]
    BY <1>2, <1>7
  <2> QED BY <1>1, <1>3, <1>5, <1>7, <2>1
<1> QED BY <1>6, <1>7
LEMMA CreatedAlert ==
    ASSUME TypeOK, NEW w \in EvalWorkers, NEW a \in Alerts, CreateAlert(w, a)
    PROVE  \E m \in Raising, n \in EvalStates :
               /\ m = eval[w] /\ eval' = [eval EXCEPT ![w] = n] /\ alert[a] = None
               /\ \/ /\ rule[m.rule].phase = "live"
                     /\ n = [stage |-> "enqueue", job |-> m.job, todo |-> m.todo, alert |-> a]
                     /\ alert' = [alert EXCEPT ![a] = NewAlert(m)] /\ UNCHANGED job
                  \/ n = Idle /\ job' = [job EXCEPT ![m.job] = Done(m.job)] /\ UNCHANGED alert
<1>1. PICK m \in Raising : m = eval[w]
  BY EvalStages, TypeParts DEF CreateAlert, EvalTyped
<1>2. m.job \in Jobs /\ m.todo \in SUBSET Rules
  BY DEF Raising
<1>3. [stage |-> "enqueue", job |-> m.job, todo |-> m.todo, alert |-> a] \in EvalStates /\ Idle \in EvalStates
  BY <1>2, EvalMade
<1>4. CASE rule[m.rule].phase = "live"
  BY <1>1, <1>3, <1>4 DEF CreateAlert, NewId
<1>5. CASE rule[m.rule].phase # "live"
  BY <1>1, <1>3, <1>5 DEF CreateAlert, NewId
<1> QED BY <1>4, <1>5

LEMMA EnqueuedLevel0 ==
    ASSUME TypeOK, NEW w \in EvalWorkers, EnqueueLevel0(w)
    PROVE  \E m \in Raised, n \in EvalStates :
               /\ m = eval[w] /\ eval' = [eval EXCEPT ![w] = n]
               /\ n = [stage |-> "next", job |-> m.job, todo |-> m.todo]
<1>1. PICK m \in Raised : m = eval[w]
  BY EvalStages, TypeParts DEF EnqueueLevel0, EvalTyped
<1>2. m.job \in Jobs /\ m.todo \in SUBSET Rules
  BY DEF Raised
<1>3. [stage |-> "next", job |-> m.job, todo |-> m.todo] \in EvalStates
  BY <1>2, EvalMade
<1> QED BY <1>1, <1>3 DEF EnqueueLevel0

LEMMA FinishedEvaluation ==
    ASSUME TypeOK, NEW w \in EvalWorkers, FinishEvaluation(w)
    PROVE  \E m \in Evaluating :
               /\ m = eval[w] /\ eval' = [eval EXCEPT ![w] = Idle]
               /\ job' = [job EXCEPT ![m.job] = Done(m.job)]
BY EvalStages, TypeParts DEF FinishEvaluation, EvalTyped

\* A level is added once.
LEMMA LevelAdded ==
    ASSUME EscTyped, NEW a \in Alerts, NEW l \in Levels
    PROVE  /\ AddLevel(esc, a, l) \in [Alerts -> [Levels -> {"none", "delayed", "active", "kept"}]]
           /\ \A b \in Alerts, k \in Levels : AddLevel(esc, a, l)[b][k] =
                  IF b = a /\ k = l /\ esc[a][l] = "none" THEN "delayed" ELSE esc[b][k]
BY DEF EscTyped, AddLevel

LEMMA LevelZero == 0 \in Levels
BY AlertingAssumption DEF AlertingAssumption, Levels

LEMMA EvalStepTyped ==
    ASSUME TypeOK, NEW w \in EvalWorkers, EvalStep(w)
    PROVE  TypeOK'
<1>1. RowsTyped /\ EvalTyped /\ EscTyped /\ Bounded /\ scans \in 0..MaxScans
  BY TypeParts
<1>2. ASSUME NEW j \in Jobs, StartEvaluation(w, j) PROVE TypeOK'
  <2>1. PICK todo \in SUBSET Rules : eval' = [eval EXCEPT ![w] = [stage |-> "next", job |-> j, todo |-> todo]]
    BY <1>2, StartedEvaluation
  <2>2. eval' \in [EvalWorkers -> EvalStates]
    BY <1>1, <2>1, EvalMade, EvalBecomes
  <2>3. EvalTyped'
    BY <1>1, <1>2, <2>2 DEF StartEvaluation, EvalTyped
  <2> QED BY <1>1, <1>2, <2>3 DEF StartEvaluation, TypeOK, RowsTyped, EvalTyped, EscTyped, Bounded, EvalStates, escVars
<1>3. CASE CheckCooldown(w)
  <2>1. PICK n \in EvalStates : eval' = [eval EXCEPT ![w] = n]
    BY <1>3, CheckedCooldown
  <2>2. EvalTyped'
    BY <1>1, <1>3, <2>1, EvalBecomes DEF CheckCooldown, EvalTyped
  <2> QED BY <1>1, <1>3, <2>2 DEF CheckCooldown, TypeOK, RowsTyped, EvalTyped, EscTyped, Bounded, EvalStates, escVars
<1>4. ASSUME NEW a \in Alerts, CreateAlert(w, a) PROVE TypeOK'
  <2>1. PICK m \in Raising, n \in EvalStates :
            /\ eval' = [eval EXCEPT ![w] = n]
            /\ \/ alert' = [alert EXCEPT ![a] = NewAlert(m)] /\ UNCHANGED job
               \/ job' = [job EXCEPT ![m.job] = Done(m.job)] /\ UNCHANGED alert
    BY <1>4, CreatedAlert
  <2>2. eval' \in [EvalWorkers -> EvalStates]
    BY <1>1, <2>1, EvalBecomes
  <2>3. job' \in [Jobs -> {"none", "waiting", "active", "kept"}]
    BY <1>1, <2>1, JobDone DEF EvalTyped, Raising
  <2>4. NewAlert(m) \in AlertRows
    BY DEF NewAlert, AlertRows, Raising
  <2>5. alert' \in [Alerts -> AlertRows \cup {None}]
    BY <1>1, <2>1, <2>4 DEF RowsTyped
  <2> QED BY <1>1, <1>4, <2>2, <2>3, <2>5
          DEF CreateAlert, TypeOK, RowsTyped, EscTyped, Bounded, EvalStates, escVars
<1>5. CASE EnqueueLevel0(w)
  <2>1. PICK m \in Raised, n \in EvalStates : m = eval[w] /\ eval' = [eval EXCEPT ![w] = n]
    BY <1>5, EnqueuedLevel0
  <2>2. EvalTyped'
    BY <1>1, <1>5, <2>1, EvalBecomes DEF EnqueueLevel0, EvalTyped
  <2>3. /\ esc' \in [Alerts -> [Levels -> {"none", "delayed", "active", "kept"}]]
        /\ Bounded'
    <3>1. CASE esc' = FirstLevel(esc, m.alert) /\ UNCHANGED hiccups
      <4>1. m.alert \in Alerts
        BY DEF Raised
      <4>2. AddLevel(esc, m.alert, 0) \in [Alerts -> [Levels -> {"none", "delayed", "active", "kept"}]]
        BY <1>1, <4>1, LevelZero, LevelAdded
      <4> QED BY <1>1, <1>5, <3>1, <4>2 DEF EnqueueLevel0, FirstLevel, Bounded
    <3>2. CASE Trouble /\ hiccups' = hiccups + 1 /\ UNCHANGED esc
      <4>1. Bounded'
        BY <1>1, <1>5, <3>2, TroubleCounts DEF EnqueueLevel0
      <4> QED BY <1>1, <3>2, <4>1 DEF EscTyped
    <3> QED BY <1>5, <2>1, <3>1, <3>2 DEF EnqueueLevel0
  <2> QED BY <1>1, <1>5, <2>2, <2>3 DEF EnqueueLevel0, TypeOK, RowsTyped, EvalTyped, EscTyped, Bounded, EvalStates
<1>6. CASE FinishEvaluation(w)
  <2>1. PICK m \in Evaluating : /\ eval' = [eval EXCEPT ![w] = Idle]
                                /\ job' = [job EXCEPT ![m.job] = Done(m.job)]
    BY <1>6, FinishedEvaluation
  <2>2. eval' \in [EvalWorkers -> EvalStates]
    BY <1>1, <2>1, EvalMade, EvalBecomes
  <2>3. job' \in [Jobs -> {"none", "waiting", "active", "kept"}]
    BY <1>1, <2>1, JobDone DEF EvalTyped, Evaluating
  <2> QED BY <1>1, <1>6, <2>2, <2>3
          DEF FinishEvaluation, TypeOK, RowsTyped, EscTyped, Bounded, EvalStates, escVars
<1> QED BY <1>2, <1>3, <1>4, <1>5, <1>6 DEF EvalStep

\* The producers of evaluation jobs, and a crash.
LEMMA JobStepTyped ==
    ASSUME TypeOK, (\E p \in Points : EnqueueEvaluation(p)) \/ ScanDue \/ Crash
    PROVE  TypeOK'
<1>1. RowsTyped /\ EvalTyped /\ EscTyped /\ Bounded /\ scans \in 0..MaxScans
  BY TypeParts
<1>2. ASSUME NEW p \in Points, EnqueueEvaluation(p) PROVE TypeOK'
  BY <1>1, <1>2 DEF EnqueueEvaluation, TypeOK, RowsTyped, EvalTyped, EscTyped, Bounded, EvalStates, escVars
<1>3. CASE ScanDue
  <2>1. scans' \in 0..MaxScans
    BY <1>1, <1>3, AlertingAssumption DEF AlertingAssumption, ScanDue
  <2> QED BY <1>1, <1>3, <2>1 DEF ScanDue, TypeOK, RowsTyped, EvalTyped, EscTyped, Bounded, EvalStates, escVars
<1>4. CASE Crash
  <2>1. Bounded'
    BY <1>1, <1>4, TroubleCounts DEF Crash
  <2>2. EvalTyped'
    BY <1>1, <1>4 DEF Crash, EvalTyped, EvalStates
  <2>3. EscTyped'
    BY <1>1, <1>4 DEF Crash, EscTyped
  <2> QED BY <1>1, <1>4, <2>1, <2>2, <2>3 DEF Crash, TypeOK, RowsTyped, EvalTyped, EscTyped, Bounded, EvalStates
<1> QED BY <1>2, <1>3, <1>4

\* The escalation worker's steps, as seen from the state m it leaves or enters.
LEMMA StartedLevel ==
    ASSUME TypeOK, Known, NEW v \in EscWorkers, NEW a \in Alerts, NEW l \in Levels, StartLevel(v, a, l)
    PROVE  /\ alert[a] # None /\ esc[a][l] = "delayed"
           /\ \/ \E levels \in 0..MaxLevels :
                     /\ fire' = [fire EXCEPT ![v] =
                            [stage |-> "loaded", alert |-> a, level |-> l, levels |-> levels]]
                     /\ esc' = [esc EXCEPT ![a][l] = "active"]
              \/ esc' = [esc EXCEPT ![a][l] = "kept"] /\ UNCHANGED fire
<1>1. alert[a] \in AlertRows /\ alert[a] # None /\ esc[a][l] = "delayed"
  BY TypeParts DEF StartLevel, Known, RowsTyped
<1>2. alert[a].rule \in Rules \cup {None}
  BY <1>1 DEF AlertRows
<1>3. (IF alert[a].rule = None THEN 0 ELSE rule[alert[a].rule].levels) \in 0..MaxLevels
  BY <1>2, TypeParts, AlertingAssumption DEF AlertingAssumption, RowsTyped, RuleRows
<1> QED BY <1>1, <1>3 DEF StartLevel

LEMMA Notified ==
    ASSUME TypeOK, NEW v \in EscWorkers, Notify(v)
    PROVE  \E m \in Firing :
               /\ m = fire[v] /\ m.stage = "loaded"
               /\ fired' = [fired EXCEPT ![m.alert][m.level] = fired[m.alert][m.level] + 1]
               /\ late' = late \/ late' = [late EXCEPT ![m.alert] = late[m.alert] + 1]
               /\ fire' = [fire EXCEPT ![v] =
                      [stage |-> "fired", alert |-> m.alert, level |-> m.level, levels |-> m.levels]]
<1>1. PICK m \in Firing : m = fire[v] /\ m.stage = "loaded"
  BY FireStages, TypeParts DEF Notify, EscTyped
<1>2. m.alert \in Alerts /\ m.level \in Levels
  BY DEF Firing
<1>3. [m EXCEPT !.stage = "fired"] =
          [stage |-> "fired", alert |-> m.alert, level |-> m.level, levels |-> m.levels]
  BY DEF Firing
<1>4. fire' = [fire EXCEPT ![v] = [m EXCEPT !.stage = "fired"]]
  BY <1>1, TypeParts DEF Notify, EscTyped
<1>5. fired' = [fired EXCEPT ![m.alert][m.level] = fired[m.alert][m.level] + 1]
  BY <1>1, <1>2, TypeParts DEF Notify, EscTyped
<1>6. late' = late \/ late' = [late EXCEPT ![m.alert] = late[m.alert] + 1]
  BY <1>1, <1>2, TypeParts DEF Notify, EscTyped
<1> QED BY <1>1, <1>3, <1>4, <1>5, <1>6

LEMMA ScheduledNext ==
    ASSUME TypeOK, NEW v \in EscWorkers, ScheduleNext(v)
    PROVE  \E m \in Firing :
               /\ m = fire[v] /\ m.stage = "fired"
               /\ fire' = [fire EXCEPT ![v] =
                      [stage |-> "scheduled", alert |-> m.alert, level |-> m.level, levels |-> m.levels]]
               /\ \/ esc' = esc
                  \/ /\ m.level + 1 \in Levels /\ UNCHANGED hiccups
                     /\ esc' = AddLevel(esc, m.alert, m.level + 1)
               /\ UNCHANGED hiccups \/ (Trouble /\ hiccups' = hiccups + 1)
<1>1. PICK m \in Firing : m = fire[v] /\ m.stage = "fired"
  BY FireStages, TypeParts DEF ScheduleNext, EscTyped
<1>2. m.alert \in Alerts /\ m.level \in Nat /\ m.levels \in 0..MaxLevels /\ MaxLevels \in Nat
  BY AlertingAssumption DEF AlertingAssumption, Firing, Levels
<1>3. m.level + 1 < m.levels => m.level + 1 \in Levels
  BY <1>2 DEF Levels
<1>4. [m EXCEPT !.stage = "scheduled"] =
          [stage |-> "scheduled", alert |-> m.alert, level |-> m.level, levels |-> m.levels]
  BY DEF Firing
<1>5. fire' = [fire EXCEPT ![v] = [m EXCEPT !.stage = "scheduled"]]
  BY <1>1, TypeParts DEF ScheduleNext, EscTyped
<1>6. \/ /\ esc' = IF m.level + 1 < m.levels THEN AddLevel(esc, m.alert, m.level + 1) ELSE esc
         /\ UNCHANGED hiccups
      \/ Trouble /\ hiccups' = hiccups + 1 /\ UNCHANGED esc
  BY <1>1 DEF ScheduleNext, NextLevel
<1>7. /\ \/ esc' = esc
         \/ /\ m.level + 1 \in Levels /\ UNCHANGED hiccups
            /\ esc' = AddLevel(esc, m.alert, m.level + 1)
      /\ UNCHANGED hiccups \/ (Trouble /\ hiccups' = hiccups + 1)
  BY <1>3, <1>6
<1>8. fire' = [fire EXCEPT ![v] =
          [stage |-> "scheduled", alert |-> m.alert, level |-> m.level, levels |-> m.levels]]
  BY <1>4, <1>5
<1> QED BY <1>1, <1>7, <1>8, Zenon

LEMMA FinishedLevel ==
    ASSUME TypeOK, NEW v \in EscWorkers, FinishLevel(v)
    PROVE  \E m \in Firing :
               /\ m = fire[v] /\ m.stage = "scheduled" /\ fire' = [fire EXCEPT ![v] = Idle]
               /\ esc' = [esc EXCEPT ![m.alert][m.level] = "kept"]
BY FireStages, TypeParts DEF FinishLevel, EscTyped

LEMMA EscStepTyped ==
    ASSUME TypeOK, Known, NEW v \in EscWorkers, EscStep(v)
    PROVE  TypeOK'
<1>1. RowsTyped /\ EvalTyped /\ EscTyped /\ Bounded /\ scans \in 0..MaxScans
  BY TypeParts
<1>2. UNCHANGED <<rule, evalVars, alert, edits, crashes>>
  BY DEF EscStep, StartLevel, Notify, ScheduleNext, FinishLevel
<1>3. RowsTyped' /\ EvalTyped' /\ scans' \in 0..MaxScans
  BY <1>1, <1>2 DEF RowsTyped, EvalTyped, evalVars
<1>4. \A m \in Firing, st \in {"fired", "scheduled"} :
          [stage |-> st, alert |-> m.alert, level |-> m.level, levels |-> m.levels] \in Firing
  BY DEF Firing
<1>5. ASSUME NEW a \in Alerts, NEW l \in Levels, StartLevel(v, a, l) PROVE EscTyped' /\ Bounded'
  <2>1. PICK levels \in 0..MaxLevels, to \in {"active", "kept"} :
            /\ \/ fire' = [fire EXCEPT ![v] =
                      [stage |-> "loaded", alert |-> a, level |-> l, levels |-> levels]]
               \/ UNCHANGED fire
            /\ esc' = [esc EXCEPT ![a][l] = to]
    <3>1. 0 \in 0..MaxLevels
      BY AlertingAssumption DEF AlertingAssumption
    <3> QED BY <1>5, <3>1, StartedLevel
  <2>2. [stage |-> "loaded", alert |-> a, level |-> l, levels |-> levels] \in Firing
    BY DEF Firing
  <2>3. fire' \in [EscWorkers -> {Idle} \cup Firing]
    BY <1>1, <2>1, <2>2 DEF EscTyped
  <2>4. esc' \in [Alerts -> [Levels -> {"none", "delayed", "active", "kept"}]]
    BY <1>1, <2>1 DEF EscTyped
  <2> QED BY <1>1, <1>5, <2>3, <2>4 DEF StartLevel, EscTyped, Bounded
<1>6. ASSUME Notify(v) PROVE EscTyped' /\ Bounded'
  <2>1. PICK m \in Firing :
            /\ fired' = [fired EXCEPT ![m.alert][m.level] = fired[m.alert][m.level] + 1]
            /\ late' = late \/ late' = [late EXCEPT ![m.alert] = late[m.alert] + 1]
            /\ fire' = [fire EXCEPT ![v] =
                   [stage |-> "fired", alert |-> m.alert, level |-> m.level, levels |-> m.levels]]
    BY <1>6, Notified
  <2>2. m.alert \in Alerts /\ m.level \in Levels
    BY DEF Firing
  <2>3. fired' \in [Alerts -> [Levels -> Nat]] /\ late' \in [Alerts -> Nat]
    <3>1. /\ fired[m.alert] \in [Levels -> Nat] /\ fired[m.alert][m.level] \in Nat
          /\ late[m.alert] \in Nat
      BY <1>1, <2>2 DEF EscTyped
    <3>2. fired[m.alert][m.level] + 1 \in Nat /\ late[m.alert] + 1 \in Nat
      BY <3>1
    <3>3. [fired[m.alert] EXCEPT ![m.level] = fired[m.alert][m.level] + 1] \in [Levels -> Nat]
      BY <3>1, <3>2
    <3>4. fired' = [fired EXCEPT ![m.alert] = [fired[m.alert] EXCEPT ![m.level] = fired[m.alert][m.level] + 1]]
      BY <2>1
    <3>5. fired' \in [Alerts -> [Levels -> Nat]]
      BY <1>1, <3>3, <3>4 DEF EscTyped
    <3>6. late' \in [Alerts -> Nat]
      BY <1>1, <2>1, <3>2 DEF EscTyped
    <3> QED BY <3>5, <3>6
  <2>4. fire' \in [EscWorkers -> {Idle} \cup Firing]
    BY <1>1, <1>4, <2>1 DEF EscTyped
  <2>5. EscTyped'
    BY <1>1, <1>6, <2>3, <2>4 DEF Notify, EscTyped
  <2>6. Bounded'
    BY <1>1, <1>6 DEF Notify, Bounded
  <2> QED BY <2>5, <2>6
<1>7. ASSUME ScheduleNext(v) PROVE EscTyped' /\ Bounded'
  <2>1. PICK m \in Firing :
            /\ fire' = [fire EXCEPT ![v] =
                   [stage |-> "scheduled", alert |-> m.alert, level |-> m.level, levels |-> m.levels]]
            /\ \/ esc' = esc
               \/ m.level + 1 \in Levels /\ esc' = AddLevel(esc, m.alert, m.level + 1)
            /\ UNCHANGED hiccups \/ (Trouble /\ hiccups' = hiccups + 1)
    BY <1>7, ScheduledNext
  <2>2. m.alert \in Alerts
    BY DEF Firing
  <2>3. esc' \in [Alerts -> [Levels -> {"none", "delayed", "active", "kept"}]]
    BY <1>1, <2>1, <2>2, LevelAdded DEF EscTyped
  <2>4. fire' \in [EscWorkers -> {Idle} \cup Firing]
    BY <1>1, <1>4, <2>1 DEF EscTyped
  <2>5. EscTyped'
    BY <1>1, <1>7, <2>3, <2>4 DEF ScheduleNext, EscTyped
  <2>6. Bounded'
    <3>1. CASE UNCHANGED hiccups
      BY <1>1, <1>2, <3>1 DEF Bounded
    <3>2. CASE Trouble /\ hiccups' = hiccups + 1
      BY <1>1, <1>2, <3>2, TroubleCounts
    <3> QED BY <2>1, <3>1, <3>2
  <2> QED BY <2>5, <2>6
<1>8. ASSUME FinishLevel(v) PROVE EscTyped' /\ Bounded'
  <2>1. PICK m \in Firing : fire' = [fire EXCEPT ![v] = Idle] /\ esc' = [esc EXCEPT ![m.alert][m.level] = "kept"]
    BY <1>8, FinishedLevel
  <2>2. m.alert \in Alerts /\ m.level \in Levels
    BY DEF Firing
  <2>3. fire' \in [EscWorkers -> {Idle} \cup Firing]
    BY <1>1, <2>1 DEF EscTyped
  <2>4. esc' \in [Alerts -> [Levels -> {"none", "delayed", "active", "kept"}]]
    BY <1>1, <2>1, <2>2 DEF EscTyped
  <2>5. EscTyped'
    BY <1>1, <1>8, <2>3, <2>4 DEF FinishLevel, EscTyped
  <2>6. Bounded'
    BY <1>1, <1>8 DEF FinishLevel, Bounded
  <2> QED BY <2>5, <2>6
<1>a. \/ \E a \in Alerts, l \in Levels : StartLevel(v, a, l)
      \/ Notify(v) \/ ScheduleNext(v) \/ FinishLevel(v)
  BY DEF EscStep
<1>9. EscTyped' /\ Bounded'
  BY <1>5, <1>6, <1>7, <1>8, <1>a, Zenon
<1> QED BY <1>3, <1>9 DEF TypeOK, RowsTyped, EvalTyped, EscTyped, Bounded, EvalStates

------------------------------------------------------------------------------
(* Levels *)

\* No alert row is deleted.
LEMMA AlertsStay ==
    ASSUME TypeOK, Known, Next
    PROVE  \A a \in Alerts : alert[a] # None => alert'[a] # None
<1>1. alert \in [Alerts -> AlertRows \cup {None}]
  BY TypeParts DEF RowsTyped
<1>2. ASSUME NEW r \in Rules, RemoveRule(r), NEW a \in Alerts, alert[a] # None PROVE alert'[a] # None
  <2>1. alert[a] \in AlertRows /\ [alert[a] EXCEPT !.rule = None] \in AlertRows
    BY <1>1, <1>2 DEF AlertRows
  <2> QED BY <1>2, <2>1, NoneAssumption DEF RemoveRule
<1>3. ASSUME NEW b \in Alerts, Acknowledge(b) \/ Resolve(b), NEW a \in Alerts, alert[a] # None
      PROVE  alert'[a] # None
  <2>1. alert[b] \in AlertRows
    BY <1>1, <1>3 DEF Acknowledge, Resolve
  <2>2. \A st \in {"ACKNOWLEDGED", "RESOLVED"} : [alert[b] EXCEPT !.status = st] \in AlertRows
    BY <2>1 DEF AlertRows
  <2>3. \E st \in {"ACKNOWLEDGED", "RESOLVED"} : alert' = [alert EXCEPT ![b] = [alert[b] EXCEPT !.status = st]]
    BY <1>1, <1>3 DEF Acknowledge, Resolve
  <2> QED BY <1>1, <1>3, <2>2, <2>3, NoneAssumption
<1>4. ASSUME WindowPasses, NEW a \in Alerts, alert[a] # None PROVE alert'[a] # None
  <2>1. alert[a] \in AlertRows /\ [alert[a] EXCEPT !.recent = FALSE] \in AlertRows
    BY <1>1, <1>4 DEF AlertRows
  <2> QED BY <1>4, <2>1, NoneAssumption DEF WindowPasses
<1>5. ASSUME NEW w \in EvalWorkers, EvalStep(w), NEW a \in Alerts, alert[a] # None PROVE alert'[a] # None
  <2>1. ASSUME NEW b \in Alerts, CreateAlert(w, b) PROVE alert'[a] # None
    <3>1. PICK m \in Raising : alert[b] = None /\ (alert' = [alert EXCEPT ![b] = NewAlert(m)] \/ UNCHANGED alert)
      BY <2>1, CreatedAlert
    <3> QED BY <1>1, <1>5, <3>1
  <2>2. CASE UNCHANGED alert
    BY <1>5, <2>2
  <2> QED BY <1>5, <2>1, <2>2 DEF EvalStep, StartEvaluation, CheckCooldown, EnqueueLevel0, FinishEvaluation
<1>6. CASE UNCHANGED alert
  BY <1>6
<1>7. \/ UNCHANGED alert
      \/ \E r \in Rules : RemoveRule(r)
      \/ \E b \in Alerts : Acknowledge(b) \/ Resolve(b)
      \/ WindowPasses
      \/ \E w \in EvalWorkers : EvalStep(w)
  BY DEF Next, CreateRule, SetActive, SetLevels, EnqueueEvaluation, ScanDue, EscStep, StartLevel, Notify,
         ScheduleNext, FinishLevel, Crash
<1> QED BY <1>2, <1>3, <1>4, <1>5, <1>6, <1>7

\* Steps that leave the escalation side alone, and may take a new alert to its queue.
LEMMA OtherStepLevels ==
    ASSUME LevelInv, UNCHANGED escVars,
           \A a \in Alerts : alert[a] # None => alert'[a] # None,
           \A w \in EvalWorkers : eval'[w] = eval[w] \/ eval'[w].stage # "enqueue" \/ alert'[eval'[w].alert] # None
    PROVE  Known' /\ FiredHold' /\ LevelsInOrder'
<1>1. /\ esc' = esc /\ fire' = fire /\ fired' = fired
      /\ Known /\ FiredHold /\ LevelsInOrder /\ EscTyped /\ EvalTyped
  BY TypeParts DEF escVars, LevelInv
<1>2. FiredHold' /\ LevelsInOrder'
  BY <1>1 DEF FiredHold, LevelsInOrder
<1>3. ASSUME NEW w \in EvalWorkers, eval'[w].stage = "enqueue" PROVE alert'[eval'[w].alert] # None
  <2>1. CASE eval'[w] = eval[w]
    <3>1. eval[w] \in EvalStates /\ eval[w].stage = "enqueue"
      BY <1>1, <1>3, <2>1 DEF EvalTyped
    <3>2. eval[w] \in Raised
      BY <3>1, EvalStages
    <3>3. eval[w].alert \in Alerts /\ alert[eval[w].alert] # None
      BY <1>1, <3>1, <3>2 DEF Raised, Known
    <3> QED BY <2>1, <3>3
  <2> QED BY <1>3, <2>1
<1>5. \A a \in Alerts, l \in Levels : esc[a][l] # "none" => alert'[a] # None
  BY <1>1 DEF Known
<1>6. Known'
  BY <1>1, <1>3, <1>5 DEF Known
<1> QED BY <1>2, <1>6

\* A busy escalation worker is on a level of an alert.
LEMMA BusyOnLevel ==
    ASSUME EscTyped, NEW v \in EscWorkers, fire[v].stage # "idle"
    PROVE  fire[v] \in Firing /\ fire[v].alert \in Alerts /\ fire[v].level \in Levels
BY DEF EscTyped, Idle, Firing

LEMMA EvalStepLevels ==
    ASSUME LevelInv, Next, NEW w \in EvalWorkers, EvalStep(w)
    PROVE  Known' /\ FiredHold' /\ LevelsInOrder'
<1>1. TypeOK /\ Known /\ FiredHold /\ LevelsInOrder /\ EscTyped /\ EvalTyped /\ alert \in [Alerts -> AlertRows \cup {None}]
  BY TypeParts DEF LevelInv, RowsTyped
<1>2. \A a \in Alerts : alert[a] # None => alert'[a] # None
  BY <1>1, AlertsStay
<1>3. ASSUME NEW j \in Jobs, StartEvaluation(w, j) PROVE Known' /\ FiredHold' /\ LevelsInOrder'
  <2>1. PICK todo \in SUBSET Rules : eval' = [eval EXCEPT ![w] = [stage |-> "next", job |-> j, todo |-> todo]]
    BY <1>1, <1>3, StartedEvaluation
  <2>2. \A u \in EvalWorkers : eval'[u] = eval[u] \/ eval'[u].stage # "enqueue"
    BY <1>1, <2>1 DEF EvalTyped
  <2>3. UNCHANGED escVars
    BY <1>3 DEF StartEvaluation
  <2> QED BY <1>2, <2>2, <2>3, OtherStepLevels
<1>4. ASSUME CheckCooldown(w) PROVE Known' /\ FiredHold' /\ LevelsInOrder'
  <2>1. PICK n \in EvalStates : eval' = [eval EXCEPT ![w] = n] /\ n.stage # "enqueue"
    BY <1>1, <1>4, CheckedCooldown
  <2>2. \A u \in EvalWorkers : eval'[u] = eval[u] \/ eval'[u].stage # "enqueue"
    BY <1>1, <2>1 DEF EvalTyped
  <2>3. UNCHANGED escVars
    BY <1>4 DEF CheckCooldown
  <2> QED BY <1>2, <2>2, <2>3, OtherStepLevels
<1>5. ASSUME NEW a \in Alerts, CreateAlert(w, a) PROVE Known' /\ FiredHold' /\ LevelsInOrder'
  <2>1. PICK m \in Raising, n \in EvalStates :
            /\ eval' = [eval EXCEPT ![w] = n]
            /\ \/ /\ n = [stage |-> "enqueue", job |-> m.job, todo |-> m.todo, alert |-> a]
                  /\ alert' = [alert EXCEPT ![a] = NewAlert(m)]
               \/ n = Idle
    BY <1>1, <1>5, CreatedAlert
  <2>2. NewAlert(m) \in AlertRows
    BY DEF NewAlert, AlertRows, Raising
  <2>3. n.stage # "enqueue" \/ alert'[n.alert] # None
    BY <1>1, <2>1, <2>2, NoneAssumption DEF Idle
  <2>4. \A u \in EvalWorkers : eval'[u] = eval[u] \/ eval'[u].stage # "enqueue" \/ alert'[eval'[u].alert] # None
    BY <1>1, <2>1, <2>3 DEF EvalTyped
  <2>5. UNCHANGED escVars
    BY <1>5 DEF CreateAlert
  <2> QED BY <1>2, <2>4, <2>5, OtherStepLevels
<1>6. ASSUME EnqueueLevel0(w) PROVE Known' /\ FiredHold' /\ LevelsInOrder'
  <2>1. PICK m \in Raised : m = eval[w] /\ eval' = [eval EXCEPT ![w] = [stage |-> "next", job |-> m.job, todo |-> m.todo]]
    BY <1>1, <1>6, EnqueuedLevel0
  <2>2. m.alert \in Alerts /\ alert[m.alert] # None /\ UNCHANGED <<alert, fire, fired>>
    BY <1>1, <1>6, <2>1 DEF Known, EnqueueLevel0, Raised
  <2>3. esc' = AddLevel(esc, m.alert, 0) \/ esc' = esc
    BY <1>6, <2>1 DEF EnqueueLevel0, FirstLevel
  <2>4. \A b \in Alerts, k \in Levels : esc'[b][k] # "none" => esc[b][k] # "none" \/ (b = m.alert /\ k = 0)
    BY <1>1, <2>2, <2>3, LevelZero, LevelAdded
  <2>5. LevelsInOrder'
    BY <1>1, <2>2, <2>4 DEF LevelsInOrder
  <2>6. FiredHold'
    BY <1>1, <2>2 DEF FiredHold
  <2>7. \A u \in EvalWorkers : eval'[u].stage = "enqueue" => eval'[u] = eval[u]
    BY <1>1, <2>1 DEF EvalTyped
  <2>b. \A b \in Alerts, k \in Levels : esc[b][k] # "none" => esc'[b][k] # "none"
    BY <1>1, <2>2, <2>3, LevelZero, LevelAdded
  <2>8. Known'
    BY <1>1, <2>2, <2>4, <2>7, <2>b, BusyOnLevel DEF Known
  <2> QED BY <2>5, <2>6, <2>8
<1>7. ASSUME FinishEvaluation(w) PROVE Known' /\ FiredHold' /\ LevelsInOrder'
  <2>1. eval' = [eval EXCEPT ![w] = Idle]
    BY <1>1, <1>7, FinishedEvaluation
  <2>2. \A u \in EvalWorkers : eval'[u] = eval[u] \/ eval'[u].stage # "enqueue"
    BY <1>1, <2>1 DEF EvalTyped, Idle
  <2>3. UNCHANGED escVars
    BY <1>7 DEF FinishEvaluation
  <2> QED BY <1>2, <2>2, <2>3, OtherStepLevels
<1>a. \/ \E j \in Jobs : StartEvaluation(w, j)
      \/ CheckCooldown(w)
      \/ \E a \in Alerts : CreateAlert(w, a)
      \/ EnqueueLevel0(w) \/ FinishEvaluation(w)
  BY DEF EvalStep
<1> QED BY <1>3, <1>4, <1>5, <1>6, <1>7, <1>a, Zenon

LEMMA EscStepLevels ==
    ASSUME LevelInv, NEW v \in EscWorkers, EscStep(v)
    PROVE  Known' /\ FiredHold' /\ LevelsInOrder'
<1>1. TypeOK /\ Known /\ FiredHold /\ LevelsInOrder /\ EscTyped
  BY TypeParts DEF LevelInv
<1>2. UNCHANGED <<eval, alert>>
  BY DEF EscStep, StartLevel, Notify, ScheduleNext, FinishLevel, evalVars
<1>3. ASSUME NEW a \in Alerts, NEW l \in Levels, StartLevel(v, a, l) PROVE Known' /\ FiredHold' /\ LevelsInOrder'
  <2>1. PICK levels \in 0..MaxLevels, to \in {"active", "kept"} :
            /\ \/ fire' = [fire EXCEPT ![v] =
                      [stage |-> "loaded", alert |-> a, level |-> l, levels |-> levels]]
               \/ UNCHANGED fire
            /\ esc' = [esc EXCEPT ![a][l] = to]
    <3>1. 0 \in 0..MaxLevels
      BY AlertingAssumption DEF AlertingAssumption
    <3> QED BY <1>1, <1>3, <3>1, StartedLevel
  <2>2. alert[a] # None /\ esc[a][l] # "none" /\ UNCHANGED fired
    BY <1>1, <1>3, StartedLevel DEF StartLevel
  <2>3. \A b \in Alerts, k \in Levels : esc'[b][k] # "none" => esc[b][k] # "none"
    BY <1>1, <2>1, <2>2 DEF EscTyped
  <2>4. \A u \in EscWorkers : \/ fire'[u] = fire[u]
                              \/ fire'[u].stage = "loaded" /\ fire'[u].alert = a /\ fire'[u].level = l
    BY <1>1, <2>1 DEF EscTyped
  <2>b. \A b \in Alerts, k \in Levels : esc[b][k] # "none" => esc'[b][k] # "none"
    BY <1>1, <2>1, <2>2 DEF EscTyped
  <2>5. Known'
    BY <1>1, <1>2, <2>2, <2>3, <2>4, <2>b, BusyOnLevel DEF Known
  <2>6. FiredHold'
    BY <1>1, <2>2, <2>4 DEF FiredHold
  <2>7. LevelsInOrder'
    BY <1>1, <2>2, <2>3 DEF LevelsInOrder
  <2> QED BY <2>5, <2>6, <2>7
<1>4. ASSUME Notify(v) PROVE Known' /\ FiredHold' /\ LevelsInOrder'
  <2>1. PICK m \in Firing :
            /\ m = fire[v] /\ m.stage = "loaded"
            /\ fired' = [fired EXCEPT ![m.alert][m.level] = fired[m.alert][m.level] + 1]
            /\ fire' = [fire EXCEPT ![v] =
                   [stage |-> "fired", alert |-> m.alert, level |-> m.level, levels |-> m.levels]]
    BY <1>1, <1>4, Notified
  <2>2. m.alert \in Alerts /\ m.level \in Levels /\ UNCHANGED esc
    BY <1>4 DEF Firing, Notify
  <2>3. fired[m.alert][m.level] \in Nat
    BY <1>1, <2>2 DEF EscTyped
  <2>4. fired'[m.alert][m.level] > 0
    BY <1>1, <2>1, <2>2, <2>3 DEF EscTyped
  <2>5. \A b \in Alerts, k \in Levels : fired[b][k] > 0 => fired'[b][k] > 0
    BY <1>1, <2>1, <2>2, <2>4 DEF EscTyped
  <2>6. \A u \in EscWorkers : \/ u # v /\ fire'[u] = fire[u]
                              \/ u = v /\ fire'[u].alert = m.alert /\ fire'[u].level = m.level
    BY <1>1, <2>1 DEF EscTyped
  <2>7. esc[m.alert][m.level] # "none"
    BY <1>1, <2>1 DEF Known
  <2>8. Known'
    BY <1>1, <1>2, <2>2, <2>6, <2>7 DEF Known
  <2>9. FiredHold'
    <3>1. ASSUME NEW u \in EscWorkers, fire'[u].stage \in {"fired", "scheduled"}
          PROVE  fired'[fire'[u].alert][fire'[u].level] > 0
      <4>1. CASE u = v
        BY <2>4, <2>6, <4>1
      <4>2. CASE u # v
        <5>1. fire[u] \in Firing
          BY <1>1, <2>6, <3>1, <4>2, FireStages DEF EscTyped
        <5>2. fire[u].alert \in Alerts /\ fire[u].level \in Levels
          BY <5>1 DEF Firing
        <5>3. fired[fire[u].alert][fire[u].level] > 0
          BY <1>1, <2>6, <3>1, <4>2 DEF FiredHold
        <5> QED BY <2>5, <2>6, <4>2, <5>2, <5>3
      <4> QED BY <4>1, <4>2
    <3> QED BY <3>1 DEF FiredHold
  <2>a. LevelsInOrder'
    <3>1. \A l \in Levels \ {0} : l - 1 \in Levels
      BY AlertingAssumption DEF AlertingAssumption, Levels
    <3> QED BY <1>1, <2>2, <2>5, <3>1 DEF LevelsInOrder
  <2> QED BY <2>8, <2>9, <2>a
<1>5. ASSUME ScheduleNext(v) PROVE Known' /\ FiredHold' /\ LevelsInOrder'
  <2>1. PICK m \in Firing :
            /\ m = fire[v] /\ m.stage = "fired"
            /\ fire' = [fire EXCEPT ![v] =
                   [stage |-> "scheduled", alert |-> m.alert, level |-> m.level, levels |-> m.levels]]
            /\ \/ esc' = esc
               \/ m.level + 1 \in Levels /\ esc' = AddLevel(esc, m.alert, m.level + 1)
    BY <1>1, <1>5, ScheduledNext
  <2>2. m.alert \in Alerts /\ m.level \in Levels /\ m.level \in Nat /\ UNCHANGED fired
    BY <1>5 DEF Firing, ScheduleNext, Levels
  <2>3. fired[m.alert][m.level] > 0 /\ alert[m.alert] # None /\ esc[m.alert][m.level] # "none"
    BY <1>1, <2>1, <2>2 DEF FiredHold, Known
  <2>4. \A b \in Alerts, k \in Levels :
            esc'[b][k] # "none" => esc[b][k] # "none" \/ (b = m.alert /\ k = m.level + 1)
    BY <1>1, <2>1, <2>2, LevelAdded
  <2>5. \A u \in EscWorkers : \/ u # v /\ fire'[u] = fire[u]
                              \/ u = v /\ fire'[u].alert = m.alert /\ fire'[u].level = m.level
    BY <1>1, <2>1 DEF EscTyped
  <2>b. \A b \in Alerts, k \in Levels : esc[b][k] # "none" => esc'[b][k] # "none"
    BY <1>1, <2>1, <2>2, LevelAdded
  <2>6. Known'
    BY <1>1, <1>2, <2>2, <2>3, <2>4, <2>5, <2>b, BusyOnLevel DEF Known
  <2>7. FiredHold'
    BY <1>1, <2>2, <2>3, <2>5 DEF FiredHold
  <2>8. LevelsInOrder'
    <3>1. ASSUME NEW b \in Alerts, NEW k \in Levels \ {0}, esc'[b][k] # "none" PROVE fired'[b][k - 1] > 0
      <4>1. CASE esc[b][k] # "none"
        BY <1>1, <2>2, <4>1 DEF LevelsInOrder
      <4>2. CASE b = m.alert /\ k = m.level + 1
        <5>1. k - 1 = m.level
          BY <2>2, <4>2
        <5> QED BY <2>2, <2>3, <4>2, <5>1
      <4> QED BY <2>4, <3>1, <4>1, <4>2
    <3> QED BY <3>1 DEF LevelsInOrder
  <2> QED BY <2>6, <2>7, <2>8
<1>6. ASSUME FinishLevel(v) PROVE Known' /\ FiredHold' /\ LevelsInOrder'
  <2>1. PICK m \in Firing : /\ m = fire[v] /\ m.stage = "scheduled" /\ fire' = [fire EXCEPT ![v] = Idle]
                            /\ esc' = [esc EXCEPT ![m.alert][m.level] = "kept"]
    BY <1>1, <1>6, FinishedLevel
  <2>2. m.alert \in Alerts /\ m.level \in Levels /\ UNCHANGED fired
    BY <1>6 DEF Firing, FinishLevel
  <2>3. esc[m.alert][m.level] # "none"
    BY <1>1, <2>1 DEF Known
  <2>4. \A b \in Alerts, k \in Levels : esc'[b][k] # "none" <=> esc[b][k] # "none"
    BY <1>1, <2>1, <2>2, <2>3 DEF EscTyped
  <2>5. \A u \in EscWorkers : fire'[u] = fire[u] \/ fire'[u].stage = "idle"
    BY <1>1, <2>1 DEF EscTyped, Idle
  <2>6. Known'
    BY <1>1, <1>2, <2>3, <2>4, <2>5, BusyOnLevel DEF Known
  <2>7. FiredHold'
    BY <1>1, <2>2, <2>5 DEF FiredHold
  <2>8. LevelsInOrder'
    BY <1>1, <2>2, <2>4 DEF LevelsInOrder
  <2> QED BY <2>6, <2>7, <2>8
<1>a. \/ \E a \in Alerts, l \in Levels : StartLevel(v, a, l)
      \/ Notify(v) \/ ScheduleNext(v) \/ FinishLevel(v)
  BY DEF EscStep
<1> QED BY <1>3, <1>4, <1>5, <1>6, <1>a, Zenon

LEMMA CrashLevels ==
    ASSUME LevelInv, Crash
    PROVE  Known' /\ FiredHold' /\ LevelsInOrder'
<1>1. Known /\ FiredHold /\ LevelsInOrder /\ EscTyped
  BY TypeParts DEF LevelInv
<1>2. /\ \A w \in EvalWorkers : eval'[w].stage = "idle"
      /\ \A v \in EscWorkers : fire'[v].stage = "idle"
      /\ UNCHANGED <<alert, fired>>
  BY DEF Crash, Idle
<1>3. \A b \in Alerts, k \in Levels : esc'[b][k] # "none" => esc[b][k] # "none"
  BY DEF Crash
<1>4. Known' /\ FiredHold'
  BY <1>1, <1>2, <1>3 DEF Known, FiredHold
<1>5. LevelsInOrder'
  BY <1>1, <1>2, <1>3 DEF LevelsInOrder
<1> QED BY <1>4, <1>5

LEMMA LevelStep ==
    ASSUME LevelInv, [Next]_vars
    PROVE  LevelInv'
<1>1. TypeOK /\ Known /\ EvalTyped
  BY TypeParts DEF LevelInv
<1>2. CASE UNCHANGED vars
  BY <1>2 DEF vars, LevelInv, TypeOK, Known, FiredHold, LevelsInOrder
<1>3. CASE Next
  <2>1. \/ \/ \E r \in Rules, row \in RuleRows : CreateRule(r, row)
           \/ \E r \in Rules, active \in BOOLEAN : SetActive(r, active)
           \/ \E r \in Rules, levels \in PolicySizes : SetLevels(r, levels)
           \/ \E r \in Rules : RemoveRule(r)
        \/ (\E a \in Alerts : Acknowledge(a) \/ Resolve(a)) \/ WindowPasses
        \/ (\E p \in Points : EnqueueEvaluation(p)) \/ ScanDue
        \/ Crash
        \/ \E w \in EvalWorkers : EvalStep(w)
        \/ \E v \in EscWorkers : EscStep(v)
    BY <1>3 DEF Next
  <2>2. TypeOK'
    BY <1>1, <2>1, RuleStepTyped, AlertStepTyped, JobStepTyped, EvalStepTyped, EscStepTyped, Zenon
  <2>3. \A a \in Alerts : alert[a] # None => alert'[a] # None
    BY <1>1, <1>3, AlertsStay
  <2>5. Known' /\ FiredHold' /\ LevelsInOrder'
    <3>1. \/ UNCHANGED <<eval, escVars>>
          \/ Crash
          \/ \E w \in EvalWorkers : EvalStep(w)
          \/ \E v \in EscWorkers : EscStep(v)
      BY <2>1 DEF CreateRule, SetActive, SetLevels, RemoveRule, Acknowledge, Resolve, WindowPasses,
                  EnqueueEvaluation, ScanDue, evalVars
    <3>2. UNCHANGED <<eval, escVars>> => Known' /\ FiredHold' /\ LevelsInOrder'
      BY <2>3, OtherStepLevels
    <3> QED BY <1>3, <3>1, <3>2, CrashLevels, EvalStepLevels, EscStepLevels, Zenon
  <2> QED BY <2>2, <2>5 DEF LevelInv
<1> QED BY <1>2, <1>3

LEMMA LevelInit == Init => LevelInv
<1> SUFFICES ASSUME Init PROVE LevelInv
  OBVIOUS
<1>1. TypeOK
  BY TypeInit
<1>2. Known /\ FiredHold
  BY DEF Init, Known, FiredHold, Idle
<1>3. LevelsInOrder
  BY DEF Init, LevelsInOrder
<1> QED BY <1>1, <1>2, <1>3 DEF LevelInv

LEMMA LevelAlways == Spec => []LevelInv
BY LevelInit, LevelStep, PTL DEF Spec

\* Every variable keeps its type, whatever rules are edited, jobs fail and processes die.
THEOREM AlertingTypes == Spec => []TypeOK
<1>1. LevelInv => TypeOK
  BY DEF LevelInv
<1> QED BY <1>1, LevelAlways, PTL

\* An escalation level is in the queue only when the level before it has
\* notified, with any number of workers, crashes and refused enqueues.
THEOREM LevelsFireInOrder == Spec => []LevelsInOrder
<1>1. LevelInv => LevelsInOrder
  BY DEF LevelInv
<1> QED BY <1>1, LevelAlways, PTL

------------------------------------------------------------------------------
(***************************************************************************)
(* How many alerts an evaluation can raise.                                *)
(***************************************************************************)

Of(r, p) == {a \in Alerts : alert[a] # None /\ alert[a].origin = r /\ alert[a].point = p}
Count(r, p) == Cardinality(Of(r, p))

Working(w) == eval[w].stage # "idle"
\* The worker has yet to decide about r, or has decided to raise it.
Pending(w, r) == r \in eval[w].todo \/ (eval[w].stage = "create" /\ eval[w].rule = r)

\* A job that is worked on is active and has one worker, and a rule about to
\* be raised is not on the list as well.
JobsHeld ==
    \A w \in EvalWorkers : Working(w) =>
        /\ job[eval[w].job] = "active"
        /\ eval[w].stage = "create" => eval[w].rule \notin eval[w].todo
        /\ \A u \in EvalWorkers : u # w /\ Working(u) => eval[u].job # eval[w].job

\* Without a crash, a point that is not evaluated yet, or not yet for r, has no alert of r.
PointCount ==
    \A r \in Rules, p \in Points :
        /\ Count(r, p) <= 1 + crashes
        /\ job[p] \in {"none", "waiting"} => Count(r, p) <= crashes
        /\ \A w \in EvalWorkers : Working(w) /\ eval[w].job = p /\ Pending(w, r) => Count(r, p) <= crashes

CountInv == LevelInv /\ JobsHeld /\ PointCount

------------------------------------------------------------------------------
LEMMA Typed ==
    ASSUME LevelInv
    PROVE  /\ TypeOK /\ Known /\ EvalTyped /\ EscTyped /\ Bounded /\ RowsTyped
           /\ eval \in [EvalWorkers -> EvalStates] /\ job \in [Jobs -> {"none", "waiting", "active", "kept"}]
           /\ alert \in [Alerts -> AlertRows \cup {None}] /\ crashes \in Nat
BY TypeParts DEF LevelInv, EvalTyped, RowsTyped, Bounded

LEMMA WorkingState ==
    ASSUME NEW m \in EvalStates, m.stage # "idle"
    PROVE  m.job \in Jobs /\ m.todo \in SUBSET Rules
BY DEF EvalStates, Idle, Evaluating, Raising, Raised

LEMMA Counts == \A r, p : Count(r, p) \in Nat /\ IsFiniteSet(Of(r, p))
<1> SUFFICES ASSUME NEW r, NEW p PROVE Count(r, p) \in Nat /\ IsFiniteSet(Of(r, p))
  OBVIOUS
<1>1. Of(r, p) \in SUBSET Alerts /\ IsFiniteSet(Alerts)
  BY AlertingAssumption DEF AlertingAssumption, Of
<1>2. IsFiniteSet(Of(r, p))
  BY <1>1, FS_Subset
<1> QED BY <1>2, FS_CardinalityType DEF Count

\* What a step does not touch: the alerts of a rule and a point are history.
LEMMA SameOf ==
    ASSUME \A a \in Alerts : /\ alert'[a] # None <=> alert[a] # None
                             /\ alert[a] # None => /\ alert'[a].origin = alert[a].origin
                                                   /\ alert'[a].point = alert[a].point
    PROVE  \A r, p : Count(r, p)' = Count(r, p)
<1> SUFFICES ASSUME NEW r, NEW p PROVE Count(r, p)' = Count(r, p)
  OBVIOUS
<1>1. Of(r, p)' = Of(r, p)
  BY DEF Of
<1> QED BY <1>1 DEF Count

\* Edits, users and time change no origin and no point.
LEMMA AlertStepsKeep ==
    ASSUME LevelInv,
           \/ \E r \in Rules : RemoveRule(r)
           \/ \E a \in Alerts : Acknowledge(a) \/ Resolve(a)
           \/ WindowPasses
    PROVE  \A r, p : Count(r, p)' = Count(r, p)
<1>0. alert \in [Alerts -> AlertRows \cup {None}]
  BY Typed
<1>1. ASSUME NEW a \in Alerts, alert'[a] # alert[a]
      PROVE  /\ alert[a] \in AlertRows /\ alert'[a] \in AlertRows
             /\ alert'[a].origin = alert[a].origin /\ alert'[a].point = alert[a].point
  <2> DEFINE Kept(row, n) == n \in AlertRows /\ n.origin = row.origin /\ n.point = row.point
  <2>1. \A row \in AlertRows : /\ \A st \in {"ACKNOWLEDGED", "RESOLVED"} : Kept(row, [row EXCEPT !.status = st])
                               /\ Kept(row, [row EXCEPT !.recent = FALSE])
                               /\ Kept(row, [row EXCEPT !.rule = None])
    BY DEF AlertRows
  <2> HIDE DEF Kept
  <2>2. ASSUME NEW r \in Rules, RemoveRule(r)
        PROVE  alert[a] \in AlertRows /\ alert'[a] = [alert[a] EXCEPT !.rule = None]
    BY <1>0, <1>1, <2>2 DEF RemoveRule, Raisedby
  <2>3. ASSUME WindowPasses PROVE alert[a] \in AlertRows /\ alert'[a] = [alert[a] EXCEPT !.recent = FALSE]
    BY <1>0, <1>1, <2>3 DEF WindowPasses
  <2>4. ASSUME NEW b \in Alerts, Acknowledge(b) \/ Resolve(b)
        PROVE  /\ alert[a] \in AlertRows
               /\ \E st \in {"ACKNOWLEDGED", "RESOLVED"} : alert'[a] = [alert[a] EXCEPT !.status = st]
    <3>1. /\ alert[b] # None
          /\ \E st \in {"ACKNOWLEDGED", "RESOLVED"} : alert' = [alert EXCEPT ![b] = [alert[b] EXCEPT !.status = st]]
      BY <1>0, <2>4 DEF Acknowledge, Resolve
    <3> QED BY <1>0, <1>1, <3>1
  <2>5. alert[a] \in AlertRows /\ Kept(alert[a], alert'[a])
    BY <2>1, <2>2, <2>3, <2>4
  <2> QED BY <2>5 DEF Kept
<1>2. \A a \in Alerts : alert[a] \in AlertRows => alert[a] # None
  BY NoneAssumption
<1>3. \A a \in Alerts : alert'[a] \in AlertRows => alert'[a] # None
  BY NoneAssumption
<1> QED BY <1>1, <1>2, <1>3, SameOf

\* Nothing about the evaluations or their alerts changes.
LEMMA NothingCounted ==
    ASSUME CountInv, UNCHANGED <<job, eval, crashes>>, \A r, p : Count(r, p)' = Count(r, p)
    PROVE  JobsHeld' /\ PointCount'
<1>1. JobsHeld'
  BY DEF CountInv, JobsHeld, Working
<1>2. PointCount'
  BY DEF CountInv, PointCount, Working, Pending
<1> QED BY <1>1, <1>2

\* An idle job is enqueued.
LEMMA JobDue ==
    ASSUME CountInv, NEW j \in Jobs, job[j] = "none", job' = [job EXCEPT ![j] = "waiting"],
           UNCHANGED <<eval, crashes>>, \A r, p : Count(r, p)' = Count(r, p)
    PROVE  JobsHeld' /\ PointCount'
<1>0. job \in [Jobs -> {"none", "waiting", "active", "kept"}] /\ eval \in [EvalWorkers -> EvalStates] /\ JobsHeld /\ PointCount
  BY Typed DEF CountInv
<1>1. \A w \in EvalWorkers : Working(w) => eval[w].job \in Jobs /\ job'[eval[w].job] = job[eval[w].job]
  BY <1>0, WorkingState DEF JobsHeld, Working
<1>2. JobsHeld'
  BY <1>0, <1>1 DEF JobsHeld, Working
<1>3. \A p \in Points : job'[p] \in {"none", "waiting"} => job[p] \in {"none", "waiting"}
  BY <1>0 DEF Jobs
<1>4. PointCount'
  BY <1>0, <1>3 DEF PointCount, Working, Pending
<1> QED BY <1>2, <1>4

\* A worker goes on with its job and takes no rule up again.
LEMMA WorkerMoves ==
    ASSUME CountInv, NEW w \in EvalWorkers, Working(w), NEW n \in EvalStates,
           eval' = [eval EXCEPT ![w] = n], n.stage # "idle", n.job = eval[w].job,
           UNCHANGED <<job, crashes>>, \A r, p : Count(r, p)' = Count(r, p),
           n.stage = "create" => n.rule \notin n.todo,
           \A r \in Rules : (r \in n.todo \/ (n.stage = "create" /\ n.rule = r)) => Pending(w, r)
    PROVE  JobsHeld' /\ PointCount'
<1>0. eval \in [EvalWorkers -> EvalStates] /\ JobsHeld /\ PointCount
  BY Typed DEF CountInv
<1>1. \A u \in EvalWorkers : eval'[u] = IF u = w THEN n ELSE eval[u]
  BY <1>0
<1>2. \A u \in EvalWorkers : /\ Working(u)' <=> Working(u)
                             /\ eval'[u].job = eval[u].job
                             /\ \A r \in Rules : Pending(u, r)' => Pending(u, r)
  BY <1>1 DEF Working, Pending
<1>3. JobsHeld'
  BY <1>0, <1>1, <1>2 DEF JobsHeld
<1>4. PointCount'
  BY <1>0, <1>2 DEF PointCount
<1> QED BY <1>3, <1>4

\* A worker gives its job up.
LEMMA WorkerStops ==
    ASSUME CountInv, NEW w \in EvalWorkers, Working(w), eval' = [eval EXCEPT ![w] = Idle],
           job' = [job EXCEPT ![eval[w].job] = Done(eval[w].job)],
           UNCHANGED crashes, \A r, p : Count(r, p)' = Count(r, p)
    PROVE  JobsHeld' /\ PointCount'
<1>0. /\ job \in [Jobs -> {"none", "waiting", "active", "kept"}]
      /\ eval \in [EvalWorkers -> EvalStates] /\ JobsHeld /\ PointCount
  BY Typed DEF CountInv
<1>1. PICK j \in Jobs : j = eval[w].job
  BY <1>0, WorkingState DEF Working
<1>2. \A u \in EvalWorkers : Working(u)' => u # w /\ Working(u) /\ eval'[u] = eval[u]
  BY <1>0 DEF Working, Idle
<1>3. \A u \in EvalWorkers : Working(u)' => eval[u].job \in Jobs /\ job'[eval[u].job] = job[eval[u].job]
  BY <1>0, <1>1, <1>2, WorkingState DEF JobsHeld, Working
<1>4. JobsHeld'
  BY <1>0, <1>2, <1>3 DEF JobsHeld
<1>5. \A p \in Points : job'[p] \in {"none", "waiting"} => job[p] \in {"none", "waiting"}
  BY <1>0, <1>1, AlertingAssumption DEF AlertingAssumption, Jobs, Done
<1>6. PointCount'
  BY <1>0, <1>2, <1>5 DEF PointCount, Pending
<1> QED BY <1>4, <1>6

\* A worker takes a waiting job.
LEMMA WorkerStarts ==
    ASSUME CountInv, NEW w \in EvalWorkers, NEW j \in Jobs, StartEvaluation(w, j)
    PROVE  JobsHeld' /\ PointCount'
<1>0. /\ job \in [Jobs -> {"none", "waiting", "active", "kept"}] /\ TypeOK
      /\ eval \in [EvalWorkers -> EvalStates] /\ JobsHeld /\ PointCount
  BY Typed DEF CountInv
<1>1. PICK todo \in SUBSET Rules : eval' = [eval EXCEPT ![w] = [stage |-> "next", job |-> j, todo |-> todo]]
  BY <1>0, StartedEvaluation
<1>2. job[j] = "waiting" /\ job' = [job EXCEPT ![j] = "active"] /\ UNCHANGED <<alert, crashes>>
  BY DEF StartEvaluation
<1>3. \A r, p : Count(r, p)' = Count(r, p)
  BY <1>2, SameOf
<1>4. \A u \in EvalWorkers : Working(u) => eval[u].job \in Jobs /\ eval[u].job # j
  BY <1>0, <1>2, WorkingState DEF JobsHeld, Working
<1>5. /\ \A u \in EvalWorkers : u # w => eval'[u] = eval[u]
      /\ eval'[w].stage = "next" /\ eval'[w].job = j
  BY <1>0, <1>1
<1>6. JobsHeld'
  BY <1>0, <1>2, <1>4, <1>5 DEF JobsHeld, Working
<1>7. PointCount'
  <2>1. ASSUME NEW r \in Rules, NEW p \in Points
        PROVE  /\ Count(r, p)' <= 1 + crashes'
               /\ job'[p] \in {"none", "waiting"} => Count(r, p)' <= crashes'
    BY <1>0, <1>2, <1>3 DEF PointCount, Jobs
  <2>2. ASSUME NEW r \in Rules, NEW p \in Points, NEW u \in EvalWorkers,
               Working(u)', eval'[u].job = p, Pending(u, r)'
        PROVE  Count(r, p)' <= crashes'
    <3>1. CASE u = w
      BY <1>0, <1>2, <1>3, <1>5, <2>2, <3>1 DEF PointCount
    <3>2. CASE u # w
      BY <1>0, <1>2, <1>3, <1>5, <2>2, <3>2 DEF PointCount, Working, Pending
    <3> QED BY <3>1, <3>2
  <2> QED BY <2>1, <2>2 DEF PointCount
<1> QED BY <1>6, <1>7

\* A worker raises an alert of its rule and its point: once, as it drops the rule.
LEMMA WorkerRaises ==
    ASSUME CountInv, NEW w \in EvalWorkers, NEW a \in Alerts, NEW m \in Raising, m = eval[w], alert[a] = None,
           eval' = [eval EXCEPT ![w] = [stage |-> "enqueue", job |-> m.job, todo |-> m.todo, alert |-> a]],
           alert' = [alert EXCEPT ![a] = NewAlert(m)], UNCHANGED <<job, crashes>>
    PROVE  JobsHeld' /\ PointCount'
<1>0. /\ job \in [Jobs -> {"none", "waiting", "active", "kept"}]
      /\ alert \in [Alerts -> AlertRows \cup {None}] /\ crashes \in Nat
      /\ eval \in [EvalWorkers -> EvalStates] /\ JobsHeld /\ PointCount
  BY Typed DEF CountInv
<1>1. /\ m.job \in Jobs /\ m.rule \in Rules /\ m.stage = "create"
      /\ NewAlert(m) \in AlertRows /\ NewAlert(m) # None
      /\ NewAlert(m).origin = m.rule /\ NewAlert(m).point = m.job
  <2>1. NewAlert(m) \in AlertRows
    BY DEF NewAlert, AlertRows, Raising
  <2> QED BY <2>1, NoneAssumption DEF NewAlert, Raising
<1>2. /\ \A u \in EvalWorkers : u # w => eval'[u] = eval[u]
      /\ eval'[w].stage = "enqueue" /\ eval'[w].job = m.job /\ eval'[w].todo = m.todo
  BY <1>0
<1>3. \A u \in EvalWorkers : /\ Working(u)' <=> Working(u)
                             /\ eval'[u].job = eval[u].job
                             /\ eval'[u].stage = "create" => eval'[u] = eval[u]
                             /\ \A r \in Rules : Pending(u, r)' => Pending(u, r)
  BY <1>1, <1>2 DEF Working, Pending
<1>4. JobsHeld'
  BY <1>0, <1>3 DEF JobsHeld
<1>5. \A r, p : ~(r = m.rule /\ p = m.job) => Count(r, p)' = Count(r, p)
  <2>1. ASSUME NEW r, NEW p, ~(r = m.rule /\ p = m.job) PROVE Of(r, p)' = Of(r, p)
    BY <1>0, <1>1, <2>1 DEF Of
  <2> QED BY <2>1 DEF Count
<1>6. Count(m.rule, m.job)' = Count(m.rule, m.job) + 1
  <2>1. Of(m.rule, m.job)' = Of(m.rule, m.job) \cup {a} /\ a \notin Of(m.rule, m.job)
    BY <1>0, <1>1 DEF Of
  <2>2. IsFiniteSet(Of(m.rule, m.job))
    BY Counts
  <2> QED BY <2>1, <2>2, FS_AddElement DEF Count
<1>7. job[m.job] = "active" /\ m.rule \notin m.todo /\ Working(w)
  BY <1>0, <1>1 DEF JobsHeld, Working
<1>8. ASSUME NEW r \in Rules, NEW p \in Points
      PROVE  /\ Count(r, p)' <= 1 + crashes'
             /\ job'[p] \in {"none", "waiting"} => Count(r, p)' <= crashes'
             /\ \A u \in EvalWorkers : Working(u)' /\ eval'[u].job = p /\ Pending(u, r)' => Count(r, p)' <= crashes'
  <2>1. CASE r = m.rule /\ p = m.job
    <3>1. Count(r, p) <= crashes /\ Count(r, p) \in Nat
      BY <1>0, <1>1, <1>7, <2>1, Counts DEF PointCount, Pending
    <3>2. Count(r, p)' <= 1 + crashes'
      BY <1>0, <1>6, <2>1, <3>1
    <3>3. job'[p] \notin {"none", "waiting"}
      BY <1>7, <2>1
    <3>4. ASSUME NEW u \in EvalWorkers, Working(u)', eval'[u].job = p, Pending(u, r)' PROVE FALSE
      <4>1. CASE u = w
        BY <1>2, <1>7, <2>1, <3>4, <4>1 DEF Pending
      <4>2. CASE u # w
        BY <1>0, <1>3, <1>7, <2>1, <3>4, <4>2 DEF JobsHeld
      <4> QED BY <4>1, <4>2
    <3> QED BY <3>2, <3>3, <3>4
  <2>2. CASE ~(r = m.rule /\ p = m.job)
    <3>1. Count(r, p)' = Count(r, p)
      BY <1>5, <2>2
    <3> QED BY <1>0, <1>3, <3>1 DEF PointCount
  <2> QED BY <2>1, <2>2
<1>9. PointCount'
  BY <1>8 DEF PointCount
<1> QED BY <1>4, <1>9

\* A crash puts the active jobs back, and allows each rule one alert more.
LEMMA CrashCounts ==
    ASSUME CountInv, Crash
    PROVE  JobsHeld' /\ PointCount'
<1>0. PointCount /\ crashes \in Nat /\ crashes' = crashes + 1 /\ UNCHANGED alert
  BY Typed DEF CountInv, Crash
<1>1. \A r, p : Count(r, p)' = Count(r, p) /\ Count(r, p) \in Nat
  BY <1>0, SameOf, Counts
<1>2. \A w \in EvalWorkers : ~Working(w)'
  BY DEF Crash, Working, Idle
<1>3. JobsHeld'
  BY <1>2 DEF JobsHeld
<1>4. \A r \in Rules, p \in Points : Count(r, p)' <= crashes' /\ Count(r, p)' <= 1 + crashes'
  BY <1>0, <1>1 DEF PointCount
<1>5. PointCount'
  BY <1>2, <1>4 DEF PointCount
<1> QED BY <1>3, <1>5

LEMMA EvalStepCounts ==
    ASSUME CountInv, NEW w \in EvalWorkers, EvalStep(w)
    PROVE  JobsHeld' /\ PointCount'
<1>0. TypeOK /\ eval \in [EvalWorkers -> EvalStates] /\ JobsHeld /\ PointCount /\ LevelInv
  BY Typed DEF CountInv
<1>1. ASSUME CheckCooldown(w) PROVE JobsHeld' /\ PointCount'
  <2>1. PICK m \in Evaluating, r \in Rules, n \in EvalStates :
             /\ m = eval[w] /\ r \in m.todo /\ eval' = [eval EXCEPT ![w] = n]
             /\ \/ n = [stage |-> "next", job |-> m.job, todo |-> m.todo \ {r}]
                \/ n = [stage |-> "create", job |-> m.job, todo |-> m.todo \ {r}, rule |-> r]
    BY <1>0, <1>1, CheckedCooldown
  <2>2. /\ n.stage # "idle" /\ n.job = eval[w].job /\ n.todo = m.todo \ {r}
        /\ n.stage = "create" => n.rule = r
    BY <2>1
  <2>3. Working(w) /\ UNCHANGED <<job, crashes, alert>>
    BY <1>1, <2>1 DEF Working, CheckCooldown
  <2>4. \A s \in Rules : (s \in n.todo \/ (n.stage = "create" /\ n.rule = s)) => Pending(w, s)
    BY <2>1, <2>2 DEF Pending
  <2>5. n.stage = "create" => n.rule \notin n.todo
    BY <2>2
  <2>6. \A s, p : Count(s, p)' = Count(s, p)
    BY <2>3, SameOf
  <2> QED BY <2>1, <2>2, <2>3, <2>4, <2>5, <2>6, WorkerMoves
<1>2. ASSUME NEW a \in Alerts, CreateAlert(w, a) PROVE JobsHeld' /\ PointCount'
  <2>1. PICK m \in Raising, n \in EvalStates :
            /\ m = eval[w] /\ eval' = [eval EXCEPT ![w] = n] /\ alert[a] = None
            /\ \/ /\ n = [stage |-> "enqueue", job |-> m.job, todo |-> m.todo, alert |-> a]
                  /\ alert' = [alert EXCEPT ![a] = NewAlert(m)] /\ UNCHANGED job
               \/ n = Idle /\ job' = [job EXCEPT ![m.job] = Done(m.job)] /\ UNCHANGED alert
    BY <1>0, <1>2, CreatedAlert
  <2>2. Working(w) /\ UNCHANGED crashes
    BY <1>2, <2>1 DEF Working, CreateAlert
  <2>3. CASE n = Idle /\ job' = [job EXCEPT ![m.job] = Done(m.job)] /\ UNCHANGED alert
    <3>1. \A s, p : Count(s, p)' = Count(s, p)
      BY <2>3, SameOf
    <3> QED BY <2>1, <2>2, <2>3, <3>1, WorkerStops
  <2>4. CASE /\ n = [stage |-> "enqueue", job |-> m.job, todo |-> m.todo, alert |-> a]
             /\ alert' = [alert EXCEPT ![a] = NewAlert(m)] /\ UNCHANGED job
    BY <2>1, <2>2, <2>4, WorkerRaises
  <2> QED BY <2>1, <2>3, <2>4
<1>3. ASSUME EnqueueLevel0(w) PROVE JobsHeld' /\ PointCount'
  <2>1. PICK m \in Raised, n \in EvalStates :
             /\ m = eval[w] /\ eval' = [eval EXCEPT ![w] = n]
             /\ n = [stage |-> "next", job |-> m.job, todo |-> m.todo]
    BY <1>0, <1>3, EnqueuedLevel0
  <2>2. n.stage = "next" /\ n.job = eval[w].job /\ n.todo = eval[w].todo
    BY <2>1
  <2>3. Working(w) /\ UNCHANGED <<job, crashes, alert>>
    BY <1>3, <2>1 DEF Working, EnqueueLevel0
  <2>4. \A s \in Rules : (s \in n.todo \/ (n.stage = "create" /\ n.rule = s)) => Pending(w, s)
    BY <2>2 DEF Pending
  <2>5. \A s, p : Count(s, p)' = Count(s, p)
    BY <2>3, SameOf
  <2> QED BY <2>1, <2>2, <2>3, <2>4, <2>5, WorkerMoves
<1>4. ASSUME FinishEvaluation(w) PROVE JobsHeld' /\ PointCount'
  <2>1. Working(w) /\ UNCHANGED <<crashes, alert>>
    BY <1>4 DEF Working, FinishEvaluation
  <2>2. \A s, p : Count(s, p)' = Count(s, p)
    BY <2>1, SameOf
  <2> QED BY <1>4, <2>1, <2>2, WorkerStops DEF FinishEvaluation
<1>a. \/ \E j \in Jobs : StartEvaluation(w, j)
      \/ CheckCooldown(w)
      \/ \E a \in Alerts : CreateAlert(w, a)
      \/ EnqueueLevel0(w) \/ FinishEvaluation(w)
  BY DEF EvalStep
<1> QED BY <1>1, <1>2, <1>3, <1>4, <1>a, WorkerStarts, Zenon

LEMMA CountStep ==
    ASSUME CountInv, [Next]_vars
    PROVE  CountInv'
<1>0. LevelInv /\ JobsHeld /\ PointCount
  BY DEF CountInv
<1>1. LevelInv'
  BY <1>0, LevelStep
<1>2. CASE UNCHANGED <<job, eval, crashes, alert>>
  <2>1. \A r, p : Count(r, p)' = Count(r, p)
    BY <1>2, SameOf
  <2> QED BY <1>1, <1>2, <2>1, NothingCounted DEF CountInv
<1>3. CASE \/ \E r \in Rules : RemoveRule(r)
           \/ \E a \in Alerts : Acknowledge(a) \/ Resolve(a)
           \/ WindowPasses
  <2>1. \A r, p : Count(r, p)' = Count(r, p)
    BY <1>0, <1>3, AlertStepsKeep
  <2>2. UNCHANGED <<job, eval, crashes>>
    BY <1>3 DEF RemoveRule, Acknowledge, Resolve, WindowPasses, evalVars
  <2> QED BY <1>1, <2>1, <2>2, NothingCounted DEF CountInv
<1>4. CASE (\E p \in Points : EnqueueEvaluation(p)) \/ ScanDue
  <2>1. \E j \in Jobs : job[j] = "none" /\ job' = [job EXCEPT ![j] = "waiting"]
    BY <1>4 DEF EnqueueEvaluation, ScanDue, Jobs
  <2>2. UNCHANGED <<eval, crashes, alert>>
    BY <1>4 DEF EnqueueEvaluation, ScanDue
  <2>3. \A r, p : Count(r, p)' = Count(r, p)
    BY <2>2, SameOf
  <2> QED BY <1>1, <2>1, <2>2, <2>3, JobDue DEF CountInv
<1>5. CASE \E w \in EvalWorkers : EvalStep(w)
  BY <1>1, <1>5, EvalStepCounts DEF CountInv
<1>6. CASE Crash
  BY <1>1, <1>6, CrashCounts DEF CountInv
<1>7. \/ UNCHANGED <<job, eval, crashes, alert>>
      \/ \/ \E r \in Rules : RemoveRule(r)
         \/ \E a \in Alerts : Acknowledge(a) \/ Resolve(a)
         \/ WindowPasses
      \/ (\E p \in Points : EnqueueEvaluation(p)) \/ ScanDue
      \/ \E w \in EvalWorkers : EvalStep(w)
      \/ Crash
  BY DEF Next, vars, CreateRule, SetActive, SetLevels, EscStep, StartLevel, Notify, ScheduleNext, FinishLevel, evalVars
<1> QED BY <1>2, <1>3, <1>4, <1>5, <1>6, <1>7

LEMMA CountInit == Init => CountInv
<1> SUFFICES ASSUME Init PROVE CountInv
  OBVIOUS
<1>1. LevelInv
  BY LevelInit
<1>2. \A w \in EvalWorkers : ~Working(w)
  BY DEF Init, Working, Idle
<1>3. \A r, p : Of(r, p) = {}
  BY DEF Init, Of
<1>4. \A r, p : Count(r, p) = 0 /\ crashes = 0
  BY <1>3, FS_EmptySet DEF Count, Init
<1>5. JobsHeld /\ PointCount
  BY <1>2, <1>4 DEF JobsHeld, PointCount
<1> QED BY <1>1, <1>5 DEF CountInv

\* However often its evaluation is enqueued and however many workers there
\* are, a data point raises one alert of a rule, and one more for a crash.
THEOREM PointRaisesOnce == Spec => []OneAlertPerPoint
<1>1. CountInv => OneAlertPerPoint
  BY DEF CountInv, PointCount, OneAlertPerPoint, Count, Of
<1> QED BY <1>1, CountInit, CountStep, PTL DEF Spec

------------------------------------------------------------------------------
(* The cooldown window, with one alert-eval worker *)

OneWorker == \A v, w \in EvalWorkers : v = w
Raises(w, r) == eval[w].stage = "create" /\ eval[w].rule = r

\* Only a rule that exists has alerts, and nothing was raised in the window of
\* a rule that the worker is about to raise.
WindowInv ==
    \A r \in Rules :
        /\ rule[r].phase = "new" => Recent(r) = {}
        /\ rule[r].cooldown => \A a, b \in Recent(r) : a = b
        /\ \A w \in EvalWorkers : Raises(w, r) /\ rule[r].cooldown => Recent(r) = {}

\* A step that raises no alert, creates no rule and turns no cooldown on.
LEMMA NothingRaised ==
    ASSUME WindowInv,
           \A r \in Rules : /\ Recent(r)' \subseteq Recent(r)
                            /\ rule'[r].phase = "new" => rule[r].phase = "new"
                            /\ rule'[r].cooldown => rule[r].cooldown,
           \A w \in EvalWorkers, r \in Rules : Raises(w, r)' => Raises(w, r) \/ ~Suppressed(r)
    PROVE  WindowInv'
<1> SUFFICES ASSUME NEW r \in Rules
             PROVE  /\ rule'[r].phase = "new" => Recent(r)' = {}
                    /\ rule'[r].cooldown => \A a, b \in Recent(r)' : a = b
                    /\ \A w \in EvalWorkers : Raises(w, r)' /\ rule'[r].cooldown => Recent(r)' = {}
  BY DEF WindowInv
<1>1. Suppressed(r) <=> rule[r].cooldown /\ Recent(r) # {}
  BY DEF Suppressed
<1> QED BY <1>1 DEF WindowInv

LEMMA SameRecent ==
    ASSUME UNCHANGED alert
    PROVE  \A r : Recent(r)' = Recent(r)
BY DEF Recent, Raisedby

\* Rules and alerts are edited, and time passes.
LEMMA EditsKeepWindow ==
    ASSUME LevelInv, WindowInv, UNCHANGED eval,
           \/ \E r \in Rules, row \in RuleRows : CreateRule(r, row)
           \/ \E r \in Rules, active \in BOOLEAN : SetActive(r, active)
           \/ \E r \in Rules, levels \in PolicySizes : SetLevels(r, levels)
           \/ \E r \in Rules : RemoveRule(r)
           \/ \E a \in Alerts : Acknowledge(a) \/ Resolve(a)
           \/ WindowPasses
    PROVE  WindowInv'
<1>0. rule \in [Rules -> RuleRows] /\ alert \in [Alerts -> AlertRows \cup {None}]
  BY Typed DEF RowsTyped
<1>1. \A w \in EvalWorkers, r \in Rules : Raises(w, r)' <=> Raises(w, r)
  BY DEF Raises
<1>2. ASSUME NEW s \in Rules, NEW row \in RuleRows, CreateRule(s, row) PROVE WindowInv'
  <2>1. /\ rule[s].phase = "new" /\ rule'[s].phase = "live" /\ UNCHANGED alert
        /\ \A r \in Rules : r # s => rule'[r] = rule[r]
    BY <1>0, <1>2 DEF CreateRule
  <2>2. \A r : Recent(r)' = Recent(r)
    BY <2>1, SameRecent
  <2>3. Recent(s) = {}
    BY <2>1 DEF WindowInv
  <2> QED BY <1>1, <2>1, <2>2, <2>3 DEF WindowInv
<1>3. ASSUME UNCHANGED alert,
             \A r \in Rules : rule'[r].phase = rule[r].phase /\ rule'[r].cooldown = rule[r].cooldown
      PROVE  WindowInv'
  BY <1>1, <1>3, SameRecent DEF WindowInv
<1>4. ASSUME NEW s \in Rules, NEW active \in BOOLEAN, SetActive(s, active) PROVE WindowInv'
  <2>1. UNCHANGED alert /\ rule' = [rule EXCEPT ![s].active = active]
    BY <1>4 DEF SetActive
  <2>2. rule[s] \in RuleRows
    BY <1>0
  <2>3. \A r \in Rules : rule'[r].phase = rule[r].phase /\ rule'[r].cooldown = rule[r].cooldown
    BY <1>0, <2>1, <2>2 DEF RuleRows
  <2> QED BY <1>3, <2>1, <2>3
<1>5. ASSUME NEW s \in Rules, NEW levels \in PolicySizes, SetLevels(s, levels) PROVE WindowInv'
  <2>1. UNCHANGED alert /\ rule' = [rule EXCEPT ![s].levels = levels]
    BY <1>5 DEF SetLevels
  <2>2. rule[s] \in RuleRows
    BY <1>0
  <2>3. \A r \in Rules : rule'[r].phase = rule[r].phase /\ rule'[r].cooldown = rule[r].cooldown
    BY <1>0, <2>1, <2>2 DEF RuleRows
  <2> QED BY <1>3, <2>1, <2>3
<1>6. ASSUME NEW s \in Rules, RemoveRule(s) PROVE WindowInv'
  <2>1. \A r \in Rules : /\ rule'[r].phase = "new" => rule[r].phase = "new"
                         /\ rule'[r].cooldown = rule[r].cooldown
    <3>1. rule[s] \in RuleRows /\ rule' = [rule EXCEPT ![s].phase = "deleted", ![s].levels = 0]
      BY <1>0, <1>6 DEF RemoveRule
    <3> QED BY <1>0, <3>1 DEF RuleRows
  <2>2. \A r \in Rules : Recent(r)' \subseteq Recent(r)
    <3>1. ASSUME NEW r \in Rules, NEW a \in Recent(r)' PROVE a \in Recent(r)
      <4>1. a \in Alerts /\ alert'[a] # None /\ alert'[a].rule = r /\ alert'[a].recent
        BY DEF Recent, Raisedby
      <4>2. CASE a \in Raisedby(s)
        <5>1. alert[a] \in AlertRows /\ alert'[a] = [alert[a] EXCEPT !.rule = None]
          BY <1>0, <1>6, <4>1, <4>2 DEF RemoveRule, Raisedby
        <5>2. alert'[a].rule = None
          BY <5>1 DEF AlertRows
        <5> QED BY <4>1, <5>2, AlertingAssumption DEF AlertingAssumption
      <4>3. CASE a \notin Raisedby(s)
        BY <1>6, <4>1, <4>3 DEF RemoveRule, Recent, Raisedby
      <4> QED BY <4>2, <4>3
    <3> QED BY <3>1
  <2> QED BY <1>1, <2>1, <2>2, NothingRaised
<1>7. ASSUME UNCHANGED rule,
             \A a \in Alerts : alert'[a] = alert[a] \/
                 /\ alert[a] \in AlertRows /\ alert'[a].rule = alert[a].rule
                 /\ alert'[a].recent => alert[a].recent
      PROVE  WindowInv'
  <2>1. \A r \in Rules : Recent(r)' \subseteq Recent(r)
    BY <1>7, NoneAssumption DEF Recent, Raisedby
  <2> QED BY <1>1, <1>7, <2>1, NothingRaised
<1>8. ASSUME NEW a \in Alerts, Acknowledge(a) \/ Resolve(a) PROVE WindowInv'
  <2>1. /\ alert[a] \in AlertRows /\ UNCHANGED rule
        /\ \E st \in {"ACKNOWLEDGED", "RESOLVED"} : alert' = [alert EXCEPT ![a].status = st]
    BY <1>0, <1>8 DEF Acknowledge, Resolve
  <2>2. \A b \in Alerts : alert'[b] = alert[b] \/
            /\ alert[b] \in AlertRows /\ alert'[b].rule = alert[b].rule
            /\ alert'[b].recent => alert[b].recent
    BY <1>0, <2>1 DEF AlertRows
  <2> QED BY <1>7, <2>1, <2>2
<1>9. ASSUME WindowPasses PROVE WindowInv'
  <2>1. \A b \in Alerts : alert'[b] = alert[b] \/
            /\ alert[b] \in AlertRows /\ alert'[b].rule = alert[b].rule
            /\ alert'[b].recent => alert[b].recent
    BY <1>0, <1>9 DEF WindowPasses, AlertRows
  <2> QED BY <1>7, <1>9, <2>1 DEF WindowPasses
<1> QED BY <1>2, <1>4, <1>5, <1>6, <1>8, <1>9, Zenon

\* Steps that raise nothing and leave every worker with less to raise.
LEMMA QuietStep ==
    ASSUME WindowInv, UNCHANGED <<rule, alert>>,
           \A w \in EvalWorkers, r \in Rules : Raises(w, r)' => Raises(w, r) \/ ~Suppressed(r)
    PROVE  WindowInv'
<1>1. \A r : Recent(r)' = Recent(r)
  BY SameRecent
<1> QED BY <1>1, NothingRaised

LEMMA EvalStepWindow ==
    ASSUME OneWorker, LevelInv, WindowInv, NEW w \in EvalWorkers, EvalStep(w)
    PROVE  WindowInv'
<1>0. /\ TypeOK /\ eval \in [EvalWorkers -> EvalStates] /\ rule \in [Rules -> RuleRows]
      /\ alert \in [Alerts -> AlertRows \cup {None}]
  BY Typed DEF RowsTyped
<1>1. ASSUME NEW n \in EvalStates, eval' = [eval EXCEPT ![w] = n], UNCHANGED <<rule, alert>>,
             n.stage = "create" => ~Suppressed(n.rule)
      PROVE  WindowInv'
  <2>1. \A u \in EvalWorkers, r \in Rules : Raises(u, r)' => Raises(u, r) \/ ~Suppressed(r)
    BY <1>0, <1>1 DEF Raises
  <2> QED BY <1>1, <2>1, QuietStep
<1>2. ASSUME NEW j \in Jobs, StartEvaluation(w, j) PROVE WindowInv'
  <2>1. PICK todo \in SUBSET Rules : eval' = [eval EXCEPT ![w] = [stage |-> "next", job |-> j, todo |-> todo]]
    BY <1>0, <1>2, StartedEvaluation
  <2>2. [stage |-> "next", job |-> j, todo |-> todo] \in EvalStates
    BY EvalMade
  <2> QED BY <1>1, <1>2, <2>1, <2>2 DEF StartEvaluation
<1>3. ASSUME CheckCooldown(w) PROVE WindowInv'
  <2>1. PICK m \in Evaluating, r \in Rules, n \in EvalStates :
            /\ eval' = [eval EXCEPT ![w] = n]
            /\ \/ n = [stage |-> "next", job |-> m.job, todo |-> m.todo \ {r}]
               \/ ~Suppressed(r) /\ n = [stage |-> "create", job |-> m.job, todo |-> m.todo \ {r}, rule |-> r]
    BY <1>0, <1>3, CheckedCooldown
  <2>2. n.stage = "create" => ~Suppressed(n.rule)
    BY <2>1
  <2> QED BY <1>1, <1>3, <2>1, <2>2 DEF CheckCooldown
<1>4. ASSUME NEW a \in Alerts, CreateAlert(w, a) PROVE WindowInv'
  <2>1. PICK m \in Raising, n \in EvalStates :
            /\ m = eval[w] /\ eval' = [eval EXCEPT ![w] = n] /\ alert[a] = None
            /\ \/ /\ rule[m.rule].phase = "live"
                  /\ n = [stage |-> "enqueue", job |-> m.job, todo |-> m.todo, alert |-> a]
                  /\ alert' = [alert EXCEPT ![a] = NewAlert(m)]
               \/ n = Idle /\ UNCHANGED alert
    BY <1>0, <1>4, CreatedAlert
  <2>2. UNCHANGED rule
    BY <1>4 DEF CreateAlert
  <2>3. CASE n = Idle /\ UNCHANGED alert
    BY <1>1, <2>1, <2>2, <2>3 DEF Idle
  <2>4. CASE /\ rule[m.rule].phase = "live"
             /\ n = [stage |-> "enqueue", job |-> m.job, todo |-> m.todo, alert |-> a]
             /\ alert' = [alert EXCEPT ![a] = NewAlert(m)]
    <3>1. m.rule \in Rules /\ Raises(w, m.rule)
      BY <2>1 DEF Raising, Raises
    <3>2. rule[m.rule].cooldown => Recent(m.rule) = {}
      BY <3>1 DEF WindowInv
    <3>3. NewAlert(m).rule = m.rule
      BY DEF NewAlert
    <3>4. Recent(m.rule)' \subseteq Recent(m.rule) \cup {a}
      BY <1>0, <2>1, <2>4 DEF Recent, Raisedby
    <3>5. \A r \in Rules : r # m.rule => Recent(r)' = Recent(r)
      BY <1>0, <2>1, <2>4, <3>3 DEF Recent, Raisedby
    <3>6. \A u \in EvalWorkers, r \in Rules : ~Raises(u, r)'
      BY <1>0, <2>1, <2>4 DEF Raises, OneWorker
    <3>7. ASSUME NEW r \in Rules
          PROVE  /\ rule'[r].phase = "new" => Recent(r)' = {}
                 /\ rule'[r].cooldown => \A b, c \in Recent(r)' : b = c
      <4>1. CASE r = m.rule
        <5>1. rule'[r].phase = "live"
          BY <2>2, <2>4, <4>1
        <5>2. rule'[r].cooldown => Recent(r)' \subseteq {a}
          BY <2>2, <3>2, <3>4, <4>1
        <5> QED BY <5>1, <5>2
      <4>2. CASE r # m.rule
        BY <2>2, <3>5, <4>2 DEF WindowInv
      <4> QED BY <4>1, <4>2
    <3> QED BY <3>6, <3>7 DEF WindowInv
  <2> QED BY <2>1, <2>3, <2>4
<1>5. ASSUME EnqueueLevel0(w) PROVE WindowInv'
  <2>1. PICK m \in Raised, n \in EvalStates :
             eval' = [eval EXCEPT ![w] = n] /\ n = [stage |-> "next", job |-> m.job, todo |-> m.todo]
    BY <1>0, <1>5, EnqueuedLevel0
  <2>2. n.stage = "next" /\ UNCHANGED <<rule, alert>>
    BY <1>5, <2>1 DEF EnqueueLevel0
  <2> QED BY <1>1, <2>1, <2>2
<1>6. ASSUME FinishEvaluation(w) PROVE WindowInv'
  <2>1. eval' = [eval EXCEPT ![w] = Idle] /\ UNCHANGED <<rule, alert>> /\ Idle.stage = "idle"
    BY <1>6 DEF FinishEvaluation, Idle
  <2> QED BY <1>1, <2>1, EvalMade
<1>a. \/ \E j \in Jobs : StartEvaluation(w, j)
      \/ CheckCooldown(w)
      \/ \E a \in Alerts : CreateAlert(w, a)
      \/ EnqueueLevel0(w) \/ FinishEvaluation(w)
  BY DEF EvalStep
<1> QED BY <1>2, <1>3, <1>4, <1>5, <1>6, <1>a, Zenon

LEMMA WindowStep ==
    ASSUME OneWorker, LevelInv, WindowInv, [Next]_vars
    PROVE  WindowInv'
<1>1. CASE UNCHANGED <<rule, alert, eval>>
  <2>1. \A w \in EvalWorkers, r \in Rules : Raises(w, r)' => Raises(w, r)
    BY <1>1 DEF Raises
  <2> QED BY <1>1, <2>1, QuietStep
<1>2. CASE Crash
  <2>1. \A w \in EvalWorkers, r \in Rules : ~Raises(w, r)'
    BY <1>2 DEF Crash, Raises, Idle
  <2>2. UNCHANGED <<rule, alert>>
    BY <1>2 DEF Crash
  <2> QED BY <2>1, <2>2, QuietStep
<1>3. CASE \E w \in EvalWorkers : EvalStep(w)
  BY <1>3, EvalStepWindow
<1>4. CASE /\ UNCHANGED eval
           /\ \/ \E r \in Rules, row \in RuleRows : CreateRule(r, row)
              \/ \E r \in Rules, active \in BOOLEAN : SetActive(r, active)
              \/ \E r \in Rules, levels \in PolicySizes : SetLevels(r, levels)
              \/ \E r \in Rules : RemoveRule(r)
              \/ \E a \in Alerts : Acknowledge(a) \/ Resolve(a)
              \/ WindowPasses
  BY <1>4, EditsKeepWindow
<1>5. \/ UNCHANGED <<rule, alert, eval>>
      \/ Crash
      \/ \E w \in EvalWorkers : EvalStep(w)
      \/ /\ UNCHANGED eval
         /\ \/ \E r \in Rules, row \in RuleRows : CreateRule(r, row)
            \/ \E r \in Rules, active \in BOOLEAN : SetActive(r, active)
            \/ \E r \in Rules, levels \in PolicySizes : SetLevels(r, levels)
            \/ \E r \in Rules : RemoveRule(r)
            \/ \E a \in Alerts : Acknowledge(a) \/ Resolve(a)
            \/ WindowPasses
  BY DEF Next, vars, evalVars, CreateRule, SetActive, SetLevels, RemoveRule, Acknowledge, Resolve, WindowPasses,
         EnqueueEvaluation, ScanDue, EscStep, StartLevel, Notify, ScheduleNext, FinishLevel
<1> QED BY <1>1, <1>2, <1>3, <1>4, <1>5

LEMMA WindowInit == Init => WindowInv
BY DEF Init, WindowInv, Raises, Recent, Raisedby, Idle

LEMMA WindowCount ==
    ASSUME WindowInv PROVE OneAlertPerWindow
<1> SUFFICES ASSUME NEW r \in Rules, rule[r].cooldown PROVE Cardinality(Recent(r)) <= 1
  BY DEF OneAlertPerWindow
<1>1. \A a, b \in Recent(r) : a = b
  BY DEF WindowInv
<1>2. CASE Recent(r) = {}
  BY <1>2, FS_EmptySet
<1>3. ASSUME NEW a \in Recent(r) PROVE Cardinality(Recent(r)) <= 1
  <2>1. Recent(r) = {} \cup {a}
    BY <1>1, <1>3
  <2> QED BY <2>1, FS_EmptySet, FS_AddElement
<1> QED BY <1>2, <1>3

\* With one alert-eval worker the query and the insert of maybeCreateAlert
\* cannot overlap, and a rule with a cooldown raises one alert per window.
THEOREM WindowRaisesOnce == ASSUME OneWorker PROVE Spec => []OneAlertPerWindow
<1>1. LevelInv /\ WindowInv /\ [Next]_vars => WindowInv'
  BY OneWorker, WindowStep
<1>2. WindowInv => OneAlertPerWindow
  BY WindowCount
<1> QED BY <1>1, <1>2, WindowInit, LevelAlways, PTL DEF Spec

------------------------------------------------------------------------------
(***************************************************************************)
(* How often a level notifies, and what an acknowledgement still lets out. *)
(***************************************************************************)

Busy(v) == fire[v].stage # "idle"
At(v, a, l) == Busy(v) /\ fire[v].alert = a /\ fire[v].level = l
LoadedAt(v, a, l) == fire[v].stage = "loaded" /\ fire[v].alert = a /\ fire[v].level = l
LoadedOn(a) == {v \in EscWorkers : fire[v].stage = "loaded" /\ fire[v].alert = a}

\* A level is active exactly while one worker is on it.
LevelsHeld ==
    /\ \A v \in EscWorkers : Busy(v) => esc[fire[v].alert][fire[v].level] = "active"
    /\ \A u, v \in EscWorkers : Busy(v) /\ At(u, fire[v].alert, fire[v].level) => u = v
    /\ \A a \in Alerts, l \in Levels : esc[a][l] = "active" => \E v \in EscWorkers : At(v, a, l)

\* A level that is still to notify has notified at most in a run that crashed.
FiredCounts ==
    \A a \in Alerts, l \in Levels :
        /\ fired[a][l] <= 1 + crashes
        /\ esc[a][l] = "none" => fired[a][l] = 0
        /\ esc[a][l] = "delayed" => fired[a][l] <= crashes
        /\ \A v \in EscWorkers : LoadedAt(v, a, l) => fired[a][l] <= crashes

\* The level notified twice, or will.
Rerun(a, l) ==
    \/ fired[a][l] > 1
    \/ fired[a][l] = 1 /\ (esc[a][l] = "delayed" \/ \E v \in EscWorkers : LoadedAt(v, a, l))
Reruns(a) == {l \in Levels : Rerun(a, l)}
RerunsBounded == \A a \in Alerts : Cardinality(Reruns(a)) <= crashes * Cardinality(EscWorkers)

\* The level is the one to notify next, or has its successor still to schedule.
Ahead(a, l) ==
    \/ esc[a][l] = "delayed"
    \/ \E v \in EscWorkers : fire[v].stage \in {"loaded", "fired"} /\ At(v, a, l)
OneLevelAhead ==
    crashes = 0 => \A a \in Alerts, l, k \in Levels : Ahead(a, l) /\ Ahead(a, k) => l = k

\* An alert about to be handed to the queue has no level there, and is handed over once.
Unqueued ==
    \A w \in EvalWorkers : eval[w].stage = "enqueue" =>
        ( /\ \A l \in Levels : esc[eval[w].alert][l] = "none"
          /\ \A u \in EvalWorkers : eval[u].stage = "enqueue" /\ eval[u].alert = eval[w].alert => u = w )

\* What has notified late, or may.
LateCounts ==
    \A a \in Alerts :
        /\ alert[a] = None \/ alert[a].status = "OPEN" => late[a] = 0
        /\ late[a] + Cardinality(LoadedOn(a)) <= Cardinality(EscWorkers)
        /\ crashes = 0 => late[a] + Cardinality(LoadedOn(a)) <= 1

FireInv ==
    LevelInv /\ LevelsHeld /\ FiredCounts /\ RerunsBounded /\ OneLevelAhead /\ Unqueued /\ LateCounts

------------------------------------------------------------------------------
LEMMA FireTyped ==
    ASSUME LevelInv
    PROVE  /\ TypeOK /\ Known /\ EvalTyped /\ EscTyped
           /\ eval \in [EvalWorkers -> EvalStates] /\ alert \in [Alerts -> AlertRows \cup {None}]
           /\ esc \in [Alerts -> [Levels -> {"none", "delayed", "active", "kept"}]]
           /\ fire \in [EscWorkers -> {Idle} \cup Firing]
           /\ fired \in [Alerts -> [Levels -> Nat]] /\ late \in [Alerts -> Nat] /\ crashes \in {0, 1}
BY TypeParts DEF LevelInv, EvalTyped, EscTyped, RowsTyped, Bounded

LEMMA WorkerSets ==
    /\ IsFiniteSet(EscWorkers) /\ Cardinality(EscWorkers) \in Nat
    /\ \A S \in SUBSET EscWorkers : /\ IsFiniteSet(S) /\ Cardinality(S) \in Nat
                                    /\ Cardinality(S) <= Cardinality(EscWorkers)
<1>1. IsFiniteSet(EscWorkers)
  BY AlertingAssumption DEF AlertingAssumption
<1> QED BY <1>1, FS_CardinalityType, FS_Subset

LEMMA LevelSets ==
    \A S \in SUBSET Levels : IsFiniteSet(S) /\ Cardinality(S) \in Nat
<1>1. IsFiniteSet(Levels)
  <2>1. 0 \in Int /\ MaxLevels - 1 \in Int
    BY AlertingAssumption DEF AlertingAssumption
  <2> QED BY <2>1, FS_Interval DEF Levels
<1> QED BY <1>1, FS_CardinalityType, FS_Subset

\* Levels that become no more likely to notify again.
LEMMA NoNewReruns ==
    ASSUME RerunsBounded, crashes \in {0, 1}, UNCHANGED crashes,
           \A a \in Alerts, l \in Levels : Rerun(a, l)' => Rerun(a, l)
    PROVE  RerunsBounded'
<1> SUFFICES ASSUME NEW a \in Alerts
             PROVE  Cardinality(Reruns(a)') <= crashes * Cardinality(EscWorkers)
  BY DEF RerunsBounded
<1>1. Reruns(a)' \in SUBSET Reruns(a) /\ Reruns(a) \in SUBSET Levels
  BY DEF Reruns
<1>2. Cardinality(Reruns(a)') <= Cardinality(Reruns(a)) /\ Cardinality(Reruns(a)') \in Nat
      /\ Cardinality(Reruns(a)) \in Nat /\ crashes * Cardinality(EscWorkers) \in Nat
  BY <1>1, LevelSets, FS_Subset, WorkerSets
<1> QED BY <1>2 DEF RerunsBounded

\* Alerts whose workers and late notifications stay as they were.
LEMMA NothingLate ==
    ASSUME LateCounts, UNCHANGED <<late, crashes>>,
           \A v \in EscWorkers, a \in Alerts :
               fire'[v].stage = "loaded" /\ fire'[v].alert = a <=> fire[v].stage = "loaded" /\ fire[v].alert = a,
           \A a \in Alerts : alert'[a] = None \/ alert'[a].status = "OPEN" => alert[a] = None \/ alert[a].status = "OPEN"
    PROVE  LateCounts'
<1>1. \A a \in Alerts : LoadedOn(a)' = LoadedOn(a)
  BY DEF LoadedOn
<1> QED BY <1>1 DEF LateCounts

\* Steps of the evaluation side, of users and of time.
LEMMA NothingFires ==
    ASSUME FireInv, UNCHANGED <<esc, fire, fired, late, crashes>>,
           \A a \in Alerts : alert'[a] = None \/ alert'[a].status = "OPEN" => alert[a] = None \/ alert[a].status = "OPEN"
    PROVE  LevelsHeld' /\ FiredCounts' /\ RerunsBounded' /\ OneLevelAhead' /\ LateCounts'
<1>1. LevelsHeld'
  BY DEF FireInv, LevelsHeld, Busy, At
<1>2. FiredCounts'
  BY DEF FireInv, FiredCounts, LoadedAt
<1>3. RerunsBounded'
  BY DEF FireInv, RerunsBounded, Reruns, Rerun, LoadedAt
<1>4. OneLevelAhead'
  BY DEF FireInv, OneLevelAhead, Ahead, At, Busy
<1>5. LateCounts'
  BY NothingLate DEF FireInv
<1> QED BY <1>1, <1>2, <1>3, <1>4, <1>5

LEMMA SameUnqueued ==
    ASSUME FireInv, UNCHANGED esc,
           \A w \in EvalWorkers : eval'[w] = eval[w] \/ eval'[w].stage # "enqueue"
    PROVE  Unqueued'
BY DEF FireInv, Unqueued

\* The escalation worker takes a level up.
LEMMA StartLevelFires ==
    ASSUME FireInv, NEW v \in EscWorkers, NEW a \in Alerts, NEW l \in Levels, StartLevel(v, a, l)
    PROVE  LevelsHeld' /\ FiredCounts' /\ RerunsBounded' /\ OneLevelAhead' /\ Unqueued' /\ LateCounts'
<1>0. /\ TypeOK /\ Known /\ esc[a][l] = "delayed" /\ ~Busy(v)
      /\ esc \in [Alerts -> [Levels -> {"none", "delayed", "active", "kept"}]]
      /\ fire \in [EscWorkers -> {Idle} \cup Firing] /\ crashes \in {0, 1}
      /\ UNCHANGED <<eval, alert, fired, late, crashes>>
      /\ LevelsHeld /\ FiredCounts /\ RerunsBounded /\ OneLevelAhead /\ Unqueued /\ LateCounts
  BY FireTyped DEF FireInv, StartLevel, evalVars, Idle, Busy
<1>1. \A u \in EscWorkers : Busy(u) => ~At(u, a, l) /\ esc[fire[u].alert][fire[u].level] = "active"
                                       /\ fire[u].alert \in Alerts /\ fire[u].level \in Levels
  BY <1>0, BusyOnLevel, FireTyped DEF FireInv, LevelsHeld, At, Busy
<1>2. CASE fire' = fire /\ esc' = [esc EXCEPT ![a][l] = "kept"]
  <2>1. \A b \in Alerts, k \in Levels : esc'[b][k] = IF b = a /\ k = l THEN "kept" ELSE esc[b][k]
    BY <1>0, <1>2
  <2>2. LevelsHeld'
    BY <1>0, <1>1, <1>2, <2>1 DEF LevelsHeld, At, Busy
  <2>3. FiredCounts'
    BY <1>0, <1>2, <2>1 DEF FiredCounts, LoadedAt
  <2>4. \A b \in Alerts, k \in Levels : (Rerun(b, k)' => Rerun(b, k)) /\ (Ahead(b, k)' => Ahead(b, k))
    BY <1>0, <1>2, <2>1 DEF Rerun, Ahead, LoadedAt, At, Busy
  <2>5. RerunsBounded' /\ OneLevelAhead'
    BY <1>0, <2>4, NoNewReruns DEF OneLevelAhead
  <2>6. Unqueued'
    <3>1. \A w \in EvalWorkers : eval[w].stage = "enqueue" => eval[w].alert \in Alerts
      BY EvalStages, FireTyped DEF FireInv, Raised
    <3> QED BY <1>0, <2>1, <3>1 DEF Unqueued
  <2>7. LateCounts'
    BY <1>0, <1>2, NothingLate
  <2> QED BY <2>2, <2>3, <2>5, <2>6, <2>7
<1>3. ASSUME NEW levels \in 0..MaxLevels, esc' = [esc EXCEPT ![a][l] = "active"], alert[a].status = "OPEN",
             fire' = [fire EXCEPT ![v] = [stage |-> "loaded", alert |-> a, level |-> l, levels |-> levels]]
      PROVE  LevelsHeld' /\ FiredCounts' /\ RerunsBounded' /\ OneLevelAhead' /\ Unqueued' /\ LateCounts'
  <2>1. \A b \in Alerts, k \in Levels : esc'[b][k] = IF b = a /\ k = l THEN "active" ELSE esc[b][k]
    BY <1>0, <1>3
  <2>2. /\ fire'[v].stage = "loaded" /\ fire'[v].alert = a /\ fire'[v].level = l
        /\ \A u \in EscWorkers \ {v} : fire'[u] = fire[u]
    BY <1>0, <1>3
  <2>3. LevelsHeld'
    <3>1. \A u \in EscWorkers : Busy(u)' => esc'[fire'[u].alert][fire'[u].level] = "active"
      BY <1>0, <1>1, <2>1, <2>2 DEF Busy
    <3>2. ASSUME NEW u \in EscWorkers, NEW t \in EscWorkers, Busy(t)', Busy(u)',
                 fire'[u].alert = fire'[t].alert, fire'[u].level = fire'[t].level
          PROVE  u = t
      BY <1>0, <1>1, <2>2, <3>2 DEF LevelsHeld, At, Busy
    <3>3. ASSUME NEW b \in Alerts, NEW k \in Levels, esc'[b][k] = "active"
          PROVE  \E u \in EscWorkers : At(u, b, k)'
      <4>1. CASE b = a /\ k = l
        BY <2>2, <4>1 DEF At, Busy
      <4>2. CASE ~(b = a /\ k = l)
        <5>1. PICK u \in EscWorkers : At(u, b, k)
          BY <1>0, <2>1, <3>3, <4>2 DEF LevelsHeld
        <5> QED BY <1>0, <2>2, <5>1 DEF At, Busy
      <4> QED BY <4>1, <4>2
    <3> QED BY <3>1, <3>2, <3>3 DEF LevelsHeld, At
  <2>4. FiredCounts'
    BY <1>0, <2>1, <2>2 DEF FiredCounts, LoadedAt
  <2>5. \A b \in Alerts, k \in Levels : (Rerun(b, k)' => Rerun(b, k)) /\ (Ahead(b, k)' => Ahead(b, k))
    BY <1>0, <2>1, <2>2 DEF Rerun, Ahead, LoadedAt, At, Busy
  <2>6. RerunsBounded' /\ OneLevelAhead'
    BY <1>0, <2>5, NoNewReruns DEF OneLevelAhead
  <2>7. Unqueued'
    <3>1. \A w \in EvalWorkers : eval[w].stage = "enqueue" => eval[w].alert \in Alerts
      BY EvalStages, FireTyped DEF FireInv, Raised
    <3> QED BY <1>0, <2>1, <3>1 DEF Unqueued
  <2>8. LateCounts'
    <3>1. ASSUME NEW b \in Alerts, b # a PROVE LoadedOn(b)' = LoadedOn(b)
      BY <1>0, <2>2, <3>1 DEF LoadedOn, Busy
    <3>2. late'[a] = 0 /\ late[a] = 0
      BY <1>0, <1>3 DEF LateCounts
    <3>3. LoadedOn(a)' \in SUBSET EscWorkers
      BY DEF LoadedOn
    <3>4. ASSUME crashes = 0 PROVE LoadedOn(a)' \in SUBSET {v}
      <4>1. ASSUME NEW u \in LoadedOn(a)' PROVE u = v
        <5>1. u \in EscWorkers /\ fire'[u].stage = "loaded" /\ fire'[u].alert = a
          BY DEF LoadedOn
        <5>2. PICK k \in Levels : fire'[u].level = k
          BY <1>1, <2>2, <5>1 DEF Busy
        <5>3. Ahead(a, k)' /\ Ahead(a, l)'
          BY <2>2, <5>1, <5>2 DEF Ahead, At, Busy
        <5>4. k = l
          BY <1>0, <2>6, <3>4, <5>3 DEF OneLevelAhead
        <5> QED BY <2>2, <2>3, <5>1, <5>2, <5>4 DEF LevelsHeld, At, Busy
      <4> QED BY <4>1
    <3>5. crashes = 0 => Cardinality(LoadedOn(a)') <= 1
      <4>1. IsFiniteSet({v}) /\ Cardinality({v}) = 1
        BY FS_Singleton
      <4>2. \A S \in SUBSET {v} : Cardinality(S) <= 1
        BY <4>1, FS_Subset
      <4> QED BY <3>4, <4>2
    <3>6. late'[a] + Cardinality(LoadedOn(a)') <= Cardinality(EscWorkers) /\ Cardinality(LoadedOn(a)') \in Nat
      BY <3>2, <3>3, WorkerSets
    <3> QED BY <1>0, <3>1, <3>2, <3>5, <3>6 DEF LateCounts
  <2> QED BY <2>3, <2>4, <2>6, <2>7, <2>8
<1>4. \/ fire' = fire /\ esc' = [esc EXCEPT ![a][l] = "kept"]
      \/ \E levels \in 0..MaxLevels :
            /\ esc' = [esc EXCEPT ![a][l] = "active"] /\ alert[a].status = "OPEN"
            /\ fire' = [fire EXCEPT ![v] = [stage |-> "loaded", alert |-> a, level |-> l, levels |-> levels]]
  <2>1. (IF alert[a].rule = None THEN 0 ELSE rule[alert[a].rule].levels) \in 0..MaxLevels
    <3>1. alert[a] \in AlertRows
      BY <1>0, TypeParts DEF Known, RowsTyped
    <3>2. alert[a].rule \in Rules \cup {None}
      BY <3>1 DEF AlertRows
    <3> QED BY <1>0, <3>2, TypeParts, AlertingAssumption DEF AlertingAssumption, RowsTyped, RuleRows
  <2> QED BY <2>1 DEF StartLevel, Escalatable
<1> QED BY <1>2, <1>3, <1>4

\* The alert a worker hands to the queue.
LEMMA HandedOver ==
    ASSUME LevelInv
    PROVE  \A w \in EvalWorkers : eval[w].stage = "enqueue" => eval[w].alert \in Alerts /\ alert[eval[w].alert] # None
BY EvalStages, FireTyped DEF Known, Raised

LEMMA NotifyFires ==
    ASSUME FireInv, NEW v \in EscWorkers, Notify(v)
    PROVE  LevelsHeld' /\ FiredCounts' /\ RerunsBounded' /\ OneLevelAhead' /\ Unqueued' /\ LateCounts'
<1>1. PICK m \in Firing :
          /\ m = fire[v] /\ m.stage = "loaded"
          /\ fired' = [fired EXCEPT ![m.alert][m.level] = fired[m.alert][m.level] + 1]
          /\ fire' = [fire EXCEPT ![v] =
                 [stage |-> "fired", alert |-> m.alert, level |-> m.level, levels |-> m.levels]]
  BY FireTyped, Notified DEF FireInv
<1>2. PICK a \in Alerts, l \in Levels : m.alert = a /\ m.level = l
  BY DEF Firing
<1>0. /\ esc \in [Alerts -> [Levels -> {"none", "delayed", "active", "kept"}]]
      /\ fire \in [EscWorkers -> {Idle} \cup Firing] /\ crashes \in {0, 1}
      /\ fired \in [Alerts -> [Levels -> Nat]] /\ late \in [Alerts -> Nat]
      /\ UNCHANGED <<eval, alert, esc, crashes>>
      /\ LevelsHeld /\ FiredCounts /\ RerunsBounded /\ OneLevelAhead /\ Unqueued /\ LateCounts
  BY FireTyped DEF FireInv, Notify, evalVars
<1>3. /\ fire[v].stage = "loaded" /\ fire[v].alert = a /\ fire[v].level = l
      /\ fire'[v].stage = "fired" /\ fire'[v].alert = a /\ fire'[v].level = l
      /\ \A u \in EscWorkers \ {v} : fire'[u] = fire[u]
  BY <1>0, <1>1, <1>2
<1>4. /\ fired'[a][l] = fired[a][l] + 1 /\ fired[a][l] \in Nat
      /\ \A b \in Alerts, k \in Levels : b # a \/ k # l => fired'[b][k] = fired[b][k]
  BY <1>0, <1>1, <1>2
<1>5. LoadedAt(v, a, l) /\ At(v, a, l) /\ esc[a][l] = "active" /\ \A u \in EscWorkers : At(u, a, l) => u = v
  BY <1>0, <1>3 DEF LevelsHeld, LoadedAt, At, Busy
<1>6. LevelsHeld'
  <2>1. \A u \in EscWorkers : /\ Busy(u)' <=> Busy(u)
                              /\ fire'[u].alert = fire[u].alert /\ fire'[u].level = fire[u].level
    BY <1>3 DEF Busy
  <2>2. \A u \in EscWorkers : Busy(u)' => esc'[fire'[u].alert][fire'[u].level] = "active"
    BY <1>0, <2>1 DEF LevelsHeld
  <2>3. \A u \in EscWorkers, b \in Alerts, k \in Levels : At(u, b, k)' <=> At(u, b, k)
    BY <2>1 DEF At
  <2>4. ASSUME NEW u \in EscWorkers, NEW t \in EscWorkers, Busy(t)', Busy(u)',
               fire'[u].alert = fire'[t].alert, fire'[u].level = fire'[t].level
        PROVE  u = t
    BY <1>0, <2>1, <2>4 DEF LevelsHeld, At
  <2>5. \A b \in Alerts, k \in Levels : esc'[b][k] = "active" => \E u \in EscWorkers : At(u, b, k)'
    BY <1>0, <2>3 DEF LevelsHeld
  <2> QED BY <2>2, <2>4, <2>5 DEF LevelsHeld, At
<1>7. \A u \in EscWorkers, b \in Alerts, k \in Levels : LoadedAt(u, b, k)' => LoadedAt(u, b, k) /\ ~(b = a /\ k = l)
  BY <1>3, <1>5 DEF LoadedAt, At, Busy
<1>8. FiredCounts'
  BY <1>0, <1>4, <1>5, <1>7 DEF FiredCounts
<1>9. \A b \in Alerts, k \in Levels : Rerun(b, k)' => Rerun(b, k)
  <2>1. ASSUME Rerun(a, l)' PROVE Rerun(a, l)
    <3>1. fired'[a][l] > 1
      BY <1>0, <1>5, <1>7, <2>1 DEF Rerun
    <3> QED BY <1>4, <1>5, <3>1 DEF Rerun
  <2>2. ASSUME NEW b \in Alerts, NEW k \in Levels, b # a \/ k # l, Rerun(b, k)' PROVE Rerun(b, k)
    BY <1>0, <1>4, <1>7, <2>2 DEF Rerun
  <2> QED BY <2>1, <2>2
<1>10. RerunsBounded'
  BY <1>0, <1>9, NoNewReruns
<1>11. \A b \in Alerts, k \in Levels : Ahead(b, k)' => Ahead(b, k)
  BY <1>0, <1>3 DEF Ahead, At, Busy
<1>12. OneLevelAhead'
  BY <1>0, <1>11 DEF OneLevelAhead
<1>13. Unqueued'
  BY <1>0 DEF Unqueued
<1>14. LateCounts'
  <2>1. ASSUME NEW b \in Alerts, b # a PROVE LoadedOn(b)' = LoadedOn(b) /\ late'[b] = late[b]
    <3>1. LoadedOn(b)' = LoadedOn(b)
      BY <1>3, <2>1 DEF LoadedOn
    <3> QED BY <1>0, <1>3, <2>1, <3>1 DEF Notify
  <2>2. LoadedOn(a)' = LoadedOn(a) \ {v} /\ v \in LoadedOn(a)
    BY <1>3 DEF LoadedOn
  <2>3. IsFiniteSet(LoadedOn(a)) /\ Cardinality(LoadedOn(a)) \in Nat /\ Cardinality(EscWorkers) \in Nat
    BY WorkerSets DEF LoadedOn
  <2>4. Cardinality(LoadedOn(a)') = Cardinality(LoadedOn(a)) - 1
    BY <2>2, <2>3, FS_RemoveElement
  <2>5. /\ late[a] \in Nat /\ late'[a] = IF alert[a].status = "OPEN" THEN late[a] ELSE late[a] + 1
    BY <1>0, <1>3 DEF Notify
  <2>6. alert[a] # None
    BY <1>5, FireTyped DEF FireInv, Known
  <2> QED BY <1>0, <2>1, <2>3, <2>4, <2>5, <2>6 DEF LateCounts
<1> QED BY <1>6, <1>8, <1>10, <1>12, <1>13, <1>14

\* A level enters the queue, of an alert that had nothing left to notify.
LEMMA LevelQueued ==
    ASSUME FireInv, NEW a \in Alerts, NEW l \in Levels,
           UNCHANGED <<alert, fired, late, crashes>>,
           esc' = AddLevel(esc, a, l) \/ esc' = esc,
           \A u \in EscWorkers : /\ Busy(u)' <=> Busy(u)
                                 /\ Busy(u) => fire'[u].alert = fire[u].alert /\ fire'[u].level = fire[u].level
                                 /\ fire'[u].stage = "loaded" <=> fire[u].stage = "loaded"
                                 /\ fire'[u].stage = "fired" => fire[u].stage = "fired",
           crashes = 0 => \A k \in Levels : ~Ahead(a, k)' \/ k = l
    PROVE  LevelsHeld' /\ FiredCounts' /\ RerunsBounded' /\ OneLevelAhead' /\ LateCounts'
<1>0. /\ esc \in [Alerts -> [Levels -> {"none", "delayed", "active", "kept"}]] /\ crashes \in {0, 1}
      /\ fired \in [Alerts -> [Levels -> Nat]]
      /\ LevelsHeld /\ FiredCounts /\ RerunsBounded /\ OneLevelAhead /\ LateCounts
  BY FireTyped DEF FireInv
<1>1. \A b \in Alerts, k \in Levels : \/ esc'[b][k] = esc[b][k]
                                      \/ b = a /\ k = l /\ esc[b][k] = "none" /\ esc'[b][k] = "delayed"
  BY <1>0 DEF AddLevel
<1>2. \A u \in EscWorkers, b \in Alerts, k \in Levels :
          (At(u, b, k)' <=> At(u, b, k)) /\ (LoadedAt(u, b, k)' <=> LoadedAt(u, b, k))
  BY DEF At, LoadedAt, Busy
<1>3. LevelsHeld'
  <2>1. \A u \in EscWorkers : Busy(u) => fire[u].alert \in Alerts /\ fire[u].level \in Levels
    BY BusyOnLevel, FireTyped DEF FireInv, Busy
  <2>2. \A u \in EscWorkers : Busy(u)' => esc'[fire'[u].alert][fire'[u].level] = "active"
    BY <1>0, <1>1, <2>1 DEF LevelsHeld
  <2>3. ASSUME NEW u \in EscWorkers, NEW t \in EscWorkers, Busy(t)', Busy(u)',
               fire'[u].alert = fire'[t].alert, fire'[u].level = fire'[t].level
        PROVE  u = t
    BY <1>0, <2>3 DEF LevelsHeld, At
  <2>4. ASSUME NEW b \in Alerts, NEW k \in Levels, esc'[b][k] = "active" PROVE \E u \in EscWorkers : At(u, b, k)'
    BY <1>0, <1>1, <1>2, <2>4 DEF LevelsHeld
  <2> QED BY <2>2, <2>3, <2>4 DEF LevelsHeld, At
<1>4. FiredCounts'
  BY <1>0, <1>1, <1>2 DEF FiredCounts
<1>5. RerunsBounded'
  <2>1. \A b \in Alerts, k \in Levels : Rerun(b, k)' => Rerun(b, k)
    BY <1>0, <1>1, <1>2 DEF Rerun, FiredCounts
  <2> QED BY <1>0, <2>1, NoNewReruns
<1>6. OneLevelAhead'
  <2>1. \A b \in Alerts, k \in Levels : b # a => (Ahead(b, k)' => Ahead(b, k))
    BY <1>1, <1>2 DEF Ahead, At, Busy
  <2> QED BY <1>0, <2>1 DEF OneLevelAhead
<1>7. LateCounts'
  <2>1. \A u \in EscWorkers : fire[u].stage = "loaded" => Busy(u)
    BY DEF Busy
  <2> QED BY <1>0, <2>1, NothingLate
<1> QED BY <1>3, <1>4, <1>5, <1>6, <1>7

LEMMA ScheduleNextFires ==
    ASSUME FireInv, NEW v \in EscWorkers, ScheduleNext(v)
    PROVE  LevelsHeld' /\ FiredCounts' /\ RerunsBounded' /\ OneLevelAhead' /\ Unqueued' /\ LateCounts'
<1>1. PICK m \in Firing :
          /\ m = fire[v] /\ m.stage = "fired"
          /\ fire' = [fire EXCEPT ![v] =
                 [stage |-> "scheduled", alert |-> m.alert, level |-> m.level, levels |-> m.levels]]
          /\ \/ esc' = esc
             \/ /\ m.level + 1 \in Levels
                /\ esc' = AddLevel(esc, m.alert, m.level + 1)
  BY FireTyped, ScheduledNext DEF FireInv
<1>2. PICK a \in Alerts, l \in Levels : m.alert = a /\ m.level = l
  BY DEF Firing
<1>0. /\ esc \in [Alerts -> [Levels -> {"none", "delayed", "active", "kept"}]]
      /\ fire \in [EscWorkers -> {Idle} \cup Firing]
      /\ UNCHANGED <<eval, alert, fired, late, crashes>>
      /\ LevelsHeld /\ OneLevelAhead /\ Unqueued /\ Known
  BY FireTyped DEF FireInv, ScheduleNext, evalVars
<1>3. /\ fire[v].stage = "fired" /\ fire[v].alert = a /\ fire[v].level = l
      /\ fire'[v].stage = "scheduled" /\ fire'[v].alert = a /\ fire'[v].level = l
      /\ \A u \in EscWorkers \ {v} : fire'[u] = fire[u]
  BY <1>0, <1>1, <1>2
<1>4. At(v, a, l) /\ Ahead(a, l) /\ esc[a][l] = "active" /\ \A u \in EscWorkers : At(u, a, l) => u = v
  BY <1>0, <1>3 DEF LevelsHeld, At, Busy, Ahead
<1>5. PICK n \in Levels : /\ esc' = AddLevel(esc, a, n) \/ esc' = esc
                          /\ esc' # esc => n = l + 1
  BY <1>1, <1>2
<1>6. ASSUME crashes = 0, NEW k \in Levels, Ahead(a, k)' PROVE k = n
  <2>1. \/ esc'[a][k] = esc[a][k]
        \/ k = n /\ esc'[a][k] = "delayed"
    BY <1>0, <1>5 DEF AddLevel
  <2>2. CASE esc'[a][k] = esc[a][k]
    <3>1. Ahead(a, k) /\ k # l
      <4>1. Ahead(a, k)
        BY <1>3, <1>6, <2>2 DEF Ahead, At, Busy
      <4>2. k # l
        BY <1>3, <1>4, <1>6, <2>2 DEF Ahead, At, Busy
      <4> QED BY <4>1, <4>2
    <3> QED BY <1>0, <1>4, <1>6, <3>1 DEF OneLevelAhead
  <2> QED BY <2>1, <2>2
<1>7. \A u \in EscWorkers : /\ Busy(u)' <=> Busy(u)
                            /\ Busy(u) => fire'[u].alert = fire[u].alert /\ fire'[u].level = fire[u].level
                            /\ fire'[u].stage = "loaded" <=> fire[u].stage = "loaded"
                            /\ fire'[u].stage = "fired" => fire[u].stage = "fired"
  BY <1>3 DEF Busy
<1>8. LevelsHeld' /\ FiredCounts' /\ RerunsBounded' /\ OneLevelAhead' /\ LateCounts'
  BY <1>0, <1>5, <1>6, <1>7, LevelQueued
<1>9. Unqueued'
  <2>1. \A w \in EvalWorkers : eval[w].stage = "enqueue" => eval[w].alert \in Alerts /\ eval[w].alert # a
    BY <1>0, <1>4, HandedOver DEF Unqueued, FireInv
  <2>2. \A b \in Alerts : b # a => esc'[b] = esc[b]
    BY <1>0, <1>5 DEF AddLevel
  <2> QED BY <1>0, <2>1, <2>2 DEF Unqueued
<1> QED BY <1>8, <1>9

LEMMA FinishLevelFires ==
    ASSUME FireInv, NEW v \in EscWorkers, FinishLevel(v)
    PROVE  LevelsHeld' /\ FiredCounts' /\ RerunsBounded' /\ OneLevelAhead' /\ Unqueued' /\ LateCounts'
<1>1. PICK m \in Firing : /\ m = fire[v] /\ m.stage = "scheduled" /\ fire' = [fire EXCEPT ![v] = Idle]
                          /\ esc' = [esc EXCEPT ![m.alert][m.level] = "kept"]
  BY FireTyped, FinishedLevel DEF FireInv
<1>2. PICK a \in Alerts, l \in Levels : m.alert = a /\ m.level = l
  BY DEF Firing
<1>0. /\ esc \in [Alerts -> [Levels -> {"none", "delayed", "active", "kept"}]]
      /\ fire \in [EscWorkers -> {Idle} \cup Firing] /\ crashes \in {0, 1}
      /\ UNCHANGED <<eval, alert, fired, late, crashes>>
      /\ LevelsHeld /\ FiredCounts /\ RerunsBounded /\ OneLevelAhead /\ Unqueued /\ LateCounts
  BY FireTyped DEF FireInv, FinishLevel, evalVars
<1>3. /\ fire[v].stage = "scheduled" /\ fire[v].alert = a /\ fire[v].level = l
      /\ fire'[v].stage = "idle" /\ \A u \in EscWorkers \ {v} : fire'[u] = fire[u]
  BY <1>0, <1>1, <1>2 DEF Idle
<1>4. At(v, a, l) /\ esc[a][l] = "active" /\ \A u \in EscWorkers : At(u, a, l) => u = v
  BY <1>0, <1>3 DEF LevelsHeld, At, Busy
<1>5. \A b \in Alerts, k \in Levels : esc'[b][k] = IF b = a /\ k = l THEN "kept" ELSE esc[b][k]
  BY <1>0, <1>1, <1>2
<1>6. LevelsHeld'
  <2>1. \A u \in EscWorkers : Busy(u)' => u # v /\ Busy(u) /\ ~At(u, a, l) /\ fire[u].alert \in Alerts /\ fire[u].level \in Levels
    BY <1>3, <1>4, BusyOnLevel, FireTyped DEF Busy, FireInv
  <2>2. \A u \in EscWorkers : Busy(u)' => esc'[fire'[u].alert][fire'[u].level] = "active"
    BY <1>0, <1>3, <1>5, <2>1 DEF LevelsHeld, At
  <2>3. ASSUME NEW u \in EscWorkers, NEW t \in EscWorkers, Busy(t)', Busy(u)',
               fire'[u].alert = fire'[t].alert, fire'[u].level = fire'[t].level
        PROVE  u = t
    BY <1>0, <1>3, <2>1, <2>3 DEF LevelsHeld, At
  <2>4. ASSUME NEW b \in Alerts, NEW k \in Levels, esc'[b][k] = "active" PROVE \E u \in EscWorkers : At(u, b, k)'
    <3>1. esc[b][k] = "active" /\ ~(b = a /\ k = l)
      BY <1>5, <2>4
    <3>2. PICK u \in EscWorkers : At(u, b, k)
      BY <1>0, <3>1 DEF LevelsHeld
    <3>3. u # v
      BY <1>3, <3>1, <3>2 DEF At
    <3> QED BY <1>3, <3>2, <3>3 DEF At, Busy
  <2> QED BY <2>2, <2>3, <2>4 DEF LevelsHeld, At
<1>7. FiredCounts'
  BY <1>0, <1>3, <1>5 DEF FiredCounts, LoadedAt
<1>8. \A b \in Alerts, k \in Levels : (Rerun(b, k)' => Rerun(b, k)) /\ (Ahead(b, k)' => Ahead(b, k))
  BY <1>0, <1>3, <1>5 DEF Rerun, Ahead, LoadedAt, At, Busy
<1>9. RerunsBounded' /\ OneLevelAhead'
  BY <1>0, <1>8, NoNewReruns DEF OneLevelAhead
<1>10. Unqueued'
  BY <1>0, <1>4, <1>5, HandedOver DEF Unqueued, FireInv
<1>11. LateCounts'
  BY <1>0, <1>3, NothingLate
<1> QED BY <1>6, <1>7, <1>9, <1>10, <1>11

LEMMA EscStepFires ==
    ASSUME FireInv, NEW v \in EscWorkers, EscStep(v)
    PROVE  LevelsHeld' /\ FiredCounts' /\ RerunsBounded' /\ OneLevelAhead' /\ Unqueued' /\ LateCounts'
<1>a. \/ \E a \in Alerts, l \in Levels : StartLevel(v, a, l)
      \/ Notify(v) \/ ScheduleNext(v) \/ FinishLevel(v)
  BY DEF EscStep
<1> QED BY <1>a, StartLevelFires, NotifyFires, ScheduleNextFires, FinishLevelFires, Zenon

LEMMA EnqueueLevel0Fires ==
    ASSUME FireInv, NEW w \in EvalWorkers, EnqueueLevel0(w)
    PROVE  LevelsHeld' /\ FiredCounts' /\ RerunsBounded' /\ OneLevelAhead' /\ Unqueued' /\ LateCounts'
<1>0. /\ eval[w].stage = "enqueue" /\ UNCHANGED <<alert, fire, fired, late, crashes>>
      /\ eval \in [EvalWorkers -> EvalStates]
      /\ esc \in [Alerts -> [Levels -> {"none", "delayed", "active", "kept"}]]
      /\ LevelsHeld /\ Unqueued
  BY FireTyped DEF FireInv, EnqueueLevel0
<1>1. PICK a \in Alerts : a = eval[w].alert
  BY <1>0, HandedOver DEF FireInv
<1>2. (esc' = AddLevel(esc, a, 0) \/ esc' = esc) /\ 0 \in Levels
  BY <1>1, LevelZero DEF EnqueueLevel0, FirstLevel
<1>3. \A k \in Levels : esc[a][k] = "none"
  BY <1>0, <1>1 DEF Unqueued
<1>4. ASSUME NEW k \in Levels, Ahead(a, k)' PROVE k = 0
  <2>1. \A u \in EscWorkers : ~At(u, a, k)'
    BY <1>0, <1>3 DEF LevelsHeld, At, Busy
  <2>2. esc'[a][k] = "delayed"
    BY <1>4, <2>1 DEF Ahead
  <2> QED BY <1>0, <1>2, <1>3, <2>2 DEF AddLevel
<1>5. LevelsHeld' /\ FiredCounts' /\ RerunsBounded' /\ OneLevelAhead' /\ LateCounts'
  <2>1. \A u \in EscWorkers : /\ Busy(u)' <=> Busy(u)
                              /\ Busy(u) => fire'[u].alert = fire[u].alert /\ fire'[u].level = fire[u].level
                              /\ fire'[u].stage = "loaded" <=> fire[u].stage = "loaded"
                              /\ fire'[u].stage = "fired" => fire[u].stage = "fired"
    BY <1>0 DEF Busy
  <2> QED BY <1>0, <1>2, <1>4, <2>1, LevelQueued
<1>6. Unqueued'
  <2>1. \A u \in EvalWorkers : eval'[u].stage = "enqueue" => u # w /\ eval'[u] = eval[u]
    BY <1>0 DEF EnqueueLevel0
  <2>2. \A u \in EvalWorkers : u # w /\ eval[u].stage = "enqueue" => eval[u].alert \in Alerts /\ eval[u].alert # a
    BY <1>0, <1>1, HandedOver DEF Unqueued, FireInv
  <2>3. \A b \in Alerts : b # a => esc'[b] = esc[b]
    BY <1>0, <1>2 DEF AddLevel
  <2> QED BY <1>0, <2>1, <2>2, <2>3 DEF Unqueued
<1> QED BY <1>5, <1>6

LEMMA CreateAlertFires ==
    ASSUME FireInv, NEW w \in EvalWorkers, NEW a \in Alerts, CreateAlert(w, a)
    PROVE  LevelsHeld' /\ FiredCounts' /\ RerunsBounded' /\ OneLevelAhead' /\ Unqueued' /\ LateCounts'
<1>0. /\ UNCHANGED <<esc, fire, fired, late, crashes>> /\ Known /\ TypeOK /\ Unqueued
      /\ eval \in [EvalWorkers -> EvalStates] /\ alert \in [Alerts -> AlertRows \cup {None}]
  BY FireTyped DEF FireInv, CreateAlert, escVars
<1>1. PICK m \in Raising, n \in EvalStates :
          /\ alert[a] = None /\ eval' = [eval EXCEPT ![w] = n]
          /\ \/ /\ n = [stage |-> "enqueue", job |-> m.job, todo |-> m.todo, alert |-> a]
                /\ alert' = [alert EXCEPT ![a] = NewAlert(m)]
             \/ n = Idle /\ UNCHANGED alert
  BY <1>0, CreatedAlert
<1>2. \A b \in Alerts : b # a => alert'[b] = alert[b]
  BY <1>0, <1>1
<1>3. LevelsHeld' /\ FiredCounts' /\ RerunsBounded' /\ OneLevelAhead' /\ LateCounts'
  BY <1>0, <1>1, <1>2, NothingFires
<1>4. \A l \in Levels : esc[a][l] = "none"
  BY <1>0, <1>1 DEF Known
<1>5. \A u \in EvalWorkers : eval[u].stage = "enqueue" => eval[u].alert # a
  BY <1>1, HandedOver DEF FireInv
<1>6. /\ n.stage = "enqueue" => n.alert = a
      /\ \A u \in EvalWorkers : eval'[u] = IF u = w THEN n ELSE eval[u]
  BY <1>0, <1>1 DEF Idle
<1>7. Unqueued'
  <2>1. ASSUME NEW u \in EvalWorkers, eval'[u].stage = "enqueue", NEW l \in Levels PROVE esc'[eval'[u].alert][l] = "none"
    BY <1>0, <1>4, <1>6, <2>1 DEF Unqueued
  <2>2. ASSUME NEW u \in EvalWorkers, NEW t \in EvalWorkers, eval'[u].stage = "enqueue", eval'[t].stage = "enqueue",
               eval'[t].alert = eval'[u].alert
        PROVE  t = u
    BY <1>0, <1>5, <1>6, <2>2 DEF Unqueued
  <2> QED BY <2>1, <2>2 DEF Unqueued
<1> QED BY <1>3, <1>7

LEMMA EvalStepFires ==
    ASSUME FireInv, NEW w \in EvalWorkers, EvalStep(w)
    PROVE  LevelsHeld' /\ FiredCounts' /\ RerunsBounded' /\ OneLevelAhead' /\ Unqueued' /\ LateCounts'
<1>0. TypeOK /\ Known /\ eval \in [EvalWorkers -> EvalStates]
  BY FireTyped DEF FireInv
<1>1. ASSUME UNCHANGED <<alert, escVars, crashes>>, NEW n \in EvalStates, n.stage # "enqueue",
             eval' = [eval EXCEPT ![w] = n]
      PROVE  LevelsHeld' /\ FiredCounts' /\ RerunsBounded' /\ OneLevelAhead' /\ Unqueued' /\ LateCounts'
  <2>1. UNCHANGED <<esc, fire, fired, late>>
    BY <1>1 DEF escVars
  <2>2. \A u \in EvalWorkers : eval'[u] = eval[u] \/ eval'[u].stage # "enqueue"
    BY <1>0, <1>1
  <2> QED BY <1>1, <2>1, <2>2, NothingFires, SameUnqueued
<1>2. ASSUME NEW j \in Jobs, StartEvaluation(w, j) PROVE LevelsHeld' /\ FiredCounts' /\ RerunsBounded' /\ OneLevelAhead' /\ Unqueued' /\ LateCounts'
  <2>1. PICK todo \in SUBSET Rules : eval' = [eval EXCEPT ![w] = [stage |-> "next", job |-> j, todo |-> todo]]
    BY <1>0, <1>2, StartedEvaluation
  <2>2. [stage |-> "next", job |-> j, todo |-> todo] \in EvalStates
    BY DEF EvalStates, Evaluating
  <2>3. UNCHANGED <<alert, escVars, crashes>>
    BY <1>2 DEF StartEvaluation
  <2> QED BY <1>1, <2>1, <2>2, <2>3
<1>3. ASSUME CheckCooldown(w) PROVE LevelsHeld' /\ FiredCounts' /\ RerunsBounded' /\ OneLevelAhead' /\ Unqueued' /\ LateCounts'
  <2>1. PICK n \in EvalStates : eval' = [eval EXCEPT ![w] = n] /\ n.stage # "enqueue"
    BY <1>0, <1>3, CheckedCooldown
  <2>2. UNCHANGED <<alert, escVars, crashes>>
    BY <1>3 DEF CheckCooldown
  <2> QED BY <1>1, <2>1, <2>2
<1>4. ASSUME FinishEvaluation(w) PROVE LevelsHeld' /\ FiredCounts' /\ RerunsBounded' /\ OneLevelAhead' /\ Unqueued' /\ LateCounts'
  <2>1. eval' = [eval EXCEPT ![w] = Idle] /\ Idle \in EvalStates /\ Idle.stage # "enqueue"
    BY <1>0, <1>4, FinishedEvaluation DEF EvalStates, Idle
  <2>2. UNCHANGED <<alert, escVars, crashes>>
    BY <1>4 DEF FinishEvaluation
  <2> QED BY <1>1, <2>1, <2>2
<1>a. \/ \E j \in Jobs : StartEvaluation(w, j)
      \/ CheckCooldown(w)
      \/ \E a \in Alerts : CreateAlert(w, a)
      \/ EnqueueLevel0(w) \/ FinishEvaluation(w)
  BY DEF EvalStep
<1> QED BY <1>2, <1>3, <1>4, <1>a, CreateAlertFires, EnqueueLevel0Fires, Zenon

\* The levels that were active run again: no more than there were workers.
LEMMA CrashFires ==
    ASSUME FireInv, Crash
    PROVE  LevelsHeld' /\ FiredCounts' /\ RerunsBounded' /\ OneLevelAhead' /\ Unqueued' /\ LateCounts'
<1>0. /\ esc \in [Alerts -> [Levels -> {"none", "delayed", "active", "kept"}]] /\ crashes = 0 /\ crashes' = 1
      /\ fired \in [Alerts -> [Levels -> Nat]] /\ late \in [Alerts -> Nat] /\ UNCHANGED <<alert, fired, late>>
      /\ LevelsHeld /\ FiredCounts /\ LateCounts
      /\ \A w \in EvalWorkers : eval'[w].stage = "idle"
      /\ \A v \in EscWorkers : fire'[v].stage = "idle"
      /\ \A a \in Alerts, l \in Levels : esc'[a][l] = IF esc[a][l] = "active" THEN "delayed" ELSE esc[a][l]
  BY FireTyped DEF FireInv, Crash, Idle
<1>1. LevelsHeld' /\ Unqueued'
  BY <1>0 DEF LevelsHeld, Unqueued, Busy
<1>2. FiredCounts'
  BY <1>0 DEF FiredCounts, LoadedAt
<1>3. OneLevelAhead'
  BY <1>0 DEF OneLevelAhead
<1>4. LateCounts'
  <2>1. \A a \in Alerts : LoadedOn(a)' = {}
    BY <1>0 DEF LoadedOn
  <2>2. Cardinality({}) = 0 /\ Cardinality(EscWorkers) \in Nat
    BY FS_EmptySet, WorkerSets
  <2>3. \A a \in Alerts : Cardinality(LoadedOn(a)) \in Nat
    BY WorkerSets DEF LoadedOn
  <2>4. ASSUME NEW a \in Alerts PROVE late[a] \in Nat /\ late[a] <= Cardinality(EscWorkers)
    BY <1>0, <2>2, <2>3 DEF LateCounts
  <2>5. \A a \in Alerts : late'[a] = late[a] /\ Cardinality(LoadedOn(a)') = 0
    BY <1>0, <2>1, <2>2
  <2>6. \A a \in Alerts : alert'[a] = None \/ alert'[a].status = "OPEN" => late'[a] = 0
    BY <1>0 DEF LateCounts
  <2> QED BY <1>0, <2>2, <2>4, <2>5, <2>6 DEF LateCounts
<1>5. RerunsBounded'
  <2> SUFFICES ASSUME NEW a \in Alerts PROVE Cardinality(Reruns(a)') <= Cardinality(EscWorkers)
    BY <1>0, WorkerSets DEF RerunsBounded
  <2> DEFINE W == {v \in EscWorkers : Busy(v) /\ fire[v].alert = a}
             Act == {l \in Levels : esc[a][l] = "active"}
             f == [v \in W |-> fire[v].level]
  <2>1. f \in Surjection(W, Act)
    <3>1. \A v \in W : fire[v].level \in Act
      BY <1>0, BusyOnLevel, FireTyped DEF FireInv, LevelsHeld, Busy
    <3>2. ASSUME NEW l \in Act PROVE \E v \in W : f[v] = l
      BY <1>0 DEF LevelsHeld, At
    <3> QED BY <3>1, <3>2 DEF Surjection
  <2>2. IsFiniteSet(W) /\ Cardinality(W) \in Nat /\ Cardinality(W) <= Cardinality(EscWorkers)
    BY WorkerSets
  <2>3. IsFiniteSet(Act) /\ Cardinality(Act) <= Cardinality(W)
    <3> HIDE DEF f, W, Act
    <3> QED BY <2>1, <2>2, FS_Surjection
  <2>4. Reruns(a)' \in SUBSET Act
    BY <1>0 DEF Reruns, Rerun, FiredCounts, LoadedAt
  <2>5. Cardinality(Reruns(a)') <= Cardinality(Act) /\ Cardinality(Reruns(a)') \in Nat /\ Cardinality(Act) \in Nat
    BY <2>3, <2>4, FS_Subset, LevelSets
  <2> QED BY <2>2, <2>3, <2>5, WorkerSets
<1> QED BY <1>1, <1>2, <1>3, <1>4, <1>5

\* Users and edits close alerts and never open one again.
LEMMA AlertsStayClosed ==
    ASSUME LevelInv,
           \/ \E r \in Rules : RemoveRule(r)
           \/ \E a \in Alerts : Acknowledge(a) \/ Resolve(a)
           \/ WindowPasses
    PROVE  \A a \in Alerts : alert'[a] = None \/ alert'[a].status = "OPEN" => alert[a] = None \/ alert[a].status = "OPEN"
<1>0. alert \in [Alerts -> AlertRows \cup {None}]
  BY FireTyped
<1>1. ASSUME NEW a \in Alerts, alert[a] # None, alert'[a] # alert[a]
      PROVE  alert'[a] # None /\ (alert'[a].status = "OPEN" => alert[a].status = "OPEN")
  <2> DEFINE Kept(row, n) == n \in AlertRows /\ (n.status = "OPEN" => row.status = "OPEN")
  <2>0. alert[a] \in AlertRows
    BY <1>0, <1>1
  <2>1. \A row \in AlertRows : /\ \A st \in {"ACKNOWLEDGED", "RESOLVED"} : Kept(row, [row EXCEPT !.status = st])
                               /\ Kept(row, [row EXCEPT !.recent = FALSE])
                               /\ Kept(row, [row EXCEPT !.rule = None])
    BY DEF AlertRows
  <2> HIDE DEF Kept
  <2>2. ASSUME NEW r \in Rules, RemoveRule(r) PROVE alert'[a] = [alert[a] EXCEPT !.rule = None]
    BY <1>0, <1>1, <2>2 DEF RemoveRule, Raisedby
  <2>3. ASSUME WindowPasses PROVE alert'[a] = [alert[a] EXCEPT !.recent = FALSE]
    BY <1>0, <1>1, <2>3 DEF WindowPasses
  <2>4. ASSUME NEW b \in Alerts, Acknowledge(b) \/ Resolve(b)
        PROVE  \E st \in {"ACKNOWLEDGED", "RESOLVED"} : alert'[a] = [alert[a] EXCEPT !.status = st]
    <3>1. \E st \in {"ACKNOWLEDGED", "RESOLVED"} : alert' = [alert EXCEPT ![b] = [alert[b] EXCEPT !.status = st]]
      BY <1>0, <2>4 DEF Acknowledge, Resolve
    <3> QED BY <1>0, <1>1, <3>1
  <2>5. Kept(alert[a], alert'[a])
    BY <2>0, <2>1, <2>2, <2>3, <2>4
  <2> QED BY <2>5, NoneAssumption DEF Kept
<1> QED BY <1>1

LEMMA FireStep ==
    ASSUME FireInv, [Next]_vars
    PROVE  FireInv'
<1>0. LevelInv /\ LevelInv'
  BY LevelStep DEF FireInv
<1>1. ASSUME UNCHANGED <<esc, fire, fired, late, crashes, eval>>,
             \A a \in Alerts : alert'[a] = None \/ alert'[a].status = "OPEN" => alert[a] = None \/ alert[a].status = "OPEN"
      PROVE  LevelsHeld' /\ FiredCounts' /\ RerunsBounded' /\ OneLevelAhead' /\ Unqueued' /\ LateCounts'
  BY <1>1, NothingFires, SameUnqueued
<1>2. ASSUME UNCHANGED alert /\ UNCHANGED <<esc, fire, fired, late, crashes, eval>>
      PROVE  LevelsHeld' /\ FiredCounts' /\ RerunsBounded' /\ OneLevelAhead' /\ Unqueued' /\ LateCounts'
  BY <1>1, <1>2
<1>3. ASSUME UNCHANGED <<esc, fire, fired, late, crashes, eval>>,
             \/ \E r \in Rules : RemoveRule(r)
             \/ \E a \in Alerts : Acknowledge(a) \/ Resolve(a)
             \/ WindowPasses
      PROVE  LevelsHeld' /\ FiredCounts' /\ RerunsBounded' /\ OneLevelAhead' /\ Unqueued' /\ LateCounts'
  BY <1>0, <1>1, <1>3, AlertsStayClosed
<1>4. \/ UNCHANGED alert /\ UNCHANGED <<esc, fire, fired, late, crashes, eval>>
      \/ /\ UNCHANGED <<esc, fire, fired, late, crashes, eval>>
         /\ \/ \E r \in Rules : RemoveRule(r)
            \/ \E a \in Alerts : Acknowledge(a) \/ Resolve(a)
            \/ WindowPasses
      \/ \E w \in EvalWorkers : EvalStep(w)
      \/ \E v \in EscWorkers : EscStep(v)
      \/ Crash
  BY DEF Next, vars, escVars, evalVars, CreateRule, SetActive, SetLevels, RemoveRule, EnqueueEvaluation, ScanDue,
         Acknowledge, Resolve, WindowPasses
<1>5. LevelsHeld' /\ FiredCounts' /\ RerunsBounded' /\ OneLevelAhead' /\ Unqueued' /\ LateCounts'
  BY <1>2, <1>3, <1>4, EvalStepFires, EscStepFires, CrashFires, Zenon
<1> QED BY <1>0, <1>5 DEF FireInv

LEMMA FireInit == Init => FireInv
<1> SUFFICES ASSUME Init PROVE FireInv
  OBVIOUS
<1>1. /\ \A v \in EscWorkers : fire[v].stage = "idle"
      /\ \A w \in EvalWorkers : eval[w].stage = "idle"
      /\ \A a \in Alerts : late[a] = 0 /\ \A l \in Levels : esc[a][l] = "none" /\ fired[a][l] = 0
      /\ crashes = 0
  BY DEF Init, Idle
<1>2. LevelInv
  BY LevelInit
<1>3. LevelsHeld /\ FiredCounts /\ OneLevelAhead /\ Unqueued
  BY <1>1 DEF LevelsHeld, FiredCounts, OneLevelAhead, Unqueued, Ahead, At, Busy, LoadedAt
<1>4. RerunsBounded
  <2>1. \A a \in Alerts : Reruns(a) = {}
    BY <1>1 DEF Reruns, Rerun
  <2> QED BY <1>1, <2>1, FS_EmptySet, WorkerSets DEF RerunsBounded
<1>5. LateCounts
  <2>1. \A a \in Alerts : LoadedOn(a) = {}
    BY <1>1 DEF LoadedOn
  <2> QED BY <1>1, <2>1, FS_EmptySet, WorkerSets DEF LateCounts
<1> QED BY <1>2, <1>3, <1>4, <1>5 DEF FireInv

LEMMA FireAlways == Spec => []FireInv
BY FireInit, FireStep, PTL DEF Spec

\* A level notifies once, with any number of workers; a crash repeats at most
\* the levels that workers were on.
THEOREM LevelsNotifyOnce == Spec => []LevelFiresOnce
<1>1. FireInv => LevelFiresOnce
  <2> SUFFICES ASSUME FireInv, NEW a \in Alerts
               PROVE  /\ \A l \in Levels : fired[a][l] <= 1 + crashes
                      /\ Cardinality({l \in Levels : fired[a][l] > 1}) <= crashes * Cardinality(EscWorkers)
    BY DEF LevelFiresOnce
  <2>1. {l \in Levels : fired[a][l] > 1} \in SUBSET Reruns(a) /\ Reruns(a) \in SUBSET Levels
    BY DEF Reruns, Rerun
  <2>2. /\ Cardinality({l \in Levels : fired[a][l] > 1}) <= Cardinality(Reruns(a))
        /\ Cardinality({l \in Levels : fired[a][l] > 1}) \in Nat /\ Cardinality(Reruns(a)) \in Nat
    BY <2>1, LevelSets, FS_Subset
  <2>3. Cardinality(Reruns(a)) <= crashes * Cardinality(EscWorkers) /\ crashes * Cardinality(EscWorkers) \in Nat
    BY WorkerSets, FireTyped DEF FireInv, RerunsBounded
  <2> QED BY <2>2, <2>3 DEF FireInv, FiredCounts
<1> QED BY <1>1, FireAlways, PTL

\* After an alert is acknowledged or resolved at most one level notifies; after
\* a crash, at most one per worker.
THEOREM AcknowledgingHalts == Spec => []AcknowledgeHalts
<1>1. FireInv => AcknowledgeHalts
  <2> SUFFICES ASSUME FireInv, NEW a \in Alerts
               PROVE  late[a] <= IF crashes = 0 THEN 1 ELSE Cardinality(EscWorkers)
    BY DEF AcknowledgeHalts
  <2>1. Cardinality(LoadedOn(a)) \in Nat /\ Cardinality(EscWorkers) \in Nat /\ late[a] \in Nat
    BY WorkerSets, FireTyped DEF LoadedOn, FireInv
  <2> QED BY <2>1 DEF FireInv, LateCounts
<1> QED BY <1>1, FireAlways, PTL
=============================================================================
