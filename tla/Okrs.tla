---------------------------------- MODULE Okrs ----------------------------------
(***************************************************************************)
(* Objectives, their key results and the progress that rolls up.  Every    *)
(* change of a key result recomputes its objective and then climbs from    *)
(* parent to parent, reading and writing in separate statements while      *)
(* other requests change key results and alignment.  Progress is an exact  *)
(* fraction.                                                               *)
(***************************************************************************)
EXTENDS Integers, FiniteSets, FiniteSetsExt

CONSTANTS
    Objectives,
    KeyResults,
    Measures,         \* [baseline, target, weight] each key result is created with
    Updates,          \* what an update may carry: [baseline, target, weight, current],
                      \* None where it is silent
    Currents,         \* values a key result can be at
    Linked,           \* key results linked to a KPI
    Planners,         \* requests that can be in progress at once
    None,             \* no baseline, no value, no parent
    MaxRollupDepth,
    MaxChanges        \* bound: requests in all

ASSUME OkrsAssumption ==
    /\ \A k \in KeyResults : /\ Measures[k].weight \in Nat /\ Measures[k].target \in Int
                             /\ Measures[k].baseline \in Int \cup {None}
    /\ \A u \in Updates : /\ u.weight \in Nat \cup {None} /\ u.target \in Int \cup {None}
                          /\ u.baseline \in Int \cup {None} /\ u.current \in Currents \cup {None}
    /\ Currents \subseteq Int /\ IsFiniteSet(Objectives) /\ IsFiniteSet(KeyResults)
    /\ Linked \subseteq KeyResults /\ MaxRollupDepth \in Nat /\ MaxChanges \in Nat
    /\ KeyResults \cap Objectives = {} /\ None \notin Objectives

VARIABLES
    objective,   \* Objective rows: [row, parent, progress]
    keyResult,   \* KeyResult rows: [row, objective, values, progress]; values are the
                 \* baseline, target, weight and current value
    rollup,      \* what each request is doing
    changes,
    stale        \* history: rows whose inputs changed with no roll-up to come, or
                 \* that were written from inputs that had changed

okrVars == <<objective, keyResult, rollup, changes, stale>>

------------------------------------------------------------------------------
(* progress-math.ts *)

Zero == <<0, 1>>
One == <<1, 1>>
Fraction(n, d) == LET g == Max({i \in 1..d : n % i = 0 /\ d % i = 0}) IN <<n \div g, d \div g>>
Plus(a, b) == Fraction(a[1] * b[2] + b[1] * a[2], a[2] * b[2])
Abs(i) == IF i < 0 THEN -i ELSE i
\* clamp01 of a quotient.
Clamp01(n, d) == IF n = 0 \/ (n < 0) # (d < 0) THEN Zero
                 ELSE IF Abs(n) >= Abs(d) THEN One ELSE Fraction(Abs(n), Abs(d))

KeyResultProgress(v) ==
    LET reached == IF v.current >= v.target THEN One ELSE Zero
    IN CASE v.current = None -> Zero
         [] v.current # None /\ v.baseline = None ->
                IF v.target = 0 THEN reached ELSE Clamp01(v.current, v.target)
         [] v.current # None /\ v.baseline # None ->
                IF v.baseline = v.target THEN reached
                ELSE Clamp01(v.current - v.baseline, v.target - v.baseline)

\* The mean of the key results (by weight) and the children (1 each); the plain
\* mean when nothing weighs anything.  Within 0 and 1 without a clamp.
ObjectiveProgress(krs, children) ==
    LET Total(W(_)) == MapThenSumSet(W, DOMAIN krs) + Cardinality(DOMAIN children)
        Weight(k) == krs[k].weight
        Each(k) == 1
        Mean(W(_)) ==
            LET Add(x, sum) == Plus(x[2], sum)
                scaled == {<<k, Fraction(krs[k].progress[1] * W(k), krs[k].progress[2])>> : k \in DOMAIN krs}
                          \cup {<<o, children[o]>> : o \in DOMAIN children}
                sum == FoldSet(Add, Zero, scaled)
            IN Fraction(sum[1], sum[2] * Total(W))
    IN IF DOMAIN krs \cup DOMAIN children = {} THEN Zero
       ELSE IF Total(Weight) = 0 THEN Mean(Each) ELSE Mean(Weight)

------------------------------------------------------------------------------
Exists(o) == o \in Objectives /\ objective[o].row = "there"
ResultsOf(o) == {k \in KeyResults : keyResult[k].row = "there" /\ keyResult[k].objective = o}
ChildrenOf(o) == {c \in Objectives : Exists(c) /\ objective[c].parent = o}
\* What an objective's progress is to show, of the rows as they are.
Result(v) == [progress |-> KeyResultProgress(v), weight |-> v.weight]
ResultsProgress(o) == [k \in ResultsOf(o) |-> Result(keyResult[k].values)]
ChildrenProgress(o) == [c \in ChildrenOf(o) |-> objective[c].progress]
ProgressOf(o) == ObjectiveProgress(ResultsProgress(o), ChildrenProgress(o))
NoRollup == [stage |-> "idle"]
\* at: the objective recomputed; up: its parent when it was read; krs: the progress
\* and weights of the key results read; todo: rows to write first; outdated is history: an
\* input was changed after it was read.
Rollup(o, visited) == [stage |-> "load", at |-> o, up |-> None, krs |-> <<>>, todo |-> {},
                       result |-> Zero, visited |-> visited, outdated |-> FALSE]
Moves(p, r) == rollup' = [rollup EXCEPT ![p] = r]
IsIdle(p) == rollup[p] = NoRollup
ChangeCounted == changes < MaxChanges /\ changes' = changes + 1

\* An objective or a key result it depends on changed: what was read of it before
\* is outdated, in the stages that hold it.
Outdates(rs, o, stages) ==
    [p \in Planners |-> IF rs[p].stage \in stages /\ rs[p].at = o
                        THEN [rs[p] EXCEPT !.outdated = TRUE] ELSE rs[p]]
ResultsRead == {"drift", "children", "write"}
ChildrenRead == {"write"}

CreatedWith(k, v) == [baseline |-> Measures[k].baseline, target |-> Measures[k].target,
                  weight |-> Measures[k].weight, current |-> v]

\* Any alignment and key results that were just created, and have been rolled up.
OkrInit ==
    /\ objective \in [Objectives -> [row : {"none", "there"}, parent : Objectives \cup {None},
                                     progress : {Zero}]]
    /\ \A o \in Objectives : /\ Exists(o) => (objective[o].parent = None \/ Exists(objective[o].parent))
                             /\ ~Exists(o) => objective[o].parent = None
    /\ \A S \in SUBSET Objectives : S # {} => \E o \in S : objective[o].parent \notin S
    /\ \E shown \in [KeyResults -> [row : {"none", "there"}, objective : Objectives \cup {None}]] :
           keyResult = [k \in KeyResults |-> [row |-> shown[k].row, objective |-> shown[k].objective,
                                              values |-> CreatedWith(k, None), progress |-> Zero]]
    /\ \A k \in KeyResults : keyResult[k].row = "there" <=> Exists(keyResult[k].objective)
    /\ \A k \in KeyResults : keyResult[k].row = "none" => keyResult[k].objective = None
    /\ \A o \in Objectives : Exists(o) => objective[o].progress = ProgressOf(o)
    /\ rollup = [p \in Planners |-> NoRollup]
    /\ changes = 0 /\ stale = {}

(* KeyResultsService *)

CreateKeyResult(p, k, o, v) ==
    /\ IsIdle(p) /\ ChangeCounted
    /\ keyResult[k].row = "none" /\ Exists(o)
    /\ keyResult' = [keyResult EXCEPT ![k] = [row |-> "there", objective |-> o, values |-> CreatedWith(k, v),
                                              progress |-> KeyResultProgress(CreatedWith(k, v))]]
    /\ rollup' = [Outdates(rollup, o, ResultsRead) EXCEPT ![p] = Rollup(o, {})]
    /\ UNCHANGED <<objective, stale>>

\* What a silent update leaves as it was.
Given(new, old) == IF new = None THEN old ELSE new
Merge(old, dto) == [baseline |-> Given(dto.baseline, old.baseline), target |-> Given(dto.target, old.target),
                    weight |-> Given(dto.weight, old.weight), current |-> Given(dto.current, old.current)]

\* The row is read, and its progress computed of what it was and what is given; ...
UpdateKeyResult(p, k, dto) ==
    /\ IsIdle(p) /\ ChangeCounted
    /\ keyResult[k].row = "there"
    /\ Moves(p, [stage |-> "update", at |-> keyResult[k].objective, key |-> k, dto |-> dto,
                 progress |-> KeyResultProgress(Merge(keyResult[k].values, dto))])
    /\ UNCHANGED <<objective, keyResult, stale>>

\* ... then written, over whatever the row became; the roll-up reads it again.
WriteUpdate(p) ==
    /\ rollup[p].stage = "update"
    /\ LET r == rollup[p]
       IN IF keyResult[r.key].row = "gone"
          THEN Moves(p, NoRollup) /\ UNCHANGED <<keyResult, stale>>
          ELSE /\ keyResult' = [keyResult EXCEPT ![r.key].values = Merge(@, r.dto), ![r.key].progress = r.progress]
               /\ rollup' = [Outdates(rollup, r.at, ResultsRead) EXCEPT ![p] = Rollup(r.at, {})]
               /\ stale' = stale \ {r.key}
    /\ UNCHANGED <<objective, changes>>

RemoveKeyResult(p, k) ==
    /\ IsIdle(p) /\ ChangeCounted
    /\ keyResult[k].row = "there"
    /\ keyResult' = [keyResult EXCEPT ![k].row = "gone"]
    /\ LET o == keyResult[k].objective
       IN rollup' = [Outdates(rollup, o, ResultsRead) EXCEPT ![p] = Rollup(o, {})]
    /\ UNCHANGED <<objective, stale>>

(* ObjectivesService *)

\* create: the new objective counts in its parent, which is not recomputed.
CreateObjective(o, parent) ==
    /\ ChangeCounted
    /\ objective[o].row = "none" /\ (parent = None \/ Exists(parent))
    /\ objective' = [objective EXCEPT ![o] = [row |-> "there", parent |-> parent, progress |-> Zero]]
    /\ stale' = stale \cup ({parent} \ {None})
    /\ rollup' = Outdates(rollup, parent, ChildrenRead)
    /\ UNCHANGED keyResult

\* update: whether the objective is above its new parent, ...
BeginAlign(p, o, parent) ==
    /\ IsIdle(p) /\ ChangeCounted
    /\ Exists(o) /\ (parent = None \/ Exists(parent))
    /\ Moves(p, [stage |-> IF parent = None THEN "align" ELSE "climb", at |-> o, up |-> parent,
                 cursor |-> parent, visited |-> {}])
    /\ UNCHANGED <<objective, keyResult, stale>>

\* ... is asked of one row after the other, up to the root, ...
ClimbAlign(p) ==
    /\ rollup[p].stage = "climb"
    /\ LET r == rollup[p]
           above == IF Exists(r.cursor) THEN objective[r.cursor].parent ELSE None
           seen == r.visited \cup {r.cursor}
       IN Moves(p, IF r.cursor = r.at THEN NoRollup
                   ELSE IF above = None \/ above \in seen THEN [r EXCEPT !.stage = "align"]
                   ELSE [r EXCEPT !.cursor = above, !.visited = seen])
    /\ UNCHANGED <<objective, keyResult, changes, stale>>

\* ... and the new parent written.  Neither it nor the old one is recomputed.
WriteAlign(p) ==
    /\ rollup[p].stage = "align"
    /\ LET o == rollup[p].at
           old == objective[o].parent
           new == rollup[p].up
           idle == [rollup EXCEPT ![p] = NoRollup]
       IN IF Exists(o) /\ old # new
          THEN /\ objective' = [objective EXCEPT ![o].parent = new]
               /\ stale' = stale \cup ({old, new} \ {None})
               /\ rollup' = Outdates(Outdates(idle, old, ChildrenRead), new, ChildrenRead)
          ELSE rollup' = idle /\ UNCHANGED <<objective, stale>>
    /\ UNCHANGED <<keyResult, changes>>

\* remove: no row refers to it by a foreign key; its key results and children stay.
RemoveObjective(o) ==
    /\ ChangeCounted
    /\ Exists(o)
    /\ objective' = [objective EXCEPT ![o].row = "gone"]
    /\ stale' = stale \cup ({objective[o].parent} \ {None})
    /\ rollup' = Outdates(rollup, objective[o].parent, ChildrenRead)
    /\ UNCHANGED keyResult

\* syncFromLinkedKpis: the linked key results are read, ...
BeginSync(p, o) ==
    /\ IsIdle(p) /\ ChangeCounted
    /\ Exists(o)
    /\ Moves(p, [Rollup(o, {}) EXCEPT !.stage = "sync", !.todo = ResultsOf(o) \cap Linked])
    /\ UNCHANGED <<objective, keyResult, stale>>

\* What a request that fails leaves behind.
Aborts(p) ==
    /\ Moves(p, NoRollup)
    /\ stale' = stale \cup (IF rollup[p].stage \in {"idle", "update", "climb", "align"} THEN {}
                            ELSE {rollup[p].at} \cup ResultsOf(rollup[p].at))

\* ... and one by one given the latest point of their KPI, if there is one.
SyncOne(p, k, v) ==
    /\ rollup[p].stage = "sync" /\ k \in rollup[p].todo
    /\ IF v # None /\ keyResult[k].row = "gone" THEN Aborts(p) /\ UNCHANGED keyResult
       ELSE /\ keyResult' = IF v = None THEN keyResult ELSE [keyResult EXCEPT ![k].values.current = v]
            /\ rollup' = [Outdates(rollup, rollup[p].at, ResultsRead)
                              EXCEPT ![p].todo = @ \ {k}]
            /\ UNCHANGED stale
    /\ UNCHANGED <<objective, changes>>

SyncDone(p) ==
    /\ rollup[p].stage = "sync" /\ rollup[p].todo = {}
    /\ Moves(p, Rollup(rollup[p].at, {}))
    /\ UNCHANGED <<objective, keyResult, changes, stale>>

\* recomputeObjectiveProgress: depth, visited and existence are checked, the parent
\* and the key results read.
StopsAt(r) == Cardinality(r.visited) > MaxRollupDepth \/ r.at \in r.visited

LoadObjective(p) ==
    /\ rollup[p].stage = "load"
    /\ LET r == rollup[p]
           krs == ResultsProgress(r.at)
       IN IF StopsAt(r) \/ ~Exists(r.at)
          THEN /\ Moves(p, NoRollup)
               /\ stale' = IF StopsAt(r) THEN stale \cup {r.at} ELSE stale
          ELSE /\ Moves(p, [r EXCEPT !.stage = "drift", !.up = objective[r.at].parent, !.krs = krs,
                                     !.visited = @ \cup {r.at},
                                     !.todo = {k \in DOMAIN krs : krs[k].progress # keyResult[k].progress}])
               /\ UNCHANGED stale
    /\ UNCHANGED <<objective, keyResult, changes>>

\* Key results whose progress drifted are written; a missing row fails the request.
WriteDrift(p, k) ==
    /\ rollup[p].stage = "drift" /\ k \in rollup[p].todo
    /\ LET r == rollup[p]
       IN IF keyResult[k].row = "gone" THEN Aborts(p) /\ UNCHANGED keyResult
          ELSE /\ keyResult' = [keyResult EXCEPT ![k].progress = r.krs[k].progress]
               /\ stale' = IF r.outdated THEN stale \cup {k} ELSE stale \ {k}
               /\ Moves(p, [r EXCEPT !.todo = @ \ {k}])
    /\ UNCHANGED <<objective, changes>>

\* The children are read.
ReadChildren(p) ==
    /\ rollup[p].stage = "drift" /\ rollup[p].todo = {}
    /\ LET r == rollup[p]
       IN Moves(p, [r EXCEPT !.stage = "write", !.result = ObjectiveProgress(r.krs, ChildrenProgress(r.at))])
    /\ UNCHANGED <<objective, keyResult, changes, stale>>

\* Mutant: an objective that is complete is not rolled up further.
SkipsComplete(r) == IF r.result = One THEN None ELSE r.up
\* The parent as it was read.
ClimbsTo(r) == r.up

\* The progress is written, and the climb goes on; a missing row fails the request.
WriteProgress(p) ==
    /\ rollup[p].stage = "write"
    /\ LET r == rollup[p]
           o == r.at
           above == objective[o].parent
           missed == IF above # r.up THEN {above} \ {None} ELSE {}
       IN IF ~Exists(o) THEN Aborts(p) /\ UNCHANGED objective
          ELSE /\ objective' = [objective EXCEPT ![o].progress = r.result]
               /\ stale' = (IF r.outdated THEN stale \cup {o} ELSE stale \ {o}) \cup missed
               /\ rollup' = [Outdates(rollup, above, ChildrenRead) EXCEPT
                                 ![p] = IF ClimbsTo(r) = None THEN NoRollup
                                        ELSE Rollup(ClimbsTo(r), r.visited)]
    /\ UNCHANGED <<keyResult, changes>>

OkrGiveUp(p) ==
    /\ ~IsIdle(p) /\ Aborts(p)
    /\ UNCHANGED <<objective, keyResult, changes>>

OkrNext ==
    \/ \E p \in Planners, k \in KeyResults :
           \/ RemoveKeyResult(p, k) \/ WriteDrift(p, k)
           \/ \E dto \in Updates : UpdateKeyResult(p, k, dto)
           \/ \E v \in Currents, o \in Objectives : CreateKeyResult(p, k, o, v)
           \/ \E v \in Currents \cup {None} : SyncOne(p, k, v)
    \/ \E p \in Planners :
           \/ WriteUpdate(p) \/ ClimbAlign(p) \/ WriteAlign(p) \/ SyncDone(p) \/ LoadObjective(p) \/ ReadChildren(p)
           \/ WriteProgress(p) \/ OkrGiveUp(p)
           \/ \E o \in Objectives : BeginSync(p, o)
           \/ \E o \in Objectives, up \in Objectives \cup {None} : BeginAlign(p, o, up)
    \/ \E o \in Objectives :
           \/ RemoveObjective(o)
           \/ \E up \in Objectives \cup {None} : CreateObjective(o, up)

OkrSpec == OkrInit /\ [][OkrNext]_okrVars

------------------------------------------------------------------------------
(* Properties *)

IsProgress(f) == f[1] \in Nat /\ f[2] \in Nat /\ f[2] > 0 /\ f[1] <= f[2]

Values == [baseline : Int \cup {None}, target : Int, weight : Nat, current : Currents \cup {None}]

\* Every variable holds a value of its type; progress lies between 0 and 1.
OkrTypeOK ==
    /\ \A o \in Objectives : /\ objective[o].row \in {"none", "there", "gone"}
                             /\ objective[o].parent \in Objectives \cup {None}
                             /\ IsProgress(objective[o].progress)
    /\ \A k \in KeyResults : /\ keyResult[k].row \in {"none", "there", "gone"}
                             /\ keyResult[k].objective \in Objectives \cup {None}
                             /\ keyResult[k].values \in Values
                             /\ IsProgress(keyResult[k].progress)
    /\ changes \in 0..MaxChanges /\ stale \subseteq Objectives \cup KeyResults

\* Once every request has ended, each objective shows the mean of its key results
\* and children, and each key result what its value amounts to: however the
\* roll-ups of several branches met on the way, unless one wrote over a later one,
\* a child joined or left (no roll-up follows), or a request failed.
ProgressFollowsResults ==
    (\A p \in Planners : IsIdle(p)) =>
        /\ \A k \in KeyResults \ stale : (keyResult[k].row = "there" /\ Exists(keyResult[k].objective))
               => keyResult[k].progress = KeyResultProgress(keyResult[k].values)
        /\ \A o \in Objectives \ stale : Exists(o) => objective[o].progress = ProgressOf(o)
===============================================================================
