-------------------------------- MODULE KpiGraph --------------------------------
(***************************************************************************)
(* The two graphs over the KPIs of an organization: formula dependencies   *)
(* (source -> dependent) and cascades (parent -> child).  Attaching reads  *)
(* the edges, checks for a cycle and writes in a later statement; cascade  *)
(* levels are recomputed after every change, read first and written row by *)
(* row.  Requests of several users interleave, and any of them may fail or *)
(* die between two statements.                                             *)
(***************************************************************************)
EXTENDS Naturals, FiniteSets, FiniteSetsExt

CONSTANTS
    KPIs,
    Callers,   \* requests that can be in progress at once
    MaxOps     \* bound: requests in all

ASSUME KpiGraphAssumption == IsFiniteSet(KPIs) /\ MaxOps \in Nat

VARIABLES
    kpi,        \* "live", "archived" (soft-deleted) or "purged"
    formula,    \* KPIs with a FormulaExpression row
    deps,       \* KPIDependency rows, <<source, dependent>>
    edges,      \* KPICascade rows, <<parent, child>>
    level,      \* the level of each KPICascade row, 0 where there is none
    request,    \* what each caller is doing
    ops,
    raced,      \* history: an edge was written on a check another write had overtaken
    disturbed   \* history: cascades changed, or a recomputation of the levels failed,
                \* since they were last read for the levels by one request alone

rows == <<kpi, formula, deps, edges, level>>
graphVars == <<kpi, formula, deps, edges, level, request, ops, raced, disturbed>>

------------------------------------------------------------------------------
Pairs == KPIs \X KPIs
NoRequest == [op |-> "none"]
\* The level of a cascade is the depth of its parent.
MaxLevel == IF Cardinality(KPIs) > 2 THEN Cardinality(KPIs) - 2 ELSE 0
\* overtaken is history: another caller wrote edges of the graph after the check.
FormulaRequests == [op : {"formula"}, stage : {"begun", "checked"}, kpi : KPIs,
                    refs : SUBSET KPIs, overtaken : BOOLEAN]
CascadeRequests == [op : {"cascade"}, stage : {"begun", "checked"}, edge : Pairs,
                    overtaken : BOOLEAN]
LevelRequests == [op : {"levels"}, stage : {"read", "write"},
                  todo : SUBSET (Pairs \X (0..MaxLevel))]

Checked(c, op) == request[c].op = op /\ request[c].stage = "checked"
WritingLevels(c) == request[c].op = "levels" /\ request[c].stage = "write"
Live == {k \in KPIs : kpi[k] = "live"}

(* formula-deps.ts, cascade-graph.ts *)

Closed(E, S) == \A e \in E : e[1] \in S => e[2] \in S
\* What the depth-first walk from a node visits.
Reachable(E, n) == {m \in KPIs : \A S \in SUBSET KPIs : n \in S /\ Closed(E, S) => m \in S}

WouldCreateCycle(E, parent, child) ==
    parent = child \/ parent \in Reachable(E, child)

\* Mutant: the walk follows the edges forward.
WalksForward(E, source, dependent) ==
    source = dependent \/ dependent \in Reachable(E, source)
\* The walk follows the edges backward, from a KPI to what its formula uses.
WouldCreateDependencyCycle(E, source, dependent) ==
    \/ source = dependent
    \/ dependent \in Reachable({<<e[2], e[1]>> : e \in E}, source)

\* Mutant: a child never enters the queue.
NeverQueued(E) == [k \in KPIs |-> IF \E m \in KPIs : <<m, k>> \in E THEN 1 ELSE 0]
\* Mutant: levels are counted from 1.
FromOne(E) == [k \in KPIs |-> 1 + Cardinality({i \in 1..Cardinality(KPIs) :
                  \E m \in KPIs : k \in Reachable(E, m) /\ m # k})]
\* Kahn's algorithm, raising levels on the way; nodes on a cycle never enter the
\* queue, and a node without a level counts as 0.
KahnStart(E) ==
    LET Indegree(n) == Cardinality({m \in KPIs : <<m, n>> \in E})
    IN [queue |-> {n \in KPIs : Indegree(n) = 0},
        remaining |-> [n \in KPIs |-> Indegree(n)],
        level |-> [n \in KPIs |-> 0]]
KahnStep(E, s) ==
    LET node == CHOOSE n \in s.queue : TRUE
        down == {m \in KPIs : <<node, m>> \in E}
    IN IF s.queue = {} THEN s
       ELSE [queue |-> (s.queue \ {node}) \cup {m \in down : s.remaining[m] = 1},
             remaining |-> [m \in KPIs |-> IF m \in down THEN s.remaining[m] - 1
                                           ELSE s.remaining[m]],
             level |-> [m \in KPIs |-> IF m \in down THEN Max({s.level[m], s.level[node] + 1})
                                       ELSE s.level[m]]]
ComputeLevels(E) ==
    LET kahn[i \in 0..Cardinality(KPIs)] ==
            IF i = 0 THEN KahnStart(E) ELSE KahnStep(E, kahn[i - 1])
    IN kahn[Cardinality(KPIs)].level

------------------------------------------------------------------------------
GraphInit ==
    /\ kpi = [k \in KPIs |-> "live"]
    /\ formula = {} /\ deps = {} /\ edges = {}
    /\ level = [e \in Pairs |-> 0]
    /\ request = [c \in Callers |-> NoRequest]
    /\ ops = 0 /\ raced = FALSE /\ disturbed = FALSE

Starts(c) == request[c] = NoRequest /\ ops < MaxOps /\ ops' = ops + 1
Becomes(c, r) == request' = [request EXCEPT ![c] = r]

(* KpiFormulaService *)

\* attach: the KPI exists and every name in the formula is a KPI.
BeginFormula(c, k, refs) ==
    /\ Starts(c) /\ k \in Live /\ refs \subseteq Live
    /\ Becomes(c, [op |-> "formula", stage |-> "begun", kpi |-> k, refs |-> refs,
                   overtaken |-> FALSE])
    /\ UNCHANGED <<rows, raced, disturbed>>

\* The edges of the formula being replaced are left out.  Those of the references
\* checked before lead to the dependent, where the walk ends anyway.
RejectsFormula(r) ==
    LET existing == {e \in deps : e[2] # r.kpi}
    IN \E s \in r.refs : WouldCreateDependencyCycle(existing, s, r.kpi)

CheckFormula(c) ==
    /\ request[c].op = "formula" /\ request[c].stage = "begun"
    /\ Becomes(c, IF RejectsFormula(request[c]) THEN NoRequest
                  ELSE [request[c] EXCEPT !.stage = "checked"])
    /\ UNCHANGED <<rows, ops, raced, disturbed>>

\* The other checks of that graph are out of date now.
Overtakes(c, op) ==
    [d \in Callers |-> IF d = c THEN NoRequest
                       ELSE IF Checked(d, op) THEN [request[d] EXCEPT !.overtaken = TRUE]
                       ELSE request[d]]

ReplaceEdges(r) == {e \in deps : e[2] # r.kpi} \cup {<<s, r.kpi>> : s \in r.refs}

\* The transaction; neither table refers to the KPI row, which may be gone.
SaveFormula(c) ==
    /\ Checked(c, "formula")
    /\ formula' = formula \cup {request[c].kpi}
    /\ deps' = ReplaceEdges(request[c])
    /\ raced' = (raced \/ request[c].overtaken)
    /\ request' = Overtakes(c, "formula")
    /\ UNCHANGED <<kpi, edges, level, ops, disturbed>>

\* detach: dependencies and formula go in one transaction.
DetachFormula(k) ==
    /\ ops < MaxOps /\ ops' = ops + 1
    /\ k \in Live \cap formula
    /\ formula' = formula \ {k}
    /\ deps' = {e \in deps : e[2] # k}
    /\ UNCHANGED <<kpi, edges, level, request, raced, disturbed>>

\* The transactions of a detach and an attach of one KPI overlap: the detach has
\* deleted the old dependencies when the attach commits, and deletes the formula
\* then.  The new dependencies survive it.
DetachBesideSave(k, c) ==
    /\ ops < MaxOps /\ ops' = ops + 1
    /\ k \in Live \cap formula
    /\ Checked(c, "formula") /\ request[c].kpi = k
    /\ formula' = formula \ {k}
    /\ deps' = ReplaceEdges(request[c])
    /\ raced' = (raced \/ request[c].overtaken)
    /\ request' = Overtakes(c, "formula")
    /\ UNCHANGED <<kpi, edges, level, disturbed>>

(* KpiCascadesService *)

BeginCascade(c, e) ==
    /\ Starts(c) /\ e[1] # e[2] /\ {e[1], e[2]} \subseteq Live
    /\ Becomes(c, [op |-> "cascade", stage |-> "begun", edge |-> e, overtaken |-> FALSE])
    /\ UNCHANGED <<rows, raced, disturbed>>

CheckCascade(c) ==
    /\ request[c].op = "cascade" /\ request[c].stage = "begun"
    /\ LET e == request[c].edge
       IN Becomes(c, IF WouldCreateCycle(edges, e[1], e[2]) THEN NoRequest
                     ELSE [request[c] EXCEPT !.stage = "checked"])
    /\ UNCHANGED <<rows, ops, raced, disturbed>>

ReadNext == [op |-> "levels", stage |-> "read", todo |-> {}]
OthersWriteLevels(c) == \E d \in Callers \ {c} : WritingLevels(d)

\* The upsert fails on the foreign key when a KPI was purged meanwhile.
SaveCascade(c) ==
    /\ Checked(c, "cascade")
    /\ LET e == request[c].edge
       IN IF "purged" \in {kpi[e[1]], kpi[e[2]]}
          THEN Becomes(c, NoRequest) /\ UNCHANGED <<edges, raced, disturbed>>
          ELSE /\ edges' = edges \cup {e}
               /\ raced' = (raced \/ request[c].overtaken)
               /\ disturbed' = (disturbed \/ OthersWriteLevels(c))
               /\ request' = [Overtakes(c, "cascade") EXCEPT ![c] = ReadNext]
    /\ UNCHANGED <<kpi, formula, deps, level, ops>>

\* Updates of rows that are gone fail; the others go on.
DropWrites(reqs, gone) ==
    [d \in Callers |-> IF reqs[d].op = "levels"
                       THEN [reqs[d] EXCEPT !.todo = {t \in @ : t[1] \notin gone}] ELSE reqs[d]]

DetachCascade(c, e) ==
    /\ Starts(c) /\ e \in edges
    /\ edges' = edges \ {e}
    /\ level' = [level EXCEPT ![e] = 0]
    /\ request' = DropWrites([request EXCEPT ![c] = ReadNext], {e})
    /\ disturbed' = (disturbed \/ OthersWriteLevels(c))
    /\ UNCHANGED <<kpi, formula, deps, raced>>

\* recomputeLevels: the rows are read, ...
ReadLevels(c) ==
    /\ request[c].op = "levels" /\ request[c].stage = "read"
    /\ LET depth == ComputeLevels(edges)
       IN Becomes(c, [op |-> "levels", stage |-> "write",
                      todo |-> {<<e, depth[e[1]]>> : e \in edges}])
    /\ disturbed' = (disturbed /\ OthersWriteLevels(c))
    /\ UNCHANGED <<rows, ops, raced>>

\* Mutant: a level only ever rises.
OnlyRaised(e, l) == Max({level[e], l})
NewLevel(e, l) == l

\* ... and updated one by one, in any order.
WriteLevel(c) ==
    /\ WritingLevels(c)
    /\ \/ \E t \in request[c].todo :
              /\ level' = [level EXCEPT ![t[1]] = NewLevel(t[1], t[2])]
              /\ Becomes(c, [request[c] EXCEPT !.todo = @ \ {t}])
       \/ request[c].todo = {} /\ Becomes(c, NoRequest) /\ UNCHANGED level
    /\ UNCHANGED <<kpi, formula, deps, edges, ops, raced, disturbed>>

\* One of the updates fails: the request is answered with an error while the
\* other updates, already under way, go on.
FailWrite(c) ==
    /\ WritingLevels(c)
    /\ \E t \in request[c].todo : Becomes(c, [request[c] EXCEPT !.todo = @ \ {t}])
    /\ disturbed' = TRUE
    /\ UNCHANGED <<rows, ops, raced>>

\* A statement fails before it changes anything, or the process dies: what the
\* request wrote before stays, and nobody takes up the rest.
GiveUp(c) ==
    /\ request[c] # NoRequest
    /\ Becomes(c, NoRequest)
    /\ disturbed' = (disturbed \/ request[c].op = "levels")
    /\ UNCHANGED <<rows, ops, raced>>

(* KpisService *)

ChangeStatus(k, from, to) ==
    /\ ops < MaxOps /\ ops' = ops + 1
    /\ kpi[k] = from
    /\ kpi' = [kpi EXCEPT ![k] = to]

Archive(k) ==
    /\ ChangeStatus(k, "live", "archived")
    /\ UNCHANGED <<formula, deps, edges, level, request, raced, disturbed>>

Restore(k) ==
    /\ ChangeStatus(k, "archived", "live")
    /\ UNCHANGED <<formula, deps, edges, level, request, raced, disturbed>>

\* The cascade rows go with the KPI and no level is recomputed; formula and
\* dependency rows stay.
Purge(k) ==
    /\ ChangeStatus(k, "archived", "purged")
    /\ LET gone == {e \in edges : k \in {e[1], e[2]}}
       IN /\ edges' = edges \ gone
          /\ level' = [e \in Pairs |-> IF e \in gone THEN 0 ELSE level[e]]
          /\ request' = DropWrites(request, gone)
          /\ disturbed' = (disturbed \/ gone # {})
    /\ UNCHANGED <<formula, deps, raced>>

GraphNext ==
    \/ \E c \in Callers, k \in KPIs, refs \in SUBSET KPIs : BeginFormula(c, k, refs)
    \/ \E c \in Callers, e \in Pairs : BeginCascade(c, e) \/ DetachCascade(c, e)
    \/ \E c \in Callers :
           CheckFormula(c) \/ SaveFormula(c) \/ CheckCascade(c) \/ SaveCascade(c)
           \/ ReadLevels(c) \/ WriteLevel(c) \/ FailWrite(c) \/ GiveUp(c)
    \/ \E k \in KPIs, c \in Callers : DetachBesideSave(k, c)
    \/ \E k \in KPIs : DetachFormula(k) \/ Archive(k) \/ Restore(k) \/ Purge(k)

GraphSpec == GraphInit /\ [][GraphNext]_graphVars

------------------------------------------------------------------------------
(* Properties *)

\* Every variable holds a value of its type.
GraphTypeOK ==
    /\ kpi \in [KPIs -> {"live", "archived", "purged"}]
    /\ formula \subseteq KPIs /\ deps \subseteq Pairs /\ edges \subseteq Pairs
    /\ level \in [Pairs -> 0..MaxLevel]
    /\ \A c \in Callers : \/ request[c] = NoRequest \/ request[c] \in FormulaRequests
                          \/ request[c] \in CascadeRequests \/ request[c] \in LevelRequests
    /\ ops \in 0..MaxOps /\ raced \in BOOLEAN /\ disturbed \in BOOLEAN

\* Every nonempty set of KPIs has one nothing in the set leads to.
Acyclic(E) == \A S \in SUBSET KPIs : S # {} => \E n \in S : \A m \in S : <<m, n>> \notin E

\* Both graphs stay acyclic, whatever is attached, replaced, detached, archived
\* and purged in between, as long as no attach writes after another attach of the
\* same graph was written behind its check.
AcyclicUnlessRaced == raced \/ (Acyclic(deps) /\ Acyclic(edges))

\* The length of the longest path that ends in a node.
Depth(E, n) ==
    LET upTo[i \in 0..Cardinality(KPIs)] ==
            IF i = 0 THEN {n}
            ELSE {m \in KPIs : \E k \in upTo[i - 1] : <<m, k>> \in E}
    IN Max({i \in 0..Cardinality(KPIs) : upTo[i] # {}})

\* computeLevels gives every KPI the longest path that leads to it, in whatever
\* order its queue is served, for every cascade graph without a cycle.
ComputesDepths ==
    Acyclic(edges) => \A n \in KPIs : ComputeLevels(edges)[n] = Depth(edges, n)

\* Once nobody recomputes levels, each cascade carries the depth of its parent,
\* unless cascades changed while another request was writing, with a purge, or
\* without a recomputation that got through.  The next change of a cascade whose
\* recomputation is alone and gets through puts them all right again.
LevelsAreDepths ==
    (~raced /\ ~disturbed /\ \A c \in Callers : request[c].op # "levels")
        => \A e \in edges : level[e] = Depth(edges, e[1])
==============================================================================
