------------------------------- MODULE Recompute -------------------------------
(***************************************************************************)
(* The calculation engine.  A recorded data point enqueues a recompute of  *)
(* every formula that uses its KPI and a rollup of every cascade parent; a *)
(* finished recompute enqueues the next formulas, a finished rollup the    *)
(* next parents.  Workers, users recording points and users asking for     *)
(* "recompute now" run at once, and a run reads its sources one by one.    *)
(* Values are abstracted to which of a source's points a run has seen.     *)
(***************************************************************************)
EXTENDS Naturals, FiniteSets

CONSTANTS
    Nodes,       \* KPIs
    Graphs,      \* the dependency and cascade rows to check, one graph a behaviour
    Workers,     \* one calc-engine worker per API process (concurrency 1)
    Users,       \* requests of users that can be in progress at once
    MaxInserts,  \* bound: points recorded by users
    MaxExtras    \* bound: recomputes asked for, failures and crashes together

Kinds == {"recompute", "rollup"}

\* Rows of one kind have no cycle, which attaching ensures.
AcyclicKind(g, kind) ==
    \A S \in SUBSET Nodes : S # {} => \E n \in S : \A m \in S : <<kind, m, n>> \notin g

ASSUME RecomputeAssumption ==
    /\ \A g \in Graphs : /\ g \subseteq Kinds \X Nodes \X Nodes
                         /\ \A kind \in Kinds : AcyclicKind(g, kind)
    /\ MaxInserts \in Nat /\ MaxExtras \in Nat
    /\ Workers \cap Users = {}

VARIABLES
    feeds,     \* <<kind, source, target>>: the rows, which do not change here
    points,    \* the number of points of each KPI
    basis,     \* history: the points of each KPI the latest value of a job's target has seen
    queue,     \* calc-engine jobs
    run,       \* what each worker or user is doing
    lost,      \* history: jobs nobody will run for a change they have not seen
    inserts, manual, trouble

counters == <<inserts, manual, trouble>>
engineVars == <<feeds, points, basis, queue, run, lost, inserts, manual, trouble>>

------------------------------------------------------------------------------
Extras == manual + trouble
Runners == Workers \cup Users
\* One recompute job per formula, one rollup job per parent (and period).
Jobs == Kinds \X Nodes
NoJob == <<"none", "none">>
Versions == [Nodes -> Nat]
Nothing == [n \in Nodes |-> 0]
Resting == [stage |-> "idle"]
\* todo: the jobs to enqueue; seen: the points the sources read so far had.
Runs == [stage : {"read", "write", "enqueue"}, job : Jobs \cup {NoJob},
         unread : SUBSET Nodes, seen : Versions, todo : SUBSET Jobs]

Sources(j) == {s \in Nodes : <<j[1], s, j[2]>> \in feeds}
\* Mutant: the edges are followed the wrong way.
Backwards(kind, n) == {j \in Jobs : j[1] = kind /\ <<kind, j[2], n>> \in feeds}
\* dependentsOf, parentsOf
Targets(kind, n) == {j \in Jobs : j[1] = kind /\ <<kind, n, j[2]>> \in feeds}
Derived == {j \in Jobs : Sources(j) # {}}

EngineInit ==
    /\ feeds \in Graphs
    /\ points = Nothing
    /\ basis = [j \in Jobs |-> Nothing]
    /\ queue = [j \in Jobs |-> "none"]
    /\ run = [r \in Runners |-> Resting]
    /\ lost = {}
    /\ inserts = 0 /\ manual = 0 /\ trouble = 0

AddPoint(n) == [points EXCEPT ![n] = @ + 1]
Reading(j) == [stage |-> "read", job |-> j, unread |-> Sources(j), seen |-> Nothing,
               todo |-> Targets(j[1], j[2])]

(* KpiDataService *)

\* The point is written; then the rollups and the recomputes are enqueued.
Insert(u, n) ==
    /\ run[u] = Resting /\ inserts < MaxInserts
    /\ inserts' = inserts + 1
    /\ points' = AddPoint(n)
    /\ run' = [run EXCEPT ![u] =
          [stage |-> "enqueue", job |-> NoJob, unread |-> {}, seen |-> Nothing,
           todo |-> Targets("rollup", n) \cup Targets("recompute", n)]]
    /\ UNCHANGED <<feeds, basis, queue, lost, manual, trouble>>

(* CalculationEngineController and CalculationEngineProcessor *)

\* What a run is about to read is no longer lost on its job.
RunNow(u, j) ==
    /\ run[u] = Resting /\ Extras < MaxExtras /\ j \in Derived
    /\ manual' = manual + 1
    /\ run' = [run EXCEPT ![u] = Reading(j)]
    /\ lost' = lost \ {j}
    /\ UNCHANGED <<feeds, points, basis, queue, inserts, trouble>>

StartJob(w, j) ==
    /\ run[w] = Resting /\ queue[j] = "waiting"
    /\ queue' = [queue EXCEPT ![j] = "active"]
    /\ run' = [run EXCEPT ![w] = Reading(j)]
    /\ lost' = lost \ {j}
    /\ UNCHANGED <<feeds, points, basis, counters>>

(* CalculationEngineService *)

NoData(j, seen, n) == j[1] = "recompute" /\ seen[n] = 0

\* The latest point of a formula's source, or the points of a child; a formula
\* stops at a source without data.
ReadSource(r) ==
    /\ run[r].stage = "read"
    /\ \E s \in run[r].unread :
           LET seen == [run[r].seen EXCEPT ![s] = points[s]]
               left == run[r].unread \ {s}
           IN run' = [run EXCEPT ![r] =
                  IF NoData(run[r].job, seen, s) THEN [@ EXCEPT !.stage = "enqueue", !.unread = {}, !.seen = Nothing]
                  ELSE [@ EXCEPT !.seen = seen, !.unread = left,
                                 !.stage = IF left # {} THEN "read"
                                           ELSE IF seen = Nothing THEN "enqueue" ELSE "write"]]
    /\ UNCHANGED <<feeds, points, basis, queue, lost, counters>>

\* The jobs that use the KPI in the other way are not enqueued.
NotPropagated(j) == {t \in Jobs : t[1] # j[1] /\ <<t[1], j[2], t[2]>> \in feeds}
\* A run that began earlier writes over a later one.
Overwrites(r) == \E n \in Nodes : run[r].seen[n] < basis[run[r].job][n]

\* The computed point is written.
Write(r) ==
    /\ run[r].stage = "write"
    /\ LET j == run[r].job
       IN /\ points' = AddPoint(j[2])
          /\ basis' = [basis EXCEPT ![j] = run[r].seen]
          /\ lost' = lost \cup NotPropagated(j) \cup (IF Overwrites(r) THEN {j} ELSE {})
    /\ run' = [run EXCEPT ![r].stage = "enqueue", ![r].seen = Nothing]
    /\ UNCHANGED <<feeds, queue, counters>>

\* The evaluation fails: nothing is written, the propagation goes on.
EvaluationFails(r) ==
    /\ run[r].stage = "write" /\ run[r].job[1] = "recompute"
    /\ Extras < MaxExtras /\ trouble' = trouble + 1
    /\ lost' = lost \cup {run[r].job}
    /\ run' = [run EXCEPT ![r].stage = "enqueue", ![r].seen = Nothing]
    /\ UNCHANGED <<feeds, points, basis, queue, inserts, manual>>

\* Mutant: an active job of that id is put back in the queue.
AddAgain(j) == [queue EXCEPT ![j] = "waiting"]
\* Queue.add with a custom jobId: ignored while a job of that id is waiting or
\* active.
AddJob(j) == [queue EXCEPT ![j] = IF @ = "none" THEN "waiting" ELSE @]

\* A queue error is logged and forgotten; an active job may have read already.
Enqueue(r) ==
    /\ run[r].stage = "enqueue"
    /\ \E j \in run[r].todo :
           /\ run' = [run EXCEPT ![r].todo = @ \ {j}]
           /\ \/ /\ queue' = AddJob(j)
                 /\ lost' = IF queue[j] = "active" THEN lost \cup {j} ELSE lost
                 /\ UNCHANGED trouble
              \/ /\ Extras < MaxExtras /\ trouble' = trouble + 1
                 /\ lost' = lost \cup {j}
                 /\ UNCHANGED queue
    /\ UNCHANGED <<feeds, points, basis, inserts, manual>>

\* Mutant: the finished job stays.
StaysActive(r) == queue
\* A job is removed when it completes or fails.
JobRemoved(r) ==
    IF r \in Workers THEN [queue EXCEPT ![run[r].job] = "none"] ELSE queue

Finish(r) ==
    /\ run[r].stage = "enqueue" /\ run[r].todo = {}
    /\ run' = [run EXCEPT ![r] = Resting]
    /\ queue' = JobRemoved(r)
    /\ UNCHANGED <<feeds, points, basis, lost, counters>>

\* What a run that ends here leaves undone.
Undone(r) ==
    run[r].todo \cup (IF run[r].stage = "enqueue" THEN {} ELSE {run[r].job})

\* A database error, before or after the point is written: the run ends, the job
\* is not retried.
Fail(r) ==
    /\ run[r].stage # "idle" /\ run[r].job # NoJob
    /\ Extras < MaxExtras /\ trouble' = trouble + 1
    /\ lost' = lost \cup Undone(r)
    /\ run' = [run EXCEPT ![r] = Resting]
    /\ queue' = JobRemoved(r)
    /\ UNCHANGED <<feeds, points, basis, inserts, manual>>

\* The process of a runner dies; the job of a worker is put back and run again.
Crash(r) ==
    /\ run[r].stage # "idle"
    /\ Extras < MaxExtras /\ trouble' = trouble + 1
    /\ IF r \in Workers
       THEN queue' = [queue EXCEPT ![run[r].job] = "waiting"] /\ UNCHANGED lost
       ELSE lost' = lost \cup Undone(r) /\ UNCHANGED queue
    /\ run' = [run EXCEPT ![r] = Resting]
    /\ UNCHANGED <<feeds, points, basis, inserts, manual>>

RunStep(r) == ReadSource(r) \/ Write(r) \/ Enqueue(r) \/ Finish(r)

EngineNext ==
    \/ \E u \in Users, n \in Nodes : Insert(u, n)
    \/ \E u \in Users, j \in Jobs : RunNow(u, j)
    \/ \E w \in Workers, j \in Jobs : StartJob(w, j)
    \/ \E r \in Runners : RunStep(r) \/ EvaluationFails(r) \/ Fail(r) \/ Crash(r)

EngineSpec == EngineInit /\ [][EngineNext]_engineVars

\* Runs in progress end and workers take the jobs that wait; users do as they like.
EngineFairness ==
    /\ \A r \in Runners : WF_engineVars(RunStep(r))
    /\ \A w \in Workers : WF_engineVars(\E j \in Jobs : StartJob(w, j))

EngineFairSpec == EngineSpec /\ EngineFairness

------------------------------------------------------------------------------
(* Properties *)

\* Every variable holds a value of its type.
EngineTypeOK ==
    /\ feeds \subseteq Kinds \X Nodes \X Nodes
    /\ points \in [Nodes -> Nat]
    /\ basis \in [Jobs -> Versions]
    /\ queue \in [Jobs -> {"none", "waiting", "active"}]
    /\ \A r \in Runners : run[r] = Resting \/ run[r] \in Runs
    /\ lost \subseteq Jobs
    /\ inserts \in 0..MaxInserts /\ manual \in Nat /\ trouble \in Nat /\ Extras <= MaxExtras

Quiet == (\A r \in Runners : run[r] = Resting) /\ (\A j \in Jobs : queue[j] = "none")

\* A formula needs data of every source, a rollup of one.
Computable(j) ==
    /\ j \in Derived
    /\ IF j[1] = "recompute" THEN \A s \in Sources(j) : points[s] > 0
       ELSE \E s \in Sources(j) : points[s] > 0
UpToDate(j) == \A s \in Sources(j) : basis[j][s] = points[s]

\* Once the engine is quiet every derived value has seen every point of its
\* sources, however the recomputes of a chain or a diamond interleave, except
\* where an enqueue was swallowed or lost, a run failed or was overtaken, or the
\* source was itself computed in the other way.
FreshUnlessLost == Quiet => \A j \in Jobs : Computable(j) => UpToDate(j) \/ j \in lost

\* Comment of CalculationEngineProducer: a later change triggers a fresh run
\* rather than being swallowed as a duplicate.
LaterChangeSeen == Quiet => \A j \in Jobs : Computable(j) => UpToDate(j)

\* One job runs at a time for each target, so a value never goes back to older
\* points, unless a user's run overlaps.
NeverOlder ==
    [][\A j \in Jobs : manual' = 0 => \A n \in Nodes : basis'[j][n] >= basis[j][n]]_engineVars

\* A change comes to rest: formulas and cascades are acyclic each, and neither
\* kind of job enqueues the other, so loops through both do not matter.
PropagationEnds == []<>Quiet
==============================================================================
