------------------------------ MODULE ServicesProofs ------------------------------
(***************************************************************************)
(* Theorems of Recompute, Onboarding, ScheduledReports, Webhooks and       *)
(* Realtime, for any KPIs, graphs, workers, requests in progress,          *)
(* sections, patterns, deliveries, streams and events; and of MCServices,  *)
(* which composes them with Accounts and AccessCache.                      *)
(***************************************************************************)
EXTENDS MCServices, AccessProofs, SequenceTheorems

(* Recompute *)

\* The types; the graph has no row from a KPI to itself.
Shape ==
    /\ feeds \subseteq Kinds \X Nodes \X Nodes
    /\ \A kind \in Kinds, n \in Nodes : <<kind, n, n>> \notin feeds
    /\ points \in [Nodes -> Nat]
    /\ basis \in [Jobs -> Versions]
    /\ queue \in [Jobs -> {"none", "waiting", "active"}]
    /\ run \in [Runners -> {Resting} \cup Runs]
    /\ lost \subseteq Jobs
    /\ manual \in Nat

Running(m) == m.stage # "idle"
ReadsSources(m) == m.stage \in {"read", "write"}
TargetsOf(j) == Targets(j[1], j[2])

\* A run that reads has all it will enqueue before it, and saw nothing but its sources.
Sound(m) ==
    ReadsSources(m) =>
        /\ m.job \in Jobs /\ m.todo = TargetsOf(m.job)
        /\ m.unread \subseteq Sources(m.job) /\ (m.stage = "write" => m.unread = {})
        /\ \A n \in Nodes : m.seen[n] <= points[n] /\ (m.seen[n] # 0 => n \in Sources(m.job))
RunsSound == \A r \in Runners, m \in Runs : run[r] = m => Sound(m)

\* The job of a worker is active and has no other worker.
Held ==
    \A w \in Workers, m \in Runs : run[w] = m =>
        /\ m.job \in Jobs /\ queue[m.job] = "active" /\ m.todo \subseteq TargetsOf(m.job)
        /\ \A v \in Workers, k \in Runs : v # w /\ run[v] = k => k.job # m.job

\* A value has seen nothing but points of its sources.
BasisSound ==
    \A j \in Jobs, n \in Nodes : basis[j][n] <= points[n] /\ (basis[j][n] # 0 => n \in Sources(j))

\* What a worker has read is no older than what the value it will replace was made of.
NotOlder(m) == \A n \in Sources(m.job) \ m.unread : basis[m.job][n] <= m.seen[n]
InOrder ==
    manual = 0 => \A r \in Runners, m \in Runs : run[r] = m /\ ReadsSources(m) => r \in Workers /\ NotOlder(m)

\* The run will enqueue the job, or has what the source holds now before it.
WillEnqueue(j) == \E r \in Runners, m \in Runs : run[r] = m /\ j \in m.todo
Has(m, j, s) == ReadsSources(m) /\ m.job = j /\ (s \in m.unread \/ m.seen[s] = points[s])
WillWrite(j, s) == \E r \in Runners, m \in Runs : run[r] = m /\ Has(m, j, s)
\* Something will still bring the points of s into j: the job waits or a run is
\* on it, a run will enqueue it, or a job that waits has a run that will; or
\* nothing will, and the job is lost.
Covered(j, s) ==
    \/ j \in lost
    \/ \E i \in Jobs : queue[i] = "waiting" /\ (i = j \/ j \in TargetsOf(i))
    \/ WillEnqueue(j)
    \/ WillWrite(j, s)
EngineFresh ==
    \A j \in Jobs : Computable(j) => \A s \in Sources(j) : basis[j][s] = points[s] \/ Covered(j, s)

EngineInv == Shape /\ RunsSound /\ Held /\ BasisSound /\ InOrder /\ EngineFresh

------------------------------------------------------------------------------
LEMMA JobShape ==
    ASSUME NEW j \in Jobs
    PROVE  j[1] \in Kinds /\ j[2] \in Nodes /\ j = <<j[1], j[2]>> /\ j # NoJob
BY DEF Jobs, Kinds, NoJob

LEMMA RunShape ==
    ASSUME NEW m \in Runs
    PROVE  /\ m.stage \in {"read", "write", "enqueue"} /\ m.job \in Jobs \cup {NoJob}
           /\ m.unread \subseteq Nodes /\ m.seen \in Versions /\ m.todo \subseteq Jobs
           /\ Running(m) /\ m # Resting
BY DEF Runs, Resting, Running

LEMMA RestShape == Resting.stage = "idle" /\ Resting \notin Runs /\ ~ReadsSources(Resting)
BY DEF Runs, Resting, ReadsSources

LEMMA Bounds == Nothing \in Versions /\ Workers \cap Users = {}
BY RecomputeAssumption DEF Nothing, Versions

LEMMA SameGraph ==
    ASSUME feeds' = feeds
    PROVE  /\ \A j \in Jobs : Sources(j)' = Sources(j) /\ TargetsOf(j)' = TargetsOf(j)
           /\ Derived' = Derived
BY DEF Sources, TargetsOf, Targets, Derived

\* A row leads from a source to a target.
LEMMA Edge ==
    ASSUME NEW j \in Jobs, NEW n \in Nodes
    PROVE  /\ n \in Sources(j) <=> j \in Targets(j[1], n)
           /\ n \in Sources(j) <=> <<j[1], n, j[2]>> \in feeds
           /\ \A i \in Jobs : j \in TargetsOf(i) <=> i[1] = j[1] /\ i[2] \in Sources(j)
           /\ Sources(j) \subseteq Nodes /\ TargetsOf(j) \subseteq Jobs
BY JobShape DEF Sources, TargetsOf, Targets

LEMMA ReadingShape ==
    ASSUME Shape, NEW j \in Jobs
    PROVE  /\ Reading(j) \in Runs /\ Reading(j).stage = "read" /\ Reading(j).job = j
           /\ Reading(j).unread = Sources(j) /\ Reading(j).seen = Nothing
           /\ Reading(j).todo = TargetsOf(j)
BY Bounds DEF Reading, Runs, Sources, TargetsOf, Targets

LEMMA OneMore ==
    ASSUME Shape, NEW n \in Nodes, points' = AddPoint(n)
    PROVE  /\ points' \in [Nodes -> Nat]
           /\ \A k \in Nodes : points'[k] \in Nat /\ points[k] <= points'[k] /\ (k # n => points'[k] = points[k])
BY Bounds DEF Shape, AddPoint

------------------------------------------------------------------------------
(* What each step leaves in place: r goes from what it did to m. *)

RunGoes(r, m) == \A q \in Runners : run'[q] = IF q = r THEN m ELSE run[q]
PointsGrow == \A k \in Nodes : points'[k] \in Nat /\ points[k] \in Nat /\ points[k] <= points'[k]

LEMMA RunRowsKept ==
    ASSUME Shape, RunsSound, feeds' = feeds, PointsGrow,
           NEW r \in Runners, NEW m \in {Resting} \cup Runs, RunGoes(r, m), Sound(m)'
    PROVE  RunsSound'
<1> SUFFICES ASSUME NEW q \in Runners, NEW k \in Runs, run'[q] = k PROVE Sound(k)'
  BY DEF RunsSound
<1>1. CASE q = r
  BY <1>1 DEF RunGoes
<1>2. CASE q # r
  <2>1. Sound(k)
    BY <1>2 DEF RunGoes, RunsSound
  <2> QED BY <2>1, SameGraph, RunShape DEF Sound, ReadsSources, PointsGrow, Versions
<1> QED BY <1>1, <1>2

LEMMA HeldKept ==
    ASSUME Shape, Held, feeds' = feeds,
           NEW r \in Runners, NEW m \in {Resting} \cup Runs, RunGoes(r, m),
           \A i \in Jobs : queue[i] = "active" /\ queue'[i] # "active" => r \in Workers /\ run[r] \in Runs /\ run[r].job = i,
           r \in Workers /\ m \in Runs =>
               /\ m.job \in Jobs /\ queue'[m.job] = "active" /\ m.todo \subseteq TargetsOf(m.job)
               /\ \A v \in Workers, k \in Runs : v # r /\ run[v] = k => k.job # m.job
    PROVE  Held'
<1> SUFFICES ASSUME NEW w \in Workers, NEW k \in Runs, run'[w] = k
             PROVE  /\ k.job \in Jobs /\ queue'[k.job] = "active" /\ k.todo \subseteq TargetsOf(k.job)'
                    /\ \A v \in Workers, h \in Runs : v # w /\ run'[v] = h => h.job # k.job
  BY DEF Held
<1>0. Workers \subseteq Runners
  BY DEF Runners
<1>1. CASE w = r
  BY <1>0, <1>1, SameGraph DEF RunGoes
<1>2. CASE w # r
  <2>1. run[w] = k /\ k.job \in Jobs /\ queue[k.job] = "active" /\ k.todo \subseteq TargetsOf(k.job)
    BY <1>0, <1>2 DEF RunGoes, Held
  <2>2. queue'[k.job] = "active"
    BY <1>0, <1>2, <2>1 DEF Held
  <2>3. ASSUME NEW v \in Workers, NEW h \in Runs, v # w, run'[v] = h PROVE h.job # k.job
    BY <1>0, <1>2, <2>1, <2>3 DEF RunGoes, Held
  <2> QED BY <2>1, <2>2, <2>3, SameGraph
<1> QED BY <1>1, <1>2

LEMMA BasisKept ==
    ASSUME Shape, BasisSound, feeds' = feeds, PointsGrow, basis' = basis
    PROVE  BasisSound'
BY SameGraph DEF Shape, BasisSound, PointsGrow, Versions

LEMMA InOrderKept ==
    ASSUME Shape, InOrder, feeds' = feeds, basis' = basis, manual' \in Nat, manual <= manual', RunsSound,
           NEW r \in Runners, NEW m \in {Resting} \cup Runs, RunGoes(r, m),
           manual' = 0 /\ m \in Runs /\ ReadsSources(m) => m.job \in Jobs /\ r \in Workers /\ NotOlder(m)
    PROVE  InOrder'
<1> SUFFICES ASSUME manual' = 0, NEW q \in Runners, NEW k \in Runs, run'[q] = k, ReadsSources(k)
             PROVE  q \in Workers /\ NotOlder(k)'
  BY DEF InOrder, ReadsSources
<1>1. q \in Workers /\ NotOlder(k) /\ k.job \in Jobs
  <2>1. manual = 0
    BY DEF Shape
  <2> QED BY <2>1 DEF RunGoes, InOrder, RunsSound, Sound
<1> QED BY <1>1, SameGraph DEF NotOlder

\* j stays covered for s when it does through what the step changes.
LEMMA CoverKept ==
    ASSUME feeds' = feeds, NEW r \in Runners, NEW m \in {Resting} \cup Runs, RunGoes(r, m),
           NEW j \in Jobs, NEW s \in Nodes, points'[s] = points[s],
           j \in lost => Covered(j, s)',
           \A i \in Jobs : queue[i] = "waiting" /\ (i = j \/ j \in TargetsOf(i)) => Covered(j, s)',
           \A k \in Runs : run[r] = k /\ j \in k.todo => Covered(j, s)',
           \A k \in Runs : run[r] = k /\ Has(k, j, s) => Covered(j, s)',
           Covered(j, s)
    PROVE  Covered(j, s)'
<1>1. ASSUME WillEnqueue(j) PROVE Covered(j, s)'
  <2> PICK q \in Runners, k \in Runs : run[q] = k /\ j \in k.todo
    BY <1>1 DEF WillEnqueue
  <2>1. q # r => run'[q] = k
    BY DEF RunGoes
  <2> QED BY <2>1 DEF Covered, WillEnqueue
<1>2. ASSUME WillWrite(j, s) PROVE Covered(j, s)'
  <2> PICK q \in Runners, k \in Runs : run[q] = k /\ Has(k, j, s)
    BY <1>2 DEF WillWrite
  <2>1. q # r => run'[q] = k
    BY DEF RunGoes
  <2>2. Has(k, j, s)'
    BY DEF Has, ReadsSources
  <2> QED BY <2>1, <2>2 DEF Covered, WillWrite
<1> QED BY <1>1, <1>2 DEF Covered

LEMMA StaleKept ==
    ASSUME EngineFresh, feeds' = feeds, points' = points, basis' = basis,
           \A j \in Jobs, s \in Nodes :
               s \in Sources(j) /\ Computable(j) /\ basis[j][s] # points[s] /\ Covered(j, s) => Covered(j, s)'
    PROVE  EngineFresh'
<1>1. \A j \in Jobs : Computable(j)' = Computable(j) /\ Sources(j)' = Sources(j) /\ Sources(j) \subseteq Nodes
  BY SameGraph DEF Computable, Sources
<1> QED BY <1>1 DEF EngineFresh

\* A KPI that gains a point has everything that uses it covered.
LEMMA FreshAgain ==
    ASSUME feeds' = feeds, NEW n \in Nodes, \A k \in Nodes : k # n => points'[k] = points[k],
           \A j \in Jobs, s \in Nodes : n \in Sources(j) => Covered(j, s)',
           \A j \in Jobs, s \in Nodes : n \notin Sources(j) /\ s \in Sources(j) /\ Computable(j)
                                        /\ basis'[j][s] # points[s] => Covered(j, s)'
    PROVE  EngineFresh'
<1> SUFFICES ASSUME NEW j \in Jobs, Computable(j)', NEW s \in Sources(j), basis'[j][s] # points'[s], n \notin Sources(j)
             PROVE  Covered(j, s)'
  BY SameGraph DEF EngineFresh, Sources
<1>1. s \in Nodes /\ s # n /\ points'[s] = points[s]
  BY DEF Sources
<1>2. \A k \in Sources(j) : points'[k] = points[k]
  BY DEF Sources
<1>3. Computable(j)
  BY <1>2, SameGraph DEF Computable
<1> QED BY <1>1, <1>3

------------------------------------------------------------------------------
LEMMA InvParts ==
    ASSUME EngineInv
    PROVE  /\ Shape /\ RunsSound /\ Held /\ BasisSound /\ InOrder /\ EngineFresh
           /\ feeds \subseteq Kinds \X Nodes \X Nodes
           /\ \A kind \in Kinds, n \in Nodes : <<kind, n, n>> \notin feeds
           /\ points \in [Nodes -> Nat] /\ basis \in [Jobs -> Versions]
           /\ queue \in [Jobs -> {"none", "waiting", "active"}] /\ run \in [Runners -> {Resting} \cup Runs]
           /\ lost \subseteq Jobs /\ manual \in Nat
           /\ Workers \subseteq Runners /\ Users \subseteq Runners
BY DEF EngineInv, Shape, Runners

LEMMA PointsStay ==
    ASSUME EngineInv, points' = points
    PROVE  PointsGrow
BY Bounds DEF EngineInv, Shape, PointsGrow

LEMMA InsertKeeps ==
    ASSUME EngineInv, NEW u \in Users, NEW n \in Nodes, Insert(u, n)
    PROVE  EngineInv'
<1> DEFINE m == [stage |-> "enqueue", job |-> NoJob, unread |-> {}, seen |-> Nothing,
                 todo |-> Targets("rollup", n) \cup Targets("recompute", n)]
<1>0. /\ feeds' = feeds /\ basis' = basis /\ queue' = queue /\ lost' = lost /\ manual' = manual
      /\ points' = AddPoint(n) /\ run[u] = Resting /\ run' = [run EXCEPT ![u] = m] /\ u \in Runners /\ u \notin Workers
  BY InvParts, Bounds DEF Insert
<1>1. m \in Runs /\ m.stage = "enqueue" /\ m.todo = Targets("rollup", n) \cup Targets("recompute", n)
  BY Bounds DEF Runs, Targets
<1> HIDE DEF m
<1>2. RunGoes(u, m)
  BY <1>0, InvParts DEF RunGoes
<1>3. /\ points' \in [Nodes -> Nat]
      /\ \A k \in Nodes : points'[k] \in Nat /\ points[k] <= points'[k] /\ (k # n => points'[k] = points[k])
  BY <1>0, InvParts, OneMore
<1>4. PointsGrow
  BY <1>3, InvParts, Bounds DEF PointsGrow
<1>5. Shape'
  BY <1>0, <1>1, <1>3, InvParts DEF Shape
<1>6. RunsSound'
  BY <1>0, <1>1, <1>2, <1>4, InvParts, RunRowsKept DEF Sound, ReadsSources
<1>7. Held'
  BY <1>0, <1>1, <1>2, InvParts, HeldKept
<1>8. BasisSound'
  BY <1>0, <1>4, InvParts, BasisKept
<1>9. InOrder'
  <2>1. ~ReadsSources(m)
    BY <1>1 DEF ReadsSources
  <2>2. manual' \in Nat /\ manual <= manual'
    <3>1. manual \in Nat
      BY DEF EngineInv, Shape
    <3>2. manual' = manual
      BY <1>0
    <3> QED BY <3>1, <3>2
  <2> QED BY <1>0, <1>1, <1>2, <2>1, <2>2, InvParts, InOrderKept
<1>10. EngineFresh'
  <2>1. ASSUME NEW j \in Jobs, NEW s \in Nodes, n \in Sources(j) PROVE Covered(j, s)'
    <3>1. j \in m.todo
      BY <1>1, <2>1, Edge, JobShape DEF Kinds
    <3>2. run'[u] = m
      BY <1>0, <1>2 DEF RunGoes
    <3> QED BY <1>0, <1>1, <3>1, <3>2 DEF Covered, WillEnqueue
  <2>2. ASSUME NEW j \in Jobs, NEW s \in Nodes, n \notin Sources(j), s \in Sources(j), Computable(j),
               basis'[j][s] # points[s]
        PROVE  Covered(j, s)'
    <3>1. Covered(j, s) /\ points'[s] = points[s]
      BY <1>0, <1>3, <2>2, InvParts DEF EngineFresh
    <3>2. j \in lost => Covered(j, s)'
      BY <1>0 DEF Covered
    <3>3. \A i \in Jobs : queue[i] = "waiting" /\ (i = j \/ j \in TargetsOf(i)) => Covered(j, s)'
      BY <1>0, SameGraph DEF Covered
    <3>4. \A k \in Runs : run[u] # k
      BY <1>0, RestShape
    <3> QED BY <1>0, <1>1, <1>2, <3>1, <3>2, <3>3, <3>4, CoverKept
  <2>3. \A k \in Nodes : k # n => points'[k] = points[k]
    BY <1>3
  <2> QED BY <1>0, <2>1, <2>2, <2>3, FreshAgain
<1> QED BY <1>5, <1>6, <1>7, <1>8, <1>9, <1>10 DEF EngineInv

\* What RunNow and StartJob begin: all sources of the job are still to be read.
LEMMA BeginsReading ==
    ASSUME EngineInv, NEW r \in Runners, NEW j \in Jobs, run[r] = Resting, run' = [run EXCEPT ![r] = Reading(j)],
           lost' = lost \ {j}, manual' \in Nat, manual <= manual',
           r \in Workers => queue[j] = "waiting" /\ queue' = [queue EXCEPT ![j] = "active"],
           r \notin Workers => queue' = queue /\ manual' > 0,
           UNCHANGED <<feeds, points, basis>>
    PROVE  EngineInv'
<1>0. PICK m \in Runs : m = Reading(j)
  BY InvParts, ReadingShape
<1>1. /\ m.stage = "read" /\ m.job = j /\ m.todo = TargetsOf(j) /\ ReadsSources(m) /\ m.unread = Sources(j) /\ m.seen = Nothing
  BY <1>0, InvParts, ReadingShape DEF ReadsSources
<1>2. RunGoes(r, m) /\ run' \in [Runners -> {Resting} \cup Runs]
  BY <1>0, InvParts DEF RunGoes
<1>3. PointsGrow
  BY PointsStay
<1>4. Shape'
  BY <1>2, InvParts DEF Shape
<1>5. RunsSound'
  <2>1. Sound(m)'
    BY <1>1, InvParts, Bounds, SameGraph DEF Sound, ReadsSources, Nothing
  <2> QED BY <1>2, <1>3, <2>1, InvParts, RunRowsKept
<1>6. Held'
  <2>1. \A i \in Jobs : queue[i] = "active" /\ queue'[i] # "active" => r \in Workers /\ run[r] \in Runs /\ run[r].job = i
    BY InvParts
  <2>2. r \in Workers => /\ m.job \in Jobs /\ queue'[m.job] = "active" /\ m.todo \subseteq TargetsOf(m.job)
                         /\ \A v \in Workers, k \in Runs : v # r /\ run[v] = k => k.job # m.job
    BY <1>1, InvParts DEF Held
  <2> QED BY <1>2, <2>1, <2>2, InvParts, HeldKept
<1>7. BasisSound'
  BY <1>3, InvParts, BasisKept
<1>8. InOrder'
  BY <1>1, <1>2, InvParts, InOrderKept DEF NotOlder
<1>9. EngineFresh'
  <2> SUFFICES ASSUME NEW k \in Jobs, NEW s \in Nodes, s \in Sources(k), Covered(k, s) PROVE Covered(k, s)'
    BY InvParts, StaleKept
  <2>0. run'[r] = m /\ run[r] \notin Runs
    BY <1>2, RestShape DEF RunGoes
  <2>1. ASSUME k = j PROVE Covered(k, s)'
    <3>1. Has(m, k, s)'
      BY <1>1, <2>1 DEF Has, ReadsSources
    <3> QED BY <2>0, <3>1 DEF Covered, WillWrite
  <2>2. ASSUME k \in TargetsOf(j) PROVE Covered(k, s)'
    BY <1>1, <2>0, <2>2 DEF Covered, WillEnqueue
  <2>3. k \in lost => Covered(k, s)'
    BY <2>1 DEF Covered
  <2>4. \A i \in Jobs : queue[i] = "waiting" /\ (i = k \/ k \in TargetsOf(i)) => Covered(k, s)'
    <3>1. ASSUME NEW i \in Jobs, i # j, queue[i] = "waiting", i = k \/ k \in TargetsOf(i) PROVE Covered(k, s)'
      <4>1. queue'[i] = "waiting"
        BY <3>1, InvParts
      <4> QED BY <3>1, <4>1, SameGraph DEF Covered
    <3> QED BY <2>1, <2>2, <3>1
  <2> QED BY <1>2, <2>0, <2>3, <2>4, CoverKept
<1> QED BY <1>4, <1>5, <1>6, <1>7, <1>8, <1>9 DEF EngineInv

LEMMA RunNowKeeps ==
    ASSUME EngineInv, NEW u \in Users, NEW j \in Jobs, RunNow(u, j)
    PROVE  EngineInv'
<1>1. u \in Runners /\ u \notin Workers /\ run[u] = Resting /\ run' = [run EXCEPT ![u] = Reading(j)]
  BY InvParts, Bounds DEF RunNow
<1>2. manual' \in Nat /\ manual <= manual' /\ manual' > 0 /\ lost' = lost \ {j} /\ queue' = queue
  BY InvParts DEF RunNow
<1>3. UNCHANGED <<feeds, points, basis>>
  BY DEF RunNow
<1> QED BY <1>1, <1>2, <1>3, BeginsReading

LEMMA StartJobKeeps ==
    ASSUME EngineInv, NEW w \in Workers, NEW j \in Jobs, StartJob(w, j)
    PROVE  EngineInv'
<1>1. w \in Runners /\ run[w] = Resting /\ run' = [run EXCEPT ![w] = Reading(j)]
  BY InvParts DEF StartJob
<1>2. manual' \in Nat /\ manual <= manual' /\ lost' = lost \ {j}
  BY InvParts DEF StartJob, counters
<1>3. queue[j] = "waiting" /\ queue' = [queue EXCEPT ![j] = "active"] /\ UNCHANGED <<feeds, points, basis>>
  BY DEF StartJob
<1> QED BY <1>1, <1>2, <1>3, BeginsReading

With(m, st, un, sn) == [m EXCEPT !.stage = st, !.unread = un, !.seen = sn]
LEMMA RunWith ==
    ASSUME NEW m \in Runs, NEW st \in {"read", "write", "enqueue"}, NEW un, un \subseteq Nodes, NEW sn \in Versions,
           NEW n, n = With(m, st, un, sn)
    PROVE  /\ n \in Runs /\ n.job = m.job /\ n.todo = m.todo
           /\ n.stage = st /\ n.unread = un /\ n.seen = sn
BY DEF Runs, With

LEMMA ReadSourceKeeps ==
    ASSUME EngineInv, NEW r \in Runners, ReadSource(r)
    PROVE  EngineInv'
<1>0. PICK m \in Runs : m = run[r] /\ m.stage = "read"
  BY InvParts, RestShape DEF ReadSource
<1>1. PICK s \in m.unread :
        LET seen == [m.seen EXCEPT ![s] = points[s]]
            left == m.unread \ {s}
        IN run' = [run EXCEPT ![r] =
               IF NoData(m.job, seen, s) THEN [m EXCEPT !.stage = "enqueue", !.unread = {}, !.seen = Nothing]
               ELSE [m EXCEPT !.seen = seen, !.unread = left,
                              !.stage = IF left # {} THEN "read"
                                        ELSE IF seen = Nothing THEN "enqueue" ELSE "write"]]
  BY <1>0, InvParts DEF ReadSource
<1>2. /\ m.stage \in {"read", "write", "enqueue"} /\ m.unread \subseteq Nodes /\ m.seen \in Versions /\ m.todo \subseteq Jobs
      /\ ReadsSources(m) /\ m.job \in Jobs /\ m.todo = TargetsOf(m.job) /\ m.unread \subseteq Sources(m.job)
      /\ \A n \in Nodes : m.seen[n] <= points[n] /\ (m.seen[n] # 0 => n \in Sources(m.job))
      /\ s \in Nodes /\ points[s] \in Nat
  BY <1>0, InvParts, RunShape DEF RunsSound, Sound, ReadsSources
<1> DEFINE seen == [m.seen EXCEPT ![s] = points[s]]
           left == m.unread \ {s}
<1>3. PICK n : n = IF NoData(m.job, seen, s) THEN [m EXCEPT !.stage = "enqueue", !.unread = {}, !.seen = Nothing]
                   ELSE [m EXCEPT !.seen = seen, !.unread = left,
                                  !.stage = IF left # {} THEN "read"
                                            ELSE IF seen = Nothing THEN "enqueue" ELSE "write"]
  OBVIOUS
<1>4. seen \in Versions /\ seen[s] = points[s] /\ \A k \in Nodes : k # s => seen[k] = m.seen[k]
  BY <1>2 DEF Versions
<1>5. run' = [run EXCEPT ![r] = n]
  BY <1>1, <1>3
<1> HIDE DEF seen, left
<1>6. /\ n \in Runs /\ n.job = m.job /\ n.todo = m.todo
      /\ \/ n.stage = "enqueue" /\ NoData(m.job, seen, s)
         \/ n.stage = "enqueue" /\ seen = Nothing /\ left = {}
         \/ n.stage \in {"read", "write"} /\ n.seen = seen /\ n.unread = left /\ (n.stage = "write" => left = {})
  <2>1. left \subseteq Nodes /\ Nothing \in Versions
    BY <1>2, Bounds DEF left
  <2>2. CASE NoData(m.job, seen, s)
    <3>1. n = With(m, "enqueue", {}, Nothing)
      BY <1>3, <2>2 DEF With
    <3>2. n \in Runs /\ n.job = m.job /\ n.todo = m.todo /\ n.stage = "enqueue"
      BY <2>1, <3>1, RunWith
    <3> QED BY <2>2, <3>2
  <2>3. CASE ~NoData(m.job, seen, s)
    <3>1. PICK st \in {"read", "write", "enqueue"} :
              st = IF left # {} THEN "read" ELSE IF seen = Nothing THEN "enqueue" ELSE "write"
      OBVIOUS
    <3>2. n = [m EXCEPT !.seen = seen, !.unread = left, !.stage = st]
      BY <1>3, <2>3, <3>1
    <3>3. n = With(m, st, left, seen)
      BY <3>2 DEF Runs, With
    <3>4. n \in Runs /\ n.job = m.job /\ n.todo = m.todo /\ n.stage = st /\ n.seen = seen /\ n.unread = left
      BY <1>4, <2>1, <3>3, RunWith
    <3> QED BY <3>1, <3>4
  <2> QED BY <2>2, <2>3
<1>7. /\ feeds' = feeds /\ points' = points /\ basis' = basis /\ queue' = queue /\ lost' = lost /\ manual' = manual
      /\ RunGoes(r, n) /\ run' \in [Runners -> {Resting} \cup Runs]
  BY <1>5, <1>6, InvParts DEF ReadSource, counters, RunGoes
<1>8. PointsGrow
  BY <1>7, PointsStay
<1>9. Shape'
  BY <1>7, InvParts DEF Shape
<1>10. RunsSound'
  <2>1. ReadsSources(n) => /\ n.unread \subseteq Sources(n.job) /\ (n.stage = "write" => n.unread = {})
                           /\ \A k \in Nodes : n.seen[k] <= points[k] /\ (n.seen[k] # 0 => k \in Sources(n.job))
    <3>1. left \subseteq Sources(m.job) /\ s \in Sources(m.job)
      BY <1>2 DEF left
    <3>2. \A k \in Nodes : seen[k] <= points[k] /\ (seen[k] # 0 => k \in Sources(m.job))
      BY <1>2, <1>4, <3>1
    <3> QED BY <1>6, <3>1, <3>2 DEF ReadsSources
  <2>2. Sound(n)'
    BY <1>2, <1>6, <1>7, <2>1, SameGraph DEF Sound, ReadsSources
  <2> QED BY <1>6, <1>7, <1>8, <2>2, InvParts, RunRowsKept
<1>11. Held'
  <2>1. r \in Workers => /\ n.job \in Jobs /\ queue'[n.job] = "active" /\ n.todo \subseteq TargetsOf(n.job)
                         /\ \A v \in Workers, k \in Runs : v # r /\ run[v] = k => k.job # n.job
    BY <1>0, <1>6, <1>7, InvParts DEF Held
  <2> QED BY <1>6, <1>7, <2>1, InvParts, HeldKept
<1>12. BasisSound'
  BY <1>7, <1>8, InvParts, BasisKept
<1>13. InOrder'
  <2>1. ASSUME manual = 0, ReadsSources(n) PROVE r \in Workers /\ NotOlder(n)
    <3>1. r \in Workers /\ NotOlder(m)
      BY <1>0, <1>2, <2>1, InvParts DEF InOrder
    <3>2. n.seen = seen /\ n.unread = left
      BY <1>6, <2>1 DEF ReadsSources
    <3>3. basis[m.job][s] <= seen[s]
      BY <1>2, <1>4, InvParts DEF BasisSound
    <3>4. \A k \in Sources(n.job) \ n.unread : k = s \/ k \in Sources(m.job) \ m.unread
      BY <1>6, <3>2 DEF left
    <3>5. Sources(m.job) \subseteq Nodes
      BY DEF Sources
    <3> QED BY <1>4, <1>6, <3>1, <3>2, <3>3, <3>4, <3>5 DEF NotOlder
  <2> QED BY <1>2, <1>6, <1>7, <2>1, InvParts, InOrderKept
<1>14. EngineFresh'
  <2> SUFFICES ASSUME NEW j \in Jobs, NEW t \in Nodes, t \in Sources(j), Computable(j), basis[j][t] # points[t], Covered(j, t)
               PROVE  Covered(j, t)'
    BY <1>7, InvParts, StaleKept
  <2>0. run'[r] = n
    BY <1>7 DEF RunGoes
  <2>1. j \in lost => Covered(j, t)'
    BY <1>7 DEF Covered
  <2>2. \A i \in Jobs : queue[i] = "waiting" /\ (i = j \/ j \in TargetsOf(i)) => Covered(j, t)'
    BY <1>7, SameGraph DEF Covered
  <2>3. \A k \in Runs : run[r] = k /\ j \in k.todo => Covered(j, t)'
    BY <1>0, <1>6, <2>0 DEF Covered, WillEnqueue
  <2>4. ASSUME Has(m, j, t) PROVE Covered(j, t)'
    <3>1. m.job = j /\ (t = s \/ t \in left \/ (t # s /\ m.seen[t] = points[t]))
      BY <2>4 DEF Has, left
    <3>2. seen[t] = points[t] \/ t \in left
      BY <1>4, <3>1
    <3>3. CASE n.stage \in {"read", "write"}
      <4>1. Has(n, j, t)'
        BY <1>6, <1>7, <3>1, <3>2, <3>3 DEF Has, ReadsSources
      <4> QED BY <1>6, <2>0, <4>1 DEF Covered, WillWrite
    <3>4. CASE NoData(m.job, seen, s)
      <4>1. points[s] = 0 /\ s \in Sources(j)
        BY <1>2, <1>4, <3>1, <3>4 DEF NoData
      <4> QED BY <3>1, <3>4, <4>1 DEF Computable, NoData
    <3>5. CASE seen = Nothing /\ left = {}
      <4>1. points[t] = 0
        BY <3>2, <3>5 DEF Nothing
      <4>2. basis[j][t] <= points[t] /\ basis[j][t] \in Nat
        BY InvParts DEF BasisSound, Versions
      <4> QED BY <4>1, <4>2
    <3> QED BY <1>6, <3>3, <3>4, <3>5
  <2> QED BY <1>0, <1>6, <1>7, <2>1, <2>2, <2>3, <2>4, CoverKept
<1> QED BY <1>9, <1>10, <1>11, <1>12, <1>13, <1>14 DEF EngineInv

\* The steps that end a run, or its reading, or take a job off its list: what it
\* will not do any more is lost, or a job waits that will.
LEMMA Leaves ==
    ASSUME EngineInv, NEW r \in Runners, NEW m \in Runs, run[r] = m,
           NEW n \in {Resting} \cup Runs, run' = [run EXCEPT ![r] = n],
           n \in Runs => n.stage = "enqueue" /\ n.job = m.job /\ n.todo \subseteq m.todo,
           UNCHANGED <<feeds, points, basis, manual>>,
           lost \subseteq lost', lost' \subseteq Jobs,
           queue' \in [Jobs -> {"none", "waiting", "active"}],
           \A i \in Jobs : queue[i] = "active" /\ queue'[i] # "active" => r \in Workers /\ n = Resting /\ i = m.job,
           \A i \in Jobs : queue[i] = "waiting" => queue'[i] = "waiting",
           \A j \in m.todo : \/ n \in Runs /\ j \in n.todo
                             \/ j \in lost'
                             \/ \E i \in Jobs : queue'[i] = "waiting" /\ (i = j \/ j \in TargetsOf(i)),
           ReadsSources(m) => m.job \in lost' \/ queue'[m.job] = "waiting"
    PROVE  EngineInv'
<1>1. RunGoes(r, n) /\ run' \in [Runners -> {Resting} \cup Runs] /\ PointsGrow /\ manual \in Nat
  BY InvParts, PointsStay DEF RunGoes
<1>2. Shape'
  BY <1>1, InvParts DEF Shape
<1>3. ~ReadsSources(n)
  BY RestShape DEF ReadsSources
<1>4. RunsSound'
  BY <1>1, <1>3, InvParts, RunRowsKept DEF Sound, ReadsSources
<1>5. Held'
  <2>1. \A i \in Jobs : queue[i] = "active" /\ queue'[i] # "active" => r \in Workers /\ run[r] \in Runs /\ run[r].job = i
    OBVIOUS
  <2>2. r \in Workers /\ n \in Runs =>
            /\ n.job \in Jobs /\ queue'[n.job] = "active" /\ n.todo \subseteq TargetsOf(n.job)
            /\ \A v \in Workers, k \in Runs : v # r /\ run[v] = k => k.job # n.job
    BY RestShape, InvParts DEF Held
  <2> QED BY <1>1, <2>1, <2>2, InvParts, HeldKept
<1>6. BasisSound'
  BY <1>1, InvParts, BasisKept
<1>7. InOrder'
  BY <1>1, <1>3, InvParts, InOrderKept
<1>8. EngineFresh'
  <2> SUFFICES ASSUME NEW j \in Jobs, NEW s \in Nodes, s \in Sources(j), Covered(j, s) PROVE Covered(j, s)'
    BY InvParts, StaleKept
  <2>1. j \in lost => Covered(j, s)'
    BY DEF Covered
  <2>2. \A i \in Jobs : queue[i] = "waiting" /\ (i = j \/ j \in TargetsOf(i)) => Covered(j, s)'
    BY SameGraph DEF Covered
  <2>3. ASSUME j \in m.todo PROVE Covered(j, s)'
    <3>1. CASE n \in Runs /\ j \in n.todo
      BY <1>1, <3>1 DEF Covered, WillEnqueue, RunGoes
    <3> QED BY <2>3, <3>1, SameGraph DEF Covered
  <2>4. ASSUME Has(m, j, s) PROVE Covered(j, s)'
    BY <2>4 DEF Has, Covered
  <2> QED BY <1>1, <2>1, <2>2, <2>3, <2>4, CoverKept
<1> QED BY <1>2, <1>4, <1>5, <1>6, <1>7, <1>8 DEF EngineInv

LEMMA EvaluationFailsKeeps ==
    ASSUME EngineInv, NEW r \in Runners, EvaluationFails(r)
    PROVE  EngineInv'
<1>0. PICK m \in Runs : m = run[r] /\ m.stage = "write"
  BY InvParts, RestShape DEF EvaluationFails
<1>1. PICK n : n = [m EXCEPT !.stage = "enqueue", !.seen = Nothing]
  OBVIOUS
<1>2. n \in Runs /\ n.stage = "enqueue" /\ n.job = m.job /\ n.todo = m.todo
  BY <1>1, Bounds DEF Runs
<1>3. m.job \in Jobs
  BY <1>0, InvParts DEF RunsSound, Sound, ReadsSources
<1>4. /\ run' = [run EXCEPT ![r] = n] /\ lost' = lost \cup {m.job} /\ queue' = queue
      /\ UNCHANGED <<feeds, points, basis, manual>>
  BY <1>0, <1>1, InvParts DEF EvaluationFails
<1> QED BY <1>0, <1>2, <1>3, <1>4, InvParts, Leaves

LEMMA EnqueueKeeps ==
    ASSUME EngineInv, NEW r \in Runners, Enqueue(r)
    PROVE  EngineInv'
<1>0. PICK m \in Runs : m = run[r] /\ m.stage = "enqueue"
  BY InvParts, RestShape DEF Enqueue
<1>1. PICK j \in m.todo :
        /\ run' = [run EXCEPT ![r].todo = @ \ {j}]
        /\ \/ /\ queue' = AddJob(j)
              /\ lost' = IF queue[j] = "active" THEN lost \cup {j} ELSE lost
           \/ lost' = lost \cup {j} /\ queue' = queue
  BY <1>0 DEF Enqueue
<1>2. PICK n : n = [m EXCEPT !.todo = @ \ {j}]
  OBVIOUS
<1>3. n \in Runs /\ n.stage = "enqueue" /\ n.job = m.job /\ n.todo = m.todo \ {j} /\ j \in Jobs
  BY <1>0, <1>2 DEF Runs
<1>4. run' = [run EXCEPT ![r] = n] /\ UNCHANGED <<feeds, points, basis, manual>>
  BY <1>0, <1>1, <1>2, InvParts DEF Enqueue
<1>5. /\ queue' \in [Jobs -> {"none", "waiting", "active"}]
      /\ \A i \in Jobs : /\ queue[i] \in {"waiting", "active"} => queue'[i] = queue[i]
                         /\ i # j => queue'[i] = queue[i]
      /\ lost \subseteq lost' /\ lost' \subseteq Jobs /\ (j \in lost' \/ queue'[j] = "waiting")
  BY <1>1, <1>3, InvParts DEF AddJob
<1>6. ~ReadsSources(m)
  BY <1>0 DEF ReadsSources
<1>7. \A k \in m.todo : \/ k \in n.todo \/ k \in lost'
                        \/ \E i \in Jobs : queue'[i] = "waiting" /\ (i = k \/ k \in TargetsOf(i))
  BY <1>3, <1>5
<1> QED BY <1>0, <1>3, <1>4, <1>5, <1>6, <1>7, Leaves

\* A worker that stops takes its job off the queue.
LEMMA Removes ==
    ASSUME EngineInv, NEW r \in Runners, NEW m \in Runs, m = run[r], queue' = JobRemoved(r)
    PROVE  /\ queue' \in [Jobs -> {"none", "waiting", "active"}]
           /\ \A i \in Jobs : queue'[i] = queue[i] \/ (r \in Workers /\ i = m.job /\ queue[i] = "active")
<1>1. CASE r \in Workers
  <2>1. m.job \in Jobs /\ queue[m.job] = "active" /\ queue' = [queue EXCEPT ![m.job] = "none"]
    BY <1>1, InvParts DEF Held, JobRemoved
  <2> QED BY <1>1, <2>1, InvParts
<1>2. CASE r \notin Workers
  BY <1>2, InvParts DEF JobRemoved
<1> QED BY <1>1, <1>2

LEMMA FinishKeeps ==
    ASSUME EngineInv, NEW r \in Runners, Finish(r)
    PROVE  EngineInv'
<1>0. PICK m \in Runs : m = run[r] /\ m.stage = "enqueue" /\ m.todo = {}
  BY InvParts, RestShape DEF Finish
<1>1. /\ run' = [run EXCEPT ![r] = Resting] /\ lost' = lost /\ queue' = JobRemoved(r)
      /\ UNCHANGED <<feeds, points, basis, manual>>
  BY DEF Finish, counters
<1>2. ~ReadsSources(m)
  BY <1>0 DEF ReadsSources
<1>3. /\ queue' \in [Jobs -> {"none", "waiting", "active"}]
      /\ \A i \in Jobs : queue'[i] = queue[i] \/ (r \in Workers /\ i = m.job /\ queue[i] = "active")
  BY <1>0, <1>1, Removes
<1>4. lost \subseteq lost' /\ lost' \subseteq Jobs /\ \A j \in m.todo : j \in lost'
  BY <1>0, <1>1, InvParts
<1> QED BY <1>0, <1>1, <1>2, <1>3, <1>4, RestShape, Leaves

LEMMA FailKeeps ==
    ASSUME EngineInv, NEW r \in Runners, Fail(r)
    PROVE  EngineInv'
<1>0. PICK m \in Runs : m = run[r]
  BY InvParts, RestShape DEF Fail
<1>1. /\ run' = [run EXCEPT ![r] = Resting] /\ queue' = JobRemoved(r)
      /\ UNCHANGED <<feeds, points, basis, manual>>
  BY DEF Fail
<1>2. m.todo \subseteq Jobs /\ m.job \in Jobs
  BY <1>0, RunShape DEF Fail
<1>3. lost' = lost \cup m.todo \cup (IF m.stage = "enqueue" THEN {} ELSE {m.job})
  BY <1>0 DEF Fail, Undone
<1>4. lost \subseteq lost' /\ lost' \subseteq Jobs /\ m.todo \subseteq lost' /\ (ReadsSources(m) => m.job \in lost')
  BY <1>2, <1>3, InvParts DEF ReadsSources
<1>5. /\ queue' \in [Jobs -> {"none", "waiting", "active"}]
      /\ \A i \in Jobs : queue'[i] = queue[i] \/ (r \in Workers /\ i = m.job /\ queue[i] = "active")
  BY <1>0, <1>1, Removes
<1> QED BY <1>0, <1>1, <1>4, <1>5, RestShape, Leaves

LEMMA CrashKeeps ==
    ASSUME EngineInv, NEW r \in Runners, Crash(r)
    PROVE  EngineInv'
<1>0. PICK m \in Runs : m = run[r]
  BY InvParts, RestShape DEF Crash
<1>1. run' = [run EXCEPT ![r] = Resting] /\ UNCHANGED <<feeds, points, basis, manual>>
  BY DEF Crash
<1>2. CASE r \in Workers
  <2>1. m.job \in Jobs /\ queue[m.job] = "active" /\ m.todo \subseteq TargetsOf(m.job)
    BY <1>0, <1>2, InvParts DEF Held
  <2>2. queue' = [queue EXCEPT ![m.job] = "waiting"] /\ lost' = lost
    BY <1>0, <1>2 DEF Crash
  <2>3. /\ queue' \in [Jobs -> {"none", "waiting", "active"}] /\ queue'[m.job] = "waiting"
        /\ \A i \in Jobs : i # m.job => queue'[i] = queue[i]
    BY <2>1, <2>2, InvParts
  <2> QED BY <1>0, <1>1, <1>2, <2>1, <2>2, <2>3, RestShape, InvParts, Leaves
<1>3. CASE r \notin Workers
  <2>1. lost' = lost \cup m.todo \cup (IF m.stage = "enqueue" THEN {} ELSE {m.job}) /\ queue' = queue
    BY <1>0, <1>3 DEF Crash, Undone
  <2>2. m.todo \subseteq Jobs /\ (m.stage # "enqueue" => m.job \in Jobs)
    BY <1>0, RunShape, InvParts DEF RunsSound, Sound, ReadsSources
  <2>3. lost \subseteq lost' /\ lost' \subseteq Jobs /\ m.todo \subseteq lost' /\ (ReadsSources(m) => m.job \in lost')
    BY <2>1, <2>2, InvParts DEF ReadsSources
  <2> QED BY <1>0, <1>1, <2>1, <2>3, RestShape, InvParts, Leaves
<1> QED BY <1>2, <1>3

LEMMA WriteKeeps ==
    ASSUME EngineInv, NEW r \in Runners, Write(r)
    PROVE  /\ EngineInv'
           /\ manual' = 0 => \A j \in Jobs, n \in Nodes : basis'[j][n] >= basis[j][n]
<1>0. PICK m \in Runs : m = run[r] /\ m.stage = "write"
  BY InvParts, RestShape DEF Write
<1>1. /\ m.job \in Jobs /\ m.todo = TargetsOf(m.job) /\ m.unread = {} /\ m.seen \in Versions /\ ReadsSources(m)
      /\ \A n \in Nodes : m.seen[n] <= points[n] /\ (m.seen[n] # 0 => n \in Sources(m.job))
  BY <1>0, RunShape, InvParts DEF RunsSound, Sound, ReadsSources
<1>2. PICK j \in Jobs, p \in Nodes : j = m.job /\ p = j[2]
  BY <1>1, JobShape
<1>3. PICK n : n = [m EXCEPT !.stage = "enqueue", !.seen = Nothing]
  OBVIOUS
<1>4. n \in Runs /\ n.stage = "enqueue" /\ n.job = m.job /\ n.todo = m.todo
  BY <1>3, Bounds DEF Runs
<1>5. /\ points' = AddPoint(p) /\ basis' = [basis EXCEPT ![j] = m.seen]
      /\ lost' = lost \cup NotPropagated(j) \cup (IF Overwrites(r) THEN {j} ELSE {})
      /\ run' = [run EXCEPT ![r] = n] /\ feeds' = feeds /\ queue' = queue /\ manual' = manual
  BY <1>0, <1>2, <1>3, InvParts DEF Write, counters
<1>6. RunGoes(r, n) /\ run' \in [Runners -> {Resting} \cup Runs]
  BY <1>4, <1>5, InvParts DEF RunGoes
<1>7. /\ points' \in [Nodes -> Nat]
      /\ \A k \in Nodes : points'[k] \in Nat /\ points[k] <= points'[k] /\ (k # p => points'[k] = points[k])
  BY <1>5, InvParts, OneMore
<1>8. PointsGrow
  BY <1>7, InvParts, Bounds DEF PointsGrow
<1>9. Shape'
  <2>1. basis' \in [Jobs -> Versions]
    BY <1>1, <1>5, InvParts
  <2>2. lost' \subseteq Jobs
    BY <1>5, InvParts DEF NotPropagated
  <2> QED BY <1>5, <1>6, <1>7, <2>1, <2>2, InvParts DEF Shape
<1>10. ~ReadsSources(n)
  BY <1>4 DEF ReadsSources
<1>11. RunsSound'
  BY <1>4, <1>5, <1>6, <1>8, <1>10, InvParts, RunRowsKept DEF Sound, ReadsSources
<1>12. Held'
  <2>1. r \in Workers => /\ n.job \in Jobs /\ queue'[n.job] = "active" /\ n.todo \subseteq TargetsOf(n.job)
                         /\ \A v \in Workers, k \in Runs : v # r /\ run[v] = k => k.job # n.job
    BY <1>0, <1>4, <1>5, InvParts DEF Held
  <2> QED BY <1>4, <1>5, <1>6, <2>1, InvParts, HeldKept
<1>13. \A i \in Jobs : basis'[i] = IF i = j THEN m.seen ELSE basis[i]
  BY <1>5, InvParts
<1>14. BasisSound'
  <2> SUFFICES ASSUME NEW i \in Jobs, NEW k \in Nodes
               PROVE  basis'[i][k] <= points'[k] /\ (basis'[i][k] # 0 => k \in Sources(i))
    BY <1>5, SameGraph DEF BasisSound
  <2>1. basis'[i] \in Versions
    BY <1>1, <1>13, InvParts
  <2>2. basis'[i][k] <= points[k] /\ (basis'[i][k] # 0 => k \in Sources(i))
    BY <1>1, <1>2, <1>13, InvParts DEF BasisSound
  <2> QED BY <1>7, <2>1, <2>2, InvParts, Bounds DEF Versions
<1>15. InOrder'
  <2> SUFFICES ASSUME manual = 0, NEW q \in Runners, NEW k \in Runs, run'[q] = k, ReadsSources(k)
               PROVE  q \in Workers /\ NotOlder(k)'
    BY <1>5 DEF InOrder, ReadsSources
  <2>1. q # r /\ run[q] = k
    BY <1>6, <1>10 DEF RunGoes
  <2>2. q \in Workers /\ NotOlder(k) /\ r \in Workers /\ k.job \in Jobs
    BY <1>0, <1>1, <2>1, InvParts DEF InOrder, RunsSound, Sound
  <2>3. k.job # j
    BY <1>0, <1>2, <2>1, <2>2, InvParts DEF Held
  <2> QED BY <1>5, <1>13, <2>2, <2>3, SameGraph DEF NotOlder
<1>16. EngineFresh'
  <2>0. run'[r] = n /\ j \in Jobs
    BY <1>6 DEF RunGoes
  <2>1. ASSUME NEW i \in Jobs, NEW s \in Nodes, p \in Sources(i) PROVE Covered(i, s)'
    <3>1. CASE i[1] = j[1]
      <4>1. i \in TargetsOf(j)
        BY <1>2, <2>1, <3>1, Edge
      <4>2. i \in n.todo
        BY <1>1, <1>2, <1>4, <4>1
      <4> QED BY <1>4, <2>0, <4>2 DEF Covered, WillEnqueue
    <3>2. CASE i[1] # j[1]
      <4>1. i \in NotPropagated(j)
        BY <1>2, <2>1, <3>2, Edge DEF NotPropagated
      <4> QED BY <1>5, <4>1 DEF Covered
    <3> QED BY <3>1, <3>2
  <2>2. ASSUME NEW i \in Jobs, NEW s \in Nodes, p \notin Sources(i), s \in Sources(i), Computable(i), basis'[i][s] # points[s]
        PROVE  Covered(i, s)'
    <3>1. CASE i = j /\ m.seen[s] < basis[j][s]
      <4>1. Overwrites(r)
        BY <1>0, <1>2, <3>1 DEF Overwrites
      <4> QED BY <1>5, <3>1, <4>1 DEF Covered
    <3>2. CASE ~(i = j /\ m.seen[s] < basis[j][s])
      <4>1. basis[i][s] # points[s]
        <5>1. i = j => basis'[i][s] = m.seen[s] /\ m.seen[s] <= points[s] /\ ~(m.seen[s] < basis[j][s])
          BY <1>1, <1>13, <3>2
        <5>2. m.seen[s] \in Nat /\ points[s] \in Nat /\ basis[i][s] \in Nat
          BY <1>1, InvParts, Bounds DEF Versions
        <5> QED BY <1>13, <2>2, <5>1, <5>2
      <4>2. Covered(i, s) /\ points'[s] = points[s]
        BY <1>7, <2>2, <4>1, InvParts DEF EngineFresh
      <4>3. i \in lost => Covered(i, s)'
        BY <1>5 DEF Covered
      <4>4. \A k \in Jobs : queue[k] = "waiting" /\ (k = i \/ i \in TargetsOf(k)) => Covered(i, s)'
        BY <1>5, SameGraph DEF Covered
      <4>5. i \in m.todo => Covered(i, s)'
        BY <1>4, <2>0 DEF Covered, WillEnqueue
      <4>6. ~Has(m, i, s)
        BY <1>1, <1>2, <1>13, <2>2 DEF Has
      <4> QED BY <1>0, <1>4, <1>5, <1>6, <4>2, <4>3, <4>4, <4>5, <4>6, CoverKept
    <3> QED BY <3>1, <3>2
  <2>3. \A k \in Nodes : k # p => points'[k] = points[k]
    BY <1>7
  <2> QED BY <1>5, <2>1, <2>2, <2>3, FreshAgain
<1>17. ASSUME manual' = 0, NEW i \in Jobs, NEW k \in Nodes PROVE basis'[i][k] >= basis[i][k]
  <2>0. basis[i][k] \in Nat
    BY InvParts DEF Versions
  <2>1. CASE i # j
    BY <1>13, <2>0, <2>1
  <2>2. CASE i = j
    <3>1. NotOlder(m) /\ m.seen[k] \in Nat
      BY <1>0, <1>1, <1>5, <1>17, InvParts DEF InOrder, Versions
    <3>2. CASE k \in Sources(j)
      BY <1>1, <1>2, <1>13, <2>0, <2>2, <3>1, <3>2 DEF NotOlder
    <3>3. CASE k \notin Sources(j)
      BY <1>13, <2>0, <2>2, <3>1, <3>3, InvParts DEF BasisSound
    <3> QED BY <3>2, <3>3
  <2> QED BY <2>1, <2>2
<1> QED BY <1>9, <1>11, <1>12, <1>14, <1>15, <1>16, <1>17 DEF EngineInv

------------------------------------------------------------------------------
LEMMA EngineStep ==
    ASSUME EngineInv, [EngineNext]_engineVars
    PROVE  EngineInv'
<1>1. ASSUME UNCHANGED engineVars PROVE EngineInv'
  <2>0. UNCHANGED <<feeds, points, basis, queue, run, lost, manual>>
    BY <1>1 DEF engineVars
  <2>1. Shape' /\ BasisSound'
    BY <2>0, InvParts DEF Shape, BasisSound, Sources
  <2>2. \A m \in Runs : (Sound(m) => Sound(m)') /\ (NotOlder(m) => NotOlder(m)')
    BY <2>0, SameGraph DEF Sound, ReadsSources, NotOlder, TargetsOf, Targets, Sources
  <2>3. RunsSound' /\ InOrder'
    BY <2>0, <2>2, InvParts DEF RunsSound, InOrder
  <2>4. Held'
    BY <2>0, InvParts DEF Held, TargetsOf, Targets
  <2>5. \A j \in Jobs, s \in Nodes : Covered(j, s) => Covered(j, s)'
    BY <2>0 DEF Covered, WillEnqueue, WillWrite, Has, ReadsSources, TargetsOf, Targets
  <2>6. EngineFresh'
    BY <2>0, <2>5, InvParts, StaleKept
  <2> QED BY <2>1, <2>3, <2>4, <2>6 DEF EngineInv
<1>2. CASE \E u \in Users, n \in Nodes : Insert(u, n)
  BY <1>2, InsertKeeps
<1>3. CASE \E u \in Users, j \in Jobs : RunNow(u, j)
  BY <1>3, RunNowKeeps
<1>4. CASE \E w \in Workers, j \in Jobs : StartJob(w, j)
  BY <1>4, StartJobKeeps
<1>5. ASSUME NEW r \in Runners, RunStep(r) \/ EvaluationFails(r) \/ Fail(r) \/ Crash(r) PROVE EngineInv'
  BY <1>5, ReadSourceKeeps, WriteKeeps, EnqueueKeeps, FinishKeeps, EvaluationFailsKeeps, FailKeeps, CrashKeeps
     DEF RunStep
<1> QED BY <1>1, <1>2, <1>3, <1>4, <1>5 DEF EngineNext

LEMMA EngineStart == EngineInit => EngineInv
<1> SUFFICES ASSUME EngineInit PROVE EngineInv
  OBVIOUS
<1>1. /\ points = Nothing /\ basis = [j \in Jobs |-> Nothing] /\ queue = [j \in Jobs |-> "none"]
      /\ run = [r \in Runners |-> Resting] /\ lost = {} /\ manual = 0 /\ feeds \in Graphs
  BY DEF EngineInit
<1>2. \A kind \in Kinds, n \in Nodes : <<kind, n, n>> \notin feeds
  <2> SUFFICES ASSUME NEW kind \in Kinds, NEW n \in Nodes PROVE <<kind, n, n>> \notin feeds
    OBVIOUS
  <2>1. AcyclicKind(feeds, kind)
    BY <1>1, RecomputeAssumption
  <2>2. {n} \in SUBSET Nodes /\ {n} # {}
    OBVIOUS
  <2>3. \E k \in {n} : \A q \in {n} : <<kind, q, k>> \notin feeds
    BY <2>1, <2>2 DEF AcyclicKind
  <2> QED BY <2>3
<1>3. Shape
  BY <1>1, <1>2, Bounds, RecomputeAssumption DEF Shape, Nothing, Versions
<1>4. \A r \in Runners : run[r] \notin Runs
  BY <1>1, RestShape
<1>5. RunsSound /\ InOrder /\ Held
  BY <1>4 DEF RunsSound, InOrder, Held, Runners
<1>6. BasisSound
  BY <1>1 DEF BasisSound, Nothing
<1>7. EngineFresh
  BY <1>1 DEF EngineFresh, Nothing
<1> QED BY <1>3, <1>5, <1>6, <1>7 DEF EngineInv

LEMMA EngineAlways == EngineSpec => []EngineInv
BY EngineStart, EngineStep, PTL DEF EngineSpec

\* However recomputes and rollups overlap, fail and are enqueued twice, every
\* derived value has seen every point of its sources once the engine is quiet,
\* unless its job was lost for one of the reasons that are recorded.
THEOREM ValuesAreFresh == EngineSpec => []FreshUnlessLost
<1>1. EngineInv => FreshUnlessLost
  <2> SUFFICES ASSUME EngineInv, Quiet, NEW j \in Jobs, Computable(j), NEW s \in Sources(j), j \notin lost
               PROVE  basis[j][s] = points[s]
    BY DEF FreshUnlessLost, UpToDate
  <2>1. \A r \in Runners : run[r] \notin Runs
    BY RestShape DEF Quiet
  <2>2. ~Covered(j, s)
    BY <2>1 DEF Quiet, Covered, WillEnqueue, WillWrite
  <2> QED BY <2>2, InvParts DEF EngineFresh
<1> QED BY <1>1, EngineAlways, PTL

\* A value never goes back to older points while nobody asks for a recompute:
\* the queue runs one job of a target at a time, though a run reads its sources
\* long before it writes.
THEOREM NeverGoesBack == EngineSpec => NeverOlder
<1> DEFINE Newer == \A j \in Jobs : manual' = 0 => \A n \in Nodes : basis'[j][n] >= basis[j][n]
<1>1. ASSUME EngineInv, [EngineNext]_engineVars PROVE [Newer]_engineVars
  <2>1. ASSUME basis' = basis PROVE Newer
    BY <1>1, <2>1, InvParts, Bounds DEF Versions
  <2>2. ASSUME NEW r \in Runners, Write(r) PROVE Newer
    BY <1>1, <2>2, WriteKeeps
  <2>3. \/ UNCHANGED engineVars \/ basis' = basis \/ \E r \in Runners : Write(r)
    BY <1>1 DEF EngineNext, RunStep, Insert, RunNow, StartJob, ReadSource, Enqueue, Finish, EvaluationFails, Fail, Crash
  <2> QED BY <2>1, <2>2, <2>3
<1> QED BY <1>1, EngineAlways, PTL DEF EngineSpec, NeverOlder

\* The bounds of the counters.
EngineBounded ==
    inserts \in 0..MaxInserts /\ manual \in Nat /\ trouble \in Nat /\ Extras <= MaxExtras

LEMMA EngineBoundedInit ==
    ASSUME EngineInit
    PROVE  EngineBounded
BY RecomputeAssumption DEF EngineInit, EngineBounded, Extras

LEMMA EngineBoundedStep ==
    ASSUME EngineBounded, [EngineNext]_engineVars
    PROVE  EngineBounded'
<1>0. MaxInserts \in Nat /\ MaxExtras \in Nat /\ inserts \in Nat /\ manual \in Nat /\ trouble \in Nat
  BY RecomputeAssumption DEF EngineBounded
\* An insert is counted among the inserts, anything else out of the ordinary among the extras.
<1> SUFFICES \/ UNCHANGED counters
             \/ inserts < MaxInserts /\ inserts' = inserts + 1 /\ UNCHANGED <<manual, trouble>>
             \/ Extras < MaxExtras /\ manual' = manual + 1 /\ UNCHANGED <<inserts, trouble>>
             \/ Extras < MaxExtras /\ trouble' = trouble + 1 /\ UNCHANGED <<inserts, manual>>
  BY <1>0 DEF EngineBounded, Extras, counters
<1>1. CASE UNCHANGED engineVars
  BY <1>1 DEF engineVars, counters
<1>2. ASSUME NEW u \in Users, NEW n \in Nodes, Insert(u, n)
      PROVE  inserts < MaxInserts /\ inserts' = inserts + 1 /\ UNCHANGED <<manual, trouble>>
  BY <1>2 DEF Insert
<1>3. ASSUME NEW u \in Users, NEW j \in Jobs, RunNow(u, j)
      PROVE  Extras < MaxExtras /\ manual' = manual + 1 /\ UNCHANGED <<inserts, trouble>>
  BY <1>3 DEF RunNow
<1>4. ASSUME NEW w \in Workers, NEW j \in Jobs, StartJob(w, j)
      PROVE  UNCHANGED counters
  BY <1>4 DEF StartJob
<1>5. ASSUME NEW r \in Runners, RunStep(r) \/ EvaluationFails(r) \/ Fail(r) \/ Crash(r)
      PROVE  \/ UNCHANGED counters
             \/ Extras < MaxExtras /\ trouble' = trouble + 1 /\ UNCHANGED <<inserts, manual>>
  BY <1>5 DEF RunStep, ReadSource, Write, Enqueue, Finish, EvaluationFails, Fail, Crash, counters
<1> QED BY <1>1, <1>2, <1>3, <1>4, <1>5 DEF EngineNext

LEMMA EngineTypes ==
    ASSUME EngineInv, EngineBounded
    PROVE  EngineTypeOK
<1>1. \A r \in Runners : run[r] \in {Resting} \cup Runs
  BY InvParts
<1> QED BY <1>1, InvParts DEF EngineTypeOK, EngineBounded

------------------------------------------------------------------------------
(* Onboarding *)

Forms == [op : {"none", "patch", "complete"}, section : Sections \cup {"none"}, number : 0..MaxDrafts,
          payload : Drafts, slug : Slugs \cup {"none"}, draft : Drafts]
FormsTyped == /\ form \in [Applicants -> Forms]
              /\ \A a \in Applicants : form[a].op = "complete" => form[a].slug \in Slugs

\* Unless a patch was lost, the draft is what the patches make it, and so is
\* whatever a request has read of it.
DraftsAgree ==
    accepted.lost \/ /\ session.payload = accepted.draft
                     /\ \A a \in Applicants : form[a].payload = form[a].draft

\* Unless two completions overlapped, nobody is about to make a second organization.
OneCompletion ==
    accepted.twice \/ /\ \A o, p \in organizations : o = p
                      /\ organizations # {} => \A a \in Applicants : form[a].op # "complete"

\* The inductive invariant.
OnboardingInv ==
    /\ OnboardingTypeOK /\ FormsTyped
    /\ accepted \in [draft : Drafts, lost : BOOLEAN, twice : BOOLEAN]
    /\ DraftsAgree /\ OneCompletion /\ OrganizationFollowsDraft

LEMMA NoFormTyped == NoForm \in Forms
BY OnboardingAssumption DEF OnboardingAssumption, NoForm, Forms, Drafts

LEMMA OnboardingInvInit == OnboardingInit => OnboardingInv
<1> SUFFICES ASSUME OnboardingInit PROVE OnboardingInv
  OBVIOUS
<1>1. [s \in Sections |-> 0] \in Drafts /\ 0 \in 0..MaxDrafts
  BY OnboardingAssumption DEF OnboardingAssumption, Drafts
<1>2. FormsTyped
  BY NoFormTyped DEF OnboardingInit, FormsTyped, NoForm
<1>3. OnboardingTypeOK
  BY <1>1, <1>2 DEF OnboardingInit, OnboardingTypeOK, FormsTyped, Forms
<1>4. DraftsAgree
  BY DEF OnboardingInit, DraftsAgree, NoForm
<1>5. OneCompletion /\ OrganizationFollowsDraft
  BY DEF OnboardingInit, OneCompletion, OrganizationFollowsDraft
<1>6. accepted \in [draft : Drafts, lost : BOOLEAN, twice : BOOLEAN]
  BY <1>1 DEF OnboardingInit
<1> QED BY <1>2, <1>3, <1>4, <1>5, <1>6 DEF OnboardingInv

\* A request reads the session: what it holds agrees with it.
LEMMA ReadsKeeps ==
    ASSUME OnboardingInv, NEW a \in Applicants, NEW f \in Forms, Reads(a, f),
           f.op = "complete" => session.status # "completed" /\ f.slug \in Slugs
    PROVE  OnboardingInv'
<1> USE DEF OnboardingInv
<1> DEFINE g == [f EXCEPT !.number = requests + 1, !.payload = session.payload, !.draft = accepted.draft]
<1>1. UNCHANGED <<session, organizations, accepted>> /\ form' = [form EXCEPT ![a] = g]
      /\ requests < MaxDrafts /\ requests' = requests + 1
  BY DEF Reads
<1>2. requests + 1 \in 0..MaxDrafts
  BY <1>1, OnboardingAssumption DEF OnboardingAssumption, OnboardingTypeOK
<1>3. session.payload \in Drafts /\ accepted.draft \in Drafts
  BY DEF OnboardingTypeOK
<1>4. g \in Forms /\ g.op = f.op /\ g.slug = f.slug /\ g.payload = session.payload /\ g.draft = accepted.draft
  BY <1>2, <1>3 DEF Forms
<1> HIDE DEF g
<1>5. \A b \in Applicants : form'[b] = IF b = a THEN g ELSE form[b]
  BY <1>1 DEF FormsTyped
<1>6. FormsTyped'
  BY <1>1, <1>4, <1>5 DEF FormsTyped
<1>7. OnboardingTypeOK'
  BY <1>1, <1>2, <1>6 DEF OnboardingTypeOK, FormsTyped, Forms
<1>8. DraftsAgree'
  BY <1>1, <1>4, <1>5 DEF DraftsAgree
<1>9. OneCompletion'
  BY <1>1, <1>4, <1>5 DEF OneCompletion, OrganizationFollowsDraft
<1>10. OrganizationFollowsDraft'
  BY <1>1 DEF OrganizationFollowsDraft
<1> QED BY <1>1, <1>6, <1>7, <1>8, <1>9, <1>10

\* A request is over: nothing is held that was not before.
LEMMA FormDropped ==
    ASSUME FormsTyped, NEW a \in Applicants, form' = [form EXCEPT ![a] = NoForm]
    PROVE  /\ FormsTyped'
           /\ \A b \in Applicants : form'[b] = IF b = a THEN NoForm ELSE form[b]
<1>1. \A b \in Applicants : form'[b] = IF b = a THEN NoForm ELSE form[b]
  BY DEF FormsTyped
<1>2. NoForm.op # "complete"
  BY DEF NoForm
<1> QED BY <1>1, <1>2, NoFormTyped DEF FormsTyped

LEMMA PatchKeeps ==
    ASSUME OnboardingInv, NEW a \in Applicants, PatchDraft(a)
    PROVE  OnboardingInv'
<1> USE DEF OnboardingInv
<1> DEFINE f == form[a]
<1>1. f \in Forms /\ f.op = "patch" /\ form' = [form EXCEPT ![a] = NoForm]
      /\ UNCHANGED <<organizations, requests>>
  BY DEF PatchDraft, FormsTyped
<1>2. /\ session' = [session EXCEPT !.payload = Merged(f.payload, f.section, f.number), !.recent = TRUE]
      /\ accepted' = [accepted EXCEPT !.draft[f.section] = f.number,
                                      !.lost = @ \/ f.payload # session.payload]
  BY DEF PatchDraft
<1>3. /\ session \in [status : {"in_progress", "completed", "archived"}, payload : Drafts,
                      recent : BOOLEAN]
      /\ accepted \in [draft : Drafts, lost : BOOLEAN, twice : BOOLEAN]
  BY DEF OnboardingTypeOK
<1>4. Merged(f.payload, f.section, f.number) \in Drafts
  BY <1>1 DEF Merged, Forms, Drafts
<1>5. /\ session'.payload = [f.payload EXCEPT ![f.section] = f.number]
      /\ session'.status = session.status /\ session'.recent = TRUE
      /\ session' \in [status : {"in_progress", "completed", "archived"}, payload : Drafts,
                       recent : BOOLEAN]
  BY <1>2, <1>3, <1>4 DEF Merged
<1>6. [accepted.draft EXCEPT ![f.section] = f.number] \in Drafts
  BY <1>1, <1>3 DEF Forms, Drafts
<1>7. /\ accepted'.draft = [accepted.draft EXCEPT ![f.section] = f.number]
      /\ accepted'.twice = accepted.twice
      /\ accepted' \in [draft : Drafts, lost : BOOLEAN, twice : BOOLEAN]
  BY <1>2, <1>3, <1>6
<1>8. accepted'.lost = (accepted.lost \/ f.payload # session.payload)
  BY <1>2, <1>3
<1>9. FormsTyped' /\ \A b \in Applicants : form'[b] = IF b = a THEN NoForm ELSE form[b]
  BY <1>1, FormDropped
<1>10. OnboardingTypeOK'
  BY <1>1, <1>5, <1>7, <1>9 DEF OnboardingTypeOK, FormsTyped, Forms
<1>11. DraftsAgree'
  BY <1>5, <1>7, <1>8, <1>9 DEF DraftsAgree, NoForm
<1>12. OneCompletion'
  BY <1>1, <1>7, <1>9 DEF OneCompletion, NoForm
<1>13. OrganizationFollowsDraft'
  BY <1>1, <1>5, <1>7, <1>8 DEF OrganizationFollowsDraft
<1> QED BY <1>7, <1>9, <1>10, <1>11, <1>12, <1>13

LEMMA CompleteKeeps ==
    ASSUME OnboardingInv, NEW a \in Applicants, Complete(a)
    PROVE  OnboardingInv'
<1> USE DEF OnboardingInv
<1> DEFINE f == form[a]
           o == [slug |-> f.slug, payload |-> f.payload, draft |-> f.draft]
           overlapped == \E b \in Applicants \ {a} : form[b].op = "complete"
<1>1. f \in Forms /\ f.op = "complete" /\ form' = [form EXCEPT ![a] = NoForm] /\ UNCHANGED requests
  BY DEF Complete, FormsTyped
<1>2. FormsTyped' /\ \A b \in Applicants : form'[b] = IF b = a THEN NoForm ELSE form[b]
  BY <1>1, FormDropped
<1>3. /\ session \in [status : {"in_progress", "completed", "archived"}, payload : Drafts,
                      recent : BOOLEAN]
      /\ accepted \in [draft : Drafts, lost : BOOLEAN, twice : BOOLEAN]
  BY DEF OnboardingTypeOK
<1>4. CASE UNCHANGED <<session, organizations, accepted>>
  <2>1. OnboardingTypeOK'
    BY <1>1, <1>2, <1>4 DEF OnboardingTypeOK, FormsTyped, Forms
  <2>2. DraftsAgree' /\ OneCompletion' /\ OrganizationFollowsDraft'
    BY <1>2, <1>4 DEF DraftsAgree, OneCompletion, OrganizationFollowsDraft, NoForm
  <2> QED BY <1>2, <1>4, <2>1, <2>2
<1>5. CASE /\ organizations' = organizations \cup {o}
           /\ session' = [session EXCEPT !.status = "completed", !.recent = TRUE]
           /\ accepted' = [accepted EXCEPT !.twice = @ \/ overlapped]
           /\ ~\E p \in organizations : p.slug = f.slug
  <2>1. /\ session'.status = "completed" /\ session'.payload = session.payload
        /\ session' \in [status : {"in_progress", "completed", "archived"}, payload : Drafts,
                         recent : BOOLEAN]
    BY <1>3, <1>5
  <2>2. /\ accepted'.draft = accepted.draft /\ accepted'.lost = accepted.lost
        /\ accepted'.twice = (accepted.twice \/ overlapped)
        /\ accepted' \in [draft : Drafts, lost : BOOLEAN, twice : BOOLEAN]
    BY <1>3, <1>5
  <2>3. f.payload \in Drafts /\ f.draft \in Drafts /\ o.payload = f.payload /\ o.draft = f.draft
    BY <1>1 DEF Forms
  <2>4. f.slug \in Slugs
    BY <1>1 DEF FormsTyped
  <2>5. OnboardingTypeOK'
    BY <1>1, <1>2, <1>5, <2>1, <2>2, <2>3, <2>4 DEF OnboardingTypeOK, FormsTyped, Forms
  <2>6. DraftsAgree'
    BY <1>2, <2>1, <2>2 DEF DraftsAgree, NoForm
  <2>7. accepted'.twice \/ /\ organizations = {} /\ \A b \in Applicants : form'[b].op # "complete"
    BY <1>1, <1>2, <2>2 DEF OneCompletion, NoForm
  <2>8. OneCompletion'
    BY <1>5, <2>7 DEF OneCompletion
  <2>9. accepted'.lost \/ o.payload = o.draft
    BY <2>2, <2>3 DEF DraftsAgree
  <2>10. OrganizationFollowsDraft'
    BY <1>5, <2>1, <2>2, <2>8, <2>9 DEF OrganizationFollowsDraft, OneCompletion
  <2> QED BY <1>2, <2>2, <2>5, <2>6, <2>8, <2>10
<1> QED BY <1>4, <1>5 DEF Complete

LEMMA OnboardingInvStep == OnboardingInv /\ [OnboardingNext]_onboardingVars => OnboardingInv'
<1> SUFFICES ASSUME OnboardingInv, [OnboardingNext]_onboardingVars PROVE OnboardingInv'
  OBVIOUS
<1>1. ASSUME NEW a \in Applicants, NEW s \in Sections, ReadForPatch(a, s) PROVE OnboardingInv'
  <2>1. [NoForm EXCEPT !.op = "patch", !.section = s] \in Forms
        /\ [NoForm EXCEPT !.op = "patch", !.section = s].op # "complete"
    BY NoFormTyped DEF Forms
  <2> QED BY <1>1, <2>1, ReadsKeeps DEF ReadForPatch
<1>2. ASSUME NEW a \in Applicants, NEW slug \in Slugs, ReadForComplete(a, slug) PROVE OnboardingInv'
  <2>1. [NoForm EXCEPT !.op = "complete", !.slug = slug] \in Forms
        /\ [NoForm EXCEPT !.op = "complete", !.slug = slug].slug = slug
    BY NoFormTyped DEF Forms
  <2> QED BY <1>2, <2>1, ReadsKeeps DEF ReadForComplete, CanComplete
<1>3. ASSUME NEW a \in Applicants, DropForm(a) PROVE OnboardingInv'
  <2>1. FormsTyped' /\ \A b \in Applicants : form'[b] = IF b = a THEN NoForm ELSE form[b]
    BY <1>3, FormDropped DEF DropForm, OnboardingInv
  <2>2. UNCHANGED <<session, organizations, requests, accepted>>
    BY <1>3 DEF DropForm
  <2>3. OnboardingTypeOK'
    BY <2>1, <2>2 DEF OnboardingInv, OnboardingTypeOK, FormsTyped, Forms
  <2>4. DraftsAgree' /\ OneCompletion' /\ OrganizationFollowsDraft'
    BY <2>1, <2>2 DEF OnboardingInv, DraftsAgree, OneCompletion, OrganizationFollowsDraft, NoForm
  <2> QED BY <2>1, <2>2, <2>3, <2>4 DEF OnboardingInv
<1>4. CASE GrowsStale \/ CleanupStale
  <2>1. UNCHANGED <<form, organizations, requests, accepted>>
    BY <1>4 DEF GrowsStale, CleanupStale
  <2>2. /\ session \in [status : {"in_progress", "completed", "archived"}, payload : Drafts,
                        recent : BOOLEAN]
    BY DEF OnboardingInv, OnboardingTypeOK
  <2>3. /\ session' \in [status : {"in_progress", "completed", "archived"}, payload : Drafts,
                         recent : BOOLEAN]
        /\ session'.payload = session.payload
        /\ session.status = "completed" => session'.status = "completed"
    BY <1>4, <2>2 DEF GrowsStale, CleanupStale
  <2>4. OnboardingTypeOK'
    BY <2>1, <2>3 DEF OnboardingInv, OnboardingTypeOK
  <2>5. FormsTyped' /\ DraftsAgree' /\ OneCompletion' /\ OrganizationFollowsDraft'
    BY <2>1, <2>3 DEF OnboardingInv, FormsTyped, DraftsAgree, OneCompletion, OrganizationFollowsDraft
  <2> QED BY <2>1, <2>4, <2>5 DEF OnboardingInv
<1>5. CASE UNCHANGED onboardingVars
  BY <1>5 DEF onboardingVars, OnboardingInv, OnboardingTypeOK, FormsTyped, DraftsAgree, OneCompletion,
              OrganizationFollowsDraft
<1> QED BY <1>1, <1>2, <1>3, <1>4, <1>5, PatchKeeps, CompleteKeeps DEF OnboardingNext

\* Onboarding makes what was asked for, once: for any number of requests in
\* progress the session makes a second organization only if completions overlap,
\* and one that misses a patch only if patches do.
THEOREM OnboardingMakesDraft == OnboardingSpec => []OrganizationFollowsDraft
<1>1. OnboardingInv => OrganizationFollowsDraft
  BY DEF OnboardingInv
<1> QED BY <1>1, OnboardingInvInit, OnboardingInvStep, PTL DEF OnboardingSpec

------------------------------------------------------------------------------
(* ScheduledReports *)

AtWork == [op : {"create", "update", "remove"}, stage : {"find", "drop", "add", "store"},
           cron : Crons, active : BOOLEAN, key : Crons \cup {NoCron}]
Handlings == {h \in AtWork : /\ h.op = "create" => h.stage = "add"
                             /\ h.op = "remove" => h.stage # "add"}
ReportShapes == [op : {"none", "create", "update", "remove"}, stage : {"none", "find", "drop", "add", "store"},
                 cron : Crons \cup {NoCron}, active : BOOLEAN, key : Crons \cup {NoCron}]
Reports == [row : {"unborn", "stored", "deleted"}, active : BOOLEAN, cron : Crons \cup {NoCron}]
Renderings == {r \in [stage : {"none", "render", "email", "close", "stamp", "failed"}, run : 0..MaxRuns] :
                  r.stage = "none" => r.run = 0}
RunRows == [status : {"none", "RUNNING", "SUCCEEDED", "FAILED"}, emailed : BOOLEAN, cut : BOOLEAN]

\* The rows and requests, and the worker's side.
ScheduleTyped ==
    /\ report \in Reports /\ registered \subseteq Crons /\ unsettled \in BOOLEAN
    /\ handling \in [Managers -> Handlings \cup {NotHandling}]
RunsTyped ==
    /\ due \in Nat /\ rendering \in [Renderers -> Renderings] /\ reportRun \in [ReportRuns -> RunRows]
    /\ spent \in [requests : Nat, due : Nat, faults : Nat]

\* What a request has done to the repeatable jobs by the time it reaches a stage.
Reached(h) ==
    /\ report.row = "stored"
    /\ h.stage = "find" => registered = WantedCrons
    /\ h.stage = "drop" => registered = {h.key}
    /\ h.stage = "add" => /\ registered = {} /\ h.active
                          /\ h.op = "create" => report.active /\ report.cron = h.cron
    /\ h.stage = "store" => registered = IF h.op = "update" /\ h.active THEN {h.cron} ELSE {}

\* Unless requests overlapped or one stopped halfway, one at a time is under way,
\* and queue and row agree when none is.
ScheduleHolds ==
    unsettled \/ /\ \A m, n \in Managers : handling[m] # NotHandling /\ handling[n] # NotHandling => m = n
                 /\ \A m \in Managers : handling[m] # NotHandling => Reached(handling[m])
                 /\ Settled => registered = WantedCrons

ScheduleInv == ScheduleTyped /\ ScheduleHolds

\* The runs are numbered without gaps, and there are enough of them.
Opened == {i \in ReportRuns : reportRun[i].status # "none"}
RunsCounted ==
    /\ NextRun \in Nat \ {0} /\ Opened = 1..(NextRun - 1)
    /\ NextRun - 1 + due <= spent.due + spent.faults
    /\ spent.due <= MaxRuns - MaxFaults /\ spent.faults <= MaxFaults

\* A run that a worker is busy with was opened, is sent before it is closed, and closed
\* before the report is stamped; one that is open is somebody's, unless it was cut.
RunsHold ==
    /\ \A w \in Renderers : rendering[w].stage # "none" =>
           /\ rendering[w].run \in Opened
           /\ rendering[w].stage \in {"close", "stamp"} => reportRun[rendering[w].run].emailed
           /\ rendering[w].stage = "stamp" => reportRun[rendering[w].run].status # "RUNNING"
    /\ \A i \in ReportRuns :
           /\ reportRun[i].status = "SUCCEEDED" => reportRun[i].emailed
           /\ reportRun[i].status = "RUNNING" =>
                  reportRun[i].cut \/ \E w \in Renderers : rendering[w].stage # "none" /\ rendering[w].run = i

RunsInv == RunsTyped /\ RunsCounted /\ RunsHold

LEMMA NotHandlingApart == NotHandling \notin Handlings /\ NotHandling.stage = "none"
<1>1. NotHandling.op = "none" /\ NotHandling.stage = "none"
  BY DEF NotHandling
<1>2. \A h \in Handlings : h.op # "none"
  BY DEF Handlings, AtWork
<1> QED BY <1>1, <1>2

\* A request takes a stage.
LEMMA Shaped ==
    /\ NotHandling \in ReportShapes
    /\ \A h \in ReportShapes : h.op # "none" /\ h.stage # "none" /\ h.cron \in Crons => h \in AtWork
<1>1. NotHandling \in ReportShapes
  BY DEF NotHandling, ReportShapes
<1>2. \A h \in ReportShapes : h.op # "none" /\ h.stage # "none" /\ h.cron \in Crons => h \in AtWork
  BY DEF ReportShapes, AtWork
<1> QED BY <1>1, <1>2

\* A request that becomes h leaves those of the others.
LEMMA HandlingStep ==
    ASSUME ScheduleTyped, NEW m \in Managers, NEW h \in Handlings \cup {NotHandling},
           handling' = [handling EXCEPT ![m] = h]
    PROVE  /\ handling' \in [Managers -> Handlings \cup {NotHandling}]
           /\ \A n \in Managers : handling'[n] = IF n = m THEN h ELSE handling[n]
BY DEF ScheduleTyped

\* While requests do not overlap, the one that goes on decides.
LEMMA OneHandles ==
    ASSUME ScheduleInv, NEW m \in Managers, NEW h \in Handlings \cup {NotHandling},
           handling' = [handling EXCEPT ![m] = h],
           report' \in Reports, registered' \subseteq Crons, unsettled' \in BOOLEAN,
           ~unsettled' => /\ ~unsettled
                          /\ \A n \in Managers \ {m} : handling[n] = NotHandling
                          /\ h # NotHandling => Reached(h)'
                          /\ h = NotHandling => (registered = WantedCrons)'
    PROVE  ScheduleInv'
<1>1. handling' \in [Managers -> Handlings \cup {NotHandling}]
      /\ \A n \in Managers : handling'[n] = IF n = m THEN h ELSE handling[n]
  BY HandlingStep DEF ScheduleInv
<1>2. ScheduleTyped'
  BY <1>1 DEF ScheduleTyped
<1>3. ScheduleHolds'
  <2> SUFFICES ASSUME ~unsettled'
               PROVE  /\ \A k, n \in Managers : handling'[k] # NotHandling /\ handling'[n] # NotHandling => k = n
                      /\ \A n \in Managers : handling'[n] # NotHandling => Reached(handling[n])'
                      /\ Settled' => (registered = WantedCrons)'
    BY DEF ScheduleHolds
  <2>1. \A n \in Managers : handling'[n] # NotHandling => n = m
    BY <1>1
  <2>2. \A n \in Managers : handling'[n] # NotHandling => Reached(handling[n])'
    BY <1>1, <2>1
  <2>3. Settled' => h = NotHandling
    BY <1>1 DEF Settled
  <2> QED BY <2>1, <2>2, <2>3
<1> QED BY <1>2, <1>3 DEF ScheduleInv

\* The others, while requests do not overlap.
LEMMA Alone ==
    ASSUME ScheduleInv, ~unsettled, NEW m \in Managers, handling[m] # NotHandling
    PROVE  /\ \A n \in Managers \ {m} : handling[n] = NotHandling
           /\ Reached(handling[m])
BY DEF ScheduleInv, ScheduleHolds

\* A request begins.
LEMMA HandlesKeeps ==
    ASSUME ScheduleInv, NEW m \in Managers, NEW h \in Handlings, Handles(m, h),
           report' \in Reports, UNCHANGED registered,
           ~unsettled /\ Settled => Reached(h)'
    PROVE  ScheduleInv'
<1>1. handling[m] = NotHandling /\ handling' = [handling EXCEPT ![m] = h]
      /\ unsettled' = (unsettled \/ \E o \in Managers : handling[o] # NotHandling)
  BY DEF Handles
<1>2. unsettled' \in BOOLEAN /\ registered' \subseteq Crons
  BY <1>1 DEF ScheduleInv, ScheduleTyped
<1>3. ~unsettled' => ~unsettled /\ Settled
  BY <1>1 DEF Settled
<1>4. h # NotHandling
  BY NotHandlingApart
<1> QED BY <1>1, <1>2, <1>3, <1>4, OneHandles DEF Settled

LEMMA CreateReportKeeps ==
    ASSUME ScheduleInv, NEW m \in Managers, NEW cron \in Crons, CreateReport(m, cron)
    PROVE  ScheduleInv'
<1> DEFINE h == [NotHandling EXCEPT !.op = "create", !.stage = "add", !.cron = cron, !.active = TRUE]
<1>1. h \in ReportShapes /\ h.op = "create" /\ h.stage = "add" /\ h.active /\ h.cron = cron
  BY Shaped DEF ReportShapes
<1>2. h \in Handlings /\ h.stage = "add" /\ h.active /\ h.cron = cron
  BY <1>1, Shaped DEF Handlings
<1>3. /\ report.row = "unborn" /\ Handles(m, h) /\ UNCHANGED registered
      /\ report' = [row |-> "stored", active |-> TRUE, cron |-> cron]
  BY DEF CreateReport
<1>4. report' \in Reports
  BY <1>3 DEF Reports
<1>5. ~unsettled /\ Settled => registered = {}
  BY <1>3 DEF ScheduleInv, ScheduleHolds, WantedCrons
<1> HIDE DEF h
<1>6. ~unsettled /\ Settled => Reached(h)'
  BY <1>2, <1>3, <1>5 DEF Reached
<1> QED BY <1>2, <1>3, <1>4, <1>6, HandlesKeeps

LEMMA ReadReportKeeps ==
    ASSUME ScheduleInv, NEW m \in Managers, NEW op \in {"update", "remove"}, NEW cron \in Crons,
           NEW active \in BOOLEAN, ReadReport(m, op, cron, active)
    PROVE  ScheduleInv'
<1> DEFINE stage == IF op = "remove" \/ MovesJob(cron, active) THEN "find" ELSE "store"
           h == [NotHandling EXCEPT !.op = op, !.cron = cron, !.active = active, !.stage = stage]
<1>1. stage \in {"find", "store"} /\ (stage = "store" => op = "update" /\ ~MovesJob(cron, active))
  OBVIOUS
<1>3. report.row = "stored" /\ Handles(m, h) /\ UNCHANGED <<report, registered>>
  BY DEF ReadReport
<1>4. PICK g \in Handlings : Handles(m, g) /\ g.stage = stage /\ g.op = op /\ g.active = active /\ g.cron = cron
  <2> HIDE DEF stage
  <2>1. h \in ReportShapes /\ h.stage = stage /\ h.op = op /\ h.active = active /\ h.cron = cron
    BY <1>1, Shaped DEF ReportShapes
  <2>2. h \in Handlings
    BY <1>1, <2>1, Shaped DEF Handlings
  <2> QED BY <1>3, <2>1, <2>2
<1> HIDE DEF stage, h
<1>5. ~unsettled /\ Settled => registered = WantedCrons
  BY DEF ScheduleInv, ScheduleHolds
<1>6. ~unsettled /\ Settled => Reached(g)'
  <2>1. UNCHANGED WantedCrons
    BY <1>3 DEF WantedCrons
  <2>2. CASE g.stage = "find"
    BY <1>3, <1>5, <2>1, <2>2 DEF Reached
  <2>3. CASE g.stage = "store"
    BY <1>1, <1>3, <1>4, <1>5, <2>3 DEF Reached, WantedCrons, MovesJob
  <2> QED BY <1>1, <1>4, <2>2, <2>3
<1> QED BY <1>3, <1>4, <1>6, HandlesKeeps DEF ScheduleInv, ScheduleTyped

\* A request that is under way.
LEMMA Handling ==
    ASSUME ScheduleInv, NEW m \in Managers, handling[m].stage # "none"
    PROVE  /\ handling[m] \in Handlings /\ handling[m] # NotHandling
           /\ handling[m] \in AtWork
BY NotHandlingApart DEF ScheduleInv, ScheduleTyped, Handlings

\* A request goes on to another stage.
LEMMA Proceeded ==
    ASSUME ScheduleInv, NEW m \in Managers, NEW h \in AtWork, h = handling[m], h.op # "create",
           NEW stage \in {"add", "store"}, h.op = "remove" => stage # "add", Proceeds(m, stage)
    PROVE  \E q \in Handlings : /\ handling' = [handling EXCEPT ![m] = q]
                                /\ q.stage = stage /\ q.op = h.op /\ q.cron = h.cron /\ q.active = h.active
<1> DEFINE q == [h EXCEPT !.stage = stage]
<1>1. handling' = [handling EXCEPT ![m] = q]
  BY DEF Proceeds, ScheduleInv, ScheduleTyped
<1>2. q \in AtWork /\ q.stage = stage /\ q.op = h.op /\ q.cron = h.cron /\ q.active = h.active
  BY DEF AtWork
<1>3. q \in Handlings
  BY <1>2 DEF Handlings
<1> QED BY <1>1, <1>2, <1>3

LEMMA AfterRemovalStage ==
    \A h \in AtWork : AfterRemoval(h) \in {"add", "store"} /\ (h.op = "remove" => AfterRemoval(h) # "add")
BY DEF AfterRemoval

LEMMA FindJobKeeps ==
    ASSUME ScheduleInv, NEW m \in Managers, FindJob(m)
    PROVE  ScheduleInv'
<1>1. PICK h \in AtWork : h = handling[m] /\ h.stage = "find" /\ h.op \in {"update", "remove"}
  BY Handling DEF FindJob, Handlings, AtWork
<1>2. UNCHANGED <<report, registered, unsettled>>
  BY DEF FindJob
<1>3. ~unsettled => /\ \A n \in Managers \ {m} : handling[n] = NotHandling
                    /\ report.row = "stored" /\ registered = WantedCrons
  <2>1. handling[m] # NotHandling
    BY <1>1, Handling
  <2> QED BY <1>1, <2>1, Alone DEF Reached
<1>4. report' \in Reports /\ registered' \subseteq Crons /\ unsettled' \in BOOLEAN
  BY <1>2 DEF ScheduleInv, ScheduleTyped
<1>5. ASSUME NEW key \in registered, handling' = [handling EXCEPT ![m].stage = "drop", ![m].key = key]
      PROVE  ScheduleInv'
  <2> DEFINE q == [h EXCEPT !.stage = "drop", !.key = key]
  <2>1. handling' = [handling EXCEPT ![m] = q]
    BY <1>1, <1>5 DEF ScheduleInv, ScheduleTyped, AtWork
  <2>2. q \in Handlings /\ q.stage = "drop" /\ q.key = key
    BY <1>1 DEF Handlings, AtWork, ScheduleInv, ScheduleTyped
  <2>3. ~unsettled => registered = {key}
    BY <1>3 DEF WantedCrons
  <2> HIDE DEF q
  <2>4. ~unsettled => Reached(q)'
    BY <1>2, <1>3, <2>2, <2>3 DEF Reached
  <2>5. q # NotHandling
    BY <2>2, NotHandlingApart
  <2> QED BY <1>2, <1>3, <1>4, <2>1, <2>2, <2>4, <2>5, OneHandles
<1>6. ASSUME registered = {}, Proceeds(m, AfterRemoval(h))
      PROVE  ScheduleInv'
  <2>1. PICK q \in Handlings : /\ handling' = [handling EXCEPT ![m] = q]
                               /\ q.stage = AfterRemoval(h) /\ q.op = h.op /\ q.active = h.active
    <3>1. AfterRemoval(h) \in {"add", "store"} /\ (h.op = "remove" => AfterRemoval(h) # "add")
      BY AfterRemovalStage
    <3> QED BY <1>1, <1>6, <3>1, Proceeded
  <2>2. ~unsettled => Reached(q)'
    BY <1>1, <1>2, <1>3, <1>6, <2>1 DEF Reached, AfterRemoval
  <2>3. q # NotHandling
    BY <2>1, NotHandlingApart
  <2> QED BY <1>2, <1>3, <1>4, <2>1, <2>2, <2>3, OneHandles
<1> QED BY <1>1, <1>5, <1>6 DEF FindJob

LEMMA DropJobKeeps ==
    ASSUME ScheduleInv, NEW m \in Managers, DropJob(m)
    PROVE  ScheduleInv'
<1>1. PICK h \in AtWork : h = handling[m] /\ h.stage = "drop" /\ h.op \in {"update", "remove"}
  BY Handling DEF DropJob, Handlings, AtWork
<1>2. UNCHANGED <<report, unsettled>> /\ registered' = registered \ {h.key} /\ Proceeds(m, AfterRemoval(h))
  BY <1>1 DEF DropJob
<1>3. ~unsettled => /\ \A n \in Managers \ {m} : handling[n] = NotHandling
                    /\ report.row = "stored" /\ registered = {h.key}
  <2>1. handling[m] # NotHandling
    BY <1>1, Handling
  <2> QED BY <1>1, <2>1, Alone DEF Reached
<1>4. report' \in Reports /\ registered' \subseteq Crons /\ unsettled' \in BOOLEAN
  BY <1>2 DEF ScheduleInv, ScheduleTyped
<1>5. PICK q \in Handlings : /\ handling' = [handling EXCEPT ![m] = q]
                             /\ q.stage = AfterRemoval(h) /\ q.op = h.op /\ q.active = h.active
  <2>1. AfterRemoval(h) \in {"add", "store"} /\ (h.op = "remove" => AfterRemoval(h) # "add")
    BY AfterRemovalStage
  <2> QED BY <1>1, <1>2, <2>1, Proceeded
<1>6. ~unsettled => Reached(q)'
  BY <1>1, <1>2, <1>3, <1>5 DEF Reached, AfterRemoval
<1>7. q # NotHandling
  BY <1>5, NotHandlingApart
<1> QED BY <1>2, <1>3, <1>4, <1>5, <1>6, <1>7, OneHandles

LEMMA AddRepeatableKeeps ==
    ASSUME ScheduleInv, NEW m \in Managers, AddRepeatable(m)
    PROVE  ScheduleInv'
<1>1. PICK h \in AtWork : h = handling[m] /\ h.stage = "add" /\ h.op # "remove"
  BY Handling DEF AddRepeatable, Handlings
<1>2. UNCHANGED <<report, unsettled>> /\ registered' = registered \cup {h.cron}
  BY <1>1 DEF AddRepeatable
<1>3. ~unsettled => /\ \A n \in Managers \ {m} : handling[n] = NotHandling
                    /\ report.row = "stored" /\ registered = {} /\ h.active
                    /\ h.op = "create" => report.active /\ report.cron = h.cron
  <2>1. handling[m] # NotHandling
    BY <1>1, Handling
  <2> QED BY <1>1, <2>1, Alone DEF Reached
<1>4. report' \in Reports /\ registered' \subseteq Crons /\ unsettled' \in BOOLEAN
  BY <1>2 DEF ScheduleInv, ScheduleTyped, AtWork
<1>5. CASE h.op = "create"
  <2>1. handling' = [handling EXCEPT ![m] = NotHandling]
    BY <1>1, <1>5 DEF AddRepeatable, Handled
  <2>2. ~unsettled' => (registered = WantedCrons)'
    BY <1>2, <1>3, <1>5 DEF WantedCrons
  <2> QED BY <1>2, <1>3, <1>4, <2>1, <2>2, OneHandles
<1>6. CASE h.op # "create"
  <2>1. Proceeds(m, "store")
    BY <1>1, <1>6 DEF AddRepeatable
  <2>2. PICK q \in Handlings : /\ handling' = [handling EXCEPT ![m] = q] /\ q.stage = "store"
                               /\ q.op = h.op /\ q.active = h.active /\ q.cron = h.cron
    BY <1>1, <1>6, <2>1, Proceeded
  <2>3. h.op = "update"
    BY <1>1, <1>6 DEF AtWork
  <2>4. ~unsettled => Reached(q)'
    BY <1>1, <1>2, <1>3, <2>2, <2>3 DEF Reached
  <2>5. q # NotHandling
    BY <2>2, NotHandlingApart
  <2> QED BY <1>2, <1>3, <1>4, <2>2, <2>4, <2>5, OneHandles
<1> QED BY <1>5, <1>6

LEMMA StoreReportKeeps ==
    ASSUME ScheduleInv, NEW m \in Managers, StoreReport(m)
    PROVE  ScheduleInv'
<1>1. PICK h \in AtWork : h = handling[m] /\ h.stage = "store" /\ h.op \in {"update", "remove"}
  BY Handling DEF StoreReport, Handlings, AtWork
<1>2. /\ UNCHANGED <<registered, unsettled>> /\ handling' = [handling EXCEPT ![m] = NotHandling]
      /\ report' = IF report.row # "stored" THEN report
                   ELSE IF h.op = "remove" THEN [report EXCEPT !.row = "deleted"]
                   ELSE [report EXCEPT !.active = h.active, !.cron = h.cron]
  BY <1>1 DEF StoreReport, Handled
<1>3. ~unsettled => /\ \A n \in Managers \ {m} : handling[n] = NotHandling
                    /\ report.row = "stored"
                    /\ registered = IF h.op = "update" /\ h.active THEN {h.cron} ELSE {}
  <2>1. handling[m] # NotHandling
    BY <1>1, Handling
  <2> QED BY <1>1, <2>1, Alone DEF Reached
<1>4. /\ report \in Reports /\ registered \subseteq Crons /\ unsettled \in BOOLEAN
      /\ h.active \in BOOLEAN /\ h.cron \in Crons
  BY DEF ScheduleInv, ScheduleTyped, AtWork
<1>5. CASE report.row # "stored"
  <2>1. report' = report /\ unsettled
    BY <1>2, <1>3, <1>4, <1>5
  <2> QED BY <1>2, <1>4, <2>1, OneHandles
<1>6. CASE report.row = "stored" /\ h.op = "remove"
  <2>1. report' = [report EXCEPT !.row = "deleted"]
    BY <1>2, <1>6
  <2>2. report' \in Reports /\ report'.row = "deleted"
    BY <1>4, <2>1 DEF Reports
  <2>3. ~unsettled' => (registered = WantedCrons)'
    BY <1>2, <1>3, <1>6, <2>2 DEF WantedCrons
  <2> QED BY <1>2, <1>3, <1>4, <2>2, <2>3, OneHandles
<1>7. CASE report.row = "stored" /\ h.op = "update"
  <2>1. report' = [report EXCEPT !.active = h.active, !.cron = h.cron]
    BY <1>2, <1>7
  <2>2. report' \in Reports /\ report'.row = "stored" /\ report'.active = h.active /\ report'.cron = h.cron
    BY <1>4, <1>7, <2>1 DEF Reports
  <2>3. ~unsettled' => (registered = WantedCrons)'
    BY <1>2, <1>3, <1>7, <2>2 DEF WantedCrons
  <2> QED BY <1>2, <1>3, <1>4, <2>2, <2>3, OneHandles
<1> QED BY <1>1, <1>5, <1>6, <1>7

LEMMA StopHandlingKeeps ==
    ASSUME ScheduleInv, NEW m \in Managers, StopHandling(m)
    PROVE  ScheduleInv'
<1>1. /\ handling[m] # NotHandling /\ UNCHANGED <<report, registered>>
      /\ handling' = [handling EXCEPT ![m] = NotHandling]
      /\ unsettled' = (unsettled \/ handling[m].stage # "find")
  BY DEF StopHandling, Handled
<1>2. report' \in Reports /\ registered' \subseteq Crons /\ unsettled' \in BOOLEAN
  BY <1>1 DEF ScheduleInv, ScheduleTyped
<1>3. ~unsettled' => /\ ~unsettled /\ \A n \in Managers \ {m} : handling[n] = NotHandling
                     /\ registered = WantedCrons
  BY <1>1, Alone DEF Reached
<1>4. ~unsettled' => (registered = WantedCrons)'
  BY <1>1, <1>3 DEF WantedCrons
<1> QED BY <1>1, <1>2, <1>3, <1>4, OneHandles

\* The worker's steps leave row, queue and requests.
LEMMA ScheduleKept ==
    ASSUME ScheduleInv, UNCHANGED <<report, registered, handling, unsettled>>
    PROVE  ScheduleInv'
BY DEF ScheduleInv, ScheduleTyped, ScheduleHolds, Reached, WantedCrons, Settled

LEMMA ScheduleInvInit == ReportsInit => ScheduleInv
<1> SUFFICES ASSUME ReportsInit PROVE ScheduleInv
  OBVIOUS
<1>1. ScheduleTyped
  BY DEF ReportsInit, ScheduleTyped, Reports
<1>2. registered = {} /\ report.row = "unborn" /\ \A m \in Managers : handling[m] = NotHandling
  BY DEF ReportsInit
<1>3. ScheduleHolds
  BY <1>2 DEF ScheduleHolds, WantedCrons
<1> QED BY <1>1, <1>3 DEF ScheduleInv

LEMMA ScheduleInvStep == ScheduleInv /\ [ReportsNext]_reportVars => ScheduleInv'
<1> SUFFICES ASSUME ScheduleInv, [ReportsNext]_reportVars PROVE ScheduleInv'
  OBVIOUS
<1>1. CASE FallsDue \/ \E w \in Renderers : \/ StartRun(w) \/ RenderStep(w) \/ StampReport(w)
                                            \/ StepThrows(w) \/ MarkFailed(w) \/ CutRun(w)
  BY <1>1, ScheduleKept DEF FallsDue, StartRun, RenderStep, StampReport, StepThrows, MarkFailed, CutRun
<1>2. CASE UNCHANGED reportVars
  BY <1>2, ScheduleKept DEF reportVars
<1> QED BY <1>1, <1>2, CreateReportKeeps, ReadReportKeeps, FindJobKeeps, DropJobKeeps, AddRepeatableKeeps,
           StoreReportKeeps, StopHandlingKeeps DEF ReportsNext
------------------------------------------------------------------------------

LEMMA NextRunOpens == NextRun = Cardinality(Opened) + 1
BY DEF NextRun, Opened

LEMMA RunsInvInit == ReportsInit => RunsInv
<1> SUFFICES ASSUME ReportsInit PROVE RunsInv
  OBVIOUS
<1>1. RunsTyped
  BY ScheduledReportsAssumption
  DEF ScheduledReportsAssumption, ReportsInit, RunsTyped, Renderings, RunRows, NotRendering
<1>2. Opened = {}
  BY DEF ReportsInit, Opened
<1>3. NextRun = 1 /\ 1..0 = {}
  BY <1>2, NextRunOpens, FS_EmptySet
<1>4. RunsCounted
  BY <1>2, <1>3, ScheduledReportsAssumption DEF ScheduledReportsAssumption, ReportsInit, RunsCounted
<1>5. RunsHold
  BY DEF ReportsInit, RunsHold, NotRendering
<1> QED BY <1>1, <1>4, <1>5 DEF RunsInv

\* What is due is paid for: by a job that fell due or by a fault.
Paid == /\ due' \in Nat /\ spent' \in [requests : Nat, due : Nat, faults : Nat]
        /\ due' + spent.due + spent.faults <= due + spent'.due + spent'.faults
        /\ spent'.due <= MaxRuns - MaxFaults /\ spent'.faults <= MaxFaults

\* A fault is paid for.
LEMMA FaultPays ==
    ASSUME RunsInv, Faults, due' \in {due, due + 1}
    PROVE  Paid
<1>1. spent \in [requests : Nat, due : Nat, faults : Nat] /\ due \in Nat /\ spent.due <= MaxRuns - MaxFaults
  BY DEF RunsInv, RunsTyped, RunsCounted
<1>2. /\ spent'.faults = spent.faults + 1 /\ spent'.due = spent.due /\ spent.faults < MaxFaults
      /\ spent' \in [requests : Nat, due : Nat, faults : Nat]
  BY <1>1 DEF Faults
<1>3. MaxRuns \in Nat /\ MaxFaults \in Nat
  BY ScheduledReportsAssumption DEF ScheduledReportsAssumption
<1> QED BY <1>1, <1>2, <1>3 DEF Paid

\* The runs are the same ones.
LEMMA CountKeeps ==
    ASSUME RunsInv, Paid, Opened' = Opened
    PROVE  RunsCounted'
<1>1. NextRun' = NextRun
  <2>1. NextRun' = Cardinality(Opened') + 1
    BY DEF NextRun, Opened
  <2> QED BY <2>1, NextRunOpens
<1>2. due \in Nat /\ spent.due \in Nat /\ spent.faults \in Nat /\ spent'.due \in Nat /\ spent'.faults \in Nat
  BY DEF Paid, RunsInv, RunsTyped
<1>3. /\ NextRun \in Nat \ {0} /\ Opened = 1..(NextRun - 1) /\ NextRun - 1 + due <= spent.due + spent.faults
  BY DEF RunsInv, RunsCounted
<1>4. NextRun - 1 + due' <= spent'.due + spent'.faults
  BY <1>2, <1>3 DEF Paid
<1> QED BY <1>1, <1>3, <1>4 DEF RunsCounted, Paid

\* The services' steps and the clock leave the runs.
LEMMA RunsKept ==
    ASSUME RunsInv, Paid, UNCHANGED <<rendering, reportRun>>
    PROVE  RunsInv'
<1>1. Opened' = Opened
  BY DEF Opened
<1>2. RunsTyped'
  BY DEF RunsInv, RunsTyped, Paid
<1>3. RunsHold'
  BY <1>1 DEF RunsInv, RunsHold
<1> QED BY <1>1, <1>2, <1>3, CountKeeps DEF RunsInv

\* A worker's step on the run it is busy with.
LEMMA WorkerKeeps ==
    ASSUME RunsInv, Paid, NEW w \in Renderers, rendering[w].stage # "none",
           NEW r \in Renderings, rendering' = [rendering EXCEPT ![w] = r],
           NEW i \in ReportRuns, i = rendering[w].run,
           NEW e \in RunRows, reportRun' = [reportRun EXCEPT ![i] = e],
           e.status # "none", reportRun[i].emailed => e.emailed, e.status = "SUCCEEDED" => e.emailed,
           e.status = "RUNNING" => reportRun[i].status = "RUNNING",
           e.status = "RUNNING" => e.cut \/ r.stage # "none",
           r.stage # "none" => r.run = i,
           r.stage \in {"close", "stamp"} => e.emailed,
           r.stage = "stamp" => e.status # "RUNNING"
    PROVE  RunsInv'
<1>1. reportRun' \in [ReportRuns -> RunRows]
      /\ \A j \in ReportRuns : reportRun'[j] = IF j = i THEN e ELSE reportRun[j]
  BY DEF RunsInv, RunsTyped
<1>2. rendering' \in [Renderers -> Renderings]
      /\ \A v \in Renderers : rendering'[v] = IF v = w THEN r ELSE rendering[v]
  BY DEF RunsInv, RunsTyped
<1>3. i \in Opened /\ Opened \subseteq ReportRuns
  BY DEF RunsInv, RunsHold, Opened
<1>4. Opened' = Opened
  BY <1>1, <1>3 DEF Opened
<1>5. RunsTyped'
  BY <1>1, <1>2 DEF RunsTyped, Paid
<1>6. ASSUME NEW v \in Renderers, rendering'[v].stage # "none"
      PROVE  /\ rendering'[v].run \in Opened'
             /\ rendering'[v].stage \in {"close", "stamp"} => reportRun'[rendering'[v].run].emailed
             /\ rendering'[v].stage = "stamp" => reportRun'[rendering'[v].run].status # "RUNNING"
  <2>1. CASE v = w
    BY <1>1, <1>2, <1>3, <1>4, <1>6, <2>1
  <2>2. CASE v # w
    <3>1. /\ rendering'[v] = rendering[v] /\ rendering[v].run \in Opened
          /\ rendering[v].stage \in {"close", "stamp"} => reportRun[rendering[v].run].emailed
          /\ rendering[v].stage = "stamp" => reportRun[rendering[v].run].status # "RUNNING"
      BY <1>2, <1>6, <2>2 DEF RunsInv, RunsHold
    <3> QED BY <1>1, <1>3, <1>4, <3>1
  <2> QED BY <2>1, <2>2
<1>7. ASSUME NEW j \in ReportRuns
      PROVE  /\ reportRun'[j].status = "SUCCEEDED" => reportRun'[j].emailed
             /\ reportRun'[j].status = "RUNNING" =>
                    reportRun'[j].cut \/ \E v \in Renderers : rendering'[v].stage # "none" /\ rendering'[v].run = j
  <2>1. CASE j = i
    BY <1>1, <1>2, <2>1
  <2>2. CASE j # i
    <3>1. /\ reportRun'[j] = reportRun[j]
          /\ reportRun[j].status = "SUCCEEDED" => reportRun[j].emailed
          /\ reportRun[j].status = "RUNNING" =>
                 reportRun[j].cut \/ \E v \in Renderers : rendering[v].stage # "none" /\ rendering[v].run = j
      BY <1>1, <2>2 DEF RunsInv, RunsHold
    <3> QED BY <1>2, <2>2, <3>1
  <2> QED BY <2>1, <2>2
<1>8. RunsHold'
  BY <1>6, <1>7 DEF RunsHold
<1> QED BY <1>4, <1>5, <1>8, CountKeeps DEF RunsInv

\* What a worker is busy with.
LEMMA Busy ==
    ASSUME RunsInv, NEW w \in Renderers, rendering[w].stage # "none"
    PROVE  \E i \in ReportRuns, r \in Renderings, e \in RunRows :
               /\ r = rendering[w] /\ i = r.run /\ e = reportRun[i] /\ e.status # "none"
               /\ e.status = "SUCCEEDED" => e.emailed
               /\ r.stage \in {"close", "stamp"} => e.emailed
               /\ r.stage = "stamp" => e.status # "RUNNING"
BY DEF RunsInv, RunsTyped, RunsHold, Opened

LEMMA RenderStepKeeps ==
    ASSUME RunsInv, NEW w \in Renderers, RenderStep(w)
    PROVE  RunsInv'
<1>1. PICK i \in ReportRuns, r \in Renderings, e \in RunRows :
          /\ r = rendering[w] /\ i = r.run /\ e = reportRun[i] /\ e.status # "none"
          /\ e.status = "SUCCEEDED" => e.emailed
          /\ r.stage \in {"close", "stamp"} => e.emailed
          /\ r.stage = "stamp" => e.status # "RUNNING"
  BY Busy DEF RenderStep
<1> DEFINE f == [e EXCEPT !.emailed = @ \/ r.stage = "email",
                          !.status = IF r.stage = "close" THEN "SUCCEEDED" ELSE @]
           q == [r EXCEPT !.stage = RunStages[r.stage]]
<1>2. r.stage \in {"render", "email", "close"} /\ UNCHANGED <<due, spent>>
  BY <1>1 DEF RenderStep
<1>3. reportRun' = [reportRun EXCEPT ![i] = f] /\ rendering' = [rendering EXCEPT ![w] = q]
  BY <1>1 DEF RenderStep, RunsInv, RunsTyped
<1>4. f \in RunRows /\ f.emailed = (e.emailed \/ r.stage = "email")
      /\ f.status = IF r.stage = "close" THEN "SUCCEEDED" ELSE e.status
  BY DEF RunRows
<1>5. RunStages[r.stage] \in {"email", "close", "stamp"}
      /\ (r.stage = "render" => RunStages[r.stage] = "email")
      /\ (r.stage = "email" => RunStages[r.stage] = "close")
      /\ (r.stage = "close" => RunStages[r.stage] = "stamp")
  BY <1>2 DEF RunStages
<1>6. q \in Renderings /\ q.stage = RunStages[r.stage] /\ q.run = i
  BY <1>1, <1>5 DEF Renderings
<1>7. Paid
  BY <1>2 DEF RunsInv, RunsTyped, RunsCounted, Paid
<1> HIDE DEF f, q
<1>8. /\ e.emailed => f.emailed
      /\ f.status = "SUCCEEDED" => f.emailed
      /\ q.stage \in {"close", "stamp"} => f.emailed
      /\ q.stage = "stamp" => f.status # "RUNNING"
      /\ f.status = "RUNNING" => e.status = "RUNNING"
      /\ f.status # "none" /\ q.stage # "none"
  BY <1>1, <1>2, <1>4, <1>5, <1>6
<1>9. PICK g \in RunRows, p \in Renderings : g = f /\ p = q
  BY <1>4, <1>6
<1> QED BY <1>1, <1>2, <1>3, <1>6, <1>7, <1>8, <1>9, WorkerKeeps

\* A worker gives the run up, or goes on to the catch block.
LEMMA LeavesKeeps ==
    ASSUME RunsInv, Paid, NEW w \in Renderers, rendering[w].stage # "none",
           NEW r \in Renderings,
           \/ r.stage = "none"
           \/ r.stage = "failed" /\ r.run = rendering[w].run,
           rendering' = [rendering EXCEPT ![w] = r],
           NEW i \in ReportRuns, i = rendering[w].run, NEW e \in RunRows, reportRun' = [reportRun EXCEPT ![i] = e],
           reportRun[i].emailed => e.emailed, e.status \in {"FAILED", reportRun[i].status},
           r.stage = "none" => e.cut \/ e.status # "RUNNING"
    PROVE  RunsInv'
<1>1. reportRun[i].status # "none" /\ (reportRun[i].status = "SUCCEEDED" => reportRun[i].emailed)
  BY Busy
<1>2. e.status # "none" /\ (e.status = "SUCCEEDED" => e.emailed)
      /\ (e.status = "RUNNING" => reportRun[i].status = "RUNNING")
  BY <1>1
<1>3. /\ e.status = "RUNNING" => e.cut \/ r.stage # "none"
      /\ r.stage # "none" => r.run = i
      /\ r.stage \notin {"close", "stamp"}
  OBVIOUS
<1> QED BY <1>2, <1>3, WorkerKeeps

LEMMA NotRenderingTyped == NotRendering \in Renderings /\ NotRendering.stage = "none"
BY ScheduledReportsAssumption DEF ScheduledReportsAssumption, NotRendering, Renderings

\* One that goes on to the catch block.
LEMMA FailsStage ==
    ASSUME NEW r \in Renderings
    PROVE  /\ [r EXCEPT !.stage = "failed"] \in Renderings
           /\ [r EXCEPT !.stage = "failed"].stage = "failed" /\ [r EXCEPT !.stage = "failed"].run = r.run
BY DEF Renderings

LEMMA StampReportKeeps ==
    ASSUME RunsInv, NEW w \in Renderers, StampReport(w)
    PROVE  RunsInv'
<1>1. PICK i \in ReportRuns, r \in Renderings, e \in RunRows :
          /\ r = rendering[w] /\ i = r.run /\ e = reportRun[i]
          /\ r.stage = "stamp" => e.status # "RUNNING"
  BY Busy DEF StampReport
<1>2. r.stage = "stamp" /\ UNCHANGED <<due, reportRun, spent>>
      /\ rendering' = [rendering EXCEPT ![w] = IF report.row = "stored" THEN NotRendering
                                               ELSE [r EXCEPT !.stage = "failed"]]
  BY <1>1 DEF StampReport, RunsInv, RunsTyped
<1>3. Paid
  BY <1>2 DEF RunsInv, RunsTyped, RunsCounted, Paid
<1>4. PICK q \in Renderings : /\ rendering' = [rendering EXCEPT ![w] = q]
                              /\ q.stage = "none" \/ (q.stage = "failed" /\ q.run = i)
  BY <1>1, <1>2, FailsStage, NotRenderingTyped
<1>5. reportRun' = [reportRun EXCEPT ![i] = e]
  BY <1>1, <1>2 DEF RunsInv, RunsTyped
<1>6. r.stage # "none" /\ (e.emailed => e.emailed) /\ e.status \in {"FAILED", e.status}
      /\ (q.stage = "none" => e.cut \/ e.status # "RUNNING")
  BY <1>1, <1>2
<1> QED BY <1>1, <1>3, <1>4, <1>5, <1>6, LeavesKeeps

LEMMA StepThrowsKeeps ==
    ASSUME RunsInv, NEW w \in Renderers, StepThrows(w)
    PROVE  RunsInv'
<1>1. PICK i \in ReportRuns, r \in Renderings, e \in RunRows : r = rendering[w] /\ i = r.run /\ e = reportRun[i]
  BY Busy DEF StepThrows
<1>2. /\ r.stage # "none" /\ Faults /\ UNCHANGED due
      /\ \/ UNCHANGED reportRun
         \/ reportRun' = [reportRun EXCEPT ![i].emailed = TRUE]
      /\ rendering' = [rendering EXCEPT ![w].stage = "failed"]
  BY <1>1 DEF StepThrows
<1>3. Paid
  BY <1>2, FaultPays
<1>4. PICK q \in Renderings : rendering' = [rendering EXCEPT ![w] = q] /\ q.stage = "failed" /\ q.run = i
  <2>1. rendering' = [rendering EXCEPT ![w] = [r EXCEPT !.stage = "failed"]]
    BY <1>1, <1>2 DEF RunsInv, RunsTyped
  <2> QED BY <1>1, <2>1, FailsStage
<1>5. PICK f \in RunRows : /\ reportRun' = [reportRun EXCEPT ![i] = f]
                           /\ e.emailed => f.emailed
                           /\ f.status = e.status
  <2>1. CASE UNCHANGED reportRun
    <3>1. reportRun' = [reportRun EXCEPT ![i] = e]
      BY <1>1, <2>1 DEF RunsInv, RunsTyped
    <3> QED BY <3>1
  <2>2. CASE reportRun' = [reportRun EXCEPT ![i].emailed = TRUE]
    <3>1. reportRun' = [reportRun EXCEPT ![i] = [e EXCEPT !.emailed = TRUE]]
      BY <1>1, <2>2 DEF RunsInv, RunsTyped
    <3>2. [e EXCEPT !.emailed = TRUE] \in RunRows /\ [e EXCEPT !.emailed = TRUE].emailed
          /\ [e EXCEPT !.emailed = TRUE].status = e.status
      BY DEF RunRows
    <3> QED BY <3>1, <3>2
  <2> QED BY <1>2, <2>1, <2>2
<1>6. q.stage # "none" /\ f.status \in {"FAILED", e.status}
  BY <1>4, <1>5
<1> QED BY <1>1, <1>2, <1>3, <1>4, <1>5, <1>6, LeavesKeeps

LEMMA MarkFailedKeeps ==
    ASSUME RunsInv, NEW w \in Renderers, MarkFailed(w)
    PROVE  RunsInv'
<1>1. PICK i \in ReportRuns, r \in Renderings, e \in RunRows : r = rendering[w] /\ i = r.run /\ e = reportRun[i]
  BY Busy DEF MarkFailed
<1>2. /\ r.stage = "failed" /\ UNCHANGED <<due, spent>>
      /\ reportRun' = [reportRun EXCEPT ![i].status = "FAILED"]
      /\ rendering' = [rendering EXCEPT ![w] = NotRendering]
  BY <1>1 DEF MarkFailed
<1>3. Paid
  BY <1>2 DEF RunsInv, RunsTyped, RunsCounted, Paid
<1>4. reportRun' = [reportRun EXCEPT ![i] = [e EXCEPT !.status = "FAILED"]]
  BY <1>1, <1>2 DEF RunsInv, RunsTyped
<1>5. PICK f \in RunRows : f = [e EXCEPT !.status = "FAILED"]
  BY DEF RunRows
<1>6. f.status = "FAILED" /\ f.emailed = e.emailed
  BY <1>5 DEF RunRows
<1>7. /\ r.stage # "none" /\ (e.emailed => f.emailed) /\ f.status \in {"FAILED", e.status}
      /\ f.cut \/ f.status # "RUNNING"
  BY <1>2, <1>6
<1>8. PICK q \in Renderings : q = NotRendering /\ q.stage = "none"
  BY NotRenderingTyped
<1>9. rendering' = [rendering EXCEPT ![w] = q] /\ reportRun' = [reportRun EXCEPT ![i] = f]
  BY <1>2, <1>4, <1>5, <1>8
<1> QED BY <1>1, <1>3, <1>7, <1>8, <1>9, LeavesKeeps

LEMMA CutRunKeeps ==
    ASSUME RunsInv, NEW w \in Renderers, CutRun(w)
    PROVE  RunsInv'
<1>1. rendering[w].stage # "none"
  BY DEF CutRun, RunsInv, RunsTyped, Renderings, NotRendering
<1>2. PICK i \in ReportRuns, r \in Renderings, e \in RunRows : r = rendering[w] /\ i = r.run /\ e = reportRun[i]
  BY <1>1, Busy
<1>3. /\ Faults /\ due' \in {due, due + 1}
      /\ reportRun' = [reportRun EXCEPT ![i].cut = TRUE]
      /\ rendering' = [rendering EXCEPT ![w] = NotRendering]
  BY <1>2 DEF CutRun
<1>4. Paid
  BY <1>3, FaultPays
<1>5. reportRun' = [reportRun EXCEPT ![i] = [e EXCEPT !.cut = TRUE]]
  BY <1>2, <1>3 DEF RunsInv, RunsTyped
<1>6. PICK f \in RunRows : f = [e EXCEPT !.cut = TRUE]
  BY DEF RunRows
<1>7. f.cut /\ f.status = e.status /\ f.emailed = e.emailed
  BY <1>6 DEF RunRows
<1>8. (e.emailed => f.emailed) /\ f.status \in {"FAILED", e.status} /\ (f.cut \/ f.status # "RUNNING")
  BY <1>7
<1>9. PICK q \in Renderings : q = NotRendering /\ q.stage = "none"
  BY NotRenderingTyped
<1>10. rendering' = [rendering EXCEPT ![w] = q] /\ reportRun' = [reportRun EXCEPT ![i] = f]
  BY <1>3, <1>5, <1>6, <1>9
<1> QED BY <1>1, <1>2, <1>4, <1>8, <1>9, <1>10, LeavesKeeps

\* A job is taken: the report's next run is opened, if the report is still wanted.
LEMMA StartRunKeeps ==
    ASSUME RunsInv, NEW w \in Renderers, StartRun(w)
    PROVE  RunsInv'
<1>1. /\ due \in Nat /\ due > 0 /\ due' = due - 1 /\ UNCHANGED spent /\ rendering[w] = NotRendering
      /\ spent \in [requests : Nat, due : Nat, faults : Nat]
      /\ spent.due <= MaxRuns - MaxFaults /\ spent.faults <= MaxFaults
      /\ reportRun \in [ReportRuns -> RunRows] /\ rendering \in [Renderers -> Renderings]
      /\ NextRun \in Nat \ {0} /\ Opened = 1..(NextRun - 1) /\ NextRun - 1 + due <= spent.due + spent.faults
      /\ MaxRuns \in Nat /\ MaxFaults \in Nat
  BY ScheduledReportsAssumption
  DEF ScheduledReportsAssumption, StartRun, RunsInv, RunsTyped, RunsCounted
<1>2. CASE UNCHANGED <<reportRun, rendering>>
  <2>1. Paid
    BY <1>1 DEF Paid
  <2> QED BY <1>2, <2>1, RunsKept
<1>3. CASE /\ reportRun' = [reportRun EXCEPT ![NextRun].status = "RUNNING"]
           /\ rendering' = [rendering EXCEPT ![w] = [stage |-> "render", run |-> NextRun]]
  <2>1. NextRun \in ReportRuns /\ NextRun \notin Opened
    BY <1>1 DEF ReportRuns
  <2>2. PICK n \in ReportRuns : n = NextRun
    BY <2>1
  <2>3. PICK e \in RunRows : e = [reportRun[n] EXCEPT !.status = "RUNNING"] /\ e.status = "RUNNING"
    <3>1. reportRun[n] \in RunRows
      BY <1>1
    <3>2. [reportRun[n] EXCEPT !.status = "RUNNING"] \in RunRows
          /\ [reportRun[n] EXCEPT !.status = "RUNNING"].status = "RUNNING"
      BY <3>1 DEF RunRows
    <3> QED BY <3>2
  <2>4. reportRun' \in [ReportRuns -> RunRows]
        /\ \A j \in ReportRuns : reportRun'[j] = IF j = n THEN e ELSE reportRun[j]
    BY <1>1, <1>3, <2>2, <2>3
  <2>5. PICK r \in Renderings : r = [stage |-> "render", run |-> n] /\ r.stage = "render" /\ r.run = n
    <3> DEFINE r == [stage |-> "render", run |-> n]
    <3>1. n \in 0..MaxRuns
      BY <1>1 DEF ReportRuns
    <3>2. r \in Renderings /\ r.stage = "render" /\ r.run = n
      BY <3>1 DEF Renderings
    <3> QED BY <3>2
  <2>6. rendering' \in [Renderers -> Renderings]
        /\ \A v \in Renderers : rendering'[v] = IF v = w THEN r ELSE rendering[v]
    BY <1>1, <1>3, <2>2, <2>5
  <2>7. Opened' = Opened \cup {n}
    BY <2>3, <2>4 DEF Opened
  <2>8. Opened' = 1..n /\ NextRun' = n + 1
    <3>1. Opened' = 1..n
      BY <1>1, <2>2, <2>7
    <3>2. Cardinality(1..n) = n
      BY <2>1, <2>2, FS_Interval DEF ReportRuns
    <3>3. NextRun' = Cardinality(Opened') + 1
      BY DEF NextRun, Opened
    <3> QED BY <3>1, <3>2, <3>3
  <2>9. RunsTyped'
    BY <1>1, <2>4, <2>6 DEF RunsTyped
  <2>10. RunsCounted'
    BY <1>1, <2>2, <2>8 DEF RunsCounted
  <2>11. ASSUME NEW v \in Renderers, rendering'[v].stage # "none"
         PROVE  /\ rendering'[v].run \in Opened'
                /\ rendering'[v].stage \in {"close", "stamp"} => reportRun'[rendering'[v].run].emailed
                /\ rendering'[v].stage = "stamp" => reportRun'[rendering'[v].run].status # "RUNNING"
    <3>1. CASE v = w
      BY <2>5, <2>6, <2>7, <3>1
    <3>2. CASE v # w
      <4>1. /\ rendering'[v] = rendering[v] /\ rendering[v].run \in Opened
            /\ rendering[v].stage \in {"close", "stamp"} => reportRun[rendering[v].run].emailed
            /\ rendering[v].stage = "stamp" => reportRun[rendering[v].run].status # "RUNNING"
        BY <2>6, <2>11, <3>2 DEF RunsInv, RunsHold
      <4>2. reportRun'[rendering[v].run] = reportRun[rendering[v].run]
        BY <2>1, <2>2, <2>4, <4>1 DEF Opened
      <4> QED BY <2>7, <4>1, <4>2
    <3> QED BY <3>1, <3>2
  <2>12. ASSUME NEW j \in ReportRuns
         PROVE  /\ reportRun'[j].status = "SUCCEEDED" => reportRun'[j].emailed
                /\ reportRun'[j].status = "RUNNING" =>
                       \/ reportRun'[j].cut
                       \/ \E v \in Renderers : rendering'[v].stage # "none" /\ rendering'[v].run = j
    <3>1. CASE j = n
      BY <2>3, <2>4, <2>5, <2>6, <3>1
    <3>2. CASE j # n
      <4>1. /\ reportRun'[j] = reportRun[j]
            /\ reportRun[j].status = "SUCCEEDED" => reportRun[j].emailed
            /\ reportRun[j].status = "RUNNING" =>
                   reportRun[j].cut \/ \E v \in Renderers : rendering[v].stage # "none" /\ rendering[v].run = j
        BY <2>4, <3>2 DEF RunsInv, RunsHold
      <4>2. \A v \in Renderers : rendering[v].stage # "none" => rendering'[v] = rendering[v]
        BY <1>1, <2>6, NotRenderingTyped
      <4> QED BY <4>1, <4>2
    <3> QED BY <3>1, <3>2
  <2>13. RunsHold'
    BY <2>11, <2>12 DEF RunsHold
  <2> QED BY <2>9, <2>10, <2>13 DEF RunsInv
<1> QED BY <1>2, <1>3 DEF StartRun

\* A job falls due.
LEMMA FallsDueKeeps == ASSUME RunsInv, FallsDue PROVE RunsInv'
<1>1. spent \in [requests : Nat, due : Nat, faults : Nat] /\ due \in Nat /\ spent.faults <= MaxFaults
  BY DEF RunsInv, RunsTyped, RunsCounted
<1>2. /\ spent'.due = spent.due + 1 /\ spent'.faults = spent.faults /\ due' = due + 1
      /\ spent' \in [requests : Nat, due : Nat, faults : Nat] /\ spent.due < MaxRuns - MaxFaults
  BY <1>1 DEF FallsDue
<1>3. MaxRuns - MaxFaults \in Int
  BY ScheduledReportsAssumption DEF ScheduledReportsAssumption
<1>4. Paid
  BY <1>1, <1>2, <1>3 DEF Paid
<1> QED BY <1>4, RunsKept DEF FallsDue

\* A request leaves the worker's side.
LEMMA RequestKeeps ==
    ASSUME RunsInv, UNCHANGED <<due, rendering, reportRun>>,
           \/ UNCHANGED spent
           \/ spent' = [spent EXCEPT !.requests = @ + 1]
           \/ Faults
    PROVE  RunsInv'
<1>1. spent \in [requests : Nat, due : Nat, faults : Nat] /\ due \in Nat /\ spent.due <= MaxRuns - MaxFaults
      /\ spent.faults <= MaxFaults
  BY DEF RunsInv, RunsTyped, RunsCounted
<1>2. CASE UNCHANGED spent
  <2>1. Paid
    BY <1>1, <1>2 DEF Paid
  <2> QED BY <2>1, RunsKept
<1>3. CASE spent' = [spent EXCEPT !.requests = @ + 1]
  <2>1. Paid
    BY <1>1, <1>3 DEF Paid
  <2> QED BY <2>1, RunsKept
<1>4. CASE Faults
  BY <1>4, FaultPays, RunsKept
<1> QED BY <1>2, <1>3, <1>4

LEMMA RunsInvStep == RunsInv /\ [ReportsNext]_reportVars => RunsInv'
<1> SUFFICES ASSUME RunsInv, [ReportsNext]_reportVars PROVE RunsInv'
  OBVIOUS
<1>1. ASSUME NEW m \in Managers, FindJob(m) \/ DropJob(m) \/ AddRepeatable(m) \/ StoreReport(m) \/ StopHandling(m)
      PROVE  RunsInv'
  BY <1>1, RequestKeeps DEF FindJob, DropJob, AddRepeatable, StoreReport, StopHandling
<1>2. ASSUME NEW m \in Managers, NEW cron \in Crons, CreateReport(m, cron)
      PROVE  RunsInv'
  BY <1>2, RequestKeeps DEF CreateReport, Handles
<1>3. ASSUME NEW m \in Managers, NEW cron \in Crons, NEW op \in {"update", "remove"}, NEW active \in BOOLEAN,
             ReadReport(m, op, cron, active)
      PROVE  RunsInv'
  BY <1>3, RequestKeeps DEF ReadReport, Handles
<1>4. CASE UNCHANGED reportVars
  BY <1>4, RequestKeeps DEF reportVars
<1> QED BY <1>1, <1>2, <1>3, <1>4, FallsDueKeeps, StartRunKeeps, RenderStepKeeps, StampReportKeeps,
           StepThrowsKeeps, MarkFailedKeeps, CutRunKeeps DEF ReportsNext

\* The queue repeats the report exactly as its row says between requests, and a run is
\* neither called sent without being sent nor left open, for any number of requests and
\* workers, unless requests overlapped, one stopped halfway, or the run was cut.
THEOREM ReportIsRun == ReportsSpec => []ScheduleFollowsReport
<1>1. ScheduleInv /\ RunsInv => ScheduleFollowsReport
  BY DEF ScheduleInv, ScheduleHolds, RunsInv, RunsHold, ScheduleFollowsReport
<1> QED BY <1>1, ScheduleInvInit, ScheduleInvStep, RunsInvInit, RunsInvStep, PTL DEF ReportsSpec

LEMMA ReportsTypes == ScheduleInv /\ RunsInv => ReportsTypeOK
<1> SUFFICES ASSUME ScheduleInv, RunsInv PROVE ReportsTypeOK
  OBVIOUS
<1>1. \A m \in Managers : handling[m] \in ReportShapes
  <2>1. NotHandling \in ReportShapes /\ Handlings \subseteq ReportShapes
    BY Shaped DEF Handlings, AtWork, ReportShapes
  <2> QED BY <2>1 DEF ScheduleInv, ScheduleTyped
<1>2. \A m \in Managers :
          /\ handling[m].op \in {"none", "create", "update", "remove"}
          /\ handling[m].stage \in {"none", "find", "drop", "add", "store"}
          /\ {handling[m].cron, handling[m].key} \subseteq Crons \cup {NoCron}
          /\ handling[m].active \in BOOLEAN
  BY <1>1 DEF ReportShapes
<1>3. due \in 0..MaxRuns
  <2>1. /\ spent.due \in Nat /\ spent.faults \in Nat /\ due \in Nat /\ NextRun \in Nat \ {0}
        /\ MaxRuns \in Nat /\ MaxFaults \in Nat
    BY ScheduledReportsAssumption DEF ScheduledReportsAssumption, RunsInv, RunsTyped, RunsCounted
  <2>2. NextRun - 1 + due <= spent.due + spent.faults /\ spent.due <= MaxRuns - MaxFaults /\ spent.faults <= MaxFaults
    BY DEF RunsInv, RunsCounted
  <2> QED BY <2>1, <2>2
<1>4. /\ rendering \in [Renderers -> [stage : {"none", "render", "email", "close", "stamp", "failed"},
                                      run : 0..MaxRuns]]
  BY DEF RunsInv, RunsTyped, Renderings
<1> QED BY <1>2, <1>3, <1>4 DEF ScheduleInv, ScheduleTyped, RunsInv, RunsTyped, Reports, RunRows, ReportsTypeOK

------------------------------------------------------------------------------
(* Webhooks *)

Postings == {NotPosting} \cup [stage : Stages, job : Deliveries]
PostersTyped ==
    /\ webhook \in [row : {"stored", "deleted"}, active : BOOLEAN, failures : Nat]
    /\ posting \in [Posters -> Postings]
    /\ used \in [switches : Nat, faults : Nat]
    /\ endpoint \in [streak : Nat, unclear : BOOLEAN]

\* What the row has counted and what is still to be counted are attempts the
\* endpoint refused in a row; a success on its way to the row has none beside it.
FailuresRefused ==
    ~endpoint.unclear =>
        /\ InStage({"succeeded"}) # {} => InStage({"failed"}) = {} /\ InStage({"disable"}) = {}
        /\ webhook.row = "stored" /\ InStage({"succeeded"}) = {} =>
               webhook.failures + Cardinality(InStage({"failed"})) <= endpoint.streak
        /\ InStage({"disable"}) # {} => endpoint.streak >= Threshold

WebhookInv == PostersTyped /\ FailuresRefused

LEMMA StagesApart == NotPosting \in Postings /\ NotPosting.stage = "none" /\ "none" \notin Stages
BY DEF Postings, NotPosting, Stages

LEMMA PostersFinite ==
    /\ IsFiniteSet(Posters) /\ Threshold \in Nat \ {0}
    /\ \A S \in SUBSET Posters : IsFiniteSet(S) /\ Cardinality(S) \in Nat
BY WebhooksAssumption, FS_Subset, FS_CardinalityType

\* The worker that has failed is counted, the one that counts is not.
LEMMA Failing ==
    ASSUME NEW w \in Posters
    PROVE  LET F == InStage({"failed"})
           IN /\ Cardinality(F) \in Nat /\ (F = {} => Cardinality(F) = 0)
              /\ w \notin F => Cardinality(F \cup {w}) = Cardinality(F) + 1 /\ F \ {w} = F
              /\ w \in F => Cardinality(F \ {w}) = Cardinality(F) - 1
<1> DEFINE F == InStage({"failed"})
<1>1. F \in SUBSET Posters
  BY DEF InStage
<1> HIDE DEF F
<1>2. IsFiniteSet(F) /\ Cardinality(F) \in Nat
  BY <1>1, PostersFinite
<1>3. F = {} => Cardinality(F) = 0
  BY FS_EmptySet
<1>4. w \notin F => Cardinality(F \cup {w}) = Cardinality(F) + 1 /\ F \ {w} = F
  BY <1>2, FS_AddElement
<1>5. w \in F => Cardinality(F \ {w}) = Cardinality(F) - 1
  BY <1>2, FS_RemoveElement
<1> QED BY <1>2, <1>3, <1>4, <1>5 DEF F

\* The worker that posted, or records what it posted, goes on to m.
LEMMA PostingStep ==
    ASSUME PostersTyped, NEW w \in Posters,
           Post(w) \/ RecordSuccess(w) \/ RecordFailure(w) \/ DisableWebhook(w) \/ CutDelivery(w)
    PROVE  /\ posting[w] # NotPosting
           /\ \E m \in Postings :
                  /\ posting' = [posting EXCEPT ![w] = m]
                  /\ \/ Post(w) /\ m.stage \in {"succeeded", "failed"}
                     \/ (RecordSuccess(w) \/ DisableWebhook(w) \/ CutDelivery(w)) /\ m = NotPosting
                     \/ RecordFailure(w) /\ (m = NotPosting \/ m.stage = "disable")
<1>0. posting \in [Posters -> Postings] /\ NotPosting \in Postings
  BY StagesApart DEF PostersTyped
<1>1. posting[w] # NotPosting
  BY StagesApart DEF Post, RecordSuccess, RecordFailure, DisableWebhook, CutDelivery
<1>2. ASSUME NEW st \in Stages, PostingGoes(w, st)
      PROVE  \E m \in Postings : posting' = [posting EXCEPT ![w] = m] /\ m.stage = st
  <2>1. [posting[w] EXCEPT !.stage = st] \in Postings /\ [posting[w] EXCEPT !.stage = st].stage = st
    BY <1>0, <1>1 DEF Postings
  <2>2. posting' = [posting EXCEPT ![w] = [posting[w] EXCEPT !.stage = st]]
    BY <1>0, <1>2 DEF PostingGoes
  <2> QED BY <2>1, <2>2
<1>3. StopsPosting(w) => posting' = [posting EXCEPT ![w] = NotPosting]
  BY DEF StopsPosting
<1>4. CASE Post(w)
  <2>1. \E st \in {"succeeded", "failed"} : PostingGoes(w, st)
    BY <1>4 DEF Post
  <2> QED BY <1>1, <1>2, <1>4, <2>1 DEF Stages
<1>5. CASE RecordSuccess(w) \/ DisableWebhook(w) \/ CutDelivery(w)
  BY <1>0, <1>1, <1>3, <1>5 DEF RecordSuccess, DisableWebhook, CutDelivery
<1>6. CASE RecordFailure(w)
  <2>1. StopsPosting(w) \/ PostingGoes(w, "disable")
    BY <1>6 DEF RecordFailure
  <2> QED BY <1>0, <1>1, <1>2, <1>3, <1>6, <2>1 DEF Stages
<1> QED BY <1>4, <1>5, <1>6

\* What the endpoint is seen to do by an attempt.
LEMMA PostSees ==
    ASSUME PostersTyped, NEW w \in Posters, Post(w)
    PROVE  /\ posting[w].stage = "post" /\ webhook' = webhook /\ endpoint' \in [streak : Nat, unclear : BOOLEAN]
           /\ \/ posting'[w].stage = "succeeded" /\ endpoint'.streak = 0
                 /\ (~endpoint'.unclear => ~endpoint.unclear /\ InStage({"failed", "disable"}) = {})
              \/ posting'[w].stage = "failed" /\ endpoint'.streak = endpoint.streak + 1
                 /\ (~endpoint'.unclear => ~endpoint.unclear /\ InStage({"succeeded"}) = {})
<1>0. posting \in [Posters -> Postings] /\ endpoint \in [streak : Nat, unclear : BOOLEAN] /\ posting[w] # NotPosting
  BY StagesApart DEF PostersTyped, Post
<1>1. \A n \in Nat, b \in BOOLEAN : \A e \in {[endpoint EXCEPT !.streak = n, !.unclear = b]} :
          e \in [streak : Nat, unclear : BOOLEAN] /\ e.streak = n /\ e.unclear = b
  BY <1>0
<1>2. ASSUME NEW st \in Stages, PostingGoes(w, st) PROVE posting'[w].stage = st
  BY <1>0, <1>2 DEF PostingGoes, Postings
<1>3. posting[w].stage = "post" /\ webhook' = webhook
  BY DEF Post
<1>4. ASSUME PostingGoes(w, "succeeded"),
             endpoint' = [endpoint EXCEPT !.streak = 0, !.unclear = @ \/ InStage({"failed", "disable"}) # {}]
      PROVE  /\ posting'[w].stage = "succeeded" /\ endpoint'.streak = 0 /\ endpoint' \in [streak : Nat, unclear : BOOLEAN]
             /\ (~endpoint'.unclear => ~endpoint.unclear /\ InStage({"failed", "disable"}) = {})
  <2>1. PICK b \in BOOLEAN : b = (endpoint.unclear \/ InStage({"failed", "disable"}) # {})
    OBVIOUS
  <2>2. endpoint' = [endpoint EXCEPT !.streak = 0, !.unclear = b]
    BY <1>4, <2>1
  <2>3. endpoint'.streak = 0 /\ endpoint'.unclear = b /\ endpoint' \in [streak : Nat, unclear : BOOLEAN]
    BY <1>1, <2>2
  <2> QED BY <1>2, <1>4, <2>1, <2>3 DEF Stages
<1>5. ASSUME PostingGoes(w, "failed"),
             endpoint' = [endpoint EXCEPT !.streak = @ + 1, !.unclear = @ \/ InStage({"succeeded"}) # {}]
      PROVE  /\ posting'[w].stage = "failed" /\ endpoint'.streak = endpoint.streak + 1
             /\ endpoint' \in [streak : Nat, unclear : BOOLEAN]
             /\ (~endpoint'.unclear => ~endpoint.unclear /\ InStage({"succeeded"}) = {})
  <2>1. PICK b \in BOOLEAN : b = (endpoint.unclear \/ InStage({"succeeded"}) # {})
    OBVIOUS
  <2>a. PICK n \in Nat : n = endpoint.streak + 1
    BY <1>0
  <2>2. endpoint' = [endpoint EXCEPT !.streak = n, !.unclear = b]
    BY <1>5, <2>1, <2>a
  <2>3. /\ endpoint'.streak = endpoint.streak + 1 /\ endpoint'.unclear = b
        /\ endpoint' \in [streak : Nat, unclear : BOOLEAN]
    BY <1>1, <2>a, <2>2
  <2> QED BY <1>2, <1>5, <2>1, <2>3 DEF Stages
<1> QED BY <1>3, <1>4, <1>5 DEF Post

LEMMA PostersTypedStep == PostersTyped /\ [WebhooksNext]_webhookVars => PostersTyped'
<1> SUFFICES ASSUME PostersTyped, [WebhooksNext]_webhookVars PROVE PostersTyped'
  OBVIOUS
<1>0. /\ webhook \in [row : {"stored", "deleted"}, active : BOOLEAN, failures : Nat]
      /\ posting \in [Posters -> Postings] /\ used \in [switches : Nat, faults : Nat]
      /\ endpoint \in [streak : Nat, unclear : BOOLEAN]
  BY DEF PostersTyped
<1>1. CASE UNCHANGED webhookVars
  BY <1>0, <1>1 DEF webhookVars, PostersTyped
<1>2. ASSUME NEW d \in Deliveries, NEW test \in BOOLEAN, EnqueueDelivery(d, test) PROVE PostersTyped'
  BY <1>0, <1>2 DEF EnqueueDelivery, GoesWrong, PostersTyped
<1>3. ASSUME NEW active \in BOOLEAN, SetActive(active) PROVE PostersTyped'
  BY <1>0, <1>3 DEF SetActive, Switches, PostersTyped
<1>4. CASE RemoveWebhook
  BY <1>0, <1>4 DEF RemoveWebhook, Switches, PostersTyped
<1>5. ASSUME NEW w \in Posters, NEW d \in Deliveries, StartDelivery(w, d) PROVE PostersTyped'
  <2>1. [stage |-> "post", job |-> d] \in Postings
    BY DEF Postings, Stages
  <2> QED BY <1>0, <1>5, <2>1 DEF StartDelivery, PostersTyped
<1>6. ASSUME NEW w \in Posters,
             Post(w) \/ RecordSuccess(w) \/ RecordFailure(w) \/ DisableWebhook(w) \/ CutDelivery(w)
      PROVE  PostersTyped'
  <2>1. posting' \in [Posters -> Postings]
    <3>1. PICK m \in Postings : posting' = [posting EXCEPT ![w] = m]
      BY <1>6, PostingStep
    <3> QED BY <1>0, <3>1
  <2>2. used' \in [switches : Nat, faults : Nat]
    BY <1>0, <1>6 DEF Post, RecordSuccess, RecordFailure, DisableWebhook, CutDelivery, GoesWrong
  <2>3. webhook' \in [row : {"stored", "deleted"}, active : BOOLEAN, failures : Nat]
    <3>1. CASE Post(w) \/ CutDelivery(w)
      BY <1>0, <3>1 DEF Post, CutDelivery
    <3>2. CASE RecordSuccess(w)
      BY <1>0, <3>2 DEF RecordSuccess, CountAfterSuccess
    <3>3. CASE RecordFailure(w)
      BY <1>0, <3>3 DEF RecordFailure
    <3>4. CASE DisableWebhook(w)
      BY <1>0, <3>4 DEF DisableWebhook
    <3> QED BY <1>6, <3>1, <3>2, <3>3, <3>4
  <2>4. endpoint' \in [streak : Nat, unclear : BOOLEAN]
    <3>2. \A b \in BOOLEAN : [endpoint EXCEPT !.unclear = b] \in [streak : Nat, unclear : BOOLEAN]
      BY <1>0
    <3>3. endpoint.unclear \in BOOLEAN
      BY <1>0
    <3>4. CASE Post(w)
      BY <3>4, PostSees
    <3>5. CASE CutDelivery(w)
      BY <3>2, <3>3, <3>5 DEF CutDelivery
    <3>6. CASE RecordSuccess(w) \/ RecordFailure(w) \/ DisableWebhook(w)
      BY <1>0, <3>6 DEF RecordSuccess, RecordFailure, DisableWebhook
    <3> QED BY <1>6, <3>4, <3>5, <3>6
  <2> QED BY <2>1, <2>2, <2>3, <2>4 DEF PostersTyped
<1> QED BY <1>1, <1>2, <1>3, <1>4, <1>5, <1>6 DEF WebhooksNext

LEMMA PrimedCount == Cardinality(InStage({"failed"})') \in Nat
<1>1. InStage({"failed"})' \in SUBSET Posters
  BY DEF InStage
<1> QED BY <1>1, PostersFinite

LEMMA RefusedStep ==
    ASSUME PostersTyped, FailuresRefused, NEW w \in Posters,
           Post(w) \/ RecordSuccess(w) \/ RecordFailure(w) \/ DisableWebhook(w) \/ CutDelivery(w)
    PROVE  FailuresRefused'
<1>0. /\ webhook \in [row : {"stored", "deleted"}, active : BOOLEAN, failures : Nat]
      /\ posting \in [Posters -> Postings] /\ endpoint \in [streak : Nat, unclear : BOOLEAN]
  BY DEF PostersTyped
<1>1. PICK m \in Postings :
        /\ posting' = [posting EXCEPT ![w] = m]
        /\ \/ Post(w) /\ m.stage \in {"succeeded", "failed"}
           \/ (RecordSuccess(w) \/ DisableWebhook(w) \/ CutDelivery(w)) /\ m = NotPosting
           \/ RecordFailure(w) /\ (m = NotPosting \/ m.stage = "disable")
  BY PostingStep
<1> DEFINE S == InStage({"succeeded"})
           F == InStage({"failed"})
           D == InStage({"disable"})
<1>2. /\ S' = IF m.stage = "succeeded" THEN S \cup {w} ELSE S \ {w}
      /\ F' = IF m.stage = "failed" THEN F \cup {w} ELSE F \ {w}
      /\ D' = IF m.stage = "disable" THEN D \cup {w} ELSE D \ {w}
  BY <1>0, <1>1 DEF InStage
<1>3. /\ w \in S <=> posting[w].stage = "succeeded"
      /\ w \in F <=> posting[w].stage = "failed"
      /\ w \in D <=> posting[w].stage = "disable"
      /\ InStage({"failed", "disable"}) = F \cup D
  BY DEF InStage
<1>4. /\ Cardinality(F) \in Nat /\ (F = {} => Cardinality(F) = 0)
      /\ w \notin F => Cardinality(F \cup {w}) = Cardinality(F) + 1 /\ F \ {w} = F
      /\ w \in F => Cardinality(F \ {w}) = Cardinality(F) - 1
  BY Failing
<1>5. ~endpoint.unclear =>
        /\ S # {} => F = {} /\ D = {}
        /\ webhook.row = "stored" /\ S = {} => webhook.failures + Cardinality(F) <= endpoint.streak
        /\ D # {} => endpoint.streak >= Threshold
  BY DEF FailuresRefused
<1>6. Threshold \in Nat /\ webhook.failures \in Nat /\ endpoint.streak \in Nat
  BY <1>0, PostersFinite
<1> SUFFICES ASSUME ~endpoint'.unclear
             PROVE  /\ S' # {} => F' = {} /\ D' = {}
                    /\ webhook'.row = "stored" /\ S' = {} => webhook'.failures + Cardinality(F') <= endpoint'.streak
                    /\ D' # {} => endpoint'.streak >= Threshold
  BY DEF FailuresRefused
<1>7. NotPosting.stage = "none"
  BY StagesApart
<1>8. CASE Post(w) /\ m.stage = "succeeded"
  <2>1. posting[w].stage = "post" /\ posting'[w].stage = "succeeded" /\ webhook' = webhook
    BY <1>0, <1>1, <1>8 DEF Post
  <2>2. F \cup D = {}
    BY <1>3, <1>8, <2>1, PostSees
  <2> HIDE DEF S, F, D
  <2> QED BY <1>2, <1>3, <1>8, <2>1, <2>2
<1>9. CASE Post(w) /\ m.stage = "failed"
  <2>1. posting[w].stage = "post" /\ posting'[w].stage = "failed" /\ webhook' = webhook
    BY <1>0, <1>1, <1>9 DEF Post
  <2>2. endpoint'.streak = endpoint.streak + 1 /\ S = {} /\ ~endpoint.unclear
    BY <1>9, <2>1, PostSees
  <2> HIDE DEF S, F, D
  <2> QED BY <1>2, <1>3, <1>4, <1>5, <1>6, <1>9, <2>1, <2>2
<1>10. CASE RecordSuccess(w) /\ m = NotPosting
  <2>1. /\ posting[w].stage = "succeeded" /\ endpoint' = endpoint
        /\ webhook'.row = "stored" => webhook'.failures = 0
    BY <1>0, <1>10 DEF RecordSuccess, CountAfterSuccess
  <2> HIDE DEF S, F, D
  <2>2. F = {} /\ D = {} /\ Cardinality(F) = 0
    BY <1>3, <1>4, <1>5, <2>1
  <2>3. F' = F /\ D' = D
    BY <1>2, <1>7, <1>10, <2>2
  <2> QED BY <1>6, <2>1, <2>2, <2>3
<1>11. CASE DisableWebhook(w) /\ m = NotPosting
  <2>1. /\ posting[w].stage = "disable" /\ endpoint' = endpoint
        /\ webhook'.row = webhook.row /\ webhook'.failures = webhook.failures
    BY <1>0, <1>11 DEF DisableWebhook
  <2> HIDE DEF S, F, D
  <2> QED BY <1>2, <1>3, <1>4, <1>5, <1>6, <1>7, <1>11, <2>1
<1>12. CASE CutDelivery(w) /\ m = NotPosting
  <2>1. /\ posting[w].stage # "succeeded" /\ ~endpoint.unclear /\ endpoint'.streak = endpoint.streak
        /\ webhook' = webhook
    BY <1>0, <1>12 DEF CutDelivery
  <2> HIDE DEF S, F, D
  <2>2. S' = S /\ F' \subseteq F /\ D' \subseteq D
    BY <1>2, <1>3, <1>7, <1>12, <2>1
  <2>3. Cardinality(F') <= Cardinality(F) /\ Cardinality(F') \in Nat
    <3>1. F' = F \/ (w \in F /\ F' = F \ {w})
      BY <1>2, <1>7, <1>12
    <3>3. Cardinality(F') \in Nat
      BY <1>0, <1>1, PrimedCount DEF F
    <3>4. Cardinality(F') = Cardinality(F) \/ Cardinality(F') = Cardinality(F) - 1
      BY <1>4, <3>1
    <3> QED BY <1>4, <3>3, <3>4
  <2> QED BY <1>5, <1>6, <1>4, <2>1, <2>2, <2>3
<1>13. CASE RecordFailure(w) /\ (m = NotPosting \/ m.stage = "disable")
  <2>1. /\ posting[w].stage = "failed" /\ endpoint' = endpoint /\ webhook'.row = webhook.row
        /\ webhook.row = "stored" => webhook'.failures = webhook.failures + 1
        /\ posting'[w].stage = "disable" => webhook.row = "stored" /\ webhook.failures + 1 >= Threshold
    BY <1>0, <1>13, StagesApart DEF RecordFailure, TooMany, PostingGoes, StopsPosting
  <2>2. posting'[w] = m
    BY <1>0, <1>1
  <2> HIDE DEF S, F, D
  <2>3. F # {} /\ S = {} /\ Cardinality(F') = Cardinality(F) - 1 /\ S' = {}
    BY <1>2, <1>3, <1>4, <1>5, <1>7, <1>13, <2>1
  <2>4. D' # {} => endpoint'.streak >= Threshold
    <3>1. m.stage # "disable" => D' \subseteq D
      BY <1>2
    <3>2. webhook.row = "stored" => webhook.failures + Cardinality(F) <= endpoint.streak
      BY <1>5, <2>1, <2>3
    <3>3. Cardinality(F) >= 1
      BY <1>4, <2>3, <1>0, <1>1, PrimedCount DEF F
    <3> QED BY <1>4, <1>5, <1>6, <2>1, <2>2, <3>1, <3>2, <3>3
  <2>5. webhook'.row = "stored" => webhook'.failures + Cardinality(F') <= endpoint'.streak
    BY <1>4, <1>5, <1>6, <2>1, <2>3
  <2> QED BY <2>3, <2>4, <2>5
<1> QED BY <1>1, <1>8, <1>9, <1>10, <1>11, <1>12, <1>13

LEMMA WebhookStep == WebhookInv /\ [WebhooksNext]_webhookVars => WebhookInv'
<1> SUFFICES ASSUME WebhookInv, [WebhooksNext]_webhookVars PROVE WebhookInv'
  OBVIOUS
<1>0. /\ PostersTyped /\ FailuresRefused
      /\ webhook \in [row : {"stored", "deleted"}, active : BOOLEAN, failures : Nat]
      /\ posting \in [Posters -> Postings]
  BY DEF WebhookInv, PostersTyped
<1>1. ASSUME posting' = posting, endpoint' = endpoint, webhook'.failures = webhook.failures,
             webhook'.row = webhook.row \/ webhook'.row = "deleted"
      PROVE  FailuresRefused'
  BY <1>0, <1>1 DEF FailuresRefused, InStage
<1>2. ASSUME \/ \E d \in Deliveries : \E test \in BOOLEAN : EnqueueDelivery(d, test)
             \/ \E active \in BOOLEAN : SetActive(active)
             \/ RemoveWebhook
             \/ UNCHANGED webhookVars
      PROVE  FailuresRefused'
  BY <1>0, <1>1, <1>2 DEF EnqueueDelivery, SetActive, RemoveWebhook, webhookVars
<1>3. ASSUME NEW w \in Posters, NEW d \in Deliveries, StartDelivery(w, d) PROVE FailuresRefused'
  <2>1. /\ InStage({"succeeded"})' = InStage({"succeeded"}) /\ InStage({"failed"})' = InStage({"failed"})
        /\ InStage({"disable"})' = InStage({"disable"})
    BY <1>0, <1>3, StagesApart DEF StartDelivery, InStage
  <2> QED BY <1>0, <1>3, <2>1 DEF StartDelivery, FailuresRefused
<1>4. FailuresRefused'
  BY <1>0, <1>2, <1>3, RefusedStep DEF WebhooksNext
<1> QED BY <1>0, <1>4, PostersTypedStep DEF WebhookInv

LEMMA WebhookStart == WebhooksInit => WebhookInv
<1> SUFFICES ASSUME WebhooksInit PROVE WebhookInv
  OBVIOUS
<1>1. \A S \in SUBSET Stages : InStage(S) = {}
  BY StagesApart DEF WebhooksInit, InStage
<1>2. InStage({"succeeded"}) = {} /\ InStage({"failed"}) = {} /\ InStage({"disable"}) = {}
  BY <1>1 DEF Stages
<1>3. Cardinality({}) = 0
  BY FS_EmptySet
<1>4. FailuresRefused
  BY <1>2, <1>3 DEF WebhooksInit, FailuresRefused
<1>5. PostersTyped
  BY StagesApart DEF WebhooksInit, PostersTyped
<1> QED BY <1>4, <1>5 DEF WebhookInv

\* The processor switches a subscription off only after Threshold refusals in a
\* row, though workers count and switch in statements of their own, unless a
\* success was recorded out of order or not at all.
THEOREM OnlyFailuresDisable == WebhooksSpec => DisabledForFailures
<1> DEFINE Justified == (webhook.active /\ ~webhook'.active /\ used' = used) =>
                            endpoint.streak >= Threshold \/ endpoint.unclear
<1>1. ASSUME WebhookInv, [WebhooksNext]_webhookVars PROVE [Justified]_webhookVars
  <2> SUFFICES ASSUME webhook.active, ~webhook'.active, used' = used
               PROVE  endpoint.streak >= Threshold \/ endpoint.unclear
    OBVIOUS
  <2>1. used \in [switches : Nat, faults : Nat] /\ FailuresRefused
        /\ webhook \in [row : {"stored", "deleted"}, active : BOOLEAN, failures : Nat]
    BY <1>1 DEF WebhookInv, PostersTyped
  <2>2. \A active \in BOOLEAN : ~SetActive(active)
    BY <2>1 DEF SetActive, Switches
  <2>3. \E w \in Posters : DisableWebhook(w)
    BY <1>1, <2>1, <2>2 DEF WebhooksNext, EnqueueDelivery, RemoveWebhook, StartDelivery, Post, RecordSuccess,
                            RecordFailure, CutDelivery, webhookVars
  <2>4. InStage({"disable"}) # {}
    BY <2>3 DEF DisableWebhook, InStage
  <2> QED BY <2>1, <2>4 DEF FailuresRefused
<1>2. WebhooksSpec => []WebhookInv
  BY WebhookStart, WebhookStep, PTL DEF WebhooksSpec
<1> QED BY <1>1, <1>2, PTL DEF WebhooksSpec, DisabledForFailures

DeliveryRows == [state : {"none", "waiting", "active", "delivered", "skipped", "exhausted", "lost"},
                 attempts : 0..PostAttempts]
\* A delivery that may be posted yet has an attempt left.
HasAttempt(r) == r.state \in {"none", "waiting", "active"} => r.attempts < PostAttempts
PostUsage == [switches : 0..MaxSwitches, faults : 0..MaxPostFaults]

\* A worker posts an active delivery, and no two workers post the same one.
DeliveriesTyped ==
    /\ delivery \in [Deliveries -> DeliveryRows] /\ \A d \in Deliveries : HasAttempt(delivery[d])
    /\ used \in PostUsage
    /\ \A w \in Posters : posting[w] # NotPosting => delivery[posting[w].job].state = "active"
    /\ \A v, w \in Posters : v # w /\ posting[v] # NotPosting /\ posting[w] # NotPosting =>
                                 posting[v].job # posting[w].job

\* The deliveries become D, as one of them changes.
OneChanges(d, D) == \E r \in DeliveryRows : HasAttempt(r) /\ D = [delivery EXCEPT ![d] = r]

LEMMA PostUsageGrows ==
    ASSUME used \in PostUsage, GoesWrong \/ Switches
    PROVE  used' \in PostUsage
<1>1. MaxSwitches \in Nat /\ MaxPostFaults \in Nat
  BY WebhooksAssumption
<1>2. ASSUME GoesWrong PROVE used' \in PostUsage
  <2>1. used.faults + 1 \in 0..MaxPostFaults
    BY <1>1, <1>2 DEF GoesWrong, PostUsage
  <2>2. used' = [used EXCEPT !.faults = used.faults + 1]
    BY <1>2 DEF GoesWrong
  <2> QED BY <2>1, <2>2 DEF PostUsage
<1>3. ASSUME Switches PROVE used' \in PostUsage
  <2>1. used.switches + 1 \in 0..MaxSwitches
    BY <1>1, <1>3 DEF Switches, PostUsage
  <2>2. used' = [used EXCEPT !.switches = used.switches + 1]
    BY <1>3 DEF Switches
  <2> QED BY <2>1, <2>2 DEF PostUsage
<1> QED BY <1>2, <1>3

\* One delivery changes that no worker, or only one who stops, is posting.
LEMMA DeliveryChanges ==
    ASSUME PostersTyped, DeliveriesTyped, NEW d \in Deliveries, OneChanges(d, delivery'), used' \in PostUsage,
           \/ /\ delivery[d].state # "active" /\ posting' = posting
           \/ \E w \in Posters : /\ posting[w] # NotPosting /\ d = posting[w].job
                                 /\ posting' = [posting EXCEPT ![w] = NotPosting]
    PROVE  DeliveriesTyped'
<1> USE DEF DeliveriesTyped
<1>1. posting \in [Posters -> Postings]
  BY DEF PostersTyped
<1>2. /\ delivery' \in [Deliveries -> DeliveryRows] /\ HasAttempt(delivery'[d])
      /\ \A e \in Deliveries \ {d} : delivery'[e] = delivery[e]
  BY DEF OneChanges
<1>3. \A w \in Posters : posting[w] # NotPosting => posting[w].job \in Deliveries
  BY <1>1 DEF Postings
<1>4. CASE delivery[d].state # "active" /\ posting' = posting
  BY <1>2, <1>3, <1>4
<1>5. ASSUME NEW w \in Posters, posting[w] # NotPosting, d = posting[w].job,
             posting' = [posting EXCEPT ![w] = NotPosting]
      PROVE  DeliveriesTyped'
  <2>1. \A v \in Posters : posting'[v] = IF v = w THEN NotPosting ELSE posting[v]
    BY <1>1, <1>5
  <2>2. \A v \in Posters : posting'[v] # NotPosting => posting'[v].job # d
    BY <1>5, <2>1
  <2> QED BY <1>2, <1>3, <2>1, <2>2
<1> QED BY <1>4, <1>5

\* An attempt that failed leaves one, or the delivery is exhausted.
LEMMA AttemptedRow ==
    ASSUME DeliveriesTyped, NEW d \in Deliveries, delivery[d].state = "active"
    PROVE  OneChanges(d, Attempted(d))
<1> DEFINE n == delivery[d].attempts + 1
           r == [state |-> IF n < PostAttempts THEN "waiting" ELSE "exhausted", attempts |-> n]
<1>1. delivery[d] \in DeliveryRows /\ delivery[d].attempts < PostAttempts
  BY DEF DeliveriesTyped, HasAttempt
<1>2. n \in 0..PostAttempts
  BY <1>1, WebhooksAssumption DEF DeliveryRows
<1>3. r \in DeliveryRows /\ HasAttempt(r)
  BY <1>2 DEF DeliveryRows, HasAttempt
<1>4. Attempted(d) = [delivery EXCEPT ![d] = r]
  BY DEF Attempted
<1> HIDE DEF r
<1> QED BY <1>3, <1>4 DEF OneChanges

\* The state of a delivery changes.
LEMMA StateRow ==
    ASSUME DeliveriesTyped, NEW d \in Deliveries, HasAttempt(delivery[d]),
           NEW s \in {"none", "waiting", "active", "delivered", "skipped", "exhausted", "lost"},
           delivery[d].state \in {"none", "waiting", "active"}
    PROVE  OneChanges(d, [delivery EXCEPT ![d].state = s])
<1> DEFINE r == [delivery[d] EXCEPT !.state = s]
<1>1. delivery[d] \in DeliveryRows
  BY DEF DeliveriesTyped
<1>2. r \in DeliveryRows /\ r.state = s /\ r.attempts = delivery[d].attempts
  BY <1>1 DEF DeliveryRows
<1>3. HasAttempt(r)
  BY <1>2 DEF HasAttempt
<1>4. [delivery EXCEPT ![d].state = s] = [delivery EXCEPT ![d] = r]
  OBVIOUS
<1> HIDE DEF r
<1> QED BY <1>2, <1>3, <1>4 DEF OneChanges

LEMMA DeliveriesTypedStep ==
    PostersTyped /\ DeliveriesTyped /\ [WebhooksNext]_webhookVars => DeliveriesTyped'
<1> SUFFICES ASSUME PostersTyped, DeliveriesTyped, [WebhooksNext]_webhookVars PROVE DeliveriesTyped'
  OBVIOUS
<1>0. /\ posting \in [Posters -> Postings] /\ delivery \in [Deliveries -> DeliveryRows]
      /\ used \in PostUsage /\ \A d \in Deliveries : HasAttempt(delivery[d])
      /\ \A w \in Posters : posting[w] # NotPosting =>
             posting[w].job \in Deliveries /\ delivery[posting[w].job].state = "active"
  BY DEF PostersTyped, DeliveriesTyped, Postings
<1>1. CASE UNCHANGED webhookVars
  BY <1>1 DEF webhookVars, DeliveriesTyped
<1>2. ASSUME NEW d \in Deliveries, NEW test \in BOOLEAN, EnqueueDelivery(d, test) PROVE DeliveriesTyped'
  <2>1. /\ delivery[d].state = "none" /\ posting' = posting
        /\ \E s \in {"waiting", "lost"} : delivery' = [delivery EXCEPT ![d].state = s]
    BY <1>2 DEF EnqueueDelivery
  <2>2. used' \in PostUsage
    BY <1>0, <1>2, PostUsageGrows DEF EnqueueDelivery
  <2>3. OneChanges(d, delivery')
    BY <1>0, <2>1, StateRow
  <2> QED BY <2>1, <2>2, <2>3, DeliveryChanges
<1>3. ASSUME \E active \in BOOLEAN : SetActive(active) \/ RemoveWebhook PROVE DeliveriesTyped'
  BY <1>3, PostUsageGrows DEF SetActive, RemoveWebhook, DeliveriesTyped
<1>4. ASSUME NEW w \in Posters, NEW d \in Deliveries, StartDelivery(w, d) PROVE DeliveriesTyped'
  <2>1. delivery[d].state = "waiting" /\ used' = used /\ posting[w] = NotPosting
    BY <1>4 DEF StartDelivery
  <2>2. CASE /\ delivery' = [delivery EXCEPT ![d].state = "skipped"]
             /\ posting' = [posting EXCEPT ![w] = posting[w]]
    <3>1. posting' = posting
      BY <1>0, <2>2
    <3>2. OneChanges(d, delivery')
      BY <1>0, <2>1, <2>2, StateRow
    <3> QED BY <1>0, <2>1, <3>1, <3>2, DeliveryChanges
  <2>3. CASE /\ delivery' = [delivery EXCEPT ![d].state = "active"]
             /\ posting' = [posting EXCEPT ![w] = [stage |-> "post", job |-> d]]
    <3>1. OneChanges(d, delivery')
      BY <1>0, <2>1, <2>3, StateRow
    <3>2. /\ delivery' \in [Deliveries -> DeliveryRows] /\ HasAttempt(delivery'[d])
          /\ \A e \in Deliveries \ {d} : delivery'[e] = delivery[e]
      BY <1>0, <3>1 DEF OneChanges
    <3>7. delivery'[d].state = "active"
      BY <1>0, <2>3 DEF DeliveryRows
    <3>3. \A v \in Posters : posting'[v] = IF v = w THEN [stage |-> "post", job |-> d] ELSE posting[v]
      BY <1>0, <2>3
    <3>4. \A v \in Posters : posting[v] # NotPosting => posting[v].job # d
      BY <1>0, <2>1
    <3>5. \A v \in Posters : posting'[v] # NotPosting => delivery'[posting'[v].job].state = "active"
      BY <1>0, <3>2, <3>3, <3>4, <3>7
    <3>6. \A u, v \in Posters : u # v /\ posting'[u] # NotPosting /\ posting'[v] # NotPosting =>
                                    posting'[u].job # posting'[v].job
      BY <3>3, <3>4 DEF DeliveriesTyped
    <3> QED BY <1>0, <2>1, <3>2, <3>5, <3>6 DEF DeliveriesTyped
  <2> QED BY <1>4, <2>2, <2>3 DEF StartDelivery
<1>5. ASSUME NEW w \in Posters, NEW stage \in Stages, PostingGoes(w, stage), posting[w] # NotPosting,
             UNCHANGED <<delivery, used>>
      PROVE  DeliveriesTyped'
  <2>1. posting' = [posting EXCEPT ![w] = [posting[w] EXCEPT !.stage = stage]]
    BY <1>5 DEF PostingGoes
  <2>2. [posting[w] EXCEPT !.stage = stage].job = posting[w].job
    BY <1>0, <1>5 DEF Postings
  <2>3. \A v \in Posters : posting'[v] # NotPosting => posting[v] # NotPosting /\ posting'[v].job = posting[v].job
    BY <1>0, <1>5, <2>1, <2>2
  <2> QED BY <1>5, <2>3 DEF DeliveriesTyped
<1>6. ASSUME NEW w \in Posters, posting[w] # NotPosting, StopsPosting(w), used' \in PostUsage,
             \/ delivery' = Attempted(posting[w].job)
             \/ \E s \in {"waiting", "delivered"} : delivery' = [delivery EXCEPT ![posting[w].job].state = s]
      PROVE  DeliveriesTyped'
  <2> DEFINE d == posting[w].job
  <2>1. d \in Deliveries /\ delivery[d].state = "active" /\ posting' = [posting EXCEPT ![w] = NotPosting]
    BY <1>0, <1>6 DEF StopsPosting
  <2>2. OneChanges(d, delivery')
    BY <1>0, <1>6, <2>1, AttemptedRow, StateRow
  <2> QED BY <1>6, <2>1, <2>2, DeliveryChanges
<1>7. ASSUME NEW w \in Posters,
             Post(w) \/ RecordSuccess(w) \/ RecordFailure(w) \/ DisableWebhook(w) \/ CutDelivery(w)
      PROVE  DeliveriesTyped'
  <2>1. posting[w] # NotPosting
    BY <1>7, PostingStep
  <2>2. CASE Post(w)
    BY <1>5, <2>1, <2>2 DEF Post, Stages
  <2>3. CASE RecordSuccess(w)
    BY <1>0, <1>6, <2>1, <2>3 DEF RecordSuccess
  <2>4. CASE RecordFailure(w)
    BY <1>0, <1>5, <1>6, <2>1, <2>4 DEF RecordFailure, Stages
  <2>5. CASE DisableWebhook(w)
    BY <1>0, <1>6, <2>1, <2>5 DEF DisableWebhook
  <2>6. CASE CutDelivery(w)
    <3>1. used' \in PostUsage
      BY <1>0, <2>6, PostUsageGrows DEF CutDelivery
    <3> QED BY <1>6, <2>1, <2>6, <3>1 DEF CutDelivery
  <2> QED BY <1>7, <2>2, <2>3, <2>4, <2>5, <2>6
<1> QED BY <1>1, <1>2, <1>3, <1>4, <1>7 DEF WebhooksNext

LEMMA DeliveriesTypedInit == WebhooksInit => DeliveriesTyped
<1> SUFFICES ASSUME WebhooksInit PROVE DeliveriesTyped
  OBVIOUS
<1>1. 0 \in 0..PostAttempts /\ 0 < PostAttempts /\ 0 \in 0..MaxSwitches /\ 0 \in 0..MaxPostFaults
  BY WebhooksAssumption
<1>2. [state |-> "none", attempts |-> 0] \in DeliveryRows
  BY <1>1 DEF DeliveryRows
<1>3. HasAttempt([state |-> "none", attempts |-> 0])
  BY <1>1 DEF HasAttempt
<1>4. used \in PostUsage
  BY <1>1 DEF WebhooksInit, PostUsage
<1> QED BY <1>2, <1>3, <1>4 DEF WebhooksInit, DeliveriesTyped

LEMMA WebhooksTypes == PostersTyped /\ DeliveriesTyped => WebhooksTypeOK
BY DEF PostersTyped, DeliveriesTyped, WebhooksTypeOK, Postings, DeliveryRows, PostUsage

------------------------------------------------------------------------------
(* Realtime *)

Connections == [open : BOOLEAN, filter : Filters, sent : Seq(Events)]
RealtimeTyped ==
    /\ stream \in [Streams -> Connections]
    /\ listening \in [count : Nat, subject : BOOLEAN]
    /\ commands \in Seq({"subscribe", "unsubscribe"}) /\ channel \in BOOLEAN /\ muted \in BOOLEAN
    /\ arriving \in Seq(Events)
    /\ owed \in [Streams -> Seq(Events)]

OpenStreams == {s \in Streams : stream[s].open}
\* The last command on its way, or the channel when there is none, agrees with the count.
CountsStreams ==
    /\ listening.count = Cardinality(OpenStreams)
    /\ listening.subject <=> listening.count > 0
    /\ commands = <<>> => muted \/ (channel <=> listening.count > 0)
    /\ commands # <<>> => (commands[Len(commands)] = "subscribe" <=> listening.count > 0)

\* Of the events a arriving, the first b were published before a stream with filter
\* f was opened; c counts those it is owed, from those it was sent last.
OnTheWay(a, f, o, sent, b, c) ==
    /\ \A i \in 0..b : c[i] = c[0]
    /\ b > 0 => c[0] = 0
    /\ \A i \in (b + 1)..Len(a) :
           /\ EventMatchesFilter(a[i], f) => c[i] = c[i - 1] + 1 /\ o[c[i]] = a[i]
           /\ ~EventMatchesFilter(a[i], f) => c[i] = c[i - 1]
    /\ c[Len(a)] = Len(o)
    /\ c[0] <= Len(sent) /\ \A j \in 1..c[0] : sent[Len(sent) - c[0] + j] = o[j]
Owes(a, f, o, sent) ==
    \E b \in 0..Len(a), c \in [0..Len(a) -> 0..Len(o)] : OnTheWay(a, f, o, sent, b, c)
StreamsOwed == \A s \in Streams : stream[s].open => Owes(arriving, stream[s].filter, owed[s], stream[s].sent)

RealtimeInv == RealtimeTyped /\ CountsStreams /\ StreamsOwed

\* A stream that opens is owed none of the events on their way.
LEMMA OwesNothing ==
    ASSUME NEW a \in Seq(Events), NEW f PROVE Owes(a, f, <<>>, <<>>)
<1>1. Len(a) \in Nat /\ Len(<<>>) = 0
  OBVIOUS
<1> DEFINE c == [i \in 0..Len(a) |-> 0]
<1>2. c \in [0..Len(a) -> 0..Len(<<>>)] /\ Len(a) \in 0..Len(a) /\ \A i \in 0..Len(a) : c[i] = 0
  BY <1>1
<1>3. OnTheWay(a, f, <<>>, <<>>, Len(a), c)
  <2> HIDE DEF c
  <2> QED BY <1>1, <1>2 DEF OnTheWay
<1> QED BY <1>2, <1>3 DEF Owes

\* An event published is owed if the filter lets it through.
LEMMA OwesPublished ==
    ASSUME NEW a \in Seq(Events), NEW f, NEW o \in Seq(Events), NEW sent \in Seq(Events), NEW e \in Events,
           Owes(a, f, o, sent)
    PROVE  Owes(Append(a, e), f, IF EventMatchesFilter(e, f) THEN Append(o, e) ELSE o, sent)
<1>1. PICK b \in 0..Len(a), c \in [0..Len(a) -> 0..Len(o)] : OnTheWay(a, f, o, sent, b, c)
  BY DEF Owes
<1>2. PICK a2 \in Seq(Events) : a2 = Append(a, e)
  OBVIOUS
<1>3. PICK o2 \in Seq(Events) : o2 = (IF EventMatchesFilter(e, f) THEN Append(o, e) ELSE o)
  <2>1. Append(o, e) \in Seq(Events)
    OBVIOUS
  <2>2. CASE EventMatchesFilter(e, f)
    BY <2>1, <2>2
  <2>3. CASE ~EventMatchesFilter(e, f)
    BY <2>3
  <2> QED BY <2>2, <2>3
<1>4. PICK n \in Nat, q \in Nat : n = Len(a) /\ q = Len(o)
  OBVIOUS
<1>5. Len(a2) = n + 1 /\ a2[n + 1] = e /\ \A i \in 1..n : a2[i] = a[i]
  BY <1>2, <1>4
<1>6. /\ EventMatchesFilter(e, f) => Len(o2) = q + 1 /\ o2[q + 1] = e
      /\ ~EventMatchesFilter(e, f) => Len(o2) = q
      /\ \A i \in 1..q : o2[i] = o[i]
  BY <1>3, <1>4
<1>7. PICK q2 \in Nat : q2 = Len(o2) /\ q2 >= q
  BY <1>6
<1>8. PICK d : d = [i \in 0..(n + 1) |-> IF i <= n THEN c[i] ELSE q2]
  OBVIOUS
<1>9. /\ \A i \in 0..n : d[i] = c[i] /\ c[i] \in 0..q
      /\ d[n + 1] = q2 /\ d \in [0..(n + 1) -> 0..q2]
  <2>1. \A i \in 0..n : i \in 0..(n + 1) /\ i <= n /\ c[i] \in 0..q
    BY <1>1, <1>4
  <2>2. \A i \in 0..n : d[i] = c[i]
    BY <1>8, <2>1
  <2>3. n + 1 \in 0..(n + 1) /\ ~(n + 1 <= n)
    BY <1>4
  <2>4. d[n + 1] = q2
    BY <1>8, <2>3
  <2>5. \A i \in 0..(n + 1) : d[i] \in 0..q2
    <3>1. \A i \in 0..(n + 1) : i \in 0..n \/ i = n + 1
      BY <1>4
    <3>2. \A x \in 0..q : x \in 0..q2
      BY <1>7
    <3>3. \A i \in 0..n : d[i] \in 0..q2
      BY <2>1, <2>2, <3>2
    <3>4. d[n + 1] \in 0..q2
      BY <1>7, <2>4
    <3> QED BY <3>1, <3>3, <3>4
  <2>6. d \in [0..(n + 1) -> 0..q2]
    BY <1>8, <2>5
  <2> QED BY <2>1, <2>2, <2>4, <2>6
<1>10. /\ \A i \in 0..b : c[i] = c[0]
       /\ b > 0 => c[0] = 0
       /\ \A i \in (b + 1)..n :
              /\ EventMatchesFilter(a[i], f) => c[i] = c[i - 1] + 1 /\ o[c[i]] = a[i]
              /\ ~EventMatchesFilter(a[i], f) => c[i] = c[i - 1]
       /\ c[n] = q
       /\ c[0] <= Len(sent) /\ \A j \in 1..c[0] : sent[Len(sent) - c[0] + j] = o[j]
       /\ b \in 0..n
  BY <1>1, <1>4 DEF OnTheWay
<1>11. ASSUME NEW i \in (b + 1)..(n + 1)
       PROVE  /\ EventMatchesFilter(a2[i], f) => d[i] = d[i - 1] + 1 /\ o2[d[i]] = a2[i]
              /\ ~EventMatchesFilter(a2[i], f) => d[i] = d[i - 1]
  <2>1. CASE i \in (b + 1)..n
    <3>1. i \in 0..n /\ i - 1 \in 0..n /\ i \in 1..n
      BY <1>10, <2>1
    <3>2. d[i] = c[i] /\ d[i - 1] = c[i - 1] /\ a2[i] = a[i] /\ c[i] \in 0..q /\ c[i - 1] \in 0..q
      BY <1>5, <1>9, <3>1
    <3>3. EventMatchesFilter(a[i], f) => c[i] = c[i - 1] + 1 /\ o[c[i]] = a[i] /\ c[i] \in 1..q
      <4>1. EventMatchesFilter(a[i], f) => c[i] = c[i - 1] + 1 /\ o[c[i]] = a[i]
        BY <1>10, <2>1
      <4>2. PICK u \in 0..q, v \in 0..q : u = c[i] /\ v = c[i - 1]
        BY <3>2
      <4>3. u = v + 1 => u \in 1..q
        BY <4>2
      <4> QED BY <4>1, <4>2, <4>3
    <3>4. ~EventMatchesFilter(a[i], f) => c[i] = c[i - 1]
      BY <1>10, <2>1
    <3> QED BY <1>6, <3>2, <3>3, <3>4
  <2>2. CASE i = n + 1
    <3>1. d[i] = q2 /\ d[i - 1] = q /\ a2[i] = e
      BY <1>5, <1>9, <1>10, <2>2
    <3> QED BY <1>6, <1>7, <3>1
  <2> QED BY <1>10, <2>1, <2>2
<1>12. /\ \A i \in 0..b : d[i] = d[0]
       /\ b > 0 => d[0] = 0
       /\ d[n + 1] = q2
       /\ d[0] <= Len(sent) /\ \A j \in 1..d[0] : sent[Len(sent) - d[0] + j] = o2[j]
  <2>1. d[0] = c[0] /\ c[0] \in 0..q /\ \A i \in 0..b : d[i] = c[i]
    BY <1>9, <1>10
  <2>2. \A j \in 1..c[0] : o2[j] = o[j]
    <3>1. PICK u \in 0..q : u = c[0]
      BY <2>1
    <3>2. \A j \in 1..u : j \in 1..q
      BY <3>1
    <3> QED BY <1>6, <3>1, <3>2
  <2> QED BY <1>9, <1>10, <2>1, <2>2
<1>13. OnTheWay(a2, f, o2, sent, b, d)
  BY <1>5, <1>7, <1>11, <1>12 DEF OnTheWay
<1>14. b \in 0..Len(a2) /\ d \in [0..Len(a2) -> 0..Len(o2)]
  BY <1>5, <1>7, <1>9, <1>10
<1> QED BY <1>2, <1>3, <1>13, <1>14 DEF Owes

\* The next event to arrive is the next one owed, or was published before the stream opened.
LEMMA OwesFannedOut ==
    ASSUME NEW a \in Seq(Events), NEW f, NEW o \in Seq(Events), NEW sent \in Seq(Events), a # <<>>,
           Owes(a, f, o, sent)
    PROVE  Owes(Tail(a), f, o, IF EventMatchesFilter(Head(a), f) THEN Append(sent, Head(a)) ELSE sent)
<1>1. PICK b \in 0..Len(a), c \in [0..Len(a) -> 0..Len(o)] : OnTheWay(a, f, o, sent, b, c)
  BY DEF Owes
<1>2. PICK a2 \in Seq(Events) : a2 = Tail(a)
  BY HeadTailProperties
<1>3. PICK s2 \in Seq(Events) : s2 = (IF EventMatchesFilter(Head(a), f) THEN Append(sent, Head(a)) ELSE sent)
  <2>1. Append(sent, Head(a)) \in Seq(Events)
    BY HeadTailProperties
  <2>2. CASE EventMatchesFilter(Head(a), f)
    BY <2>1, <2>2
  <2>3. CASE ~EventMatchesFilter(Head(a), f)
    BY <2>3
  <2> QED BY <2>2, <2>3
<1>4. PICK n \in Nat, q \in Nat, l \in Nat : n = Len(a2) /\ q = Len(o) /\ l = Len(sent)
  OBVIOUS
<1>5. Len(a) = n + 1 /\ Head(a) = a[1] /\ \A i \in 1..n : a2[i] = a[i + 1]
  BY <1>2, <1>4, HeadTailProperties
<1>6. /\ EventMatchesFilter(a[1], f) => Len(s2) = l + 1 /\ s2[l + 1] = a[1]
      /\ ~EventMatchesFilter(a[1], f) => Len(s2) = l
      /\ \A j \in 1..l : s2[j] = sent[j]
  BY <1>3, <1>4, <1>5
<1>7. /\ \A i \in 0..b : c[i] = c[0]
      /\ b > 0 => c[0] = 0
      /\ \A i \in (b + 1)..(n + 1) :
             /\ EventMatchesFilter(a[i], f) => c[i] = c[i - 1] + 1 /\ o[c[i]] = a[i]
             /\ ~EventMatchesFilter(a[i], f) => c[i] = c[i - 1]
      /\ c[n + 1] = q
      /\ c[0] <= l /\ \A j \in 1..c[0] : sent[l - c[0] + j] = o[j]
      /\ b \in 0..(n + 1) /\ \A i \in 0..(n + 1) : c[i] \in 0..q
  BY <1>1, <1>4, <1>5 DEF OnTheWay
<1>8. PICK d : d = [i \in 0..n |-> c[i + 1]]
  OBVIOUS
<1>9. d \in [0..n -> 0..q] /\ \A i \in 0..n : d[i] = c[i + 1]
  <2>1. \A i \in 0..n : i + 1 \in 0..(n + 1)
    BY <1>4
  <2> QED BY <1>7, <1>8, <2>1
<1>10. PICK b2 \in 0..n : b2 = (IF b = 0 THEN 0 ELSE b - 1)
  BY <1>7
<1>11. ASSUME NEW i \in (b2 + 1)..n
       PROVE  /\ EventMatchesFilter(a2[i], f) => d[i] = d[i - 1] + 1 /\ o[d[i]] = a2[i]
              /\ ~EventMatchesFilter(a2[i], f) => d[i] = d[i - 1]
  <2>1. i + 1 \in (b + 1)..(n + 1) /\ i \in 0..n /\ i - 1 \in 0..n /\ i \in 1..n
    BY <1>7, <1>10
  <2>2. d[i] = c[i + 1] /\ d[i - 1] = c[i] /\ a2[i] = a[i + 1]
    BY <1>5, <1>9, <2>1
  <2>3. /\ EventMatchesFilter(a[i + 1], f) => c[i + 1] = c[i] + 1 /\ o[c[i + 1]] = a[i + 1]
        /\ ~EventMatchesFilter(a[i + 1], f) => c[i + 1] = c[i]
    <3>1. (i + 1) - 1 = i
      BY <2>1
    <3> QED BY <1>7, <2>1, <3>1
  <2> QED BY <2>2, <2>3
<1>12. \A i \in 0..b2 : d[i] = d[0]
  <2>1. CASE b = 0
    BY <1>10, <2>1
  <2>2. CASE b > 0
    <3>0. b \in Nat /\ b2 = b - 1 /\ b2 \in 0..n
      BY <1>10, <2>2
    <3>1. \A i \in 0..b2 : i + 1 \in 0..b /\ i \in 0..n
      BY <2>2, <3>0
    <3>2. \A i \in 0..b2 : d[i] = c[0]
      BY <1>7, <1>9, <3>1
    <3> QED BY <1>10, <3>2
  <2> QED BY <1>7, <2>1, <2>2
<1>13. b2 > 0 => d[0] = 0
  <2>1. b2 > 0 => 1 \in 0..b /\ 0 \in 0..n /\ b > 0
    BY <1>7, <1>10
  <2> QED BY <1>7, <1>9, <2>1
<1>14. d[n] = q
  BY <1>7, <1>9
<1>15. d[0] <= Len(s2) /\ \A j \in 1..d[0] : s2[Len(s2) - d[0] + j] = o[j]
  <2>1. PICK u \in Nat, v \in Nat : u = c[0] /\ v = c[1] /\ v = d[0]
    <3>1. 0 \in 0..n /\ 0 + 1 = 1 /\ 0 \in 0..(n + 1) /\ 1 \in 0..(n + 1)
      BY <1>4
    <3>2. c[0] \in 0..q /\ c[1] \in 0..q /\ d[0] = c[1]
      BY <1>7, <1>9, <3>1
    <3> QED BY <3>2
  <2>2. u <= l /\ \A j \in 1..u : sent[l - u + j] = o[j]
    BY <1>7, <2>1
  <2>3. CASE b > 0
    <3>0. 1 \in 0..b
      BY <1>7, <2>3
    <3>1. v = 0
      BY <1>7, <2>1, <2>3, <3>0
    <3> QED BY <1>6, <2>1, <3>1
  <2>4. CASE b = 0 /\ ~EventMatchesFilter(a[1], f)
    <3>0. 1 \in (b + 1)..(n + 1) /\ 1 - 1 = 0
      BY <1>4, <2>4
    <3>1. v = u /\ Len(s2) = l
      BY <1>6, <1>7, <2>1, <2>4, <3>0
    <3>2. \A j \in 1..u : l - u + j \in 1..l
      BY <2>2
    <3>3. \A j \in 1..u : s2[l - u + j] = o[j]
      BY <1>6, <2>2, <3>2
    <3> QED BY <2>1, <2>2, <3>1, <3>3
  <2>5. CASE b = 0 /\ EventMatchesFilter(a[1], f)
    <3>0. 1 \in (b + 1)..(n + 1) /\ 1 - 1 = 0
      BY <1>4, <2>5
    <3>1. v = u + 1 /\ o[v] = a[1] /\ Len(s2) = l + 1 /\ s2[l + 1] = a[1]
      BY <1>6, <1>7, <2>1, <2>5, <3>0
    <3>2. ASSUME NEW j \in 1..v PROVE s2[Len(s2) - v + j] = o[j]
      <4>1. Len(s2) - v + j = l - u + j
        BY <3>1
      <4>2. CASE j = v
        <5>1. l - u + j = l + 1
          BY <3>1, <4>2
        <5> QED BY <3>1, <4>1, <4>2, <5>1
      <4>3. CASE j # v
        <5>1. j \in 1..u /\ l - u + j \in 1..l
          BY <2>2, <3>1, <4>3
        <5> QED BY <1>6, <2>2, <4>1, <5>1
      <4> QED BY <4>2, <4>3
    <3>3. v <= Len(s2)
      BY <2>2, <3>1
    <3> QED BY <2>1, <3>2, <3>3
  <2> QED BY <1>7, <2>3, <2>4, <2>5
<1>16. OnTheWay(a2, f, o, s2, b2, d)
  BY <1>4, <1>11, <1>12, <1>13, <1>14, <1>15 DEF OnTheWay
<1>17. b2 \in 0..Len(a2) /\ d \in [0..Len(a2) -> 0..Len(o)]
  BY <1>4, <1>9
<1> QED BY <1>2, <1>3, <1>16, <1>17 DEF Owes

\* Once nothing is on its way, a stream was last sent what it is owed.
LEMMA OwesSent ==
    ASSUME NEW f, NEW o \in Seq(Events), NEW sent \in Seq(Events), Owes(<<>>, f, o, sent)
    PROVE  LET n == Len(sent) - Len(o) IN n >= 0 /\ SubSeq(sent, n + 1, Len(sent)) = o
<1>1. PICK b \in 0..Len(<<>>), c \in [0..Len(<<>>) -> 0..Len(o)] : OnTheWay(<<>>, f, o, sent, b, c)
  BY DEF Owes
<1>2. PICK q \in Nat, l \in Nat : q = Len(o) /\ l = Len(sent)
  OBVIOUS
<1>3. Len(<<>>) = 0
  OBVIOUS
<1>4. c[0] = q /\ q <= l /\ \A j \in 1..q : sent[l - q + j] = o[j]
  BY <1>1, <1>2, <1>3 DEF OnTheWay
<1>5. PICK n \in Nat : n = l - q
  BY <1>4
<1>6. PICK t : t = SubSeq(sent, n + 1, l)
  OBVIOUS
<1>7. t \in Seq(Events) /\ Len(t) = q /\ \A j \in 1..q : t[j] = sent[n + j]
  <2>1. n + 1 >= 1 /\ n + 1 \in Int /\ l \in Int /\ l <= Len(sent) /\ n + q = l
    BY <1>2, <1>4, <1>5
  <2>2. t \in Seq(Events) /\ Len(t) = (IF n + 1 <= l THEN l - (n + 1) + 1 ELSE 0)
        /\ \A j \in 1..(l - (n + 1) + 1) : t[j] = sent[(n + 1) + j - 1]
    BY <1>2, <1>6, <2>1, SubSeqProperties
  <2> QED BY <2>1, <2>2
<1>8. \A j \in 1..q : t[j] = o[j]
  BY <1>4, <1>5, <1>7
<1>9. t = o
  BY <1>2, <1>7, <1>8, SeqEqual
<1>10. Len(sent) - Len(o) = n /\ n >= 0 /\ SubSeq(sent, n + 1, Len(sent)) = o
  <2>1. l - q = n /\ n >= 0
    BY <1>2, <1>4, <1>5
  <2>2. SubSeq(sent, n + 1, l) = o
    BY <1>6, <1>9
  <2> QED BY <1>2, <2>1, <2>2
<1> QED BY <1>10

\* Appending sets the last element; taking the first away leaves it.
LEMMA LastCommand ==
    ASSUME NEW S, NEW c \in Seq(S)
    PROVE  /\ \A x \in S : /\ Append(c, x) \in Seq(S) /\ Append(c, x) # <<>>
                           /\ Append(c, x)[Len(Append(c, x))] = x
           /\ c # <<>> => /\ Head(c) \in S /\ Tail(c) \in Seq(S)
                          /\ Tail(c) = <<>> => Head(c) = c[Len(c)]
                          /\ Tail(c) # <<>> => Tail(c)[Len(Tail(c))] = c[Len(c)]
<1>1. ASSUME NEW x \in S
      PROVE  /\ Append(c, x) \in Seq(S) /\ Append(c, x) # <<>>
             /\ Append(c, x)[Len(Append(c, x))] = x
  BY AppendProperties
<1>2. ASSUME c # <<>>
      PROVE  /\ Head(c) \in S /\ Tail(c) \in Seq(S)
             /\ Tail(c) = <<>> => Head(c) = c[Len(c)]
             /\ Tail(c) # <<>> => Tail(c)[Len(Tail(c))] = c[Len(c)]
  <2>1. /\ Head(c) \in S /\ Tail(c) \in Seq(S) /\ Head(c) = c[1]
        /\ Len(Tail(c)) = Len(c) - 1 /\ \A i \in 1..Len(Tail(c)) : Tail(c)[i] = c[i + 1]
    BY <1>2, HeadTailProperties
  <2>2. PICK t \in Seq(S) : t = Tail(c)
    BY <2>1
  <2>3. PICK n \in Nat : n = Len(t) /\ Len(c) = n + 1
    <3>1. Len(t) \in Nat /\ Len(c) \in Nat /\ Len(t) = Len(c) - 1
      BY <2>1, <2>2
    <3> QED BY <3>1
  <2>4. t = <<>> => n = 0
    BY <2>3
  <2>5. t # <<>> => n \in 1..n
    BY <2>2, <2>3, EmptySeq
  <2> QED BY <2>1, <2>2, <2>3, <2>4, <2>5
<1> QED BY <1>1, <1>2

LEMMA StreamsCounted ==
    /\ IsFiniteSet(OpenStreams) /\ Cardinality(OpenStreams) \in Nat
    /\ Cardinality(OpenStreams) = 0 <=> OpenStreams = {}
<1>1. OpenStreams \in SUBSET Streams
  BY DEF OpenStreams
<1>2. IsFiniteSet(OpenStreams)
  BY <1>1, FS_Subset, RealtimeAssumption
<1> QED BY <1>2, FS_CardinalityType, FS_EmptySet

LEMMA RealtimeInitial == RealtimeInit => RealtimeInv
<1> SUFFICES ASSUME RealtimeInit PROVE RealtimeInv
  OBVIOUS
<1> USE DEF RealtimeInit
<1>1. NoFilter \in Filters /\ Closed \in Connections
  BY DEF NoFilter, Filters, Closed, Connections
<1>2. RealtimeTyped
  <2>1. <<>> \in Seq(Events) /\ <<>> \in Seq({"subscribe", "unsubscribe"})
    OBVIOUS
  <2>2. stream \in [Streams -> Connections] /\ owed \in [Streams -> Seq(Events)]
    BY <1>1, <2>1
  <2>3. listening \in [count : Nat, subject : BOOLEAN]
    OBVIOUS
  <2> QED BY <2>1, <2>2, <2>3 DEF RealtimeTyped
<1>3. OpenStreams = {}
  BY DEF OpenStreams, Closed
<1>4. CountsStreams
  BY <1>3, FS_EmptySet DEF CountsStreams
<1>5. StreamsOwed
  BY DEF StreamsOwed, Closed
<1> QED BY <1>2, <1>4, <1>5 DEF RealtimeInv

LEMMA RealtimeOpens ==
    ASSUME RealtimeInv, NEW s \in Streams, NEW f \in Filters, OpenStream(s, f) PROVE RealtimeInv'
<1> USE DEF RealtimeInv
<1>0. <<>> \in Seq(Events) /\ [open |-> TRUE, filter |-> f, sent |-> <<>>] \in Connections
  BY DEF Connections
<1>1. /\ stream' \in [Streams -> Connections] /\ owed' \in [Streams -> Seq(Events)]
      /\ stream'[s] = [open |-> TRUE, filter |-> f, sent |-> <<>>] /\ owed'[s] = <<>>
      /\ \A t \in Streams \ {s} : stream'[t] = stream[t] /\ owed'[t] = owed[t]
  BY <1>0 DEF OpenStream, RealtimeTyped
<1>2. commands' \in Seq({"subscribe", "unsubscribe"})
  <2>1. Append(commands, "subscribe") \in Seq({"subscribe", "unsubscribe"})
    BY LastCommand DEF RealtimeTyped
  <2> QED BY <2>1 DEF OpenStream, RealtimeTyped
<1>3. RealtimeTyped'
  BY <1>1, <1>2 DEF OpenStream, RealtimeTyped
<1>4. OpenStreams' = OpenStreams \cup {s} /\ s \notin OpenStreams
  BY <1>1 DEF OpenStreams, OpenStream
<1>5. listening'.count = Cardinality(OpenStreams') /\ listening'.count > 0 /\ listening'.subject
  <2>1. Cardinality(OpenStreams') = listening.count + 1
    <3>1. IsFiniteSet(OpenStreams)
      BY StreamsCounted
    <3>2. Cardinality(OpenStreams \cup {s}) = Cardinality(OpenStreams) + 1
      BY <1>4, <3>1, FS_AddElement
    <3> QED BY <1>4, <3>2 DEF CountsStreams
  <2>2. listening' = [count |-> listening.count + 1, subject |-> TRUE] /\ listening.count \in Nat
    BY DEF OpenStream, RealtimeTyped
  <2> QED BY <2>1, <2>2
<1>6. /\ commands' = <<>> => muted' \/ (channel' <=> listening'.count > 0)
      /\ commands' # <<>> => (commands'[Len(commands')] = "subscribe" <=> listening'.count > 0)
  <2>1. CASE listening.count = 0
    <3>1. commands' = Append(commands, "subscribe")
      BY <2>1 DEF OpenStream, FirstStream
    <3>2. commands' # <<>> /\ commands'[Len(commands')] = "subscribe"
      <4>1. "subscribe" \in {"subscribe", "unsubscribe"} /\ commands \in Seq({"subscribe", "unsubscribe"})
        BY DEF RealtimeTyped
      <4>2. /\ Append(commands, "subscribe") # <<>>
            /\ Append(commands, "subscribe")[Len(Append(commands, "subscribe"))] = "subscribe"
        BY ONLY <4>1, LastCommand
      <4> QED BY <3>1, <4>2
    <3> QED BY <1>5, <3>2
  <2>2. CASE listening.count > 0
    <3>1. commands' = commands /\ channel' = channel /\ muted' = muted
      BY <2>2 DEF OpenStream, FirstStream
    <3> QED BY <1>5, <2>2, <3>1 DEF CountsStreams
  <2> QED BY <2>1, <2>2 DEF RealtimeTyped
<1>7. CountsStreams'
  BY <1>5, <1>6 DEF CountsStreams
<1>8. StreamsOwed'
  <2>1. ASSUME NEW t \in Streams, stream'[t].open
        PROVE  Owes(arriving', stream'[t].filter, owed'[t], stream'[t].sent)
    <3>1. arriving' = arriving /\ arriving \in Seq(Events)
      BY DEF OpenStream, RealtimeTyped
    <3>2. CASE t = s
      BY <1>1, <3>1, <3>2, OwesNothing
    <3>3. CASE t # s
      BY <1>1, <2>1, <3>1, <3>3 DEF StreamsOwed
    <3> QED BY <3>2, <3>3
  <2> QED BY <2>1 DEF StreamsOwed
<1> QED BY <1>3, <1>7, <1>8

LEMMA RealtimeCloses ==
    ASSUME RealtimeInv, NEW s \in Streams, CloseStream(s) PROVE RealtimeInv'
<1> USE DEF RealtimeInv
<1>0. <<>> \in Seq(Events) /\ Closed \in Connections
  BY DEF Connections, Closed, NoFilter, Filters
<1>1. /\ stream' \in [Streams -> Connections] /\ owed' \in [Streams -> Seq(Events)]
      /\ stream'[s] = Closed /\ owed'[s] = <<>>
      /\ \A t \in Streams \ {s} : stream'[t] = stream[t] /\ owed'[t] = owed[t]
  BY <1>0 DEF CloseStream, RealtimeTyped
<1>2. OpenStreams' = OpenStreams \ {s} /\ s \in OpenStreams
  BY <1>1 DEF OpenStreams, CloseStream, Closed
<1>3. PICK n \in Nat : n = Cardinality(OpenStreams') /\ listening.count = n + 1
  <2>1. PICK m \in Nat : m = Cardinality(OpenStreams) /\ m = listening.count /\ m # 0
    BY <1>2, StreamsCounted DEF CountsStreams
  <2>2. Cardinality(OpenStreams') = m - 1
    BY <1>2, <2>1, StreamsCounted, FS_RemoveElement
  <2> QED BY <2>1, <2>2
<1>4. listening' = [count |-> n, subject |-> n > 0]
  BY <1>3 DEF CloseStream
<1>5. commands' = IF n > 0 THEN commands ELSE Append(commands, "unsubscribe")
  BY <1>3 DEF CloseStream
<1>6. Append(commands, "unsubscribe") \in Seq({"subscribe", "unsubscribe"})
  BY LastCommand DEF RealtimeTyped
<1>7. RealtimeTyped'
  BY <1>1, <1>4, <1>5, <1>6 DEF CloseStream, RealtimeTyped
<1>8. /\ commands' = <<>> => muted' \/ (channel' <=> listening'.count > 0)
      /\ commands' # <<>> => (commands'[Len(commands')] = "subscribe" <=> listening'.count > 0)
  <2>1. CASE n = 0
    <3>1. commands' = Append(commands, "unsubscribe")
      BY <1>5, <2>1
    <3> QED BY <1>4, <2>1, <3>1, LastCommand DEF RealtimeTyped
  <2>2. CASE n > 0
    <3>1. commands' = commands /\ channel' = channel /\ muted' = muted
      BY <1>5, <2>2 DEF CloseStream
    <3>2. listening.count > 0 /\ listening'.count > 0
      BY <1>3, <1>4, <2>2
    <3> QED BY <3>1, <3>2 DEF CountsStreams
  <2> QED BY <2>1, <2>2
<1>9. CountsStreams'
  BY <1>3, <1>4, <1>8 DEF CountsStreams
<1>10. StreamsOwed'
  BY <1>1 DEF StreamsOwed, CloseStream, Closed
<1> QED BY <1>7, <1>9, <1>10

LEMMA RealtimeCommands ==
    ASSUME RealtimeInv, ExecuteCommand \/ LoseCommand PROVE RealtimeInv'
<1> USE DEF RealtimeInv
<1>1. /\ commands # <<>> /\ commands' = Tail(commands)
      /\ UNCHANGED <<stream, listening, arriving, owed>>
      /\ muted' \/ channel' = (Head(commands) = "subscribe")
      /\ muted' \in BOOLEAN /\ channel' \in BOOLEAN
  BY DEF ExecuteCommand, LoseCommand, RealtimeTyped
<1>2. /\ Head(commands) \in {"subscribe", "unsubscribe"}
      /\ commands' \in Seq({"subscribe", "unsubscribe"})
      /\ commands' = <<>> => Head(commands) = commands[Len(commands)]
      /\ commands' # <<>> => commands'[Len(commands')] = commands[Len(commands)]
  BY <1>1, LastCommand DEF RealtimeTyped
<1>3. RealtimeTyped'
  BY <1>1, <1>2 DEF RealtimeTyped
<1>4. OpenStreams' = OpenStreams
  BY <1>1 DEF OpenStreams
<1>5. /\ commands' = <<>> => muted' \/ (channel' <=> listening'.count > 0)
      /\ commands' # <<>> => (commands'[Len(commands')] = "subscribe" <=> listening'.count > 0)
  BY <1>1, <1>2 DEF CountsStreams
<1>6. CountsStreams'
  BY <1>1, <1>4, <1>5 DEF CountsStreams
<1>7. StreamsOwed'
  BY <1>1 DEF StreamsOwed
<1> QED BY <1>3, <1>6, <1>7

LEMMA RealtimePublishes ==
    ASSUME RealtimeInv, NEW e \in Events, Publish(e) PROVE RealtimeInv'
<1> USE DEF RealtimeInv
<1>1. arriving \in Seq(Events) /\ Append(arriving, e) \in Seq(Events)
  BY DEF RealtimeTyped
<1>2. ASSUME NEW t \in Streams
      PROVE  /\ owed[t] \in Seq(Events) /\ Append(owed[t], e) \in Seq(Events)
             /\ owed'[t] = IF channel /\ stream[t].open /\ EventMatchesFilter(e, stream[t].filter)
                           THEN Append(owed[t], e) ELSE owed[t]
  BY DEF RealtimeTyped, Publish
<1>3. owed' \in [Streams -> Seq(Events)]
  BY <1>2 DEF Publish
<1>4. RealtimeTyped'
  BY <1>1, <1>3 DEF RealtimeTyped, Publish
<1>5. OpenStreams' = OpenStreams
  BY DEF OpenStreams, Publish
<1>6. CountsStreams'
  BY <1>5 DEF CountsStreams, Publish
<1>7. StreamsOwed'
  <2>1. ASSUME NEW t \in Streams, stream'[t].open
        PROVE  Owes(arriving', stream'[t].filter, owed'[t], stream'[t].sent)
    <3>1. stream' = stream /\ stream[t].open /\ stream[t].sent \in Seq(Events)
      BY <2>1 DEF Publish, RealtimeTyped, Connections
    <3>2. Owes(arriving, stream[t].filter, owed[t], stream[t].sent)
      BY <3>1 DEF StreamsOwed
    <3>3. CASE ~channel
      BY <1>2, <3>1, <3>2, <3>3 DEF Publish
    <3>4. CASE channel
      <4>1. PICK f : f = stream[t].filter
        OBVIOUS
      <4>2. arriving' = Append(arriving, e)
        BY <3>4 DEF Publish
      <4>3. owed'[t] = IF EventMatchesFilter(e, f) THEN Append(owed[t], e) ELSE owed[t]
        BY <1>2, <3>1, <3>4, <4>1
      <4>4. Owes(Append(arriving, e), f,
                 IF EventMatchesFilter(e, f) THEN Append(owed[t], e) ELSE owed[t], stream[t].sent)
        BY <1>1, <1>2, <3>1, <3>2, <4>1, OwesPublished
      <4> QED BY <3>1, <4>1, <4>2, <4>3, <4>4
    <3> QED BY <3>3, <3>4 DEF RealtimeTyped
  <2> QED BY <2>1 DEF StreamsOwed
<1> QED BY <1>4, <1>6, <1>7

LEMMA RealtimeFansOut == RealtimeInv /\ FanOut => RealtimeInv'
<1> SUFFICES ASSUME RealtimeInv, FanOut PROVE RealtimeInv'
  OBVIOUS
<1> USE DEF RealtimeInv
<1>1. PICK e \in Events : e = Head(arriving)
  BY HeadTailProperties DEF FanOut, RealtimeTyped
<1>2. arriving \in Seq(Events) /\ arriving # <<>> /\ arriving' = Tail(arriving) /\ arriving' \in Seq(Events)
  BY HeadTailProperties DEF FanOut, RealtimeTyped
<1>3. ASSUME NEW t \in Streams
      PROVE  /\ stream[t] \in Connections /\ stream'[t] \in Connections
             /\ stream'[t].open = stream[t].open /\ stream'[t].filter = stream[t].filter
             /\ stream'[t].sent = IF listening.subject /\ stream[t].open /\ EventMatchesFilter(e, stream[t].filter)
                                  THEN Append(stream[t].sent, e) ELSE stream[t].sent
  <2>1. stream[t] \in Connections /\ stream[t].sent \in Seq(Events)
    BY DEF RealtimeTyped, Connections
  <2>2. Append(stream[t].sent, e) \in Seq(Events)
    BY <2>1
  <2>3. stream'[t] = IF listening.subject /\ stream[t].open /\ EventMatchesFilter(e, stream[t].filter)
                     THEN [stream[t] EXCEPT !.sent = Append(stream[t].sent, e)] ELSE stream[t]
    BY <1>1 DEF FanOut
  <2>4. CASE listening.subject /\ stream[t].open /\ EventMatchesFilter(e, stream[t].filter)
    BY <2>1, <2>2, <2>3, <2>4 DEF Connections
  <2>5. CASE ~(listening.subject /\ stream[t].open /\ EventMatchesFilter(e, stream[t].filter))
    BY <2>1, <2>3, <2>5
  <2> QED BY <2>4, <2>5
<1>4. stream' \in [Streams -> Connections]
  BY <1>3 DEF FanOut
<1>5. RealtimeTyped'
  BY <1>2, <1>4 DEF RealtimeTyped, FanOut
<1>6. OpenStreams' = OpenStreams
  BY <1>3 DEF OpenStreams
<1>7. CountsStreams'
  BY <1>6 DEF CountsStreams, FanOut
<1>8. StreamsOwed'
  <2>1. ASSUME NEW t \in Streams, stream'[t].open
        PROVE  Owes(arriving', stream'[t].filter, owed'[t], stream'[t].sent)
    <3>1. stream[t].open /\ stream[t].sent \in Seq(Events) /\ owed[t] \in Seq(Events) /\ owed' = owed
      BY <1>3, <2>1 DEF FanOut, RealtimeTyped, Connections
    <3>2. listening.subject
      <4>1. t \in OpenStreams
        BY <3>1 DEF OpenStreams
      <4> QED BY <4>1, StreamsCounted DEF CountsStreams
    <3>3. PICK f : f = stream[t].filter
      OBVIOUS
    <3>4. Owes(arriving, f, owed[t], stream[t].sent)
      BY <3>1, <3>3 DEF StreamsOwed
    <3>5. Owes(Tail(arriving), f, owed[t],
               IF EventMatchesFilter(Head(arriving), f) THEN Append(stream[t].sent, Head(arriving)) ELSE stream[t].sent)
      BY <1>2, <3>1, <3>4, OwesFannedOut
    <3>6. stream'[t].sent = IF EventMatchesFilter(e, f) THEN Append(stream[t].sent, e) ELSE stream[t].sent
      BY <1>3, <3>1, <3>2, <3>3
    <3> QED BY <1>1, <1>2, <1>3, <3>1, <3>3, <3>5, <3>6
  <2> QED BY <2>1 DEF StreamsOwed
<1> QED BY <1>5, <1>7, <1>8

LEMMA RealtimeStep == RealtimeInv /\ [RealtimeNext]_realtimeVars => RealtimeInv'
<1>1. RealtimeInv /\ RealtimeNext => RealtimeInv'
  BY RealtimeOpens, RealtimeCloses, RealtimeCommands, RealtimePublishes, RealtimeFansOut DEF RealtimeNext
<1>2. RealtimeInv /\ UNCHANGED realtimeVars => RealtimeInv'
  BY DEF RealtimeInv, RealtimeTyped, CountsStreams, StreamsOwed, OpenStreams, realtimeVars
<1> QED BY <1>1, <1>2

LEMMA RealtimeHolds == RealtimeSpec => []RealtimeInv
BY RealtimeStep, RealtimeInitial, PTL DEF RealtimeSpec

(***************************************************************************)
(* However streams open and close, the process is subscribed when and only *)
(* when one is open, and each is sent, in order, all the events Redis      *)
(* passed on since it was opened: subscribe, the teardown and the message  *)
(* handler of realtime.service.ts.                                         *)
(***************************************************************************)
THEOREM StreamsAreServed == RealtimeSpec => []StreamsGetEvents
<1>1. RealtimeInv => StreamsGetEvents
  <2> SUFFICES ASSUME RealtimeInv PROVE StreamsGetEvents
    OBVIOUS
  <2> USE DEF RealtimeInv
  <2>1. commands = <<>> => (channel <=> \E s \in Streams : stream[s].open) \/ muted
    <3>1. listening.count > 0 <=> \E s \in Streams : stream[s].open
      BY StreamsCounted DEF CountsStreams, OpenStreams
    <3> QED BY <3>1 DEF CountsStreams
  <2>2. ASSUME NEW s \in Streams, arriving = <<>>, stream[s].open
        PROVE  LET n == Len(stream[s].sent) - Len(owed[s])
               IN n >= 0 /\ SubSeq(stream[s].sent, n + 1, Len(stream[s].sent)) = owed[s]
    <3>1. stream[s].sent \in Seq(Events) /\ owed[s] \in Seq(Events)
      BY DEF RealtimeTyped, Connections
    <3>2. Owes(<<>>, stream[s].filter, owed[s], stream[s].sent)
      BY <2>2 DEF StreamsOwed
    <3> QED BY <3>1, <3>2, OwesSent
  <2> QED BY <2>1, <2>2 DEF StreamsGetEvents
<1> QED BY <1>1, RealtimeHolds, PTL

UsageCounted ==
    /\ usage \in [opens : 0..MaxOpens, published : 0..MaxPublished, outages : 0..MaxOutages]
    /\ listening.count <= usage.opens

LEMMA UsageCountedInit == RealtimeInit => UsageCounted
BY RealtimeAssumption DEF RealtimeInit, UsageCounted

LEMMA UsageCountedStep == RealtimeInv /\ UsageCounted /\ [RealtimeNext]_realtimeVars => UsageCounted'
<1> SUFFICES ASSUME RealtimeInv, UsageCounted, [RealtimeNext]_realtimeVars PROVE UsageCounted'
  OBVIOUS
<1> USE DEF UsageCounted
<1>0. MaxOpens \in Nat /\ MaxPublished \in Nat /\ MaxOutages \in Nat /\ listening.count \in Nat
  BY RealtimeAssumption DEF RealtimeInv, RealtimeTyped
<1>1. ASSUME NEW s \in Streams, NEW f \in Filters, OpenStream(s, f) PROVE UsageCounted'
  <2>1. PICK n \in 0..MaxOpens : n = usage.opens + 1 /\ listening.count + 1 <= n
    BY <1>0, <1>1 DEF OpenStream
  <2>2. usage' = [usage EXCEPT !.opens = n] /\ listening'.count = listening.count + 1
    BY <1>1, <2>1 DEF OpenStream
  <2> QED BY <2>1, <2>2
<1>2. ASSUME NEW s \in Streams, CloseStream(s) PROVE UsageCounted'
  BY <1>0, <1>2 DEF CloseStream
<1>3. ASSUME NEW e \in Events, Publish(e) PROVE UsageCounted'
  <2>1. PICK n \in 0..MaxPublished : n = usage.published + 1
    BY <1>0, <1>3 DEF Publish
  <2>2. usage' = [usage EXCEPT !.published = n] /\ listening' = listening
    BY <1>3, <2>1 DEF Publish
  <2> QED BY <2>1, <2>2
<1>4. CASE LoseCommand
  <2>1. PICK n \in 0..MaxOutages : n = usage.outages + 1
    BY <1>0, <1>4 DEF LoseCommand
  <2>2. usage' = [usage EXCEPT !.outages = n] /\ listening' = listening
    BY <1>4, <2>1 DEF LoseCommand
  <2> QED BY <2>1, <2>2
<1>5. CASE ExecuteCommand \/ FanOut \/ UNCHANGED realtimeVars
  BY <1>5 DEF ExecuteCommand, FanOut, realtimeVars
<1> QED BY <1>1, <1>2, <1>3, <1>4, <1>5 DEF RealtimeNext

LEMMA RealtimeTypes == RealtimeInv /\ UsageCounted => RealtimeTypeOK
<1> SUFFICES ASSUME RealtimeInv, UsageCounted PROVE RealtimeTypeOK
  OBVIOUS
<1>1. listening.count \in 0..MaxOpens
  BY RealtimeAssumption DEF RealtimeInv, RealtimeTyped, UsageCounted
<1> QED BY <1>1 DEF RealtimeInv, RealtimeTyped, UsageCounted, RealtimeTypeOK, Connections

------------------------------------------------------------------------------
(* MCServices: the invariant of the component at work is inductive, whatever *)
(* the others rest in.                                                       *)

ServicesInv ==
    /\ part = "engine" => EngineInv /\ EngineBounded
    /\ part = "accounts" => AccountInv /\ AccountsBounded
    /\ part = "accessCache" => AccessKinds /\ AccessBounded
    /\ part = "onboarding" => OnboardingInv
    /\ part = "reports" => ScheduleInv /\ RunsInv
    /\ part = "webhooks" => WebhookInv /\ DeliveriesTyped
    /\ part = "realtime" => RealtimeInv /\ UsageCounted

LEMMA ServicesBegin == ServicesInit => ServicesInv
<1>1. ServicesInit => /\ EngineInit /\ AccountsInit /\ AccessInit /\ OnboardingInit
                      /\ ReportsInit /\ WebhooksInit /\ RealtimeInit
  BY DEF ServicesInit
<1>2. EngineInit => EngineInv /\ EngineBounded
  BY EngineStart, EngineBoundedInit
<1>3. AccountsInit => AccountInv /\ AccountsBounded
  BY AccountStart, AccountsBoundedInit
<1>4. AccessInit => AccessKinds /\ AccessBounded
  BY KindsInit, AccessBoundedInit
<1>5. ReportsInit => ScheduleInv /\ RunsInv
  BY ScheduleInvInit, RunsInvInit
<1>6. WebhooksInit => WebhookInv /\ DeliveriesTyped
  BY WebhookStart, DeliveriesTypedInit
<1>7. RealtimeInit => RealtimeInv /\ UsageCounted
  BY RealtimeInitial, UsageCountedInit
<1> QED BY <1>1, <1>2, <1>3, <1>4, OnboardingInvInit, <1>5, <1>6, <1>7 DEF ServicesInv

LEMMA ServicesStep ==
    ServicesInv /\ [ServicesNext]_<<part, engineVars, accountVars, restVars>> => ServicesInv'
<1> DEFINE Steps == /\ part' = part
                    /\ part = "engine" => [EngineNext]_engineVars
                    /\ part = "accounts" => [AccountsNext]_accountVars
                    /\ part = "accessCache" => [AccessNext]_accessVars
                    /\ part = "onboarding" => [OnboardingNext]_onboardingVars
                    /\ part = "reports" => [ReportsNext]_reportVars
                    /\ part = "webhooks" => [WebhooksNext]_webhookVars
                    /\ part = "realtime" => [RealtimeNext]_realtimeVars
<1>1. ServicesNext => Steps
  BY DEF ServicesNext
<1>2. UNCHANGED <<part, engineVars, accountVars, restVars>> => Steps
  BY DEF restVars
<1>3. ASSUME ServicesInv, Steps PROVE ServicesInv'
  <2>1. part = "engine" => EngineInv' /\ EngineBounded'
    BY <1>3, EngineStep, EngineBoundedStep DEF ServicesInv
  <2>2. part = "accounts" => AccountInv' /\ AccountsBounded'
    BY <1>3, AccountStep, AccountsBoundedStep DEF ServicesInv
  <2>3. part = "accessCache" => AccessKinds' /\ AccessBounded'
    BY <1>3, KindsStep, AccessBoundedStep DEF ServicesInv
  <2>4. part = "onboarding" => OnboardingInv'
    BY <1>3, OnboardingInvStep DEF ServicesInv
  <2>5. part = "reports" => ScheduleInv' /\ RunsInv'
    BY <1>3, ScheduleInvStep, RunsInvStep DEF ServicesInv
  <2>6. part = "webhooks" => WebhookInv' /\ DeliveriesTyped'
    BY <1>3, WebhookStep, DeliveriesTypedStep DEF ServicesInv, WebhookInv
  <2>7. part = "realtime" => RealtimeInv' /\ UsageCounted'
    BY <1>3, RealtimeStep, UsageCountedStep DEF ServicesInv
  <2> QED BY <1>3, <2>1, <2>2, <2>3, <2>4, <2>5, <2>6, <2>7 DEF ServicesInv
<1> HIDE DEF Steps
<1> QED BY <1>1, <1>2, <1>3

(***************************************************************************)
(* Every variable of the services holds a value of its type, for any       *)
(* number of KPIs, requests, tokens, deliveries, workers and streams.      *)
(* Among others a delivery is attempted at most PostAttempts times, which  *)
(* takes that no two workers post one delivery at once                     *)
(* (outbound-webhook.processor.ts), and no more streams are counted open   *)
(* than were opened (realtime.service.ts).                                 *)
(***************************************************************************)
THEOREM ServicesTyped == ServicesSpec => []ServicesTypeOK
<1>1. ServicesInv => ServicesTypeOK
  <2> SUFFICES ASSUME ServicesInv PROVE ServicesTypeOK
    OBVIOUS
  <2>1. /\ part = "engine" => EngineTypeOK
        /\ part = "accounts" => AccountsTypeOK
        /\ part = "accessCache" => AccessTypeOK
    BY EngineTypes, AccountsTypes, AccessTypes DEF ServicesInv
  <2>2. /\ part = "onboarding" => OnboardingTypeOK
        /\ part = "reports" => ReportsTypeOK
    BY ReportsTypes DEF ServicesInv, OnboardingInv
  <2>3. /\ part = "webhooks" => WebhooksTypeOK
        /\ part = "realtime" => RealtimeTypeOK
    BY WebhooksTypes, RealtimeTypes DEF ServicesInv, WebhookInv
  <2> QED BY <2>1, <2>2, <2>3 DEF ServicesTypeOK
<1> QED BY <1>1, ServicesBegin, ServicesStep, PTL DEF ServicesSpec
==================================================================================
