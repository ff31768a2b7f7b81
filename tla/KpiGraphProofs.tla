----------------------------- MODULE KpiGraphProofs -----------------------------
(***************************************************************************)
(* The cycle checks of KpiGraph are sound: an edge they admit closes no    *)
(* loop, and both graphs stay acyclic for any number of KPIs, callers and  *)
(* requests unless an attach writes on a check that was overtaken.  The    *)
(* levels computed are longest paths, and those of the rows settle there.  *)
(***************************************************************************)
EXTENDS KpiGraph, FiniteSums

(* The graph lemmas *)

\* Removing edges closes no loop.
LEMMA AcyclicSubset ==
    ASSUME NEW E, NEW D, D \subseteq E, Acyclic(E)
    PROVE  Acyclic(D)
BY DEF Acyclic

\* Removing edges makes nothing reachable.
LEMMA ReachableSubset ==
    ASSUME NEW E, NEW D, D \subseteq E, NEW n
    PROVE  Reachable(D, n) \subseteq Reachable(E, n)
BY DEF Reachable, Closed

\* A node that is not reached is outside of some closed set.
LEMMA NotReached ==
    ASSUME NEW E, NEW n, NEW m \in KPIs, m \notin Reachable(E, n)
    PROVE  \E S \in SUBSET KPIs : n \in S /\ Closed(E, S) /\ m \notin S
BY DEF Reachable

\* wouldCreateCycle: the edge it admits closes no loop.
LEMMA CascadeCheckSound ==
    ASSUME NEW E, E \subseteq Pairs, Acyclic(E), NEW p \in KPIs, NEW c \in KPIs,
           ~WouldCreateCycle(E, p, c)
    PROVE  Acyclic(E \cup {<<p, c>>})
<1>1. PICK C \in SUBSET KPIs : c \in C /\ Closed(E, C) /\ p \notin C
  BY NotReached DEF WouldCreateCycle
<1>2. SUFFICES ASSUME NEW S \in SUBSET KPIs, S # {},
                      \A n \in S : \E m \in S : <<m, n>> \in E \cup {<<p, c>>}
               PROVE  FALSE
  BY DEF Acyclic
<1>3. CASE S \subseteq C
  <2>1. \A n \in S : \E m \in S : <<m, n>> \in E
    BY <1>1, <1>2, <1>3
  <2>2. QED BY <1>2, <2>1 DEF Acyclic
<1>4. CASE ~(S \subseteq C)
  <2>1. ASSUME NEW n \in S \ C PROVE \E m \in S \ C : <<m, n>> \in E
    <3>1. PICK m \in S : <<m, n>> \in E \cup {<<p, c>>}
      BY <1>2, <2>1
    <3>2. <<m, n>> \in E
      BY <1>1, <2>1, <3>1
    <3>3. m \notin C
      BY <1>1, <2>1, <3>2 DEF Closed
    <3>4. QED BY <3>1, <3>2, <3>3
  <2>2. S \ C \in SUBSET KPIs /\ S \ C # {}
    BY <1>2, <1>4
  <2>3. QED BY <2>1, <2>2 DEF Acyclic
<1>5. QED BY <1>3, <1>4

\* wouldCreateDependencyCycle, for all the references of a formula at once: the
\* new edges all end in the dependent, and so are the last a loop can take.
LEMMA FormulaCheckSound ==
    ASSUME NEW E, E \subseteq Pairs, Acyclic(E), NEW k \in KPIs, NEW refs \in SUBSET KPIs,
           \A e \in E : e[2] # k,
           \A s \in refs : ~WouldCreateDependencyCycle(E, s, k)
    PROVE  Acyclic(E \cup {<<s, k>> : s \in refs})
<1> DEFINE F == {<<s, k>> : s \in refs}
<1>1. SUFFICES ASSUME NEW S \in SUBSET KPIs, S # {},
                      \A n \in S : \E m \in S : <<m, n>> \in E \cup F
               PROVE  FALSE
  BY DEF Acyclic
<1>2. CASE k \notin S
  <2>1. \A n \in S : \E m \in S : <<m, n>> \in E
    BY <1>1, <1>2
  <2>2. QED BY <1>1, <2>1 DEF Acyclic
<1>3. CASE k \in S
  <2>1. PICK s \in S : <<s, k>> \in E \cup F
    BY <1>1, <1>3
  <2>2. s \in refs
    BY <2>1
  <2> DEFINE B == {<<e[2], e[1]>> : e \in E}
  <2>3. k \notin Reachable(B, s)
    BY <2>2 DEF WouldCreateDependencyCycle
  <2> HIDE DEF B
  <2>4. PICK C \in SUBSET KPIs : s \in C /\ Closed(B, C) /\ k \notin C
    BY <2>3, NotReached
  <2> USE DEF B
  <2>5. ASSUME NEW n \in S \cap C PROVE \E m \in S \cap C : <<m, n>> \in E
    <3>1. PICK m \in S : <<m, n>> \in E \cup F
      BY <1>1, <2>5
    <3>2. <<m, n>> \in E
      BY <2>4, <2>5, <3>1
    <3>3. <<n, m>> \in B
      BY <3>2
    <3>4. m \in C
      BY <2>4, <2>5, <3>3 DEF Closed
    <3>5. QED BY <3>1, <3>2, <3>4
  <2>6. S \cap C \in SUBSET KPIs /\ S \cap C # {}
    BY <1>1, <2>1, <2>4
  <2>7. QED BY <2>5, <2>6 DEF Acyclic
<1>4. QED BY <1>2, <1>3

\* An edge back from what it leads to closes a loop.
LEMMA PathClosesLoop ==
    ASSUME NEW E, E \subseteq Pairs, NEW p \in KPIs, NEW c \in KPIs, p \in Reachable(E, c)
    PROVE  ~Acyclic(E \cup {<<p, c>>})
<1> DEFINE R == Reachable(E, c)
           S == {m \in R : p \in Reachable(E, m)}
<1>1. c \in S /\ p \in S /\ S \in SUBSET KPIs
  BY DEF Reachable
<1>2. ASSUME NEW n \in S PROVE \E m \in S : <<m, n>> \in E \cup {<<p, c>>}
  <2>1. CASE n = c
    BY <1>1, <2>1
  <2>2. CASE n # c
    <3>1. ~(c \in R \ {n} /\ Closed(E, R \ {n}))
      BY DEF Reachable
    <3>2. Closed(E, R)
      BY DEF Reachable, Closed, Pairs
    <3>3. PICK e \in E : e[1] \in R \ {n} /\ e[2] \notin R \ {n}
      BY <1>1, <2>2, <3>1 DEF Closed
    <3>4. e[2] = n /\ e = <<e[1], e[2]>>
      BY <3>2, <3>3 DEF Closed, Pairs
    <3>5. p \in Reachable(E, e[1])
      BY <3>4 DEF Reachable, Closed
    <3> QED BY <3>3, <3>4, <3>5
  <2> QED BY <2>1, <2>2
<1> QED BY <1>1, <1>2 DEF Acyclic

\* Who is found walking backward leads there walking forward.
LEMMA WalkingBackward ==
    ASSUME NEW E, E \subseteq Pairs, NEW n \in KPIs, NEW m \in Reachable({<<e[2], e[1]>> : e \in E}, n)
    PROVE  n \in Reachable(E, m)
<1> SUFFICES ASSUME NEW S \in SUBSET KPIs, m \in S, Closed(E, S), n \notin S PROVE FALSE
  BY DEF Reachable
<1> DEFINE B == {<<e[2], e[1]>> : e \in E}
<1>1. KPIs \ S \in SUBSET KPIs /\ n \in KPIs \ S
  OBVIOUS
<1>2. Closed(B, KPIs \ S)
  BY DEF Closed, Pairs
<1>3. m \in KPIs \ S
  BY <1>1, <1>2 DEF Reachable
<1> QED BY <1>3

(* The invariant *)

\* What the proof needs of the types.
Shapes ==
    /\ deps \subseteq Pairs /\ edges \subseteq Pairs
    /\ request = [c \in Callers |-> request[c]]
    /\ \A c \in Callers :
           /\ request[c].op = "formula" =>
                  request[c].kpi \in KPIs /\ request[c].refs \in SUBSET KPIs
           /\ request[c].op = "cascade" => request[c].edge \in Pairs

\* A check nobody overtook would come out the same now.
ChecksHold ==
    \A c \in Callers :
        /\ Checked(c, "formula") /\ ~request[c].overtaken => ~RejectsFormula(request[c])
        /\ Checked(c, "cascade") /\ ~request[c].overtaken =>
               ~WouldCreateCycle(edges, request[c].edge[1], request[c].edge[2])

GInv == Shapes /\ ChecksHold /\ AcyclicUnlessRaced

LEMMA InitGInv == GraphInit => GInv
BY DEF GraphInit, GInv, Shapes, ChecksHold, AcyclicUnlessRaced, Acyclic, Checked, NoRequest

\* A formula that was not rejected is not rejected with fewer dependencies.
LEMMA FewerDeps ==
    ASSUME NEW r, ~RejectsFormula(r), deps' \subseteq deps
    PROVE  ~(RejectsFormula(r))'
<1> DEFINE E == {e \in deps : e[2] # r.kpi}
           D == {e \in deps' : e[2] # r.kpi}
           Back(G) == {<<e[2], e[1]>> : e \in G}
<1>1. Back(D) \subseteq Back(E)
  OBVIOUS
<1>2. QED BY <1>1, ReachableSubset DEF RejectsFormula, WouldCreateDependencyCycle

\* Likewise a cascade with fewer edges.
LEMMA FewerEdges ==
    ASSUME NEW e, ~WouldCreateCycle(edges, e[1], e[2]), edges' \subseteq edges
    PROVE  ~WouldCreateCycle(edges', e[1], e[2])
BY ReachableSubset DEF WouldCreateCycle

\* What a step may do to a request without writing edges on it.
Harmless(c) ==
    \/ request'[c] = request[c]
    \/ request'[c].op \notin {"formula", "cascade"}
    \/ /\ request'[c].stage = "begun"
       /\ request'[c].op = "formula" => request'[c].kpi \in KPIs
                                        /\ request'[c].refs \in SUBSET KPIs
       /\ request'[c].op = "cascade" => request'[c].edge \in Pairs

\* A step that adds no edge and lets no request pass a check.
LEMMA HarmlessStep ==
    ASSUME GInv, deps' \subseteq deps, edges' \subseteq edges, raced' = raced,
           request' = [c \in Callers |-> request'[c]],
           \A c \in Callers : Harmless(c)
    PROVE  GInv'
<1> USE DEF GInv
<1>1. Shapes'
  BY DEF Shapes, Harmless
<1>2. ChecksHold'
  <2>1. SUFFICES ASSUME NEW c \in Callers
                 PROVE  (/\ Checked(c, "formula") /\ ~request[c].overtaken =>
                                ~RejectsFormula(request[c])
                         /\ Checked(c, "cascade") /\ ~request[c].overtaken =>
                                ~WouldCreateCycle(edges, request[c].edge[1], request[c].edge[2]))'
    BY DEF ChecksHold
  <2>2. CASE request'[c] = request[c]
    <3>1. PICK r : r = request[c]
      OBVIOUS
    <3>2. ~RejectsFormula(r) => ~(RejectsFormula(r))'
      BY FewerDeps
    <3>3. Checked(c, "formula")' /\ ~request'[c].overtaken => ~RejectsFormula(request[c])'
      BY <2>2, <3>1, <3>2 DEF ChecksHold, Checked, RejectsFormula
    <3>4. ASSUME ~WouldCreateCycle(edges, request[c].edge[1], request[c].edge[2])
          PROVE  ~WouldCreateCycle(edges', request[c].edge[1], request[c].edge[2])
      <4>1. PICK e : e = request[c].edge
        OBVIOUS
      <4>2. QED BY <3>4, <4>1, FewerEdges
    <3>5. QED BY <2>2, <3>3, <3>4 DEF ChecksHold, Checked
  <2>3. CASE request'[c].op \notin {"formula", "cascade"} \/ request'[c].stage = "begun"
    BY <2>3 DEF Checked
  <2>4. QED BY <2>2, <2>3 DEF Harmless
<1>3. AcyclicUnlessRaced'
  BY AcyclicSubset DEF AcyclicUnlessRaced
<1>4. QED BY <1>1, <1>2, <1>3

(* The steps that are not harmless *)

\* Writing the checked edges of a formula.
LEMMA SaveFormulaStep ==
    ASSUME GInv, NEW c \in Callers, Checked(c, "formula"), edges' = edges,
           deps' = ReplaceEdges(request[c]), raced' = (raced \/ request[c].overtaken),
           request' = Overtakes(c, "formula")
    PROVE  GInv'
<1> USE DEF GInv
<1>1. request[c].kpi \in KPIs /\ request[c].refs \in SUBSET KPIs
  BY DEF Shapes, Checked
<1>2. Shapes'
  <2>1. deps' \subseteq Pairs
    BY <1>1 DEF Shapes, ReplaceEdges, Pairs
  <2>2. QED BY <2>1 DEF Shapes, Overtakes, NoRequest
<1>3. ASSUME NEW d \in Callers
      PROVE  \/ request'[d].op \notin {"formula", "cascade"}
             \/ request'[d].op = "formula" /\ (~Checked(d, "formula")' \/ request'[d].overtaken)
             \/ request'[d].op = "cascade" /\ request'[d] = request[d]
  BY DEF Overtakes, NoRequest, Checked, Shapes
<1>4. ChecksHold'
  BY <1>3 DEF ChecksHold, Checked
<1>5. AcyclicUnlessRaced'
  <2>1. SUFFICES ASSUME ~raced, ~request[c].overtaken
                 PROVE  Acyclic(deps') /\ Acyclic(edges')
    BY DEF AcyclicUnlessRaced
  <2> DEFINE E == {e \in deps : e[2] # request[c].kpi}
  <2>2. \A s \in request[c].refs : ~WouldCreateDependencyCycle(E, s, request[c].kpi)
    BY <2>1 DEF ChecksHold, RejectsFormula
  <2>3. Acyclic(E) /\ E \subseteq Pairs /\ \A e \in E : e[2] # request[c].kpi
    BY <2>1, AcyclicSubset DEF AcyclicUnlessRaced, Shapes
  <2> HIDE DEF E
  <2>4. Acyclic(E \cup {<<s, request[c].kpi>> : s \in request[c].refs})
    BY <1>1, <2>2, <2>3, FormulaCheckSound
  <2>5. QED BY <2>1, <2>4 DEF E, ReplaceEdges, AcyclicUnlessRaced
<1>6. QED BY <1>2, <1>4, <1>5

\* Writing a checked cascade.
LEMMA SaveCascadeStep ==
    ASSUME GInv, NEW c \in Callers, SaveCascade(c)
    PROVE  GInv'
<1> USE DEF GInv
<1> DEFINE e == request[c].edge
<1>1. e \in Pairs /\ e = <<e[1], e[2]>>
  BY DEF Shapes, Checked, SaveCascade, Pairs
<1>2. CASE "purged" \in {kpi[e[1]], kpi[e[2]]}
  <2>1. \A d \in Callers : Harmless(d)
    BY <1>2 DEF SaveCascade, Becomes, Harmless, NoRequest, Shapes
  <2>2. request' = [d \in Callers |-> request'[d]]
    BY <1>2 DEF SaveCascade, Becomes, Shapes
  <2>3. QED BY <1>2, <2>1, <2>2, HarmlessStep DEF SaveCascade
<1>3. CASE "purged" \notin {kpi[e[1]], kpi[e[2]]}
  <2>1. /\ edges' = edges \cup {e}
        /\ deps' = deps
        /\ raced' = (raced \/ request[c].overtaken)
        /\ request' = [Overtakes(c, "cascade") EXCEPT ![c] = ReadNext]
    BY <1>3 DEF SaveCascade
  <2>2. request' = [d \in Callers |-> request'[d]]
    BY <2>1 DEF Overtakes
  <2>3. ASSUME NEW d \in Callers
        PROVE  \/ request'[d] = ReadNext
               \/ Checked(d, "cascade") /\ request'[d] = [request[d] EXCEPT !.overtaken = TRUE]
               \/ ~Checked(d, "cascade") /\ request'[d] = request[d]
    BY <2>1 DEF Overtakes
  <2>4. ASSUME NEW d \in Callers
        PROVE  \/ request'[d].op \notin {"formula", "cascade"}
               \/ /\ request'[d].op = "cascade" /\ request'[d].edge \in Pairs
                  /\ ~Checked(d, "cascade")' \/ request'[d].overtaken
               \/ request'[d].op = "formula" /\ request'[d] = request[d]
    <3>1. CASE request'[d] = ReadNext
      BY <3>1 DEF ReadNext
    <3>2. CASE Checked(d, "cascade") /\ request'[d] = [request[d] EXCEPT !.overtaken = TRUE]
      <4>1. request[d].op = "cascade" /\ request[d].edge \in Pairs
        BY <3>2 DEF Checked, Shapes
      <4>2. request'[d].op = request[d].op /\ request'[d].edge = request[d].edge
        BY <3>2
      <4>3. request'[d].overtaken \/ ~Checked(d, "cascade")'
        BY <3>2 DEF Checked
      <4>4. QED BY <4>1, <4>2, <4>3
    <3>3. CASE ~Checked(d, "cascade") /\ request'[d] = request[d]
      BY <3>3 DEF Checked, Shapes
    <3>4. QED BY <2>3, <3>1, <3>2, <3>3
  <2>5. Shapes'
    <3>1. deps' \subseteq Pairs /\ edges' \subseteq Pairs
      BY <1>1, <2>1 DEF Shapes
    <3>2. \A d \in Callers :
              /\ request'[d].op = "formula" =>
                     request'[d].kpi \in KPIs /\ request'[d].refs \in SUBSET KPIs
              /\ request'[d].op = "cascade" => request'[d].edge \in Pairs
      BY <2>4 DEF Shapes
    <3>3. QED BY <2>2, <3>1, <3>2 DEF Shapes
  <2>6. ASSUME NEW d \in Callers, request'[d] = request[d],
               Checked(d, "formula")', ~request'[d].overtaken
        PROVE  ~RejectsFormula(request[d])'
    BY <2>1, <2>6 DEF ChecksHold, Checked, RejectsFormula
  <2>7. ChecksHold'
    BY <2>6, <2>4 DEF ChecksHold, Checked
  <2>8. AcyclicUnlessRaced'
    <3>1. SUFFICES ASSUME ~raced, ~request[c].overtaken
                   PROVE  Acyclic(deps') /\ Acyclic(edges')
      BY <2>1 DEF AcyclicUnlessRaced
    <3>2. ~WouldCreateCycle(edges, e[1], e[2])
      BY <3>1 DEF ChecksHold, SaveCascade
    <3>3. Acyclic(edges \cup {<<e[1], e[2]>>})
      BY <1>1, <3>1, <3>2, CascadeCheckSound DEF AcyclicUnlessRaced, Shapes, Pairs
    <3>4. QED BY <1>1, <2>1, <3>1, <3>3 DEF AcyclicUnlessRaced
  <2>9. QED BY <2>7, <2>8, <2>5
<1>4. QED BY <1>2, <1>3

\* One request passes or fails its check; no edge is written.
LEMMA CheckStep ==
    ASSUME GInv, NEW c \in Callers, CheckFormula(c) \/ CheckCascade(c)
    PROVE  GInv'
<1> USE DEF GInv
<1>1. deps' = deps /\ edges' = edges /\ raced' = raced
  BY DEF CheckFormula, CheckCascade, rows
<1>2. request' = [d \in Callers |-> request'[d]]
  BY DEF CheckFormula, CheckCascade, Becomes, Shapes
<1>3. \A d \in Callers \ {c} : request'[d] = request[d]
  BY DEF CheckFormula, CheckCascade, Becomes, Shapes
<1>4. CASE request'[c] = NoRequest
  <2>1. \A d \in Callers : Harmless(d)
    BY <1>3, <1>4 DEF Harmless, NoRequest
  <2>2. QED BY <1>1, <1>2, <2>1, HarmlessStep
<1> DEFINE passed == [request[c] EXCEPT !.stage = "checked"]
<1>5. CASE request'[c] # NoRequest
  <2>1. request'[c] = passed
    BY <1>5 DEF CheckFormula, CheckCascade, Becomes, Shapes
  <2>2. /\ passed.op = request[c].op /\ passed.kpi = request[c].kpi
        /\ passed.refs = request[c].refs /\ passed.edge = request[c].edge
        /\ passed.overtaken = request[c].overtaken
    OBVIOUS
  <2>3. Shapes'
    BY <1>1, <1>2, <1>3, <2>1, <2>2 DEF Shapes
  <2>4. ASSUME NEW d \in Callers \ {c}
        PROVE  (/\ Checked(d, "formula") /\ ~request[d].overtaken =>
                       ~RejectsFormula(request[d])
                /\ Checked(d, "cascade") /\ ~request[d].overtaken =>
                       ~WouldCreateCycle(edges, request[d].edge[1], request[d].edge[2]))'
    BY <1>1, <1>3 DEF ChecksHold, Checked, RejectsFormula
  <2>5. Checked(c, "formula")' => ~RejectsFormula(request[c])'
    <3>1. SUFFICES ASSUME Checked(c, "formula")'
                   PROVE  ~RejectsFormula(request[c])'
      OBVIOUS
    <3>2. CheckFormula(c)
      BY <2>1, <2>2, <3>1 DEF Checked, CheckCascade
    <3>3. ~RejectsFormula(request[c])
      BY <1>5, <3>2 DEF CheckFormula, Becomes, Shapes
    <3>4. QED BY <1>1, <2>1, <2>2, <3>3 DEF RejectsFormula
  <2>6. Checked(c, "cascade")' =>
            ~WouldCreateCycle(edges, request[c].edge[1], request[c].edge[2])'
    <3>1. SUFFICES ASSUME Checked(c, "cascade")'
                   PROVE  ~WouldCreateCycle(edges', request'[c].edge[1], request'[c].edge[2])
      OBVIOUS
    <3>2. CheckCascade(c)
      BY <2>1, <2>2, <3>1 DEF Checked, CheckFormula
    <3>3. ~WouldCreateCycle(edges, request[c].edge[1], request[c].edge[2])
      BY <1>5, <3>2 DEF CheckCascade, Becomes, Shapes
    <3>4. QED BY <1>1, <2>1, <2>2, <3>3
  <2>7. ChecksHold'
    BY <2>4, <2>5, <2>6 DEF ChecksHold
  <2>8. AcyclicUnlessRaced'
    BY <1>1 DEF AcyclicUnlessRaced
  <2>9. QED BY <2>3, <2>7, <2>8
<1>6. QED BY <1>4, <1>5

\* Dropping level updates leaves the other requests alone.
LEMMA DropWritesHarmless ==
    ASSUME NEW reqs, NEW gone, request' = DropWrites(reqs, gone), NEW c \in Callers,
           reqs[c] = request[c] \/ reqs[c].op = "levels"
    PROVE  Harmless(c)
BY DEF DropWrites, Harmless

LEMMA NextGInv == GInv /\ [GraphNext]_graphVars => GInv'
<1> SUFFICES ASSUME GInv, [GraphNext]_graphVars
             PROVE  GInv'
  OBVIOUS
<1> USE DEF GInv
<1>0. request = [c \in Callers |-> request[c]]
  BY DEF Shapes
<1>1. ASSUME NEW c \in Callers, NEW k \in KPIs, NEW refs \in SUBSET KPIs,
             BeginFormula(c, k, refs)
      PROVE  GInv'
  <2>1. \A d \in Callers : Harmless(d)
    BY <1>0, <1>1 DEF BeginFormula, Becomes, Harmless
  <2>2. request' = [d \in Callers |-> request'[d]]
    BY <1>0, <1>1 DEF BeginFormula, Becomes
  <2>3. QED BY <1>1, <2>1, <2>2, HarmlessStep DEF BeginFormula, rows
<1>2. ASSUME NEW c \in Callers, NEW e \in Pairs, BeginCascade(c, e)
      PROVE  GInv'
  <2>1. \A d \in Callers : Harmless(d)
    BY <1>0, <1>2 DEF BeginCascade, Becomes, Harmless
  <2>2. request' = [d \in Callers |-> request'[d]]
    BY <1>0, <1>2 DEF BeginCascade, Becomes
  <2>3. QED BY <1>2, <2>1, <2>2, HarmlessStep DEF BeginCascade, rows
<1>3. ASSUME NEW c \in Callers, NEW e \in Pairs, DetachCascade(c, e)
      PROVE  GInv'
  <2> DEFINE reqs == [request EXCEPT ![c] = ReadNext]
  <2>1. \A d \in Callers : reqs[d] = request[d] \/ reqs[d].op = "levels"
    BY <1>0 DEF ReadNext
  <2>2. request' = DropWrites(reqs, {e})
    BY <1>3 DEF DetachCascade
  <2>3. \A d \in Callers : Harmless(d)
    BY <2>1, <2>2, DropWritesHarmless
  <2>4. request' = [d \in Callers |-> request'[d]]
    BY <2>2 DEF DropWrites
  <2>5. QED BY <1>3, <2>3, <2>4, HarmlessStep DEF DetachCascade
<1>4. ASSUME NEW c \in Callers, CheckFormula(c) \/ CheckCascade(c)
      PROVE  GInv'
  BY <1>4, CheckStep
<1>5. ASSUME NEW c \in Callers, SaveFormula(c)
      PROVE  GInv'
  BY <1>5, SaveFormulaStep DEF SaveFormula
<1>6. ASSUME NEW c \in Callers, SaveCascade(c)
      PROVE  GInv'
  BY <1>6, SaveCascadeStep
<1>7. ASSUME NEW c \in Callers, ReadLevels(c) \/ WriteLevel(c)
      PROVE  GInv'
  <2>1. \A d \in Callers : Harmless(d)
    <3>1. PICK r : Becomes(c, r) /\ r.op \notin {"formula", "cascade"}
      <4>1. CASE ReadLevels(c)
        BY <4>1 DEF ReadLevels
      <4>2. CASE WriteLevel(c)
        <5>1. CASE Becomes(c, NoRequest)
          BY <5>1 DEF NoRequest
        <5>2. CASE \E t \in request[c].todo :
                       Becomes(c, [request[c] EXCEPT !.todo = @ \ {t}])
          <6>1. PICK r, T : r = [request[c] EXCEPT !.todo = T] /\ Becomes(c, r)
            BY <5>2
          <6>2. r.op = "levels"
            BY <4>2, <6>1 DEF WriteLevel, WritingLevels
          <6>3. QED BY <6>1, <6>2
        <5>3. QED BY <4>2, <5>1, <5>2 DEF WriteLevel
      <4>3. QED BY <1>7, <4>1, <4>2
    <3>2. QED BY <1>0, <3>1 DEF Becomes, Harmless
  <2>2. request' = [d \in Callers |-> request'[d]]
    BY <1>0, <1>7 DEF ReadLevels, WriteLevel, Becomes
  <2>3. QED BY <1>7, <2>1, <2>2, HarmlessStep DEF ReadLevels, WriteLevel, rows
<1>8. ASSUME NEW k \in KPIs, NEW c \in Callers, DetachBesideSave(k, c)
      PROVE  GInv'
  BY <1>8, SaveFormulaStep DEF DetachBesideSave
<1>9. ASSUME NEW k \in KPIs, DetachFormula(k) \/ Archive(k) \/ Restore(k)
      PROVE  GInv'
  <2>1. request' = request /\ deps' \subseteq deps /\ edges' = edges /\ raced' = raced
    BY <1>9 DEF DetachFormula, Archive, Restore
  <2>2. QED BY <1>0, <2>1, HarmlessStep DEF Harmless
<1>10. ASSUME NEW k \in KPIs, Purge(k)
       PROVE  GInv'
  <2>1. PICK gone : request' = DropWrites(request, gone) /\ edges' = edges \ gone
    BY <1>10 DEF Purge
  <2>2. \A d \in Callers : Harmless(d)
    BY <2>1, DropWritesHarmless
  <2>3. request' = [d \in Callers |-> request'[d]]
    BY <2>1 DEF DropWrites
  <2>4. QED BY <1>10, <2>1, <2>2, <2>3, HarmlessStep DEF Purge
<1>11. CASE UNCHANGED graphVars
  BY <1>0, <1>11, HarmlessStep DEF graphVars, Harmless
<1>12. ASSUME NEW c \in Callers, FailWrite(c) \/ GiveUp(c)
       PROVE  GInv'
  <2>1. PICK r : Becomes(c, r) /\ r.op \notin {"formula", "cascade"}
    <3>1. CASE FailWrite(c)
      <4>1. PICK r, T : r = [request[c] EXCEPT !.todo = T] /\ Becomes(c, r)
        BY <3>1 DEF FailWrite
      <4>2. r.op = "levels"
        BY <3>1, <4>1 DEF FailWrite, WritingLevels
      <4> QED BY <4>1, <4>2
    <3>2. CASE GiveUp(c)
      BY <3>2 DEF GiveUp, NoRequest
    <3> QED BY <1>12, <3>1, <3>2
  <2>2. \A d \in Callers : Harmless(d)
    BY <1>0, <2>1 DEF Becomes, Harmless
  <2>3. request' = [d \in Callers |-> request'[d]]
    BY <1>0, <2>1 DEF Becomes
  <2> QED BY <1>12, <2>2, <2>3, HarmlessStep DEF FailWrite, GiveUp, rows
<1>13. QED
  BY <1>1, <1>2, <1>3, <1>4, <1>5, <1>6, <1>7, <1>8, <1>9, <1>10, <1>11, <1>12 DEF GraphNext

\* Formula dependencies and cascades stay acyclic for any number of KPIs and of
\* concurrent attaches, replacements, detaches, archivings and purges, unless an
\* attach writes after another write of that graph came between its check and it.
THEOREM StaysAcyclic == GraphSpec => []AcyclicUnlessRaced
<1>1. GInv => AcyclicUnlessRaced
  BY DEF GInv
<1>2. QED BY InitGInv, NextGInv, <1>1, PTL DEF GraphSpec

------------------------------------------------------------------------------
(* Recursion over an initial segment of the naturals *)

\* A recursion over 0..N has a solution.
Solvable(S, a, step, N) ==
    \E f \in [0..N -> S] : f[0] = a /\ \A i \in 1..N : f[i] = step[f[i - 1]]

LEMMA Iterates ==
    ASSUME NEW S, NEW a \in S, NEW step \in [S -> S], NEW N \in Nat
    PROVE  Solvable(S, a, step, N)
<1> DEFINE Solves(f, n) == f[0] = a /\ \A i \in 1..n : f[i] = step[f[i - 1]]
           T == {n \in Nat : \E f \in [0..n -> S] : Solves(f, n)}
<1>1. 0 \in T
  <2>1. [i \in 0..0 |-> a] \in [0..0 -> S] /\ Solves([i \in 0..0 |-> a], 0)
    OBVIOUS
  <2> QED BY <2>1
<1>2. ASSUME NEW n \in T PROVE n + 1 \in T
  <2>1. n \in Nat
    OBVIOUS
  <2>2. PICK f \in [0..n -> S] : Solves(f, n)
    OBVIOUS
  <2> DEFINE g == [i \in 0..(n + 1) |-> IF i = n + 1 THEN step[f[n]] ELSE f[i]]
  <2>3. g \in [0..(n + 1) -> S]
    BY <2>1
  <2>4. g[0] = a
    BY <2>1, <2>2
  <2>5. ASSUME NEW i \in 1..(n + 1) PROVE g[i] = step[g[i - 1]]
    <3>1. CASE i = n + 1
      BY <2>1, <3>1
    <3>2. CASE i # n + 1
      <4>1. i \in 1..n /\ i \in 0..(n + 1) /\ i - 1 \in 0..(n + 1) /\ i - 1 # n + 1
        BY <2>1, <3>2
      <4> QED BY <2>2, <3>2, <4>1
    <3> QED BY <3>1, <3>2
  <2> HIDE DEF g
  <2>6. n + 1 \in Nat /\ Solves(g, n + 1)
    BY <2>1, <2>4, <2>5
  <2> HIDE DEF Solves
  <2> QED BY <2>3, <2>6
<1> HIDE DEF T
<1>3. N \in T
  BY <1>1, <1>2, FromZero
<1> QED BY <1>3 DEF T, Solvable

------------------------------------------------------------------------------
(* computeLevels *)

Into(E, n) == {m \in KPIs : <<m, n>> \in E}
KahnStates == [queue : SUBSET KPIs, remaining : [KPIs -> Int], level : [KPIs -> Nat]]

\* The state of the algorithm when the nodes of P have left the queue.
Served(E, P, s) ==
    /\ \A n \in P : Into(E, n) \subseteq P
    /\ s.queue = {n \in KPIs \ P : Into(E, n) \subseteq P}
    /\ \A n \in KPIs : s.remaining[n] = Cardinality(Into(E, n) \ P)
    /\ \A n \in KPIs : \A m \in Into(E, n) \cap P : s.level[n] >= s.level[m] + 1
    /\ \A n \in KPIs : s.level[n] # 0 => \E m \in Into(E, n) \cap P : s.level[n] = s.level[m] + 1

\* Depths: one more than the deepest KPI that leads here.
AreDepths(E, d) ==
    \A n \in KPIs : /\ \A m \in Into(E, n) : d[n] >= d[m] + 1
                    /\ d[n] # 0 => \E m \in Into(E, n) : d[n] = d[m] + 1

LEMMA IntoFinite ==
    ASSUME NEW E, NEW n, NEW P
    PROVE  /\ IsFiniteSet(Into(E, n) \ P) /\ Cardinality(Into(E, n) \ P) \in Nat
           /\ Cardinality(Into(E, n) \ P) = 0 <=> Into(E, n) \subseteq P
<1>1. Into(E, n) \ P \in SUBSET KPIs /\ IsFiniteSet(KPIs)
  BY KpiGraphAssumption DEF Into, KpiGraphAssumption
<1>2. IsFiniteSet(Into(E, n) \ P)
  BY <1>1, FS_Subset
<1> QED BY <1>2, FS_CardinalityType, FS_EmptySet

LEMMA KahnBegins ==
    ASSUME NEW E PROVE KahnStart(E) \in KahnStates /\ Served(E, {}, KahnStart(E))
                       /\ \A n \in KPIs : KahnStart(E).level[n] = 0
<1>1. \A n \in KPIs : /\ Cardinality(Into(E, n)) \in Nat /\ Cardinality(Into(E, n)) \in Int
                      /\ Cardinality(Into(E, n)) = 0 <=> Into(E, n) \subseteq {}
                      /\ Into(E, n) \ {} = Into(E, n)
  <2> TAKE n \in KPIs
  <2>1. Into(E, n) \ {} = Into(E, n)
    OBVIOUS
  <2>2. /\ Cardinality(Into(E, n) \ {}) \in Nat
        /\ Cardinality(Into(E, n) \ {}) = 0 <=> Into(E, n) \subseteq {}
    BY IntoFinite
  <2>3. Cardinality(Into(E, n)) \in Nat /\ (Cardinality(Into(E, n)) = 0 <=> Into(E, n) \subseteq {})
    BY <2>1, <2>2
  <2> QED BY <2>1, <2>3
<1>2. KahnStart(E) = [queue |-> {n \in KPIs : Cardinality(Into(E, n)) = 0},
                      remaining |-> [n \in KPIs |-> Cardinality(Into(E, n))],
                      level |-> [n \in KPIs |-> 0]]
  BY DEF KahnStart, Into
<1>3. KahnStart(E) \in KahnStates
  BY <1>1, <1>2 DEF KahnStates
<1>4. Served(E, {}, KahnStart(E))
  BY <1>1, <1>2 DEF Served
<1> QED BY <1>2, <1>3, <1>4

LEMMA LargerOf ==
    ASSUME NEW a \in Nat, NEW b \in Nat
    PROVE  Max({a, b}) = (IF a >= b THEN a ELSE b)
BY DEF Max

LEMMA KahnTyped ==
    ASSUME NEW E, NEW s \in KahnStates PROVE KahnStep(E, s) \in KahnStates
<1> DEFINE node == CHOOSE n \in s.queue : TRUE
           down == {m \in KPIs : <<node, m>> \in E}
           t == KahnStep(E, s)
<1>1. CASE s.queue = {}
  BY <1>1 DEF KahnStep
<1>2. CASE s.queue # {}
  <2>1. node \in s.queue
    BY <1>2
  <2>2. t = [queue |-> (s.queue \ {node}) \cup {m \in down : s.remaining[m] = 1},
             remaining |-> [m \in KPIs |-> IF m \in down THEN s.remaining[m] - 1 ELSE s.remaining[m]],
             level |-> [m \in KPIs |-> IF m \in down THEN Max({s.level[m], s.level[node] + 1})
                                       ELSE s.level[m]]]
    BY <1>2 DEF KahnStep
  <2> HIDE DEF node, t
  <2>3. /\ s.queue \in SUBSET KPIs /\ node \in KPIs
        /\ \A n \in KPIs : s.level[n] \in Nat /\ s.remaining[n] \in Int
    BY <2>1 DEF KahnStates
  <2>4. \A n \in KPIs : t.level[n] \in Nat
    <3> TAKE n \in KPIs
    <3>1. s.level[n] \in Nat /\ s.level[node] + 1 \in Nat
      BY <2>3
    <3>2. Max({s.level[n], s.level[node] + 1}) \in Nat
      BY <3>1, LargerOf
    <3> QED BY <2>2, <3>1, <3>2
  <2>5. t.level \in [KPIs -> Nat]
    <3>1. t.level = [n \in KPIs |-> t.level[n]]
      BY <2>2
    <3> QED BY <2>4, <3>1
  <2>6. t.remaining \in [KPIs -> Int] /\ t.queue \in SUBSET KPIs
    BY <2>2, <2>3
  <2>7. t = [queue |-> t.queue, remaining |-> t.remaining, level |-> t.level]
    BY <2>2
  <2>8. t \in KahnStates
    BY <2>5, <2>6, <2>7 DEF KahnStates
  <2> QED BY <2>8 DEF t
<1> QED BY <1>1, <1>2

\* Serving a node that the queue holds.
LEMMA KahnServes ==
    ASSUME NEW E, NEW P \in SUBSET KPIs, NEW s \in KahnStates, Served(E, P, s), s.queue # {},
           NEW i \in Nat, \A n \in KPIs : s.level[n] <= i
    PROVE  /\ \E node \in KPIs \ P : Served(E, P \cup {node}, KahnStep(E, s))
           /\ \A n \in KPIs : KahnStep(E, s).level[n] <= i + 1
<1> DEFINE node == CHOOSE n \in s.queue : TRUE
           down == {m \in KPIs : <<node, m>> \in E}
           t == KahnStep(E, s)
           Q == P \cup {node}
<1>1. node \in s.queue
  OBVIOUS
<1>2. t = [queue |-> (s.queue \ {node}) \cup {m \in down : s.remaining[m] = 1},
           remaining |-> [m \in KPIs |-> IF m \in down THEN s.remaining[m] - 1 ELSE s.remaining[m]],
           level |-> [m \in KPIs |-> IF m \in down THEN Max({s.level[m], s.level[node] + 1})
                                     ELSE s.level[m]]]
  BY DEF KahnStep
<1> HIDE DEF node, t
<1>3. node \in KPIs \ P /\ Into(E, node) \subseteq P
  BY <1>1 DEF Served
<1>4. node \notin down /\ down \cap P = {} /\ down \subseteq KPIs
      /\ \A n \in KPIs : n \in down <=> node \in Into(E, n)
  BY <1>3 DEF Served, Into
<1>5. /\ s.queue \in SUBSET KPIs /\ s.remaining \in [KPIs -> Int] /\ s.level \in [KPIs -> Nat]
      /\ \A n \in KPIs : s.level[n] \in Nat /\ s.remaining[n] \in Int
  BY DEF KahnStates
<1>6. \A n \in KPIs : t.level[n] = IF n \in down /\ s.level[node] + 1 > s.level[n]
                                   THEN s.level[node] + 1 ELSE s.level[n]
  <2> TAKE n \in KPIs
  <2>1. s.level[n] \in Nat /\ s.level[node] + 1 \in Nat
    BY <1>3, <1>5
  <2>2. t.level[n] = IF n \in down THEN Max({s.level[n], s.level[node] + 1}) ELSE s.level[n]
    BY <1>2
  <2> QED BY <2>1, <2>2, LargerOf
<1>7. t \in KahnStates
  BY KahnTyped DEF t
<1>8. \A n \in KPIs : n \in down => s.remaining[n] = Cardinality(Into(E, n) \ Q) + 1
  <2> SUFFICES ASSUME NEW n \in KPIs, n \in down
               PROVE  s.remaining[n] = Cardinality(Into(E, n) \ Q) + 1
    OBVIOUS
  <2>1. IsFiniteSet(Into(E, n) \ P) /\ node \in Into(E, n) \ P
    BY IntoFinite, <1>3, <1>4
  <2>2. (Into(E, n) \ P) \ {node} = Into(E, n) \ Q
    OBVIOUS
  <2>3. Cardinality((Into(E, n) \ P) \ {node}) = Cardinality(Into(E, n) \ P) - 1
    BY <2>1, FS_RemoveElement
  <2>4. PICK a \in Nat, b \in Nat : a = Cardinality(Into(E, n) \ P) /\ b = Cardinality(Into(E, n) \ Q)
    BY IntoFinite
  <2>5. b = a - 1 /\ s.remaining[n] = a
    BY <2>2, <2>3, <2>4 DEF Served
  <2> QED BY <2>4, <2>5
<1>9. \A n \in KPIs : n \notin down => Into(E, n) \ Q = Into(E, n) \ P
  BY <1>4
<1>10. \A n \in Q : Into(E, n) \subseteq Q
  BY <1>3 DEF Served
<1>11. t.queue = {n \in KPIs \ Q : Into(E, n) \subseteq Q}
  <2>1. ASSUME NEW n \in KPIs
        PROVE  n \in t.queue <=> n \notin Q /\ Into(E, n) \subseteq Q
    <3>1. CASE n \in down
      <4>1. n \notin s.queue /\ n \notin Q
        BY <1>3, <1>4, <3>1 DEF Served
      <4>2. n \in t.queue <=> s.remaining[n] = 1
        BY <1>2, <3>1, <4>1
      <4>3. s.remaining[n] = 1 <=> Cardinality(Into(E, n) \ Q) = 0
        <5>1. PICK a \in Nat : a = Cardinality(Into(E, n) \ Q)
          BY IntoFinite
        <5> QED BY <1>8, <3>1, <5>1
      <4> QED BY <4>1, <4>2, <4>3, IntoFinite
    <3>2. CASE n \notin down
      <4>1. n \in t.queue <=> n \in s.queue /\ n # node
        BY <1>2, <3>2
      <4>2. Into(E, n) \subseteq Q <=> Into(E, n) \subseteq P
        BY <1>9, <3>2
      <4> QED BY <4>1, <4>2 DEF Served
    <3> QED BY <3>1, <3>2
  <2>2. t.queue \subseteq KPIs
    BY <1>7 DEF KahnStates
  <2> QED BY <2>1, <2>2
<1>12. \A n \in KPIs : t.remaining[n] = Cardinality(Into(E, n) \ Q)
  <2> TAKE n \in KPIs
  <2>1. CASE n \in down
    <3>1. t.remaining[n] = s.remaining[n] - 1
      BY <1>2, <2>1
    <3>2. PICK a \in Nat : a = Cardinality(Into(E, n) \ Q)
      BY IntoFinite
    <3> QED BY <1>8, <2>1, <3>1, <3>2
  <2>2. CASE n \notin down
    <3>1. t.remaining[n] = s.remaining[n]
      BY <1>2, <2>2
    <3> QED BY <3>1, <1>9, <2>2 DEF Served
  <2> QED BY <2>1, <2>2
<1>13. \A m \in Q : t.level[m] = s.level[m]
  BY <1>3, <1>4, <1>6
<1>14. \A n \in KPIs : \A m \in Into(E, n) \cap Q : t.level[n] >= t.level[m] + 1
  <2> SUFFICES ASSUME NEW n \in KPIs, NEW m \in Into(E, n) \cap Q
               PROVE  t.level[n] >= t.level[m] + 1
    OBVIOUS
  <2>1. t.level[m] = s.level[m] /\ m \in KPIs
    BY <1>13 DEF Into
  <2>4. PICK a \in Nat, b \in Nat, k \in Nat : a = s.level[n] /\ b = s.level[m] /\ k = s.level[node]
    BY <1>3, <1>5, <2>1
  <2>5. t.level[n] = IF n \in down /\ k + 1 > a THEN k + 1 ELSE a
    BY <1>6, <2>4
  <2>2. CASE m = node
    BY <1>4, <2>1, <2>2, <2>4, <2>5
  <2>3. CASE m # node
    <3>1. s.level[n] >= s.level[m] + 1
      BY <2>3 DEF Served
    <3> QED BY <2>1, <2>4, <2>5, <3>1
  <2> QED BY <2>2, <2>3
<1>15. \A n \in KPIs : t.level[n] # 0 => \E m \in Into(E, n) \cap Q : t.level[n] = t.level[m] + 1
  <2> SUFFICES ASSUME NEW n \in KPIs, t.level[n] # 0
               PROVE  \E m \in Into(E, n) \cap Q : t.level[n] = t.level[m] + 1
    OBVIOUS
  <2>1. CASE n \in down /\ s.level[node] + 1 > s.level[n]
    BY <1>4, <1>6, <1>13, <2>1
  <2>2. CASE ~(n \in down /\ s.level[node] + 1 > s.level[n])
    <3>1. t.level[n] = s.level[n]
      BY <1>6, <2>2
    <3>2. PICK m \in Into(E, n) \cap P : s.level[n] = s.level[m] + 1
      BY <3>1 DEF Served
    <3> QED BY <1>13, <3>1, <3>2
  <2> QED BY <2>1, <2>2
<1>16. Served(E, Q, t)
  BY <1>10, <1>11, <1>12, <1>14, <1>15 DEF Served
<1>17. \A n \in KPIs : t.level[n] <= i + 1
  <2> TAKE n \in KPIs
  <2>1. PICK a \in Nat, k \in Nat : a = s.level[n] /\ k = s.level[node] /\ a <= i /\ k <= i
    BY <1>3, <1>5
  <2>2. t.level[n] = IF n \in down /\ k + 1 > a THEN k + 1 ELSE a
    BY <1>6, <2>1
  <2> QED BY <2>1, <2>2
<1> QED BY <1>3, <1>16, <1>17 DEF t

\* A queue that is empty has served every KPI, if there is no cycle.
LEMMA AllServed ==
    ASSUME NEW E, Acyclic(E), NEW P \in SUBSET KPIs, NEW s \in KahnStates, Served(E, P, s), s.queue = {}
    PROVE  P = KPIs
<1> SUFFICES ASSUME KPIs \ P # {} PROVE FALSE
  OBVIOUS
<1>1. PICK n \in KPIs \ P : \A m \in KPIs \ P : <<m, n>> \notin E
  <2>1. KPIs \ P \in SUBSET KPIs /\ KPIs \ P # {}
    OBVIOUS
  <2> QED BY <2>1 DEF Acyclic
<1>2. Into(E, n) \subseteq P
  BY <1>1 DEF Into
<1> QED BY <1>2 DEF Served

LEMMA KPISize == Cardinality(KPIs) \in Nat /\ IsFiniteSet(KPIs)
BY KpiGraphAssumption, FS_CardinalityType DEF KpiGraphAssumption

\* The recursion of computeLevels has a solution, which CHOOSE finds.
LEMMA KahnRecursion ==
    ASSUME NEW E
    PROVE  LET N == Cardinality(KPIs)
               kahn[i \in 0..N] == IF i = 0 THEN KahnStart(E) ELSE KahnStep(E, kahn[i - 1])
           IN kahn[0] = KahnStart(E) /\ \A i \in 1..N : kahn[i] = KahnStep(E, kahn[i - 1])
<1> DEFINE N == Cardinality(KPIs)
           G(g) == [i \in 0..N |-> IF i = 0 THEN KahnStart(E) ELSE KahnStep(E, g[i - 1])]
           kahn == CHOOSE g : g = G(g)
<1>1. N \in Nat
  BY KPISize
<1>2. PICK a \in KahnStates, step \in [KahnStates -> KahnStates] :
          a = KahnStart(E) /\ \A s \in KahnStates : step[s] = KahnStep(E, s)
  <2>1. [s \in KahnStates |-> KahnStep(E, s)] \in [KahnStates -> KahnStates]
    BY KahnTyped
  <2> QED BY <2>1, KahnBegins
<1> HIDE DEF N
<1>3. PICK f \in [0..N -> KahnStates] : f[0] = a /\ \A i \in 1..N : f[i] = step[f[i - 1]]
  <2>1. Solvable(KahnStates, a, step, N)
    BY <1>1, Iterates
  <2> QED BY <2>1 DEF Solvable
<1>4. f = G(f)
  <2>1. \A i \in 0..N : f[i] = G(f)[i]
    <3> TAKE i \in 0..N
    <3>1. CASE i = 0
      BY <1>2, <1>3, <3>1
    <3>2. CASE i # 0
      <4>1. i \in 1..N /\ i - 1 \in 0..N
        BY <1>1, <3>2
      <4> QED BY <1>2, <1>3, <3>2, <4>1
    <3> QED BY <3>1, <3>2
  <2> QED BY <2>1
<1> HIDE DEF G
<1>5. kahn = G(kahn)
  BY <1>4
<1> HIDE DEF kahn
<1>6. kahn[0] = KahnStart(E) /\ \A i \in 1..N : kahn[i] = KahnStep(E, kahn[i - 1])
  <2>1. \A i \in 0..N : kahn[i] = IF i = 0 THEN KahnStart(E) ELSE KahnStep(E, kahn[i - 1])
    BY <1>5 DEF G
  <2> QED BY <1>1, <2>1
<1> QED BY <1>6 DEF kahn, G, N

\* The algorithm serves a KPI with every step, until its queue is empty.
Reached(E, i, s) ==
    \E P \in SUBSET KPIs :
        /\ s \in KahnStates /\ Served(E, P, s) /\ \A n \in KPIs : s.level[n] <= i
        /\ s.queue = {} \/ Cardinality(P) = i

LEMMA KahnGoesOn ==
    ASSUME NEW E, NEW i \in Nat, NEW s, Reached(E, i, s)
    PROVE  Reached(E, i + 1, KahnStep(E, s))
<1>1. PICK P \in SUBSET KPIs :
          /\ s \in KahnStates /\ Served(E, P, s) /\ \A n \in KPIs : s.level[n] <= i
          /\ s.queue = {} \/ Cardinality(P) = i
  BY DEF Reached
<1>2. CASE s.queue = {}
  <2>1. KahnStep(E, s) = s
    BY <1>2 DEF KahnStep
  <2>2. \A n \in KPIs : s.level[n] <= i + 1
    <3> TAKE n \in KPIs
    <3>1. s.level[n] <= i /\ s.level[n] \in Nat
      BY <1>1 DEF KahnStates
    <3> QED BY <3>1
  <2> QED BY <1>1, <1>2, <2>1, <2>2 DEF Reached
<1>3. CASE s.queue # {}
  <2>1. \A n \in KPIs : KahnStep(E, s).level[n] <= i + 1
    BY <1>1, <1>3, KahnServes
  <2>2. PICK node \in KPIs \ P : Served(E, P \cup {node}, KahnStep(E, s))
    BY <1>1, <1>3, KahnServes
  <2>3. Cardinality(P \cup {node}) = i + 1
    <3>1. IsFiniteSet(P) /\ Cardinality(P) = i
      BY <1>1, <1>3, KPISize, FS_Subset
    <3> QED BY <3>1, FS_AddElement
  <2>4. P \cup {node} \in SUBSET KPIs
    OBVIOUS
  <2>5. KahnStep(E, s) \in KahnStates
    BY <1>1, KahnTyped
  <2> QED BY <2>1, <2>2, <2>3, <2>4, <2>5 DEF Reached
<1> QED BY <1>2, <1>3

\* computeLevels ends after as many steps as there are KPIs.
LEMMA KahnEnds ==
    ASSUME NEW E
    PROVE  \E s \in KahnStates : s.level = ComputeLevels(E) /\ Reached(E, Cardinality(KPIs), s)
<1> DEFINE N == Cardinality(KPIs)
           kahn[i \in 0..N] == IF i = 0 THEN KahnStart(E) ELSE KahnStep(E, kahn[i - 1])
<1>1. N \in Nat
  BY KPISize
<1>2. kahn[0] = KahnStart(E) /\ \A i \in 1..N : kahn[i] = KahnStep(E, kahn[i - 1])
  BY KahnRecursion
<1>3. ComputeLevels(E) = kahn[N].level
  BY DEF ComputeLevels
<1> HIDE DEF N, kahn
<1> DEFINE S == {i \in Nat : i <= N => Reached(E, i, kahn[i])}
<1>4. 0 \in S
  <2>1. Cardinality({}) = 0 /\ {} \in SUBSET KPIs
    BY FS_EmptySet
  <2>2. \A n \in KPIs : KahnStart(E).level[n] <= 0
    BY KahnBegins
  <2>3. Reached(E, 0, KahnStart(E))
    BY <2>1, <2>2, KahnBegins DEF Reached
  <2> QED BY <1>2, <2>3
<1>5. ASSUME NEW i \in S PROVE i + 1 \in S
  <2> SUFFICES ASSUME i + 1 <= N PROVE Reached(E, i + 1, kahn[i + 1])
    OBVIOUS
  <2>1. i \in Nat /\ i <= N /\ i + 1 \in 1..N /\ (i + 1) - 1 = i
    BY <1>1
  <2>2. kahn[i + 1] = KahnStep(E, kahn[i]) /\ Reached(E, i, kahn[i])
    BY <1>2, <2>1
  <2> QED BY <2>1, <2>2, KahnGoesOn
<1>6. Reached(E, N, kahn[N])
  <2>1. Nat \subseteq S
    <3> HIDE DEF S
    <3> QED BY <1>4, <1>5, FromZero
  <2> QED BY <1>1, <2>1
<1> QED BY <1>3, <1>6 DEF Reached, N

\* computeLevels gives depths, none of which exceeds the number of KPIs.
LEMMA ComputesLevels ==
    ASSUME NEW E, Acyclic(E)
    PROVE  LET d == ComputeLevels(E)
           IN d \in [KPIs -> Nat] /\ AreDepths(E, d) /\ \A n \in KPIs : d[n] <= Cardinality(KPIs)
<1> DEFINE N == Cardinality(KPIs)
<1>1. PICK s \in KahnStates : s.level = ComputeLevels(E) /\ Reached(E, N, s)
  BY KahnEnds
<1>2. PICK P \in SUBSET KPIs :
          /\ Served(E, P, s) /\ \A n \in KPIs : s.level[n] <= N
          /\ s.queue = {} \/ Cardinality(P) = N
  BY <1>1 DEF Reached
<1>3. P = KPIs
  <2>1. CASE s.queue = {}
    BY <1>2, <2>1, AllServed
  <2>2. CASE Cardinality(P) = N
    BY <2>2, KPISize, FS_Subset
  <2> QED BY <1>2, <2>1, <2>2
<1>4. \A n \in KPIs : Into(E, n) \cap P = Into(E, n)
  BY <1>3 DEF Into
<1>5. AreDepths(E, s.level)
  BY <1>2, <1>4 DEF Served, AreDepths
<1>6. s.level \in [KPIs -> Nat]
  BY DEF KahnStates
<1> QED BY <1>1, <1>2, <1>5, <1>6

\* Levels are natural numbers, with cycles too.
LEMMA LevelsTyped ==
    ASSUME NEW E PROVE ComputeLevels(E) \in [KPIs -> Nat]
BY KahnEnds DEF KahnStates

\* Below a KPI of some level there is a KPI served of every lower level.
LEMMA LevelsBelow ==
    ASSUME NEW E, NEW P \in SUBSET KPIs, NEW s \in KahnStates, Served(E, P, s), NEW n \in KPIs
    PROVE  \E T \in SUBSET P : Cardinality(T) = s.level[n] /\ \A m \in T : s.level[m] < s.level[n]
<1>1. \A m \in KPIs : s.level[m] \in Nat
  BY DEF KahnStates
<1> DEFINE Below(m, T) == Cardinality(T) = s.level[m] /\ \A x \in T : s.level[x] < s.level[m]
           S == {i \in Nat : \A m \in KPIs : s.level[m] = i => \E T \in SUBSET P : Below(m, T)}
<1>2. 0 \in S
  <2>1. \A m \in KPIs : s.level[m] = 0 => Below(m, {})
    BY FS_EmptySet
  <2> QED BY <2>1
<1>3. ASSUME NEW i \in S PROVE i + 1 \in S
  <2> SUFFICES ASSUME NEW m \in KPIs, s.level[m] = i + 1
               PROVE  \E T \in SUBSET P : Below(m, T)
    OBVIOUS
  <2>1. i \in Nat /\ s.level[m] # 0
    OBVIOUS
  <2>2. PICK x \in Into(E, m) \cap P : s.level[m] = s.level[x] + 1
    BY <2>1 DEF Served
  <2>3. x \in KPIs /\ s.level[x] \in Nat
    BY <1>1 DEF Into
  <2>4. s.level[x] = i
    BY <2>1, <2>2, <2>3
  <2>5. PICK T \in SUBSET P : Below(x, T)
    BY <2>3, <2>4
  <2>6. x \notin T
    BY <2>3, <2>5
  <2>7. Cardinality(T \cup {x}) = i + 1
    <3>1. IsFiniteSet(T)
      BY KPISize, FS_Subset
    <3> QED BY <3>1, <2>4, <2>5, <2>6, FS_AddElement
  <2>8. \A y \in T \cup {x} : s.level[y] < s.level[m]
    <3> TAKE y \in T \cup {x}
    <3>1. PICK a \in Nat : a = s.level[y]
      BY <1>1, <2>3
    <3>2. a < i \/ a = i
      BY <2>4, <2>5, <3>1
    <3> QED BY <2>1, <3>1, <3>2
  <2> QED BY <2>7, <2>8
<1>4. Nat \subseteq S
  <2> HIDE DEF S
  <2> QED BY <1>2, <1>3, FromZero
<1>5. s.level[n] \in S
  BY <1>1, <1>4
<1> QED BY <1>5

\* Whatever the cascades, also with cycles between them, the level of a cascade
\* leaves room for its parent and its child.
LEMMA LevelsBounded ==
    ASSUME NEW E, NEW e \in E, e \in Pairs, e[1] # e[2]
    PROVE  ComputeLevels(E)[e[1]] \in 0..MaxLevel
<1> DEFINE N == Cardinality(KPIs)
<1>1. PICK s \in KahnStates : s.level = ComputeLevels(E) /\ Reached(E, N, s)
  BY KahnEnds
<1>2. PICK P \in SUBSET KPIs : Served(E, P, s)
  BY <1>1 DEF Reached
<1>3. /\ e[1] \in KPIs /\ e[2] \in KPIs /\ e[1] \in Into(E, e[2])
      /\ s.level[e[1]] \in Nat /\ s.level[e[2]] \in Nat
  BY DEF Pairs, KahnStates, Into
<1>4. PICK T \in SUBSET P : Cardinality(T) = s.level[e[1]] /\ \A m \in T : s.level[m] < s.level[e[1]]
  BY <1>2, <1>3, LevelsBelow
<1>5. e[1] \notin T
  BY <1>3, <1>4
<1>6. e[2] \notin T
  <2> SUFFICES ASSUME e[2] \in T PROVE FALSE
    OBVIOUS
  <2>1. e[1] \in P
    BY <1>2, <1>3 DEF Served
  <2>2. s.level[e[2]] >= s.level[e[1]] + 1
    BY <1>2, <1>3, <2>1 DEF Served
  <2> QED BY <1>3, <1>4, <2>2
<1>7. Cardinality((T \cup {e[1]}) \cup {e[2]}) = s.level[e[1]] + 2
  <2>1. IsFiniteSet(T)
    BY KPISize, FS_Subset
  <2>2. IsFiniteSet(T \cup {e[1]}) /\ Cardinality(T \cup {e[1]}) = s.level[e[1]] + 1
    BY <1>4, <1>5, <2>1, FS_AddElement
  <2>3. PICK U : U = T \cup {e[1]}
    OBVIOUS
  <2>4. e[2] \notin U
    BY <1>6, <2>3
  <2>5. Cardinality(U \cup {e[2]}) = Cardinality(U) + 1
    BY <2>2, <2>3, <2>4, FS_AddElement
  <2> QED BY <1>3, <2>2, <2>3, <2>5
<1>8. Cardinality((T \cup {e[1]}) \cup {e[2]}) <= N
  BY <1>3, KPISize, FS_Subset
<1>9. PICK a \in Nat, b \in Nat : a = s.level[e[1]] /\ b = N
  BY <1>3, KPISize
<1>10. a + 2 <= b
  BY <1>7, <1>8, <1>9
<1> QED BY <1>1, <1>9, <1>10 DEF MaxLevel

------------------------------------------------------------------------------
(* Depth, the longest path *)

LEMMA PathRecursion ==
    ASSUME NEW E, NEW n \in KPIs
    PROVE  LET N == Cardinality(KPIs)
               upTo[i \in 0..N] == IF i = 0 THEN {n}
                                   ELSE {m \in KPIs : \E k \in upTo[i - 1] : <<m, k>> \in E}
           IN upTo[0] = {n} /\ \A i \in 1..N : upTo[i] = {m \in KPIs : \E k \in upTo[i - 1] : <<m, k>> \in E}
<1> DEFINE N == Cardinality(KPIs)
           Above(K) == {m \in KPIs : \E k \in K : <<m, k>> \in E}
           G(g) == [i \in 0..N |-> IF i = 0 THEN {n} ELSE Above(g[i - 1])]
           upTo == CHOOSE g : g = G(g)
<1>1. N \in Nat
  BY KPISize
<1>2. PICK step \in [SUBSET KPIs -> SUBSET KPIs] : \A K \in SUBSET KPIs : step[K] = Above(K)
  <2>1. [K \in SUBSET KPIs |-> Above(K)] \in [SUBSET KPIs -> SUBSET KPIs]
    OBVIOUS
  <2> QED BY <2>1
<1> HIDE DEF N, Above
<1>3. PICK f \in [0..N -> SUBSET KPIs] : f[0] = {n} /\ \A i \in 1..N : f[i] = step[f[i - 1]]
  <2>1. {n} \in SUBSET KPIs
    OBVIOUS
  <2>2. Solvable(SUBSET KPIs, {n}, step, N)
    BY <1>1, <2>1, Iterates
  <2> QED BY <2>2 DEF Solvable
<1>4. f = G(f)
  <2>1. \A i \in 0..N : f[i] = G(f)[i]
    <3> TAKE i \in 0..N
    <3>1. CASE i = 0
      BY <1>3, <3>1
    <3>2. CASE i # 0
      <4>1. i \in 1..N /\ i - 1 \in 0..N
        BY <1>1, <3>2
      <4> QED BY <1>2, <1>3, <3>2, <4>1
    <3> QED BY <3>1, <3>2
  <2> QED BY <2>1
<1> HIDE DEF G
<1>5. upTo = G(upTo)
  BY <1>4
<1> HIDE DEF upTo
<1>6. upTo[0] = {n} /\ \A i \in 1..N : upTo[i] = Above(upTo[i - 1])
  <2>1. \A i \in 0..N : upTo[i] = IF i = 0 THEN {n} ELSE Above(upTo[i - 1])
    BY <1>5 DEF G
  <2> QED BY <1>1, <2>1
<1> QED BY <1>6 DEF upTo, G, N, Above

\* What satisfies the equations of depths is the length of the longest path.
LEMMA LongestPath ==
    ASSUME NEW E, NEW d \in [KPIs -> Nat], AreDepths(E, d), NEW n \in KPIs, d[n] <= Cardinality(KPIs)
    PROVE  Depth(E, n) = d[n]
<1> DEFINE N == Cardinality(KPIs)
           upTo[i \in 0..N] == IF i = 0 THEN {n}
                               ELSE {m \in KPIs : \E k \in upTo[i - 1] : <<m, k>> \in E}
<1>1. N \in Nat /\ d[n] \in 0..N
  BY KPISize
<1>2. upTo[0] = {n} /\ \A i \in 1..N : upTo[i] = {m \in KPIs : \E k \in upTo[i - 1] : <<m, k>> \in E}
  BY PathRecursion
<1>3. Depth(E, n) = Max({i \in 0..N : upTo[i] # {}})
  BY DEF Depth
<1> HIDE DEF N, upTo
<1> DEFINE S == {i \in Nat : i <= N => /\ \A m \in upTo[i] : m \in KPIs /\ d[m] + i <= d[n]
                                       /\ i <= d[n] => \E m \in upTo[i] : d[m] + i = d[n]}
<1>4. 0 \in S
  BY <1>1, <1>2
<1>5. ASSUME NEW i \in S PROVE i + 1 \in S
  <2> SUFFICES ASSUME i + 1 <= N
               PROVE  /\ \A m \in upTo[i + 1] : m \in KPIs /\ d[m] + (i + 1) <= d[n]
                      /\ i + 1 <= d[n] => \E m \in upTo[i + 1] : d[m] + (i + 1) = d[n]
    OBVIOUS
  <2>1. i \in Nat /\ i <= N /\ i + 1 \in 1..N /\ (i + 1) - 1 = i /\ d[n] \in Nat
    BY <1>1
  <2>2. upTo[i + 1] = {m \in KPIs : \E k \in upTo[i] : <<m, k>> \in E}
    BY <1>2, <2>1
  <2>3. /\ \A m \in upTo[i] : m \in KPIs /\ d[m] + i <= d[n]
        /\ i <= d[n] => \E m \in upTo[i] : d[m] + i = d[n]
    BY <2>1
  <2>4. ASSUME NEW m \in upTo[i + 1] PROVE m \in KPIs /\ d[m] + (i + 1) <= d[n]
    <3>1. PICK k \in upTo[i] : m \in KPIs /\ <<m, k>> \in E
      BY <2>2
    <3>2. k \in KPIs /\ m \in Into(E, k) /\ d[k] + i <= d[n] /\ d[k] \in Nat /\ d[m] \in Nat
      BY <2>3, <3>1 DEF Into
    <3>3. d[k] >= d[m] + 1
      BY <3>2 DEF AreDepths
    <3> QED BY <2>1, <3>1, <3>2, <3>3
  <2>5. ASSUME i + 1 <= d[n] PROVE \E m \in upTo[i + 1] : d[m] + (i + 1) = d[n]
    <3>1. PICK k \in upTo[i] : d[k] + i = d[n]
      BY <2>1, <2>3, <2>5
    <3>2. k \in KPIs /\ d[k] \in Nat /\ d[k] # 0
      BY <2>1, <2>3, <2>5, <3>1
    <3>3. PICK m \in Into(E, k) : d[k] = d[m] + 1
      BY <3>2 DEF AreDepths
    <3>4. m \in KPIs /\ m \in upTo[i + 1] /\ d[m] \in Nat
      BY <2>2, <3>1, <3>3 DEF Into
    <3> QED BY <2>1, <3>1, <3>3, <3>4
  <2> QED BY <2>4, <2>5
<1>6. Nat \subseteq S
  <2> HIDE DEF S
  <2> QED BY <1>4, <1>5, FromZero
<1>7. upTo[d[n]] # {}
  BY <1>1, <1>6
<1>8. ASSUME NEW i \in 0..N, upTo[i] # {} PROVE i <= d[n]
  <2>1. PICK m \in upTo[i] : m \in KPIs /\ d[m] + i <= d[n]
    BY <1>1, <1>6, <1>8
  <2> QED BY <1>1, <2>1
<1>9. PICK T : T = {i \in 0..N : upTo[i] # {}}
  OBVIOUS
<1>10. d[n] \in T /\ \A i \in T : d[n] >= i /\ i \in Nat
  BY <1>1, <1>7, <1>8, <1>9
<1>11. Max(T) = d[n]
  BY <1>1, <1>10 DEF Max
<1> QED BY <1>3, <1>9, <1>11

\* computeLevels is the longest path, whatever node it serves next.
LEMMA LevelIsDepth ==
    ASSUME NEW E, Acyclic(E), NEW n \in KPIs
    PROVE  ComputeLevels(E)[n] = Depth(E, n)
BY ComputesLevels, LongestPath

------------------------------------------------------------------------------
(* The levels of the rows *)

\* What the row of a cascade should hold.
Expected(e) == ComputeLevels(edges)[e[1]]
\* A request is going to write that row: from a read to come, or from one that was made.
Pending(e) ==
    \E c \in Callers : request[c].op = "levels"
                       /\ (request[c].stage = "read" \/ <<e, Expected(e)>> \in request[c].todo)
\* What a caller may be doing; the levels it is to write are not bounded here.
Recomputations == [op : {"levels"}, stage : {"read", "write"}, todo : SUBSET (Pairs \X Nat)]
Requests == {NoRequest} \cup FormulaRequests \cup CascadeRequests \cup Recomputations
Formed(r) == r \in Requests

LevelsInv ==
    /\ level = [e \in Pairs |-> level[e]]
    /\ \A c \in Callers : Formed(request[c])
    /\ ~disturbed => /\ \A c \in Callers : WritingLevels(c) => \A t \in request[c].todo :
                                               t[1] \in edges /\ t[2] = Expected(t[1])
                     /\ \A e \in edges : level[e] = Expected(e) \/ Pending(e)

\* A check passed, or was overtaken.
LEMMA StillFormed ==
    ASSUME NEW r, Formed(r), r.op \in {"formula", "cascade"}
    PROVE  /\ Formed([r EXCEPT !.stage = "checked"]) /\ [r EXCEPT !.stage = "checked"].op = r.op
           /\ Formed([r EXCEPT !.overtaken = TRUE]) /\ [r EXCEPT !.overtaken = TRUE].op = r.op
<1>1. \/ r.op = "formula" /\ r \in FormulaRequests
      \/ r.op = "cascade" /\ r \in CascadeRequests
  BY DEF Formed, Requests, NoRequest, Recomputations, FormulaRequests, CascadeRequests
<1>2. CASE r.op = "formula" /\ r \in FormulaRequests
  <2>1. /\ [r EXCEPT !.stage = "checked"] \in FormulaRequests
        /\ [r EXCEPT !.overtaken = TRUE] \in FormulaRequests
    BY <1>2 DEF FormulaRequests
  <2>2. \A q \in FormulaRequests : q.op = "formula"
    BY DEF FormulaRequests
  <2> QED BY <1>2, <2>1, <2>2 DEF Formed, Requests
<1>3. CASE r.op = "cascade" /\ r \in CascadeRequests
  <2>1. /\ [r EXCEPT !.stage = "checked"] \in CascadeRequests
        /\ [r EXCEPT !.overtaken = TRUE] \in CascadeRequests
    BY <1>3 DEF CascadeRequests
  <2>2. \A q \in CascadeRequests : q.op = "cascade"
    BY DEF CascadeRequests
  <2> QED BY <1>3, <2>1, <2>2 DEF Formed, Requests
<1> QED BY <1>1, <1>2, <1>3

\* A recomputation is its stage and its writes.
LEMMA RecomputationFormed ==
    ASSUME NEW r, Formed(r), r.op = "levels"
    PROVE  /\ r = [op |-> "levels", stage |-> r.stage, todo |-> r.todo]
           /\ r.stage \in {"read", "write"} /\ r.todo \in SUBSET (Pairs \X Nat)
<1>1. r \in Recomputations
  BY DEF Formed, Requests, NoRequest, FormulaRequests, CascadeRequests
<1> QED BY <1>1 DEF Recomputations

LEMMA FormsRecomputation ==
    ASSUME NEW stage \in {"read", "write"}, NEW todo \in SUBSET (Pairs \X Nat)
    PROVE  Formed([op |-> "levels", stage |-> stage, todo |-> todo])
BY DEF Formed, Requests, Recomputations

LEMMA NoneFormed == Formed(NoRequest) /\ NoRequest.op = "none"
BY DEF Formed, Requests, NoRequest

LEMMA LevelsBegin == GraphInit => LevelsInv
BY NoneFormed DEF GraphInit, LevelsInv, NoRequest, WritingLevels

\* Steps that leave cascades, levels and recomputations alone.
LEMMA LevelsKept ==
    ASSUME LevelsInv, edges' = edges, level' = level, disturbed' <=> disturbed,
           \A c \in Callers :
               \/ request'[c] = request[c]
               \/ request[c].op # "levels" /\ request'[c].op # "levels" /\ Formed(request'[c])
    PROVE  LevelsInv'
<1>1. level' = [e \in Pairs |-> level'[e]] /\ \A c \in Callers : Formed(request'[c])
  BY DEF LevelsInv
<1>2. \A e : Expected(e)' = Expected(e)
  BY DEF Expected
<1>3. \A c \in Callers : WritingLevels(c)' => WritingLevels(c) /\ request'[c] = request[c]
  BY DEF WritingLevels
<1>4. \A e \in edges : Pending(e) => Pending(e)'
  BY <1>2 DEF Pending
<1> QED BY <1>1, <1>2, <1>3, <1>4 DEF LevelsInv

\* A cascade comes or goes, and its request will read the levels anew.
LEMMA LevelsRestart ==
    ASSUME LevelsInv, NEW c \in Callers, request'[c].op = "levels", request'[c].stage = "read",
           disturbed' = (disturbed \/ OthersWriteLevels(c)), level' = [e \in Pairs |-> level'[e]],
           \A d \in Callers : /\ Formed(request'[d])
                              /\ WritingLevels(d)' => WritingLevels(d)
    PROVE  LevelsInv'
<1>1. ~disturbed' => \A d \in Callers : ~WritingLevels(d)'
  BY DEF OthersWriteLevels, WritingLevels
<1>2. \A e : Pending(e)'
  BY DEF Pending
<1> QED BY <1>1, <1>2 DEF LevelsInv

LEMMA ReadLevelsKeeps ==
    ASSUME LevelsInv, request = [d \in Callers |-> request[d]], edges \subseteq Pairs,
           NEW c \in Callers, ReadLevels(c)
    PROVE  LevelsInv'
<1> DEFINE due == {<<e, Expected(e)>> : e \in edges}
<1>1. /\ edges' = edges /\ level' = level /\ disturbed' = (disturbed /\ OthersWriteLevels(c))
      /\ request'[c] = [op |-> "levels", stage |-> "write", todo |-> due]
      /\ \A d \in Callers \ {c} : request'[d] = request[d]
  BY DEF ReadLevels, Becomes, rows, Expected
<1>2. \A e : Expected(e)' = Expected(e)
  BY <1>1 DEF Expected
<1>3. level' = [e \in Pairs |-> level'[e]] /\ \A d \in Callers : Formed(request'[d])
  <2>1. due \in SUBSET (Pairs \X Nat)
    BY LevelsTyped DEF Expected, Pairs
  <2>2. Formed(request'[c])
    BY <1>1, <2>1, FormsRecomputation
  <2> QED BY <1>1, <2>2 DEF LevelsInv
<1>4. ASSUME ~disturbed', NEW d \in Callers, WritingLevels(d)', NEW t \in request'[d].todo
      PROVE  t[1] \in edges' /\ t[2] = Expected(t[1])'
  <2>1. CASE d = c
    BY <1>1, <1>2, <1>4, <2>1
  <2>2. CASE d # c
    <3>1. WritingLevels(d) /\ request'[d] = request[d]
      BY <1>1, <1>4, <2>2 DEF WritingLevels
    <3>2. ~disturbed
      BY <1>1, <1>4, <2>2, <3>1 DEF OthersWriteLevels
    <3> QED BY <1>1, <1>2, <1>4, <3>1, <3>2 DEF LevelsInv
  <2> QED BY <2>1, <2>2
<1>5. \A e \in edges' : Pending(e)'
  BY <1>1, <1>2 DEF Pending
<1> QED BY <1>3, <1>4, <1>5 DEF LevelsInv

LEMMA WriteLevelKeeps ==
    ASSUME LevelsInv, request = [d \in Callers |-> request[d]], edges \subseteq Pairs,
           NEW c \in Callers, WriteLevel(c)
    PROVE  LevelsInv'
<1>1. /\ edges' = edges /\ disturbed' = disturbed /\ WritingLevels(c)
  BY DEF WriteLevel
<1>2. \A e : Expected(e)' = Expected(e)
  BY <1>1 DEF Expected
<1>3. /\ request[c] = [op |-> "levels", stage |-> "write", todo |-> request[c].todo]
      /\ request[c].todo \in SUBSET (Pairs \X Nat)
  <2>1. Formed(request[c]) /\ request[c].op = "levels" /\ request[c].stage = "write"
    BY <1>1 DEF LevelsInv, WritingLevels
  <2> QED BY <2>1, RecomputationFormed
<1>4. CASE request[c].todo = {} /\ Becomes(c, NoRequest) /\ UNCHANGED level
  <2>1. request'[c] = NoRequest /\ \A d \in Callers \ {c} : request'[d] = request[d]
    BY <1>4 DEF Becomes
  <2>2. level' = [e \in Pairs |-> level'[e]] /\ \A d \in Callers : Formed(request'[d])
    BY <1>4, <2>1, NoneFormed DEF LevelsInv
  <2>3. \A d \in Callers : WritingLevels(d)' => WritingLevels(d) /\ request'[d] = request[d]
    BY <2>1 DEF WritingLevels, NoRequest
  <2>4. \A e \in edges : Pending(e) => Pending(e)'
    <3> SUFFICES ASSUME NEW e \in edges, NEW d \in Callers, request[d].op = "levels",
                        request[d].stage = "read" \/ <<e, Expected(e)>> \in request[d].todo
                 PROVE  Pending(e)'
      BY DEF Pending
    <3>1. d # c
      BY <1>3, <1>4
    <3>2. request'[d] = request[d]
      BY <2>1, <3>1
    <3> QED BY <1>2, <3>2 DEF Pending
  <2> QED BY <1>1, <1>2, <1>4, <2>2, <2>3, <2>4 DEF LevelsInv
<1>5. ASSUME NEW t \in request[c].todo, level' = [level EXCEPT ![t[1]] = NewLevel(t[1], t[2])],
             Becomes(c, [request[c] EXCEPT !.todo = @ \ {t}])
      PROVE  LevelsInv'
  <2>1. /\ request'[c] = [op |-> "levels", stage |-> "write", todo |-> request[c].todo \ {t}]
        /\ \A d \in Callers \ {c} : request'[d] = request[d]
    <3>1. PICK td : td = request[c].todo /\ request[c] = [op |-> "levels", stage |-> "write", todo |-> td]
      BY <1>3
    <3>2. [request[c] EXCEPT !.todo = @ \ {t}] = [op |-> "levels", stage |-> "write", todo |-> td \ {t}]
      BY <3>1
    <3> QED BY <1>5, <3>1, <3>2 DEF Becomes
  <2>2. level' = [e \in Pairs |-> level'[e]] /\ \A d \in Callers : Formed(request'[d])
    <3>1. Formed(request'[c])
      BY <1>3, <2>1, FormsRecomputation
    <3>2. level' = [e \in Pairs |-> level'[e]]
      BY <1>5 DEF LevelsInv
    <3> QED BY <2>1, <3>1, <3>2 DEF LevelsInv
  <2>3. \A d \in Callers : WritingLevels(d)' => WritingLevels(d) /\ request'[d].todo \subseteq request[d].todo
    BY <1>1, <2>1 DEF WritingLevels
  <2>4. ASSUME ~disturbed, NEW e \in edges PROVE level'[e] = Expected(e) \/ Pending(e)'
    <3>1. t[1] \in edges /\ t[2] = Expected(t[1])
      BY <1>1, <1>5, <2>4 DEF LevelsInv
    <3>2. CASE e = t[1]
      BY <1>5, <3>1, <3>2 DEF LevelsInv, NewLevel
    <3>3. CASE e # t[1]
      <4>1. CASE level[e] = Expected(e)
        BY <1>5, <3>3, <4>1
      <4>2. CASE Pending(e)
        <5>1. PICK d \in Callers : request[d].op = "levels"
                   /\ (request[d].stage = "read" \/ <<e, Expected(e)>> \in request[d].todo)
          BY <4>2 DEF Pending
        <5>2. <<e, Expected(e)>> # t
          BY <3>3
        <5>3. request'[d].op = "levels"
              /\ (request'[d].stage = "read" \/ <<e, Expected(e)>> \in request'[d].todo)
          BY <1>3, <2>1, <5>1, <5>2
        <5> QED BY <1>2, <5>3 DEF Pending
      <4> QED BY <2>4, <4>1, <4>2 DEF LevelsInv
    <3> QED BY <3>2, <3>3
  <2> QED BY <1>1, <1>2, <2>2, <2>3, <2>4 DEF LevelsInv
<1> QED BY <1>4, <1>5 DEF WriteLevel

\* Writes to rows that are gone leave a recomputation.
LEMMA WritesDropped ==
    ASSUME NEW reqs, NEW gone, NEW d \in Callers, reqs[d].op = "levels", Formed(reqs[d])
    PROVE  /\ DropWrites(reqs, gone)[d] = [op |-> "levels", stage |-> reqs[d].stage,
                                           todo |-> {t \in reqs[d].todo : t[1] \notin gone}]
           /\ reqs[d].stage \in {"read", "write"}
<1>1. DropWrites(reqs, gone)[d] = [reqs[d] EXCEPT !.todo = {t \in @ : t[1] \notin gone}]
  BY DEF DropWrites
<1>2. /\ reqs[d] = [op |-> "levels", stage |-> reqs[d].stage, todo |-> reqs[d].todo]
      /\ reqs[d].stage \in {"read", "write"}
  BY RecomputationFormed
<1>3. PICK st, td : reqs[d] = [op |-> "levels", stage |-> st, todo |-> td]
  BY <1>2
<1>4. [reqs[d] EXCEPT !.todo = {t \in @ : t[1] \notin gone}]
          = [op |-> "levels", stage |-> st, todo |-> {t \in td : t[1] \notin gone}]
  BY <1>3
<1>5. reqs[d].stage = st /\ reqs[d].todo = td
  BY <1>3
<1> QED BY <1>1, <1>4, <1>5, <1>2

\* Purging a KPI that has cascades disturbs the levels.
LEMMA PurgeKeeps ==
    ASSUME LevelsInv, request = [d \in Callers |-> request[d]], edges \subseteq Pairs, NEW k \in KPIs, Purge(k)
    PROVE  LevelsInv'
<1> DEFINE gone == {e \in edges : k \in {e[1], e[2]}}
<1>1. /\ edges' = edges \ gone /\ disturbed' = (disturbed \/ gone # {})
      /\ level' = [e \in Pairs |-> IF e \in gone THEN 0 ELSE level[e]]
      /\ request' = DropWrites(request, gone)
  BY DEF Purge
<1> HIDE DEF gone
<1>2. ASSUME NEW d \in Callers, request[d].op = "levels"
      PROVE  /\ request'[d] = [op |-> "levels", stage |-> request[d].stage,
                               todo |-> {t \in request[d].todo : t[1] \notin gone}]
             /\ request[d].stage \in {"read", "write"}
  <2>1. Formed(request[d]) /\ request'[d] = DropWrites(request, gone)[d]
    BY <1>1 DEF LevelsInv
  <2> QED BY <1>2, <2>1, WritesDropped
<1>3. \A d \in Callers : request[d].op # "levels" => request'[d] = request[d]
  BY <1>1 DEF DropWrites
<1>4. level' = [e \in Pairs |-> level'[e]] /\ \A d \in Callers : Formed(request'[d])
  <2>1. level' = [e \in Pairs |-> level'[e]]
    BY <1>1
  <2>2. ASSUME NEW d \in Callers PROVE Formed(request'[d])
    <3>1. CASE request[d].op = "levels"
      <4>1. Formed(request[d]) /\ request[d].todo \in SUBSET (Pairs \X Nat)
        BY <3>1, RecomputationFormed DEF LevelsInv
      <4>2. {t \in request[d].todo : t[1] \notin gone} \in SUBSET (Pairs \X Nat)
        BY <4>1
      <4> QED BY <1>2, <3>1, <4>2, FormsRecomputation
    <3>2. CASE request[d].op # "levels"
      BY <1>3, <3>2 DEF LevelsInv
    <3> QED BY <3>1, <3>2
  <2> QED BY <2>1, <2>2
<1>5. CASE gone # {}
  BY <1>1, <1>4, <1>5 DEF LevelsInv
<1>6. CASE gone = {}
  <2>1. edges' = edges /\ (disturbed' <=> disturbed)
    BY <1>1, <1>6
  <2>2. \A d \in Callers : request'[d] = request[d]
    <3> TAKE d \in Callers
    <3>1. CASE request[d].op = "levels"
      <4>1. {t \in request[d].todo : t[1] \notin gone} = request[d].todo
        BY <1>6
      <4>2. request[d] = [op |-> "levels", stage |-> request[d].stage, todo |-> request[d].todo]
        BY <3>1, RecomputationFormed DEF LevelsInv
      <4> QED BY <1>2, <3>1, <4>1, <4>2
    <3> QED BY <1>3, <3>1
  <2>3. level' = level
    <3>1. level' = [e \in Pairs |-> level[e]]
      BY <1>1, <1>6
    <3> QED BY <3>1 DEF LevelsInv
  <2> QED BY <2>1, <2>2, <2>3, LevelsKept
<1> QED BY <1>5, <1>6

LEMMA SaveCascadeLevels ==
    ASSUME LevelsInv, request = [d \in Callers |-> request[d]], NEW c \in Callers, SaveCascade(c)
    PROVE  LevelsInv'
<1> DEFINE e == request[c].edge
<1>1. CASE "purged" \in {kpi[e[1]], kpi[e[2]]}
  <2>1. /\ edges' = edges /\ level' = level /\ disturbed' = disturbed
        /\ request'[c] = NoRequest /\ \A d \in Callers \ {c} : request'[d] = request[d]
    BY <1>1 DEF SaveCascade, Becomes
  <2>2. request[c].op # "levels" /\ request'[c].op # "levels" /\ Formed(request'[c])
    BY <2>1, NoneFormed DEF SaveCascade, Checked
  <2> QED BY <2>1, <2>2, LevelsKept
<1>2. CASE "purged" \notin {kpi[e[1]], kpi[e[2]]}
  <2>1. /\ disturbed' = (disturbed \/ OthersWriteLevels(c)) /\ level' = level
        /\ request' = [Overtakes(c, "cascade") EXCEPT ![c] = ReadNext]
    BY <1>2 DEF SaveCascade
  <2>2. ASSUME NEW d \in Callers
        PROVE  \/ request'[d] = ReadNext
               \/ Checked(d, "cascade") /\ request'[d] = [request[d] EXCEPT !.overtaken = TRUE]
               \/ request'[d] = request[d]
    BY <2>1 DEF Overtakes
  <2>3. ASSUME NEW d \in Callers
        PROVE  Formed(request'[d]) /\ (WritingLevels(d)' => WritingLevels(d))
    <3>1. CASE request'[d] = ReadNext
      BY <3>1, FormsRecomputation DEF ReadNext, WritingLevels
    <3>2. CASE Checked(d, "cascade") /\ request'[d] = [request[d] EXCEPT !.overtaken = TRUE]
      <4>1. request[d].op = "cascade" /\ Formed(request[d])
        BY <3>2 DEF Checked, LevelsInv
      <4>2. Formed(request'[d]) /\ request'[d].op = "cascade"
        BY <3>2, <4>1, StillFormed
      <4> QED BY <4>2 DEF WritingLevels
    <3>3. CASE request'[d] = request[d]
      BY <3>3 DEF LevelsInv, WritingLevels
    <3> QED BY <2>2, <3>1, <3>2, <3>3
  <2>4. request'[c] = ReadNext
    BY <2>1 DEF Overtakes
  <2>5. level' = [x \in Pairs |-> level'[x]]
    BY <2>1 DEF LevelsInv
  <2> QED BY <2>1, <2>3, <2>4, <2>5, LevelsRestart DEF ReadNext
<1> QED BY <1>1, <1>2

LEMMA DetachCascadeLevels ==
    ASSUME LevelsInv, request = [d \in Callers |-> request[d]], NEW c \in Callers, NEW e \in Pairs,
           DetachCascade(c, e)
    PROVE  LevelsInv'
<1>1. /\ disturbed' = (disturbed \/ OthersWriteLevels(c)) /\ level' = [level EXCEPT ![e] = 0]
      /\ request' = DropWrites([request EXCEPT ![c] = ReadNext], {e})
  BY DEF DetachCascade
<1>2. request'[c] = [op |-> "levels", stage |-> "read", todo |-> {}]
  <2>1. [request EXCEPT ![c] = ReadNext][c] = ReadNext
    OBVIOUS
  <2>2. {t \in {} : t[1] \notin {e}} = {}
    OBVIOUS
  <2> QED BY <1>1, <2>1, <2>2 DEF DropWrites, ReadNext
<1>3. ASSUME NEW d \in Callers
      PROVE  Formed(request'[d]) /\ (WritingLevels(d)' => WritingLevels(d))
  <2>1. CASE d = c
    BY <1>2, <2>1, FormsRecomputation DEF WritingLevels
  <2>2. CASE d # c /\ request[d].op = "levels"
    <3>1. request'[d] = [op |-> "levels", stage |-> request[d].stage,
                         todo |-> {t \in request[d].todo : t[1] \notin {e}}]
      <4>1. PICK reqs : reqs = [request EXCEPT ![c] = ReadNext]
        OBVIOUS
      <4>2. reqs[d] = request[d] /\ request' = DropWrites(reqs, {e}) /\ Formed(request[d])
        BY <1>1, <2>2, <4>1 DEF LevelsInv
      <4> HIDE DEF LevelsInv
      <4> QED BY <2>2, <4>2, WritesDropped
    <3>2. {t \in request[d].todo : t[1] \notin {e}} \in SUBSET (Pairs \X Nat)
          /\ request[d].stage \in {"read", "write"}
      BY <2>2, RecomputationFormed DEF LevelsInv
    <3>3. Formed(request'[d])
      BY <3>1, <3>2, FormsRecomputation
    <3> QED BY <2>2, <3>1, <3>3 DEF WritingLevels
  <2>3. CASE d # c /\ request[d].op # "levels"
    <3>1. request'[d] = request[d]
      BY <1>1, <2>3 DEF DropWrites
    <3> QED BY <3>1 DEF LevelsInv, WritingLevels
  <2> QED BY <2>1, <2>2, <2>3
<1>4. level' = [x \in Pairs |-> level'[x]]
  BY <1>1 DEF LevelsInv
<1>5. request'[c].op = "levels" /\ request'[c].stage = "read"
  BY <1>2
<1> QED BY <1>1, <1>3, <1>4, <1>5, LevelsRestart

LEMMA OvertakesLevels ==
    ASSUME LevelsInv, NEW c \in Callers, Checked(c, "formula"), request' = Overtakes(c, "formula"),
           edges' = edges, level' = level, disturbed' = disturbed
    PROVE  LevelsInv'
<1>1. ASSUME NEW d \in Callers
      PROVE  \/ request'[d] = request[d]
             \/ request[d].op # "levels" /\ request'[d].op # "levels" /\ Formed(request'[d])
  <2>1. CASE d = c
    BY <2>1, NoneFormed DEF Overtakes, Checked
  <2>2. CASE d # c /\ Checked(d, "formula")
    <3>1. request'[d] = [request[d] EXCEPT !.overtaken = TRUE] /\ request[d].op = "formula"
      BY <2>2 DEF Overtakes, Checked
    <3>2. Formed(request[d])
      BY DEF LevelsInv
    <3> QED BY <3>1, <3>2, StillFormed
  <2>3. CASE d # c /\ ~Checked(d, "formula")
    BY <2>3 DEF Overtakes
  <2> QED BY <2>1, <2>2, <2>3
<1> QED BY <1>1, LevelsKept

\* After a failure nothing is promised of the levels.
LEMMA FailWriteLevels ==
    ASSUME LevelsInv, request = [d \in Callers |-> request[d]], NEW c \in Callers, FailWrite(c)
    PROVE  LevelsInv'
<1>1. disturbed' = TRUE /\ level' = level /\ request[c].op = "levels"
  BY DEF FailWrite, WritingLevels, rows
<1>2. PICK td \in SUBSET (Pairs \X Nat), st \in {"read", "write"} :
          request[c] = [op |-> "levels", stage |-> st, todo |-> td]
  BY <1>1, RecomputationFormed DEF LevelsInv
<1>3. PICK t \in td : Becomes(c, [request[c] EXCEPT !.todo = td \ {t}])
  <2>1. request[c].todo = td
    BY <1>2
  <2>2. \E t \in request[c].todo : Becomes(c, [request[c] EXCEPT !.todo = request[c].todo \ {t}])
    BY DEF FailWrite
  <2> QED BY <2>1, <2>2, Zenon
<1>4. [request[c] EXCEPT !.todo = td \ {t}] = [op |-> "levels", stage |-> st, todo |-> td \ {t}]
  BY <1>2
<1>5. /\ request'[c] = [op |-> "levels", stage |-> st, todo |-> td \ {t}]
      /\ \A d \in Callers \ {c} : request'[d] = request[d]
  BY <1>3, <1>4 DEF Becomes
<1>6. Formed(request'[c])
  BY <1>2, <1>5, FormsRecomputation
<1> QED BY <1>1, <1>5, <1>6 DEF LevelsInv

LEMMA GiveUpLevels ==
    ASSUME LevelsInv, request = [d \in Callers |-> request[d]], NEW c \in Callers, GiveUp(c)
    PROVE  LevelsInv'
<1>1. /\ request'[c] = NoRequest /\ \A d \in Callers \ {c} : request'[d] = request[d]
      /\ edges' = edges /\ level' = level /\ disturbed' = (disturbed \/ request[c].op = "levels")
  BY DEF GiveUp, Becomes, rows
<1>2. Formed(request'[c]) /\ request'[c].op # "levels"
  BY <1>1, NoneFormed
<1>3. CASE request[c].op = "levels"
  BY <1>1, <1>2, <1>3 DEF LevelsInv
<1>4. CASE request[c].op # "levels"
  BY <1>1, <1>2, <1>4, LevelsKept
<1> QED BY <1>3, <1>4

LEMMA LevelsStep == GInv /\ LevelsInv /\ [GraphNext]_graphVars => LevelsInv'
<1> SUFFICES ASSUME GInv, LevelsInv, [GraphNext]_graphVars
             PROVE  LevelsInv'
  OBVIOUS
<1>0. request = [c \in Callers |-> request[c]] /\ edges \subseteq Pairs
  BY DEF GInv, Shapes
<1>1. ASSUME NEW c \in Callers, NEW r, Starts(c), Becomes(c, r), r.op # "levels", Formed(r),
             UNCHANGED <<rows, raced, disturbed>>
      PROVE  LevelsInv'
  <2>1. request'[c] = r /\ \A d \in Callers \ {c} : request'[d] = request[d]
    BY <1>0, <1>1 DEF Becomes
  <2>2. request[c].op # "levels"
    BY <1>1 DEF Starts, NoRequest
  <2>3. \A d \in Callers :
          \/ request'[d] = request[d]
          \/ request[d].op # "levels" /\ request'[d].op # "levels" /\ Formed(request'[d])
    <3> TAKE d \in Callers
    <3>1. CASE d = c
      BY <1>1, <2>1, <2>2, <3>1
    <3> QED BY <2>1, <3>1
  <2> QED BY <1>1, <2>3, LevelsKept DEF rows
<1>2. ASSUME NEW c \in Callers, NEW k \in KPIs, NEW refs \in SUBSET KPIs, BeginFormula(c, k, refs)
      PROVE  LevelsInv'
  <2> DEFINE r == [op |-> "formula", stage |-> "begun", kpi |-> k, refs |-> refs, overtaken |-> FALSE]
  <2>1. r \in FormulaRequests /\ r.op # "levels"
    BY DEF FormulaRequests
  <2>2. Formed(r) /\ Starts(c) /\ Becomes(c, r) /\ UNCHANGED <<rows, raced, disturbed>>
    BY <1>2, <2>1 DEF BeginFormula, Formed, Requests
  <2> QED BY <1>1, <2>1, <2>2
<1>3. ASSUME NEW c \in Callers, NEW e \in Pairs, BeginCascade(c, e)
      PROVE  LevelsInv'
  <2> DEFINE r == [op |-> "cascade", stage |-> "begun", edge |-> e, overtaken |-> FALSE]
  <2>1. r \in CascadeRequests /\ r.op # "levels"
    BY DEF CascadeRequests
  <2>2. Formed(r) /\ Starts(c) /\ Becomes(c, r) /\ UNCHANGED <<rows, raced, disturbed>>
    BY <1>3, <2>1 DEF BeginCascade, Formed, Requests
  <2> QED BY <1>1, <2>1, <2>2
<1>4. ASSUME NEW c \in Callers, CheckFormula(c) \/ CheckCascade(c)
      PROVE  LevelsInv'
  <2>1. PICK r : Becomes(c, r) /\ (r = NoRequest \/ r = [request[c] EXCEPT !.stage = "checked"])
    BY <1>4 DEF CheckFormula, CheckCascade
  <2>2. request[c].op \in {"formula", "cascade"} /\ Formed(request[c])
    BY <1>4 DEF CheckFormula, CheckCascade, LevelsInv
  <2>3. r.op # "levels" /\ Formed(r)
    <3>1. CASE r = NoRequest
      BY <3>1, NoneFormed
    <3>2. CASE r = [request[c] EXCEPT !.stage = "checked"]
      BY <2>2, <3>2, StillFormed
    <3> QED BY <2>1, <3>1, <3>2
  <2>4. \A d \in Callers :
          \/ request'[d] = request[d]
          \/ request[d].op # "levels" /\ request'[d].op # "levels" /\ Formed(request'[d])
    <3>1. request'[c] = r /\ \A d \in Callers \ {c} : request'[d] = request[d]
      BY <1>0, <2>1 DEF Becomes
    <3>2. request[c].op # "levels"
      BY <2>2
    <3> TAKE d \in Callers
    <3>3. CASE d = c
      BY <2>3, <3>1, <3>2, <3>3
    <3> QED BY <3>1, <3>3
  <2> QED BY <1>4, <2>4, LevelsKept DEF CheckFormula, CheckCascade, rows
<1>5. ASSUME NEW c \in Callers, SaveFormula(c)
      PROVE  LevelsInv'
  BY <1>5, OvertakesLevels DEF SaveFormula
<1>6. ASSUME NEW k \in KPIs, NEW c \in Callers, DetachBesideSave(k, c)
      PROVE  LevelsInv'
  BY <1>6, OvertakesLevels DEF DetachBesideSave
<1>7. ASSUME NEW k \in KPIs, DetachFormula(k) \/ Archive(k) \/ Restore(k)
      PROVE  LevelsInv'
  <2>1. edges' = edges /\ level' = level /\ disturbed' = disturbed /\ request' = request
    BY <1>7 DEF DetachFormula, Archive, Restore
  <2> QED BY <2>1, LevelsKept
<1>8. CASE UNCHANGED graphVars
  <2>1. edges' = edges /\ level' = level /\ disturbed' = disturbed /\ request' = request
    BY <1>8 DEF graphVars
  <2> QED BY <2>1, LevelsKept
<1> QED
  BY <1>0, <1>2, <1>3, <1>4, <1>5, <1>6, <1>7, <1>8, SaveCascadeLevels, DetachCascadeLevels,
     ReadLevelsKeeps, WriteLevelKeeps, FailWriteLevels, GiveUpLevels, PurgeKeeps DEF GraphNext

\* The checks refuse exactly the edges that would close a loop, for any graph
\* without one: wouldCreateCycle of cascade-graph.ts one cascade, and
\* wouldCreateDependencyCycle of formula-deps.ts, asked for one reference after the
\* other, all the references of a formula at once.
THEOREM ChecksAreExact ==
    ASSUME NEW E \in SUBSET Pairs, Acyclic(E), NEW k \in KPIs
    PROVE  /\ \A p \in KPIs : WouldCreateCycle(E, p, k) <=> ~Acyclic(E \cup {<<p, k>>})
           /\ \A refs \in SUBSET KPIs : (\A e \in E : e[2] # k) =>
                  ((\E s \in refs : WouldCreateDependencyCycle(E, s, k))
                       <=> ~Acyclic(E \cup {<<s, k>> : s \in refs}))
<1>1. k \in Reachable(E, k)
  BY DEF Reachable
<1>2. ASSUME NEW p \in KPIs
      PROVE  WouldCreateCycle(E, p, k) <=> ~Acyclic(E \cup {<<p, k>>})
  <2>1. WouldCreateCycle(E, p, k) => p \in Reachable(E, k)
    BY <1>1 DEF WouldCreateCycle
  <2> QED BY <2>1, PathClosesLoop, CascadeCheckSound
<1>3. ASSUME NEW refs \in SUBSET KPIs, \A e \in E : e[2] # k
      PROVE  (\E s \in refs : WouldCreateDependencyCycle(E, s, k))
                 <=> ~Acyclic(E \cup {<<s, k>> : s \in refs})
  <2> DEFINE F == {<<s, k>> : s \in refs}
  <2>1. ASSUME NEW s \in refs, WouldCreateDependencyCycle(E, s, k) PROVE ~Acyclic(E \cup F)
    <3>1. s \in Reachable(E, k)
      BY <1>1, <2>1, WalkingBackward DEF WouldCreateDependencyCycle
    <3>2. ~Acyclic(E \cup {<<s, k>>})
      BY <3>1, PathClosesLoop
    <3>3. E \cup {<<s, k>>} \subseteq E \cup F
      OBVIOUS
    <3> QED BY <3>2, <3>3, AcyclicSubset
  <2>2. (\A s \in refs : ~WouldCreateDependencyCycle(E, s, k)) => Acyclic(E \cup F)
    BY <1>3, FormulaCheckSound
  <2> QED BY <2>1, <2>2
<1> QED BY <1>2, <1>3

\* computeLevels gives every KPI the longest path that leads to it, for any
\* number of KPIs, any cascades without a cycle and any order of its queue.
THEOREM LevelsAreComputed == GraphSpec => []ComputesDepths
<1>1. ASSUME GInv PROVE ComputesDepths
  BY LevelIsDepth DEF ComputesDepths
<1> QED BY InitGInv, NextGInv, <1>1, PTL DEF GraphSpec

\* Once nobody recomputes levels, each cascade carries the depth of its parent,
\* unless cascades changed while another request was writing, with a purge, or
\* behind an overtaken check, or a recomputation failed: the next one that is alone
\* and gets through puts all of them right.
THEOREM LevelsSettle == GraphSpec => []LevelsAreDepths
<1>1. ASSUME GInv, LevelsInv, ~raced, ~disturbed, \A c \in Callers : request[c].op # "levels",
             NEW e \in edges
      PROVE  level[e] = Depth(edges, e[1])
  <2>1. level[e] = ComputeLevels(edges)[e[1]]
    BY <1>1 DEF LevelsInv, Pending, Expected
  <2>2. Acyclic(edges) /\ e[1] \in KPIs
    BY <1>1 DEF GInv, AcyclicUnlessRaced, Shapes, Pairs
  <2> QED BY <2>1, <2>2, LevelIsDepth
<1>2. GInv /\ LevelsInv => LevelsAreDepths
  BY <1>1 DEF LevelsAreDepths
<1> QED BY InitGInv, LevelsBegin, NextGInv, LevelsStep, <1>2, PTL DEF GraphSpec

------------------------------------------------------------------------------
(* The types *)

\* No KPI cascades to itself, so a level never exceeds MaxLevel.
Arcs == {e \in Pairs : e[1] # e[2]}
ArcRequests == [op : {"cascade"}, stage : {"begun", "checked"}, edge : Arcs, overtaken : BOOLEAN]
GraphRequests == {NoRequest} \cup FormulaRequests \cup ArcRequests \cup LevelRequests
GraphKinds ==
    /\ kpi \in [KPIs -> {"live", "archived", "purged"}]
    /\ formula \subseteq KPIs /\ deps \subseteq Pairs /\ edges \subseteq Arcs
    /\ level \in [Pairs -> 0..MaxLevel]
    /\ request \in [Callers -> GraphRequests]
    /\ ops \in 0..MaxOps /\ raced \in BOOLEAN /\ disturbed \in BOOLEAN

LEMMA KindsAreTypes == GraphKinds => GraphTypeOK
<1>1. Arcs \subseteq Pairs /\ ArcRequests \subseteq CascadeRequests
  BY DEF Arcs, ArcRequests, CascadeRequests
<1> QED BY <1>1 DEF GraphKinds, GraphTypeOK, GraphRequests

LEMMA MaxLevelNat == MaxLevel \in Nat
<1>1. PICK n \in Nat : n = Cardinality(KPIs)
  BY KPISize
<1> QED BY <1>1 DEF MaxLevel

LEMMA KindsBegin == GraphInit => GraphKinds
<1> SUFFICES ASSUME GraphInit PROVE GraphKinds
  OBVIOUS
<1>1. kpi \in [KPIs -> {"live", "archived", "purged"}] /\ level \in [Pairs -> 0..MaxLevel]
  BY MaxLevelNat DEF GraphInit
<1>2. request \in [Callers -> GraphRequests]
  BY DEF GraphInit, GraphRequests
<1>3. ops \in 0..MaxOps
  BY KpiGraphAssumption DEF GraphInit, KpiGraphAssumption
<1> QED BY <1>1, <1>2, <1>3 DEF GraphInit, GraphKinds

\* What a request becomes when its check passes or is overtaken, or its rows go.
LEMMA RequestStays ==
    ASSUME NEW r \in GraphRequests
    PROVE  /\ r.op \in {"formula", "cascade"} =>
                  /\ [r EXCEPT !.stage = "checked"] \in GraphRequests
                  /\ [r EXCEPT !.overtaken = TRUE] \in GraphRequests
           /\ r.op = "formula" => r.kpi \in KPIs /\ r.refs \in SUBSET KPIs
           /\ r.op = "cascade" => r.edge \in Arcs
           /\ r.op = "levels" =>
                  /\ r.todo \in SUBSET (Pairs \X (0..MaxLevel))
                  /\ \A T \in SUBSET r.todo : [r EXCEPT !.todo = T] \in GraphRequests
<1>1. CASE r = NoRequest
  BY <1>1 DEF NoRequest
<1>2. CASE r \in FormulaRequests
  <2>1. r.op = "formula" /\ r.kpi \in KPIs /\ r.refs \in SUBSET KPIs
    BY <1>2 DEF FormulaRequests
  <2>2. [r EXCEPT !.stage = "checked"] \in FormulaRequests /\ [r EXCEPT !.overtaken = TRUE] \in FormulaRequests
    BY <1>2 DEF FormulaRequests
  <2> QED BY <2>1, <2>2 DEF GraphRequests
<1>3. CASE r \in ArcRequests
  <2>1. r.op = "cascade" /\ r.edge \in Arcs
    BY <1>3 DEF ArcRequests
  <2>2. [r EXCEPT !.stage = "checked"] \in ArcRequests /\ [r EXCEPT !.overtaken = TRUE] \in ArcRequests
    BY <1>3 DEF ArcRequests
  <2> QED BY <2>1, <2>2 DEF GraphRequests
<1>4. CASE r \in LevelRequests
  <2>1. r.op = "levels" /\ r.todo \in SUBSET (Pairs \X (0..MaxLevel))
    BY <1>4 DEF LevelRequests
  <2>2. \A T \in SUBSET r.todo : [r EXCEPT !.todo = T] \in LevelRequests
    BY <1>4 DEF LevelRequests
  <2> QED BY <2>1, <2>2 DEF GraphRequests
<1> QED BY <1>1, <1>2, <1>3, <1>4 DEF GraphRequests

LEMMA OvertakenStays ==
    ASSUME request \in [Callers -> GraphRequests], NEW c, NEW op \in {"formula", "cascade"}
    PROVE  Overtakes(c, op) \in [Callers -> GraphRequests]
<1>1. ASSUME NEW d \in Callers PROVE Overtakes(c, op)[d] \in GraphRequests
  <2>1. CASE d # c /\ Checked(d, op)
    <3>1. request[d] \in GraphRequests /\ request[d].op \in {"formula", "cascade"}
      BY <2>1 DEF Checked
    <3> QED BY <2>1, <3>1, RequestStays DEF Overtakes
  <2>2. CASE ~(d # c /\ Checked(d, op))
    BY <2>2 DEF Overtakes, GraphRequests
  <2> QED BY <2>1, <2>2
<1> QED BY <1>1 DEF Overtakes

LEMMA DroppedStays ==
    ASSUME NEW reqs \in [Callers -> GraphRequests], NEW gone
    PROVE  DropWrites(reqs, gone) \in [Callers -> GraphRequests]
<1>1. ASSUME NEW d \in Callers PROVE DropWrites(reqs, gone)[d] \in GraphRequests
  <2>1. CASE reqs[d].op = "levels"
    <3>1. PICK T \in SUBSET reqs[d].todo : T = {t \in reqs[d].todo : t[1] \notin gone}
      OBVIOUS
    <3>2. DropWrites(reqs, gone)[d] = [reqs[d] EXCEPT !.todo = T]
      BY <2>1, <3>1 DEF DropWrites
    <3>3. reqs[d] \in GraphRequests
      OBVIOUS
    <3> QED BY <2>1, <3>1, <3>2, <3>3, RequestStays
  <2>2. CASE reqs[d].op # "levels"
    BY <2>2 DEF DropWrites
  <2> QED BY <2>1, <2>2
<1> QED BY <1>1 DEF DropWrites

LEMMA ReadNextTyped == ReadNext \in GraphRequests /\ NoRequest \in GraphRequests
BY DEF ReadNext, GraphRequests, LevelRequests

LEMMA RequestBecomes ==
    ASSUME request \in [Callers -> GraphRequests], NEW c \in Callers, NEW r \in GraphRequests, Becomes(c, r)
    PROVE  request' \in [Callers -> GraphRequests]
BY DEF Becomes

LEMMA KindsStep == GraphKinds /\ [GraphNext]_graphVars => GraphKinds'
<1> SUFFICES ASSUME GraphKinds, [GraphNext]_graphVars PROVE GraphKinds'
  OBVIOUS
<1>0. request \in [Callers -> GraphRequests] /\ MaxOps \in Nat /\ MaxLevel \in Nat
  BY MaxLevelNat, KpiGraphAssumption DEF GraphKinds, KpiGraphAssumption
<1>1. ASSUME NEW c \in Callers, NEW k \in KPIs, NEW refs \in SUBSET KPIs, BeginFormula(c, k, refs)
      PROVE  GraphKinds'
  <2>1. [op |-> "formula", stage |-> "begun", kpi |-> k, refs |-> refs, overtaken |-> FALSE] \in GraphRequests
    BY DEF GraphRequests, FormulaRequests
  <2>2. request' \in [Callers -> GraphRequests]
    BY <1>0, <1>1, <2>1, RequestBecomes DEF BeginFormula
  <2> QED BY <1>0, <1>1, <2>2 DEF BeginFormula, Starts, rows, GraphKinds
<1>2. ASSUME NEW c \in Callers, NEW e \in Pairs, BeginCascade(c, e)
      PROVE  GraphKinds'
  <2>1. [op |-> "cascade", stage |-> "begun", edge |-> e, overtaken |-> FALSE] \in GraphRequests
    BY <1>2 DEF GraphRequests, ArcRequests, Arcs, BeginCascade
  <2>2. request' \in [Callers -> GraphRequests]
    BY <1>0, <1>2, <2>1, RequestBecomes DEF BeginCascade
  <2> QED BY <1>0, <1>2, <2>2 DEF BeginCascade, Starts, rows, GraphKinds
<1>3. ASSUME NEW c \in Callers, CheckFormula(c) \/ CheckCascade(c)
      PROVE  GraphKinds'
  <2>1. PICK r : Becomes(c, r) /\ (r = NoRequest \/ r = [request[c] EXCEPT !.stage = "checked"])
    BY <1>3 DEF CheckFormula, CheckCascade
  <2>2. r \in GraphRequests
    <3>1. request[c] \in GraphRequests /\ request[c].op \in {"formula", "cascade"}
      BY <1>0, <1>3 DEF CheckFormula, CheckCascade
    <3> QED BY <2>1, <3>1, RequestStays, ReadNextTyped
  <2>3. request' \in [Callers -> GraphRequests]
    BY <1>0, <2>1, <2>2, RequestBecomes
  <2> QED BY <1>3, <2>3 DEF CheckFormula, CheckCascade, rows, GraphKinds
<1>4. ASSUME NEW c \in Callers, Checked(c, "formula")
      PROVE  request[c].kpi \in KPIs /\ ReplaceEdges(request[c]) \subseteq Pairs
             /\ Overtakes(c, "formula") \in [Callers -> GraphRequests]
             /\ (raced \/ request[c].overtaken) \in BOOLEAN
  <2>1. request[c].kpi \in KPIs /\ request[c].refs \in SUBSET KPIs
    <3>1. request[c] \in GraphRequests /\ request[c].op = "formula"
      BY <1>0, <1>4 DEF Checked
    <3> QED BY <3>1, RequestStays
  <2>2. ReplaceEdges(request[c]) \subseteq Pairs
    BY <2>1 DEF ReplaceEdges, Pairs, GraphKinds
  <2> QED BY <1>0, <2>1, <2>2, OvertakenStays
<1>5. ASSUME NEW c \in Callers, SaveFormula(c)
      PROVE  GraphKinds'
  BY <1>4, <1>5 DEF SaveFormula, GraphKinds
<1>6. ASSUME NEW k \in KPIs, NEW c \in Callers, DetachBesideSave(k, c)
      PROVE  GraphKinds'
  BY <1>0, <1>4, <1>6 DEF DetachBesideSave, GraphKinds
<1>7. ASSUME NEW c \in Callers, SaveCascade(c)
      PROVE  GraphKinds'
  <2> DEFINE e == request[c].edge
  <2>1. CASE "purged" \in {kpi[e[1]], kpi[e[2]]}
    <3>1. request' \in [Callers -> GraphRequests]
      BY <1>0, <1>7, <2>1, RequestBecomes, ReadNextTyped DEF SaveCascade
    <3> QED BY <1>7, <2>1, <3>1 DEF SaveCascade, GraphKinds
  <2>2. CASE "purged" \notin {kpi[e[1]], kpi[e[2]]}
    <3>1. e \in Arcs
      <4>1. request[c] \in GraphRequests /\ request[c].op = "cascade"
        BY <1>0, <1>7 DEF SaveCascade, Checked
      <4> QED BY <4>1, RequestStays
    <3>2. request' \in [Callers -> GraphRequests]
      <4>1. Overtakes(c, "cascade") \in [Callers -> GraphRequests]
        BY <1>0, OvertakenStays
      <4>2. request' = [Overtakes(c, "cascade") EXCEPT ![c] = ReadNext]
        BY <1>7, <2>2 DEF SaveCascade
      <4> QED BY <4>1, <4>2, ReadNextTyped
    <3>3. edges' = edges \cup {e} /\ raced' \in BOOLEAN /\ disturbed' \in BOOLEAN
          /\ UNCHANGED <<kpi, formula, deps, level, ops>>
      BY <1>7, <2>2 DEF SaveCascade
    <3> QED BY <3>1, <3>2, <3>3 DEF GraphKinds
  <2> QED BY <2>1, <2>2
<1>8. ASSUME NEW c \in Callers, NEW e \in Pairs, DetachCascade(c, e)
      PROVE  GraphKinds'
  <2>1. request' \in [Callers -> GraphRequests]
    <3>1. [request EXCEPT ![c] = ReadNext] \in [Callers -> GraphRequests]
      BY <1>0, ReadNextTyped
    <3> QED BY <1>8, <3>1, DroppedStays DEF DetachCascade
  <2>2. level' \in [Pairs -> 0..MaxLevel]
    BY <1>0, <1>8 DEF DetachCascade, GraphKinds
  <2>3. edges' \subseteq Arcs /\ disturbed' \in BOOLEAN /\ ops' \in 0..MaxOps
    BY <1>0, <1>8 DEF DetachCascade, Starts, GraphKinds
  <2> QED BY <1>8, <2>1, <2>2, <2>3 DEF DetachCascade, GraphKinds
<1>9. ASSUME NEW c \in Callers, ReadLevels(c)
      PROVE  GraphKinds'
  <2> DEFINE todo == {<<e, ComputeLevels(edges)[e[1]]>> : e \in edges}
  <2>1. todo \in SUBSET (Pairs \X (0..MaxLevel))
    <3>1. ASSUME NEW e \in edges PROVE e \in Pairs /\ ComputeLevels(edges)[e[1]] \in 0..MaxLevel
      <4>1. e \in Pairs /\ e[1] # e[2]
        BY DEF GraphKinds, Arcs
      <4> QED BY <4>1, LevelsBounded
    <3> QED BY <3>1
  <2>2. [op |-> "levels", stage |-> "write", todo |-> todo] \in GraphRequests
    BY <2>1 DEF GraphRequests, LevelRequests
  <2>3. Becomes(c, [op |-> "levels", stage |-> "write", todo |-> todo])
    BY <1>9 DEF ReadLevels
  <2>4. request' \in [Callers -> GraphRequests]
    BY <1>0, <2>2, <2>3, RequestBecomes
  <2>5. disturbed' \in BOOLEAN /\ UNCHANGED <<kpi, formula, deps, edges, level, ops, raced>>
    BY <1>9 DEF ReadLevels, rows
  <2> QED BY <2>4, <2>5 DEF GraphKinds
<1>10. ASSUME NEW c \in Callers, WriteLevel(c)
       PROVE  GraphKinds'
  <2>1. UNCHANGED <<kpi, formula, deps, edges, ops, raced, disturbed>>
    BY <1>10 DEF WriteLevel
  <2>2. CASE Becomes(c, NoRequest) /\ UNCHANGED level
    <3>1. request' \in [Callers -> GraphRequests]
      BY <1>0, <2>2, RequestBecomes, ReadNextTyped
    <3> QED BY <2>1, <2>2, <3>1 DEF GraphKinds
  <2>3. ASSUME NEW t \in request[c].todo, level' = [level EXCEPT ![t[1]] = NewLevel(t[1], t[2])],
               Becomes(c, [request[c] EXCEPT !.todo = @ \ {t}])
        PROVE  GraphKinds'
    <3>1. request[c] \in GraphRequests /\ request[c].op = "levels"
      BY <1>0, <1>10 DEF WriteLevel, WritingLevels
    <3>2. t \in Pairs \X (0..MaxLevel)
      BY <3>1, RequestStays
    <3>3. t[1] \in Pairs /\ t[2] \in 0..MaxLevel
      BY <3>2
    <3>4. level' \in [Pairs -> 0..MaxLevel]
      BY <2>3, <3>3 DEF GraphKinds, NewLevel
    <3>5. PICK T \in SUBSET request[c].todo : T = request[c].todo \ {t}
      OBVIOUS
    <3>6. [request[c] EXCEPT !.todo = T] \in GraphRequests /\ Becomes(c, [request[c] EXCEPT !.todo = T])
      BY <2>3, <3>1, <3>5, RequestStays
    <3>7. request' \in [Callers -> GraphRequests]
      BY <1>0, <3>6, RequestBecomes
    <3> QED BY <2>1, <3>4, <3>7 DEF GraphKinds
  <2> QED BY <1>10, <2>2, <2>3 DEF WriteLevel
<1>11. ASSUME NEW k \in KPIs, DetachFormula(k) \/ Archive(k) \/ Restore(k)
       PROVE  GraphKinds'
  <2>1. ops' \in 0..MaxOps /\ kpi' \in [KPIs -> {"live", "archived", "purged"}]
        /\ formula' \subseteq KPIs /\ deps' \subseteq Pairs
    BY <1>0, <1>11 DEF DetachFormula, Archive, Restore, ChangeStatus, GraphKinds
  <2>2. UNCHANGED <<edges, level, request, raced, disturbed>>
    BY <1>11 DEF DetachFormula, Archive, Restore
  <2> QED BY <2>1, <2>2 DEF GraphKinds
<1>12. ASSUME NEW k \in KPIs, Purge(k)
       PROVE  GraphKinds'
  <2> DEFINE gone == {e \in edges : k \in {e[1], e[2]}}
  <2>1. request' \in [Callers -> GraphRequests]
    BY <1>0, <1>12, DroppedStays DEF Purge
  <2>2. level' \in [Pairs -> 0..MaxLevel]
    <3>1. level' = [e \in Pairs |-> IF e \in gone THEN 0 ELSE level[e]]
      BY <1>12 DEF Purge
    <3> HIDE DEF gone
    <3> QED BY <1>0, <3>1 DEF GraphKinds
  <2>3. ops' \in 0..MaxOps /\ kpi' \in [KPIs -> {"live", "archived", "purged"}]
    BY <1>0, <1>12 DEF Purge, ChangeStatus, GraphKinds
  <2>4. edges' \subseteq Arcs /\ disturbed' \in BOOLEAN /\ UNCHANGED <<formula, deps, raced>>
    BY <1>12 DEF Purge, GraphKinds
  <2> QED BY <2>1, <2>2, <2>3, <2>4 DEF GraphKinds
<1>13. CASE UNCHANGED graphVars
  BY <1>13 DEF graphVars, GraphKinds
<1>14. ASSUME NEW c \in Callers, FailWrite(c) \/ GiveUp(c)
       PROVE  GraphKinds'
  <2>1. PICK r \in GraphRequests : Becomes(c, r)
    <3>1. CASE FailWrite(c)
      <4>1. PICK t \in request[c].todo : Becomes(c, [request[c] EXCEPT !.todo = @ \ {t}])
        BY <3>1 DEF FailWrite
      <4>2. PICK T \in SUBSET request[c].todo : T = request[c].todo \ {t}
        OBVIOUS
      <4>3. request[c] \in GraphRequests /\ request[c].op = "levels"
        BY <1>0, <3>1 DEF FailWrite, WritingLevels
      <4> QED BY <4>1, <4>2, <4>3, RequestStays
    <3>2. CASE GiveUp(c)
      BY <3>2, ReadNextTyped DEF GiveUp
    <3> QED BY <1>14, <3>1, <3>2
  <2>2. request' \in [Callers -> GraphRequests]
    BY <1>0, <2>1, RequestBecomes
  <2>3. disturbed' \in BOOLEAN /\ UNCHANGED <<kpi, formula, deps, edges, level, ops, raced>>
    BY <1>14 DEF FailWrite, GiveUp, rows
  <2> QED BY <2>2, <2>3 DEF GraphKinds
<1> QED
  BY <1>1, <1>2, <1>3, <1>5, <1>6, <1>7, <1>8, <1>9, <1>10, <1>11, <1>12, <1>13, <1>14 DEF GraphNext

==============================================================================
