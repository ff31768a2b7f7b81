----------------------------- MODULE HierarchyProofs -----------------------------
(***************************************************************************)
(* Theorems of OrgTree and Okrs, and of the three hierarchies beside each  *)
(* other, for any units, people, objectives, key results and requests: the *)
(* hierarchy of units stays a forest and reorganizing loses nobody; the    *)
(* progress of objectives settles and lies between 0 and 1.  The first     *)
(* rests on what a walk has established that no other write has overtaken: *)
(* the unit to be moved is not among the units it has seen, and these are  *)
(* closed under "parent" up to where the walk stands.  The last rest on    *)
(* what a roll-up has read: it is still so, or marked, and whoever changed *)
(* it rolls up after; and on a bound of a fold of fractions, whatever the  *)
(* order its terms are taken in.                                           *)
(***************************************************************************)
EXTENDS MCHierarchies, KpiGraphProofs

(* OrgTree *)

\* Where a walk still has to look.
Ahead(r) == IF r.stage = "walk" THEN {r.at} ELSE {}

\* What a walk has established so far, of the units and parents in the rows.
Climbed(r, units, up) ==
    /\ r.to \in Units /\ r.unit \notin r.seen
    /\ \A s \in r.seen : units[s] # "none"
    /\ \A s \in Ahead(r) : s = NoUnit \/ units[s] # "none"
    /\ r.to \in r.seen \cup Ahead(r)
    /\ \A s \in r.seen : up[s] \in r.seen \cup Ahead(r) \cup {NoUnit}

Admitted(r) == r # NoEdit /\ r.op \in {"move", "merge"} /\ ~r.overtaken

WalksHold == \A e \in Editors : Admitted(edit[e]) => Climbed(edit[e], unit, parent)

\* The inductive invariant.
OrgInv == OrgTypeOK /\ WalksHold /\ HierarchyIsForest

------------------------------------------------------------------------------
(* EditsKept *)

\* A request is either none or a record of its type, and never both.
LEMMA NoEditIsNone == NoEdit \notin Edits
<1>1. SUFFICES ASSUME NoEdit \in Edits PROVE FALSE
  OBVIOUS
<1>2. NoEdit.op \in {"move", "merge", "split", "remove"}
  BY <1>1 DEF Edits
<1>3. NoEdit.op = "none"
  BY DEF NoEdit
<1> QED BY <1>2, <1>3

\* A request that begins is of its type.
LEMMA BeginsTyped ==
    ASSUME NEW e, NEW op \in {"move", "merge", "split", "remove"},
           NEW stage \in {"walk", "members", "write"}, NEW u \in Units, NEW to \in Parents
    PROVE  [op |-> op, stage |-> stage, unit |-> u, to |-> to, at |-> to, seen |-> {},
            people |-> {}, overtaken |-> FALSE] \in Edits
BY DEF Edits

\* What the rows of units and parents look like.
Tree == /\ unit \in [Units -> {"none", "ACTIVE", "ARCHIVED", "gone"}]
        /\ parent \in [Units -> Parents]
        /\ \A u \in Units : /\ parent[u] \in Exist \cup {NoUnit}
                            /\ u \notin Exist => parent[u] = NoUnit
Rosters == /\ member \in [Units -> [People -> {"none", "in", "left"}]]
           /\ \A u \in Units : u \notin Exist => \A p \in People : member[u][p] = "none"
EditsKept == edit \in [Editors -> Edits \cup {NoEdit}]
Histories == /\ edits \in 0..MaxEdits /\ crossed \in BOOLEAN
             /\ belongs \subseteq People /\ caught \subseteq People

LEMMA TypeParts == OrgTypeOK <=> Tree /\ Rosters /\ EditsKept /\ Histories
BY DEF OrgTypeOK, Tree, Rosters, EditsKept, Histories

------------------------------------------------------------------------------
(* Type correctness *)

\* What an action leaves of the requests.
LEMMA BecomingTyped ==
    ASSUME EditsKept, NEW e \in Editors, NEW r \in Edits \cup {NoEdit}, Becoming(e, r)
    PROVE  EditsKept'
BY DEF EditsKept, Becoming

LEMMA BegunTyped ==
    ASSUME EditsKept, NEW e \in Editors, NEW op \in {"move", "merge", "split", "remove"},
           NEW stage \in {"walk", "members", "write"}, NEW u \in Units, NEW to \in Parents,
           Begins(e, op, stage, u, to)
    PROVE  EditsKept'
BY BeginsTyped, BecomingTyped DEF Begins

LEMMA WalkTyped ==
    ASSUME Tree, EditsKept, NEW e \in Editors, WalkUp(e)
    PROVE  EditsKept'
<1> DEFINE r == edit[e]
<1>1. r \in Edits
  BY DEF WalkUp, EditsKept
<1>2. r.at \in Units => ParentOf(r.at) \in Parents
  BY DEF ParentOf, Tree, Parents
<1>3. r.at = NoUnit \/ r.at \in Units
  BY <1>1 DEF Edits, Parents
<1>4. CASE r.at = r.unit
  BY <1>4, BecomingTyped DEF WalkUp
<1>5. CASE r.at # r.unit /\ (r.at = NoUnit \/ r.at \in r.seen)
  <2>1. [r EXCEPT !.stage = IF r.op = "merge" THEN "members" ELSE "write"] \in Edits
    BY <1>1 DEF Edits
  <2> QED BY <1>5, <2>1, BecomingTyped DEF WalkUp
<1>6. CASE r.at # r.unit /\ ~(r.at = NoUnit \/ r.at \in r.seen)
  <2>1. [r EXCEPT !.seen = @ \cup {r.at}, !.at = ParentOf(r.at)] \in Edits
    BY <1>1, <1>2, <1>3, <1>6 DEF Edits
  <2> QED BY <1>6, <2>1, BecomingTyped DEF WalkUp
<1> QED BY <1>4, <1>5, <1>6

LEMMA OvertakenTyped ==
    ASSUME EditsKept, NEW e \in Editors
    PROVE  WalksOvertaken(e) \in [Editors -> Edits \cup {NoEdit}]
<1>1. ASSUME NEW f \in Editors, edit[f] \in Edits
      PROVE  [edit[f] EXCEPT !.overtaken = TRUE] \in Edits
  BY <1>1 DEF Edits
<1> QED BY <1>1 DEF EditsKept, WalksOvertaken

\* Members who are transferred.
LEMMA TransferTyped ==
    ASSUME Rosters, NEW ps, NEW from, NEW to \in Parents,
           Exist \subseteq Exist', ps = {} \/ to \in Exist',
           member' = Transferred(member, ps, from, to)
    PROVE  Rosters'
BY DEF Rosters, Transferred, Joined

LEMMA TypeInit == OrgInit => OrgTypeOK
<1> SUFFICES ASSUME OrgInit PROVE OrgTypeOK
  OBVIOUS
<1>1. Tree
  BY DEF OrgInit, Tree, Exist
<1>2. Rosters
  BY DEF OrgInit, Rosters
<1>3. EditsKept
  BY DEF OrgInit, EditsKept
<1>4. edits \in 0..MaxEdits
  BY OrgTreeAssumption DEF OrgTreeAssumption, OrgInit
<1>5. crossed \in BOOLEAN /\ belongs \subseteq People /\ caught \subseteq People
  BY Zenon DEF OrgInit
<1> QED BY <1>1, <1>2, <1>3, <1>4, <1>5, TypeParts DEF Histories

LEMMA RequestsStep ==
    ASSUME OrgTypeOK, OrgNext
    PROVE  EditsKept'
<1> USE TypeParts
<1>1. ASSUME NEW e \in Editors, WalkUp(e) PROVE EditsKept'
  BY <1>1, WalkTyped
<1>2. ASSUME NEW e \in Editors, ReadMembers(e) PROVE EditsKept'
  <2> DEFINE people == {p \in People : member[edit[e].unit][p] = "in"}
  <2>1. edit[e] \in Edits
    BY <1>2 DEF ReadMembers, EditsKept
  <2>2. [edit[e] EXCEPT !.stage = "write", !.people = people] \in Edits
    BY <2>1 DEF Edits
  <2> QED BY <1>2, <2>2, BecomingTyped DEF ReadMembers
<1>3. ASSUME NEW e \in Editors,
             WriteMove(e) \/ WriteMerge(e) \/ WriteRemove(e)
             \/ \E u \in Units, ps \in SUBSET People : WriteSplit(e, u, ps)
      PROVE  EditsKept'
  <2>1. Becoming(e, NoEdit) \/ edit' = WalksOvertaken(e)
    BY <1>3 DEF WriteMove, WriteMerge, WriteRemove, WriteSplit
  <2>2. CASE Becoming(e, NoEdit)
    BY <2>2, BecomingTyped
  <2>3. CASE edit' = WalksOvertaken(e)
    BY <2>3, OvertakenTyped DEF EditsKept
  <2> QED BY <2>1, <2>2, <2>3
<1>4. ASSUME NEW e \in Editors, NEW u \in Units, NEW v \in Units,
             BeginMove(e, u, v) \/ BeginMerge(e, u, v)
      PROVE  EditsKept'
  BY <1>4, BegunTyped DEF BeginMove, BeginMerge, Parents
<1>5. ASSUME NEW e \in Editors, NEW u \in Units, BeginSplit(e, u) \/ BeginRemove(e, u)
      PROVE  EditsKept'
  <2>1. parent[u] \in Parents /\ NoUnit \in Parents
    BY DEF Tree, Parents
  <2> QED BY <1>5, <2>1, BegunTyped DEF BeginSplit, BeginRemove
<1>6. ASSUME UNCHANGED edit PROVE EditsKept'
  BY <1>6 DEF EditsKept
<1> QED
  BY <1>1, <1>2, <1>3, <1>4, <1>5, <1>6
     DEF OrgNext, CreateUnit, MovePerson, AddMember, RemoveMember, LeaveOrg

LEMMA HistoriesStep ==
    ASSUME OrgTypeOK, OrgNext
    PROVE  Histories'
<1> USE TypeParts
<1>1. edits' = edits \/ EditCounted
  BY DEF OrgNext, WalkUp, ReadMembers, WriteMove, WriteMerge, WriteRemove, WriteSplit,
         BeginMove, BeginMerge, BeginSplit, BeginRemove, Begins,
         CreateUnit, MovePerson, AddMember, RemoveMember, LeaveOrg
<1>2. edits' \in 0..MaxEdits
  BY <1>1, OrgTreeAssumption DEF OrgTreeAssumption, EditCounted, Histories
<1>3. crossed' \in BOOLEAN
  BY DEF Histories, OrgNext, WalkUp, ReadMembers, WriteMove, WriteMerge, WriteRemove, WriteSplit,
         BeginMove, BeginMerge, BeginSplit, BeginRemove,
         CreateUnit, MovePerson, AddMember, RemoveMember, LeaveOrg
<1>4. belongs' \subseteq People
  BY DEF Histories, OrgNext, WalkUp, ReadMembers, WriteMove, WriteMerge, WriteRemove, WriteSplit,
         BeginMove, BeginMerge, BeginSplit, BeginRemove,
         CreateUnit, MovePerson, AddMember, RemoveMember, LeaveOrg
<1>5. caught' \subseteq People
  <2>1. ASSUME NEW e \in Editors, WriteMerge(e) PROVE caught' \subseteq People
    <3>1. edit[e].people \subseteq People
      BY <2>1 DEF WriteMerge, EditsKept, Edits
    <3> QED BY <2>1, <3>1 DEF WriteMerge, Histories
  <2> QED
    BY <2>1 DEF Histories, OrgNext, WalkUp, ReadMembers, WriteMove, WriteRemove, WriteSplit,
           BeginMove, BeginMerge, BeginSplit, BeginRemove,
           CreateUnit, MovePerson, AddMember, RemoveMember, LeaveOrg
<1> QED BY <1>2, <1>3, <1>4, <1>5 DEF Histories

\* The rows: what every action but a walk or a request's beginning changes.
LEMMA RowsStep ==
    ASSUME OrgTypeOK, OrgNext
    PROVE  Tree' /\ Rosters'
<1> USE TypeParts
<1>1. ASSUME UNCHANGED <<unit, parent, member>> PROVE Tree' /\ Rosters'
  BY <1>1 DEF Tree, Rosters, Exist
<1>2. ASSUME NEW u \in Units, NEW to \in Parents, CreateUnit(u, to) PROVE Tree' /\ Rosters'
  <2>1. Exist' = Exist \cup {u}
    BY <1>2 DEF CreateUnit, Exist, Tree
  <2> QED BY <1>2, <2>1 DEF CreateUnit, Tree, Rosters
<1>3. ASSUME NEW e \in Editors, WriteMove(e) PROVE Tree' /\ Rosters'
  <2>1. Exist' = Exist /\ UNCHANGED <<unit, member>>
    BY <1>3 DEF WriteMove, Exist
  <2>2. Tree'
    BY <1>3, <2>1 DEF WriteMove, Tree, Parents, Exist
  <2> QED BY <2>1, <2>2 DEF Rosters
<1>4. ASSUME NEW e \in Editors, WriteMerge(e) PROVE Tree' /\ Rosters'
  <2> DEFINE r == edit[e]
  <2>1. CASE r.unit \in Exist
             /\ (r.to \in Exist \/ (r.people = {} /\ \A u \in Units : parent[u] # r.unit))
    <3>1. unit' = [unit EXCEPT ![r.unit] = "ARCHIVED"]
      BY <1>4, <2>1 DEF WriteMerge
    <3>2. Exist' = Exist
      BY <2>1, <3>1 DEF Exist, Tree
    <3>3. parent' = [u \in Units |-> IF parent[u] = r.unit THEN r.to ELSE parent[u]]
      BY <1>4, <2>1 DEF WriteMerge
    <3>4. Tree'
      <4>1. r.unit # NoUnit /\ \A u \in Units : parent[u] = r.unit => r.to \in Exist
        BY <2>1, OrgTreeAssumption DEF OrgTreeAssumption, Exist
      <4>2. unit' \in [Units -> {"none", "ACTIVE", "ARCHIVED", "gone"}]
        BY <3>1 DEF Tree
      <4>3. parent' \in [Units -> Parents]
        BY <3>3, <4>1 DEF Tree, Parents, Exist
      <4>4. ASSUME NEW u \in Units
            PROVE  parent'[u] \in Exist' \cup {NoUnit} /\ (u \notin Exist' => parent'[u] = NoUnit)
        BY <3>2, <3>3, <4>1 DEF Tree
      <4> QED BY <4>2, <4>3, <4>4 DEF Tree
    <3>5. member' = Transferred(member, r.people, r.unit, r.to)
      BY <1>4, <2>1 DEF WriteMerge
    <3>6. r.to \in Parents
      BY <1>4 DEF WriteMerge, EditsKept, Edits
    <3> QED BY <2>1, <3>2, <3>4, <3>5, <3>6, TransferTyped
  <2>2. CASE ~(r.unit \in Exist
               /\ (r.to \in Exist \/ (r.people = {} /\ \A u \in Units : parent[u] # r.unit)))
    BY <1>1, <1>4, <2>2 DEF WriteMerge
  <2> QED BY <2>1, <2>2
<1>5. ASSUME NEW e \in Editors, NEW u \in Units, NEW ps \in SUBSET People, WriteSplit(e, u, ps)
      PROVE  Tree' /\ Rosters'
  <2> DEFINE to == edit[e].to
  <2>1. CASE to \in Exist \cup {NoUnit}
    <3>1. /\ unit[u] = "none" /\ unit' = [unit EXCEPT ![u] = "ACTIVE"]
          /\ parent' = [parent EXCEPT ![u] = to]
          /\ member' = Transferred(member, ps, edit[e].unit, u)
      BY <1>5, <2>1 DEF WriteSplit
    <3>2. Exist' = Exist \cup {u}
      BY <3>1 DEF Exist, Tree
    <3>3. Tree'
      BY <2>1, <3>1, <3>2 DEF Tree, Parents, Exist
    <3> QED BY <3>1, <3>2, <3>3, TransferTyped DEF Parents
  <2>2. CASE to \notin Exist \cup {NoUnit}
    BY <1>1, <1>5, <2>2 DEF WriteSplit
  <2> QED BY <2>1, <2>2
<1>6. ASSUME NEW e \in Editors, WriteRemove(e) PROVE Tree' /\ Rosters'
  <2>1. edit[e].unit \in Units
    BY <1>6 DEF WriteRemove, EditsKept, Edits, NoEdit
  <2>2. Exist' = Exist \ {edit[e].unit}
    BY <1>6, <2>1 DEF WriteRemove, Exist, Tree
  <2>3. Tree'
    BY <1>6, <2>1, <2>2 DEF WriteRemove, Tree, Parents
  <2> QED BY <1>6, <2>1, <2>2, <2>3 DEF WriteRemove, Rosters
<1>7. ASSUME NEW p \in People, NEW u \in Units, NEW v \in Parents, MovePerson(p, v, u)
      PROVE  Tree' /\ Rosters'
  <2>1. UNCHANGED <<unit, parent>> /\ Exist' = Exist /\ u \in Exist
    BY <1>7 DEF MovePerson, Exist
  <2> QED BY <1>7, <2>1, TransferTyped DEF MovePerson, Tree, Parents
<1>8. ASSUME NEW u \in Units, NEW p \in People, AddMember(u, p) \/ RemoveMember(u, p)
      PROVE  Tree' /\ Rosters'
  <2>1. UNCHANGED <<unit, parent>> /\ Exist' = Exist
    BY <1>8 DEF AddMember, RemoveMember, Exist
  <2>2. Tree'
    BY <2>1 DEF Tree
  <2> QED BY <1>8, <2>1, <2>2 DEF AddMember, RemoveMember, Rosters
<1>9. ASSUME NEW p \in People, LeaveOrg(p) PROVE Tree' /\ Rosters'
  <2>1. UNCHANGED <<unit, parent>> /\ Exist' = Exist
    BY <1>9 DEF LeaveOrg, Exist
  <2>2. Tree'
    BY <2>1 DEF Tree
  <2> QED BY <1>9, <2>1, <2>2 DEF LeaveOrg, Rosters
<1> QED
  BY <1>1, <1>2, <1>3, <1>4, <1>5, <1>6, <1>7, <1>8, <1>9
     DEF OrgNext, WalkUp, ReadMembers, BeginMove, BeginMerge, BeginSplit, BeginRemove

LEMMA TypeStep == OrgTypeOK /\ [OrgNext]_orgVars => OrgTypeOK'
<1>1. ASSUME OrgTypeOK, OrgNext PROVE OrgTypeOK'
  <2>1. Tree' /\ Rosters' /\ EditsKept' /\ Histories'
    BY <1>1, RequestsStep, HistoriesStep, RowsStep
  <2> QED BY <2>1 DEF OrgTypeOK, Tree, Rosters, EditsKept, Histories
<1>2. ASSUME OrgTypeOK, UNCHANGED orgVars PROVE OrgTypeOK'
  BY <1>2 DEF OrgTypeOK, orgVars, Exist
<1> QED BY <1>1, <1>2

------------------------------------------------------------------------------
(* Walks *)

\* Parents are only given to new units, or taken away: what the walks in progress
\* have established still holds.
Undisturbed ==
    /\ \A u \in Units : unit[u] # "none" =>
           unit'[u] # "none" /\ (parent'[u] = parent[u] \/ parent'[u] = NoUnit)

LEMMA StaysClimbed ==
    ASSUME Undisturbed, NEW r \in Edits, Climbed(r, unit, parent)
    PROVE  Climbed(r, unit', parent')
<1>1. r.seen \subseteq Units /\ r.at \in Parents
  BY DEF Edits
<1> QED BY <1>1 DEF Undisturbed, Climbed, Ahead, Parents

\* A request that becomes q keeps what was established.
LEMMA WalksKept ==
    ASSUME OrgTypeOK, WalksHold, Undisturbed, NEW e \in Editors, NEW q,
           Becoming(e, q), Admitted(q) => Climbed(q, unit', parent')
    PROVE  WalksHold'
<1>1. edit \in [Editors -> Edits \cup {NoEdit}]
  BY DEF OrgTypeOK
<1>2. ASSUME NEW f \in Editors, Admitted(edit'[f]) PROVE Climbed(edit'[f], unit', parent')
  <2>1. CASE f = e
    BY <1>1, <1>2, <2>1 DEF Becoming
  <2>2. CASE f # e
    <3>1. edit'[f] = edit[f]
      BY <1>1, <2>2 DEF Becoming
    <3>2. edit[f] \in Edits
      BY <1>1, <1>2, <3>1 DEF Admitted
    <3>3. Climbed(edit[f], unit, parent)
      BY <1>2, <3>1 DEF WalksHold
    <3> QED BY <3>1, <3>2, <3>3, StaysClimbed
  <2> QED BY <2>1, <2>2
<1> QED BY <1>2 DEF WalksHold

LEMMA WalksUntouched ==
    ASSUME OrgTypeOK, WalksHold, Undisturbed, UNCHANGED edit
    PROVE  WalksHold'
<1>1. ASSUME NEW f \in Editors, Admitted(edit[f]) PROVE Climbed(edit[f], unit', parent')
  <2>1. edit[f] \in Edits
    BY <1>1 DEF OrgTypeOK, Admitted
  <2> QED BY <1>1, <2>1, StaysClimbed DEF WalksHold
<1> QED BY <1>1 DEF WalksHold

\* Behind a write of parents no walk is admitted any more.
LEMMA NoneAdmitted ==
    ASSUME OrgTypeOK, NEW e \in Editors, edit' = WalksOvertaken(e)
    PROVE  WalksHold'
<1>1. ASSUME NEW f \in Editors PROVE ~Admitted(edit'[f])
  <2>1. CASE f = e \/ edit[f] = NoEdit
    BY <2>1 DEF WalksOvertaken, Admitted
  <2>2. CASE f # e /\ edit[f] # NoEdit
    <3>1. edit[f] \in Edits
      BY <2>2 DEF OrgTypeOK
    <3>2. edit'[f] = [edit[f] EXCEPT !.overtaken = TRUE]
      BY <2>2 DEF WalksOvertaken
    <3>3. edit'[f].overtaken = TRUE
      BY <3>1, <3>2 DEF Edits
    <3> QED BY <3>3 DEF Admitted
  <2> QED BY <2>1, <2>2
<1> QED BY <1>1 DEF WalksHold

LEMMA WalkHolds ==
    ASSUME OrgTypeOK, WalksHold, NEW e \in Editors, WalkUp(e)
    PROVE  WalksHold'
<1> DEFINE r == edit[e]
<1>1. r \in Edits /\ r.stage = "walk" /\ UNCHANGED <<unit, parent>>
  BY DEF WalkUp, OrgTypeOK
<1>2. Undisturbed
  BY <1>1 DEF Undisturbed
<1>3. r.at \in Units \cup {NoUnit} /\ r.seen \subseteq Units /\ r.op \in {"move", "merge", "split", "remove"}
  BY <1>1 DEF Edits, Parents
<1>4. CASE r.at = r.unit
  BY <1>2, <1>4, WalksKept DEF WalkUp, Admitted
<1>5. CASE r.at # r.unit /\ (r.at = NoUnit \/ r.at \in r.seen)
  <2> DEFINE q == [r EXCEPT !.stage = IF r.op = "merge" THEN "members" ELSE "write"]
  <2>1. /\ q.unit = r.unit /\ q.to = r.to /\ q.seen = r.seen
        /\ q.op = r.op /\ q.overtaken = r.overtaken /\ q.stage # "walk"
    BY <1>1 DEF Edits
  <2>2. ASSUME Admitted(q) PROVE Climbed(q, unit', parent')
    <3>1. Climbed(r, unit, parent)
      BY <2>1, <2>2, <1>1 DEF Admitted, WalksHold, WalkUp
    <3> QED BY <1>1, <1>5, <2>1, <3>1, OrgTreeAssumption DEF OrgTreeAssumption, Climbed, Ahead
  <2>3. Becoming(e, q)
    BY <1>5 DEF WalkUp
  <2> QED BY ONLY OrgTypeOK, WalksHold, e \in Editors, <1>2, <2>2, <2>3, WalksKept
<1>6. CASE r.at # r.unit /\ ~(r.at = NoUnit \/ r.at \in r.seen)
  <2> DEFINE q == [r EXCEPT !.seen = @ \cup {r.at}, !.at = ParentOf(r.at)]
  <2>1. /\ q.unit = r.unit /\ q.to = r.to /\ q.seen = r.seen \cup {r.at} /\ q.at = ParentOf(r.at)
        /\ q.op = r.op /\ q.overtaken = r.overtaken /\ q.stage = "walk"
    BY <1>1 DEF Edits
  <2>2. ParentOf(r.at) = parent[r.at] /\ (ParentOf(r.at) = NoUnit \/ unit[ParentOf(r.at)] # "none")
    BY <1>3, <1>6 DEF ParentOf, OrgTypeOK, Exist
  <2>3. ASSUME Admitted(q) PROVE Climbed(q, unit', parent')
    <3>1. Climbed(r, unit, parent)
      BY <2>1, <2>3, <1>1 DEF Admitted, WalksHold, WalkUp
    <3> QED BY <1>1, <1>6, <2>1, <2>2, <3>1 DEF Climbed, Ahead
  <2>4. Becoming(e, q)
    BY <1>6 DEF WalkUp
  <2> QED BY ONLY OrgTypeOK, WalksHold, e \in Editors, <1>2, <2>3, <2>4, WalksKept
<1> QED BY <1>4, <1>5, <1>6

LEMMA MembersHold ==
    ASSUME OrgTypeOK, WalksHold, NEW e \in Editors, ReadMembers(e)
    PROVE  WalksHold'
<1> DEFINE r == edit[e]
           q == [r EXCEPT !.stage = "write", !.people = {p \in People : member[r.unit][p] = "in"}]
<1>1. r \in Edits /\ r.stage = "members" /\ UNCHANGED <<unit, parent>>
  BY DEF ReadMembers, OrgTypeOK
<1>2. Undisturbed
  BY <1>1 DEF Undisturbed
<1>3. /\ q.unit = r.unit /\ q.to = r.to /\ q.seen = r.seen
      /\ q.op = r.op /\ q.overtaken = r.overtaken /\ q.stage = "write"
  BY <1>1 DEF Edits
<1>4. ASSUME Admitted(q) PROVE Climbed(q, unit', parent')
  <2>1. Climbed(r, unit, parent)
    BY <1>1, <1>3, <1>4 DEF Admitted, WalksHold, ReadMembers
  <2> QED BY <1>1, <1>3, <2>1 DEF Climbed, Ahead
<1>5. Becoming(e, q)
  BY DEF ReadMembers
<1> QED BY ONLY OrgTypeOK, WalksHold, e \in Editors, <1>2, <1>4, <1>5, WalksKept

\* The walk starts at the new parent, which exists.
LEMMA BegunHolds ==
    ASSUME OrgTypeOK, WalksHold, NEW e \in Editors, NEW op, NEW stage, NEW u \in Units, NEW to,
           Begins(e, op, stage, u, to), UNCHANGED <<unit, parent>>,
           op \in {"move", "merge"} => to \in Exist /\ stage = "walk"
    PROVE  WalksHold'
<1> DEFINE q == [op |-> op, stage |-> stage, unit |-> u, to |-> to, at |-> to, seen |-> {},
                 people |-> {}, overtaken |-> FALSE]
<1>1. Undisturbed
  BY DEF Undisturbed
<1>2. Admitted(q) => Climbed(q, unit', parent')
  BY DEF Admitted, Climbed, Ahead, Exist
<1>3. Becoming(e, q)
  BY DEF Begins
<1> QED BY ONLY OrgTypeOK, WalksHold, e \in Editors, <1>1, <1>2, <1>3, WalksKept

LEMMA WalksStep ==
    ASSUME OrgTypeOK, WalksHold, OrgNext
    PROVE  WalksHold'
<1>1. ASSUME NEW e \in Editors, WalkUp(e) \/ ReadMembers(e) PROVE WalksHold'
  BY <1>1, WalkHolds, MembersHold
<1>2. ASSUME NEW e \in Editors, WriteMove(e) \/ WriteMerge(e) PROVE WalksHold'
  <2>1. CASE edit' = WalksOvertaken(e)
    BY <2>1, NoneAdmitted
  <2>2. CASE edit' # WalksOvertaken(e)
    <3>1. Becoming(e, NoEdit) /\ UNCHANGED <<unit, parent>>
      BY <1>2, <2>2 DEF WriteMove, WriteMerge
    <3>2. Undisturbed
      BY <3>1 DEF Undisturbed
    <3> QED BY <3>1, <3>2, WalksKept DEF Admitted
  <2> QED BY <2>1, <2>2
<1>3. ASSUME NEW e \in Editors, WriteRemove(e) PROVE WalksHold'
  <2>1. Undisturbed
    BY <1>3 DEF WriteRemove, Undisturbed, OrgTypeOK
  <2> QED BY <1>3, <2>1, WalksKept DEF WriteRemove, Admitted
<1>4. ASSUME NEW e \in Editors, NEW u \in Units, NEW ps \in SUBSET People, WriteSplit(e, u, ps)
      PROVE  WalksHold'
  <2>1. Undisturbed
    BY <1>4 DEF WriteSplit, Undisturbed, OrgTypeOK
  <2> QED BY <1>4, <2>1, WalksKept DEF WriteSplit, Admitted
<1>5. ASSUME NEW e \in Editors, NEW u \in Units, NEW v \in Units, BeginMove(e, u, v) \/ BeginMerge(e, u, v)
      PROVE  WalksHold'
  BY <1>5, BegunHolds DEF BeginMove, BeginMerge
<1>6. ASSUME NEW e \in Editors, NEW u \in Units, BeginSplit(e, u) \/ BeginRemove(e, u)
      PROVE  WalksHold'
  BY <1>6, BegunHolds DEF BeginSplit, BeginRemove
<1>7. ASSUME NEW u \in Units, NEW v \in Parents, CreateUnit(u, v) PROVE WalksHold'
  <2>1. Undisturbed
    BY <1>7 DEF CreateUnit, Undisturbed, OrgTypeOK
  <2> QED BY <1>7, <2>1, WalksUntouched DEF CreateUnit
<1>8. ASSUME UNCHANGED <<unit, parent, edit>> PROVE WalksHold'
  <2>1. Undisturbed
    BY <1>8 DEF Undisturbed
  <2> QED BY <1>8, <2>1, WalksUntouched
<1> QED
  BY <1>1, <1>2, <1>3, <1>4, <1>5, <1>6, <1>7, <1>8
     DEF OrgNext, MovePerson, AddMember, RemoveMember, LeaveOrg

------------------------------------------------------------------------------
(* The forest *)

\* A set of units each of which has its parent in the set: a cycle, and what
\* hangs below it.
Loop(S, up) == S # {} /\ \A u \in S : up[u] \in S

LEMMA NoLoop ==
    ASSUME HierarchyIsForest, ~crossed, NEW S \in SUBSET Exist
    PROVE  ~Loop(S, parent)
BY DEF HierarchyIsForest, Loop

\* What an admitted request may write has nothing to do with the units it saw:
\* were there a loop, the part of it that was seen would have been one before.
LEMMA AdmittedBreaksNothing ==
    ASSUME OrgTypeOK, WalksHold, HierarchyIsForest, ~crossed, NEW e \in Editors,
           Admitted(edit[e]), edit[e].stage = "write", edit[e].unit \in Exist,
           NEW up, NEW S \in SUBSET Exist, Loop(S, up),
           \A u \in S : \/ up[u] = parent[u]
                        \/ up[u] = edit[e].to /\ (u = edit[e].unit \/ parent[u] = edit[e].unit)
    PROVE  FALSE
<1> DEFINE r == edit[e]
           T == S \cap r.seen
<1>1. /\ r.to \in r.seen /\ r.unit \notin r.seen
      /\ \A s \in r.seen : parent[s] \in r.seen \cup {NoUnit}
  BY DEF WalksHold, Climbed, Ahead
<1>2. NoUnit \notin Exist
  BY OrgTreeAssumption DEF OrgTreeAssumption, Exist
<1>3. CASE \A u \in S : up[u] = parent[u]
  BY <1>3, NoLoop DEF Loop
<1>4. CASE \E u \in S : up[u] # parent[u]
  <2>1. r.to \in T
    BY <1>1, <1>4 DEF Loop
  <2>2. ASSUME NEW u \in T PROVE parent[u] \in T
    <3>1. parent[u] # r.unit /\ u # r.unit
      BY <1>1, <1>2
    <3>2. parent[u] \in S
      BY <3>1 DEF Loop
    <3> QED BY <1>1, <1>2, <3>2
  <2>3. T \in SUBSET Exist /\ Loop(T, parent)
    BY <2>1, <2>2 DEF Loop
  <2> QED BY <2>3, NoLoop
<1> QED BY <1>3, <1>4

\* A new unit is nobody's parent yet.
LEMMA NewLeaf ==
    ASSUME OrgTypeOK, HierarchyIsForest, NEW u \in Units, unit[u] = "none",
           NEW to \in Exist \cup {NoUnit},
           unit' = [unit EXCEPT ![u] = "ACTIVE"], parent' = [parent EXCEPT ![u] = to],
           UNCHANGED crossed
    PROVE  HierarchyIsForest'
<1> SUFFICES ASSUME ~crossed, NEW S \in SUBSET Exist', Loop(S, parent') PROVE FALSE
  BY DEF HierarchyIsForest, Loop
<1>1. NoUnit \notin Units
  BY OrgTreeAssumption DEF OrgTreeAssumption
<1>2. u \notin Exist /\ Exist' = Exist \cup {u}
  BY DEF Exist, OrgTypeOK
<1>3. \A v \in S : parent'[v] \in Exist
  BY <1>1, <1>2 DEF Loop, OrgTypeOK, Exist
<1>4. S \ {u} \in SUBSET Exist
  BY <1>2
<1>5. Loop(S \ {u}, parent)
  BY <1>2, <1>3, <1>4 DEF Loop, OrgTypeOK, Exist
<1> QED BY <1>4, <1>5, NoLoop

LEMMA ForestStep ==
    ASSUME OrgInv, OrgNext
    PROVE  HierarchyIsForest'
<1> USE DEF OrgInv
<1>1. ASSUME UNCHANGED <<unit, parent, crossed>> PROVE HierarchyIsForest'
  BY <1>1 DEF HierarchyIsForest, Exist
<1>2. ASSUME NEW u \in Units, NEW v \in Parents, CreateUnit(u, v) PROVE HierarchyIsForest'
  BY <1>2, NewLeaf DEF CreateUnit
<1>3. ASSUME NEW e \in Editors, NEW u \in Units, NEW ps \in SUBSET People, WriteSplit(e, u, ps)
      PROVE  HierarchyIsForest'
  BY <1>1, <1>3, NewLeaf DEF WriteSplit
<1>4. ASSUME NEW e \in Editors, WriteMove(e) PROVE HierarchyIsForest'
  <2> DEFINE r == edit[e]
  <2>1. CASE {r.unit, r.to} \subseteq Exist
    <3> SUFFICES ASSUME ~crossed', NEW S \in SUBSET Exist', Loop(S, parent') PROVE FALSE
      BY DEF HierarchyIsForest, Loop
    <3>1. ~crossed /\ Admitted(r) /\ r.stage = "write"
      BY <1>4, <2>1 DEF WriteMove, Admitted
    <3>2. S \in SUBSET Exist
      BY <1>4 DEF WriteMove, Exist
    <3>3. parent' = [parent EXCEPT ![r.unit] = r.to]
      BY <1>4, <2>1 DEF WriteMove
    <3>4. \A u \in S : parent'[u] = parent[u] \/ (parent'[u] = r.to /\ u = r.unit)
      BY <3>2, <3>3 DEF OrgTypeOK, Exist
    <3> QED BY <2>1, <3>1, <3>2, <3>4, AdmittedBreaksNothing
  <2>2. CASE ~({r.unit, r.to} \subseteq Exist)
    BY <1>1, <1>4, <2>2 DEF WriteMove
  <2> QED BY <2>1, <2>2
<1>5. ASSUME NEW e \in Editors, WriteMerge(e) PROVE HierarchyIsForest'
  <2> DEFINE r == edit[e]
  <2>1. CASE edit' = WalksOvertaken(e) /\ r.unit \in Exist
             /\ parent' = [u \in Units |-> IF parent[u] = r.unit THEN r.to ELSE parent[u]]
             /\ unit' = [unit EXCEPT ![r.unit] = "ARCHIVED"]
             /\ crossed' = (crossed \/ r.overtaken)
    <3> SUFFICES ASSUME ~crossed', NEW S \in SUBSET Exist', Loop(S, parent') PROVE FALSE
      BY DEF HierarchyIsForest, Loop
    <3>1. ~crossed /\ Admitted(r) /\ r.stage = "write"
      BY <1>5, <2>1 DEF WriteMerge, Admitted
    <3>2. S \in SUBSET Exist
      BY <2>1 DEF Exist, OrgTypeOK
    <3>3. \A u \in S : parent'[u] = parent[u] \/ (parent'[u] = r.to /\ parent[u] = r.unit)
      BY <2>1, <3>2 DEF Exist
    <3> QED BY <2>1, <3>1, <3>2, <3>3, AdmittedBreaksNothing
  <2> QED BY <1>1, <1>5, <2>1 DEF WriteMerge
<1>6. ASSUME NEW e \in Editors, WriteRemove(e) PROVE HierarchyIsForest'
  <2> SUFFICES ASSUME ~crossed', NEW S \in SUBSET Exist', Loop(S, parent') PROVE FALSE
    BY DEF HierarchyIsForest, Loop
  <2>1. NoUnit \notin Exist' /\ Exist' \subseteq Exist /\ ~crossed
    BY <1>6, OrgTreeAssumption DEF OrgTreeAssumption, WriteRemove, Exist, OrgTypeOK
  <2>2. \A u \in S : parent'[u] = parent[u] \/ parent'[u] = NoUnit
    BY <1>6 DEF WriteRemove, Exist
  <2>3. S \in SUBSET Exist /\ Loop(S, parent)
    BY <2>1, <2>2 DEF Loop
  <2> QED BY <2>1, <2>3, NoLoop
<1> QED
  BY <1>1, <1>2, <1>3, <1>4, <1>5, <1>6
     DEF OrgNext, WalkUp, ReadMembers, BeginMove, BeginMerge, BeginSplit, BeginRemove,
         MovePerson, AddMember, RemoveMember, LeaveOrg

LEMMA OrgInvInit == OrgInit => OrgInv
<1> SUFFICES ASSUME OrgInit PROVE OrgInv
  OBVIOUS
<1>1. WalksHold
  BY DEF OrgInit, WalksHold, Admitted
<1>2. HierarchyIsForest
  BY DEF OrgInit, HierarchyIsForest
<1> QED BY <1>1, <1>2, TypeInit DEF OrgInv

LEMMA OrgInvStep == OrgInv /\ [OrgNext]_orgVars => OrgInv'
<1>1. ASSUME OrgInv, OrgNext PROVE OrgInv'
  BY <1>1, TypeStep, WalksStep, ForestStep DEF OrgInv
<1>2. ASSUME OrgInv, UNCHANGED orgVars PROVE OrgInv'
  <2>1. OrgTypeOK'
    BY <1>2, TypeStep DEF OrgInv
  <2>2. WalksHold' /\ HierarchyIsForest'
    BY <1>2 DEF OrgInv, orgVars, WalksHold, Climbed, HierarchyIsForest, Exist
  <2> QED BY <2>1, <2>2 DEF OrgInv
<1> QED BY <1>1, <1>2

\* Every reachable state is of its type, whatever requests overlap.
THEOREM OrgTypeCorrect == OrgSpec => []OrgTypeOK
<1>1. OrgInit => OrgTypeOK
  BY TypeInit
<1>2. OrgTypeOK /\ [OrgNext]_orgVars => OrgTypeOK'
  BY TypeStep
<1> QED BY <1>1, <1>2, PTL DEF OrgSpec

\* assertNotDescendant is enough: however many moves, merges, splits and
\* deletions overlap, a unit becomes its own ancestor only if a parent was written
\* behind a walk that another move or merge had overtaken.
THEOREM StaysForest == OrgSpec => []HierarchyIsForest
<1>1. OrgInit => OrgInv
  BY OrgInvInit
<1>2. OrgInv /\ [OrgNext]_orgVars => OrgInv'
  BY OrgInvStep
<1>3. OrgInv => HierarchyIsForest
  BY DEF OrgInv
<1> QED BY <1>1, <1>2, <1>3, PTL DEF OrgSpec


------------------------------------------------------------------------------
(* The members *)

\* Whoever is transferred is in a unit then, and the others are where they were.
LEMMA TransferKeeps ==
    ASSUME NEW ps, NEW from, NEW to, member' = Transferred(member, ps, from, to),
           ps = {} \/ to \in Units, NEW p \in People
    PROVE  IF p \in ps THEN In(p)' # {} ELSE In(p)' = In(p)
<1>1. CASE p \in ps
  <2>1. to \in Units /\ member'[to][p] = "in"
    BY <1>1 DEF Transferred, Joined
  <2> QED BY <1>1, <2>1 DEF In
<1>2. CASE p \notin ps
  BY <1>2 DEF Transferred, In
<1> QED BY <1>1, <1>2

LEMMA MembersStep ==
    ASSUME OrgTypeOK, EveryoneKeepsAUnit, OrgNext
    PROVE  EveryoneKeepsAUnit'
<1> SUFFICES ASSUME NEW p \in People, p \notin caught' PROVE (p \in belongs') <=> In(p)' # {}
  BY DEF EveryoneKeepsAUnit
<1>1. p \notin caught => (p \in belongs <=> In(p) # {})
  BY DEF EveryoneKeepsAUnit
<1>2. ASSUME UNCHANGED <<member, belongs, caught>> PROVE (p \in belongs') <=> In(p)' # {}
  BY <1>1, <1>2 DEF In
<1>3. ASSUME NEW e \in Editors, WriteMerge(e) PROVE (p \in belongs') <=> In(p)' # {}
  <2> DEFINE r == edit[e]
  <2>1. CASE /\ member' = Transferred(member, r.people, r.unit, r.to)
             /\ caught' = caught \cup (r.people \ belongs)
             /\ r.people = {} \/ r.to \in Units
    BY <1>1, <1>3, <2>1, TransferKeeps DEF WriteMerge
  <2> QED BY <1>2, <1>3, <2>1 DEF WriteMerge, Exist
<1>4. ASSUME NEW e \in Editors, NEW u \in Units, NEW ps \in SUBSET People, WriteSplit(e, u, ps)
      PROVE  (p \in belongs') <=> In(p)' # {}
  <2>1. CASE /\ member' = Transferred(member, ps, edit[e].unit, u)
             /\ belongs' = belongs \cup ps
    BY <1>1, <1>4, <2>1, TransferKeeps DEF WriteSplit
  <2> QED BY <1>2, <1>4, <2>1 DEF WriteSplit
<1>5. ASSUME NEW e \in Editors, WriteRemove(e) PROVE (p \in belongs') <=> In(p)' # {}
  <2> DEFINE u == edit[e].unit
  <2>1. /\ member' = [member EXCEPT ![u] = [q \in People |-> "none"]]
        /\ belongs' = belongs /\ p \notin caught
        /\ member[u][p] # "in"
    BY <1>5 DEF WriteRemove
  <2>2. In(p)' = In(p)
    BY <2>1 DEF In, OrgTypeOK
  <2> QED BY <1>1, <2>1, <2>2
<1>6. ASSUME NEW u \in Units, NEW v \in Parents, NEW q \in People, MovePerson(q, v, u)
      PROVE  (p \in belongs') <=> In(p)' # {}
  <2>1. member' = Transferred(member, {q}, v, u) /\ belongs' = belongs \cup {q} /\ p \notin caught
    BY <1>6 DEF MovePerson
  <2> QED BY <1>1, <2>1, TransferKeeps
<1>7. ASSUME NEW u \in Units, NEW q \in People, AddMember(u, q)
      PROVE  (p \in belongs') <=> In(p)' # {}
  <2>1. /\ member' = [member EXCEPT ![u][q] = "in"]
        /\ belongs' = belongs \cup {q} /\ p \notin caught
    BY <1>7 DEF AddMember
  <2>2. IF p = q THEN member'[u][p] = "in" ELSE In(p)' = In(p)
    BY <2>1 DEF In, OrgTypeOK
  <2>3. p = q => u \in In(p)'
    BY <2>2 DEF In
  <2> QED BY <1>1, <2>1, <2>2, <2>3
<1>8. ASSUME NEW u \in Units, NEW q \in People, RemoveMember(u, q)
      PROVE  (p \in belongs') <=> In(p)' # {}
  <2>1. /\ member' = [member EXCEPT ![u][q] = "left"] /\ u \in In(q)
        /\ belongs' = (IF Without(q, u) THEN belongs \ {q} ELSE belongs) /\ p \notin caught
    BY <1>8 DEF RemoveMember, In
  <2>2. In(p)' = IF p = q THEN In(p) \ {u} ELSE In(p)
    BY <2>1 DEF In, OrgTypeOK
  <2>3. Without(q, u) <=> In(q) \ {u} = {}
    BY DEF Without
  <2> QED BY <1>1, <2>1, <2>2, <2>3
<1>9. ASSUME NEW q \in People, LeaveOrg(q) PROVE (p \in belongs') <=> In(p)' # {}
  <2>1. /\ member' = [u \in Units |-> [member[u] EXCEPT ![q] = IF @ = "in" THEN "left" ELSE @]]
        /\ belongs' = belongs \ {q} /\ p \notin caught
    BY <1>9 DEF LeaveOrg
  <2>2. In(p)' = IF p = q THEN {} ELSE In(p)
    BY <2>1 DEF In, OrgTypeOK
  <2> QED BY <1>1, <2>1, <2>2
<1> QED
  BY <1>2, <1>3, <1>4, <1>5, <1>6, <1>7, <1>8, <1>9
     DEF OrgNext, WalkUp, ReadMembers, WriteMove, BeginMove, BeginMerge, BeginSplit, BeginRemove,
         CreateUnit

LEMMA MembersInit == OrgInit => EveryoneKeepsAUnit
<1> SUFFICES ASSUME OrgInit, NEW p \in People PROVE p \in belongs /\ In(p) # {}
  BY DEF EveryoneKeepsAUnit
<1>1. PICK at \in [People -> Exist] :
        member = [u \in Units |-> [q \in People |-> IF at[q] = u THEN "in" ELSE "none"]]
  BY DEF OrgInit
<1>2. at[p] \in In(p)
  BY <1>1 DEF In, Exist
<1> QED BY <1>2 DEF OrgInit

\* Reorganizing loses nobody: whatever moves, merges, splits, deletions and changes
\* of members overlap, a person has an active membership exactly when they were
\* last given one, but for those who joined or left behind the reads of a request.
THEOREM NobodyIsLost == OrgSpec => []EveryoneKeepsAUnit
<1>1. OrgInit => OrgTypeOK /\ EveryoneKeepsAUnit
  BY TypeInit, MembersInit
<1>2. OrgTypeOK /\ EveryoneKeepsAUnit /\ [OrgNext]_orgVars => (OrgTypeOK /\ EveryoneKeepsAUnit)'
  <2>1. ASSUME EveryoneKeepsAUnit, UNCHANGED orgVars PROVE EveryoneKeepsAUnit'
    BY <2>1 DEF EveryoneKeepsAUnit, In, orgVars
  <2> QED BY <2>1, TypeStep, MembersStep
<1> QED BY <1>1, <1>2, PTL DEF OrgSpec

------------------------------------------------------------------------------
(* Okrs *)

Rolls == {"sync", "load", "drift", "write"}
\* A request that rolls up holds what it read, whatever that is.
RollsUp(r) == r \in [stage : Rolls, at : Objectives, up : Objectives \cup {None}, krs : {r.krs},
                     todo : SUBSET KeyResults, result : {r.result}, visited : {r.visited}, outdated : BOOLEAN]
RollupShape(r) ==
    \/ r = NoRollup
    \/ r \in [stage : {"climb", "align"}, at : Objectives, up : Objectives \cup {None},
             cursor : {r.cursor}, visited : {r.visited}]
    \/ r \in [stage : {"update"}, at : Objectives, key : KeyResults, dto : {r.dto}, progress : {r.progress}]
    \/ RollsUp(r)
Requested ==
    /\ rollup = [p \in Planners |-> rollup[p]]
    /\ \A p \in Planners : RollupShape(rollup[p])
ObjectiveRows ==
    /\ objective = [o \in Objectives |-> [row |-> objective[o].row, parent |-> objective[o].parent,
                                          progress |-> objective[o].progress]]
    /\ \A o \in Objectives : /\ objective[o].row \in {"none", "there", "gone"}
                             /\ objective[o].parent \in Objectives \cup {None}
ResultRows ==
    /\ keyResult = [k \in KeyResults |-> [row |-> keyResult[k].row, objective |-> keyResult[k].objective,
                                          values |-> keyResult[k].values, progress |-> keyResult[k].progress]]
    /\ \A k \in KeyResults : keyResult[k].row \in {"none", "there", "gone"}

\* Rows and requests refer to objectives that were created.
Created(o) == o \in Objectives /\ objective[o].row # "none"
ResultsRefer == \A k \in KeyResults : keyResult[k].row # "none" => Created(keyResult[k].objective)
ObjectivesRefer == \A o \in Objectives : Exists(o) => objective[o].parent = None \/ Created(objective[o].parent)
Aligns == {"climb", "align"}
AlignsRefer == \A p \in Planners : rollup[p].stage \in Aligns => rollup[p].up = None \/ Created(rollup[p].up)

\* What a request has read is still so, unless it is marked outdated.
SoundRead(r) ==
    /\ r.stage = "update" => keyResult[r.key].row # "none" /\ keyResult[r.key].objective = r.at
    /\ r.stage \in {"sync", "load"} => ~r.outdated
    /\ r.stage = "sync" => r.visited = {}
    /\ r.stage \in {"sync", "drift"} =>
           \A k \in r.todo : keyResult[k].row # "none" /\ keyResult[k].objective = r.at
    /\ r.stage \in {"drift", "write"} /\ ~r.outdated => r.krs = ResultsProgress(r.at)
    /\ r.stage = "write" /\ ~r.outdated => r.result = ProgressOf(r.at)
ReadsSound == \A p \in Planners : SoundRead(rollup[p])

\* A request will put the key results of o, one of them, the objective right.
Restarts(r, o) == (r.stage = "sync" \/ (r.stage = "load" /\ r.visited = {})) /\ r.at = o /\ ~r.outdated
WritesResult(r, k, o) ==
    \/ Restarts(r, o)
    \/ r.stage = "drift" /\ r.at = o /\ ~r.outdated /\ k \in r.todo
WritesObjective(r, o) == r.stage \in Rolls /\ r.at = o /\ ~r.outdated
ResultsFollow ==
    \A k \in KeyResults \ stale : keyResult[k].row = "there" /\ Exists(keyResult[k].objective) =>
        \/ keyResult[k].progress = KeyResultProgress(keyResult[k].values)
        \/ \E p \in Planners : WritesResult(rollup[p], k, keyResult[k].objective)
ObjectivesFollow ==
    \A o \in Objectives \ stale : Exists(o) =>
        \/ objective[o].progress = ProgressOf(o)
        \/ \E p \in Planners : WritesObjective(rollup[p], o)

OkrShapes == Requested /\ ObjectiveRows /\ ResultRows
OkrRefers == ResultsRefer /\ ObjectivesRefer /\ AlignsRefer
OkrInv == OkrShapes /\ OkrRefers /\ ReadsSound /\ ResultsFollow /\ ObjectivesFollow

\* Without key results and children there is no progress.
LEMMA NothingProgresses ==
    ASSUME NEW krs, NEW children, DOMAIN krs = {}, DOMAIN children = {}
    PROVE  ObjectiveProgress(krs, children) = Zero
  BY DEF ObjectiveProgress

\* Without a value there is no progress.
LEMMA NoValueNoProgress == \A v : v.current = None => KeyResultProgress(v) = Zero
  BY DEF KeyResultProgress

\* old goes on as new, marked if it has read key results of R or children of C.
Marked(new, old, R, C) ==
    /\ RollupShape(new) /\ new.stage = old.stage
    /\ old.stage \notin Rolls => new = old
    /\ old.stage \in Rolls =>
           /\ new.at = old.at /\ new.krs = old.krs /\ new.todo = old.todo
           /\ new.result = old.result /\ new.visited = old.visited
           /\ new.outdated <=> old.outdated \/ (old.stage \in ResultsRead /\ old.at \in R)
                               \/ (old.stage \in ChildrenRead /\ old.at \in C)

LEMMA OutdatesMarks ==
    ASSUME NEW rs, NEW o, NEW stages, stages = ResultsRead \/ stages = ChildrenRead,
           NEW p \in Planners, RollupShape(rs[p])
    PROVE  LET r == Outdates(rs, o, stages)[p]
           IN Marked(r, rs[p], IF stages = ResultsRead THEN {o} ELSE {}, IF stages = ResultsRead THEN {} ELSE {o})
<1>1. PICK r : r = rs[p]
  OBVIOUS
<1>2. PICK q : q = Outdates(rs, o, stages)[p]
  OBVIOUS
<1>3. /\ stages = ResultsRead => stages = {"drift", "children", "write"}
      /\ stages # ResultsRead => stages = {"write"}
      /\ ResultsRead = {"drift", "children", "write"} /\ ChildrenRead = {"write"}
  BY DEF ResultsRead, ChildrenRead
<1>4. r.stage \in Rolls =>
          RollsUp(r)
  BY <1>1 DEF RollupShape, RollsUp, NoRollup, Rolls
<1>5. CASE r.stage \in stages /\ r.at = o
  <2>1. q = [r EXCEPT !.outdated = TRUE]
    BY <1>1, <1>2, <1>5 DEF Outdates
  <2>2. r.stage \in Rolls
    BY <1>1, <1>3, <1>5 DEF RollupShape, RollsUp, NoRollup, Rolls
  <2>3. /\ q.stage = r.stage /\ q.at = r.at /\ q.up = r.up /\ q.krs = r.krs /\ q.todo = r.todo
        /\ q.result = r.result /\ q.visited = r.visited /\ q.outdated = TRUE
        /\ RollsUp(q)
    BY <1>4, <2>1, <2>2 DEF RollsUp
  <2>4. RollupShape(q)
    BY <2>3 DEF RollupShape, RollsUp
  <2>5. Marked(q, r, IF stages = ResultsRead THEN {o} ELSE {}, IF stages = ResultsRead THEN {} ELSE {o})
    <3>1. q.outdated <=> r.outdated \/ (r.stage \in ResultsRead /\ r.at \in IF stages = ResultsRead THEN {o} ELSE {})
                         \/ (r.stage \in ChildrenRead /\ r.at \in IF stages = ResultsRead THEN {} ELSE {o})
      BY <1>3, <1>5, <2>3
    <3> QED BY <2>2, <2>3, <2>4, <3>1 DEF Marked
  <2> QED BY <1>1, <1>2, <2>5
<1>6. CASE ~(r.stage \in stages /\ r.at = o)
  <2>1. q = r
    BY <1>1, <1>2, <1>6 DEF Outdates
  <2>2. r.stage \in Rolls =>
            (q.outdated <=> r.outdated \/ (r.stage \in ResultsRead /\ r.at \in IF stages = ResultsRead THEN {o} ELSE {})
                         \/ (r.stage \in ChildrenRead /\ r.at \in IF stages = ResultsRead THEN {} ELSE {o}))
    BY <1>3, <1>4, <1>6, <2>1
  <2> QED BY <1>1, <1>2, <2>1, <2>2 DEF Marked
<1> QED BY <1>5, <1>6

\* A request that reads nothing again goes on unmarked.
LEMMA StaysUnmarked ==
    ASSUME NEW r, RollupShape(r) PROVE Marked(r, r, {}, {})
<1>1. r.stage \in Rolls => r.outdated \in BOOLEAN
  BY DEF RollupShape, RollsUp, NoRollup, Rolls
<1> QED BY <1>1 DEF Marked

LEMMA NewRollup ==
    ASSUME NEW o \in Objectives, NEW v
    PROVE  LET r == Rollup(o, v)
           IN /\ RollupShape(r) /\ r.stage = "load" /\ r.at = o /\ ~r.outdated /\ r.visited = v
              /\ r.todo = {} /\ r.stage \in Rolls
              /\ r = [stage |-> "load", at |-> o, up |-> None, krs |-> <<>>, todo |-> {},
                      result |-> Zero, visited |-> v, outdated |-> FALSE]
  BY DEF Rollup, RollupShape, RollsUp, Rolls

(* EditsKept beside a step *)

\* A step of the requests A changes the key results of R and the children of C.
Disturbs(A, R, C) ==
    /\ \A q \in Planners \ A : Marked(rollup'[q], rollup[q], R, C)
    /\ \A o \in Objectives \ R : ResultsProgress(o)' = ResultsProgress(o)
    /\ \A o \in Objectives \ C : ChildrenProgress(o)' = ChildrenProgress(o)
    /\ \A k \in KeyResults : keyResult[k].row # "none" =>
           keyResult'[k].row # "none" /\ keyResult'[k].objective = keyResult[k].objective
    /\ \A o : Created(o) => Created(o)'

LEMMA OthersReadSound ==
    ASSUME Requested, ReadsSound, NEW A, NEW R, NEW C, Disturbs(A, R, C), NEW q \in Planners \ A
    PROVE  SoundRead(rollup[q])'
<1>1. PICK r : r = rollup[q]
  OBVIOUS
<1>2. PICK n : n = rollup'[q]
  OBVIOUS
<1>3. Marked(n, r, R, C) /\ SoundRead(r) /\ RollupShape(r)
  BY <1>1, <1>2 DEF Disturbs, ReadsSound, Requested
<1>4. CASE r.stage \notin Rolls
  <2>1. n = r
    BY <1>3, <1>4 DEF Marked
  <2>2. r.stage = "update" => keyResult'[r.key].row # "none" /\ keyResult'[r.key].objective = r.at
    <3>1. r.stage = "update" => r.key \in KeyResults
      BY <1>3 DEF RollupShape, RollsUp, NoRollup, Rolls
    <3> QED BY <1>3, <3>1 DEF SoundRead, Disturbs
  <2>3. SoundRead(n)'
    BY <1>4, <2>1, <2>2 DEF SoundRead, Rolls
  <2> QED BY <1>2, <2>3 DEF SoundRead
<1>5. CASE r.stage \in Rolls
  <2>1. r.at \in Objectives /\ r.todo \subseteq KeyResults
    BY <1>3, <1>5 DEF RollupShape, RollsUp, NoRollup, Rolls
  <2>2. /\ n.stage = r.stage /\ n.at = r.at /\ n.krs = r.krs /\ n.todo = r.todo
        /\ n.result = r.result /\ n.visited = r.visited
        /\ n.outdated <=> r.outdated \/ (r.stage \in ResultsRead /\ r.at \in R)
                          \/ (r.stage \in ChildrenRead /\ r.at \in C)
    BY <1>3, <1>5 DEF Marked
  <2>3. /\ n.stage \in {"sync", "load"} => ~n.outdated
        /\ n.stage = "sync" => n.visited = {}
    BY <1>3, <2>2 DEF SoundRead, ResultsRead, ChildrenRead
  <2>4. n.stage \in {"sync", "drift"} =>
            \A k \in n.todo : keyResult'[k].row # "none" /\ keyResult'[k].objective = n.at
    BY <1>3, <2>1, <2>2 DEF SoundRead, Disturbs
  <2>5. ASSUME n.stage \in {"drift", "write"}, ~n.outdated
        PROVE  n.krs = ResultsProgress(n.at)' /\ (n.stage = "write" => n.result = ProgressOf(n.at)')
    <3>1. ~r.outdated /\ r.at \notin R /\ (r.stage = "write" => r.at \notin C)
      BY <2>2, <2>5 DEF ResultsRead, ChildrenRead
    <3>2. /\ r.krs = ResultsProgress(r.at)
          /\ r.stage = "write" => r.result = ProgressOf(r.at)
      BY <1>3, <2>2, <2>5, <3>1 DEF SoundRead
    <3>3. /\ ResultsProgress(r.at)' = ResultsProgress(r.at)
          /\ r.stage = "write" => ChildrenProgress(r.at)' = ChildrenProgress(r.at)
      BY <2>1, <3>1 DEF Disturbs
    <3>4. r.stage = "write" => ProgressOf(r.at)' = ProgressOf(r.at)
      BY <3>3 DEF ProgressOf
    <3> QED BY <2>2, <3>2, <3>3, <3>4
  <2>6. SoundRead(n)'
    BY <1>5, <2>2, <2>3, <2>4, <2>5 DEF SoundRead, Rolls
  <2> QED BY <1>2, <2>6 DEF SoundRead
<1> QED BY <1>4, <1>5

\* A key result that a step leaves alone shows its value, or a request goes on to
\* write it, or one of those that took the step was to.
LEMMA ResultsGoOn ==
    ASSUME Requested, ResultsFollow, NEW A, NEW R, NEW C, Disturbs(A, R, C),
           \A o \in R : \E q \in Planners : Restarts(rollup'[q], o),
           NEW k \in KeyResults \ stale, keyResult[k].row = "there", Exists(keyResult[k].objective)
    PROVE  \/ keyResult[k].progress = KeyResultProgress(keyResult[k].values)
           \/ \E q \in Planners : WritesResult(rollup'[q], k, keyResult[k].objective)
           \/ \E q \in A : WritesResult(rollup[q], k, keyResult[k].objective)
<1>1. PICK o : o = keyResult[k].objective
  OBVIOUS
<1>2. SUFFICES ASSUME NEW q \in Planners \ A, WritesResult(rollup[q], k, o)
               PROVE  \E p \in Planners : WritesResult(rollup'[p], k, o)
  BY <1>1 DEF ResultsFollow
<1>3. CASE o \in R
  BY <1>3 DEF WritesResult
<1>4. CASE o \notin R
  <2>1. PICK r, n : r = rollup[q] /\ n = rollup'[q]
    OBVIOUS
  <2>2. Marked(n, r, R, C) /\ RollupShape(r) /\ WritesResult(r, k, o)
    BY <1>2, <2>1 DEF Disturbs, Requested
  <2>3. r.stage \in {"sync", "load", "drift"} /\ r.at = o /\ ~r.outdated
    BY <2>2 DEF WritesResult, Restarts
  <2>4. /\ n.stage = r.stage /\ n.at = r.at /\ n.todo = r.todo /\ n.visited = r.visited
        /\ n.outdated <=> r.outdated \/ (r.stage \in ResultsRead /\ r.at \in R)
                          \/ (r.stage \in ChildrenRead /\ r.at \in C)
    BY <2>2, <2>3 DEF Marked, Rolls
  <2>5. ~n.outdated
    BY <1>4, <2>3, <2>4 DEF ChildrenRead
  <2>6. WritesResult(n, k, o)
    BY <2>2, <2>3, <2>4, <2>5 DEF WritesResult, Restarts
  <2> QED BY <1>2, <2>1, <2>6
<1> QED BY <1>3, <1>4

\* So it is with an objective.
LEMMA ObjectivesGoOn ==
    ASSUME Requested, ObjectivesFollow, NEW A, NEW R, NEW C, Disturbs(A, R, C),
           \A o \in R : \E q \in Planners : Restarts(rollup'[q], o),
           NEW o \in Objectives \ stale, Exists(o), o \notin C
    PROVE  \/ objective[o].progress = ProgressOf(o)'
           \/ \E q \in Planners : WritesObjective(rollup'[q], o)
           \/ \E q \in A : WritesObjective(rollup[q], o)
<1>1. CASE o \in R
  BY <1>1 DEF Restarts, WritesObjective, Rolls
<1>2. CASE o \notin R /\ objective[o].progress = ProgressOf(o)
  BY <1>2 DEF Disturbs, ProgressOf
<1>3. ASSUME NEW q \in Planners \ A, WritesObjective(rollup[q], o), o \notin R
      PROVE  WritesObjective(rollup'[q], o)
  <2>1. PICK r, n : r = rollup[q] /\ n = rollup'[q]
    OBVIOUS
  <2>2. Marked(n, r, R, C) /\ r.stage \in Rolls /\ r.at = o /\ ~r.outdated
    BY <1>3, <2>1 DEF Disturbs, WritesObjective
  <2>3. n.stage = r.stage /\ n.at = o /\ ~n.outdated
    BY <1>3, <2>2 DEF Marked
  <2> QED BY <2>1, <2>2, <2>3 DEF WritesObjective
<1> QED BY <1>1, <1>2, <1>3 DEF ObjectivesFollow

\* What a step of A has to do about the key results K and the objectives O whose rows
\* it writes, and about those that its requests were to write.
ResultShown(k) == \/ keyResult[k].progress = KeyResultProgress(keyResult[k].values)
                  \/ \E p \in Planners : WritesResult(rollup[p], k, keyResult[k].objective)
ObjectiveShown(o) == \/ objective[o].progress = ProgressOf(o)
                     \/ \E p \in Planners : WritesObjective(rollup[p], o)
Restarted(R) == \A o \in R : \E q \in Planners : Restarts(rollup'[q], o)
LeavesResults(A, K) ==
    /\ \A k \in KeyResults \ K : keyResult'[k] = keyResult[k] /\ (k \in stale => k \in stale')
    /\ \A k \in K \ stale' : keyResult'[k].row = "there" /\ Exists(keyResult[k].objective)' => ResultShown(k)'
    /\ \A q \in A, k \in KeyResults \ stale' :
           WritesResult(rollup[q], k, keyResult[k].objective) /\ k \notin K /\ keyResult[k].row = "there"
               /\ Exists(keyResult[k].objective)
           => ResultShown(k)'
LeavesObjectives(A, C, O) ==
    /\ \A o \in Objectives : Exists(o)' => Exists(o) \/ (o \in O /\ ~Created(o))
    /\ \A o \in Objectives \ O : objective'[o].progress = objective[o].progress /\ (o \in stale => o \in stale')
    /\ \A o \in Objectives \ stale' : o \in O \cup C /\ Exists(o)' => ObjectiveShown(o)'
    /\ \A q \in A, o \in Objectives \ stale' :
           WritesObjective(rollup[q], o) /\ o \notin O \cup C /\ Exists(o) => ObjectiveShown(o)'

LEMMA StepFollows ==
    ASSUME OkrInv, NEW A, NEW R, NEW C, NEW K, NEW O, Disturbs(A, R, C), Restarted(R),
           \A q \in A : SoundRead(rollup[q])', LeavesResults(A, K), LeavesObjectives(A, C, O)
    PROVE  ReadsSound' /\ ResultsFollow' /\ ObjectivesFollow'
<1> USE DEF OkrInv, OkrShapes, OkrRefers
<1>1. ReadsSound'
  BY OthersReadSound DEF ReadsSound
<1>2. ResultsFollow'
  <2>1. ASSUME NEW k \in KeyResults \ stale', keyResult'[k].row = "there", Exists(keyResult[k].objective)'
        PROVE  ResultShown(k)'
    <3>1. CASE k \in K
      BY <2>1, <3>1 DEF LeavesResults
    <3>2. CASE k \notin K
      <4>1. keyResult'[k] = keyResult[k] /\ k \notin stale
        BY <2>1, <3>2 DEF LeavesResults
      <4>2. PICK o : o = keyResult[k].objective
        OBVIOUS
      <4>3. o \in Objectives
        BY <2>1, <4>1, <4>2 DEF ResultsRefer, Created
      <4>4. Exists(o)
        BY <2>1, <3>2, <4>1, <4>2, <4>3 DEF LeavesObjectives, ResultsRefer
      <4>5. \/ keyResult[k].progress = KeyResultProgress(keyResult[k].values)
            \/ \E q \in Planners : WritesResult(rollup'[q], k, o)
            \/ \E q \in A : WritesResult(rollup[q], k, o)
        BY <2>1, <4>1, <4>2, <4>4, ResultsGoOn DEF Restarted
      <4>6. CASE keyResult[k].progress = KeyResultProgress(keyResult[k].values)
        BY <4>1, <4>6 DEF ResultShown
      <4>7. CASE \E q \in Planners : WritesResult(rollup'[q], k, o)
        BY <4>1, <4>2, <4>7 DEF ResultShown
      <4>8. CASE \E q \in A : WritesResult(rollup[q], k, o)
        BY <2>1, <3>2, <4>1, <4>2, <4>4, <4>8 DEF LeavesResults
      <4> QED BY <4>5, <4>6, <4>7, <4>8
    <3> QED BY <3>1, <3>2
  <2> QED BY <2>1 DEF ResultsFollow, ResultShown
<1>3. ObjectivesFollow'
  <2>1. ASSUME NEW o \in Objectives \ stale', Exists(o)'
        PROVE  ObjectiveShown(o)'
    <3>1. CASE o \in O \cup C
      BY <2>1, <3>1 DEF LeavesObjectives
    <3>2. CASE o \notin O \cup C
      <4>1. Exists(o) /\ o \notin stale /\ objective'[o].progress = objective[o].progress
        BY <2>1, <3>2 DEF LeavesObjectives
      <4>2. \/ objective[o].progress = ProgressOf(o)'
            \/ \E q \in Planners : WritesObjective(rollup'[q], o)
            \/ \E q \in A : WritesObjective(rollup[q], o)
        BY <2>1, <3>2, <4>1, ObjectivesGoOn DEF Restarted
      <4>3. CASE objective[o].progress = ProgressOf(o)'
        BY <4>1, <4>3 DEF ObjectiveShown
      <4>4. CASE \E q \in Planners : WritesObjective(rollup'[q], o)
        BY <4>4 DEF ObjectiveShown
      <4>5. CASE \E q \in A : WritesObjective(rollup[q], o)
        BY <2>1, <3>2, <4>1, <4>5 DEF LeavesObjectives
      <4> QED BY <4>2, <4>3, <4>4, <4>5
    <3> QED BY <3>1, <3>2
  <2> QED BY <2>1 DEF ObjectivesFollow, ObjectiveShown
<1> QED BY <1>1, <1>2, <1>3

(* Steps *)

LEMMA OthersMarked ==
    ASSUME Requested, NEW q \in Planners, NEW o
    PROVE  /\ Marked(Outdates(rollup, o, ResultsRead)[q], rollup[q], {o}, {})
           /\ Marked(Outdates(rollup, o, ChildrenRead)[q], rollup[q], {}, {o})
<1>1. ResultsRead # ChildrenRead
  BY DEF ResultsRead, ChildrenRead
<1>2. RollupShape(rollup[q])
  BY DEF Requested
<1>3. Marked(Outdates(rollup, o, ResultsRead)[q], rollup[q],
             IF ResultsRead = ResultsRead THEN {o} ELSE {}, IF ResultsRead = ResultsRead THEN {} ELSE {o})
  BY <1>2, OutdatesMarks
<1>4. Marked(Outdates(rollup, o, ChildrenRead)[q], rollup[q],
             IF ChildrenRead = ResultsRead THEN {o} ELSE {}, IF ChildrenRead = ResultsRead THEN {} ELSE {o})
  BY <1>2, OutdatesMarks
<1> QED BY <1>1, <1>3, <1>4

LEMMA MarkedAlignsRefer ==
    ASSUME AlignsRefer, NEW A, NEW R, NEW C, Disturbs(A, R, C), NEW q \in Planners \ A, rollup'[q].stage \in Aligns
    PROVE  rollup'[q].up = None \/ Created(rollup'[q].up)
<1>1. rollup[q].stage \in Aligns /\ rollup'[q] = rollup[q]
  BY DEF Disturbs, Marked, Rolls, Aligns
<1> QED BY <1>1 DEF AlignsRefer

\* A key result of o is written, and p is to recompute o.
LEMMA ResultsChange ==
    ASSUME OkrInv, NEW p \in Planners, NEW k \in KeyResults, NEW o \in Objectives, Created(o),
           objective' = objective, ResultRows', \A j \in KeyResults \ {k} : keyResult'[j] = keyResult[j],
           keyResult'[k].row # "none", keyResult'[k].objective = o,
           keyResult[k].row # "none" => keyResult[k].objective = o,
           rollup' = [q \in Planners |-> rollup'[q]],
           \A q \in Planners \ {p} : rollup'[q] = Outdates(rollup, o, ResultsRead)[q],
           RollupShape(rollup'[p]), Restarts(rollup'[p], o), SoundRead(rollup[p])',
           rollup[p].stage \in Rolls => rollup[p].at = o,
           stale \subseteq stale' \cup {k}
    PROVE  OkrInv'
<1> USE DEF OkrInv, OkrShapes, OkrRefers
<1>1. /\ \A c : Created(c)' <=> Created(c)
      /\ \A c : Exists(c)' <=> Exists(c)
  BY DEF Created, Exists
<1>2. Disturbs({p}, {o}, {})
  <2>1. \A q \in Planners \ {p} : Marked(rollup'[q], rollup[q], {o}, {})
    BY OthersMarked
  <2>2. ASSUME NEW c \in Objectives \ {o} PROVE ResultsProgress(c)' = ResultsProgress(c)
    <3>1. ResultsOf(c)' = ResultsOf(c) /\ k \notin ResultsOf(c)
      BY <2>2 DEF ResultsOf
    <3>2. \A j \in ResultsOf(c) : keyResult'[j] = keyResult[j]
      BY <3>1 DEF ResultsOf
    <3> QED BY <3>1, <3>2 DEF ResultsProgress
  <2>3. \A c \in Objectives : ChildrenProgress(c)' = ChildrenProgress(c)
    BY DEF ChildrenProgress, ChildrenOf, Exists
  <2> QED BY <1>1, <2>1, <2>2, <2>3 DEF Disturbs
<1>3. OkrShapes'
  <2>1. \A q \in Planners : RollupShape(rollup'[q])
    BY <1>2 DEF Disturbs, Marked
  <2> QED BY <2>1 DEF Requested, ObjectiveRows
<1>4. OkrRefers'
  <2>1. ResultsRefer'
    BY <1>1 DEF ResultsRefer
  <2>2. ObjectivesRefer'
    BY <1>1 DEF ObjectivesRefer
  <2>3. AlignsRefer'
    <3>1. rollup'[p].stage \notin Aligns
      BY DEF Restarts, Aligns
    <3> QED BY <1>1, <1>2, <3>1, MarkedAlignsRefer DEF AlignsRefer
  <2> QED BY <2>1, <2>2, <2>3
<1>5. \A j \in KeyResults : keyResult'[j].objective = o => ResultShown(j)'
  BY DEF ResultShown, WritesResult
<1>6. ObjectiveShown(o)'
  BY DEF ObjectiveShown, WritesObjective, Restarts, Rolls
<1>7. LeavesResults({p}, {k})
  <2>1. \A j \in KeyResults \ {k} : WritesResult(rollup[p], j, keyResult[j].objective) => keyResult'[j].objective = o
    BY DEF WritesResult, Restarts, Rolls
  <2> QED BY <1>5, <2>1 DEF LeavesResults
<1>8. LeavesObjectives({p}, {}, {})
  <2>1. \A c \in Objectives : WritesObjective(rollup[p], c) => c = o
    BY DEF WritesObjective
  <2>2. \A c \in Objectives : c \in stale => c \in stale'
    BY OkrsAssumption
  <2> QED BY <1>1, <1>6, <2>1, <2>2 DEF LeavesObjectives
<1>9. ReadsSound' /\ ResultsFollow' /\ ObjectivesFollow'
  <2>1. Restarted({o})
    BY DEF Restarted
  <2> QED BY <1>2, <1>7, <1>8, <2>1, StepFollows
<1> QED BY <1>3, <1>4, <1>9

LEMMA CreateKeyResultHolds ==
    ASSUME OkrInv, NEW p \in Planners, NEW k \in KeyResults, NEW o \in Objectives, NEW v, CreateKeyResult(p, k, o, v)
    PROVE  OkrInv'
<1> USE DEF OkrInv, OkrShapes, OkrRefers
<1>1. /\ IsIdle(p) /\ keyResult[k].row = "none" /\ Exists(o) /\ objective' = objective /\ stale' = stale
      /\ keyResult' = [keyResult EXCEPT ![k] = [row |-> "there", objective |-> o, values |-> CreatedWith(k, v),
                                                progress |-> KeyResultProgress(CreatedWith(k, v))]]
      /\ rollup' = [Outdates(rollup, o, ResultsRead) EXCEPT ![p] = Rollup(o, {})]
  BY DEF CreateKeyResult
<1>2. /\ \A j \in KeyResults \ {k} : keyResult'[j] = keyResult[j]
      /\ keyResult'[k] = [row |-> "there", objective |-> o, values |-> CreatedWith(k, v),
                          progress |-> KeyResultProgress(CreatedWith(k, v))]
      /\ ResultRows'
  BY <1>1 DEF ResultRows
<1>3. /\ rollup' = [q \in Planners |-> rollup'[q]] /\ rollup'[p] = Rollup(o, {})
      /\ \A q \in Planners \ {p} : rollup'[q] = Outdates(rollup, o, ResultsRead)[q]
  BY <1>1 DEF Outdates
<1>4. RollupShape(rollup'[p]) /\ Restarts(rollup'[p], o)
  BY <1>3, NewRollup DEF Restarts
<1>5. SoundRead(rollup[p])'
  BY <1>3, NewRollup DEF SoundRead
<1>6. Created(o) /\ rollup[p].stage \notin Rolls
  BY <1>1 DEF Created, Exists, IsIdle, NoRollup, Rolls
<1>7. /\ keyResult'[k].row # "none" /\ keyResult'[k].objective = o
      /\ objective' = objective /\ stale \subseteq stale' \cup {k} /\ keyResult[k].row = "none"
  BY <1>1, <1>2
<1> QED BY <1>2, <1>3, <1>4, <1>5, <1>6, <1>7, ResultsChange

LEMMA RemoveKeyResultHolds ==
    ASSUME OkrInv, NEW p \in Planners, NEW k \in KeyResults, RemoveKeyResult(p, k)
    PROVE  OkrInv'
<1> USE DEF OkrInv, OkrShapes, OkrRefers
<1>1. PICK o \in Objectives : o = keyResult[k].objective /\ Created(o)
  BY DEF RemoveKeyResult, ResultsRefer, Created
<1>2. /\ IsIdle(p) /\ keyResult[k].row = "there" /\ objective' = objective /\ stale' = stale
      /\ keyResult' = [keyResult EXCEPT ![k].row = "gone"]
      /\ rollup' = [Outdates(rollup, o, ResultsRead) EXCEPT ![p] = Rollup(o, {})]
  BY <1>1 DEF RemoveKeyResult
<1>3. /\ \A j \in KeyResults \ {k} : keyResult'[j] = keyResult[j]
      /\ keyResult'[k] = [row |-> "gone", objective |-> o, values |-> keyResult[k].values,
                          progress |-> keyResult[k].progress]
      /\ ResultRows'
  BY <1>1, <1>2 DEF ResultRows
<1>4. /\ rollup' = [q \in Planners |-> rollup'[q]] /\ rollup'[p] = Rollup(o, {})
      /\ \A q \in Planners \ {p} : rollup'[q] = Outdates(rollup, o, ResultsRead)[q]
  BY <1>2 DEF Outdates
<1>5. RollupShape(rollup'[p]) /\ Restarts(rollup'[p], o)
  BY <1>4, NewRollup DEF Restarts
<1>6. SoundRead(rollup[p])'
  BY <1>4, NewRollup DEF SoundRead
<1>7. rollup[p].stage \notin Rolls
  BY <1>2 DEF IsIdle, NoRollup, Rolls
<1> QED BY <1>1, <1>2, <1>3, <1>4, <1>5, <1>6, <1>7, ResultsChange

\* Only p goes on; of the rows, at most the progress of key results K is written.
LEMMA OneMoves ==
    ASSUME OkrInv, NEW p \in Planners, NEW r, NEW K, RollupShape(r), rollup' = [rollup EXCEPT ![p] = r],
           objective' = objective, ResultRows',
           \A k \in KeyResults : /\ keyResult'[k].row = keyResult[k].row
                                 /\ keyResult'[k].objective = keyResult[k].objective
                                 /\ keyResult'[k].values = keyResult[k].values,
           SoundRead(r)', r.stage \in Aligns => r.up = None \/ Created(r.up),
           \A o \in Objectives : o \in stale => o \in stale', LeavesResults({p}, K),
           \A o \in Objectives \ stale' : WritesObjective(rollup[p], o) /\ Exists(o) => WritesObjective(r, o)
    PROVE  OkrInv'
<1> USE DEF OkrInv, OkrShapes, OkrRefers
<1>1. /\ \A c : Created(c)' <=> Created(c)
      /\ \A c : Exists(c)' <=> Exists(c)
  BY DEF Created, Exists
<1>2. /\ rollup' = [q \in Planners |-> rollup'[q]] /\ rollup'[p] = r
      /\ \A q \in Planners \ {p} : rollup'[q] = rollup[q]
  BY DEF Requested
<1>3. Disturbs({p}, {}, {})
  <2>1. \A q \in Planners \ {p} : Marked(rollup'[q], rollup[q], {}, {})
    BY <1>2, StaysUnmarked DEF Requested
  <2>2. ASSUME NEW c \in Objectives PROVE ResultsProgress(c)' = ResultsProgress(c)
    <3>1. ResultsOf(c)' = ResultsOf(c)
      BY DEF ResultsOf
    <3>2. \A j \in ResultsOf(c) : keyResult'[j].values = keyResult[j].values
      BY DEF ResultsOf
    <3> QED BY <3>1, <3>2 DEF ResultsProgress
  <2>3. \A c \in Objectives : ChildrenProgress(c)' = ChildrenProgress(c)
    BY DEF ChildrenProgress, ChildrenOf, Exists
  <2> QED BY <1>1, <2>1, <2>2, <2>3 DEF Disturbs
<1>4. OkrShapes'
  BY <1>2 DEF Requested, ObjectiveRows
<1>5. OkrRefers'
  <2>1. ResultsRefer' /\ ObjectivesRefer'
    BY <1>1 DEF ResultsRefer, ObjectivesRefer
  <2>2. AlignsRefer'
    BY <1>1, <1>2 DEF AlignsRefer, Aligns
  <2> QED BY <2>1, <2>2
<1>6. LeavesObjectives({p}, {}, {})
  <2>1. \A o \in Objectives \ stale' : WritesObjective(rollup[p], o) /\ Exists(o) => ObjectiveShown(o)'
    BY <1>2 DEF ObjectiveShown
  <2> QED BY <1>1, <2>1 DEF LeavesObjectives
<1>7. ReadsSound' /\ ResultsFollow' /\ ObjectivesFollow'
  <2>1. Restarted({}) /\ SoundRead(rollup[p])'
    BY <1>2 DEF Restarted, SoundRead
  <2> QED BY <1>3, <1>6, <2>1, StepFollows
<1> QED BY <1>4, <1>5, <1>7

\* No row is written.
LEMMA OneReads ==
    ASSUME OkrInv, NEW p \in Planners, NEW r, RollupShape(r), rollup' = [rollup EXCEPT ![p] = r],
           UNCHANGED <<objective, keyResult>>,
           SoundRead(r), r.stage \in Aligns => r.up = None \/ Created(r.up), stale \subseteq stale',
           \A k \in KeyResults \ stale' :
               keyResult[k].row = "there" /\ Exists(keyResult[k].objective)
                   /\ WritesResult(rollup[p], k, keyResult[k].objective)
               => \/ keyResult[k].progress = KeyResultProgress(keyResult[k].values)
                  \/ WritesResult(r, k, keyResult[k].objective),
           \A o \in Objectives \ stale' : WritesObjective(rollup[p], o) /\ Exists(o) => WritesObjective(r, o)
    PROVE  OkrInv'
<1> USE DEF OkrInv, OkrShapes, OkrRefers
<1>1. ResultRows'
  BY DEF ResultRows
<1>2. SoundRead(r)'
  BY DEF SoundRead, ResultsProgress, ResultsOf, ProgressOf, ChildrenProgress, ChildrenOf, Exists
<1>3. LeavesResults({p}, {})
  <2>1. rollup'[p] = r
    BY DEF Requested
  <2>2. ASSUME NEW k \in KeyResults \ stale', keyResult[k].row = "there", Exists(keyResult[k].objective),
               WritesResult(rollup[p], k, keyResult[k].objective)
        PROVE  ResultShown(k)'
    BY <2>1, <2>2 DEF ResultShown
  <2> QED BY <2>2 DEF LeavesResults
<1> QED BY <1>1, <1>2, <1>3, OneMoves

LEMMA UpdateKeyResultHolds ==
    ASSUME OkrInv, NEW p \in Planners, NEW k \in KeyResults, NEW dto, UpdateKeyResult(p, k, dto)
    PROVE  OkrInv'
<1>1. PICK o \in Objectives : o = keyResult[k].objective /\ keyResult[k].row = "there"
  BY DEF UpdateKeyResult, OkrInv, OkrRefers, ResultsRefer, Created
<1>2. PICK x : x = KeyResultProgress(Merge(keyResult[k].values, dto))
  OBVIOUS
<1>3. PICK r : r = [stage |-> "update", at |-> o, key |-> k, dto |-> dto, progress |-> x]
  OBVIOUS
<1>4. rollup' = [rollup EXCEPT ![p] = r] /\ UNCHANGED <<objective, keyResult, stale>> /\ IsIdle(p)
  BY <1>1, <1>2, <1>3 DEF UpdateKeyResult, Moves
<1>5. RollupShape(r) /\ SoundRead(r) /\ r.stage \notin Aligns
  BY <1>1, <1>3 DEF RollupShape, RollsUp, SoundRead, Aligns
<1>6. \A j, c : ~WritesResult(rollup[p], j, c) /\ ~WritesObjective(rollup[p], c)
  BY <1>4 DEF IsIdle, NoRollup, WritesResult, WritesObjective, Restarts, Rolls
<1> QED BY <1>4, <1>5, <1>6, OneReads

LEMMA BeginAlignHolds ==
    ASSUME OkrInv, NEW p \in Planners, NEW o \in Objectives, NEW up \in Objectives \cup {None}, BeginAlign(p, o, up)
    PROVE  OkrInv'
<1>0. PICK s \in Aligns : s = IF up = None THEN "align" ELSE "climb"
  BY DEF Aligns
<1>1. PICK r : r = [stage |-> s, at |-> o, up |-> up, cursor |-> up, visited |-> {}]
  OBVIOUS
<1>2. rollup' = [rollup EXCEPT ![p] = r] /\ UNCHANGED <<objective, keyResult, stale>> /\ IsIdle(p)
  BY <1>0, <1>1 DEF BeginAlign, Moves
<1>3. RollupShape(r) /\ SoundRead(r) /\ (r.up = None \/ Created(r.up))
  BY <1>1 DEF RollupShape, RollsUp, SoundRead, Created, BeginAlign, Exists, Aligns
<1>4. \A k, c : ~WritesResult(rollup[p], k, c) /\ ~WritesObjective(rollup[p], c)
  BY <1>2 DEF IsIdle, NoRollup, WritesResult, WritesObjective, Restarts, Rolls
<1> QED BY <1>2, <1>3, <1>4, OneReads

LEMMA ClimbAlignHolds ==
    ASSUME OkrInv, NEW p \in Planners, ClimbAlign(p) PROVE OkrInv'
<1> USE DEF OkrInv, OkrShapes, OkrRefers
<1>1. PICK q : q = rollup[p]
  OBVIOUS
<1>2. q.stage = "climb" /\ RollupShape(q) /\ UNCHANGED <<objective, keyResult, stale>>
  BY <1>1 DEF ClimbAlign, Requested
<1>3. /\ q \in [stage : {"climb", "align"}, at : Objectives, up : Objectives \cup {None},
                cursor : {q.cursor}, visited : {q.visited}]
      /\ q.up = None \/ Created(q.up)
  BY <1>1, <1>2 DEF RollupShape, RollsUp, NoRollup, Rolls, AlignsRefer, Aligns
<1>4. PICK above : above = IF Exists(q.cursor) THEN objective[q.cursor].parent ELSE None
  OBVIOUS
<1>5. PICK seen : seen = q.visited \cup {q.cursor}
  OBVIOUS
<1>6. PICK r : r = IF q.cursor = q.at THEN NoRollup
                   ELSE IF above = None \/ above \in seen THEN [q EXCEPT !.stage = "align"]
                   ELSE [q EXCEPT !.cursor = above, !.visited = seen]
  OBVIOUS
<1>7. rollup' = [rollup EXCEPT ![p] = r]
  BY <1>1, <1>4, <1>5, <1>6 DEF ClimbAlign, Moves
<1>8. RollupShape(r) /\ SoundRead(r) /\ (r.stage \in Aligns => r.up = None \/ Created(r.up))
  <2>1. CASE q.cursor = q.at
    <3>1. r = NoRollup
      BY <1>6, <2>1
    <3> QED BY <3>1 DEF RollupShape, RollsUp, SoundRead, NoRollup, Aligns
  <2>2. CASE q.cursor # q.at /\ (above = None \/ above \in seen)
    <3>1. r = [q EXCEPT !.stage = "align"]
      BY <1>6, <2>2
    <3>2. r = [stage |-> "align", at |-> q.at, up |-> q.up, cursor |-> q.cursor, visited |-> q.visited]
      BY <1>3, <3>1
    <3> QED BY <1>3, <3>2 DEF RollupShape, RollsUp, SoundRead
  <2>3. CASE q.cursor # q.at /\ ~(above = None \/ above \in seen)
    <3>1. r = [q EXCEPT !.cursor = above, !.visited = seen]
      BY <1>6, <2>3
    <3>2. PICK n : n = [q EXCEPT !.cursor = above]
      OBVIOUS
    <3>3. n = [stage |-> "climb", at |-> q.at, up |-> q.up, cursor |-> above, visited |-> q.visited]
      BY <1>2, <1>3, <3>2
    <3>4. r = [n EXCEPT !.visited = seen]
      BY <3>1, <3>2
    <3>5. r = [stage |-> "climb", at |-> q.at, up |-> q.up, cursor |-> above, visited |-> seen]
      BY <3>3, <3>4
    <3> QED BY <1>3, <3>5 DEF RollupShape, RollsUp, SoundRead
  <2> QED BY <2>1, <2>2, <2>3
<1>9. \A k, c : ~WritesResult(rollup[p], k, c) /\ ~WritesObjective(rollup[p], c)
  BY <1>1, <1>2 DEF WritesResult, WritesObjective, Restarts, Rolls
<1> QED BY <1>2, <1>7, <1>8, <1>9, OneReads

LEMMA BeginSyncHolds ==
    ASSUME OkrInv, NEW p \in Planners, NEW o \in Objectives, BeginSync(p, o)
    PROVE  OkrInv'
<1>0. PICK t : t = ResultsOf(o) \cap Linked
  OBVIOUS
<1>1. PICK r : r = [Rollup(o, {}) EXCEPT !.stage = "sync", !.todo = t]
  OBVIOUS
<1>2. RollsUp(r) /\ r.stage = "sync" /\ r.at = o /\ r.todo = t /\ r.visited = {} /\ ~r.outdated
  <2>1. PICK a : a = Rollup(o, {})
    OBVIOUS
  <2>2. RollsUp(a) /\ a.at = o /\ a.visited = {} /\ ~a.outdated
    BY <2>1, NewRollup DEF RollsUp, Rollup, Rolls
  <2>3. PICK b : b = [a EXCEPT !.stage = "sync"]
    OBVIOUS
  <2>4. RollsUp(b) /\ b.stage = "sync" /\ b.at = o /\ b.visited = {} /\ ~b.outdated
    BY <2>2, <2>3 DEF RollsUp, Rolls
  <2>5. r = [b EXCEPT !.todo = t] /\ t \subseteq KeyResults
    BY <1>0, <1>1, <2>1, <2>3 DEF ResultsOf
  <2> QED BY <2>4, <2>5 DEF RollsUp
<1>3. rollup' = [rollup EXCEPT ![p] = r] /\ UNCHANGED <<objective, keyResult, stale>> /\ IsIdle(p)
  BY <1>0, <1>1 DEF BeginSync, Moves
<1>4. RollupShape(r) /\ SoundRead(r) /\ r.stage \notin Aligns
  BY <1>0, <1>2 DEF RollsUp, RollupShape, SoundRead, ResultsOf, Rolls, Aligns
<1>5. \A k, c : ~WritesResult(rollup[p], k, c) /\ ~WritesObjective(rollup[p], c)
  BY <1>3 DEF IsIdle, NoRollup, WritesResult, WritesObjective, Restarts, Rolls
<1> QED BY <1>3, <1>4, <1>5, OneReads

LEMMA SyncDoneHolds ==
    ASSUME OkrInv, NEW p \in Planners, SyncDone(p) PROVE OkrInv'
<1> USE DEF OkrInv, OkrShapes
<1>1. PICK q : q = rollup[p]
  OBVIOUS
<1>2. RollupShape(q) /\ q.stage = "sync" /\ SoundRead(q)
  BY <1>1 DEF SyncDone, Requested, ReadsSound
<1>3. PICK o \in Objectives : o = q.at
  BY <1>2 DEF RollupShape, RollsUp, NoRollup
<1>4. PICK r : r = Rollup(o, {})
  OBVIOUS
<1>5. RollupShape(r) /\ r.stage = "load" /\ r.at = o /\ ~r.outdated /\ r.visited = {} /\ r.stage \in Rolls
  BY <1>4, NewRollup
<1>6. rollup' = [rollup EXCEPT ![p] = r] /\ UNCHANGED <<objective, keyResult, stale>>
  BY <1>1, <1>3, <1>4 DEF SyncDone, Moves
<1>7. SoundRead(r) /\ r.stage \notin Aligns
  BY <1>5 DEF SoundRead, Aligns
<1>8. \A k, c : WritesResult(q, k, c) => WritesResult(r, k, c)
  BY <1>2, <1>3, <1>5 DEF WritesResult, Restarts
<1>9. \A c : WritesObjective(q, c) => WritesObjective(r, c)
  BY <1>2, <1>3, <1>5 DEF WritesObjective
<1> QED BY <1>1, <1>5, <1>6, <1>7, <1>8, <1>9, OneReads

\* A request that ends has shown what it was to write, or leaves it stale.
LEMMA OneEnds ==
    ASSUME OkrInv, NEW p \in Planners, rollup' = [rollup EXCEPT ![p] = NoRollup],
           UNCHANGED <<objective, keyResult>>, stale \subseteq stale',
           rollup[p].stage \in Rolls =>
               /\ Exists(rollup[p].at) => rollup[p].at \in stale'
               /\ \A k \in ResultsOf(rollup[p].at) : 
                      Exists(rollup[p].at) /\ WritesResult(rollup[p], k, rollup[p].at) => k \in stale'
    PROVE  OkrInv'
<1>1. RollupShape(NoRollup) /\ SoundRead(NoRollup) /\ NoRollup.stage \notin Aligns
  BY DEF RollupShape, RollsUp, SoundRead, NoRollup, Aligns
<1>2. \A o \in Objectives \ stale' : ~(WritesObjective(rollup[p], o) /\ Exists(o))
  BY DEF WritesObjective
<1>3. ASSUME NEW k \in KeyResults \ stale', keyResult[k].row = "there", Exists(keyResult[k].objective)
      PROVE  ~WritesResult(rollup[p], k, keyResult[k].objective)
  <2>1. WritesResult(rollup[p], k, keyResult[k].objective) =>
            rollup[p].stage \in Rolls /\ rollup[p].at = keyResult[k].objective
    BY DEF WritesResult, Restarts, Rolls
  <2> QED BY <1>3, <2>1 DEF ResultsOf
<1> QED BY <1>1, <1>2, <1>3, OneReads

LEMMA WriteUpdateHolds ==
    ASSUME OkrInv, NEW p \in Planners, WriteUpdate(p) PROVE OkrInv'
<1> USE DEF OkrInv, OkrShapes, OkrRefers
<1>1. PICK q : q = rollup[p]
  OBVIOUS
<1>2. q.stage = "update" /\ RollupShape(q) /\ SoundRead(q) /\ q.stage \notin Rolls
  BY <1>1 DEF WriteUpdate, Requested, ReadsSound, Rolls
<1>3. PICK k \in KeyResults, o \in Objectives : k = q.key /\ o = q.at
  BY <1>2 DEF RollupShape, RollsUp, NoRollup, Rolls
<1>4. keyResult[k].row # "none" /\ keyResult[k].objective = o /\ Created(o)
  BY <1>2, <1>3 DEF SoundRead, ResultsRefer
<1>5. CASE keyResult[k].row = "gone"
  <2>1. rollup' = [rollup EXCEPT ![p] = NoRollup] /\ UNCHANGED <<objective, keyResult, stale>>
    BY <1>1, <1>3, <1>5 DEF WriteUpdate, Moves
  <2> QED BY <1>1, <1>2, <2>1, OneEnds
<1>6. CASE keyResult[k].row # "gone"
  <2>0. keyResult[k].row = "there"
    BY <1>4, <1>6 DEF ResultRows
  <2>1. PICK v, x : v = Merge(keyResult[k].values, q.dto) /\ x = q.progress
    OBVIOUS
  <2>2. /\ objective' = objective /\ stale' = stale \ {k}
        /\ keyResult' = [keyResult EXCEPT ![k].values = v, ![k].progress = x]
        /\ rollup' = [Outdates(rollup, o, ResultsRead) EXCEPT ![p] = Rollup(o, {})]
    BY <1>1, <1>3, <1>6, <2>1 DEF WriteUpdate
  <2>3. /\ \A j \in KeyResults \ {k} : keyResult'[j] = keyResult[j]
        /\ keyResult'[k] = [row |-> "there", objective |-> o, values |-> v, progress |-> x]
        /\ ResultRows'
    <3>1. keyResult' = [keyResult EXCEPT ![k] = [row |-> "there", objective |-> o, values |-> v, progress |-> x]]
      <4>1. keyResult[k] = [row |-> "there", objective |-> o, values |-> keyResult[k].values,
                            progress |-> keyResult[k].progress]
        BY <1>4, <2>0 DEF ResultRows
      <4>2. PICK n : n = [keyResult[k] EXCEPT !.values = v]
        OBVIOUS
      <4>3. n = [row |-> "there", objective |-> o, values |-> v, progress |-> keyResult[k].progress]
        BY <4>1, <4>2
      <4>4. [n EXCEPT !.progress = x] = [row |-> "there", objective |-> o, values |-> v, progress |-> x]
        BY <4>3
      <4>5. [keyResult[k] EXCEPT !.values = v, !.progress = x]
            = [row |-> "there", objective |-> o, values |-> v, progress |-> x]
        BY <4>2, <4>4
      <4>6. k \in DOMAIN keyResult
        BY DEF ResultRows
      <4> QED BY <2>2, <4>5, <4>6
    <3> QED BY <3>1 DEF ResultRows
  <2>4. /\ rollup' = [i \in Planners |-> rollup'[i]] /\ rollup'[p] = Rollup(o, {})
        /\ \A i \in Planners \ {p} : rollup'[i] = Outdates(rollup, o, ResultsRead)[i]
    BY <2>2 DEF Outdates
  <2>5. RollupShape(rollup'[p]) /\ Restarts(rollup'[p], o)
    BY <2>4, NewRollup DEF Restarts
  <2>6. SoundRead(rollup[p])'
    BY <2>4, NewRollup DEF SoundRead
  <2>7. rollup[p].stage \notin Rolls
    BY <1>1, <1>2
  <2>8. /\ keyResult'[k].row # "none" /\ keyResult'[k].objective = o
        /\ objective' = objective /\ stale \subseteq stale' \cup {k} /\ keyResult[k].objective = o
    BY <1>4, <2>2, <2>3
  <2> QED BY <1>4, <2>3, <2>4, <2>5, <2>6, <2>7, <2>8, ResultsChange
<1> QED BY <1>5, <1>6

LEMMA AbortHolds ==
    ASSUME OkrInv, NEW p \in Planners, Aborts(p), UNCHANGED <<objective, keyResult>> PROVE OkrInv'
<1>1. rollup' = [rollup EXCEPT ![p] = NoRollup] /\ stale \subseteq stale'
  BY DEF Aborts, Moves
<1>2. rollup[p].stage \in Rolls => rollup[p].at \in stale' /\ ResultsOf(rollup[p].at) \subseteq stale'
  BY DEF Aborts, Rolls
<1> QED BY <1>1, <1>2, OneEnds

LEMMA SyncOneHolds ==
    ASSUME OkrInv, NEW p \in Planners, NEW k \in KeyResults, NEW v, SyncOne(p, k, v) PROVE OkrInv'
<1> USE DEF OkrInv, OkrShapes, OkrRefers
<1>1. CASE v # None /\ keyResult[k].row = "gone"
  BY <1>1, AbortHolds DEF SyncOne
<1>2. CASE ~(v # None /\ keyResult[k].row = "gone")
  <2>1. PICK q : q = rollup[p]
    OBVIOUS
  <2>2. RollupShape(q) /\ q.stage = "sync" /\ SoundRead(q) /\ k \in q.todo /\ ~q.outdated /\ q.visited = {}
    BY <2>1 DEF SyncOne, Requested, ReadsSound, SoundRead
  <2>3. RollsUp(q)
    BY <2>2 DEF RollupShape, RollsUp, NoRollup
  <2>4. PICK o \in Objectives : o = q.at
    BY <2>3 DEF RollsUp
  <2>5. keyResult[k].row # "none" /\ keyResult[k].objective = o /\ Created(o)
    BY <2>2, <2>4 DEF SoundRead, ResultsRefer
  <2>6. /\ objective' = objective /\ stale' = stale
        /\ keyResult' = IF v = None THEN keyResult ELSE [keyResult EXCEPT ![k].values.current = v]
        /\ rollup' = [Outdates(rollup, o, ResultsRead) EXCEPT ![p].todo = @ \ {k}]
    BY <1>2, <2>1, <2>4 DEF SyncOne
  <2>7. Outdates(rollup, o, ResultsRead)[p] = q
    BY <2>1, <2>2 DEF Outdates, ResultsRead
  <2>8. PICK n : n = [q EXCEPT !.todo = @ \ {k}]
    OBVIOUS
  <2>9. /\ rollup' = [i \in Planners |-> rollup'[i]] /\ rollup'[p] = n
        /\ \A i \in Planners \ {p} : rollup'[i] = Outdates(rollup, o, ResultsRead)[i]
    BY <2>6, <2>7, <2>8 DEF Outdates
  <2>10. /\ n.stage = "sync" /\ n.at = o /\ ~n.outdated /\ n.visited = {} /\ n.todo \subseteq q.todo
         /\ RollsUp(n)
    BY <2>2, <2>3, <2>4, <2>8 DEF RollsUp
  <2>11. RollupShape(n) /\ Restarts(n, o)
    BY <2>10 DEF RollupShape, RollsUp, Restarts
  <2>12. /\ \A j \in KeyResults \ {k} : keyResult'[j] = keyResult[j]
         /\ keyResult'[k].row # "none" /\ keyResult'[k].objective = o
         /\ \A j \in KeyResults : keyResult'[j].row = keyResult[j].row /\ keyResult'[j].objective = keyResult[j].objective
         /\ ResultRows'
    <3>1. CASE v = None
      BY <2>5, <2>6, <3>1 DEF ResultRows
    <3>2. CASE v # None
      BY <2>5, <2>6, <3>2 DEF ResultRows
    <3> QED BY <3>1, <3>2
  <2>13. SoundRead(rollup[p])'
    <3>1. \A j \in n.todo : keyResult'[j].row # "none" /\ keyResult'[j].objective = o
      BY <2>2, <2>3, <2>4, <2>10, <2>12 DEF RollsUp, SoundRead
    <3>2. SoundRead(n)'
      BY <2>10, <3>1 DEF SoundRead
    <3> QED BY <2>9, <3>2 DEF SoundRead
  <2>14. rollup[p].at = o
    BY <2>1, <2>4
  <2> QED BY <2>5, <2>6, <2>9, <2>11, <2>12, <2>13, <2>14, ResultsChange
<1> QED BY <1>1, <1>2

LEMMA LoadObjectiveHolds ==
    ASSUME OkrInv, NEW p \in Planners, LoadObjective(p) PROVE OkrInv'
<1> USE DEF OkrInv, OkrShapes
<1>1. PICK q : q = rollup[p]
  OBVIOUS
<1>2. q.stage = "load" /\ SoundRead(q) /\ ~q.outdated /\ RollupShape(q) /\ UNCHANGED <<objective, keyResult>>
  BY <1>1 DEF LoadObjective, ReadsSound, Requested, SoundRead
<1>3. RollsUp(q)
  BY <1>2 DEF RollupShape, RollsUp, NoRollup
<1>4. CASE StopsAt(q)
  <2>1. rollup' = [rollup EXCEPT ![p] = NoRollup] /\ stale' = stale \cup {q.at}
    BY <1>1, <1>4 DEF LoadObjective, Moves
  <2>2. q.visited # {}
    <3>1. MaxRollupDepth \in Nat
      BY OkrsAssumption
    <3> QED BY <1>4, <3>1, FS_EmptySet DEF StopsAt
  <2>3. \A k : ~WritesResult(q, k, q.at)
    BY <1>2, <2>2 DEF WritesResult, Restarts
  <2> QED BY <1>1, <1>2, <2>1, <2>3, OneEnds
<1>5. CASE ~StopsAt(q) /\ ~Exists(q.at)
  <2>1. rollup' = [rollup EXCEPT ![p] = NoRollup] /\ stale' = stale
    BY <1>1, <1>5 DEF LoadObjective, Moves
  <2> QED BY <1>1, <1>2, <1>5, <2>1, OneEnds
<1>6. CASE ~StopsAt(q) /\ Exists(q.at)
  <2>1. PICK o \in Objectives : o = q.at
    BY <1>3 DEF RollsUp
  <2>2. PICK up \in Objectives \cup {None} : up = objective[o].parent
    BY DEF ObjectiveRows
  <2>3. PICK krs : krs = ResultsProgress(o)
    OBVIOUS
  <2>4. PICK v : v = q.visited \cup {o}
    OBVIOUS
  <2>5. PICK t : t = {k \in DOMAIN krs : krs[k].progress # keyResult[k].progress}
    OBVIOUS
  <2>6. PICK n : n = [q EXCEPT !.stage = "drift", !.up = up, !.krs = krs, !.visited = v, !.todo = t]
    OBVIOUS
  <2>7. DOMAIN krs = ResultsOf(o) /\ \A k \in ResultsOf(o) : krs[k].progress = KeyResultProgress(keyResult[k].values)
    BY <2>3 DEF ResultsProgress, Result
  <2>8. RollsUp(n) /\ n.stage = "drift" /\ n.at = o /\ n.krs = krs /\ n.todo = t /\ ~n.outdated
    <3>1. RollsUp(q) /\ q.at = o /\ ~q.outdated
      BY <1>2, <1>3, <2>1 DEF RollsUp
    <3>2. PICK a : a = [q EXCEPT !.stage = "drift"]
      OBVIOUS
    <3>3. PICK b : b = [a EXCEPT !.up = up]
      OBVIOUS
    <3>4. PICK c : c = [b EXCEPT !.krs = krs]
      OBVIOUS
    <3>5. PICK d : d = [c EXCEPT !.visited = v]
      OBVIOUS
    <3>6. n = [d EXCEPT !.todo = t]
      BY <2>6, <3>2, <3>3, <3>4, <3>5
    <3>7. RollsUp(a) /\ a.stage = "drift" /\ a.at = o /\ ~a.outdated
      BY <3>1, <3>2 DEF RollsUp, Rolls
    <3>8. RollsUp(b) /\ b.stage = "drift" /\ b.at = o /\ ~b.outdated
      BY <3>3, <3>7 DEF RollsUp
    <3>9. RollsUp(c) /\ c.stage = "drift" /\ c.at = o /\ ~c.outdated /\ c.krs = krs
      BY <3>4, <3>8 DEF RollsUp
    <3>10. RollsUp(d) /\ d.stage = "drift" /\ d.at = o /\ ~d.outdated /\ d.krs = krs
      BY <3>5, <3>9 DEF RollsUp
    <3>11. t \subseteq KeyResults
      BY <2>5, <2>7 DEF ResultsOf
    <3> QED BY <3>6, <3>10, <3>11 DEF RollsUp
  <2>9. rollup' = [rollup EXCEPT ![p] = n] /\ stale' = stale
    BY <1>1, <1>6, <2>1, <2>2, <2>3, <2>4, <2>5, <2>6 DEF LoadObjective, Moves
  <2>10. t \subseteq ResultsOf(o) /\ t \subseteq KeyResults
    BY <2>5, <2>7 DEF ResultsOf
  <2>11. RollupShape(n) /\ SoundRead(n)
    BY <2>3, <2>8, <2>10 DEF RollsUp, RollupShape, Rolls, SoundRead, ResultsOf
  <2>12. ASSUME NEW k \in KeyResults, keyResult[k].row = "there", WritesResult(q, k, keyResult[k].objective)
         PROVE  \/ keyResult[k].progress = KeyResultProgress(keyResult[k].values)
                \/ WritesResult(n, k, keyResult[k].objective)
    <3>1. keyResult[k].objective = o
      BY <1>2, <2>1, <2>12 DEF WritesResult, Restarts
    <3>2. k \in ResultsOf(o)
      BY <2>12, <3>1 DEF ResultsOf
    <3> QED BY <2>5, <2>7, <2>8, <3>1, <3>2 DEF WritesResult
  <2>13. \A c : WritesObjective(q, c) => WritesObjective(n, c)
    BY <2>1, <2>8 DEF WritesObjective, Rolls
  <2>14. n.stage \notin Aligns
    BY <2>8 DEF Aligns
  <2> QED BY <1>1, <1>2, <2>9, <2>11, <2>12, <2>13, <2>14, OneReads
<1> QED BY <1>4, <1>5, <1>6

LEMMA WriteDriftHolds ==
    ASSUME OkrInv, NEW p \in Planners, NEW k \in KeyResults, WriteDrift(p, k) PROVE OkrInv'
<1> USE DEF OkrInv, OkrShapes
<1>1. CASE keyResult[k].row = "gone"
  BY <1>1, AbortHolds DEF WriteDrift
<1>2. CASE keyResult[k].row # "gone"
  <2>1. PICK q : q = rollup[p]
    OBVIOUS
  <2>2. RollupShape(q) /\ q.stage = "drift" /\ SoundRead(q) /\ k \in q.todo
    BY <2>1 DEF WriteDrift, Requested, ReadsSound
  <2>3. RollsUp(q)
    BY <2>2 DEF RollupShape, RollsUp, NoRollup
  <2>4. PICK n : n = [q EXCEPT !.todo = @ \ {k}]
    OBVIOUS
  <2>5. /\ objective' = objective /\ rollup' = [rollup EXCEPT ![p] = n]
        /\ keyResult' = [keyResult EXCEPT ![k].progress = q.krs[k].progress]
        /\ stale' = IF q.outdated THEN stale \cup {k} ELSE stale \ {k}
    BY <1>2, <2>1, <2>4 DEF WriteDrift, Moves
  <2>6. /\ n.stage = "drift" /\ n.at = q.at /\ n.outdated = q.outdated /\ n.krs = q.krs /\ n.todo = q.todo \ {k}
        /\ RollsUp(n)
    BY <2>2, <2>3, <2>4 DEF RollsUp
  <2>7. RollupShape(n)
    BY <2>6 DEF RollupShape, RollsUp
  <2>8. /\ ResultRows' /\ keyResult'[k].progress = q.krs[k].progress
        /\ \A j \in KeyResults \ {k} : keyResult'[j] = keyResult[j]
        /\ \A j \in KeyResults : /\ keyResult'[j].row = keyResult[j].row
                                 /\ keyResult'[j].objective = keyResult[j].objective
                                 /\ keyResult'[j].values = keyResult[j].values
    BY <2>5 DEF ResultRows
  <2>9. ResultsProgress(q.at)' = ResultsProgress(q.at)
    <3>1. ResultsOf(q.at)' = ResultsOf(q.at)
      BY <2>8 DEF ResultsOf
    <3>2. \A j \in ResultsOf(q.at) : keyResult'[j].values = keyResult[j].values
      BY <2>8 DEF ResultsOf
    <3> QED BY <3>1, <3>2 DEF ResultsProgress
  <2>10. SoundRead(n)'
    <3>1. \A j \in n.todo : keyResult'[j].row # "none" /\ keyResult'[j].objective = n.at
      BY <2>2, <2>3, <2>6, <2>8 DEF RollsUp, SoundRead
    <3>2. ~n.outdated => n.krs = ResultsProgress(n.at)'
      BY <2>2, <2>6, <2>9 DEF SoundRead
    <3> QED BY <2>6, <3>1, <3>2 DEF SoundRead
  <2>11. LeavesResults({p}, {k})
    <3>1. \A j \in KeyResults \ {k} : j \in stale => j \in stale'
      BY <2>5
    <3>2. k \notin stale' => ResultShown(k)'
      <4>1. SUFFICES ASSUME ~q.outdated PROVE keyResult'[k].progress = KeyResultProgress(keyResult'[k].values)
        BY <2>5 DEF ResultShown
      <4>2. k \in ResultsOf(q.at) /\ q.krs = ResultsProgress(q.at)
        BY <1>2, <2>2, <4>1 DEF SoundRead, ResultsOf, ResultRows
      <4>3. q.krs[k].progress = KeyResultProgress(keyResult[k].values)
        BY <4>2 DEF ResultsProgress, Result
      <4> QED BY <2>8, <4>3
    <3>3. ASSUME NEW j \in KeyResults \ {k}, WritesResult(q, j, keyResult[j].objective)
          PROVE  ResultShown(j)'
      <4>1. WritesResult(n, j, keyResult[j].objective)
        BY <2>2, <2>6, <3>3 DEF WritesResult, Restarts
      <4>2. rollup'[p] = n
        BY <2>5 DEF Requested
      <4> QED BY <2>8, <4>1, <4>2 DEF ResultShown
    <3> QED BY <2>1, <2>8, <3>1, <3>2, <3>3 DEF LeavesResults
  <2>12. \A o : WritesObjective(q, o) => WritesObjective(n, o)
    BY <2>6 DEF WritesObjective, Rolls
  <2>13. \A o \in Objectives : o \in stale => o \in stale'
    BY <2>5, OkrsAssumption
  <2>14. n.stage \notin Aligns
    BY <2>6 DEF Aligns
  <2> QED BY <2>1, <2>5, <2>7, <2>8, <2>10, <2>11, <2>12, <2>13, <2>14, OneMoves
<1> QED BY <1>1, <1>2

LEMMA ReadChildrenHolds ==
    ASSUME OkrInv, NEW p \in Planners, ReadChildren(p) PROVE OkrInv'
<1> USE DEF OkrInv, OkrShapes
<1>1. PICK q : q = rollup[p]
  OBVIOUS
<1>2. RollupShape(q) /\ q.stage = "drift" /\ SoundRead(q) /\ q.todo = {}
  BY <1>1 DEF ReadChildren, Requested, ReadsSound
<1>3. RollsUp(q)
  BY <1>2 DEF RollupShape, RollsUp, NoRollup
<1>4. PICK x : x = ObjectiveProgress(q.krs, ChildrenProgress(q.at))
  OBVIOUS
<1>5. PICK a : a = [q EXCEPT !.stage = "write"]
  OBVIOUS
<1>6. PICK n : n = [a EXCEPT !.result = x]
  OBVIOUS
<1>7. rollup' = [rollup EXCEPT ![p] = n] /\ UNCHANGED <<objective, keyResult, stale>>
  <2>1. n = [q EXCEPT !.stage = "write", !.result = x]
    BY <1>5, <1>6
  <2> QED BY <1>1, <1>4, <2>1 DEF ReadChildren, Moves
<1>8. /\ n.stage = "write" /\ n.at = q.at /\ n.krs = q.krs /\ n.result = x
      /\ n.outdated = q.outdated
      /\ RollsUp(n)
  <2>1. /\ a.stage = "write" /\ a.at = q.at /\ a.krs = q.krs /\ a.outdated = q.outdated
        /\ RollsUp(a)
    BY <1>3, <1>5 DEF RollsUp, Rolls
  <2> QED BY <1>6, <2>1 DEF RollsUp
<1>9. RollupShape(n) /\ n.stage \notin Aligns
  BY <1>8 DEF RollupShape, RollsUp, Aligns
<1>10. SoundRead(n)
  BY <1>2, <1>4, <1>8 DEF SoundRead, ProgressOf
<1>11. \A k, c : ~WritesResult(q, k, c)
  BY <1>2 DEF WritesResult, Restarts
<1>12. \A c : WritesObjective(q, c) => WritesObjective(n, c)
  BY <1>8 DEF WritesObjective, Rolls
<1> QED BY <1>1, <1>7, <1>9, <1>10, <1>11, <1>12, OneReads

LEMMA ChildrenMarked ==
    ASSUME NEW rs, NEW o, NEW q \in Planners, RollupShape(rs[q])
    PROVE  Marked(Outdates(rs, o, ChildrenRead)[q], rs[q], {}, {o})
<1>1. ResultsRead # ChildrenRead
  BY DEF ResultsRead, ChildrenRead
<1>2. Marked(Outdates(rs, o, ChildrenRead)[q], rs[q],
             IF ChildrenRead = ResultsRead THEN {o} ELSE {}, IF ChildrenRead = ResultsRead THEN {} ELSE {o})
  BY OutdatesMarks
<1> QED BY <1>1, <1>2

\* Rows of objectives are written, and the children of C change.
LEMMA ChildrenChange ==
    ASSUME OkrInv, NEW A \in SUBSET Planners, NEW C, NEW O, keyResult' = keyResult, ObjectiveRows', ObjectivesRefer',
           rollup' = [q \in Planners |-> rollup'[q]],
           \A q \in Planners \ A : Marked(rollup'[q], rollup[q], {}, C),
           \A q \in A : RollupShape(rollup'[q]) /\ SoundRead(rollup[q])' /\ rollup'[q].stage \notin Aligns,
           \A o : Created(o) => Created(o)',
           \A o \in Objectives \ C : ChildrenProgress(o)' = ChildrenProgress(o),
           \A q \in A, k \in KeyResults : ~WritesResult(rollup[q], k, keyResult[k].objective),
           \A k \in KeyResults : k \in stale => k \in stale',
           LeavesObjectives(A, C, O)
    PROVE  OkrInv'
<1> USE DEF OkrInv, OkrShapes, OkrRefers
<1>1. Disturbs(A, {}, C)
  BY DEF Disturbs, ResultsProgress, ResultsOf
<1>2. OkrShapes'
  BY DEF Requested, Marked, ResultRows
<1>3. OkrRefers'
  <2>1. ResultsRefer'
    BY DEF ResultsRefer
  <2>2. ASSUME NEW q \in Planners, rollup'[q].stage \in Aligns
        PROVE  rollup'[q].up = None \/ Created(rollup[q].up)'
    <3>1. rollup'[q].up = None \/ Created(rollup'[q].up)
      BY <1>1, <2>2, MarkedAlignsRefer
    <3> QED BY <3>1 DEF Created
  <2>3. AlignsRefer'
    BY <2>2 DEF AlignsRefer
  <2> QED BY <2>1, <2>3
<1>4. LeavesResults(A, {})
  BY DEF LeavesResults
<1>5. ReadsSound' /\ ResultsFollow' /\ ObjectivesFollow'
  <2>1. Restarted({})
    BY DEF Restarted
  <2> QED BY <1>1, <1>4, <2>1, StepFollows
<1> QED BY <1>2, <1>3, <1>5

LEMMA CreateObjectiveHolds ==
    ASSUME OkrInv, NEW o \in Objectives, NEW up \in Objectives \cup {None}, CreateObjective(o, up)
    PROVE  OkrInv'
<1> USE DEF OkrInv, OkrShapes, OkrRefers
<1>1. /\ objective[o].row = "none" /\ (up = None \/ Exists(up)) /\ up # o /\ keyResult' = keyResult
      /\ objective' = [objective EXCEPT ![o] = [row |-> "there", parent |-> up, progress |-> Zero]]
      /\ stale' = stale \cup ({up} \ {None})
      /\ rollup' = Outdates(rollup, up, ChildrenRead)
  BY OkrsAssumption DEF CreateObjective, Exists
<1>2. /\ \A c \in Objectives \ {o} : objective'[c] = objective[c]
      /\ objective'[o] = [row |-> "there", parent |-> up, progress |-> Zero]
      /\ ObjectiveRows'
  BY <1>1 DEF ObjectiveRows
<1>3. /\ \A c : Created(c)' <=> Created(c) \/ c = o
      /\ \A c : Exists(c)' <=> Exists(c) \/ c = o
      /\ ~Created(o) /\ ~Exists(o)
  BY <1>1, <1>2 DEF Created, Exists
<1>4. ObjectivesRefer'
  <2>1. up = None \/ Created(up)
    BY <1>1 DEF Exists, Created
  <2> QED BY <1>2, <1>3, <2>1 DEF ObjectivesRefer
<1>5. \A q \in Planners : Marked(rollup'[q], rollup[q], {}, {up})
  BY <1>1, ChildrenMarked DEF Requested
<1>6. rollup' = [q \in Planners |-> rollup'[q]]
  BY <1>1 DEF Outdates
<1>7. ASSUME NEW c \in Objectives \ {up} PROVE ChildrenProgress(c)' = ChildrenProgress(c)
  <2>1. ChildrenOf(c)' = ChildrenOf(c) /\ o \notin ChildrenOf(c)
    BY <1>2, <1>3, <1>7 DEF ChildrenOf
  <2>2. \A d \in ChildrenOf(c) : objective'[d].progress = objective[d].progress
    BY <1>2, <2>1 DEF ChildrenOf
  <2> QED BY <2>1, <2>2 DEF ChildrenProgress
<1>8. ProgressOf(o)' = Zero
  <2>1. ResultsOf(o)' = {}
    BY <1>1, <1>3 DEF ResultsOf, ResultsRefer
  <2>2. ChildrenOf(o) = {}
    BY <1>3, OkrsAssumption DEF ChildrenOf, ObjectivesRefer
  <2>3. DOMAIN ResultsProgress(o)' = {}
    BY <2>1 DEF ResultsProgress
  <2>4. DOMAIN ChildrenProgress(o)' = {}
    BY <1>1, <1>7, <2>2 DEF ChildrenProgress
  <2> QED BY <2>3, <2>4, NothingProgresses DEF ProgressOf
<1>9. LeavesObjectives({}, {up}, {o})
  <2>1. ObjectiveShown(o)'
    BY <1>2, <1>8 DEF ObjectiveShown
  <2>2. up \in Objectives => up \in stale'
    BY <1>1, OkrsAssumption
  <2> QED BY <1>1, <1>2, <1>3, <2>1, <2>2 DEF LeavesObjectives
<1> QED BY <1>1, <1>2, <1>3, <1>4, <1>5, <1>6, <1>7, <1>9, ChildrenChange

LEMMA RemoveObjectiveHolds ==
    ASSUME OkrInv, NEW o \in Objectives, RemoveObjective(o) PROVE OkrInv'
<1> USE DEF OkrInv, OkrShapes, OkrRefers
<1>1. PICK up \in Objectives \cup {None} : up = objective[o].parent
  BY DEF ObjectiveRows
<1>2. /\ Exists(o) /\ keyResult' = keyResult
      /\ objective' = [objective EXCEPT ![o].row = "gone"]
      /\ stale' = stale \cup ({up} \ {None})
      /\ rollup' = Outdates(rollup, up, ChildrenRead)
  BY <1>1 DEF RemoveObjective
<1>3. /\ \A c \in Objectives \ {o} : objective'[c] = objective[c]
      /\ objective'[o] = [row |-> "gone", parent |-> up, progress |-> objective[o].progress]
      /\ ObjectiveRows'
  BY <1>1, <1>2 DEF ObjectiveRows
<1>4. /\ \A c : Created(c)' <=> Created(c)
      /\ \A c : Exists(c)' <=> Exists(c) /\ c # o
  BY <1>2, <1>3 DEF Created, Exists
<1>5. ObjectivesRefer'
  BY <1>3, <1>4 DEF ObjectivesRefer, Exists
<1>6. \A q \in Planners : Marked(rollup'[q], rollup[q], {}, {up})
  BY <1>2, ChildrenMarked DEF Requested
<1>7. rollup' = [q \in Planners |-> rollup'[q]]
  BY <1>2 DEF Outdates
<1>8. ASSUME NEW c \in Objectives \ {up} PROVE ChildrenProgress(c)' = ChildrenProgress(c)
  <2>1. ChildrenOf(c)' = ChildrenOf(c) /\ o \notin ChildrenOf(c)
    BY <1>1, <1>3, <1>4, <1>8 DEF ChildrenOf
  <2>2. \A d \in ChildrenOf(c) : objective'[d].progress = objective[d].progress
    BY <1>3, <2>1 DEF ChildrenOf
  <2> QED BY <2>1, <2>2 DEF ChildrenProgress
<1>9. LeavesObjectives({}, {up}, {})
  <2>1. up \in Objectives => up \in stale'
    BY <1>2, OkrsAssumption
  <2> QED BY <1>2, <1>3, <1>4, <2>1 DEF LeavesObjectives
<1> QED BY <1>2, <1>3, <1>4, <1>5, <1>6, <1>7, <1>8, <1>9, ChildrenChange

LEMMA WriteAlignHolds ==
    ASSUME OkrInv, NEW p \in Planners, WriteAlign(p) PROVE OkrInv'
<1> USE DEF OkrInv, OkrShapes, OkrRefers
<1>1. rollup[p].stage = "align" /\ rollup[p].stage \notin Rolls /\ RollupShape(rollup[p]) /\ keyResult' = keyResult
  BY DEF WriteAlign, Requested, Rolls
<1>2. rollup[p] \in [stage : {"climb", "align"}, at : Objectives, up : Objectives \cup {None},
                      cursor : {rollup[p].cursor}, visited : {rollup[p].visited}]
  BY <1>1 DEF RollupShape, RollsUp, NoRollup, Rolls
<1>3. PICK o \in Objectives, new \in Objectives \cup {None} :
          o = rollup[p].at /\ new = rollup[p].up /\ (new = None \/ Created(new))
  BY <1>1, <1>2 DEF AlignsRefer, Aligns
<1>4. PICK old \in Objectives \cup {None} : old = objective[o].parent
  BY DEF ObjectiveRows
<1>5. PICK idle : idle = [rollup EXCEPT ![p] = NoRollup]
  OBVIOUS
<1>6. CASE ~(Exists(o) /\ old # new)
  <2>1. rollup' = [rollup EXCEPT ![p] = NoRollup] /\ UNCHANGED <<objective, keyResult, stale>>
    BY <1>3, <1>4, <1>6 DEF WriteAlign
  <2> QED BY <1>1, <2>1, OneEnds
<1>7. CASE Exists(o) /\ old # new
  <2>1. /\ objective' = [objective EXCEPT ![o].parent = new]
        /\ stale' = stale \cup ({old, new} \ {None})
        /\ rollup' = Outdates(Outdates(idle, old, ChildrenRead), new, ChildrenRead)
    BY <1>3, <1>4, <1>5, <1>7 DEF WriteAlign
  <2>2. /\ \A c \in Objectives \ {o} : objective'[c] = objective[c]
        /\ objective'[o] = [row |-> "there", parent |-> new, progress |-> objective[o].progress]
        /\ ObjectiveRows'
    BY <1>7, <2>1 DEF ObjectiveRows, Exists
  <2>3. \A c : (Created(c)' <=> Created(c)) /\ (Exists(c)' <=> Exists(c))
    BY <1>7, <2>2 DEF Created, Exists
  <2>4. ObjectivesRefer'
    BY <1>3, <2>2, <2>3 DEF ObjectivesRefer
  <2>5. /\ idle[p] = NoRollup /\ \A q \in Planners \ {p} : idle[q] = rollup[q]
        /\ \A q \in Planners : RollupShape(idle[q])
    BY <1>5 DEF Requested, RollupShape, RollsUp
  <2>6. ASSUME NEW q \in Planners
        PROVE  Marked(rollup'[q], idle[q], {}, {old, new})
    <3>1. PICK first, second, third : first = idle[q] /\ second = Outdates(idle, old, ChildrenRead)[q] /\ third = rollup'[q]
      OBVIOUS
    <3>2. Marked(second, first, {}, {old})
      BY <2>5, <3>1, ChildrenMarked
    <3>3. Marked(third, second, {}, {new})
      BY <2>1, <3>1, <3>2, ChildrenMarked DEF Marked
    <3>4. Marked(third, first, {}, {old, new})
      BY <3>2, <3>3 DEF Marked
    <3> QED BY <3>1, <3>4
  <2>7. rollup' = [q \in Planners |-> rollup'[q]]
    BY <2>1 DEF Outdates
  <2>8. RollupShape(rollup'[p]) /\ SoundRead(rollup[p])' /\ rollup'[p].stage \notin Aligns
    <3>1. rollup'[p] = NoRollup
      BY <2>5, <2>6 DEF Marked, NoRollup, Rolls
    <3>2. SoundRead(NoRollup)' /\ RollupShape(NoRollup) /\ NoRollup.stage \notin Aligns
      BY DEF SoundRead, RollupShape, RollsUp, NoRollup, Aligns
    <3> QED BY <3>1, <3>2 DEF SoundRead
  <2>9. ASSUME NEW c \in Objectives \ {old, new} PROVE ChildrenProgress(c)' = ChildrenProgress(c)
    <3>1. ChildrenOf(c)' = ChildrenOf(c) /\ o \notin ChildrenOf(c)
      BY <1>4, <2>2, <2>3, <2>9 DEF ChildrenOf
    <3>2. \A d \in ChildrenOf(c) : objective'[d].progress = objective[d].progress
      BY <2>2, <3>1 DEF ChildrenOf
    <3> QED BY <3>1, <3>2 DEF ChildrenProgress
  <2>10. \A k, c : ~WritesResult(rollup[p], k, c) /\ ~WritesObjective(rollup[p], c)
    BY <1>1 DEF WritesResult, WritesObjective, Restarts, Rolls
  <2>11. LeavesObjectives({p}, {old, new}, {})
    <3>1. \A c \in Objectives : c \in {old, new} => c \in stale'
      BY <2>1, OkrsAssumption
    <3> QED BY <2>1, <2>2, <2>3, <2>10, <3>1 DEF LeavesObjectives
  <2>12. /\ \A q \in Planners \ {p} : Marked(rollup'[q], rollup[q], {}, {old, new})
         /\ \A k \in KeyResults : k \in stale => k \in stale'
    BY <2>1, <2>5, <2>6
  <2> QED BY <1>1, <2>2, <2>3, <2>4, <2>7, <2>8, <2>9, <2>10, <2>11, <2>12, ChildrenChange
<1> QED BY <1>6, <1>7

LEMMA WriteProgressHolds ==
    ASSUME OkrInv, NEW p \in Planners, WriteProgress(p) PROVE OkrInv'
<1> USE DEF OkrInv, OkrShapes, OkrRefers
<1>1. PICK q : q = rollup[p]
  OBVIOUS
<1>2. RollupShape(q) /\ q.stage = "write" /\ SoundRead(q) /\ keyResult' = keyResult
  BY <1>1 DEF WriteProgress, Requested, ReadsSound
<1>3. RollsUp(q)
  BY <1>2 DEF RollupShape, RollsUp, NoRollup
<1>4. PICK o \in Objectives, up \in Objectives \cup {None} : o = q.at /\ up = q.up
  BY <1>3 DEF RollsUp
<1>5. PICK above \in Objectives \cup {None} : above = objective[o].parent
  BY DEF ObjectiveRows
<1>6. CASE ~Exists(o)
  BY <1>1, <1>2, <1>4, <1>6, AbortHolds DEF WriteProgress
<1>7. CASE Exists(o)
  <2>1. PICK n : n = IF up = None THEN NoRollup ELSE Rollup(up, q.visited)
    OBVIOUS
  <2>2. /\ objective' = [objective EXCEPT ![o].progress = q.result]
        /\ stale' = (IF q.outdated THEN stale \cup {o} ELSE stale \ {o})
                    \cup (IF above # up THEN {above} \ {None} ELSE {})
        /\ rollup' = [Outdates(rollup, above, ChildrenRead) EXCEPT ![p] = n]
    BY <1>1, <1>4, <1>5, <1>7, <2>1 DEF WriteProgress, ClimbsTo
  <2>3. /\ \A c \in Objectives \ {o} : objective'[c] = objective[c]
        /\ objective'[o] = [row |-> "there", parent |-> above, progress |-> q.result]
        /\ ObjectiveRows'
    BY <1>5, <1>7, <2>2 DEF ObjectiveRows, Exists
  <2>4. \A c : (Created(c)' <=> Created(c)) /\ (Exists(c)' <=> Exists(c))
    BY <1>7, <2>3 DEF Created, Exists
  <2>5. ObjectivesRefer'
    BY <1>5, <1>7, <2>3, <2>4 DEF ObjectivesRefer
  <2>6. /\ rollup' = [i \in Planners |-> rollup'[i]] /\ rollup'[p] = n
        /\ \A i \in Planners \ {p} : rollup'[i] = Outdates(rollup, above, ChildrenRead)[i]
    BY <2>2 DEF Outdates
  <2>7. \A i \in Planners \ {p} : Marked(rollup'[i], rollup[i], {}, {above})
    BY <2>6, OthersMarked
  <2>8. RollupShape(n) /\ n.stage \notin Aligns /\ SoundRead(n)' /\ (up # None => WritesObjective(n, up))
    <3>1. CASE up = None
      <4>1. n = NoRollup
        BY <2>1, <3>1
      <4> QED BY <3>1, <4>1 DEF RollupShape, RollsUp, SoundRead, NoRollup, Aligns
    <3>2. CASE up # None
      <4>1. RollupShape(n) /\ n.stage = "load" /\ n.at = up /\ ~n.outdated /\ n.stage \in Rolls
        BY <2>1, <3>2, NewRollup
      <4> QED BY <4>1 DEF SoundRead, WritesObjective, Aligns
    <3> QED BY <3>1, <3>2
  <2>9. SoundRead(rollup[p])'
    BY <2>6, <2>8 DEF SoundRead
  <2>10. ASSUME NEW c \in Objectives \ {above} PROVE ChildrenProgress(c)' = ChildrenProgress(c)
    <3>1. ChildrenOf(c)' = ChildrenOf(c) /\ o \notin ChildrenOf(c)
      BY <1>5, <2>3, <2>4, <2>10 DEF ChildrenOf
    <3>2. \A d \in ChildrenOf(c) : objective'[d].progress = objective[d].progress
      BY <2>3, <3>1 DEF ChildrenOf
    <3> QED BY <3>1, <3>2 DEF ChildrenProgress
  <2>11. \A k, c : ~WritesResult(q, k, c)
    BY <1>2 DEF WritesResult, Restarts
  <2>12. above \in Objectives /\ above \notin stale' => ObjectiveShown(above)'
    <3>1. SUFFICES ASSUME above \in Objectives, above \notin stale' PROVE WritesObjective(rollup'[p], above)
      BY DEF ObjectiveShown
    <3>2. above = up /\ up # None
      BY <2>2, <3>1, OkrsAssumption
    <3> QED BY <2>6, <2>8, <3>2
  <2>13. o # above /\ o \notin stale' => ObjectiveShown(o)'
    <3>1. SUFFICES ASSUME o # above, o \notin stale' PROVE objective'[o].progress = ProgressOf(o)'
      BY DEF ObjectiveShown
    <3>2. ~q.outdated
      BY <2>2, <3>1
    <3>3. q.result = ProgressOf(o)
      BY <1>2, <1>4, <3>2 DEF SoundRead
    <3>4. ChildrenProgress(o)' = ChildrenProgress(o) /\ ResultsProgress(o)' = ResultsProgress(o)
      BY <1>2, <2>10, <3>1 DEF ResultsProgress, ResultsOf
    <3> QED BY <2>3, <3>3, <3>4 DEF ProgressOf
  <2>14. LeavesObjectives({p}, {above}, {o})
    <3>1. \A c : WritesObjective(q, c) => c = o
      BY <1>4 DEF WritesObjective
    <3>2. \A c \in Objectives \ {o} : c \in stale => c \in stale'
      BY <2>2
    <3> QED BY <1>1, <2>3, <2>4, <2>12, <2>13, <3>1, <3>2 DEF LeavesObjectives
  <2>15. \A k \in KeyResults : k \in stale => k \in stale'
    BY <2>2, OkrsAssumption
  <2> QED BY <1>1, <1>2, <2>3, <2>4, <2>5, <2>6, <2>7, <2>8, <2>9, <2>10, <2>11, <2>14, <2>15, ChildrenChange
<1> QED BY <1>6, <1>7

LEMMA OkrInvInit == OkrInit => OkrInv
<1> SUFFICES ASSUME OkrInit PROVE OkrInv
  OBVIOUS
<1>1. /\ objective \in [Objectives -> [row : {"none", "there"}, parent : Objectives \cup {None},
                                       progress : {Zero}]]
      /\ rollup = [p \in Planners |-> NoRollup]
  BY DEF OkrInit
<1>0. PICK shown \in [KeyResults -> [row : {"none", "there"}, objective : Objectives \cup {None}]] :
          keyResult = [k \in KeyResults |-> [row |-> shown[k].row, objective |-> shown[k].objective,
                                             values |-> CreatedWith(k, None), progress |-> Zero]]
  BY DEF OkrInit
<1>2. ObjectiveRows
  BY <1>1 DEF ObjectiveRows
<1>3. ResultRows
  BY <1>0 DEF ResultRows
<1>4. Requested
  BY <1>1 DEF Requested, RollupShape, RollsUp
<1>5. OkrRefers
  <2>1. ResultsRefer
    BY <1>0, <1>1 DEF OkrInit, ResultsRefer, Created, Exists
  <2>2. ObjectivesRefer
    BY <1>1 DEF OkrInit, ObjectivesRefer, Created, Exists
  <2>3. AlignsRefer
    BY <1>1 DEF AlignsRefer, NoRollup, Aligns
  <2> QED BY <2>1, <2>2, <2>3 DEF OkrRefers
<1>6. ReadsSound
  BY <1>1 DEF ReadsSound, SoundRead, NoRollup
<1>7. ResultsFollow
  <2>1. \A k \in KeyResults : keyResult[k].values.current = None /\ keyResult[k].progress = Zero
    BY <1>0 DEF CreatedWith
  <2> QED BY <2>1, NoValueNoProgress DEF ResultsFollow
<1>8. ObjectivesFollow
  BY DEF OkrInit, ObjectivesFollow
<1> QED BY <1>2, <1>3, <1>4, <1>5, <1>6, <1>7, <1>8 DEF OkrInv, OkrShapes

LEMMA OkrInvStep == OkrInv /\ [OkrNext]_okrVars => OkrInv'
<1>1. ASSUME OkrInv, NEW p \in Planners, NEW k \in KeyResults,
             \/ RemoveKeyResult(p, k) \/ WriteDrift(p, k)
             \/ \E dto \in Updates : UpdateKeyResult(p, k, dto)
             \/ \E v \in Currents, o \in Objectives : CreateKeyResult(p, k, o, v)
             \/ \E v \in Currents \cup {None} : SyncOne(p, k, v)
      PROVE  OkrInv'
  BY <1>1, RemoveKeyResultHolds, WriteDriftHolds, UpdateKeyResultHolds, CreateKeyResultHolds, SyncOneHolds
<1>2. ASSUME OkrInv, NEW p \in Planners,
             \/ WriteUpdate(p) \/ ClimbAlign(p) \/ WriteAlign(p) \/ SyncDone(p) \/ LoadObjective(p) \/ ReadChildren(p)
             \/ WriteProgress(p) \/ OkrGiveUp(p)
             \/ \E o \in Objectives : BeginSync(p, o)
             \/ \E o \in Objectives, up \in Objectives \cup {None} : BeginAlign(p, o, up)
      PROVE  OkrInv'
  <2>1. OkrGiveUp(p) => Aborts(p) /\ UNCHANGED <<objective, keyResult>>
    BY DEF OkrGiveUp
  <2> QED BY <1>2, <2>1, WriteUpdateHolds, ClimbAlignHolds, WriteAlignHolds, SyncDoneHolds, LoadObjectiveHolds, ReadChildrenHolds,
             WriteProgressHolds, AbortHolds, BeginSyncHolds, BeginAlignHolds
<1>3. ASSUME OkrInv, NEW o \in Objectives,
             RemoveObjective(o) \/ \E up \in Objectives \cup {None} : CreateObjective(o, up)
      PROVE  OkrInv'
  BY <1>3, RemoveObjectiveHolds, CreateObjectiveHolds
<1>4. ASSUME OkrInv, UNCHANGED okrVars PROVE OkrInv'
  <2>1. UNCHANGED <<objective, keyResult, rollup, stale>>
    BY <1>4 DEF okrVars
  <2>2. OkrShapes' /\ OkrRefers'
    BY <1>4, <2>1 DEF OkrInv, OkrShapes, OkrRefers, Requested, ObjectiveRows, ResultRows, ResultsRefer,
                      ObjectivesRefer, AlignsRefer, Created, Exists
  <2>3. \A c : ResultsProgress(c)' = ResultsProgress(c) /\ ProgressOf(c)' = ProgressOf(c)
    BY <2>1 DEF ResultsProgress, ResultsOf, ProgressOf, ChildrenProgress, ChildrenOf, Exists
  <2>4. ReadsSound' /\ ResultsFollow' /\ ObjectivesFollow'
    BY <1>4, <2>1, <2>3 DEF OkrInv, ReadsSound, SoundRead, ResultsFollow, ObjectivesFollow, Exists
  <2> QED BY <2>2, <2>4 DEF OkrInv
<1> QED BY <1>1, <1>2, <1>3, <1>4 DEF OkrNext

(***************************************************************************)
(* Once every request has ended, key results show their values and         *)
(* objectives the mean of their key results and children, for any number   *)
(* of objectives, key results and requests, though the roll-up reads and   *)
(* writes in separate statements: recomputeObjectiveProgress of            *)
(* objectives.service.ts.                                                  *)
(***************************************************************************)
THEOREM ProgressSettles == OkrSpec => []ProgressFollowsResults
<1>1. OkrInv => ProgressFollowsResults
  <2> SUFFICES ASSUME OkrInv, \A p \in Planners : IsIdle(p)
               PROVE  /\ \A k \in KeyResults \ stale : (keyResult[k].row = "there" /\ Exists(keyResult[k].objective))
                             => keyResult[k].progress = KeyResultProgress(keyResult[k].values)
                      /\ \A o \in Objectives \ stale : Exists(o) => objective[o].progress = ProgressOf(o)
    BY DEF ProgressFollowsResults
  <2>1. \A p \in Planners : \A k, o : ~WritesResult(rollup[p], k, o) /\ ~WritesObjective(rollup[p], o)
    BY DEF IsIdle, NoRollup, WritesResult, WritesObjective, Restarts, Rolls
  <2> QED BY <2>1 DEF OkrInv, ResultsFollow, ObjectivesFollow
<1> QED BY <1>1, OkrInvInit, OkrInvStep, PTL DEF OkrSpec

(* Sums of fractions *)

\* The largest of some numbers up to n.
LEMMA LargestExists ==
    ASSUME NEW n \in Nat, NEW S \in SUBSET (0..n), S # {}
    PROVE  Max(S) \in S
<1> DEFINE R == {i \in Nat : \A Q \in SUBSET (0..i) : Q # {} => \E x \in Q : \A y \in Q : x >= y}
<1>1. 0 \in R
  <2>1. 0..0 = {0}
    OBVIOUS
  <2>2. ASSUME NEW Q \in SUBSET {0}, Q # {} PROVE \E x \in Q : \A y \in Q : x >= y
    <3>1. Q = {0}
      BY <2>2
    <3> QED BY <3>1
  <2> QED BY <2>1, <2>2
<1>2. ASSUME NEW i \in R PROVE i + 1 \in R
  <2> SUFFICES ASSUME NEW Q \in SUBSET (0..(i + 1)), Q # {} PROVE \E x \in Q : \A y \in Q : x >= y
    OBVIOUS
  <2>1. CASE i + 1 \in Q
    BY <2>1
  <2>2. CASE i + 1 \notin Q
    <3>1. Q \in SUBSET (0..i)
      BY <2>2
    <3> QED BY <3>1
  <2> QED BY <2>1, <2>2
<1>3. Nat \subseteq R
  <2> HIDE DEF R
  <2> QED BY <1>1, <1>2, FromZero
<1>4. n \in R
  BY <1>3
<1>5. \E x \in S : \A y \in S : x >= y
  BY <1>4
<1> QED BY <1>5 DEF Max

Positive == Nat \ {0}
Fractions == Nat \X Positive
Progresses == {f \in Fractions : f[1] <= f[2]}

LEMMA IsPair == \A f \in Fractions : \E n \in Nat, d \in Positive : f = <<n, d>>
BY DEF Fractions

\* Reducing a fraction divides both of its numbers.
LEMMA Reduces ==
    ASSUME NEW n \in Nat, NEW d \in Positive
    PROVE  \E x \in Nat, y \in Positive, g \in Positive : Fraction(n, d) = <<x, y>> /\ n = g * x /\ d = g * y
<1> DEFINE S == {i \in 1..d : n % i = 0 /\ d % i = 0}
           g == Max(S)
<1>1. 1 \in S /\ S \in SUBSET (0..d)
  BY DEF Positive
<1>2. g \in S
  BY <1>1, LargestExists DEF Positive
<1>3. Fraction(n, d) = <<n \div g, d \div g>>
  BY DEF Fraction
<1>4. PICK i \in 1..d : n % i = 0 /\ d % i = 0 /\ i = g
  BY <1>2
<1> HIDE DEF g
<1>5. i \in Positive /\ i \in Nat /\ d \in Nat
  BY DEF Positive
<1>6. n = i * (n \div i) /\ n \div i \in Nat
  BY <1>4, <1>5 DEF Positive
<1>7. d = i * (d \div i) /\ d \div i \in Nat
  BY <1>4, <1>5 DEF Positive
<1>8. d \div i # 0
  BY <1>5, <1>7 DEF Positive
<1> QED BY <1>3, <1>4, <1>5, <1>6, <1>7, <1>8 DEF Positive

LEMMA Scales ==
    ASSUME NEW g \in Positive, NEW x \in Nat, NEW y \in Nat, NEW c \in Nat, g * x <= (g * y) * c
    PROVE  x <= y * c
<1>1. (g * y) * c = g * (y * c)
  BY DEF Positive
<1>2. PICK z \in Nat : z = y * c
  OBVIOUS
<1>3. g \in Nat /\ g > 0 /\ g * x <= g * z
  BY <1>1, <1>2 DEF Positive
<1>4. x <= z
  BY <1>3
<1> QED BY <1>2, <1>4

\* A fraction that is at most c stays so.
LEMMA FractionBelow ==
    ASSUME NEW n \in Nat, NEW d \in Positive, NEW c \in Nat, n <= d * c
    PROVE  Fraction(n, d) \in Fractions /\ Fraction(n, d)[1] <= Fraction(n, d)[2] * c
<1>1. PICK x \in Nat, y \in Positive, g \in Positive : Fraction(n, d) = <<x, y>> /\ n = g * x /\ d = g * y
  BY Reduces
<1>2. x <= y * c
  BY <1>1, Scales DEF Positive
<1> QED BY <1>1, <1>2 DEF Fractions

LEMMA PlusBelow ==
    ASSUME NEW a \in Fractions, NEW b \in Fractions, NEW u \in Nat, NEW v \in Nat,
           a[1] <= a[2] * u, b[1] <= b[2] * v
    PROVE  Plus(a, b) \in Fractions /\ Plus(a, b)[1] <= Plus(a, b)[2] * (u + v)
<1>1. PICK m \in Nat, n \in Positive, p \in Nat, q \in Positive : a = <<m, n>> /\ b = <<p, q>>
  BY DEF Fractions
<1>2. m <= n * u /\ p <= q * v /\ n \in Nat /\ q \in Nat /\ n > 0 /\ q > 0
  BY <1>1 DEF Positive
<1>3. m * q <= (n * u) * q
  BY <1>2
<1>4. p * n <= (q * v) * n
  BY <1>2
<1>5. (n * u) * q = (n * q) * u /\ (q * v) * n = (n * q) * v
  BY <1>2
<1>6. (n * q) * (u + v) = (n * q) * u + (n * q) * v
  BY <1>2
<1>7. m * q + p * n <= (n * q) * (u + v)
  BY <1>2, <1>3, <1>4, <1>5, <1>6
<1>8. m * q + p * n \in Nat /\ n * q \in Positive /\ u + v \in Nat
  BY <1>2 DEF Positive
<1>9. Plus(a, b) = Fraction(m * q + p * n, n * q)
  BY <1>1 DEF Plus
<1> QED BY <1>7, <1>8, <1>9, FractionBelow

\* What an objective's mean takes of a key result.
Readable == [progress : Progresses, weight : Nat]

\* The sums of objectiveProgress: of the weights, and of as many ones.
LEMMA WeightsSum ==
    ASSUME NEW K \in SUBSET KeyResults, NEW krs \in [K -> Readable]
    PROVE  \E F : Terms(K, [k \in K |-> krs[k].weight], F)
                  /\ F[K] = MapThenSumSet(LAMBDA k : krs[k].weight, K)
<1> DEFINE w == [k \in K |-> krs[k].weight]
           G(g) == [s \in SUBSET K |-> IF s = {} THEN 0 ELSE krs[Chosen(s)].weight + g[s \ {Chosen(s)}]]
           sum == CHOOSE g : g = G(g)
<1>1. IsFiniteSet(K) /\ w \in [K -> Nat]
  BY OkrsAssumption, FS_Subset DEF OkrsAssumption, Readable
<1>2. MapThenSumSet(LAMBDA k : krs[k].weight, K) = sum[K]
  BY DEF MapThenSumSet, MapThenFoldSet, Chosen
<1>3. \A k \in K : w[k] = krs[k].weight
  OBVIOUS
<1> HIDE DEF w
<1>4. PICK F : Terms(K, w, F)
  BY <1>1, TermsExist
<1>5. \A T \in SUBSET K : T # {} => F[T] = krs[Chosen(T)].weight + F[T \ {Chosen(T)}]
  BY <1>3, <1>4, IsChosen DEF Terms, AnyTerm
<1>6. F = G(F)
  BY <1>4, <1>5 DEF Terms
<1> HIDE DEF G
<1>7. sum = G(sum)
  BY <1>6
<1> HIDE DEF sum
<1>8. /\ F[{}] = sum[{}]
      /\ \A T \in SUBSET K : T # {} => (F[T \ {Chosen(T)}] = sum[T \ {Chosen(T)}] => F[T] = sum[T])
  <2>1. \A T \in SUBSET K : F[T] = G(F)[T] /\ sum[T] = G(sum)[T]
    BY <1>6, <1>7
  <2> QED BY <2>1 DEF G
<1>9. F[K] = sum[K]
  BY <1>1, <1>8, SameFold DEF Chosen
<1> QED BY <1>2, <1>4, <1>9 DEF w, sum

LEMMA OnesSum ==
    ASSUME NEW K \in SUBSET KeyResults
    PROVE  \E F : Terms(K, [k \in K |-> 1], F) /\ F[K] = MapThenSumSet(LAMBDA k : 1, K)
<1> DEFINE w == [k \in K |-> 1]
           G(g) == [s \in SUBSET K |-> IF s = {} THEN 0 ELSE 1 + g[s \ {Chosen(s)}]]
           sum == CHOOSE g : g = G(g)
<1>1. IsFiniteSet(K) /\ w \in [K -> Nat]
  BY OkrsAssumption, FS_Subset DEF OkrsAssumption
<1>2. MapThenSumSet(LAMBDA k : 1, K) = sum[K]
  BY DEF MapThenSumSet, MapThenFoldSet, Chosen
<1>3. \A k \in K : w[k] = 1
  OBVIOUS
<1> HIDE DEF w
<1>4. PICK F : Terms(K, w, F)
  BY <1>1, TermsExist
<1>5. \A T \in SUBSET K : T # {} => F[T] = 1 + F[T \ {Chosen(T)}]
  BY <1>3, <1>4, IsChosen DEF Terms, AnyTerm
<1>6. F = G(F)
  BY <1>4, <1>5 DEF Terms
<1> HIDE DEF G
<1>7. sum = G(sum)
  BY <1>6
<1> HIDE DEF sum
<1>8. /\ F[{}] = sum[{}]
      /\ \A T \in SUBSET K : T # {} => (F[T \ {Chosen(T)}] = sum[T \ {Chosen(T)}] => F[T] = sum[T])
  <2>1. \A T \in SUBSET K : F[T] = G(F)[T] /\ sum[T] = G(sum)[T]
    BY <1>6, <1>7
  <2> QED BY <2>1 DEF G
<1>9. F[K] = sum[K]
  BY <1>1, <1>8, SameFold DEF Chosen
<1> QED BY <1>2, <1>4, <1>9 DEF w, sum

\* The fold of Plus over values, each at most its share, is at most the sum of the
\* shares.
LEMMA SumBelow ==
    ASSUME NEW X, IsFiniteSet(X), NEW u \in [X -> Nat], NEW U, Terms(X, u, U),
           NEW val \in [X -> Fractions], \A x \in X : val[x][1] <= val[x][2] * u[x]
    PROVE  LET D == {<<x, val[x]>> : x \in X}
               Add(e, sum) == Plus(e[2], sum)
               all == FoldSet(Add, Zero, D)
           IN all \in Fractions /\ all[1] <= all[2] * U[X]
<1> DEFINE D == {<<x, val[x]>> : x \in X}
           G(g) == [s \in SUBSET D |-> IF s = {} THEN Zero ELSE Plus(Chosen(s)[2], g[s \ {Chosen(s)}])]
           sum == CHOOSE g : g = G(g)
           Add(e, s) == Plus(e[2], s)
           keys(T) == {e[1] : e \in T}
<1>1. FoldSet(Add, Zero, D) = sum[D]
  BY DEF FoldSet, MapThenFoldSet, Chosen
<1>2. IsFiniteSet(D)
  <2> DEFINE pair == [x \in X |-> <<x, val[x]>>]
  <2>1. pair \in Surjection(X, D)
    BY DEF Surjection
  <2> QED BY <2>1, FS_Surjection
<1>3. \A e \in D : e[1] \in X /\ e[2] = val[e[1]] /\ e[2] \in Fractions /\ e = <<e[1], val[e[1]]>>
  OBVIOUS
<1>4. Zero \in Fractions
  BY DEF Zero, Fractions, Positive
<1>5. \A a \in Fractions, b \in Fractions : Plus(a, b) \in Fractions
  <2> TAKE a \in Fractions, b \in Fractions
  <2>1. PICK m \in Nat, n \in Positive, p \in Nat, q \in Positive : a = <<m, n>> /\ b = <<p, q>>
    BY DEF Fractions
  <2>2. m <= n * m /\ p <= q * p /\ n \in Nat /\ q \in Nat
    BY DEF Positive
  <2>3. a[1] <= a[2] * m /\ b[1] <= b[2] * p
    BY <2>1, <2>2
  <2> QED BY <2>1, <2>3, PlusBelow
<1> HIDE DEF D
<1>6. sum = G(sum)
  <2> DEFINE op == [q \in D \X Fractions |-> Plus(q[1][2], q[2])]
  <2>1. op \in [D \X Fractions -> Fractions]
    <3>1. ASSUME NEW q \in D \X Fractions PROVE Plus(q[1][2], q[2]) \in Fractions
      BY <1>3, <1>5
    <3> QED BY <3>1
  <2>2. \A e \in D, s \in Fractions : op[<<e, s>>] = Plus(e[2], s)
    OBVIOUS
  <2> HIDE DEF op
  <2>3. PICK g \in [SUBSET D -> Fractions] : Folds(D, g, Zero, op)
    BY <1>2, <1>4, <2>1, FoldExists
  <2>4. \A T \in SUBSET D : T # {} => g[T] = Plus(Chosen(T)[2], g[T \ {Chosen(T)}])
    <3> SUFFICES ASSUME NEW T \in SUBSET D, T # {}
                 PROVE  g[T] = Plus(Chosen(T)[2], g[T \ {Chosen(T)}])
      OBVIOUS
    <3>1. g[T] = op[<<Chosen(T), g[T \ {Chosen(T)}]>>]
      BY <2>3 DEF Folds, Chosen
    <3>2. Chosen(T) \in D /\ g[T \ {Chosen(T)}] \in Fractions
      BY IsChosen
    <3> QED BY <2>2, <3>1, <3>2
  <2>5. g = G(g)
    BY <2>3, <2>4 DEF Folds
  <2> HIDE DEF G
  <2> QED BY <2>5
<1>7. \A T \in SUBSET D : sum[T] = G(sum)[T]
  BY <1>6
<1> HIDE DEF sum
<1>8. sum[{}] = Zero /\ \A T \in SUBSET D : T # {} => sum[T] = Plus(Chosen(T)[2], sum[T \ {Chosen(T)}])
  BY <1>7
<1> HIDE DEF G
<1> DEFINE Held(T) == sum[T] \in Fractions /\ sum[T][1] <= sum[T][2] * U[keys(T)]
           S == {i \in Nat : \A T \in SUBSET D : Cardinality(T) = i => Held(T)}
<1>9. \A T \in SUBSET D : IsFiniteSet(T) /\ Cardinality(T) \in Nat /\ (Cardinality(T) = 0 <=> T = {})
  BY <1>2, FS_Subset, FS_CardinalityType, FS_EmptySet
<1>10. 0 \in S
  <2>1. keys({}) = {}
    OBVIOUS
  <2>2. Held({})
    BY <1>4, <1>8, <2>1 DEF Terms, Zero
  <2> QED BY <1>9, <2>2
<1>11. ASSUME NEW i \in S PROVE i + 1 \in S
  <2> SUFFICES ASSUME NEW T \in SUBSET D, Cardinality(T) = i + 1 PROVE Held(T)
    OBVIOUS
  <2>1. PICK e \in T : e = Chosen(T)
    BY <1>9, IsChosen
  <2>2. Cardinality(T \ {e}) = Cardinality(T) - 1 /\ T # {}
    BY <1>9, FS_RemoveElement
  <2>3. T \ {e} \in SUBSET D /\ Held(T \ {e})
    BY <2>2
  <2>4. PICK x \in X : x = e[1] /\ e[2] = val[x]
    BY <1>3
  <2>5. x \in keys(T) /\ keys(T) \in SUBSET X
    BY <1>3, <2>4
  <2>6. keys(T \ {e}) = keys(T) \ {x}
    BY <1>3, <2>4
  <2> HIDE DEF keys
  <2>7. U[keys(T)] = u[x] + U[keys(T) \ {x}]
    BY <2>5 DEF Terms, AnyTerm
  <2>8. u[x] \in Nat /\ U[keys(T) \ {x}] \in Nat /\ val[x] \in Fractions
    BY <2>5 DEF Terms
  <2>9. sum[T] = Plus(val[x], sum[T \ {e}])
    BY <1>8, <2>1, <2>2, <2>4
  <2>10. sum[T \ {e}] \in Fractions /\ sum[T \ {e}][1] <= sum[T \ {e}][2] * U[keys(T) \ {x}]
    BY <2>3, <2>6
  <2> QED BY <2>7, <2>8, <2>9, <2>10, PlusBelow
<1>12. Nat \subseteq S
  <2> HIDE DEF S
  <2> QED BY <1>10, <1>11, FromZero
<1>13. Held(D)
  <2>1. Cardinality(D) \in S
    BY <1>9, <1>12
  <2> QED BY <2>1
<1>14. keys(D) = X
  <2>1. keys(D) \subseteq X
    BY <1>3
  <2>2. ASSUME NEW x \in X PROVE x \in keys(D)
    <3>1. PICK e \in D : e = <<x, val[x]>>
      BY DEF D
    <3>2. e[1] = x
      BY <3>1
    <3> QED BY <3>2
  <2> QED BY <2>1, <2>2
<1> QED BY <1>1, <1>13, <1>14 DEF D, sum, G

\* What an objective's mean sums, for the weights w of its key results.
Shares(K, C, w) == [x \in K \cup C |-> IF x \in K THEN w[x] ELSE 1]
Parts(K, C, prog, children, w) ==
    [x \in K \cup C |-> IF x \in K THEN Fraction(prog[x][1] * w[x], prog[x][2]) ELSE children[x]]

\* The shares are numbers, and add up to the total the mean divides by.
AddUp(K, C, w, F) ==
    /\ Shares(K, C, w) \in [K \cup C -> Nat]
    /\ \E U : Terms(K \cup C, Shares(K, C, w), U) /\ U[K \cup C] = F[K] + Cardinality(C)

LEMMA SharesAdd ==
    ASSUME NEW K \in SUBSET KeyResults, NEW C \in SUBSET Objectives, NEW w \in [K -> Nat], NEW F, Terms(K, w, F)
    PROVE  AddUp(K, C, w, F)
<1> DEFINE X == K \cup C
           u == Shares(K, C, w)
           U == [T \in SUBSET X |-> F[T \cap K] + Cardinality(T \cap C)]
<1>0. K \cap C = {} /\ IsFiniteSet(C)
  BY OkrsAssumption, FS_Subset DEF OkrsAssumption
<1>1. u \in [X -> Nat]
  <2>1. ASSUME NEW x \in X PROVE (IF x \in K THEN w[x] ELSE 1) \in Nat
    OBVIOUS
  <2> QED BY <2>1 DEF Shares
<1>2. \A T \in SUBSET X : F[T \cap K] \in Nat /\ IsFiniteSet(T \cap C) /\ Cardinality(T \cap C) \in Nat
  BY <1>0, FS_Subset, FS_CardinalityType DEF Terms
<1>3. U \in [SUBSET X -> Nat]
  <2>1. ASSUME NEW T \in SUBSET X PROVE F[T \cap K] + Cardinality(T \cap C) \in Nat
    <3>1. PICK m \in Nat, n \in Nat : m = F[T \cap K] /\ n = Cardinality(T \cap C)
      BY <1>2
    <3> QED BY <3>1
  <2> QED BY <2>1
<1>4. U[{}] = 0
  <2>1. {} \cap K = {} /\ {} \cap C = {}
    OBVIOUS
  <2> QED BY <2>1, FS_EmptySet DEF Terms
<1>5. ASSUME NEW T \in SUBSET X, NEW x \in T PROVE U[T] = u[x] + U[T \ {x}]
  <2>0. T \ {x} \in SUBSET X
    OBVIOUS
  <2>1. CASE x \in K
    <3>1. (T \ {x}) \cap C = T \cap C /\ (T \ {x}) \cap K = (T \cap K) \ {x} /\ x \in T \cap K
      BY <1>0, <2>1
    <3>2. F[T \cap K] = w[x] + F[(T \cap K) \ {x}]
      BY <3>1 DEF Terms, AnyTerm
    <3>3. u[x] = w[x] /\ w[x] \in Nat
      BY <2>1 DEF Shares
    <3>4. PICK m \in Nat, n \in Nat : m = F[(T \ {x}) \cap K] /\ n = Cardinality(T \cap C)
      BY <1>2, <2>0
    <3>5. U[T] = (w[x] + m) + n /\ U[T \ {x}] = m + n
      BY <2>0, <3>1, <3>2, <3>4
    <3> QED BY <3>3, <3>5
  <2>2. CASE x \notin K
    <3>1. (T \ {x}) \cap K = T \cap K /\ (T \ {x}) \cap C = (T \cap C) \ {x} /\ x \in T \cap C
      BY <2>2
    <3>2. Cardinality((T \cap C) \ {x}) = Cardinality(T \cap C) - 1
      BY <1>2, <3>1, FS_RemoveElement
    <3>3. u[x] = 1
      BY <2>2 DEF Shares
    <3>4. PICK m \in Nat, n \in Nat : m = F[T \cap K] /\ n = Cardinality((T \ {x}) \cap C)
      BY <1>2, <2>0
    <3>5. PICK i \in Nat : i = Cardinality(T \cap C)
      BY <1>2
    <3>6. U[T] = m + i /\ U[T \ {x}] = m + n /\ n = i - 1
      BY <2>0, <3>1, <3>2, <3>4, <3>5
    <3> QED BY <3>3, <3>6
  <2> QED BY <2>1, <2>2
<1>6. U[X] = F[K] + Cardinality(C)
  <2>1. X \cap K = K /\ X \cap C = C
    OBVIOUS
  <2> QED BY <2>1
<1> HIDE DEF U
<1>7. Terms(X, u, U)
  BY <1>3, <1>4, <1>5 DEF Terms, AnyTerm
<1> QED BY <1>1, <1>6, <1>7 DEF AddUp

\* The mean for the weights w.
WeighedMean(K, C, prog, children, w, total) ==
    LET D == {<<k, Fraction(prog[k][1] * w[k], prog[k][2])>> : k \in K}
             \cup {<<o, children[o]>> : o \in C}
        Add(e, sum) == Plus(e[2], sum)
        all == FoldSet(Add, Zero, D)
    IN Fraction(all[1], all[2] * total)

LEMMA MeanBelow ==
    ASSUME NEW K \in SUBSET KeyResults, NEW C \in SUBSET Objectives,
           NEW prog \in [K -> Progresses], NEW children \in [C -> Progresses],
           NEW w \in [K -> Nat], NEW F, Terms(K, w, F), NEW total \in Positive,
           total = F[K] + Cardinality(C)
    PROVE  WeighedMean(K, C, prog, children, w, total) \in Progresses
<1> DEFINE X == K \cup C
           u == Shares(K, C, w)
           val == Parts(K, C, prog, children, w)
           D == {<<k, Fraction(prog[k][1] * w[k], prog[k][2])>> : k \in K} \cup {<<o, children[o]>> : o \in C}
           E == {<<x, val[x]>> : x \in X}
           Add(e, sum) == Plus(e[2], sum)
           all == FoldSet(Add, Zero, E)
<1>0. K \cap C = {} /\ IsFiniteSet(X)
  BY OkrsAssumption, FS_Subset, FS_Union DEF OkrsAssumption
<1>1. D = E
  BY <1>0 DEF Parts
<1>2. u \in [X -> Nat] /\ \E U : Terms(X, u, U) /\ U[X] = total
  <2>1. AddUp(K, C, w, F)
    BY SharesAdd
  <2> QED BY <2>1 DEF AddUp
<1>3. \A x \in X : val[x] \in Fractions /\ val[x][1] <= val[x][2] * u[x]
  <2> TAKE x \in X
  <2>1. CASE x \in K
    <3>0. prog[x] \in Progresses /\ prog[x] \in Fractions
      BY <2>1 DEF Progresses
    <3>1. PICK n \in Nat, d \in Positive : prog[x] = <<n, d>> /\ n <= d
      <4>1. PICK n \in Nat, d \in Positive : prog[x] = <<n, d>>
        BY <3>0, IsPair, Zenon
      <4> QED BY <3>0, <4>1 DEF Progresses
    <3>2. PICK i \in Nat : i = w[x]
      BY <2>1
    <3>3. n * i <= d * i /\ n * i \in Nat
      BY <3>1 DEF Positive
    <3>4. Fraction(n * i, d) \in Fractions /\ Fraction(n * i, d)[1] <= Fraction(n * i, d)[2] * i
      BY <3>3, FractionBelow
    <3>5. val[x] = Fraction(n * i, d) /\ u[x] = i
      BY <2>1, <3>1, <3>2 DEF Parts, Shares
    <3> QED BY <3>4, <3>5
  <2>2. CASE x \notin K
    <3>0. children[x] \in Progresses /\ children[x] \in Fractions
      BY <2>2 DEF Progresses
    <3>1. PICK n \in Nat, d \in Positive : children[x] = <<n, d>> /\ n <= d
      <4>1. PICK n \in Nat, d \in Positive : children[x] = <<n, d>>
        BY <3>0, IsPair, Zenon
      <4> QED BY <3>0, <4>1 DEF Progresses
    <3>2. val[x] = <<n, d>> /\ u[x] = 1
      BY <2>2, <3>1 DEF Parts, Shares
    <3>3. n <= d * 1
      BY <3>1 DEF Positive
    <3> QED BY <3>2, <3>3 DEF Fractions
  <2> QED BY <2>1, <2>2
<1>4. val \in [X -> Fractions]
  <2>1. val = [x \in X |-> val[x]]
    BY DEF Parts
  <2> HIDE DEF val
  <2> QED BY <1>3, <2>1
<1> HIDE DEF u, val
<1>5. PICK U : Terms(X, u, U) /\ U[X] = total
  BY <1>2
<1>6. all \in Fractions /\ all[1] <= all[2] * total
  <2> HIDE DEF X
  <2>1. all \in Fractions /\ all[1] <= all[2] * U[X]
    BY <1>0, <1>2, <1>3, <1>4, <1>5, SumBelow
  <2> QED BY <1>5, <2>1
<1> HIDE DEF all
<1>7. PICK n \in Nat, d \in Positive : all = <<n, d>>
  <2>1. all \in Fractions
    BY <1>6
  <2> QED BY <2>1, IsPair, Zenon
<1>8. d * total \in Positive /\ n <= (d * total) * 1
  BY <1>6, <1>7 DEF Positive
<1>9. Fraction(n, d * total) \in Progresses
  <2>1. Fraction(n, d * total) \in Fractions /\ Fraction(n, d * total)[1] <= Fraction(n, d * total)[2] * 1
    BY <1>8, FractionBelow
  <2>2. PICK m \in Nat, e \in Positive : Fraction(n, d * total) = <<m, e>>
    BY <2>1, IsPair, Zenon
  <2>3. m <= e * 1
    BY <2>1, <2>2
  <2> QED BY <2>2, <2>3 DEF Progresses, Fractions, Positive
<1>10. Fraction(all[1], all[2] * total) \in Progresses
  BY <1>7, <1>9
<1> QED BY <1>1, <1>10 DEF all, WeighedMean

\* An objective's progress lies between 0 and 1, whatever the weights: objectiveProgress
\* needs no clamp.
THEOREM MeanIsProgress ==
    ASSUME NEW K \in SUBSET KeyResults, NEW C \in SUBSET Objectives,
           NEW krs \in [K -> Readable], NEW children \in [C -> Progresses]
    PROVE  ObjectiveProgress(krs, children) \in Progresses
<1>0. DOMAIN krs = K /\ DOMAIN children = C
  OBVIOUS
<1> DEFINE prog == [k \in K |-> krs[k].progress]
<1>a. prog \in [K -> Progresses] /\ \A k \in K : prog[k] = krs[k].progress
  BY DEF Readable
<1>1. Zero \in Progresses
  BY DEF Zero, Progresses, Fractions, Positive
<1>2. IsFiniteSet(C) /\ Cardinality(C) \in Nat /\ (Cardinality(C) = 0 <=> C = {})
  BY OkrsAssumption, FS_Subset, FS_CardinalityType, FS_EmptySet DEF OkrsAssumption
<1>3. CASE K \cup C = {}
  BY <1>0, <1>1, <1>3 DEF ObjectiveProgress
<1>4. CASE K \cup C # {} /\ MapThenSumSet(LAMBDA k : krs[k].weight, K) + Cardinality(C) = 0
  <2> DEFINE w == [k \in K |-> 1]
  <2>1. PICK F : Terms(K, w, F) /\ F[K] = MapThenSumSet(LAMBDA k : 1, K)
    BY OnesSum
  <2>2. w \in [K -> Nat]
    OBVIOUS
  <2>3. F[K] \in Nat /\ (K # {} => F[K] # 0)
    <3>1. F[K] \in Nat /\ \A T \in SUBSET K : F[T] \in Nat
      BY <2>1 DEF Terms
    <3>2. ASSUME NEW x \in K PROVE F[K] # 0
      <4>1. F[K] = w[x] + F[K \ {x}]
        BY <2>1 DEF Terms, AnyTerm
      <4>2. w[x] = 1 /\ F[K \ {x}] \in Nat
        BY <3>1
      <4> QED BY <4>1, <4>2
    <3> QED BY <3>1, <3>2
  <2>4. F[K] + Cardinality(C) \in Positive
    BY <1>2, <1>4, <2>3 DEF Positive
  <2>5. \A k \in K : w[k] = 1
    OBVIOUS
  <2> DEFINE D == {<<k, Fraction(prog[k][1] * w[k], prog[k][2])>> : k \in K} \cup {<<o, children[o]>> : o \in C}
             Ones == {<<k, Fraction(krs[k].progress[1] * 1, krs[k].progress[2])>> : k \in K} \cup {<<o, children[o]>> : o \in C}
             Add(e, sum) == Plus(e[2], sum)
  <2> HIDE DEF w, prog
  <2>6. D = Ones
    BY <1>a, <2>5
  <2>7. PICK total \in Positive : total = F[K] + Cardinality(C)
    BY <2>4
  <2>8. Fraction(FoldSet(Add, Zero, D)[1], FoldSet(Add, Zero, D)[2] * total) \in Progresses
    <3>1. WeighedMean(K, C, prog, children, w, total) \in Progresses
      BY <1>a, <2>1, <2>2, <2>7, MeanBelow
    <3> QED BY <3>1 DEF WeighedMean
  <2>9. Fraction(FoldSet(Add, Zero, Ones)[1], FoldSet(Add, Zero, Ones)[2] * (MapThenSumSet(LAMBDA k : 1, K) + Cardinality(C))) \in Progresses
    BY <2>1, <2>6, <2>7, <2>8
  <2> QED BY <1>0, <1>4, <2>9 DEF ObjectiveProgress
<1>5. CASE K \cup C # {} /\ MapThenSumSet(LAMBDA k : krs[k].weight, K) + Cardinality(C) # 0
  <2> DEFINE w == [k \in K |-> krs[k].weight]
  <2>1. PICK F : Terms(K, w, F) /\ F[K] = MapThenSumSet(LAMBDA k : krs[k].weight, K)
    BY WeightsSum
  <2>2. w \in [K -> Nat]
    BY DEF Readable
  <2>3. F[K] \in Nat
    BY <2>1 DEF Terms
  <2>4. F[K] + Cardinality(C) \in Positive
    BY <1>2, <1>5, <2>1, <2>3 DEF Positive
  <2>5. \A k \in K : w[k] = krs[k].weight
    OBVIOUS
  <2> DEFINE D == {<<k, Fraction(prog[k][1] * w[k], prog[k][2])>> : k \in K} \cup {<<o, children[o]>> : o \in C}
             Weighed == {<<k, Fraction(krs[k].progress[1] * krs[k].weight, krs[k].progress[2])>> : k \in K}
                        \cup {<<o, children[o]>> : o \in C}
             Add(e, sum) == Plus(e[2], sum)
  <2> HIDE DEF w, prog
  <2>6. D = Weighed
    BY <1>a, <2>5
  <2>7. PICK total \in Positive : total = F[K] + Cardinality(C)
    BY <2>4
  <2>8. Fraction(FoldSet(Add, Zero, D)[1], FoldSet(Add, Zero, D)[2] * total) \in Progresses
    <3>1. WeighedMean(K, C, prog, children, w, total) \in Progresses
      BY <1>a, <2>1, <2>2, <2>7, MeanBelow
    <3> QED BY <3>1 DEF WeighedMean
  <2>9. Fraction(FoldSet(Add, Zero, Weighed)[1], FoldSet(Add, Zero, Weighed)[2] * (MapThenSumSet(LAMBDA k : krs[k].weight, K) + Cardinality(C))) \in Progresses
    BY <2>1, <2>6, <2>7, <2>8
  <2> QED BY <1>0, <1>5, <2>9 DEF ObjectiveProgress
<1> QED BY <1>3, <1>4, <1>5

\* A key result's progress lies between 0 and 1.
LEMMA ResultIsProgress ==
    ASSUME NEW v \in Values
    PROVE  KeyResultProgress(v) \in Progresses
<1>1. Zero \in Progresses /\ One \in Progresses
  BY DEF Zero, One, Progresses, Fractions, Positive
<1>2. \A n \in Int, d \in Int : d # 0 => Clamp01(n, d) \in Progresses
  <2> TAKE n \in Int, d \in Int
  <2> HAVE d # 0
  <2>1. CASE n = 0 \/ (n < 0) # (d < 0) \/ Abs(n) >= Abs(d)
    BY <1>1, <2>1 DEF Clamp01
  <2>2. CASE ~(n = 0 \/ (n < 0) # (d < 0) \/ Abs(n) >= Abs(d))
    <3>1. PICK x \in Nat, y \in Positive : x = Abs(n) /\ y = Abs(d) /\ x <= y * 1
      <4>1. Abs(n) \in Nat /\ Abs(d) \in Positive
        BY DEF Abs, Positive
      <4>2. Abs(n) <= Abs(d) * 1
        BY <2>2, <4>1 DEF Positive
      <4> QED BY <4>1, <4>2
    <3>2. Fraction(x, y) \in Fractions /\ Fraction(x, y)[1] <= Fraction(x, y)[2] * 1
      BY <3>1, FractionBelow
    <3>3. PICK m \in Nat, e \in Positive : Fraction(x, y) = <<m, e>> /\ m <= e * 1
      BY <3>2 DEF Fractions
    <3>4. Fraction(x, y) \in Progresses
      BY <3>3 DEF Progresses, Fractions, Positive
    <3>5. Clamp01(n, d) = Fraction(x, y)
      BY <2>2, <3>1 DEF Clamp01
    <3> QED BY <3>4, <3>5
  <2> QED BY <2>1, <2>2
<1>3. /\ v.target \in Int /\ v.baseline \in Int \cup {None} /\ v.current \in Currents \cup {None}
      /\ Currents \subseteq Int
  BY OkrsAssumption DEF OkrsAssumption, Values
<1> DEFINE reached == IF v.current >= v.target THEN One ELSE Zero
<1>4. reached \in Progresses
  BY <1>1
<1>5. CASE v.current = None
  BY <1>1, <1>5 DEF KeyResultProgress
<1>6. CASE v.current # None /\ v.baseline = None
  <2>1. v.current \in Int
    BY <1>3, <1>6
  <2>2. KeyResultProgress(v) = IF v.target = 0 THEN reached ELSE Clamp01(v.current, v.target)
    BY <1>6 DEF KeyResultProgress
  <2> HIDE DEF reached
  <2> QED BY <1>2, <1>3, <1>4, <2>1, <2>2
<1>7. CASE v.current # None /\ v.baseline # None
  <2>1. v.current \in Int /\ v.baseline \in Int
    BY <1>3, <1>7
  <2>2. KeyResultProgress(v) = IF v.baseline = v.target THEN reached
                               ELSE Clamp01(v.current - v.baseline, v.target - v.baseline)
    BY <1>7 DEF KeyResultProgress
  <2>3. CASE v.baseline = v.target
    BY <1>4, <2>2, <2>3
  <2>4. CASE v.baseline # v.target
    <3>1. PICK n \in Int, d \in Int : n = v.current - v.baseline /\ d = v.target - v.baseline /\ d # 0
      BY <1>3, <2>1, <2>4
    <3> QED BY <1>2, <2>2, <2>4, <3>1
  <2> QED BY <2>3, <2>4
<1> QED BY <1>5, <1>6, <1>7

\* What a key result is created with, and what an update makes of it, are values.
LEMMA CreatedValues ==
    ASSUME NEW k \in KeyResults, NEW v \in Currents \cup {None} PROVE CreatedWith(k, v) \in Values
  BY OkrsAssumption DEF OkrsAssumption, CreatedWith, Values

LEMMA MergedValues ==
    ASSUME NEW v \in Values, NEW dto \in Updates PROVE Merge(v, dto) \in Values
<1>1. /\ dto.weight \in Nat \cup {None} /\ dto.target \in Int \cup {None}
      /\ dto.baseline \in Int \cup {None} /\ dto.current \in Currents \cup {None}
  BY OkrsAssumption DEF OkrsAssumption
<1>2. /\ v.weight \in Nat /\ v.target \in Int
      /\ v.baseline \in Int \cup {None} /\ v.current \in Currents \cup {None}
  BY DEF Values
<1>3. /\ Given(dto.weight, v.weight) \in Nat /\ Given(dto.target, v.target) \in Int
      /\ Given(dto.baseline, v.baseline) \in Int \cup {None}
      /\ Given(dto.current, v.current) \in Currents \cup {None}
  BY <1>1, <1>2 DEF Given
<1> QED BY <1>3 DEF Merge, Values

(* The types of Okrs *)

\* What a request has read of key results and worked out lies between 0 and 1.
Readings == UNION {[K -> Readable] : K \in SUBSET KeyResults}
HoldsProgresses(r) ==
    /\ r.stage = "drift" => r.krs \in Readings /\ r.todo \subseteq DOMAIN r.krs
    /\ r.stage = "write" => r.result \in Progresses
    /\ r.stage = "update" => r.dto \in Updates /\ r.progress \in Progresses
ObjectiveKinds == [row : {"none", "there", "gone"}, parent : Objectives \cup {None}, progress : Progresses]
ResultKinds == [row : {"none", "there", "gone"}, objective : Objectives \cup {None},
                values : Values, progress : Progresses]
OkrKinds ==
    /\ objective \in [Objectives -> ObjectiveKinds]
    /\ keyResult \in [KeyResults -> ResultKinds]
    /\ \A p \in Planners : HoldsProgresses(rollup[p])
    /\ changes \in 0..MaxChanges /\ stale \subseteq Objectives \cup KeyResults

LEMMA OkrKindsAreTypes == OkrKinds => OkrTypeOK
<1> SUFFICES ASSUME OkrKinds PROVE OkrTypeOK
  OBVIOUS
<1>1. \A f \in Progresses : IsProgress(f)
  BY DEF Progresses, Fractions, Positive, IsProgress
<1>2. \A o \in Objectives : /\ objective[o].row \in {"none", "there", "gone"}
                            /\ objective[o].parent \in Objectives \cup {None}
                            /\ objective[o].progress \in Progresses
  BY DEF OkrKinds, ObjectiveKinds
<1>3. \A k \in KeyResults : /\ keyResult[k].row \in {"none", "there", "gone"}
                            /\ keyResult[k].objective \in Objectives \cup {None}
                            /\ keyResult[k].values \in Values
                            /\ keyResult[k].progress \in Progresses
  BY DEF OkrKinds, ResultKinds
<1> QED BY <1>1, <1>2, <1>3 DEF OkrKinds, OkrTypeOK

LEMMA ZeroIsProgress == Zero \in Progresses
BY DEF Zero, Progresses, Fractions, Positive

LEMMA OkrKindsInit == OkrInit => OkrKinds
<1> SUFFICES ASSUME OkrInit PROVE OkrKinds
  OBVIOUS
<1>0. PICK shown \in [KeyResults -> [row : {"none", "there"}, objective : Objectives \cup {None}]] :
          keyResult = [k \in KeyResults |-> [row |-> shown[k].row, objective |-> shown[k].objective,
                                             values |-> CreatedWith(k, None), progress |-> Zero]]
  BY DEF OkrInit
<1>1. objective \in [Objectives -> ObjectiveKinds] /\ keyResult \in [KeyResults -> ResultKinds]
  <2>1. objective \in [Objectives -> ObjectiveKinds]
    BY ZeroIsProgress DEF OkrInit, ObjectiveKinds
  <2>2. \A k \in KeyResults : CreatedWith(k, None) \in Values
    BY CreatedValues
  <2> QED BY <1>0, <2>1, <2>2, ZeroIsProgress DEF ResultKinds
<1>2. \A p \in Planners : rollup[p].stage = "idle"
  BY DEF OkrInit, NoRollup
<1> QED BY <1>1, <1>2, OkrsAssumption DEF OkrInit, OkrKinds, HoldsProgresses, OkrsAssumption

\* What an objective is to show lies between 0 and 1.
LEMMA ReadsAreProgresses ==
    ASSUME OkrKinds, NEW o
    PROVE  /\ ResultsProgress(o) \in [ResultsOf(o) -> Readable] /\ ResultsOf(o) \in SUBSET KeyResults
           /\ ChildrenProgress(o) \in [ChildrenOf(o) -> Progresses] /\ ChildrenOf(o) \in SUBSET Objectives
<1>1. \A k \in KeyResults : Result(keyResult[k].values) \in Readable
  <2> TAKE k \in KeyResults
  <2>1. PICK v \in Values : v = keyResult[k].values
    BY DEF OkrKinds, ResultKinds
  <2>2. KeyResultProgress(v) \in Progresses /\ v.weight \in Nat
    BY ResultIsProgress DEF Values
  <2> QED BY <2>1, <2>2 DEF Result, Readable
<1>2. \A c \in Objectives : objective[c].progress \in Progresses
  BY DEF OkrKinds, ObjectiveKinds
<1>3. ResultsOf(o) \in SUBSET KeyResults /\ ChildrenOf(o) \in SUBSET Objectives
  BY DEF ResultsOf, ChildrenOf
<1> QED BY <1>1, <1>2, <1>3 DEF ResultsProgress, ChildrenProgress

LEMMA ObjectivesKindsStep ==
    ASSUME OkrInv, OkrKinds, OkrNext PROVE objective' \in [Objectives -> ObjectiveKinds]
<1> DEFINE OK == objective' \in [Objectives -> ObjectiveKinds]
<1>0. objective \in [Objectives -> ObjectiveKinds]
  BY DEF OkrKinds
<1>1. ASSUME NEW p \in Planners, WriteProgress(p) PROVE OK
  <2>1. rollup[p].result \in Progresses
    BY <1>1 DEF WriteProgress, OkrKinds, HoldsProgresses
  <2>2. objective' = objective \/ objective' = [objective EXCEPT ![rollup[p].at].progress = rollup[p].result]
    BY <1>1 DEF WriteProgress
  <2> QED BY <1>0, <2>1, <2>2 DEF ObjectiveKinds
<1>2. ASSUME NEW p \in Planners, WriteAlign(p) PROVE OK
  <2>1. rollup[p].up \in Objectives \cup {None}
    BY <1>2 DEF WriteAlign, OkrInv, OkrShapes, Requested, RollupShape, RollsUp, NoRollup, Rolls
  <2>2. objective' = objective \/ objective' = [objective EXCEPT ![rollup[p].at].parent = rollup[p].up]
    BY <1>2 DEF WriteAlign
  <2> QED BY <1>0, <2>1, <2>2 DEF ObjectiveKinds
<1>3. ASSUME NEW o \in Objectives, NEW up \in Objectives \cup {None}, CreateObjective(o, up) PROVE OK
  <2>1. objective' = [objective EXCEPT ![o] = [row |-> "there", parent |-> up, progress |-> Zero]]
    BY <1>3 DEF CreateObjective
  <2> QED BY <1>0, <2>1, ZeroIsProgress DEF ObjectiveKinds
<1>4. ASSUME NEW o \in Objectives, RemoveObjective(o) PROVE OK
  <2>1. objective' = [objective EXCEPT ![o].row = "gone"]
    BY <1>4 DEF RemoveObjective
  <2> QED BY <1>0, <2>1 DEF ObjectiveKinds
<1>5. ASSUME NEW p \in Planners, NEW k \in KeyResults,
             \/ RemoveKeyResult(p, k) \/ WriteDrift(p, k)
             \/ \E v : UpdateKeyResult(p, k, v) \/ SyncOne(p, k, v) \/ \E o \in Objectives : CreateKeyResult(p, k, o, v)
      PROVE  OK
  <2>1. objective' = objective
    BY <1>5 DEF RemoveKeyResult, WriteDrift, UpdateKeyResult, SyncOne, CreateKeyResult
  <2> QED BY <1>0, <2>1
<1>6. ASSUME NEW p \in Planners,
             \/ WriteUpdate(p) \/ ClimbAlign(p) \/ SyncDone(p) \/ LoadObjective(p) \/ ReadChildren(p) \/ OkrGiveUp(p)
             \/ \E o : BeginSync(p, o) \/ \E up : BeginAlign(p, o, up)
      PROVE  OK
  <2>1. objective' = objective
    BY <1>6 DEF WriteUpdate, ClimbAlign, SyncDone, LoadObjective, ReadChildren, OkrGiveUp, BeginSync, BeginAlign
  <2> QED BY <1>0, <2>1
<1>7. OK
  <2> HIDE DEF OK
  <2> QED BY <1>1, <1>2, <1>3, <1>4, <1>5, <1>6 DEF OkrNext
<1> QED BY <1>7

LEMMA ResultsKindsStep ==
    ASSUME OkrInv, OkrKinds, OkrNext PROVE keyResult' \in [KeyResults -> ResultKinds]
<1> DEFINE OK == keyResult' \in [KeyResults -> ResultKinds]
<1>0. keyResult \in [KeyResults -> ResultKinds]
  BY DEF OkrKinds
<1>1. ASSUME NEW p \in Planners, NEW k \in KeyResults, WriteDrift(p, k) PROVE OK
  <2>1. rollup[p].krs[k].progress \in Progresses
    BY <1>1 DEF WriteDrift, OkrKinds, HoldsProgresses, Readings, Readable
  <2>2. keyResult' = keyResult \/ keyResult' = [keyResult EXCEPT ![k].progress = rollup[p].krs[k].progress]
    BY <1>1 DEF WriteDrift
  <2> QED BY <1>0, <2>1, <2>2 DEF ResultKinds
<1>2. ASSUME NEW p \in Planners, WriteUpdate(p) PROVE OK
  <2>1. PICK k \in KeyResults, dto \in Updates, x \in Progresses :
            k = rollup[p].key /\ dto = rollup[p].dto /\ x = rollup[p].progress
    <3>1. PICK r : r = rollup[p]
      OBVIOUS
    <3>2. r.stage = "update" /\ RollupShape(r) /\ HoldsProgresses(r)
      BY <1>2, <3>1 DEF WriteUpdate, OkrInv, OkrShapes, Requested, OkrKinds
    <3>3. r.key \in KeyResults
      BY <3>2 DEF RollupShape, RollsUp, NoRollup, Rolls
    <3> QED BY <3>1, <3>2, <3>3 DEF HoldsProgresses
  <2>2. PICK n \in Values : n = Merge(keyResult[k].values, dto)
    <3>1. keyResult[k].values \in Values
      BY <1>0 DEF ResultKinds
    <3> QED BY <3>1, MergedValues
  <2>3. keyResult' = keyResult \/ keyResult' = [keyResult EXCEPT ![k].values = n, ![k].progress = x]
    BY <1>2, <2>1, <2>2 DEF WriteUpdate
  <2> QED BY <1>0, <2>3 DEF ResultKinds
<1>3. ASSUME NEW p \in Planners, NEW k \in KeyResults, NEW v \in Currents, NEW o \in Objectives,
             CreateKeyResult(p, k, o, v)
      PROVE  OK
  <2>1. keyResult' = [keyResult EXCEPT ![k] = [row |-> "there", objective |-> o, values |-> CreatedWith(k, v),
                                               progress |-> KeyResultProgress(CreatedWith(k, v))]]
    BY <1>3 DEF CreateKeyResult
  <2>2. CreatedWith(k, v) \in Values /\ KeyResultProgress(CreatedWith(k, v)) \in Progresses
    BY CreatedValues, ResultIsProgress
  <2>3. PICK n \in Values, f \in Progresses : n = CreatedWith(k, v) /\ f = KeyResultProgress(CreatedWith(k, v))
    BY <2>2
  <2> QED BY <1>0, <2>1, <2>3 DEF ResultKinds
<1>4. ASSUME NEW p \in Planners, NEW k \in KeyResults, NEW v \in Currents \cup {None}, SyncOne(p, k, v) PROVE OK
  <2>1. keyResult' = keyResult \/ keyResult' = [keyResult EXCEPT ![k].values.current = v]
    BY <1>4 DEF SyncOne
  <2>2. PICK old \in Values, row \in {"none", "there", "gone"}, o \in Objectives \cup {None}, f \in Progresses :
            keyResult[k] = [row |-> row, objective |-> o, values |-> old, progress |-> f]
    BY <1>0 DEF ResultKinds
  <2>3. PICK n : n = [old EXCEPT !.current = v]
    OBVIOUS
  <2>4. n \in Values
    BY <2>3 DEF Values
  <2>5. [keyResult[k] EXCEPT !.values.current = v] = [row |-> row, objective |-> o, values |-> n, progress |-> f]
    BY <2>2, <2>3
  <2>6. [keyResult EXCEPT ![k].values.current = v]
        = [keyResult EXCEPT ![k] = [row |-> row, objective |-> o, values |-> n, progress |-> f]]
    BY <2>5
  <2>7. [row |-> row, objective |-> o, values |-> n, progress |-> f] \in ResultKinds
    BY <2>4 DEF ResultKinds
  <2> QED BY <1>0, <2>1, <2>6, <2>7
<1>5. ASSUME NEW p \in Planners, NEW k \in KeyResults, RemoveKeyResult(p, k) PROVE OK
  <2>1. keyResult' = [keyResult EXCEPT ![k].row = "gone"]
    BY <1>5 DEF RemoveKeyResult
  <2> QED BY <1>0, <2>1 DEF ResultKinds
<1>6. ASSUME NEW p \in Planners,
             \/ ClimbAlign(p) \/ WriteAlign(p) \/ SyncDone(p) \/ LoadObjective(p) \/ ReadChildren(p)
             \/ WriteProgress(p) \/ OkrGiveUp(p)
             \/ \E o : BeginSync(p, o) \/ \E up : BeginAlign(p, o, up)
             \/ \E k, dto : UpdateKeyResult(p, k, dto)
      PROVE  OK
  <2>1. keyResult' = keyResult
    BY <1>6 DEF ClimbAlign, UpdateKeyResult, SyncDone, LoadObjective, ReadChildren, OkrGiveUp, BeginSync, BeginAlign, WriteProgress, WriteAlign
  <2> QED BY <1>0, <2>1
<1>7. ASSUME NEW o, RemoveObjective(o) \/ \E up : CreateObjective(o, up) PROVE OK
  <2>1. keyResult' = keyResult
    BY <1>7 DEF CreateObjective, RemoveObjective
  <2> QED BY <1>0, <2>1
<1>8. OK
  <2> HIDE DEF OK
  <2> QED BY <1>1, <1>2, <1>3, <1>4, <1>5, <1>6, <1>7 DEF OkrNext
<1> QED BY <1>8

\* A request that goes on beside a step holds what it held.
LEMMA MarkedHolds ==
    ASSUME NEW new, NEW old, NEW R, NEW C, Marked(new, old, R, C), HoldsProgresses(old)
    PROVE  HoldsProgresses(new)
BY DEF Marked, HoldsProgresses, Rolls

LEMMA NewHolds == HoldsProgresses(NoRollup) /\ \A o, v : HoldsProgresses(Rollup(o, v))
BY DEF HoldsProgresses, NoRollup, Rollup

LEMMA RollupsKindsStep ==
    ASSUME OkrInv, OkrKinds, OkrNext PROVE \A p \in Planners : HoldsProgresses(rollup'[p])
<1> DEFINE OK == \A p \in Planners : HoldsProgresses(rollup'[p])
<1>0. Requested /\ rollup = [p \in Planners |-> rollup[p]] /\ \A p \in Planners : HoldsProgresses(rollup[p])
  BY DEF OkrInv, OkrShapes, Requested, OkrKinds
<1>1. \A o, q : q \in Planners => /\ HoldsProgresses(Outdates(rollup, o, ResultsRead)[q])
                                  /\ HoldsProgresses(Outdates(rollup, o, ChildrenRead)[q])
  <2> SUFFICES ASSUME NEW o, NEW q \in Planners
               PROVE  /\ HoldsProgresses(Outdates(rollup, o, ResultsRead)[q])
                      /\ HoldsProgresses(Outdates(rollup, o, ChildrenRead)[q])
    OBVIOUS
  <2> QED BY <1>0, OthersMarked, MarkedHolds
\* One request goes on as r, the others are marked or left alone.
<1>2. ASSUME NEW p \in Planners, NEW r, HoldsProgresses(r),
             \/ rollup' = [rollup EXCEPT ![p] = r]
             \/ \E o : rollup' = [Outdates(rollup, o, ResultsRead) EXCEPT ![p] = r]
             \/ \E o : rollup' = [Outdates(rollup, o, ChildrenRead) EXCEPT ![p] = r]
      PROVE  OK
  <2> TAKE q \in Planners
  <2>1. CASE rollup' = [rollup EXCEPT ![p] = r]
    BY <1>0, <1>2, <2>1
  <2>2. ASSUME NEW o, rollup' = [Outdates(rollup, o, ResultsRead) EXCEPT ![p] = r] PROVE HoldsProgresses(rollup'[q])
    <3>1. rollup'[q] = IF q = p THEN r ELSE Outdates(rollup, o, ResultsRead)[q]
      BY <2>2 DEF Outdates
    <3> QED BY <1>1, <1>2, <3>1
  <2>3. ASSUME NEW o, rollup' = [Outdates(rollup, o, ChildrenRead) EXCEPT ![p] = r] PROVE HoldsProgresses(rollup'[q])
    <3>1. rollup'[q] = IF q = p THEN r ELSE Outdates(rollup, o, ChildrenRead)[q]
      BY <2>3 DEF Outdates
    <3> QED BY <1>1, <1>2, <3>1
  <2> QED BY <1>2, <2>1, <2>2, <2>3
<1>3. ASSUME NEW p \in Planners, Aborts(p) PROVE OK
  BY <1>2, <1>3, NewHolds DEF Aborts, Moves
<1>4. ASSUME NEW p \in Planners, NEW k \in KeyResults, RemoveKeyResult(p, k) PROVE OK
  BY <1>2, <1>4, NewHolds DEF RemoveKeyResult
<1>5. ASSUME NEW p \in Planners, NEW k \in KeyResults, NEW dto \in Updates, UpdateKeyResult(p, k, dto) PROVE OK
  <2>1. PICK x : x = KeyResultProgress(Merge(keyResult[k].values, dto))
    OBVIOUS
  <2>2. x \in Progresses
    <3>1. keyResult[k].values \in Values
      BY DEF OkrKinds, ResultKinds
    <3> QED BY <2>1, <3>1, MergedValues, ResultIsProgress
  <2>3. PICK r : r = [stage |-> "update", at |-> keyResult[k].objective, key |-> k, dto |-> dto, progress |-> x]
    OBVIOUS
  <2>4. HoldsProgresses(r)
    BY <2>2, <2>3 DEF HoldsProgresses
  <2> QED BY <1>2, <1>5, <2>1, <2>3, <2>4 DEF UpdateKeyResult, Moves
<1>6. ASSUME NEW p \in Planners, NEW k \in KeyResults, NEW v, NEW o, CreateKeyResult(p, k, o, v) PROVE OK
  BY <1>2, <1>6, NewHolds DEF CreateKeyResult
<1>7. ASSUME NEW p \in Planners, NEW k \in KeyResults, NEW v, SyncOne(p, k, v) PROVE OK
  <2>1. CASE Aborts(p)
    BY <1>3, <2>1
  <2>2. CASE ~Aborts(p)
    <3>1. PICK r : r = [Outdates(rollup, rollup[p].at, ResultsRead)[p] EXCEPT !.todo = @ \ {k}]
      OBVIOUS
    <3>2. rollup' = [Outdates(rollup, rollup[p].at, ResultsRead) EXCEPT ![p] = r]
      BY <1>7, <2>2, <3>1 DEF SyncOne
    <3>3. r.stage = "sync"
      BY <1>0, <1>7, <3>1, OthersMarked DEF SyncOne, Marked, RollupShape, RollsUp, NoRollup
    <3>4. HoldsProgresses(r)
      BY <3>3 DEF HoldsProgresses
    <3> QED BY <1>2, <3>2, <3>4
  <2> QED BY <2>1, <2>2
<1>8. ASSUME NEW p \in Planners, NEW k \in KeyResults, WriteDrift(p, k) PROVE OK
  <2>1. CASE Aborts(p)
    BY <1>3, <2>1
  <2>2. CASE ~Aborts(p)
    <3>1. PICK r : r = [rollup[p] EXCEPT !.todo = @ \ {k}]
      OBVIOUS
    <3>2. rollup' = [rollup EXCEPT ![p] = r]
      BY <1>8, <2>2, <3>1 DEF WriteDrift, Moves
    <3>3. RollsUp(rollup[p]) /\ rollup[p].stage = "drift"
      BY <1>0, <1>8 DEF WriteDrift, Requested, RollupShape, NoRollup
    <3>4. r.stage = "drift" /\ r.krs = rollup[p].krs /\ r.todo = rollup[p].todo \ {k}
      BY <3>1, <3>3 DEF RollsUp
    <3>5. HoldsProgresses(r)
      BY <1>0, <3>3, <3>4 DEF HoldsProgresses
    <3> QED BY <1>2, <3>2, <3>5
  <2> QED BY <2>1, <2>2
<1>9. ASSUME NEW p \in Planners, WriteAlign(p) PROVE OK
  <2> DEFINE idle == [rollup EXCEPT ![p] = NoRollup]
  <2>1. \A q \in Planners : RollupShape(idle[q]) /\ HoldsProgresses(idle[q])
    BY <1>0, NewHolds DEF Requested, RollupShape
  <2> HIDE DEF idle
  <2>2. CASE rollup' = idle
    BY <2>1, <2>2
  <2>3. ASSUME NEW o, NEW c, rollup' = Outdates(Outdates(idle, o, ChildrenRead), c, ChildrenRead) PROVE OK
    <3> TAKE q \in Planners
    <3>1. Marked(Outdates(idle, o, ChildrenRead)[q], idle[q], {}, {o})
      BY <2>1, ChildrenMarked
    <3>2. PICK old, mid : old = idle[q] /\ mid = Outdates(idle, o, ChildrenRead)[q]
      OBVIOUS
    <3>3. RollupShape(mid) /\ HoldsProgresses(old)
      BY <2>1, <3>1, <3>2 DEF Marked
    <3>4. HoldsProgresses(mid)
      BY <3>1, <3>2, <3>3, MarkedHolds
    <3>5. Marked(rollup'[q], mid, {}, {c})
      BY <2>3, <3>2, <3>3, ChildrenMarked
    <3> QED BY <3>4, <3>5, MarkedHolds
  <2> QED BY <1>9, <2>2, <2>3 DEF WriteAlign, idle
<1>10. ASSUME NEW p \in Planners, SyncDone(p) PROVE OK
  BY <1>2, <1>10, NewHolds DEF SyncDone, Moves
<1>11. ASSUME NEW p \in Planners, LoadObjective(p) PROVE OK
  <2> DEFINE r == rollup[p]
             krs == ResultsProgress(r.at)
             n == [r EXCEPT !.stage = "drift", !.up = objective[r.at].parent, !.krs = krs,
                            !.visited = @ \cup {r.at},
                            !.todo = {k \in DOMAIN krs : krs[k].progress # keyResult[k].progress}]
  <2>1. CASE rollup' = [rollup EXCEPT ![p] = NoRollup]
    BY <1>2, <2>1, NewHolds
  <2>2. CASE rollup' = [rollup EXCEPT ![p] = n]
    <3>1. RollsUp(r)
      BY <1>0, <1>11 DEF LoadObjective, Requested, RollupShape, NoRollup
    <3>2. n.stage = "drift" /\ n.krs = krs /\ n.todo \subseteq DOMAIN krs
      BY <3>1 DEF RollsUp
    <3>3. krs \in Readings
      BY ReadsAreProgresses DEF Readings
    <3>4. HoldsProgresses(n)
      BY <3>2, <3>3 DEF HoldsProgresses
    <3> HIDE DEF n
    <3> QED BY <1>2, <2>2, <3>4
  <2> QED BY <1>11, <2>1, <2>2 DEF LoadObjective, Moves
<1>12. ASSUME NEW p \in Planners, ReadChildren(p) PROVE OK
  <2> DEFINE r == rollup[p]
             n == [r EXCEPT !.stage = "write", !.result = ObjectiveProgress(r.krs, ChildrenProgress(r.at))]
  <2>1. rollup' = [rollup EXCEPT ![p] = n] /\ RollsUp(r) /\ r.krs \in Readings
    <3>1. rollup' = [rollup EXCEPT ![p] = n] /\ r.stage = "drift"
      BY <1>12 DEF ReadChildren, Moves
    <3>2. RollupShape(r) /\ HoldsProgresses(r)
      BY <1>0 DEF Requested
    <3> HIDE DEF r, n
    <3>3. RollsUp(r)
      BY <3>1, <3>2 DEF RollupShape, NoRollup
    <3> QED BY <3>1, <3>2, <3>3 DEF HoldsProgresses
  <2>2. PICK K \in SUBSET KeyResults : r.krs \in [K -> Readable]
    BY <2>1 DEF Readings
  <2>3. ObjectiveProgress(r.krs, ChildrenProgress(r.at)) \in Progresses
    BY <2>2, ReadsAreProgresses, MeanIsProgress
  <2>4. n.stage = "write" /\ n.result = ObjectiveProgress(r.krs, ChildrenProgress(r.at))
    BY <2>1 DEF RollsUp
  <2>5. HoldsProgresses(n)
    BY <2>3, <2>4 DEF HoldsProgresses
  <2> HIDE DEF n
  <2> QED BY <1>2, <2>1, <2>5
<1>13. ASSUME NEW p \in Planners, WriteProgress(p) PROVE OK
  <2>1. CASE Aborts(p)
    BY <1>3, <2>1
  <2>2. CASE ~Aborts(p)
    <3>1. PICK r : r = IF ClimbsTo(rollup[p]) = None THEN NoRollup
                       ELSE Rollup(ClimbsTo(rollup[p]), rollup[p].visited)
      OBVIOUS
    <3>2. HoldsProgresses(r)
      BY <3>1, NewHolds
    <3>3. \E o : rollup' = [Outdates(rollup, o, ChildrenRead) EXCEPT ![p] = r]
      BY <1>13, <2>2, <3>1 DEF WriteProgress
    <3> QED BY <1>2, <3>2, <3>3
  <2> QED BY <2>1, <2>2
<1>14. ASSUME NEW p \in Planners, NEW o \in Objectives, BeginSync(p, o) PROVE OK
  <2>1. PICK r : r = [Rollup(o, {}) EXCEPT !.stage = "sync", !.todo = ResultsOf(o) \cap Linked]
    OBVIOUS
  <2>2. r.stage = "sync"
    BY <2>1 DEF Rollup
  <2>3. HoldsProgresses(r)
    BY <2>2 DEF HoldsProgresses
  <2> QED BY <1>2, <1>14, <2>1, <2>3 DEF BeginSync, Moves
<1>15. ASSUME NEW p \in Planners, NEW o \in Objectives, NEW up, BeginAlign(p, o, up) PROVE OK
  <2>0. PICK s : s = IF up = None THEN "align" ELSE "climb"
    OBVIOUS
  <2>1. PICK r : r = [stage |-> s, at |-> o, up |-> up, cursor |-> up, visited |-> {}]
    OBVIOUS
  <2>2. HoldsProgresses(r)
    BY <2>0, <2>1 DEF HoldsProgresses
  <2> QED BY <1>2, <1>15, <2>0, <2>1, <2>2 DEF BeginAlign, Moves
<1>16. ASSUME NEW o, RemoveObjective(o) \/ \E up : CreateObjective(o, up) PROVE OK
  BY <1>1, <1>16 DEF RemoveObjective, CreateObjective
<1>17. ASSUME NEW p \in Planners, OkrGiveUp(p) PROVE OK
  BY <1>3, <1>17 DEF OkrGiveUp
<1>21. ASSUME NEW p \in Planners, WriteUpdate(p) PROVE OK
  BY <1>2, <1>21, NewHolds DEF WriteUpdate, Moves
<1>22. ASSUME NEW p \in Planners, ClimbAlign(p) PROVE OK
  <2>1. PICK q : q = rollup[p]
    OBVIOUS
  <2>2. PICK s, c, v : \/ rollup' = [rollup EXCEPT ![p] = NoRollup]
                       \/ rollup' = [rollup EXCEPT ![p] = [q EXCEPT !.stage = "align"]]
                       \/ rollup' = [rollup EXCEPT ![p] = [q EXCEPT !.cursor = c, !.visited = v]]
    BY <1>22, <2>1 DEF ClimbAlign, Moves
  <2>3. q.stage = "climb" /\ RollupShape(q)
    BY <1>0, <1>22, <2>1 DEF ClimbAlign, Requested
  <2>4. q \in [stage : {"climb", "align"}, at : Objectives, up : Objectives \cup {None},
               cursor : {q.cursor}, visited : {q.visited}]
    BY <2>3 DEF RollupShape, RollsUp, NoRollup, Rolls
  <2>5. PICK a, b : a = [q EXCEPT !.stage = "align"] /\ b = [q EXCEPT !.cursor = c, !.visited = v]
    OBVIOUS
  <2>6. a.stage = "align" /\ b.stage = "climb"
    BY <2>3, <2>4, <2>5
  <2>7. HoldsProgresses(a) /\ HoldsProgresses(b)
    BY <2>6 DEF HoldsProgresses
  <2> QED BY <1>2, <2>2, <2>5, <2>7, NewHolds
<1> HIDE DEF OK
<1>18. ASSUME NEW p \in Planners, NEW k \in KeyResults,
              \/ RemoveKeyResult(p, k) \/ WriteDrift(p, k)
              \/ \E dto \in Updates : UpdateKeyResult(p, k, dto)
              \/ \E v : SyncOne(p, k, v) \/ \E o \in Objectives : CreateKeyResult(p, k, o, v)
      PROVE  OK
  BY <1>4, <1>5, <1>6, <1>7, <1>8, <1>18
<1>19. ASSUME NEW p \in Planners,
              \/ WriteUpdate(p) \/ ClimbAlign(p) \/ WriteAlign(p) \/ SyncDone(p) \/ LoadObjective(p) \/ ReadChildren(p)
              \/ WriteProgress(p) \/ OkrGiveUp(p)
              \/ \E o \in Objectives : BeginSync(p, o) \/ \E up : BeginAlign(p, o, up)
      PROVE  OK
  BY <1>9, <1>10, <1>11, <1>12, <1>13, <1>14, <1>15, <1>17, <1>19, <1>21, <1>22
<1>20. OK
  BY <1>16, <1>18, <1>19 DEF OkrNext
<1> QED BY <1>20 DEF OK

LEMMA StaleKindsStep ==
    ASSUME OkrInv, OkrKinds, OkrNext PROVE changes' \in 0..MaxChanges /\ stale' \subseteq Objectives \cup KeyResults
<1> DEFINE OK == stale' \subseteq Objectives \cup KeyResults
<1>0. /\ changes \in 0..MaxChanges /\ stale \subseteq Objectives \cup KeyResults /\ MaxChanges \in Nat
      /\ \A p \in Planners : rollup[p].stage # "idle" => rollup[p].at \in Objectives
      /\ \A p \in Planners : rollup[p].stage = "align" => rollup[p].up \in Objectives \cup {None}
      /\ \A o \in Objectives : objective[o].parent \in Objectives \cup {None}
  BY OkrsAssumption DEF OkrKinds, OkrInv, OkrShapes, Requested, RollupShape, RollsUp, NoRollup, Rolls, ObjectiveKinds, OkrsAssumption
<1>1. changes' \in 0..MaxChanges
  <2>1. changes' = changes \/ ChangeCounted
    <3>1. ASSUME NEW p \in Planners, NEW k \in KeyResults,
                 \/ RemoveKeyResult(p, k) \/ WriteDrift(p, k)
                 \/ \E v : UpdateKeyResult(p, k, v) \/ SyncOne(p, k, v) \/ \E o \in Objectives : CreateKeyResult(p, k, o, v)
          PROVE  changes' = changes \/ ChangeCounted
      BY <3>1 DEF RemoveKeyResult, WriteDrift, UpdateKeyResult, CreateKeyResult, SyncOne
    <3>2. ASSUME NEW p \in Planners,
                 \/ WriteUpdate(p) \/ ClimbAlign(p) \/ WriteAlign(p) \/ SyncDone(p) \/ LoadObjective(p) \/ ReadChildren(p)
                 \/ WriteProgress(p) \/ OkrGiveUp(p)
                 \/ \E o : BeginSync(p, o) \/ \E up : BeginAlign(p, o, up)
          PROVE  changes' = changes \/ ChangeCounted
      BY <3>2 DEF WriteUpdate, ClimbAlign, SyncDone, LoadObjective, ReadChildren, OkrGiveUp, BeginSync, BeginAlign, WriteProgress, WriteAlign
    <3>3. ASSUME NEW o, RemoveObjective(o) \/ \E up : CreateObjective(o, up)
          PROVE  changes' = changes \/ ChangeCounted
      BY <3>3 DEF CreateObjective, RemoveObjective
    <3> QED BY <3>1, <3>2, <3>3 DEF OkrNext
  <2> QED BY <1>0, <2>1 DEF ChangeCounted
<1>2. ASSUME NEW p \in Planners, Aborts(p) PROVE OK
  <2>1. CASE rollup[p].stage \in {"idle", "update", "climb", "align"}
    BY <1>0, <1>2, <2>1 DEF Aborts
  <2>2. CASE rollup[p].stage \notin {"idle", "update", "climb", "align"}
    BY <1>0, <1>2, <2>2 DEF Aborts, ResultsOf
  <2> QED BY <2>1, <2>2
<1>3. ASSUME NEW p \in Planners, NEW k \in KeyResults,
             \/ RemoveKeyResult(p, k) \/ WriteDrift(p, k)
             \/ \E v : UpdateKeyResult(p, k, v) \/ SyncOne(p, k, v) \/ \E o \in Objectives : CreateKeyResult(p, k, o, v)
      PROVE  OK
  BY <1>0, <1>2, <1>3 DEF RemoveKeyResult, WriteDrift, UpdateKeyResult, SyncOne, CreateKeyResult
<1>4. ASSUME NEW p \in Planners,
             \/ WriteUpdate(p) \/ ClimbAlign(p) \/ SyncDone(p) \/ ReadChildren(p)
             \/ \E o : BeginSync(p, o) \/ \E up : BeginAlign(p, o, up)
      PROVE  OK
  BY <1>0, <1>4 DEF WriteUpdate, ClimbAlign, SyncDone, ReadChildren, BeginSync, BeginAlign
<1>5. ASSUME NEW p \in Planners, LoadObjective(p) PROVE OK
  <2>1. rollup[p].at \in Objectives
    BY <1>0, <1>5 DEF LoadObjective
  <2> QED BY <1>0, <1>5, <2>1 DEF LoadObjective
<1>6. ASSUME NEW p \in Planners, WriteAlign(p) PROVE OK
  <2>1. rollup[p].at \in Objectives /\ rollup[p].up \in Objectives \cup {None}
    BY <1>0, <1>6 DEF WriteAlign
  <2> QED BY <1>0, <1>6, <2>1 DEF WriteAlign
<1>7. ASSUME NEW p \in Planners, WriteProgress(p) PROVE OK
  <2>1. rollup[p].at \in Objectives /\ objective[rollup[p].at].parent \in Objectives \cup {None}
    BY <1>0, <1>7 DEF WriteProgress
  <2>2. CASE Aborts(p)
    BY <1>2, <2>2
  <2>3. CASE ~Aborts(p)
    BY <1>0, <1>7, <2>1, <2>3 DEF WriteProgress
  <2> QED BY <2>2, <2>3
<1>8. ASSUME NEW o \in Objectives, RemoveObjective(o) \/ \E up \in Objectives \cup {None} : CreateObjective(o, up) PROVE OK
  BY <1>0, <1>8 DEF RemoveObjective, CreateObjective
<1>9. ASSUME NEW p \in Planners, OkrGiveUp(p) PROVE OK
  BY <1>2, <1>9 DEF OkrGiveUp
<1>10. OK
  <2> HIDE DEF OK
  <2> QED BY <1>3, <1>4, <1>5, <1>6, <1>7, <1>8, <1>9 DEF OkrNext
<1> QED BY <1>1, <1>10

LEMMA OkrKindsStep == OkrInv /\ OkrKinds /\ [OkrNext]_okrVars => OkrKinds'
<1>1. ASSUME OkrInv, OkrKinds, OkrNext PROVE OkrKinds'
  BY <1>1, ObjectivesKindsStep, ResultsKindsStep, RollupsKindsStep, StaleKindsStep
     DEF OkrKinds, ObjectiveKinds, ResultKinds, HoldsProgresses
<1>2. ASSUME OkrKinds, UNCHANGED okrVars PROVE OkrKinds'
  BY <1>2 DEF OkrKinds, okrVars, ObjectiveKinds, ResultKinds, HoldsProgresses
<1> QED BY <1>1, <1>2

(* The three hierarchies *)

HierarchiesKinds ==
    /\ part = "kpiGraph" => GraphKinds
    /\ part = "orgTree" => OrgTypeOK
    /\ part = "okrs" => OkrInv /\ OkrKinds

LEMMA HierarchiesBegin == HierarchiesInit => HierarchiesKinds
  BY KindsBegin, TypeInit, OkrInvInit, OkrKindsInit DEF HierarchiesInit, HierarchiesKinds

LEMMA HierarchiesStep ==
    HierarchiesKinds /\ [HierarchiesNext]_<<part, graphVars, orgVars, okrVars>> => HierarchiesKinds'
<1> DEFINE Steps == /\ part' = part
                    /\ part = "kpiGraph" => [GraphNext]_graphVars
                    /\ part = "orgTree" => [OrgNext]_orgVars
                    /\ part = "okrs" => [OkrNext]_okrVars
<1>1. HierarchiesNext => Steps
  BY DEF HierarchiesNext
<1>2. UNCHANGED <<part, graphVars, orgVars, okrVars>> => Steps
  OBVIOUS
<1>3. ASSUME HierarchiesKinds, Steps PROVE HierarchiesKinds'
  <2>1. part = "kpiGraph" => GraphKinds'
    BY <1>3, KindsStep DEF HierarchiesKinds
  <2>2. part = "orgTree" => OrgTypeOK'
    BY <1>3, TypeStep DEF HierarchiesKinds
  <2>3. part = "okrs" => OkrInv' /\ OkrKinds'
    BY <1>3, OkrInvStep, OkrKindsStep DEF HierarchiesKinds
  <2> QED BY <1>3, <2>1, <2>2, <2>3 DEF HierarchiesKinds
<1> HIDE DEF Steps
<1> QED BY <1>1, <1>2, <1>3

(***************************************************************************)
(* Every variable of the hierarchies holds a value of its type, for any    *)
(* number of KPIs, units, people, objectives, key results and requests:    *)
(* among others the progress of objectives, an unclamped mean, lies        *)
(* between 0 and 1, and the cascade level of a KPI stays within the depth  *)
(* cascade.service.ts computes.                                            *)
(***************************************************************************)
THEOREM HierarchiesTyped == HierarchiesSpec => []HierarchiesTypeOK
<1>1. HierarchiesKinds => HierarchiesTypeOK
  BY KindsAreTypes, OkrKindsAreTypes DEF HierarchiesKinds, HierarchiesTypeOK
<1> QED BY <1>1, HierarchiesBegin, HierarchiesStep, PTL DEF HierarchiesSpec
==================================================================================
