--------------------------------- MODULE OrgTree ---------------------------------
(***************************************************************************)
(* The org units of an organization, their hierarchy and their members.    *)
(* Moving a unit and merging one into another first walk up the hierarchy, *)
(* row by row, to refuse a cycle; a merge also reads the members it will   *)
(* move, and a deletion the children and members it must not find, before  *)
(* the transaction that writes.  Administrators work at the same time.     *)
(***************************************************************************)
EXTENDS Naturals, FiniteSets

CONSTANTS
    Units,
    People,
    Editors,   \* requests that can be in progress at once
    NoUnit,
    MaxEdits   \* bound: requests in all

ASSUME OrgTreeAssumption == NoUnit \notin Units /\ MaxEdits \in Nat

VARIABLES
    unit,      \* OrgUnit.status, "none" before there is a row and "gone" after
    parent,    \* OrgUnit.parentUnitId
    member,    \* OrgUnitMember: "in" while leftAt is null, then "left"
    edit,      \* what each editor's request is doing
    edits,
    crossed,   \* history: a parent was written on a walk another write had overtaken
    belongs,   \* history: people who were given a unit and not taken out of their last
    caught     \* history: people who joined or left behind the reads of a request

orgVars == <<unit, parent, member, edit, edits, crossed, belongs, caught>>

------------------------------------------------------------------------------
Exist == {u \in Units : unit[u] \in {"ACTIVE", "ARCHIVED"}}
Parents == Units \cup {NoUnit}
NoEdit == [op |-> "none"]
\* unit: moved, merged, split or deleted; to: the new parent or the unit merged
\* into; at: where the walk stands; overtaken is history.
Edits == [op : {"move", "merge", "split", "remove"},
          stage : {"walk", "members", "write"}, unit : Units, to : Parents, at : Parents,
          seen : SUBSET Units, people : SUBSET People, overtaken : BOOLEAN]

In(p) == {u \in Units : member[u][p] = "in"}
Without(p, u) == \A v \in In(p) : v = u
Becoming(e, r) == edit' = [edit EXCEPT ![e] = r]
EditCounted == edits < MaxEdits /\ edits' = edits + 1
Begins(e, op, stage, u, to) ==
    /\ edit[e] = NoEdit /\ EditCounted
    /\ Becoming(e, [op |-> op, stage |-> stage, unit |-> u, to |-> to, at |-> to, seen |-> {},
                    people |-> {}, overtaken |-> FALSE])

\* Any forest can have been created, and everybody is in one unit.
OrgInit ==
    /\ unit \in [Units -> {"none", "ACTIVE"}] /\ Exist # {}
    /\ parent \in [Units -> Parents]
    /\ \A u \in Units : parent[u] \in Exist \cup {NoUnit} /\ (u \notin Exist => parent[u] = NoUnit)
    /\ \A S \in SUBSET Exist : S # {} => \E u \in S : parent[u] \notin S
    /\ \E at \in [People -> Exist] :
           member = [u \in Units |-> [p \in People |-> IF at[p] = u THEN "in" ELSE "none"]]
    /\ edit = [e \in Editors |-> NoEdit]
    /\ edits = 0 /\ crossed = FALSE /\ belongs = People /\ caught = {}

(* OrgUnitsService *)

\* create: a leaf.
CreateUnit(u, to) ==
    /\ EditCounted
    /\ unit[u] = "none" /\ to \in Exist \cup {NoUnit}
    /\ unit' = [unit EXCEPT ![u] = "ACTIVE"]
    /\ parent' = [parent EXCEPT ![u] = to]
    /\ UNCHANGED <<member, edit, crossed, belongs, caught>>

\* update with a new parent: both exist and differ.
BeginMove(e, u, to) ==
    /\ {u, to} \subseteq Exist /\ u # to
    /\ Begins(e, "move", "walk", u, to)
    /\ UNCHANGED <<unit, parent, member, crossed, belongs, caught>>

BeginMerge(e, source, target) ==
    /\ {source, target} \subseteq Exist /\ source # target
    /\ Begins(e, "merge", "walk", source, target)
    /\ UNCHANGED <<unit, parent, member, crossed, belongs, caught>>

\* Mutant: only the new parent itself is looked at.
StopsAtParent(u) == NoUnit
\* The parent in the row, if there is one.
ParentOf(u) == IF u \in Exist THEN parent[u] ELSE NoUnit

\* One step of assertNotDescendant.
WalkUp(e) ==
    /\ edit[e] # NoEdit /\ edit[e].stage = "walk"
    /\ LET r == edit[e]
           done == r.at = NoUnit \/ r.at \in r.seen
       IN IF r.at = r.unit THEN Becoming(e, NoEdit)
          ELSE Becoming(e, IF done THEN [r EXCEPT !.stage = IF r.op = "merge" THEN "members" ELSE "write"]
                           ELSE [r EXCEPT !.seen = @ \cup {r.at}, !.at = ParentOf(r.at)])
    /\ UNCHANGED <<unit, parent, member, edits, crossed, belongs, caught>>

\* The active members to move are read before the transaction.
ReadMembers(e) ==
    /\ edit[e] # NoEdit /\ edit[e].stage = "members"
    /\ Becoming(e, [edit[e] EXCEPT !.stage = "write",
                        !.people = {p \in People : member[edit[e].unit][p] = "in"}])
    /\ UNCHANGED <<unit, parent, member, edits, crossed, belongs, caught>>

\* The walks in progress that a new parent overtakes.
WalksOvertaken(e) ==
    [f \in Editors |-> IF f = e \/ edit[f] = NoEdit THEN NoEdit
                       ELSE [edit[f] EXCEPT !.overtaken = TRUE]]

WriteMove(e) ==
    /\ edit[e] # NoEdit /\ edit[e].op = "move" /\ edit[e].stage = "write"
    /\ LET r == edit[e]
       IN IF {r.unit, r.to} \subseteq Exist
          THEN /\ parent' = [parent EXCEPT ![r.unit] = r.to]
               /\ edit' = WalksOvertaken(e)
               /\ crossed' = (crossed \/ r.overtaken)
          ELSE Becoming(e, NoEdit) /\ UNCHANGED <<parent, crossed>>
    /\ UNCHANGED <<unit, member, edits, belongs, caught>>

\* Mutant: a row that was left stays as it is.
JoinsIfNew(row) == IF row = "none" THEN "in" ELSE row
\* upsertActiveMembership
Joined(row) == "in"

\* ps leave one unit (those who are in it) and join another.
Transferred(m, ps, from, to) ==
    [u \in Units |-> [p \in People |->
        IF p \notin ps THEN m[u][p]
        ELSE IF u = to THEN Joined(m[u][p])
        ELSE IF u = from /\ m[u][p] = "in" THEN "left" ELSE m[u][p]]]

\* Children and the members read go to the target; the source is archived.
WriteMerge(e) ==
    /\ edit[e] # NoEdit /\ edit[e].op = "merge" /\ edit[e].stage = "write"
    /\ LET r == edit[e]
           nothingToMove == r.people = {} /\ \A u \in Units : parent[u] # r.unit
       IN IF r.unit \in Exist /\ (r.to \in Exist \/ nothingToMove)
          THEN /\ parent' = [u \in Units |-> IF parent[u] = r.unit THEN r.to ELSE parent[u]]
               /\ member' = Transferred(member, r.people, r.unit, r.to)
               /\ unit' = [unit EXCEPT ![r.unit] = "ARCHIVED"]
               /\ edit' = WalksOvertaken(e)
               /\ crossed' = (crossed \/ r.overtaken)
               /\ caught' = caught \cup (r.people \ belongs)
          ELSE Becoming(e, NoEdit) /\ UNCHANGED <<unit, parent, member, crossed, caught>>
    /\ UNCHANGED <<edits, belongs>>

\* splitUnit: the parent is read, then a sibling is created with some members.
BeginSplit(e, source) ==
    /\ source \in Exist
    /\ Begins(e, "split", "write", source, parent[source])
    /\ UNCHANGED <<unit, parent, member, crossed, belongs, caught>>

WriteSplit(e, u, ps) ==
    /\ edit[e] # NoEdit /\ edit[e].op = "split"
    /\ Becoming(e, NoEdit)
    /\ IF edit[e].to \in Exist \cup {NoUnit}
       THEN /\ unit[u] = "none"
            /\ unit' = [unit EXCEPT ![u] = "ACTIVE"]
            /\ parent' = [parent EXCEPT ![u] = edit[e].to]
            /\ member' = Transferred(member, ps, edit[e].unit, u)
            /\ belongs' = belongs \cup ps
       ELSE UNCHANGED <<unit, parent, member, belongs>>
    /\ UNCHANGED <<edits, crossed, caught>>

\* remove: no child and no active member ...
BeginRemove(e, u) ==
    /\ u \in Exist
    /\ \A v \in Units : parent[v] # u
    /\ \A p \in People : member[u][p] # "in"
    /\ Begins(e, "remove", "write", u, NoUnit)
    /\ UNCHANGED <<unit, parent, member, crossed, belongs, caught>>

\* ... when they were counted.  Memberships go with the row, children become roots.
WriteRemove(e) ==
    /\ edit[e] # NoEdit /\ edit[e].op = "remove"
    /\ Becoming(e, NoEdit)
    /\ LET u == edit[e].unit
       IN /\ unit' = [unit EXCEPT ![u] = "gone"]
          /\ parent' = [v \in Units |-> IF v = u \/ parent[v] = u THEN NoUnit ELSE parent[v]]
          /\ member' = [member EXCEPT ![u] = [p \in People |-> "none"]]
          /\ caught' = caught \cup {p \in People : member[u][p] = "in"}
    /\ UNCHANGED <<edits, crossed, belongs>>

\* addMember: a membership that was left is taken up again.
AddMember(u, p) ==
    /\ EditCounted /\ u \in Exist /\ member[u][p] # "in"
    /\ member' = [member EXCEPT ![u][p] = "in"]
    /\ belongs' = belongs \cup {p}
    /\ UNCHANGED <<unit, parent, edit, crossed, caught>>

RemoveMember(u, p) ==
    /\ EditCounted /\ member[u][p] = "in"
    /\ member' = [member EXCEPT ![u][p] = "left"]
    /\ belongs' = IF Without(p, u) THEN belongs \ {p} ELSE belongs
    /\ UNCHANGED <<unit, parent, edit, crossed, caught>>

\* moveUsers: a transaction for each user.
MovePerson(p, from, to) ==
    /\ EditCounted /\ to \in Exist /\ from \in Exist \cup {NoUnit} /\ from # to
    /\ member' = Transferred(member, {p}, from, to)
    /\ belongs' = belongs \cup {p}
    /\ UNCHANGED <<unit, parent, edit, crossed, caught>>

\* OffboardingService closes every membership.
LeaveOrg(p) ==
    /\ EditCounted
    /\ member' = [u \in Units |-> [member[u] EXCEPT ![p] = IF @ = "in" THEN "left" ELSE @]]
    /\ belongs' = belongs \ {p}
    /\ UNCHANGED <<unit, parent, edit, crossed, caught>>

OrgNext ==
    \/ \E e \in Editors :
           \/ WalkUp(e) \/ ReadMembers(e) \/ WriteMove(e) \/ WriteMerge(e) \/ WriteRemove(e)
           \/ \E u \in Units, v \in Units : BeginMove(e, u, v) \/ BeginMerge(e, u, v)
           \/ \E u \in Units : BeginSplit(e, u) \/ BeginRemove(e, u)
           \/ \E u \in Units, ps \in SUBSET People : WriteSplit(e, u, ps)
    \/ \E u \in Units, v \in Parents :
           \/ CreateUnit(u, v)
           \/ \E p \in People : MovePerson(p, v, u)
    \/ \E u \in Units, p \in People : AddMember(u, p) \/ RemoveMember(u, p)
    \/ \E p \in People : LeaveOrg(p)

OrgSpec == OrgInit /\ [][OrgNext]_orgVars

------------------------------------------------------------------------------
(* Properties *)

\* Every variable holds a value of its type, and only units that exist have a
\* parent or members.
OrgTypeOK ==
    /\ unit \in [Units -> {"none", "ACTIVE", "ARCHIVED", "gone"}]
    /\ parent \in [Units -> Parents]
    /\ member \in [Units -> [People -> {"none", "in", "left"}]]
    /\ \A u \in Units : /\ parent[u] \in Exist \cup {NoUnit}
                        /\ u \notin Exist => parent[u] = NoUnit /\ \A p \in People : member[u][p] = "none"
    /\ edit \in [Editors -> Edits \cup {NoEdit}]
    /\ edits \in 0..MaxEdits /\ crossed \in BOOLEAN
    /\ belongs \subseteq People /\ caught \subseteq People

\* The hierarchy stays a forest: no sequence of moves, merges, splits and
\* deletions makes a unit its own ancestor, as long as no parent is written behind
\* another request's walk.
HierarchyIsForest ==
    crossed \/ \A S \in SUBSET Exist : S # {} => \E u \in S : parent[u] \notin S

\* Reorganizing loses nobody and brings nobody back: a person has an active
\* membership exactly when they were last given one, through any moves, merges,
\* splits, returns to a unit left before and deletions, except those who joined a
\* unit after it was counted empty or left one after a merge had read its members.
EveryoneKeepsAUnit ==
    \A p \in People \ caught : p \in belongs <=> In(p) # {}
================================================================================
