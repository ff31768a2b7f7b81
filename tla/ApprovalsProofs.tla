---------------------------- MODULE ApprovalsProofs ----------------------------
(***************************************************************************)
(* What the approval seam keeps for every set of users, roles, requests    *)
(* and overlapping calls, and what it keeps when calls do not overlap.     *)
(***************************************************************************)
EXTENDS Approvals, TLAPS

\* What a call in flight carries: its row exists, its user is not the
\* requester, its votes are fair; from stage "resolved" on its own vote is among
\* its votes and its role among the roles it read; a call about to replay holds
\* a quorum without a rejection, and its approval was answered.
SoundCall(m) ==
    /\ m.stage # "idle" => Exists(m.req)
    /\ m.stage \in {"opened", "resolved", "applying"} =>
           /\ request[m.req].requester # m.user
           /\ FairVotes(m.votes, request[m.req].requester)
    /\ m.stage \in {"resolved", "applying"} =>
           /\ [user |-> m.user, choice |-> m.choice] \in m.votes
           /\ RoleOf[m.user] \in m.rule.roles
    /\ m.stage = "applying" =>
           /\ m.choice = "approve"
           /\ ~HasReject(m.votes)
           /\ Cardinality(Approvers(m.votes)) >= Quorum(m.rule)
           /\ [user |-> m.user, choice |-> "approve"] \in cast[m.req]

\* What a row holds, and what its replays rest on.
SoundRow(r) ==
    /\ Exists(r) =>
           /\ FairVotes(request[r].decisions, request[r].requester)
           /\ request[r].status \in {"PENDING", "APPROVED"} => ~HasReject(request[r].decisions)
           /\ request[r].status = "REJECTED" => HasReject(request[r].decisions)
           /\ request[r].status = "APPROVED" => Approvers(request[r].decisions) # {}
    /\ applied[r] > 0 =>
           /\ Exists(r)
           /\ \E v \in cast[r] : v.choice = "approve" /\ v.user # request[r].requester

CallsSound == \A c \in Calls : SoundCall(call[c])
RowsSound == \A r \in Requests : SoundRow(r)

IInv == TypeOK /\ CallsSound /\ RowsSound

------------------------------------------------------------------------------
(* The stage of a call tells which fields it has. *)

LEMMA StageShape ==
    ASSUME TypeOK, NEW c \in Calls
    PROVE  /\ call[c].stage = "idle" => call[c] = Idle
           /\ call[c].stage = "opened" => call[c] \in Opened
           /\ call[c].stage \in {"resolved", "applying"} => call[c] \in Resolved
           /\ call[c].stage = "cancelling" => call[c] \in Cancelling
           /\ call[c].stage \in {"idle", "opened", "resolved", "applying", "cancelling"}
  BY DEF TypeOK, Idle, Opened, Resolved, Cancelling

\* A row that exists is a record.
LEMMA RowShape ==
    ASSUME TypeOK, NEW r \in Requests, Exists(r)
    PROVE  request[r] \in Rows
  BY DEF TypeOK, Exists

LEMMA RowsAreNotNone == None \notin Rows
  BY NoneAssumption DEF Rows, Statuses, Votes, Choices

LEMMA ResolveStatusType ==
    ASSUME NEW rule, NEW votes
    PROVE  ResolveStatus(rule, votes) \in {"PENDING", "APPROVED", "REJECTED"}
  BY DEF ResolveStatus

------------------------------------------------------------------------------
(* Type correctness *)

LEMMA InitType == Init => TypeOK
  BY BoundAssumption DEF Init, TypeOK, Workflows

\* Typing alone is not inductive: a call follows its row to the workflow, so
\* the row must exist (CallsSound).
LEMMA NextType == TypeOK /\ CallsSound /\ [Next]_vars => TypeOK'
<1> SUFFICES ASSUME TypeOK, CallsSound, [Next]_vars PROVE TypeOK'
  OBVIOUS
<1> USE DEF TypeOK
<1>1. ASSUME NEW t \in EntityTypes, NEW roles \in SUBSET Roles, NEW all \in BOOLEAN,
             NEW active \in BOOLEAN, UpsertWorkflow(t, roles, all, active)
      PROVE  TypeOK'
  BY <1>1, BoundAssumption DEF UpsertWorkflow, Workflows
<1>2. ASSUME NEW u \in Users, NEW e \in Entities, NEW a \in BOOLEAN,
             NEW r \in Requests, RequireApproval(u, e, a, r)
      PROVE  TypeOK'
  <2>1. [entity |-> e, accepted |-> a, requester |-> u, status |-> "PENDING",
                 decisions |-> {}] \in Rows
    BY DEF Rows, Statuses
  <2> QED  BY <1>2, <2>1 DEF RequireApproval
<1>3. ASSUME NEW e \in Entities, RemoveEntity(e)
      PROVE  TypeOK'
  BY <1>3 DEF RemoveEntity
<1>4. ASSUME NEW c \in Calls, NEW u \in Users, NEW r \in Requests, NEW choice \in Choices,
             OpenDecision(c, u, r, choice)
      PROVE  TypeOK'
  <2>1. request[r] \in Rows
    BY <1>4, RowShape DEF OpenDecision, Pending, NotRequester
  <2>2. [stage |-> "opened", req |-> r, user |-> u, choice |-> choice,
         votes |-> request[r].decisions] \in Opened
    BY <2>1 DEF Opened, Rows
  <2> QED  BY <1>4, <2>2 DEF OpenDecision, NotRequester
<1>5. ASSUME NEW c \in Calls, NEW u \in Users, NEW r \in Requests, OpenCancel(c, u, r)
      PROVE  TypeOK'
  BY <1>5 DEF OpenCancel, Cancelling
<1>6. ASSUME NEW c \in Calls, ReadWorkflow(c)
      PROVE  TypeOK'
  <2> DEFINE m == call[c]
             w == workflow[TypeOf[request[m.req].entity]]
             next == [stage |-> "resolved", req |-> m.req, user |-> m.user, choice |-> m.choice,
                      votes |-> m.votes \cup {[user |-> m.user, choice |-> m.choice]},
                      rule |-> [roles |-> w.roles, requireAll |-> w.requireAll]]
  <2>1. m \in Opened
    BY <1>6, StageShape DEF ReadWorkflow, IsApprover, Undecided, NextDecisions
  <2>2. request[m.req] \in Rows
    BY <1>6, <2>1, RowShape DEF ReadWorkflow, CallsSound, SoundCall, Opened, IsApprover, Undecided, NextDecisions
  <2>3. w \in Workflows
    BY <2>2, TypeAssumption DEF Rows
  <2>4. next \in Resolved
    <3>1. m.votes \cup {[user |-> m.user, choice |-> m.choice]} \in SUBSET Votes
      BY <2>1 DEF Opened, Votes
    <3>2. [roles |-> w.roles, requireAll |-> w.requireAll] \in Rules
      BY <2>3 DEF Workflows, Rules
    <3> QED  BY <2>1, <3>1, <3>2 DEF Opened, Resolved
  <2> QED  BY <1>6, <2>4 DEF ReadWorkflow, IsApprover, Undecided, NextDecisions
<1>7. ASSUME NEW c \in Calls, WriteDecision(c)
      PROVE  TypeOK'
  <2> DEFINE m == call[c]
             status == ResolveStatus(m.rule, m.votes)
  <2>1. m \in Resolved
    BY <1>7, StageShape DEF WriteDecision, AfterWrite
  <2>2. request[m.req] \in Rows
    BY <1>7, <2>1, RowShape DEF WriteDecision, CallsSound, SoundCall, Resolved, AfterWrite
  <2>3. request' \in [Requests -> Rows \cup {None}]
    <3>1. status \in Statuses
      BY ResolveStatusType DEF Statuses
    <3> DEFINE row == [request[m.req] EXCEPT !.status = status, !.decisions = m.votes]
    <3>2. request' = [request EXCEPT ![m.req] = row]
      BY <1>7, <2>1, <2>2 DEF WriteDecision, Resolved, Rows, AfterWrite
    <3>3. row \in Rows
      BY <2>1, <2>2, <3>1 DEF Rows, Resolved
    <3>4. m.req \in Requests
      BY <2>1 DEF Resolved
    <3> HIDE DEF row, m
    <3> QED  BY <3>2, <3>3, <3>4
  <2>4. cast' \in [Requests -> SUBSET Votes]
    BY <1>7, <2>1 DEF WriteDecision, Resolved, Votes, AfterWrite
  <2>5. [m EXCEPT !.stage = "applying"] \in Resolved
    BY <2>1 DEF Resolved
  <2>6. call' \in [Calls -> {Idle} \cup Opened \cup Resolved \cup Cancelling]
    BY <1>7, <2>5 DEF WriteDecision, AfterWrite
  <2> QED  BY <1>7, <2>3, <2>4, <2>6 DEF WriteDecision, AfterWrite
<1>8. ASSUME NEW c \in Calls, Apply(c)
      PROVE  TypeOK'
  <2>1. call[c].req \in Requests
    BY <1>8, StageShape DEF Apply, Resolved
  <2> QED  BY <1>8, <2>1 DEF Apply
<1>9. ASSUME NEW c \in Calls, WriteCancel(c)
      PROVE  TypeOK'
  <2>1. call[c] \in Cancelling
    BY <1>9, StageShape DEF WriteCancel, CancelStatus
  <2>2. request[call[c].req] \in Rows
    BY <1>9, <2>1, RowShape DEF WriteCancel, CallsSound, SoundCall, Cancelling, CancelStatus
  <2>3. [request[call[c].req] EXCEPT !.status = "CANCELLED"] \in Rows
    BY <2>2 DEF Rows, Statuses
  <2> QED  BY <1>9, <2>1, <2>3 DEF WriteCancel, Cancelling, CancelStatus
<1>10. CASE Crash
  BY <1>10, BoundAssumption DEF Crash
<1>11. CASE UNCHANGED vars
  BY <1>11 DEF vars
<1> QED
  BY <1>1, <1>2, <1>3, <1>4, <1>5, <1>6, <1>7, <1>8, <1>9, <1>10, <1>11 DEF Next, CallStep

------------------------------------------------------------------------------
(* Rows and answers are never withdrawn, and a row keeps its requester. *)

RowsPersist ==
    \A r \in Requests :
        /\ Exists(r) => Exists(r)' /\ request'[r].requester = request[r].requester
        /\ cast[r] \subseteq cast'[r]

LEMMA NextRows == TypeOK /\ CallsSound /\ [Next]_vars => RowsPersist
<1> SUFFICES ASSUME TypeOK, CallsSound, [Next]_vars, NEW r \in Requests
             PROVE  /\ Exists(r) => Exists(r)' /\ request'[r].requester = request[r].requester
                    /\ cast[r] \subseteq cast'[r]
  BY DEF RowsPersist
<1>1. CASE UNCHANGED <<request, cast>>
  BY <1>1 DEF Exists
<1>2. ASSUME NEW u \in Users, NEW e \in Entities, NEW a \in BOOLEAN,
             NEW q \in Requests, RequireApproval(u, e, a, q)
      PROVE  /\ Exists(r) => Exists(r)' /\ request'[r].requester = request[r].requester
             /\ cast[r] \subseteq cast'[r]
  BY <1>2 DEF RequireApproval, Exists, TypeOK
<1>3. ASSUME NEW c \in Calls, WriteDecision(c)
      PROVE  /\ Exists(r) => Exists(r)' /\ request'[r].requester = request[r].requester
             /\ cast[r] \subseteq cast'[r]
  <2>1. call[c] \in Resolved
    BY <1>3, StageShape DEF WriteDecision, AfterWrite
  <2>2. cast[r] \subseteq cast'[r]
    BY <1>3, <2>1 DEF WriteDecision, TypeOK, Resolved, AfterWrite
  <2>3. r # call[c].req => request'[r] = request[r]
    BY <1>3, <2>1 DEF WriteDecision, TypeOK, Resolved, AfterWrite
  <2>4. CASE r = call[c].req
    <3>1. request[r] \in Rows
      BY <1>3, <2>1, <2>4, RowShape DEF WriteDecision, CallsSound, SoundCall, Resolved, AfterWrite
    <3> DEFINE status == ResolveStatus(call[c].rule, call[c].votes)
    <3>0. status \in Statuses
      BY ResolveStatusType DEF Statuses
    <3>2. request'[r] = [request[r] EXCEPT !.status = status, !.decisions = call[c].votes]
      BY <1>3, <2>1, <2>4, <3>1 DEF WriteDecision, TypeOK, Resolved, Rows, AfterWrite
    <3> HIDE DEF status
    <3>3. request'[r] \in Rows
      BY <2>1, <3>0, <3>1, <3>2 DEF Rows, Resolved
    <3>4. request'[r].requester = request[r].requester
      BY <3>1, <3>2 DEF Rows
    <3> QED  BY <2>2, <3>3, <3>4, RowsAreNotNone DEF Exists
  <2> QED  BY <2>2, <2>3, <2>4 DEF Exists
<1>4. ASSUME NEW c \in Calls, WriteCancel(c)
      PROVE  /\ Exists(r) => Exists(r)' /\ request'[r].requester = request[r].requester
             /\ cast[r] \subseteq cast'[r]
  <2>1. call[c] \in Cancelling
    BY <1>4, StageShape DEF WriteCancel, CancelStatus
  <2>2. r # call[c].req => request'[r] = request[r]
    BY <1>4, <2>1 DEF WriteCancel, TypeOK, Cancelling, CancelStatus
  <2>3. CASE r = call[c].req
    <3>1. request[r] \in Rows
      BY <1>4, <2>1, <2>3, RowShape DEF WriteCancel, CallsSound, SoundCall, Cancelling, CancelStatus
    <3>2. request'[r] = [request[r] EXCEPT !.status = "CANCELLED"]
      BY <1>4, <2>1, <2>3, <3>1 DEF WriteCancel, TypeOK, Cancelling, Rows, CancelStatus
    <3>3. request'[r] \in Rows /\ request'[r].requester = request[r].requester
      BY <3>1, <3>2 DEF Rows, Statuses
    <3> QED  BY <1>4, <3>3, RowsAreNotNone DEF Exists, WriteCancel, CancelStatus
  <2> QED  BY <1>4, <2>2, <2>3 DEF Exists, WriteCancel, CancelStatus
<1> QED
  BY <1>1, <1>2, <1>3, <1>4 DEF Next, CallStep, vars, UpsertWorkflow, RemoveEntity,
     OpenDecision, OpenCancel, ReadWorkflow, Apply, Crash, NotRequester, IsApprover, Undecided, NextDecisions

------------------------------------------------------------------------------
(* Calls *)

\* A call that a step leaves alone stays sound.
LEMMA SoundCallKept ==
    ASSUME TypeOK, CallsSound, RowsPersist, NEW c \in Calls, call'[c] = call[c]
    PROVE  SoundCall(call[c])'
<1> DEFINE m == call[c]
<1>1. SoundCall(m)
  BY DEF CallsSound
<1>2. CASE m.stage = "idle"
  BY <1>2 DEF SoundCall
<1>3. CASE m.stage # "idle"
  <2>1. m.req \in Requests
    BY <1>3, StageShape DEF Opened, Resolved, Cancelling
  <2>2. /\ Exists(m.req)' /\ request'[m.req].requester = request[m.req].requester
        /\ cast[m.req] \subseteq cast'[m.req]
    BY <1>1, <1>3, <2>1 DEF RowsPersist, SoundCall
  <2> QED  BY <1>1, <2>2 DEF SoundCall, Exists
<1> QED  BY <1>2, <1>3

LEMMA SoundIdle == ASSUME NEW c \in Calls, call'[c] = Idle PROVE SoundCall(call[c])'
  BY DEF SoundCall, Idle

LEMMA NextCalls == TypeOK /\ CallsSound /\ RowsSound /\ [Next]_vars => CallsSound'
<1> SUFFICES ASSUME TypeOK, CallsSound, RowsSound, [Next]_vars, NEW d \in Calls
             PROVE  SoundCall(call[d])'
  BY DEF CallsSound
<1>p. RowsPersist
  BY NextRows
<1>1. CASE call'[d] = call[d]
  BY <1>1, <1>p, SoundCallKept
<1>2. CASE call'[d] = Idle
  BY <1>2, SoundIdle
<1>3. ASSUME NEW u \in Users, NEW r \in Requests, NEW choice \in Choices,
             OpenDecision(d, u, r, choice)
      PROVE  SoundCall(call[d])'
  <2>1. call'[d] = [stage |-> "opened", req |-> r, user |-> u, choice |-> choice,
                    votes |-> request[r].decisions]
    BY <1>3 DEF OpenDecision, TypeOK, NotRequester
  <2>2. Exists(r) /\ request[r].requester # u /\ request' = request
    BY <1>3 DEF OpenDecision, Pending, NotRequester
  <2>3. FairVotes(request[r].decisions, request[r].requester)
    BY <2>2 DEF RowsSound, SoundRow
  <2> QED  BY <2>1, <2>2, <2>3 DEF SoundCall, Exists
<1>4. ASSUME NEW u \in Users, NEW r \in Requests, OpenCancel(d, u, r)
      PROVE  SoundCall(call[d])'
  <2>1. call'[d] = [stage |-> "cancelling", req |-> r, user |-> u]
    BY <1>4 DEF OpenCancel, TypeOK
  <2> QED  BY <1>4, <2>1 DEF OpenCancel, Pending, SoundCall, Exists
<1>5. ASSUME ReadWorkflow(d), call'[d] # Idle
      PROVE  SoundCall(call[d])'
  <2> DEFINE m == call[d]
             w == workflow[TypeOf[request[m.req].entity]]
             own == [user |-> m.user, choice |-> m.choice]
  <2>1. m \in Opened /\ SoundCall(m) /\ m.stage = "opened"
    BY <1>5, StageShape DEF ReadWorkflow, CallsSound, IsApprover, Undecided, NextDecisions
  <2>2. /\ call'[d] = [stage |-> "resolved", req |-> m.req, user |-> m.user,
                       choice |-> m.choice, votes |-> m.votes \cup {own},
                       rule |-> [roles |-> w.roles, requireAll |-> w.requireAll]]
        /\ RoleOf[m.user] \in w.roles
        /\ \A v \in m.votes : v.user # m.user
    BY <1>5 DEF ReadWorkflow, TypeOK, IsApprover, Undecided, NextDecisions
  <2>3. request[m.req].requester # m.user /\ FairVotes(m.votes, request[m.req].requester)
    BY <2>1 DEF SoundCall
  <2>4. FairVotes(m.votes \cup {own}, request[m.req].requester)
    <3>1. own.user = m.user
      OBVIOUS
    <3> HIDE DEF own, m
    <3> QED  BY <2>2, <2>3, <3>1 DEF FairVotes
  <2>5. request' = request
    BY <1>5 DEF ReadWorkflow, IsApprover, Undecided, NextDecisions
  <2> HIDE DEF w, m
  <2> QED  BY <2>1, <2>2, <2>3, <2>4, <2>5 DEF SoundCall, Exists
<1>6. ASSUME WriteDecision(d), call'[d] # Idle
      PROVE  SoundCall(call[d])'
  <2> DEFINE m == call[d]
             own == [user |-> m.user, choice |-> m.choice]
  <2>1. m \in Resolved /\ SoundCall(m) /\ m.stage = "resolved"
    BY <1>6, StageShape DEF WriteDecision, CallsSound, AfterWrite
  <2>2. /\ ResolveStatus(m.rule, m.votes) = "APPROVED"
        /\ call'[d] = [m EXCEPT !.stage = "applying"]
        /\ own \in cast'[m.req]
    BY <1>6, <2>1 DEF WriteDecision, TypeOK, Resolved, AfterWrite
  <2>3. ~HasReject(m.votes) /\ Cardinality(Approvers(m.votes)) >= Quorum(m.rule)
    BY <2>2 DEF ResolveStatus
  <2>4. m.choice = "approve" /\ own \in m.votes
    BY <2>1, <2>3 DEF SoundCall, HasReject, Resolved, Choices
  <2>5. /\ call'[d].stage = "applying" /\ call'[d].req = m.req /\ call'[d].user = m.user
        /\ call'[d].choice = m.choice /\ call'[d].votes = m.votes /\ call'[d].rule = m.rule
    BY <2>1, <2>2 DEF Resolved
  <2>6. request'[m.req] # None /\ request'[m.req].requester = request[m.req].requester
    BY <1>p, <2>1 DEF RowsPersist, SoundCall, Resolved, Exists
  <2> HIDE DEF m
  <2> QED  BY <2>1, <2>2, <2>3, <2>4, <2>5, <2>6 DEF SoundCall, Exists
<1>7. Next => call'[d] \in {call[d], Idle}
              \/ (\E u \in Users, r \in Requests, choice \in Choices : OpenDecision(d, u, r, choice))
              \/ (\E u \in Users, r \in Requests : OpenCancel(d, u, r))
              \/ ReadWorkflow(d) \/ WriteDecision(d)
  BY DEF Next, CallStep, TypeOK, UpsertWorkflow, RequireApproval, RemoveEntity, OpenDecision,
     OpenCancel, ReadWorkflow, WriteDecision, Apply, WriteCancel, Crash, NotRequester, IsApprover, Undecided, NextDecisions, AfterWrite, CancelStatus
<1> QED  BY <1>1, <1>2, <1>3, <1>4, <1>5, <1>6, <1>7 DEF vars

------------------------------------------------------------------------------
(* Rows *)

\* A row that a step leaves alone stays sound.
LEMMA SoundRowKept ==
    ASSUME RowsSound, RowsPersist, NEW r \in Requests,
           request'[r] = request[r], applied'[r] = applied[r]
    PROVE  SoundRow(r)'
  BY DEF RowsSound, SoundRow, RowsPersist, Exists

LEMMA NextRowsSound == TypeOK /\ CallsSound /\ RowsSound /\ [Next]_vars => RowsSound'
<1> SUFFICES ASSUME TypeOK, CallsSound, RowsSound, [Next]_vars, NEW r \in Requests
             PROVE  SoundRow(r)'
  BY DEF RowsSound
<1>p. RowsPersist
  BY NextRows
<1>1. CASE request'[r] = request[r] /\ applied'[r] = applied[r]
  BY <1>1, <1>p, SoundRowKept
<1>2. ASSUME NEW u \in Users, NEW e \in Entities, NEW a \in BOOLEAN, RequireApproval(u, e, a, r)
      PROVE  SoundRow(r)'
  <2>1. request'[r] = [entity |-> e, accepted |-> a, requester |-> u, status |-> "PENDING",
                 decisions |-> {}]
    BY <1>2 DEF RequireApproval, TypeOK
  <2>2. ~(applied'[r] > 0)
    BY <1>2 DEF RequireApproval, RowsSound, SoundRow
  <2> QED  BY <2>1, <2>2 DEF SoundRow, FairVotes, HasReject
<1>3. ASSUME NEW c \in Calls, WriteDecision(c), r = call[c].req
      PROVE  SoundRow(r)'
  <2> DEFINE m == call[c]
  <2>1. m \in Resolved /\ SoundCall(m) /\ m.stage = "resolved" /\ request[r] \in Rows
    BY <1>3, StageShape, RowShape DEF WriteDecision, CallsSound, SoundCall, AfterWrite
  <2>2. /\ request'[r].decisions = m.votes
        /\ request'[r].requester = request[r].requester
        /\ request'[r].status = ResolveStatus(m.rule, m.votes)
        /\ applied' = applied
    BY <1>3, <2>1 DEF WriteDecision, TypeOK, Rows, AfterWrite
  <2>3. FairVotes(m.votes, request[r].requester)
    BY <1>3, <2>1 DEF SoundCall
  <2>4. ~HasReject(m.votes) => Approvers(m.votes) # {}
    <3>1. [user |-> m.user, choice |-> m.choice] \in m.votes /\ m.choice \in Choices
      BY <2>1 DEF SoundCall, Resolved
    <3>2. ~HasReject(m.votes) => [user |-> m.user, choice |-> "approve"] \in m.votes
      BY <3>1 DEF HasReject, Choices
    <3>3. [user |-> m.user, choice |-> "approve"] \in m.votes => m.user \in Approvers(m.votes)
      BY DEF Approvers
    <3> QED  BY <3>2, <3>3
  <2>5. /\ request'[r].status \in {"PENDING", "APPROVED"} => ~HasReject(m.votes)
        /\ request'[r].status = "REJECTED" => HasReject(m.votes)
    BY <2>2 DEF ResolveStatus
  <2> HIDE DEF m
  <2> QED  BY <1>p, <2>2, <2>3, <2>4, <2>5 DEF SoundRow, RowsSound, RowsPersist
<1>4. ASSUME NEW c \in Calls, WriteCancel(c), r = call[c].req
      PROVE  SoundRow(r)'
  <2>1. Exists(r)
    BY <1>4 DEF WriteCancel, CallsSound, SoundCall, CancelStatus
  <2>2. request[r] \in Rows
    BY <2>1, RowShape
  <2>3. request'[r] = [request[r] EXCEPT !.status = "CANCELLED"] /\ applied' = applied
    BY <1>4, <2>2 DEF WriteCancel, TypeOK, Rows, CancelStatus
  <2>4. /\ request'[r].status = "CANCELLED"
        /\ request'[r].decisions = request[r].decisions
        /\ request'[r].requester = request[r].requester
    BY <2>2, <2>3 DEF Rows
  <2> QED  BY <1>p, <2>1, <2>3, <2>4 DEF SoundRow, RowsSound, RowsPersist
<1>5. ASSUME NEW c \in Calls, Apply(c), r = call[c].req
      PROVE  SoundRow(r)'
  <2>1. /\ Exists(r)
        /\ [user |-> call[c].user, choice |-> "approve"] \in cast[r]
        /\ request[r].requester # call[c].user
    BY <1>5 DEF Apply, CallsSound, SoundCall
  <2> QED  BY <1>5, <2>1 DEF Apply, SoundRow, RowsSound, Exists
<1>6. Next => \/ request'[r] = request[r] /\ applied'[r] = applied[r]
              \/ \E u \in Users, e \in Entities, a \in BOOLEAN : RequireApproval(u, e, a, r)
              \/ \E c \in Calls : (WriteDecision(c) \/ WriteCancel(c) \/ Apply(c)) /\ r = call[c].req
  BY DEF Next, CallStep, TypeOK, UpsertWorkflow, RequireApproval, RemoveEntity, OpenDecision,
     OpenCancel, ReadWorkflow, WriteDecision, Apply, WriteCancel, Crash, NotRequester, IsApprover, Undecided, NextDecisions, AfterWrite, CancelStatus
<1> QED  BY <1>1, <1>2, <1>3, <1>4, <1>5, <1>6 DEF vars

------------------------------------------------------------------------------
(* The invariant *)

LEMMA InitInv == Init => IInv
<1> SUFFICES ASSUME Init PROVE IInv
  OBVIOUS
<1>1. TypeOK
  BY InitType
<1>2. CallsSound
  BY DEF Init, CallsSound, SoundCall, Idle
<1>3. RowsSound
  BY DEF Init, RowsSound, SoundRow, Exists
<1> QED  BY <1>1, <1>2, <1>3 DEF IInv

\* The inductive invariant: every reachable state is well typed, and every call
\* in flight and every row is sound.
THEOREM Inductive == Spec => []IInv
<1>1. IInv /\ [Next]_vars => IInv'
  BY NextType, NextCalls, NextRowsSound DEF IInv
<1> QED  BY InitInv, <1>1, PTL DEF Spec

\* Every variable of the approval service stays in its type.
THEOREM TypeCorrect == Spec => []TypeOK
<1>1. IInv => TypeOK
  BY DEF IInv
<1> QED  BY Inductive, <1>1, PTL

\* However calls overlap, rows and the writes in flight hold one vote per user
\* and none of the requester.
THEOREM Eligibility == Spec => []DecidersEligible
<1>1. IInv => DecidersEligible
  BY DEF IInv, CallsSound, RowsSound, SoundCall, SoundRow, DecidersEligible
<1> QED  BY Inductive, <1>1, PTL

\* A row's status always agrees with the decisions stored beside it.
THEOREM StatusAgrees == Spec => []StatusMatchesDecisions
<1>1. IInv => StatusMatchesDecisions
  BY DEF IInv, RowsSound, SoundRow, StatusMatchesDecisions
<1> QED  BY Inductive, <1>1, PTL

\* A call about to replay an edit holds a quorum of eligible votes.
THEOREM ReplayGrounded == Spec => []ReplayHasGrounds
<1>1. ASSUME IInv, NEW c \in Calls, call[c].stage = "applying"
      PROVE  LET m == call[c]
             IN /\ ~HasReject(m.votes)
                /\ m.user \in Approvers(m.votes)
                /\ RoleOf[m.user] \in m.rule.roles
                /\ Cardinality(Approvers(m.votes)) >= Quorum(m.rule)
                /\ request[m.req].requester \notin Approvers(m.votes)
  <2> DEFINE m == call[c]
  <2>1. SoundCall(m) /\ m.stage = "applying"
    BY <1>1 DEF IInv, CallsSound
  <2>2. m.user \in Approvers(m.votes)
    BY <2>1 DEF SoundCall, Approvers
  <2>3. request[m.req].requester \notin Approvers(m.votes)
    BY <2>1 DEF SoundCall, FairVotes, Approvers
  <2> QED  BY <2>1, <2>2, <2>3 DEF SoundCall
<1>2. IInv => ReplayHasGrounds
  BY <1>1 DEF ReplayHasGrounds
<1> QED  BY Inductive, <1>2, PTL

\* No edit is replayed unless someone other than its requester had an approval
\* of it accepted.
THEOREM ReplayApproved == Spec => []AppliedWasApproved
<1>1. IInv => AppliedWasApproved
  BY DEF IInv, RowsSound, SoundRow, AppliedWasApproved
<1> QED  BY Inductive, <1>1, PTL

------------------------------------------------------------------------------
(***************************************************************************)
(* What the approval seam keeps when no two calls overlap: a settled       *)
(* request stays settled, no vote is lost and an edit is replayed at most  *)
(* once, so the service implements ApprovalIntent.                         *)
(***************************************************************************)

\* At most one call is in flight.
OneCall == \A c, d \in Calls : c = d

\* The row a call read is still the row it will write: the request is open,
\* or, for a replay, approved and not yet replayed.
FreshCall(m) ==
    /\ m.stage \in {"opened", "resolved", "cancelling"} =>
           request[m.req].status = "PENDING"
    /\ m.stage = "opened" => m.votes = request[m.req].decisions
    /\ m.stage = "resolved" =>
           /\ m.votes = request[m.req].decisions \cup {[user |-> m.user, choice |-> m.choice]}
           /\ \A v \in request[m.req].decisions : v.user # m.user
    /\ m.stage = "applying" =>
           request[m.req].status = "APPROVED" /\ applied[m.req] = 0

\* Only an approved request has been replayed, and once.
ReplayedOnce(r) ==
    applied[r] # 0 => Exists(r) /\ request[r].status = "APPROVED" /\ applied[r] = 1

SInv ==
    /\ IInv
    /\ \A c \in Calls : FreshCall(call[c])
    /\ \A r \in Requests : ReplayedOnce(r)

LEMMA InitSerial == Init => SInv
<1> SUFFICES ASSUME Init PROVE SInv
  OBVIOUS
<1>1. \A c \in Calls : FreshCall(call[c])
  BY DEF Init, FreshCall, Idle
<1>2. \A r \in Requests : ReplayedOnce(r)
  BY DEF Init, ReplayedOnce
<1> QED  BY InitInv, <1>1, <1>2 DEF SInv

\* A step that leaves the rows and the call alone keeps the call fresh.
LEMMA FreshKept ==
    ASSUME SInv, NEW c \in Calls, call'[c] = call[c], applied' = applied,
           \A r \in Requests : Exists(r) => request'[r] = request[r]
    PROVE  FreshCall(call[c])'
<1>1. FreshCall(call[c]) /\ SoundCall(call[c]) /\ TypeOK
  BY DEF SInv, IInv, CallsSound
<1>2. call[c].stage # "idle" => call[c].req \in Requests /\ Exists(call[c].req)
  BY <1>1, StageShape DEF SoundCall, Opened, Resolved, Cancelling
<1> QED  BY <1>1, <1>2 DEF FreshCall

LEMMA FreshIdle == ASSUME NEW c \in Calls, call'[c] = Idle PROVE FreshCall(call[c])'
  BY DEF FreshCall, Idle

LEMMA FreshNext ==
    ASSUME OneCall, SInv, [Next]_vars, NEW d \in Calls
    PROVE  FreshCall(call[d])'
<1> USE DEF SInv, IInv
<1>1. ASSUME call'[d] = call[d], applied' = applied,
             \A r \in Requests : Exists(r) => request'[r] = request[r]
      PROVE  FreshCall(call[d])'
  BY <1>1, FreshKept
<1>2. CASE call'[d] = Idle
  BY <1>2, FreshIdle
<1>3. ASSUME NEW u \in Users, NEW r \in Requests, NEW choice \in Choices,
             OpenDecision(d, u, r, choice)
      PROVE  FreshCall(call[d])'
  <2>1. call'[d] = [stage |-> "opened", req |-> r, user |-> u, choice |-> choice,
                    votes |-> request[r].decisions]
    BY <1>3 DEF OpenDecision, TypeOK, NotRequester
  <2> QED  BY <1>3, <2>1 DEF OpenDecision, Pending, FreshCall, NotRequester
<1>4. ASSUME NEW u \in Users, NEW r \in Requests, OpenCancel(d, u, r)
      PROVE  FreshCall(call[d])'
  <2>1. call'[d] = [stage |-> "cancelling", req |-> r, user |-> u]
    BY <1>4 DEF OpenCancel, TypeOK
  <2> QED  BY <1>4, <2>1 DEF OpenCancel, Pending, FreshCall
<1>5. ASSUME ReadWorkflow(d), call'[d] # Idle
      PROVE  FreshCall(call[d])'
  <2> DEFINE m == call[d]
             w == workflow[TypeOf[request[m.req].entity]]
  <2>1. m.stage = "opened" /\ FreshCall(m) /\ request' = request
    BY <1>5 DEF ReadWorkflow, IsApprover, Undecided, NextDecisions
  <2>2. /\ call'[d] = [stage |-> "resolved", req |-> m.req, user |-> m.user, choice |-> m.choice,
                       votes |-> m.votes \cup {[user |-> m.user, choice |-> m.choice]},
                       rule |-> [roles |-> w.roles, requireAll |-> w.requireAll]]
        /\ \A v \in m.votes : v.user # m.user
    BY <1>5 DEF ReadWorkflow, TypeOK, IsApprover, Undecided, NextDecisions
  <2> HIDE DEF w, m
  <2> QED  BY <2>1, <2>2 DEF FreshCall
<1>6. ASSUME WriteDecision(d), call'[d] # Idle
      PROVE  FreshCall(call[d])'
  <2> DEFINE m == call[d]
  <2>1. m \in Resolved /\ SoundCall(m) /\ FreshCall(m) /\ m.stage = "resolved"
    BY <1>6, StageShape DEF WriteDecision, CallsSound, AfterWrite
  <2>2. request[m.req] \in Rows /\ m.req \in Requests
    BY <2>1, RowShape DEF SoundCall, Resolved
  <2>3. /\ call'[d] = [m EXCEPT !.stage = "applying"]
        /\ request'[m.req].status = "APPROVED"
        /\ applied' = applied
    BY <1>6, <2>1, <2>2 DEF WriteDecision, TypeOK, Rows, AfterWrite
  <2>4. applied[m.req] = 0
    BY <2>1, <2>2 DEF ReplayedOnce, FreshCall
  <2>5. call'[d].stage = "applying" /\ call'[d].req = m.req
    BY <2>1, <2>3 DEF Resolved
  <2> HIDE DEF m
  <2> QED  BY <2>3, <2>4, <2>5 DEF FreshCall
<1>7. Next => \/ /\ call'[d] = call[d] /\ applied' = applied
                 /\ \A r \in Requests : Exists(r) => request'[r] = request[r]
              \/ call'[d] = Idle
              \/ \E u \in Users, r \in Requests, choice \in Choices : OpenDecision(d, u, r, choice)
              \/ \E u \in Users, r \in Requests : OpenCancel(d, u, r)
              \/ ReadWorkflow(d) \/ WriteDecision(d)
  BY DEF OneCall, Next, CallStep, TypeOK, UpsertWorkflow, RequireApproval, RemoveEntity,
     OpenDecision, OpenCancel, ReadWorkflow, WriteDecision, Apply, WriteCancel, Crash, NotRequester, IsApprover, Undecided, NextDecisions, AfterWrite, CancelStatus
<1> QED  BY <1>1, <1>2, <1>3, <1>4, <1>5, <1>6, <1>7 DEF vars

LEMMA OnceNext ==
    ASSUME SInv, [Next]_vars, NEW r \in Requests
    PROVE  ReplayedOnce(r)'
<1> USE DEF SInv, IInv
<1>1. CASE request'[r] = request[r] /\ applied'[r] = applied[r]
  BY <1>1 DEF ReplayedOnce, Exists
<1>2. ASSUME NEW u \in Users, NEW e \in Entities, NEW a \in BOOLEAN, RequireApproval(u, e, a, r)
      PROVE  ReplayedOnce(r)'
  BY <1>2 DEF RequireApproval, ReplayedOnce
<1>3. ASSUME NEW c \in Calls, WriteDecision(c) \/ WriteCancel(c), r = call[c].req
      PROVE  ReplayedOnce(r)'
  <2>1. request[r].status = "PENDING" /\ applied' = applied
    BY <1>3 DEF WriteDecision, WriteCancel, FreshCall, AfterWrite, CancelStatus
  <2> QED  BY <2>1 DEF ReplayedOnce
<1>4. ASSUME NEW c \in Calls, Apply(c), r = call[c].req
      PROVE  ReplayedOnce(r)'
  <2>1. Exists(r) /\ request[r].status = "APPROVED" /\ applied[r] = 0 /\ request' = request
    BY <1>4 DEF Apply, FreshCall, CallsSound, SoundCall
  <2> QED  BY <1>4, <2>1 DEF Apply, ReplayedOnce, Exists, TypeOK
<1>5. Next => \/ request'[r] = request[r] /\ applied'[r] = applied[r]
              \/ \E u \in Users, e \in Entities, a \in BOOLEAN : RequireApproval(u, e, a, r)
              \/ \E c \in Calls : (WriteDecision(c) \/ WriteCancel(c) \/ Apply(c)) /\ r = call[c].req
  BY DEF Next, CallStep, TypeOK, UpsertWorkflow, RequireApproval, RemoveEntity, OpenDecision,
     OpenCancel, ReadWorkflow, WriteDecision, Apply, WriteCancel, Crash, NotRequester, IsApprover, Undecided, NextDecisions, AfterWrite, CancelStatus
<1> QED  BY <1>1, <1>2, <1>3, <1>4, <1>5 DEF vars

LEMMA SerialInductive == ASSUME OneCall PROVE SInv /\ [Next]_vars => SInv'
<1> SUFFICES ASSUME SInv, [Next]_vars PROVE SInv'
  OBVIOUS
<1>1. IInv'
  BY NextType, NextCalls, NextRowsSound DEF SInv, IInv
<1> QED  BY <1>1, FreshNext, OnceNext DEF SInv

\* When calls do not overlap, no edit is replayed twice.
THEOREM SerialOnce == ASSUME OneCall PROVE Spec => []AppliedAtMostOnce
<1>1. SInv => AppliedAtMostOnce
  BY DEF SInv, ReplayedOnce, AppliedAtMostOnce, IInv, TypeOK
<1> QED  BY InitSerial, SerialInductive, <1>1, PTL DEF Spec

------------------------------------------------------------------------------
(* Refinement *)

\* A step that changes no row and no count maps to a stutter.
LEMMA Stutter ==
    ASSUME request' = request, applied' = applied
    PROVE  UNCHANGED <<StatusOf, VotesOf, applied>>
  BY DEF StatusOf, VotesOf, Exists

\* What a step that writes one row does to the mapped variables.
LEMMA OneRow ==
    ASSUME TypeOK, NEW r \in Requests, NEW row \in Rows, request' = [request EXCEPT ![r] = row]
    PROVE  /\ StatusOf' = [StatusOf EXCEPT ![r] = row.status]
           /\ VotesOf' = [VotesOf EXCEPT ![r] = row.decisions]
<1>1. request'[r] = row /\ \A q \in Requests : q # r => request'[q] = request[q]
  BY DEF TypeOK
<1>2. Exists(r)' /\ \A q \in Requests : q # r => Exists(q)' = Exists(q)
  BY <1>1, RowsAreNotNone DEF Exists
<1>3. /\ \A q \in Requests : StatusOf'[q] = IF q = r THEN row.status ELSE StatusOf[q]
      /\ \A q \in Requests : VotesOf'[q] = IF q = r THEN row.decisions ELSE VotesOf[q]
  BY <1>1, <1>2 DEF StatusOf, VotesOf, Exists
<1>4. /\ StatusOf' = [q \in Requests |-> StatusOf'[q]]
      /\ VotesOf' = [q \in Requests |-> VotesOf'[q]]
      /\ StatusOf = [q \in Requests |-> StatusOf[q]]
      /\ VotesOf = [q \in Requests |-> VotesOf[q]]
  BY DEF StatusOf, VotesOf
<1> QED  BY <1>3, <1>4

LEMMA Simulation ==
    ASSUME OneCall, SInv, [Next]_vars
    PROVE  [Intent!Next]_<<StatusOf, VotesOf, applied>>
<1> USE DEF SInv, IInv
<1>1. ASSUME NEW u \in Users, NEW e \in Entities, NEW a \in BOOLEAN,
             NEW r \in Requests, RequireApproval(u, e, a, r)
      PROVE  Intent!Next
  <2> DEFINE row == [entity |-> e, accepted |-> a, requester |-> u, status |-> "PENDING",
                 decisions |-> {}]
  <2>1. row \in Rows
    BY DEF Rows, Statuses
  <2>2. StatusOf' = [StatusOf EXCEPT ![r] = "PENDING"] /\ VotesOf' = [VotesOf EXCEPT ![r] = {}]
    BY <1>1, <2>1, OneRow DEF RequireApproval
  <2>3. StatusOf[r] = "NONE" /\ VotesOf[r] = {} /\ applied' = applied
    BY <1>1 DEF RequireApproval, StatusOf, VotesOf
  <2>4. VotesOf' = VotesOf
    BY <2>2, <2>3 DEF VotesOf
  <2> QED  BY <2>2, <2>3, <2>4 DEF Intent!Next, Intent!Open
<1>2. ASSUME NEW c \in Calls, WriteDecision(c)
      PROVE  Intent!Next
  <2>1. call[c] \in Resolved /\ SoundCall(call[c]) /\ FreshCall(call[c])
        /\ call[c].stage = "resolved"
    BY <1>2, StageShape DEF WriteDecision, CallsSound, AfterWrite
  <2>2. PICK m \in Resolved : m = call[c]
    BY <2>1
  <2>3. PICK r \in Requests, u \in Users, choice \in Choices :
            r = m.req /\ u = m.user /\ choice = m.choice
    BY DEF Resolved
  <2> DEFINE status == ResolveStatus(m.rule, m.votes)
  <2>4. request[r] \in Rows
    BY <2>1, <2>2, <2>3, RowShape DEF SoundCall
  <2>5. PICK row \in Rows : row = [request[r] EXCEPT !.status = status, !.decisions = m.votes]
    BY <2>4, ResolveStatusType DEF Rows, Resolved, Statuses
  <2>6. row.status = status /\ row.decisions = m.votes
    BY <2>4, <2>5 DEF Rows
  <2>7. request' = [request EXCEPT ![r] = row] /\ applied' = applied
    BY <1>2, <2>2, <2>3, <2>4, <2>5 DEF WriteDecision, TypeOK, Rows, AfterWrite
  <2>8. StatusOf' = [StatusOf EXCEPT ![r] = status] /\ VotesOf' = [VotesOf EXCEPT ![r] = m.votes]
    <3> HIDE DEF status
    <3>1. /\ StatusOf' = [StatusOf EXCEPT ![r] = row.status]
          /\ VotesOf' = [VotesOf EXCEPT ![r] = row.decisions]
      BY <2>7, OneRow
    <3> QED  BY <2>6, <3>1
  <2>9. StatusOf[r] = "PENDING" /\ VotesOf[r] = request[r].decisions
    BY <2>1, <2>2, <2>3 DEF StatusOf, VotesOf, FreshCall, SoundCall
  <2>10. m.votes = VotesOf[r] \cup {[user |-> u, choice |-> choice]}
         /\ \A v \in VotesOf[r] : v.user # u
    BY <2>1, <2>2, <2>3, <2>9 DEF FreshCall
  <2>11. ~HasReject(VotesOf[r])
    BY <2>1, <2>2, <2>3, <2>9 DEF FreshCall, SoundCall, RowsSound, SoundRow
  <2>12. HasReject(m.votes) <=> choice = "reject"
    <3> DEFINE own == [user |-> u, choice |-> choice]
    <3>1. own.choice = choice
      OBVIOUS
    <3>2. \A v \in VotesOf[r] : v.choice # "reject"
      BY <2>11 DEF HasReject
    <3>3. m.votes = VotesOf[r] \cup {own}
      BY <2>10
    <3> HIDE DEF own
    <3> QED  BY <3>1, <3>2, <3>3 DEF HasReject
  <2>13. status \in IF choice = "reject" THEN {"REJECTED"} ELSE {"PENDING", "APPROVED"}
    BY <2>12 DEF ResolveStatus
  <2> HIDE DEF status
  <2>14. Intent!Vote(r, u, choice)
    BY <2>7, <2>8, <2>9, <2>10, <2>13 DEF Intent!Vote
  <2> QED  BY <2>14 DEF Intent!Next, Choices
<1>3. ASSUME NEW c \in Calls, WriteCancel(c)
      PROVE  Intent!Next
  <2>1. call[c] \in Cancelling /\ SoundCall(call[c]) /\ FreshCall(call[c])
        /\ call[c].stage = "cancelling"
    BY <1>3, StageShape DEF WriteCancel, CallsSound, CancelStatus
  <2>2. PICK r \in Requests : r = call[c].req
    BY <2>1 DEF Cancelling
  <2>3. request[r] \in Rows
    BY <2>1, <2>2, RowShape DEF SoundCall
  <2>4. PICK row \in Rows : row = [request[r] EXCEPT !.status = "CANCELLED"]
    <3>1. [request[r] EXCEPT !.status = "CANCELLED"] \in Rows
      BY <2>3 DEF Rows, Statuses
    <3> QED  BY <3>1
  <2>5. request' = [request EXCEPT ![r] = row] /\ applied' = applied
    BY <1>3, <2>2, <2>4 DEF WriteCancel, TypeOK, CancelStatus
  <2>6. row.status = "CANCELLED" /\ row.decisions = request[r].decisions
    BY <2>3, <2>4 DEF Rows
  <2>7. StatusOf[r] = "PENDING" /\ VotesOf[r] = request[r].decisions
    BY <2>1, <2>2 DEF StatusOf, VotesOf, FreshCall, SoundCall
  <2>8. StatusOf' = [StatusOf EXCEPT ![r] = "CANCELLED"] /\ VotesOf' = [VotesOf EXCEPT ![r] = VotesOf[r]]
    BY <2>5, <2>6, <2>7, OneRow
  <2>9. VotesOf' = VotesOf
    BY <2>8 DEF VotesOf
  <2> QED  BY <2>5, <2>7, <2>8, <2>9 DEF Intent!Next, Intent!Cancel
<1>4. ASSUME NEW c \in Calls, Apply(c), applied' # applied
      PROVE  Intent!Next
  <2>0. PICK r \in Requests : r = call[c].req
    BY <1>4, StageShape DEF Apply, Resolved
  <2>1. Exists(r) /\ request[r].status = "APPROVED" /\ applied[r] = 0
    BY <1>4, <2>0 DEF Apply, FreshCall, CallsSound, SoundCall
  <2>2. applied' = [applied EXCEPT ![r] = 1] /\ request' = request
    BY <1>4, <2>0, <2>1 DEF Apply
  <2>3. StatusOf' = StatusOf /\ VotesOf' = VotesOf /\ StatusOf[r] = "APPROVED"
    BY <2>1, <2>2 DEF StatusOf, VotesOf, Exists
  <2> QED  BY <2>1, <2>2, <2>3 DEF Intent!Next, Intent!Replay
<1>5. Next => \/ request' = request /\ applied' = applied
              \/ \E u \in Users, e \in Entities, a \in BOOLEAN, r \in Requests :
                     RequireApproval(u, e, a, r)
              \/ \E c \in Calls : WriteDecision(c) \/ WriteCancel(c)
              \/ \E c \in Calls : Apply(c) /\ applied' # applied
  BY DEF Next, CallStep, UpsertWorkflow, RemoveEntity, OpenDecision, OpenCancel, ReadWorkflow,
     Apply, Crash, NotRequester, IsApprover, Undecided, NextDecisions
<1> QED  BY <1>1, <1>2, <1>3, <1>4, <1>5, Stutter DEF vars

\* When calls do not overlap the service implements ApprovalIntent.
THEOREM SerialImplements == ASSUME OneCall PROVE Spec => ImplementsIntent
<1>1. Init => Intent!Init
  BY DEF Init, Intent!Init, StatusOf, VotesOf, Exists
<1>2. SInv /\ [Next]_vars => [Intent!Next]_<<StatusOf, VotesOf, applied>>
  BY Simulation
<1> QED
  BY InitSerial, SerialInductive, <1>1, <1>2, PTL DEF Spec, ImplementsIntent, Intent!Spec
==============================================================================
