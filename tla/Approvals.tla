------------------------------ MODULE Approvals ------------------------------
(***************************************************************************)
(* The approval seam of the API: an edit of a gated entity becomes a       *)
(* PENDING request, approvers decide it, an approval replays the edit.     *)
(* Requests are rows; every HTTP call to decide or cancel reads the row,   *)
(* awaits, and later updates it BY ID, so the calls in flight carry the    *)
(* rows they read.                                                         *)
(***************************************************************************)
EXTENDS Naturals, FiniteSets

CONSTANTS
    Users, Roles,
    RoleOf,       \* role of each user's session (ctx.roleId)
    EntityTypes,  \* KPI_DEFINITION, KPI_TARGET, ROLE_PERMISSIONS
    Entities,
    TypeOf,       \* the entity type of each entity
    Requests,     \* ids of approval request rows
    Calls,        \* HTTP calls that may be in flight at once
    None,         \* "no such row"
    MaxEdits,     \* bound: workflow upserts
    MaxCrashes    \* bound: crashes of the API process

ASSUME RoleAssumption == RoleOf \in [Users -> Roles]
ASSUME TypeAssumption == TypeOf \in [Entities -> EntityTypes]
ASSUME BoundAssumption == MaxEdits \in Nat /\ MaxCrashes \in Nat
ASSUME NoneAssumption == None \notin
    [entity : Entities, accepted : BOOLEAN, requester : Users,
     status : {"PENDING", "APPROVED", "REJECTED", "CANCELLED"},
     decisions : SUBSET [user : Users, choice : {"approve", "reject"}]]

VARIABLES
    workflow,  \* ApprovalWorkflow row of each entity type (an absent row gates nothing)
    request,   \* ApprovalRequest rows, None while the id is unused
    live,      \* entities that still exist
    call,      \* the calls in flight
    applied,   \* how often each request was replayed, counted up to 2
    cast,      \* history: the decisions answered with success
    edits, crashes

vars == <<workflow, request, live, call, applied, cast, edits, crashes>>

------------------------------------------------------------------------------
Choices == {"approve", "reject"}
Statuses == {"PENDING", "APPROVED", "REJECTED", "CANCELLED"}
Votes == [user : Users, choice : Choices]
Rules == [roles : SUBSET Roles, requireAll : BOOLEAN]
Workflows == [roles : SUBSET Roles, requireAll : BOOLEAN, isActive : BOOLEAN]
\* accepted: whether the owning service takes the payload.  Some of its checks
\* (a KPI's scope is immutable, ...) come after the gate and run at the replay.
Rows == [entity : Entities, accepted : BOOLEAN, requester : Users, status : Statuses,
         decisions : SUBSET Votes]

NoRule == [roles |-> {}, requireAll |-> FALSE]
Idle == [stage |-> "idle"]
\* votes: row.decisions as read in stage "opened", nextDecisions afterwards
Opened == [stage : {"opened"}, req : Requests, user : Users, choice : Choices,
           votes : SUBSET Votes]
Resolved == [stage : {"resolved", "applying"}, req : Requests, user : Users, choice : Choices,
             votes : SUBSET Votes, rule : Rules]
Cancelling == [stage : {"cancelling"}, req : Requests, user : Users]

Approvers(votes) == {v.user : v \in {w \in votes : w.choice = "approve"}}
HasReject(votes) == \E v \in votes : v.choice = "reject"

\* Math.max(1, requiredApproverCount): the count is the number of ROLES
Quorum(rule) == IF rule.requireAll /\ Cardinality(rule.roles) > 1
                THEN Cardinality(rule.roles) ELSE 1

\* Mutant: approvals are counted before rejections are looked at.
ResolveApprovalsFirst(rule, votes) ==
    IF Cardinality(Approvers(votes)) >= Quorum(rule) THEN "APPROVED"
    ELSE IF HasReject(votes) THEN "REJECTED"
    ELSE "PENDING"

ResolveStatus(rule, votes) ==
    IF HasReject(votes) THEN "REJECTED"
    ELSE IF Cardinality(Approvers(votes)) >= Quorum(rule) THEN "APPROVED"
    ELSE "PENDING"

Exists(r) == request[r] # None

Pending(r) == Exists(r) /\ request[r].status = "PENDING"

\* Mutant: SELF_APPROVAL is not checked.
Anyone(u, r) == TRUE
NotRequester(u, r) == request[r].requester # u

\* Mutant: NOT_AN_APPROVER is not checked.
AnyRole(m, w) == TRUE
IsApprover(m, w) == RoleOf[m.user] \in w.roles

\* Mutant: ALREADY_DECIDED is not checked.
DecidesAgain(m) == TRUE
Undecided(m) == \A v \in m.votes : v.user # m.user

\* Mutant: the earlier decisions are not carried over.
OwnDecisionOnly(m) == {[user |-> m.user, choice |-> m.choice]}
NextDecisions(m) == m.votes \cup {[user |-> m.user, choice |-> m.choice]}

\* Mutant: the replay is forgotten.
AnswerOnly(m, status) == Idle
AfterWrite(m, status) ==
    IF status = "APPROVED" THEN [m EXCEPT !.stage = "applying"] ELSE Idle

\* Mutant: a status the enum does not have.
Withdrawn == "WITHDRAWN"
CancelStatus == "CANCELLED"

------------------------------------------------------------------------------
Init ==
    /\ workflow = [t \in EntityTypes |-> [roles |-> {}, requireAll |-> FALSE, isActive |-> FALSE]]
    /\ request = [r \in Requests |-> None]
    /\ live = Entities
    /\ call = [c \in Calls |-> Idle]
    /\ applied = [r \in Requests |-> 0]
    /\ cast = [r \in Requests |-> {}]
    /\ edits = 0
    /\ crashes = 0

\* PUT /approvals/workflows/:entityType.  requireAll and isActive left out of
\* the body keep the stored value (FALSE on create), which is one of the choices.
UpsertWorkflow(t, roles, all, active) ==
    /\ edits < MaxEdits
    /\ edits' = edits + 1
    /\ workflow' = [workflow EXCEPT ![t] =
                        [roles |-> roles, requireAll |-> all, isActive |-> active]]
    /\ UNCHANGED <<request, live, call, applied, cast, crashes>>

\* The gate: an edit of an entity whose type has an active workflow is
\* recorded.  With no active workflow the caller mutates and no row is made.
RequireApproval(u, e, accepted, r) ==
    /\ e \in live
    /\ workflow[TypeOf[e]].isActive
    /\ ~Exists(r)
    /\ request' = [request EXCEPT ![r] =
                       [entity |-> e, accepted |-> accepted, requester |-> u,
                        status |-> "PENDING", decisions |-> {}]]
    /\ UNCHANGED <<workflow, live, call, applied, cast, edits, crashes>>

\* Deleting a KPI, target or role is not gated.
RemoveEntity(e) ==
    /\ e \in live
    /\ live' = live \ {e}
    /\ UNCHANGED <<workflow, request, call, applied, cast, edits, crashes>>

\* decide(): the read of the PENDING row and the self-approval guard.
OpenDecision(c, u, r, choice) ==
    /\ call[c] = Idle
    /\ Pending(r)
    /\ NotRequester(u, r)
    /\ call' = [call EXCEPT ![c] = [stage |-> "opened", req |-> r, user |-> u,
                                    choice |-> choice, votes |-> request[r].decisions]]
    /\ UNCHANGED <<workflow, request, live, applied, cast, edits, crashes>>

\* decide(): the read of the workflow, the two remaining guards (a failed one
\* ends the call) and the next decisions.
ReadWorkflow(c) ==
    /\ call[c].stage = "opened"
    /\ LET m == call[c]
           w == workflow[TypeOf[request[m.req].entity]]
       IN call' = [call EXCEPT ![c] =
              IF IsApprover(m, w) /\ Undecided(m)
              THEN [stage |-> "resolved", req |-> m.req, user |-> m.user, choice |-> m.choice,
                    votes |-> NextDecisions(m),
                    rule |-> [roles |-> w.roles, requireAll |-> w.requireAll]]
              ELSE Idle]
    /\ UNCHANGED <<workflow, request, live, applied, cast, edits, crashes>>

\* decide(): decisions and status are written whatever the row now holds.
WriteDecision(c) ==
    /\ call[c].stage = "resolved"
    /\ LET m == call[c]
           status == ResolveStatus(m.rule, m.votes)
       IN /\ request' = [request EXCEPT ![m.req].status = status, ![m.req].decisions = m.votes]
          /\ cast' = [cast EXCEPT ![m.req] = @ \cup {[user |-> m.user, choice |-> m.choice]}]
          /\ call' = [call EXCEPT ![c] = AfterWrite(m, status)]
    /\ UNCHANGED <<workflow, live, applied, edits, crashes>>

\* ApprovalApplyService.apply(): the replay, with the gate bypassed.  It throws
\* when the entity is gone or the service refuses the payload, and the row stays
\* APPROVED.
Apply(c) ==
    /\ call[c].stage = "applying"
    /\ LET r == call[c].req
       IN applied' = IF request[r].entity \in live /\ request[r].accepted /\ applied[r] < 2
                     THEN [applied EXCEPT ![r] = @ + 1] ELSE applied
    /\ call' = [call EXCEPT ![c] = Idle]
    /\ UNCHANGED <<workflow, request, live, cast, edits, crashes>>

\* cancel(): the read of the PENDING row and the requester guard.
OpenCancel(c, u, r) ==
    /\ call[c] = Idle
    /\ Pending(r)
    /\ request[r].requester = u
    /\ call' = [call EXCEPT ![c] = [stage |-> "cancelling", req |-> r, user |-> u]]
    /\ UNCHANGED <<workflow, request, live, applied, cast, edits, crashes>>

\* cancel(): the status is written whatever the row now holds.
WriteCancel(c) ==
    /\ call[c].stage = "cancelling"
    /\ request' = [request EXCEPT ![call[c].req].status = CancelStatus]
    /\ call' = [call EXCEPT ![c] = Idle]
    /\ UNCHANGED <<workflow, live, applied, cast, edits, crashes>>

\* The API process dies: rows survive, calls in flight do not.
Crash ==
    /\ crashes < MaxCrashes
    /\ crashes' = crashes + 1
    /\ call' = [c \in Calls |-> Idle]
    /\ UNCHANGED <<workflow, request, live, applied, cast, edits>>

CallStep(c) == ReadWorkflow(c) \/ WriteDecision(c) \/ Apply(c) \/ WriteCancel(c)

Next ==
    \/ \E t \in EntityTypes, roles \in SUBSET Roles, all, active \in BOOLEAN :
           UpsertWorkflow(t, roles, all, active)
    \/ \E u \in Users, e \in Entities, accepted \in BOOLEAN, r \in Requests :
           RequireApproval(u, e, accepted, r)
    \/ \E e \in Entities : RemoveEntity(e)
    \/ \E c \in Calls, u \in Users, r \in Requests, choice \in Choices :
           OpenDecision(c, u, r, choice)
    \/ \E c \in Calls, u \in Users, r \in Requests : OpenCancel(c, u, r)
    \/ \E c \in Calls : CallStep(c)
    \/ Crash

Spec == Init /\ [][Next]_vars

\* A running process answers its calls; nobody is obliged to make one.
FairSpec == Spec /\ \A c \in Calls : WF_vars(CallStep(c))

------------------------------------------------------------------------------
(* Properties *)

\* Every variable holds a value of its type.
TypeOK ==
    /\ workflow \in [EntityTypes -> Workflows]
    /\ request \in [Requests -> Rows \cup {None}]
    /\ live \in SUBSET Entities
    /\ call \in [Calls -> {Idle} \cup Opened \cup Resolved \cup Cancelling]
    /\ applied \in [Requests -> 0..2]
    /\ cast \in [Requests -> SUBSET Votes]
    /\ edits \in 0..MaxEdits
    /\ crashes \in 0..MaxCrashes

\* One voice per user, and never the requester's: what the ALREADY_DECIDED and
\* SELF_APPROVAL guards are for, although both look at a row that may be stale.
FairVotes(votes, requester) ==
    /\ \A v, w \in votes : v.user = w.user => v = w
    /\ \A v \in votes : v.user # requester

\* The decisions of a row, and the ones a call is about to write, hold one vote
\* per user and none of the requester, however the calls overlap.
DecidersEligible ==
    /\ \A r \in Requests : Exists(r) => FairVotes(request[r].decisions, request[r].requester)
    /\ \A c \in Calls : call[c].stage \in {"opened", "resolved", "applying"} =>
           FairVotes(call[c].votes, request[call[c].req].requester)

\* A row's status agrees with its own decisions: open rows hold no rejection,
\* rejected rows hold one, approved rows hold an approval and no rejection.
StatusMatchesDecisions ==
    \A r \in Requests : Exists(r) =>
        LET row == request[r]
        IN /\ row.status \in {"PENDING", "APPROVED"} => ~HasReject(row.decisions)
           /\ row.status = "REJECTED" => HasReject(row.decisions)
           /\ row.status = "APPROVED" => Approvers(row.decisions) # {}

\* A call that is about to replay an edit holds the quorum of the workflow it
\* read, a vote of its own user, whose role that workflow names, and no
\* rejection; all of it stays true while other calls overwrite the row.
ReplayHasGrounds ==
    \A c \in Calls : call[c].stage = "applying" =>
        LET m == call[c]
        IN /\ ~HasReject(m.votes)
           /\ m.user \in Approvers(m.votes)
           /\ RoleOf[m.user] \in m.rule.roles
           /\ Cardinality(Approvers(m.votes)) >= Quorum(m.rule)
           /\ request[m.req].requester \notin Approvers(m.votes)

\* A replay is the outcome of an answered approval: no request is applied
\* unless someone other than its requester was told that an approval of it counted.
AppliedWasApproved ==
    \A r \in Requests : applied[r] > 0 =>
        \E v \in cast[r] : v.choice = "approve" /\ v.user # request[r].requester

\* With no overlapping calls a request is replayed at most once.
AppliedAtMostOnce == \A r \in Requests : applied[r] <= 1

\* An approved request is replayed, unless the entity is gone, the payload is
\* refused, or a crash falls between the write of the approval and the replay.
ApprovedIsApplied ==
    \A r \in Requests :
        (Exists(r) /\ request[r].status = "APPROVED" /\ request[r].accepted)
            ~> (applied[r] > 0 \/ (Exists(r) /\ request[r].entity \notin live))

\* approval-status.ts, "Any rejection short-circuits to REJECTED": a request
\* someone was told he rejected is not replayed.
RejectionIsFinal == \A r \in Requests : HasReject(cast[r]) => applied[r] = 0

\* approval-status.ts, "requireAll: APPROVED once every required approver has
\* approved": when a replay is due under requireAll each required role approved.
EveryRequiredRoleApproved ==
    \A c \in Calls : call[c].stage = "applying" /\ call[c].rule.requireAll =>
        call[c].rule.roles \subseteq {RoleOf[u] : u \in Approvers(call[c].votes)}

------------------------------------------------------------------------------
(* Refinement *)

StatusOf == [r \in Requests |-> IF Exists(r) THEN request[r].status ELSE "NONE"]
VotesOf == [r \in Requests |-> IF Exists(r) THEN request[r].decisions ELSE {}]

Intent == INSTANCE ApprovalIntent WITH status <- StatusOf, votes <- VotesOf, replays <- applied

\* With one call in flight at a time the service keeps the promise of
\* ApprovalIntent: no vote is lost, a settled request stays settled and is
\* replayed at most once.
ImplementsIntent == Intent!Spec
==============================================================================
