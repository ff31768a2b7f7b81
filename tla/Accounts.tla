-------------------------------- MODULE Accounts --------------------------------
(***************************************************************************)
(* One user's account: its status and password, the links that let the     *)
(* user set a password, and the refresh tokens of the sessions.  A token   *)
(* is rotated by issuing a successor and linking the old row to it; every  *)
(* request reads first and writes in later statements, so rotations, sign- *)
(* ins, password changes and changes of status interleave.                 *)
(* Passwords are numbered as they are set; a login presents the password   *)
(* that is stored.  Tokens do not expire within a behaviour.               *)
(***************************************************************************)
EXTENDS Naturals, FiniteSets

CONSTANTS
    Clients,      \* requests that can be in progress at once
    MaxTokens,    \* bound: refresh tokens issued
    MaxCommands   \* bound: requests in all

ASSUME AccountsAssumption == MaxTokens \in Nat /\ MaxCommands \in Nat

VARIABLES
    account,    \* the User row: [status, password]; password 0 is none
    invite,     \* the EmailVerificationToken of the invitation
    resets,     \* PasswordResetToken rows: "none", "open" or "used"
    token,      \* RefreshToken rows: [row, next], numbered as they are issued
    command,    \* what each client's request is doing
    tally,      \* how many requests, tokens, passwords and reset links there were
    past        \* history, below

accountVars == <<account, invite, resets, token, command, tally, past>>

------------------------------------------------------------------------------
Tokens == 1..MaxTokens
Links == 1..MaxCommands
Passwords == 0..(MaxCommands + 1)
Statuses == {"INVITED", "ACTIVE", "SUSPENDED", "ARCHIVED", "PURGED"}
NoToken == [row |-> "none", next |-> 0]
NoCommand == [op |-> "none", stage |-> "none", from |-> 0, at |-> 0, next |-> 0,
              password |-> 0, late |-> FALSE]
\* from: the token rotated or whose chain is revoked, or the reset link; at: the
\* successor or the row of the chain reached, next: the link read from that row;
\* late is history: something this request relies on was revoked or purged after
\* it was read.
Commands == [op : {"login", "rotate", "revokeOne", "change", "confirm", "accept", "request",
                   "suspend", "reactivate", "offboard", "purge"},
             stage : {"issue", "link", "walk", "revokeLink", "write", "revoke", "create",
                      "apply"},
             from : Nat, at : 0..MaxTokens, next : 0..MaxTokens, password : Passwords,
             late : BOOLEAN]

IsLive(t) == token[t].row = "live"
Issuing(r) == r.stage \in {"issue", "link"}

\* past.line: a token and those it was rotated from; past.opened: the password
\* the first of them signed in with; past.astray: tokens issued past a revocation, no
\* longer linked to from their parent, or linked to after a walk read the parent and
\* before it revoked it; past.ended: tokens whose chain was revoked;
\* past.scim: the status was last set through SCIM; past.leaked: a late request
\* wrote to the account; past.excused: a password was stored and no revocation
\* follows.
AccountsInit ==
    /\ \/ account = [status |-> "INVITED", password |-> 0] /\ invite = "open"
       \/ account = [status |-> "ACTIVE", password |-> 1] /\ invite = "used"
    /\ resets = [l \in Links |-> "none"]
    /\ token = [t \in Tokens |-> NoToken]
    /\ command = [c \in Clients |-> NoCommand]
    /\ tally = [commands |-> 0, tokens |-> 0, passwords |-> 1, resets |-> 0]
    /\ past = [line |-> [t \in Tokens |-> {}], opened |-> [t \in Tokens |-> 0],
               astray |-> {}, ended |-> {}, scim |-> FALSE, leaked |-> FALSE,
               excused |-> FALSE]

Counts == tally.commands < MaxCommands /\ tally' = [tally EXCEPT !.commands = @ + 1]
\* A request gets past its reads and checks.
Opens(c, op, stage, from) ==
    /\ command[c] = NoCommand /\ Counts
    /\ command' = [command EXCEPT ![c] = [NoCommand EXCEPT !.op = op, !.stage = stage,
                                              !.from = from, !.at = IF stage = "walk" THEN from ELSE 0,
                                              !.password = account.password]]
Ends(c) == command' = [command EXCEPT ![c] = NoCommand]
Goes(c, stage) == [command[c] EXCEPT !.stage = stage]

\* The requests in progress that a revocation of the tokens ts overtakes.
Overtaken(ts) ==
    [c \in Clients |-> IF Issuing(command[c]) /\ command[c].from \in ts \cup {0}
                       THEN [command[c] EXCEPT !.late = TRUE] ELSE command[c]]
OvertakenRotations(ts) ==
    [c \in Clients |-> IF Issuing(command[c]) /\ command[c].from \in ts
                       THEN [command[c] EXCEPT !.late = TRUE] ELSE command[c]]
Revoked(ts) == [t \in Tokens |-> IF t \in ts /\ IsLive(t) THEN [token[t] EXCEPT !.row = "revoked"]
                                 ELSE token[t]]

(* AuthService, RefreshTokenService *)

\* login: the account is active and the password is right.
BeginLogin(c) ==
    /\ account.status = "ACTIVE" /\ account.password # 0
    /\ Opens(c, "login", "issue", 0)
    /\ UNCHANGED <<account, invite, resets, token, past>>

\* rotate: the row is read; a revoked row that was replaced is a reuse.
BeginRotate(c, t) ==
    /\ \/ IsLive(t) /\ Opens(c, "rotate", "issue", t)
       \/ /\ token[t].row = "revoked" /\ token[t].next # 0
          /\ Opens(c, "revokeOne", "walk", t)
    /\ UNCHANGED <<account, invite, resets, token, past>>

\* issue
IssueToken(c) ==
    /\ command[c].stage = "issue" /\ tally.tokens < MaxTokens
    /\ LET r == command[c]
           t == tally.tokens + 1
       IN /\ tally' = [tally EXCEPT !.tokens = t]
          /\ token' = [token EXCEPT ![t].row = "live"]
          /\ past' = [past EXCEPT !.line[t] = {t} \cup (IF r.from = 0 THEN {} ELSE past.line[r.from]),
                          !.opened[t] = IF r.from = 0 THEN r.password ELSE past.opened[r.from],
                          !.astray = IF r.late THEN @ \cup {t} ELSE @]
          /\ command' = [command EXCEPT ![c] = IF r.op = "rotate" THEN [Goes(c, "link") EXCEPT !.at = t]
                                               ELSE NoCommand]
    /\ UNCHANGED <<account, invite, resets>>

\* Mutant: a row that was linked to a successor meanwhile keeps its link.
KeepsFirst(t, n) == IF token[t].next = 0 THEN n ELSE token[t].next
Successor(t, n) == n

\* The old row is revoked and linked; the update fails when the row is gone.
LinkToken(c) ==
    /\ command[c].stage = "link"
    /\ LET r == command[c]
           n == Successor(r.from, r.at)
       IN IF token[r.from].row = "deleted"
          THEN /\ past' = [past EXCEPT !.astray = @ \cup {r.at}]
               /\ UNCHANGED token
          ELSE /\ token' = [token EXCEPT ![r.from] = [row |-> "revoked", next |-> n]]
               /\ past' = [past EXCEPT !.astray = @ \cup ({token[r.from].next} \ {0})
                                                    \cup (IF r.late THEN {r.at} ELSE {})]
    /\ Ends(c)
    /\ UNCHANGED <<account, invite, resets, tally>>

\* logout: revoke by hash.
Logout(t) ==
    /\ Counts /\ IsLive(t)
    /\ token' = Revoked({t})
    /\ past' = [past EXCEPT !.ended = @ \cup {t}]
    /\ command' = OvertakenRotations({t})
    /\ UNCHANGED <<account, invite, resets>>

(* MeSessionsController *)

RevokeOne(c, t) ==
    /\ token[t].row \in {"live", "revoked"}
    /\ Opens(c, "revokeOne", "walk", t)
    /\ UNCHANGED <<account, invite, resets, token, past>>

\* Mutant: the walk stops at a row that is revoked already.
StopsAtRevoked(t) == IF IsLive(t) THEN token[t].next ELSE 0
NextLink(t) == token[t].next

\* The walk goes on to the row `on`, or ends.
Onward(c, on) == IF on = 0 THEN NoCommand ELSE [Goes(c, "walk") EXCEPT !.at = on, !.next = 0]
WalkDone(c, on) == past.ended \cup (IF on = 0 THEN {command[c].from} ELSE {})

\* revokeChain reads the row reached: one that is gone ends the walk, one that is
\* revoked already is passed over.  A link leads to a later token, so the walk meets
\* none twice.
ReadLink(c) ==
    /\ command[c].stage = "walk"
    /\ LET at == command[c].at
           next == IF token[at].row = "deleted" THEN 0 ELSE NextLink(at)
       IN IF IsLive(at)
          THEN /\ command' = [command EXCEPT ![c] = [Goes(c, "revokeLink") EXCEPT !.next = next]]
               /\ UNCHANGED past
          ELSE /\ command' = [OvertakenRotations({at}) EXCEPT ![c] = Onward(c, next)]
               /\ past' = [past EXCEPT !.ended = WalkDone(c, next)]
    /\ UNCHANGED <<account, invite, resets, token, tally>>

\* It revokes the row, whatever became of it since, and follows the link it read; the
\* update of a row that is gone fails.
RevokeLink(c) ==
    /\ command[c].stage = "revokeLink"
    /\ LET r == command[c]
       IN IF token[r.at].row = "deleted"
          THEN Ends(c) /\ UNCHANGED <<token, past>>
          ELSE /\ token' = Revoked({r.at})
               /\ command' = [OvertakenRotations({r.at}) EXCEPT ![c] = Onward(c, r.next)]
               /\ past' = [past EXCEPT !.ended = WalkDone(c, r.next),
                               !.astray = @ \cup ({token[r.at].next} \ {0, r.next})]
    /\ UNCHANGED <<account, invite, resets, tally>>

\* revokeAllExcept, keeping the token presented, if any.
RevokeOthers(kept) ==
    /\ Counts
    /\ LET ts == {t \in Tokens : IsLive(t)} \ kept
       IN /\ token' = Revoked(ts)
          /\ past' = [past EXCEPT !.ended = @ \cup ts]
          /\ command' = OvertakenRotations(ts)
    /\ UNCHANGED <<account, invite, resets>>

(* PasswordResetService, AccountService, invitations *)

\* request: outstanding links are consumed, then a new one is made.
BeginReset(c) ==
    /\ account.status = "ACTIVE"
    /\ Opens(c, "request", "create", 0)
    /\ resets' = [l \in Links |-> IF resets[l] = "open" THEN "used" ELSE resets[l]]
    /\ UNCHANGED <<account, invite, token, past>>

CreateReset(c) ==
    /\ command[c].stage = "create"
    /\ tally' = [tally EXCEPT !.resets = @ + 1]
    /\ resets' = [resets EXCEPT ![tally.resets + 1] = "open"]
    /\ past' = [past EXCEPT !.leaked = @ \/ command[c].late]
    /\ Ends(c)
    /\ UNCHANGED <<account, invite, token>>

\* The password change, the reset link and the invitation are checked.
BeginPassword(c) ==
    /\ \/ account.password # 0 /\ Opens(c, "change", "write", 0)
       \/ \E link \in Links : resets[link] = "open" /\ Opens(c, "confirm", "write", link)
       \/ /\ invite = "open" /\ ~(account.status = "ACTIVE" /\ account.password # 0)
          /\ Opens(c, "accept", "write", 0)
    /\ UNCHANGED <<account, invite, resets, token, past>>

\* Mutant: a reset leaves the sessions alone.
OnlyChangeRevokes(op) == IF op = "change" THEN "revoke" ELSE "issue"
\* What follows once the password is stored.
AfterPassword(op) == IF op = "accept" THEN "issue" ELSE "revoke"

\* The password is stored, in one transaction with the link or invitation it came
\* through; a purge has deleted those and the transaction fails.
WritePassword(c) ==
    /\ command[c].stage = "write"
    /\ LET r == command[c]
           n == tally.passwords + 1
           fails == \/ r.op = "accept" /\ invite = "none"
                    \/ r.op = "confirm" /\ resets[r.from] = "none"
       IN IF fails THEN Ends(c) /\ UNCHANGED <<account, invite, resets, tally, past>>
          ELSE /\ tally' = [tally EXCEPT !.passwords = n]
               /\ account' = [account EXCEPT !.password = n,
                                  !.status = IF r.op = "accept" THEN "ACTIVE" ELSE @]
               /\ invite' = IF r.op = "accept" THEN "used" ELSE invite
               /\ resets' = IF r.op = "confirm" THEN [resets EXCEPT ![r.from] = "used"] ELSE resets
               /\ past' = [past EXCEPT !.leaked = @ \/ r.late,
                               !.excused = @ \/ (r.op = "accept" /\ account.password # 0),
                               !.scim = IF r.op = "accept" THEN FALSE ELSE @]
               /\ command' = [command EXCEPT
                                  ![c] = [r EXCEPT !.stage = AfterPassword(r.op), !.password = n,
                                                   !.from = 0]]
    /\ UNCHANGED token

\* revokeAllForUser
RevokeAll(c) ==
    /\ command[c].stage = "revoke"
    /\ token' = Revoked(Tokens)
    /\ past' = [past EXCEPT !.ended = @ \cup {t \in Tokens : IsLive(t)}, !.excused = FALSE]
    /\ command' = [Overtaken(Tokens) EXCEPT ![c] = NoCommand]
    /\ UNCHANGED <<account, invite, resets, tally>>

(* UsersService, OffboardingService, ScimUsersService *)

\* The status is read and allows the change.
BeginStatus(c) ==
    /\ \/ account.status \notin {"ARCHIVED", "PURGED"} /\ Opens(c, "suspend", "apply", 0)
       \/ account.status = "SUSPENDED" /\ Opens(c, "reactivate", "apply", 0)
       \/ account.status # "PURGED" /\ Opens(c, "offboard", "apply", 0)
       \/ account.status = "ARCHIVED" /\ Opens(c, "purge", "apply", 0)
    /\ UNCHANGED <<account, invite, resets, token, past>>

StatusAfter(op) == CASE op = "suspend" -> "SUSPENDED" [] op = "reactivate" -> "ACTIVE"
                     [] op = "offboard" -> "ARCHIVED" [] op = "purge" -> "PURGED"
\* Mutant: a suspension leaves the rows.
OffboardingSignsOut(op) == op \in {"offboard", "purge"}
\* The refresh tokens are deleted in the same transaction.
SignsOut(op) == op # "reactivate"

Late == [c \in Clients |-> IF command[c] = NoCommand THEN NoCommand
                           ELSE [command[c] EXCEPT !.late = TRUE]]

\* The transaction; a purge deletes the links and the password too.
ApplyStatus(c) ==
    /\ command[c].stage = "apply"
    /\ LET op == command[c].op
           purge == op = "purge"
       IN /\ account' = [status |-> StatusAfter(op),
                         password |-> IF purge THEN 0 ELSE account.password]
          /\ invite' = IF purge THEN "none" ELSE invite
          /\ resets' = IF purge THEN [l \in Links |-> "none"] ELSE resets
          /\ token' = IF SignsOut(op)
                      THEN [t \in Tokens |-> IF token[t] = NoToken THEN NoToken
                                             ELSE [row |-> "deleted", next |-> 0]]
                      ELSE token
          /\ command' = [IF SignsOut(op) THEN Late ELSE command EXCEPT ![c] = NoCommand]
          /\ past' = [past EXCEPT !.scim = FALSE, !.leaked = @ /\ ~purge]
    /\ UNCHANGED tally

\* SCIM checks that the user exists, nothing else.
ScimStatus(status) ==
    /\ Counts
    /\ account' = [account EXCEPT !.status = status]
    /\ past' = [past EXCEPT !.scim = TRUE]
    /\ UNCHANGED <<invite, resets, token, command>>

\* A database error or a crash ends a request between two statements.
GiveUp(c) ==
    /\ command[c] # NoCommand /\ Ends(c)
    /\ LET r == command[c]
       IN past' = [past EXCEPT !.astray = IF r.stage = "link" THEN @ \cup {r.at} ELSE @,
                               !.excused = @ \/ r.stage = "revoke"]
    /\ UNCHANGED <<account, invite, resets, token, tally>>

AccountsNext ==
    \/ \E c \in Clients :
           \/ BeginLogin(c) \/ IssueToken(c) \/ LinkToken(c)
           \/ ReadLink(c) \/ RevokeLink(c)
           \/ BeginReset(c) \/ CreateReset(c)
           \/ BeginPassword(c) \/ WritePassword(c) \/ RevokeAll(c)
           \/ BeginStatus(c) \/ ApplyStatus(c) \/ GiveUp(c)
           \/ \E t \in Tokens : BeginRotate(c, t) \/ RevokeOne(c, t)
    \/ \E t \in Tokens : Logout(t) \/ (IsLive(t) /\ RevokeOthers({t}))
    \/ RevokeOthers({})
    \/ \E s \in {"ACTIVE", "SUSPENDED", "ARCHIVED"} : ScimStatus(s)

AccountsSpec == AccountsInit /\ [][AccountsNext]_accountVars

------------------------------------------------------------------------------
(* Properties *)

\* Every variable holds a value of its type.
AccountsTypeOK ==
    /\ account \in [status : Statuses, password : Passwords]
    /\ invite \in {"none", "open", "used"}
    /\ resets \in [Links -> {"none", "open", "used"}]
    /\ token \in [Tokens -> [row : {"none", "live", "revoked", "deleted"}, next : 0..MaxTokens]]
    /\ \A c \in Clients : command[c] = NoCommand \/ command[c] \in Commands
    /\ past.astray \subseteq Tokens /\ past.ended \subseteq Tokens

Astray == past.astray \cup {command[c].at : c \in {d \in Clients : command[d].late}}
Lineage(t) == past.line[t]

\* Once a session was signed out, revoked with its chain or found reused, no token
\* rotated from it stays valid, however many rotations lie between, unless one of
\* them overtook the revocation, lost its link to another rotation, or was linked to
\* between the read and the update of the walk.
EndedChainsStayEnded ==
    \A t \in Tokens : IsLive(t) =>
        \A e \in past.ended \cap Lineage(t) : \E x \in Astray \cap Lineage(t) : x > e

\* A password change or reset leaves no session that was opened with an earlier
\* password, apart from sign-ins and rotations in progress when it revoked them:
\* not while the revocation is still to come, and not when it failed.
OldPasswordSessionsEnd ==
    \A t \in Tokens : IsLive(t) /\ past.opened[t] < account.password =>
        \/ Astray \cap Lineage(t) # {}
        \/ \E c \in Clients : command[c].stage = "revoke"
        \/ past.excused

\* A user suspended, offboarded or purged in the application has no session left,
\* and a purged one neither password nor a link to set one, whatever SCIM, the
\* invitation or another administrator did before: only what was in progress at
\* that moment gets through.
BlockedAreSignedOut ==
    /\ (account.status \in {"SUSPENDED", "ARCHIVED", "PURGED"} /\ ~past.scim) =>
           \A t \in Tokens : IsLive(t) => Astray \cap Lineage(t) # {}
    /\ (account.status = "PURGED" /\ ~past.leaked) =>
           account.password = 0 /\ invite # "open" /\ \A l \in Links : resets[l] # "open"
=============================================================================
