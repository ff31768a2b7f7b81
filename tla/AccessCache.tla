------------------------------- MODULE AccessCache -------------------------------
(***************************************************************************)
(* What one API process remembers of one user's access: the resolver keeps *)
(* the permissions, the access context a profile made from them, and the   *)
(* people in the profile's units.  Each has its own clock and is filled    *)
(* from several reads, while changes are stored and then drop what they    *)
(* affect.  A role, a delegation and so on is abstracted to its version.   *)
(***************************************************************************)
EXTENDS Naturals, FiniteSetsExt

CONSTANTS
    Readers,    \* requests that resolve access at once
    Ttl,        \* ticks an entry is served for
    MaxTime,    \* bound: ticks
    MaxWrites   \* bound: changes

ASSUME AccessCacheAssumption == Ttl \in Nat \ {0} /\ MaxTime \in Nat /\ MaxWrites \in Nat

VARIABLES
    now,
    version,     \* of each source
    cached,      \* the entry of each cache, or Empty
    resolution,  \* what each reader is doing
    pending,     \* sources whose writer has yet to drop the caches
    missed       \* history: sources changed in another process, or whose writer failed

accessVars == <<now, version, cached, resolution, pending, missed>>

------------------------------------------------------------------------------
Inputs == {"role", "delegation", "override", "membership", "grant"}
\* A change of a delegation or a grant drops nothing: it shows by age alone.
Dropping == {"role", "override", "membership"}
Caches == {"permissions", "profile", "unitMembers"}
Unread == [s \in Inputs |-> [version |-> 0, at |-> 0]]
\* late is history: the sources whose change dropped the caches after the first read.
Empty == [kept |-> FALSE, seen |-> Unread, at |-> 0, late |-> {}]
NoResolution == [stage |-> "none", for |-> "none", seen |-> Unread, late |-> {}]
Readings == [Inputs -> [version : 0..MaxWrites, at : 0..MaxTime]]

Fresh(c) == cached[c].kept /\ now - cached[c].at < Ttl
Resolving(r) == resolution[r].stage # "none"
To(r, res) == resolution' = [resolution EXCEPT ![r] = res]

AccessInit ==
    /\ now = 0
    /\ version = [s \in Inputs |-> 0]
    /\ cached = [c \in Caches |-> Empty]
    /\ resolution = [r \in Readers |-> NoResolution]
    /\ pending = {} /\ missed = {}

\* Time passes between resolutions: one takes less than a tick.
AccessTick ==
    /\ now < MaxTime /\ now' = now + 1
    /\ \A r \in Readers : ~Resolving(r)
    /\ UNCHANGED <<version, cached, resolution, pending, missed>>

(* PermissionResolverService.resolveForUser, AccessContextService.resolve and
   unitMemberUserIds *)

Take(res, stage, c) == [res EXCEPT !.stage = stage, !.seen = cached[c].seen, !.late = cached[c].late]

\* Mutant: the cache below serves whatever it keeps, however old.
FromKept(res) ==
    IF res.for = "unitMembers" /\ cached["profile"].kept THEN Take(res, "members", "profile")
    ELSE IF res.for # "permissions" /\ cached["permissions"].kept
         THEN Take(res, "membership", "permissions") ELSE res
\* A resolution that missed its cache begins in the one below, if that is fresh.
FromBelow(res) ==
    IF res.for = "unitMembers" /\ Fresh("profile") THEN Take(res, "members", "profile")
    ELSE IF res.for # "permissions" /\ Fresh("permissions")
         THEN Take(res, "membership", "permissions") ELSE res

BeginResolution(r, c) ==
    /\ ~Resolving(r) /\ ~Fresh(c)
    /\ To(r, FromBelow([stage |-> "role", for |-> c, seen |-> Unread, late |-> {}]))
    /\ UNCHANGED <<now, version, cached, pending, missed>>

NextStage == [role |-> "delegation", delegation |-> "override", override |-> "membership",
              membership |-> "grant", grant |-> "members"]

WithInput(res, s) == [res EXCEPT !.seen[s] = [version |-> version[s], at |-> now]]
Filled(c, res) == [cached EXCEPT ![c] = [kept |-> TRUE, seen |-> res.seen, at |-> now,
                                               late |-> res.late]]

\* The role and what it inherits; the delegations; the memberships.
ReadInput(r, s) ==
    /\ Resolving(r) /\ resolution[r].stage = s
    /\ s \in {"role", "delegation", "membership"}
    /\ To(r, [WithInput(resolution[r], s) EXCEPT !.stage = NextStage[s]])
    /\ UNCHANGED <<now, version, cached, pending, missed>>

\* After the override the permissions are kept, after the grants the profile; a
\* resolution that was for those ends.
FillCache(r, s, c) ==
    /\ <<s, c>> \in {<<"override", "permissions">>, <<"grant", "profile">>}
    /\ Resolving(r) /\ resolution[r].stage = s
    /\ LET res == WithInput(resolution[r], s)
       IN /\ cached' = Filled(c, res)
          /\ To(r, IF res.for = c THEN NoResolution ELSE [res EXCEPT !.stage = NextStage[s]])
    /\ UNCHANGED <<now, version, pending, missed>>

FillMembers(r) ==
    /\ Resolving(r) /\ resolution[r].stage = "members"
    /\ cached' = Filled("unitMembers", resolution[r])
    /\ To(r, NoResolution)
    /\ UNCHANGED <<now, version, pending, missed>>

(* RolesService, UsersService, OrgUnitsService *)

\* Mutant: only the profile is dropped.
DropsProfile(s) ==
    CASE s \in Dropping -> {"profile", "unitMembers"}
\* The caches a change drops in the process that stores it.
Drops(s) ==
    CASE s \in {"role", "override"} -> Caches
      [] s = "membership" -> {"profile", "unitMembers"}

Writes(s) ==
    /\ MapThenSumSet(LAMBDA t : version[t], Inputs) < MaxWrites
    /\ version' = [version EXCEPT ![s] = @ + 1]

\* The change is stored, and audited before the caches are dropped.
StoreChange(s) ==
    /\ s \notin pending /\ Writes(s)
    /\ pending' = pending \cup {s}
    /\ UNCHANGED <<now, cached, resolution, missed>>

DropCaches(s) ==
    /\ s \in pending
    /\ pending' = pending \ {s}
    /\ missed' = missed \ {s}
    /\ cached' = [c \in Caches |-> IF c \in Drops(s) THEN Empty ELSE cached[c]]
    /\ resolution' = [r \in Readers |-> IF Resolving(r)
                                        THEN [resolution[r] EXCEPT !.late = @ \cup {s}]
                                        ELSE NoResolution]
    /\ UNCHANGED <<now, version>>

\* A delegation or a grant is changed; nothing is dropped.
StoreUndropped(s) ==
    /\ Writes(s)
    /\ UNCHANGED <<now, cached, resolution, pending, missed>>

\* The change is stored by another API process, or the audit fails: the caches of
\* this one are not dropped.
StoreElsewhere(s) ==
    /\ Writes(s)
    /\ missed' = missed \cup {s}
    /\ UNCHANGED <<now, cached, resolution, pending>>

WriterFails(s) ==
    /\ s \in pending
    /\ pending' = pending \ {s}
    /\ missed' = missed \cup {s}
    /\ UNCHANGED <<now, version, cached, resolution>>

AccessNext ==
    \/ AccessTick
    \/ \E r \in Readers :
           \/ FillMembers(r)
           \/ \E c \in Caches : BeginResolution(r, c)
           \/ \E s \in Inputs : ReadInput(r, s) \/ \E c \in Caches : FillCache(r, s, c)
    \/ \E s \in Dropping : StoreChange(s) \/ DropCaches(s) \/ StoreElsewhere(s) \/ WriterFails(s)
    \/ \E s \in Inputs \ Dropping : StoreUndropped(s)

AccessSpec == AccessInit /\ [][AccessNext]_accessVars

------------------------------------------------------------------------------
(* Properties *)

\* Every variable holds a value of its type.
AccessTypeOK ==
    /\ now \in 0..MaxTime
    /\ version \in [Inputs -> 0..MaxWrites]
    /\ cached \in [Caches -> [kept : BOOLEAN, seen : Readings, at : 0..MaxTime, late : SUBSET Inputs]]
    /\ \A r \in Readers :
           /\ resolution[r].stage \in Inputs \cup {"none", "members"}
           /\ resolution[r].for \in Caches \cup {"none"}
           /\ resolution[r].seen \in Readings /\ resolution[r].late \subseteq Inputs
    /\ pending \subseteq Inputs /\ missed \subseteq Inputs

\* What each cache shows of: whose people are in the units depends on whether the
\* role is an administrator's.
Shows(c) == CASE c = "permissions" -> {"role", "delegation", "override"}
              [] c = "profile" -> Inputs
              [] c = "unitMembers" -> {"role", "membership"}
\* The caches that what is read passes through until it is served from c.
Passes(c, s) ==
    LET depth == CASE c = "permissions" -> 1 [] c = "profile" -> 2 [] c = "unitMembers" -> 3
    IN IF s \in Shows("permissions") THEN depth ELSE depth - 1

\* Whatever the order of fills, changes and drops, and even where nothing drops a
\* cache, no entry that is served shows a state that was read longer ago than one
\* lifetime for each cache it came through: one for the permissions, two for a
\* profile made from them, three for the people found by its administrator bit.
StaleWithinLifetimes ==
    \A c \in Caches : Fresh(c) =>
        \A s \in Shows(c) : now - cached[c].seen[s].at <= Passes(c, s) * (Ttl - 1)

\* A change that drops caches is seen by every resolution that follows, in each of
\* the caches it concerns, unless a resolution was under way when they were dropped
\* or the change was stored by another process.
DroppedChangesAreSeen ==
    \A c \in Caches : Fresh(c) =>
        \A s \in Shows(c) \ (cached[c].late \cup pending \cup missed) :
            s \in Dropping => cached[c].seen[s].version = version[s]
================================================================================
