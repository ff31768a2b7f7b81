------------------------------ MODULE AccessProofs ------------------------------
(***************************************************************************)
(* Theorems of AccessCache and of Accounts, for any readers, lifetime and  *)
(* changes of the caches, and any clients, tokens and requests of an       *)
(* account.                                                                *)
(***************************************************************************)
EXTENDS AccessCache, Accounts, FiniteSums

(* Caches: both properties are about entries; what makes them inductive is  *)
(* the same said of resolutions, stage by stage: how old what has been read *)
(* so far can be, and which changes it can have missed.                     *)

InputReads == [version : Nat, at : Nat]
Entries == [kept : BOOLEAN, seen : [Inputs -> InputReads], at : Nat, late : SUBSET Inputs]
ReadStages == {"role", "delegation", "override", "membership", "grant", "members"}
Resolutions == [stage : ReadStages \cup {"none"}, for : Caches \cup {"none"},
                seen : [Inputs -> InputReads], late : SUBSET Inputs]

\* The types, without the bounds of the instances that are checked.
AccessKinds ==
    /\ now \in Nat /\ version \in [Inputs -> Nat]
    /\ cached \in [Caches -> Entries]
    /\ resolution \in [Readers -> Resolutions]
    /\ pending \subseteq Inputs /\ missed \subseteq Inputs

Permissions == {"role", "delegation", "override"}

\* How much older than its entry what a cache shows may be: a profile may come
\* from permissions about to expire, and the people in the units from such a profile.
Slack(c, s) == CASE c = "permissions" -> 0
                 [] c = "profile" -> IF s \in Permissions THEN Ttl - 1 ELSE 0
                 [] c = "unitMembers" -> IF s \in Permissions THEN 2 * (Ttl - 1) ELSE Ttl - 1

\* What a resolution has read when it is in a stage, and how old that may be.
ReadBy(stage) ==
    CASE stage = "delegation" -> {"role"}
      [] stage = "override" -> {"role", "delegation"}
      [] stage = "membership" -> Permissions
      [] stage = "grant" -> Permissions \cup {"membership"}
      [] stage = "members" -> {"role", "membership"}
      [] OTHER -> {}
Age(stage, s) ==
    CASE stage \in {"membership", "grant"} -> IF s \in Permissions THEN Ttl - 1 ELSE 0
      [] stage = "members" -> IF s \in Permissions THEN 2 * (Ttl - 1) ELSE Ttl - 1
      [] OTHER -> 0

\* What an entry shows is about as old as the entry.
EntriesAge(t, entries) ==
    \A c \in Caches : entries[c].kept =>
        /\ entries[c].at <= t
        /\ \A s \in Shows(c) : entries[c].at - entries[c].seen[s].at <= Slack(c, s)
Ages == /\ EntriesAge(now, cached)
        /\ \A r \in Readers : \A s \in ReadBy(resolution[r].stage) :
               now - resolution[r].seen[s].at <= Age(resolution[r].stage, s)

\* Only changes that are still to drop the caches, or never will, are not seen.
Known(seen, late, s) == s \in late \cup pending \cup missed \/ seen[s].version = version[s]
Current ==
    /\ \A c \in Caches : cached[c].kept =>
           \A s \in Shows(c) \cap Dropping : Known(cached[c].seen, cached[c].late, s)
    /\ \A r \in Readers : \A s \in ReadBy(resolution[r].stage) \cap Dropping :
           Known(resolution[r].seen, resolution[r].late, s)

\* The inductive invariant.
AccessInv == AccessKinds /\ Ages /\ Current

------------------------------------------------------------------------------
(* Types *)

LEMMA UnreadTyped == Unread \in [Inputs -> InputReads]
BY DEF Unread, InputReads

LEMMA InputTyped ==
    ASSUME AccessKinds, NEW res \in Resolutions, NEW s \in Inputs
    PROVE  /\ WithInput(res, s) \in Resolutions
           /\ WithInput(res, s).stage = res.stage /\ WithInput(res, s).for = res.for
           /\ WithInput(res, s).late = res.late
           /\ WithInput(res, s).seen[s].version = version[s] /\ WithInput(res, s).seen[s].at = now
           /\ \A t \in Inputs \ {s} : WithInput(res, s).seen[t] = res.seen[t]
           /\ \A t \in Inputs : WithInput(res, s).seen[t] \in InputReads /\ res.seen[t] \in InputReads
<1> DEFINE reading == [version |-> version[s], at |-> now]
<1>1. reading \in InputReads /\ res.seen \in [Inputs -> InputReads] /\ reading.version = version[s] /\ reading.at = now
  BY DEF AccessKinds, InputReads, Resolutions
<1>2. WithInput(res, s) = [res EXCEPT !.seen[s] = reading]
  BY DEF WithInput
<1> HIDE DEF reading
<1>3. /\ WithInput(res, s) \in Resolutions /\ WithInput(res, s).stage = res.stage
      /\ WithInput(res, s).for = res.for /\ WithInput(res, s).late = res.late
      /\ WithInput(res, s).seen = [res.seen EXCEPT ![s] = reading]
  BY <1>1, <1>2 DEF Resolutions
<1>4. WithInput(res, s).seen[s] = reading /\ \A t \in Inputs \ {s} : WithInput(res, s).seen[t] = res.seen[t]
  BY <1>1, <1>3
<1>5. \A t \in Inputs : WithInput(res, s).seen[t] \in InputReads
  BY <1>1, <1>4
<1> QED BY <1>1, <1>3, <1>4, <1>5

\* A resolution that begins: at the top, or with what a cache below shows.
Begun(c) == [stage |-> "role", for |-> c, seen |-> Unread, late |-> {}]

LEMMA BelowTyped ==
    ASSUME AccessKinds, NEW c \in Caches
    PROVE  /\ FromBelow(Begun(c)) \in Resolutions
           /\ \/ FromBelow(Begun(c)).stage = "role"
              \/ /\ FromBelow(Begun(c)).stage = "members" /\ Fresh("profile")
                 /\ FromBelow(Begun(c)).seen = cached["profile"].seen
                 /\ FromBelow(Begun(c)).late = cached["profile"].late
              \/ /\ FromBelow(Begun(c)).stage = "membership" /\ Fresh("permissions")
                 /\ FromBelow(Begun(c)).seen = cached["permissions"].seen
                 /\ FromBelow(Begun(c)).late = cached["permissions"].late
<1>1. Begun(c) \in Resolutions /\ Begun(c).stage = "role"
  BY UnreadTyped DEF Begun, Resolutions, ReadStages
<1>2. /\ cached["profile"].seen \in [Inputs -> InputReads] /\ cached["profile"].late \in SUBSET Inputs
      /\ cached["permissions"].seen \in [Inputs -> InputReads]
      /\ cached["permissions"].late \in SUBSET Inputs
  BY DEF AccessKinds, Entries, Caches
<1> DEFINE profile == [Begun(c) EXCEPT !.stage = "members", !.seen = cached["profile"].seen,
                                       !.late = cached["profile"].late]
           permissions == [Begun(c) EXCEPT !.stage = "membership", !.seen = cached["permissions"].seen,
                                           !.late = cached["permissions"].late]
<1>3. /\ profile \in Resolutions /\ profile.stage = "members"
      /\ profile.seen = cached["profile"].seen /\ profile.late = cached["profile"].late
  BY <1>1, <1>2 DEF Resolutions, ReadStages
<1>4. /\ permissions \in Resolutions /\ permissions.stage = "membership"
      /\ permissions.seen = cached["permissions"].seen
      /\ permissions.late = cached["permissions"].late
  BY <1>1, <1>2 DEF Resolutions, ReadStages
<1>5. \/ FromBelow(Begun(c)) = Begun(c)
      \/ Fresh("profile") /\ FromBelow(Begun(c)) = profile
      \/ Fresh("permissions") /\ FromBelow(Begun(c)) = permissions
  BY DEF FromBelow, Take
<1> HIDE DEF profile, permissions
<1> QED BY <1>1, <1>3, <1>4, <1>5

\* The next stage of a resolution.
LEMMA StageTyped ==
    ASSUME NEW res \in Resolutions, NEW stage \in ReadStages
    PROVE  /\ [res EXCEPT !.stage = stage] \in Resolutions
           /\ [res EXCEPT !.stage = stage].stage = stage
           /\ [res EXCEPT !.stage = stage].seen = res.seen
           /\ [res EXCEPT !.stage = stage].late = res.late
BY DEF Resolutions

LEMMA NoResolutionTyped == NoResolution \in Resolutions /\ NoResolution.stage = "none"
BY UnreadTyped DEF NoResolution, Resolutions

LEMMA FilledTyped ==
    ASSUME AccessKinds, NEW c \in Caches, NEW res \in Resolutions
    PROVE  /\ Filled(c, res) \in [Caches -> Entries]
           /\ Filled(c, res)[c].seen = res.seen /\ Filled(c, res)[c].at = now
           /\ Filled(c, res)[c].late = res.late
           /\ \A d \in Caches \ {c} : Filled(c, res)[d] = cached[d]
<1>1. [kept |-> TRUE, seen |-> res.seen, at |-> now, late |-> res.late] \in Entries
  BY DEF AccessKinds, Entries, Resolutions
<1> QED BY <1>1 DEF Filled, AccessKinds

\* The actions that read the last input of a cache, and what they make of it.
LEMMA FillShape ==
    ASSUME AccessKinds, NEW r \in Readers, NEW s \in Inputs, NEW c \in Caches, FillCache(r, s, c)
    PROVE  LET res == resolution[r]
               read == WithInput(res, s)
           IN /\ \/ s = "override" /\ c = "permissions"
                 \/ s = "grant" /\ c = "profile"
              /\ res \in Resolutions /\ res.stage = s
              /\ read \in Resolutions
              /\ cached' = Filled(c, read)
              /\ \/ To(r, NoResolution)
                 \/ To(r, [read EXCEPT !.stage = IF s = "override" THEN "membership" ELSE "members"])
<1>1. resolution[r] \in Resolutions
  BY DEF AccessKinds
<1>2. (s = "override" /\ c = "permissions") \/ (s = "grant" /\ c = "profile")
  <2>1. <<s, c>> = <<"override", "permissions">> \/ <<s, c>> = <<"grant", "profile">>
    BY DEF FillCache
  <2>2. \A x, y, v, w : <<x, y>> = <<v, w>> => x = v /\ y = w
    OBVIOUS
  <2> QED BY <2>1, <2>2
<1>3. NextStage[s] = IF s = "override" THEN "membership" ELSE "members"
  BY <1>2 DEF NextStage
<1>4. WithInput(resolution[r], s) \in Resolutions
  BY <1>1, <1>2, InputTyped
<1> QED BY <1>1, <1>2, <1>3, <1>4 DEF FillCache

\* The stage that follows the reading of an input that fills no cache.
After(s) == CASE s = "role" -> "delegation" [] s = "delegation" -> "override" [] s = "membership" -> "grant"

LEMMA ReadShape ==
    ASSUME AccessKinds, NEW r \in Readers, NEW s \in Inputs, ReadInput(r, s)
    PROVE  LET res == resolution[r]
               read == WithInput(res, s)
           IN /\ s \in {"role", "delegation", "membership"}
              /\ res \in Resolutions /\ res.stage = s
              /\ read \in Resolutions
              /\ To(r, [read EXCEPT !.stage = After(s)])
<1>1. resolution[r] \in Resolutions
  BY DEF AccessKinds
<1>2. s \in {"role", "delegation", "membership"} /\ NextStage[s] = After(s)
  BY DEF ReadInput, NextStage, After
<1>3. WithInput(resolution[r], s) \in Resolutions
  BY <1>1, <1>2, InputTyped
<1> QED BY <1>1, <1>2, <1>3 DEF ReadInput

LEMMA KindsInit == AccessInit => AccessKinds
<1>1. Empty \in Entries
  BY UnreadTyped DEF Empty, Entries
<1> QED BY <1>1, NoResolutionTyped DEF AccessInit, AccessKinds

LEMMA KindsStep == AccessKinds /\ [AccessNext]_accessVars => AccessKinds'
<1> SUFFICES ASSUME AccessKinds, [AccessNext]_accessVars PROVE AccessKinds'
  OBVIOUS
<1>1. ASSUME NEW r \in Readers, NEW q \in Resolutions, To(r, q)
      PROVE  resolution' \in [Readers -> Resolutions]
  BY <1>1 DEF To, AccessKinds
<1>2. CASE AccessTick
  BY <1>2 DEF AccessTick, AccessKinds
<1>3. ASSUME NEW r \in Readers, NEW c \in Caches, BeginResolution(r, c) PROVE AccessKinds'
  <2>1. resolution' \in [Readers -> Resolutions]
    BY <1>1, <1>3, BelowTyped DEF BeginResolution, Begun
  <2> QED BY <1>3, <2>1 DEF BeginResolution, AccessKinds
<1>4. ASSUME NEW r \in Readers, NEW s \in Inputs, ReadInput(r, s) PROVE AccessKinds'
  <2>1. resolution' \in [Readers -> Resolutions]
    BY <1>1, <1>4, ReadShape, StageTyped DEF ReadStages, After
  <2> QED BY <1>4, <2>1 DEF ReadInput, AccessKinds
<1>5. ASSUME NEW r \in Readers, NEW s \in Inputs, NEW c \in Caches, FillCache(r, s, c) PROVE AccessKinds'
  <2> DEFINE read == WithInput(resolution[r], s)
  <2>0. /\ read \in Resolutions /\ cached' = Filled(c, read)
        /\ \/ To(r, NoResolution)
           \/ To(r, [read EXCEPT !.stage = IF s = "override" THEN "membership" ELSE "members"])
    BY <1>5, FillShape
  <2> HIDE DEF read
  <2>1. resolution' \in [Readers -> Resolutions]
    BY <1>1, <2>0, StageTyped, NoResolutionTyped DEF ReadStages
  <2>2. cached' \in [Caches -> Entries]
    BY <2>0, FilledTyped
  <2> QED BY <1>5, <2>1, <2>2 DEF FillCache, AccessKinds
<1>6. ASSUME NEW r \in Readers, FillMembers(r) PROVE AccessKinds'
  <2>1. resolution' \in [Readers -> Resolutions]
    BY <1>1, <1>6, NoResolutionTyped DEF FillMembers
  <2>2. cached' \in [Caches -> Entries]
    BY <1>6, FilledTyped DEF FillMembers, Caches, AccessKinds
  <2> QED BY <1>6, <2>1, <2>2 DEF FillMembers, AccessKinds
<1>7. ASSUME NEW s \in Dropping, StoreChange(s) \/ StoreElsewhere(s) \/ WriterFails(s) PROVE AccessKinds'
  <2>1. s \in Inputs
    BY DEF Dropping, Inputs
  <2> QED BY <1>7, <2>1 DEF StoreChange, StoreElsewhere, WriterFails, Writes, AccessKinds
<1>8. ASSUME NEW s \in Dropping, DropCaches(s) PROVE AccessKinds'
  <2>1. s \in Inputs
    BY DEF Dropping, Inputs
  <2>2. cached' \in [Caches -> Entries]
    BY <1>8, UnreadTyped DEF DropCaches, AccessKinds, Empty, Entries
  <2>3. \A r \in Readers : [resolution[r] EXCEPT !.late = @ \cup {s}] \in Resolutions
    BY <2>1 DEF AccessKinds, Resolutions
  <2>4. resolution' \in [Readers -> Resolutions]
    BY <1>8, <2>3, NoResolutionTyped DEF DropCaches
  <2> QED BY <1>8, <2>2, <2>4 DEF DropCaches, AccessKinds
<1>9. CASE UNCHANGED accessVars
  BY <1>9 DEF accessVars, AccessKinds
<1>10. ASSUME NEW s \in Inputs \ Dropping, StoreUndropped(s) PROVE AccessKinds'
  BY <1>10 DEF StoreUndropped, Writes, AccessKinds
<1> QED BY <1>2, <1>3, <1>4, <1>5, <1>6, <1>7, <1>8, <1>9, <1>10 DEF AccessNext

------------------------------------------------------------------------------
(* Ages *)

LEMMA AgesStep == AccessKinds /\ Ages /\ [AccessNext]_accessVars => Ages'
<1> SUFFICES ASSUME AccessKinds, Ages, [AccessNext]_accessVars PROVE Ages'
  OBVIOUS
<1> USE DEF Ages
<1>0. now \in Nat /\ Ttl \in Nat \ {0} /\ AccessKinds'
  BY KindsStep, AccessCacheAssumption DEF AccessCacheAssumption, AccessKinds
<1>1. ASSUME NEW r \in Readers, NEW q, To(r, q), UNCHANGED now,
             \A s \in ReadBy(q.stage) : now - q.seen[s].at <= Age(q.stage, s),
             EntriesAge(now, cached')
      PROVE  Ages'
  BY <1>1 DEF To, AccessKinds
<1>2. CASE AccessTick
  <2>1. \A r \in Readers : ReadBy(resolution'[r].stage) = {}
    BY <1>2 DEF AccessTick, Resolving, ReadBy
  <2>2. EntriesAge(now, cached) => EntriesAge(now', cached')
    BY <1>2 DEF AccessTick, EntriesAge, AccessKinds, Entries
  <2> QED BY <2>1, <2>2
<1>3. ASSUME NEW r \in Readers, NEW c \in Caches, BeginResolution(r, c) PROVE Ages'
  <2> DEFINE q == FromBelow(Begun(c))
  <2>1. To(r, q) /\ UNCHANGED <<now, cached>>
    BY <1>3 DEF BeginResolution, Begun
  <2>2. ASSUME NEW s \in ReadBy(q.stage) PROVE now - q.seen[s].at <= Age(q.stage, s)
    <3>1. CASE q.stage = "role"
      BY <2>2, <3>1 DEF ReadBy
    <3>2. CASE q.stage = "members" /\ Fresh("profile") /\ q.seen = cached["profile"].seen
      <4>1. s \in {"role", "membership"} /\ s \in Shows("profile") /\ "profile" \in Caches /\ s \in Inputs
        BY <2>2, <3>2 DEF ReadBy, Shows, Caches, Inputs
      <4>2. cached["profile"].at - cached["profile"].seen[s].at <= (IF s \in Permissions THEN Ttl - 1 ELSE 0)
        BY <3>2, <4>1 DEF EntriesAge, Fresh, Slack
      <4>3. now - cached["profile"].at < Ttl
        BY <3>2 DEF Fresh
      <4>4. cached["profile"].at \in Nat /\ cached["profile"].seen[s].at \in Nat
        BY <4>1 DEF AccessKinds, Entries, InputReads
      <4>5. Age(q.stage, s) = IF s \in Permissions THEN 2 * (Ttl - 1) ELSE Ttl - 1
        BY <3>2 DEF Age
      <4> QED BY <1>0, <3>2, <4>2, <4>3, <4>4, <4>5
    <3>3. CASE q.stage = "membership" /\ Fresh("permissions") /\ q.seen = cached["permissions"].seen
      <4>1. s \in Permissions /\ s \in Shows("permissions") /\ "permissions" \in Caches /\ s \in Inputs
        BY <2>2, <3>3 DEF ReadBy, Shows, Caches, Inputs, Permissions
      <4>2. cached["permissions"].at - cached["permissions"].seen[s].at <= 0
        BY <3>3, <4>1 DEF EntriesAge, Fresh, Slack
      <4>3. now - cached["permissions"].at < Ttl
        BY <3>3 DEF Fresh
      <4>4. cached["permissions"].at \in Nat /\ cached["permissions"].seen[s].at \in Nat
        BY <4>1 DEF AccessKinds, Entries, InputReads
      <4> QED BY <1>0, <3>3, <4>1, <4>2, <4>3, <4>4 DEF Age
    <3> QED BY <3>1, <3>2, <3>3, BelowTyped
  <2> QED BY <1>1, <2>1, <2>2
<1>4. ASSUME NEW r \in Readers, NEW s \in Inputs, ReadInput(r, s) PROVE Ages'
  <2> DEFINE res == resolution[r]
             read == WithInput(res, s)
             q == [read EXCEPT !.stage = After(s)]
  <2>1. /\ s \in {"role", "delegation", "membership"} /\ res \in Resolutions /\ res.stage = s
        /\ read \in Resolutions /\ To(r, q)
    BY <1>4, ReadShape
  <2>2. q.stage = After(s) /\ q.seen = read.seen
    BY <2>1, StageTyped DEF ReadStages, After
  <2>3. UNCHANGED <<now, cached>>
    BY <1>4 DEF ReadInput
  <2>4. ASSUME NEW t \in ReadBy(After(s)) PROVE now - read.seen[t].at <= Age(After(s), t)
    <3>1. CASE t = s
      <4>1. now - read.seen[t].at = 0
        BY <1>0, <2>1, <3>1, InputTyped
      <4>2. Age(After(s), t) \in Nat
        BY <1>0, <2>1 DEF Age, After
      <4> QED BY <4>1, <4>2
    <3>2. CASE t # s
      <4>1. t \in ReadBy(s) /\ t \in Inputs /\ Age(s, t) = Age(After(s), t)
        BY <2>1, <2>4, <3>2 DEF ReadBy, Permissions, Inputs, After, Age
      <4>2. read.seen[t] = res.seen[t]
        BY <2>1, <3>2, <4>1, InputTyped
      <4>3. now - res.seen[t].at <= Age(s, t)
        BY <2>1, <4>1
      <4> QED BY <4>1, <4>2, <4>3
    <3> QED BY <3>1, <3>2
  <2> HIDE DEF q
  <2> QED BY <1>1, <2>1, <2>2, <2>3, <2>4
<1>5. ASSUME NEW r \in Readers, NEW s \in Inputs, NEW c \in Caches, FillCache(r, s, c) PROVE Ages'
  <2> DEFINE res == resolution[r]
             read == WithInput(res, s)
             stage == IF s = "override" THEN "membership" ELSE "members"
             q == [read EXCEPT !.stage = stage]
  <2>1. /\ (s = "override" /\ c = "permissions") \/ (s = "grant" /\ c = "profile")
        /\ res \in Resolutions /\ res.stage = s /\ read \in Resolutions
        /\ cached' = Filled(c, read)
        /\ To(r, NoResolution) \/ To(r, q)
    BY <1>5, FillShape
  <2>2. q.stage = stage /\ q.seen = read.seen
    BY <2>1, StageTyped DEF ReadStages
  <2>3. UNCHANGED now
    BY <1>5 DEF FillCache
  <2>4. ASSUME NEW t \in Shows(c)
        PROVE  t \in Inputs /\ read.seen[t].at \in Nat /\ now - read.seen[t].at <= Slack(c, t)
    <3>0. t \in Inputs /\ (t \in ReadBy(s) \/ t = s) /\ Slack(c, t) \in Nat
      BY <1>0, <2>1, <2>4 DEF Shows, ReadBy, Inputs, Permissions, Slack
    <3>1. CASE t = s
      BY <1>0, <2>1, <3>0, <3>1, InputTyped
    <3>2. CASE t # s
      <4>1. read.seen[t] = res.seen[t] /\ res.seen[t] \in InputReads
        BY <2>1, <3>0, <3>2, InputTyped DEF Resolutions
      <4>2. now - res.seen[t].at <= Age(s, t)
        BY <2>1, <3>0, <3>2
      <4>3. Age(s, t) = Slack(c, t)
        BY <2>1, <2>4, <3>2 DEF Age, Slack, Shows, Permissions
      <4> QED BY <3>0, <4>1, <4>2, <4>3 DEF InputReads
    <3> QED BY <3>1, <3>2
  <2>6. EntriesAge(now, cached')
    <3> HIDE DEF read
    <3>1. ASSUME NEW d \in Caches, cached'[d].kept, NEW t \in Shows(d)
          PROVE  cached'[d].at <= now /\ cached'[d].at - cached'[d].seen[t].at <= Slack(d, t)
      <4>1. CASE d = c
        BY <1>0, <2>1, <2>4, <3>1, <4>1, FilledTyped
      <4>2. CASE d # c
        BY <2>1, <3>1, <4>2, FilledTyped DEF EntriesAge
      <4> QED BY <4>1, <4>2
    <3>2. ASSUME NEW d \in Caches, cached'[d].kept PROVE cached'[d].at <= now
      BY <1>0, <2>1, <3>2, FilledTyped DEF EntriesAge
    <3> QED BY <3>1, <3>2 DEF EntriesAge
  <2>7. ASSUME NEW t \in ReadBy(stage) PROVE now - read.seen[t].at <= Age(stage, t)
    <3>1. t \in Shows(c) /\ Slack(c, t) \in Nat /\ Age(stage, t) \in Nat /\ Slack(c, t) <= Age(stage, t)
      BY <1>0, <2>1, <2>7 DEF ReadBy, Shows, Permissions, Inputs, Slack, Age
    <3> QED BY <1>0, <2>4, <3>1
  <2>8. ReadBy(NoResolution.stage) = {}
    BY NoResolutionTyped DEF ReadBy
  <2> HIDE DEF q
  <2> QED BY <1>1, <2>1, <2>2, <2>3, <2>6, <2>7, <2>8
<1>6. ASSUME NEW r \in Readers, FillMembers(r) PROVE Ages'
  <2>1. To(r, NoResolution) /\ UNCHANGED now /\ cached' = Filled("unitMembers", resolution[r])
        /\ resolution[r].stage = "members" /\ "unitMembers" \in Caches /\ resolution[r] \in Resolutions
    BY <1>6 DEF FillMembers, Caches, AccessKinds
  <2>2. \A t \in Shows("unitMembers") : now - resolution[r].seen[t].at <= Slack("unitMembers", t)
    BY <2>1 DEF ReadBy, Age, Shows, Slack
  <2>3. EntriesAge(now, cached')
    BY <1>0, <2>1, <2>2, FilledTyped DEF EntriesAge
  <2>4. ReadBy(NoResolution.stage) = {}
    BY NoResolutionTyped DEF ReadBy
  <2> QED BY <1>1, <2>1, <2>3, <2>4
<1>7. ASSUME NEW s \in Dropping, StoreChange(s) \/ StoreElsewhere(s) \/ WriterFails(s) PROVE Ages'
  BY <1>7 DEF StoreChange, StoreElsewhere, WriterFails
<1>8. ASSUME NEW s \in Dropping, DropCaches(s) PROVE Ages'
  <2>1. EntriesAge(now', cached')
    BY <1>8 DEF DropCaches, EntriesAge, Empty
  <2>2. \A r \in Readers : ReadBy(NoResolution.stage) = {} /\ resolution[r] \in Resolutions
    BY NoResolutionTyped DEF ReadBy, AccessKinds
  <2>3. \A r \in Readers : resolution'[r].stage = resolution[r].stage
                           /\ (Resolving(r) => resolution'[r].seen = resolution[r].seen)
    BY <1>8, <2>2, NoResolutionTyped DEF DropCaches, Resolving, Resolutions
  <2>4. \A r \in Readers : ~Resolving(r) => ReadBy(resolution[r].stage) = {}
    BY DEF Resolving, ReadBy
  <2> QED BY <1>8, <2>1, <2>3, <2>4 DEF DropCaches
<1>9. CASE UNCHANGED accessVars
  BY <1>9 DEF accessVars
<1>10. ASSUME NEW s \in Inputs \ Dropping, StoreUndropped(s) PROVE Ages'
  BY <1>10 DEF StoreUndropped
<1> QED BY <1>2, <1>3, <1>4, <1>5, <1>6, <1>7, <1>8, <1>9, <1>10 DEF AccessNext

------------------------------------------------------------------------------
(* Changes *)

\* What a resolution r goes on with, and what the caches hold then, show the
\* versions stored, but for the changes that are to come.
LEMMA CurrentKept ==
    ASSUME AccessKinds, Current, UNCHANGED <<version, pending, missed>>,
           NEW r \in Readers, NEW q, To(r, q),
           \A s \in ReadBy(q.stage) \cap Dropping : Known(q.seen, q.late, s),
           cached' = cached
           \/ \E c \in Caches : /\ \A d \in Caches \ {c} : cached'[d] = cached[d]
                                /\ \A s \in Shows(c) \cap Dropping :
                                       Known(cached'[c].seen, cached'[c].late, s)
    PROVE  Current'
<1>1. \A s, seen, late : Known(seen, late, s) => Known(seen, late, s)'
  BY DEF Known
<1>2. \A f \in Readers : resolution'[f] = IF f = r THEN q ELSE resolution[f]
  BY DEF To, AccessKinds
<1>3. ASSUME NEW c \in Caches, cached'[c].kept, NEW s \in Shows(c) \cap Dropping
      PROVE  Known(cached'[c].seen, cached'[c].late, s)
  BY <1>3 DEF Current
<1>4. ASSUME NEW f \in Readers, NEW s \in ReadBy(resolution'[f].stage) \cap Dropping
      PROVE  Known(resolution'[f].seen, resolution'[f].late, s)
  BY <1>2, <1>4 DEF Current
<1> QED BY <1>3, <1>4 DEF Current, Known

LEMMA CurrentStep == AccessKinds /\ Current /\ [AccessNext]_accessVars => Current'
<1> SUFFICES ASSUME AccessKinds, Current, [AccessNext]_accessVars PROVE Current'
  OBVIOUS
<1>1. CASE AccessTick
  BY <1>1 DEF AccessTick, Current, Known
<1>2. ASSUME NEW r \in Readers, NEW c \in Caches, BeginResolution(r, c) PROVE Current'
  <2> DEFINE q == FromBelow(Begun(c))
  <2>1. To(r, q) /\ UNCHANGED <<version, pending, missed, cached>>
    BY <1>2 DEF BeginResolution, Begun
  <2>2. ASSUME NEW s \in ReadBy(q.stage) \cap Dropping PROVE Known(q.seen, q.late, s)
    <3>1. CASE q.stage = "role"
      BY <2>2, <3>1 DEF ReadBy
    <3>2. CASE /\ q.stage = "members" /\ Fresh("profile")
               /\ q.seen = cached["profile"].seen /\ q.late = cached["profile"].late
      BY <2>2, <3>2 DEF ReadBy, Shows, Caches, Inputs, Fresh, Current
    <3>3. CASE /\ q.stage = "membership" /\ Fresh("permissions")
               /\ q.seen = cached["permissions"].seen /\ q.late = cached["permissions"].late
      BY <2>2, <3>3 DEF ReadBy, Shows, Caches, Permissions, Fresh, Current
    <3> QED BY <3>1, <3>2, <3>3, BelowTyped
  <2> HIDE DEF q
  <2> QED BY <2>1, <2>2, CurrentKept
<1>3. ASSUME NEW r \in Readers, NEW s \in Inputs, ReadInput(r, s) PROVE Current'
  <2> DEFINE res == resolution[r]
             read == WithInput(res, s)
             stage == After(s)
             q == [read EXCEPT !.stage = stage]
  <2>1. /\ s \in {"role", "delegation", "membership"} /\ res \in Resolutions /\ res.stage = s
        /\ read \in Resolutions /\ To(r, q)
    BY <1>3, ReadShape
  <2>2. q.stage = stage /\ q.seen = read.seen /\ q.late = read.late
    BY <2>1, StageTyped DEF ReadStages, After
  <2>3. read.late = res.late /\ read.seen[s].version = version[s]
        /\ \A t \in Inputs \ {s} : read.seen[t] = res.seen[t]
    BY <2>1, InputTyped
  <2>4. ASSUME NEW t \in ReadBy(stage) \cap Dropping PROVE Known(read.seen, read.late, t)
    <3>1. CASE t = s
      BY <2>3, <3>1 DEF Known
    <3>2. CASE t # s
      <4>1. t \in ReadBy(s) /\ t \in Inputs
        BY <2>1, <2>4, <3>2 DEF ReadBy, Permissions, Inputs, After
      <4> QED BY <2>1, <2>3, <2>4, <3>2, <4>1 DEF Current, Known
    <3> QED BY <3>1, <3>2
  <2>5. UNCHANGED <<version, pending, missed, cached>>
    BY <1>3 DEF ReadInput
  <2> HIDE DEF q, read
  <2> QED BY <2>1, <2>2, <2>4, <2>5, CurrentKept
<1>4. ASSUME NEW r \in Readers, NEW s \in Inputs, NEW c \in Caches, FillCache(r, s, c) PROVE Current'
  <2> DEFINE res == resolution[r]
             read == WithInput(res, s)
             stage == IF s = "override" THEN "membership" ELSE "members"
             q == [read EXCEPT !.stage = stage]
  <2>1. /\ (s = "override" /\ c = "permissions") \/ (s = "grant" /\ c = "profile")
        /\ res \in Resolutions /\ res.stage = s /\ read \in Resolutions
        /\ cached' = Filled(c, read)
        /\ To(r, NoResolution) \/ To(r, q)
    BY <1>4, FillShape
  <2>2. q.stage = stage /\ q.seen = read.seen /\ q.late = read.late
    BY <2>1, StageTyped DEF ReadStages
  <2>3. read.late = res.late /\ read.seen[s].version = version[s]
        /\ \A t \in Inputs \ {s} : read.seen[t] = res.seen[t]
    BY <2>1, InputTyped
  <2>4. ASSUME NEW t \in Shows(c) \cap Dropping PROVE Known(read.seen, read.late, t)
    <3>1. CASE t = s
      BY <2>3, <3>1 DEF Known
    <3>2. CASE t # s
      <4>1. t \in ReadBy(s) /\ t \in Inputs
        BY <2>1, <2>4, <3>2 DEF Shows, Dropping, ReadBy, Permissions, Inputs
      <4> QED BY <2>1, <2>3, <2>4, <3>2, <4>1 DEF Current, Known
    <3> QED BY <3>1, <3>2
  <2>5. ReadBy(stage) \subseteq Shows(c) /\ ReadBy(NoResolution.stage) = {}
    BY <2>1, NoResolutionTyped DEF ReadBy, Shows, Permissions, Inputs
  <2>6. /\ cached'[c].seen = read.seen /\ cached'[c].late = read.late
        /\ \A d \in Caches \ {c} : cached'[d] = cached[d]
    BY <2>1, FilledTyped
  <2>7. UNCHANGED <<version, pending, missed>>
    BY <1>4 DEF FillCache
  <2> HIDE DEF q, read, stage
  <2>8. CASE To(r, NoResolution)
    BY <2>4, <2>5, <2>6, <2>7, <2>8, CurrentKept
  <2>9. CASE To(r, q)
    BY <2>2, <2>4, <2>5, <2>6, <2>7, <2>9, CurrentKept
  <2> QED BY <2>1, <2>8, <2>9
<1>5. ASSUME NEW r \in Readers, FillMembers(r) PROVE Current'
  <2> DEFINE res == resolution[r]
  <2>1. /\ To(r, NoResolution) /\ UNCHANGED <<version, pending, missed>>
        /\ cached' = Filled("unitMembers", res) /\ res.stage = "members"
        /\ "unitMembers" \in Caches /\ res \in Resolutions
    BY <1>5 DEF FillMembers, Caches, AccessKinds
  <2>2. \A s \in Shows("unitMembers") \cap Dropping : Known(res.seen, res.late, s)
    BY <2>1 DEF Shows, ReadBy, Current
  <2>3. /\ cached'["unitMembers"].seen = res.seen /\ cached'["unitMembers"].late = res.late
        /\ \A d \in Caches \ {"unitMembers"} : cached'[d] = cached[d]
    BY <2>1, FilledTyped
  <2>4. ReadBy(NoResolution.stage) = {}
    BY NoResolutionTyped DEF ReadBy
  <2> QED BY <2>1, <2>2, <2>3, <2>4, CurrentKept
<1>6. ASSUME NEW s \in Dropping, StoreChange(s) \/ StoreElsewhere(s) \/ WriterFails(s) PROVE Current'
  <2>1. /\ UNCHANGED <<cached, resolution>>
        /\ \A seen, late : \A t \in Inputs : Known(seen, late, t) => Known(seen, late, t)'
    BY <1>6 DEF StoreChange, StoreElsewhere, WriterFails, Writes, Known, AccessKinds
  <2>2. Dropping \subseteq Inputs
    BY DEF Dropping, Inputs
  <2> QED BY <2>1, <2>2 DEF Current
<1>7. ASSUME NEW s \in Dropping, DropCaches(s) PROVE Current'
  <2>1. \A seen, late : \A t \in Inputs \ {s} : Known(seen, late, t) => Known(seen, late, t)'
    BY <1>7 DEF DropCaches, Known
  <2>2. Dropping \subseteq Inputs
    BY DEF Dropping, Inputs
  <2>3. ASSUME NEW c \in Caches, cached'[c].kept, NEW t \in Shows(c) \cap Dropping
        PROVE  \/ t \in cached'[c].late \cup pending' \cup missed'
               \/ cached'[c].seen[t].version = version'[t]
    <3>1. c \notin Drops(s) /\ cached'[c] = cached[c]
      BY <1>7, <2>3 DEF DropCaches, Empty
    <3>2. t # s
      BY <2>3, <3>1 DEF Drops, Shows, Dropping, Caches, Inputs
    <3>3. Known(cached[c].seen, cached[c].late, t)
      BY <2>3, <3>1 DEF Current
    <3>4. Known(cached[c].seen, cached[c].late, t) => t \in cached[c].late \cup pending' \cup missed'
                                                     \/ cached[c].seen[t].version = version'[t]
      BY <1>7, <2>2, <3>2 DEF DropCaches, Known
    <3> QED BY <3>1, <3>3, <3>4
  <2>4. ASSUME NEW r \in Readers, NEW t \in ReadBy(resolution'[r].stage) \cap Dropping
        PROVE  \/ t \in resolution'[r].late \cup pending' \cup missed'
               \/ resolution'[r].seen[t].version = version'[t]
    <3>1. Resolving(r)
      BY <1>7, <2>4, NoResolutionTyped DEF DropCaches, ReadBy
    <3>2. /\ resolution[r] \in Resolutions
          /\ resolution'[r] = [resolution[r] EXCEPT !.late = @ \cup {s}]
      BY <1>7, <3>1 DEF DropCaches, AccessKinds
    <3>3. /\ resolution'[r].stage = resolution[r].stage /\ resolution'[r].seen = resolution[r].seen
          /\ resolution'[r].late = resolution[r].late \cup {s}
      BY <3>2 DEF Resolutions
    <3>4. Known(resolution[r].seen, resolution[r].late, t)
      BY <2>4, <3>3 DEF Current
    <3> QED BY <1>7, <3>3, <3>4 DEF DropCaches, Known
  <2> QED BY <2>3, <2>4 DEF Current, Known
<1>8. CASE UNCHANGED accessVars
  BY <1>8 DEF accessVars, Current, Known
<1>10. ASSUME NEW s \in Inputs \ Dropping, StoreUndropped(s) PROVE Current'
  <2>1. UNCHANGED <<cached, resolution, pending, missed>> /\ \A t \in Dropping : version'[t] = version[t]
    BY <1>10 DEF StoreUndropped, Writes, AccessKinds
  <2> QED BY <2>1 DEF Current, Known
<1> QED BY <1>1, <1>2, <1>3, <1>4, <1>5, <1>6, <1>7, <1>8, <1>10 DEF AccessNext

LEMMA AccessInvInit == AccessInit => AccessInv
<1> SUFFICES ASSUME AccessInit PROVE AccessInv
  OBVIOUS
<1>1. /\ \A c \in Caches : ~cached[c].kept
      /\ \A r \in Readers : ReadBy(resolution[r].stage) = {}
  BY NoResolutionTyped DEF AccessInit, Empty, ReadBy
<1> QED BY <1>1, KindsInit DEF AccessInv, Ages, EntriesAge, Current

LEMMA AccessInvStep == AccessInv /\ [AccessNext]_accessVars => AccessInv'
BY KindsStep, AgesStep, CurrentStep DEF AccessInv

\* Stale access ends: whatever the order of fills, changes and drops, and where
\* nothing drops a cache, what is served was read at most one lifetime ago for each
\* cache it came through: one for permissions, two for a profile made from them,
\* three for the people found by its administrator bit.
THEOREM AccessIsRecent == AccessSpec => []StaleWithinLifetimes
<1>1. AccessInv => StaleWithinLifetimes
  <2> SUFFICES ASSUME AccessInv, NEW c \in Caches, Fresh(c), NEW s \in Shows(c)
               PROVE  now - cached[c].seen[s].at <= Passes(c, s) * (Ttl - 1)
    BY DEF StaleWithinLifetimes
  <2>1. cached[c].at - cached[c].seen[s].at <= Slack(c, s) /\ now - cached[c].at < Ttl
    BY DEF AccessInv, Ages, EntriesAge, Fresh
  <2>2. s \in Inputs
    BY DEF Shows, Inputs, Caches
  <2>3. now \in Nat /\ cached[c].at \in Nat /\ cached[c].seen[s].at \in Nat /\ Ttl \in Nat \ {0}
    BY <2>2, AccessCacheAssumption DEF AccessCacheAssumption, AccessInv, AccessKinds, Entries, InputReads
  <2>4. Passes(c, s) \in {1, 2, 3} /\ Slack(c, s) = (Passes(c, s) - 1) * (Ttl - 1)
    <3>1. CASE c = "permissions"
      BY <2>3, <3>1 DEF Passes, Slack, Shows
    <3>2. CASE c = "profile"
      BY <2>3, <3>2 DEF Passes, Slack, Shows, Permissions
    <3>3. CASE c = "unitMembers"
      BY <2>3, <3>3 DEF Passes, Slack, Shows, Permissions
    <3> QED BY <3>1, <3>2, <3>3 DEF Caches
  <2>5. now - cached[c].at <= Ttl - 1
    BY <2>1, <2>3
  <2>6. \A n \in {1, 2, 3} : (n - 1) * (Ttl - 1) + (Ttl - 1) = n * (Ttl - 1)
    BY <2>3
  <2> QED BY <2>1, <2>3, <2>4, <2>5, <2>6
<1> QED BY <1>1, AccessInvInit, AccessInvStep, PTL DEF AccessSpec

\* A revocation is not forgotten: once its writer has dropped the caches, every
\* resolution shows it, whatever was read and kept before, unless one was under
\* way at that moment or the change was stored where nothing was dropped.
THEOREM DropsAreComplete == AccessSpec => []DroppedChangesAreSeen
<1>1. AccessInv => DroppedChangesAreSeen
  BY DEF AccessInv, Current, Known, DroppedChangesAreSeen, Fresh
<1> QED BY <1>1, AccessInvInit, AccessInvStep, PTL DEF AccessSpec

(* Bounds: what is read is not beyond what was written, and the clock stops. *)

\* What was read is of a version and at a time within the bounds.
Dated(seen) == \A s \in Inputs : seen[s].version <= MaxWrites /\ seen[s].at <= MaxTime
AccessBounded ==
    /\ now <= MaxTime /\ \A s \in Inputs : version[s] <= MaxWrites
    /\ \A c \in Caches : Dated(cached[c].seen) /\ cached[c].at <= MaxTime
    /\ \A r \in Readers : Dated(resolution[r].seen)

LEMMA VersionsSum ==
    ASSUME AccessKinds
    PROVE  \E F : Terms(Inputs, version, F) /\ F[Inputs] = MapThenSumSet(LAMBDA t : version[t], Inputs)
<1> DEFINE G(g) == [s \in SUBSET Inputs |-> IF s = {} THEN 0 ELSE version[Chosen(s)] + g[s \ {Chosen(s)}]]
           sum == CHOOSE g : g = G(g)
<1>1. IsFiniteSet(Inputs) /\ version \in [Inputs -> Nat]
  <2>1. /\ IsFiniteSet({}) /\ IsFiniteSet({"role"}) /\ IsFiniteSet({"role", "delegation"})
        /\ IsFiniteSet({"role", "delegation", "override"})
        /\ IsFiniteSet({"role", "delegation", "override", "membership"})
        /\ IsFiniteSet({"role", "delegation", "override", "membership", "grant"})
    <3>1. \A S, x : IsFiniteSet(S) => IsFiniteSet(S \cup {x})
      BY FS_AddElement
    <3>2. /\ {"role"} = {} \cup {"role"} /\ {"role", "delegation"} = {"role"} \cup {"delegation"}
          /\ {"role", "delegation", "override"} = {"role", "delegation"} \cup {"override"}
          /\ {"role", "delegation", "override", "membership"} = {"role", "delegation", "override"} \cup {"membership"}
          /\ {"role", "delegation", "override", "membership", "grant"}
                 = {"role", "delegation", "override", "membership"} \cup {"grant"}
      OBVIOUS
    <3>3. IsFiniteSet({})
      BY FS_EmptySet
    <3>4. IsFiniteSet({"role"})
      BY FS_Singleton
    <3>5. IsFiniteSet({"role", "delegation"})
      BY <3>1, <3>2, <3>4
    <3>6. IsFiniteSet({"role", "delegation", "override"})
      <4>1. IsFiniteSet({"role", "delegation"} \cup {"override"})
        BY <3>1, <3>5
      <4> QED BY <3>2, <4>1
    <3>7. IsFiniteSet({"role", "delegation", "override", "membership"})
      <4>1. IsFiniteSet({"role", "delegation", "override"} \cup {"membership"})
        BY <3>1, <3>6
      <4> QED BY <3>2, <4>1
    <3>8. IsFiniteSet({"role", "delegation", "override", "membership", "grant"})
      <4>1. IsFiniteSet({"role", "delegation", "override", "membership"} \cup {"grant"})
        BY <3>1, <3>7
      <4> QED BY <3>2, <4>1
    <3> QED BY <3>3, <3>4, <3>5, <3>6, <3>7, <3>8
  <2> QED BY <2>1 DEF Inputs, AccessKinds
<1>2. MapThenSumSet(LAMBDA t : version[t], Inputs) = sum[Inputs]
  BY DEF MapThenSumSet, MapThenFoldSet, Chosen
<1>4. PICK F : Terms(Inputs, version, F)
  BY <1>1, TermsExist
<1>5. \A T \in SUBSET Inputs : T # {} => F[T] = version[Chosen(T)] + F[T \ {Chosen(T)}]
  BY <1>4, IsChosen DEF Terms, AnyTerm
<1>6. F = G(F)
  BY <1>4, <1>5 DEF Terms
<1> HIDE DEF G
<1>7. sum = G(sum)
  BY <1>6
<1> HIDE DEF sum
<1>8. /\ F[{}] = sum[{}]
      /\ \A T \in SUBSET Inputs : T # {} => (F[T \ {Chosen(T)}] = sum[T \ {Chosen(T)}] => F[T] = sum[T])
  <2>1. \A T \in SUBSET Inputs : F[T] = G(F)[T] /\ sum[T] = G(sum)[T]
    BY <1>6, <1>7
  <2> QED BY <2>1 DEF G
<1>9. F[Inputs] = sum[Inputs]
  BY <1>1, <1>8, SameFold DEF Chosen
<1> QED BY <1>2, <1>4, <1>9 DEF sum

\* The changes in all are bounded, hence those of an input.
LEMMA VersionGrows ==
    ASSUME AccessKinds, AccessBounded, NEW s \in Inputs, Writes(s)
    PROVE  \A t \in Inputs : version'[t] \in Nat /\ version'[t] <= MaxWrites
<1>1. PICK F : Terms(Inputs, version, F) /\ F[Inputs] = MapThenSumSet(LAMBDA t : version[t], Inputs)
  BY VersionsSum
<1>2. version \in [Inputs -> Nat] /\ s \in Inputs
  BY DEF AccessKinds
<1>3. version[s] <= F[Inputs]
  BY <1>1, <1>2, TermBelowSum
<1>4. F[Inputs] \in Nat /\ F[Inputs] < MaxWrites
  BY <1>1 DEF Terms, Writes
<1>5. version' = [version EXCEPT ![s] = version[s] + 1]
  BY DEF Writes
<1>6. version[s] + 1 \in Nat /\ version[s] + 1 <= MaxWrites
  BY <1>2, <1>3, <1>4, AccessCacheAssumption DEF AccessCacheAssumption
<1> QED BY <1>2, <1>5, <1>6 DEF AccessBounded

LEMMA InputDated ==
    ASSUME AccessKinds, AccessBounded, NEW res \in Resolutions, Dated(res.seen), NEW s \in Inputs
    PROVE  Dated(WithInput(res, s).seen)
<1>1. ASSUME NEW t \in Inputs PROVE WithInput(res, s).seen[t].version <= MaxWrites /\ WithInput(res, s).seen[t].at <= MaxTime
  <2>1. CASE t = s
    BY <2>1, InputTyped DEF AccessBounded
  <2>2. CASE t # s
    BY <2>2, InputTyped DEF Dated
  <2> QED BY <2>1, <2>2
<1> QED BY <1>1 DEF Dated

\* A resolution goes on, and a cache may be filled with what it has read.
LEMMA ReadingBounded ==
    ASSUME AccessKinds, AccessBounded, UNCHANGED <<now, version>>, NEW r \in Readers, NEW q, To(r, q), Dated(q.seen),
           cached' = cached
           \/ \E c \in Caches, res \in Resolutions : Dated(res.seen) /\ cached' = Filled(c, res)
    PROVE  AccessBounded'
<1> USE DEF AccessBounded
<1>1. \A f \in Readers : resolution'[f] = IF f = r THEN q ELSE resolution[f]
  BY DEF To, AccessKinds
<1>2. ASSUME NEW c \in Caches, NEW res \in Resolutions, Dated(res.seen), cached' = Filled(c, res)
      PROVE  \A d \in Caches : Dated(cached'[d].seen) /\ cached'[d].at <= MaxTime
  BY <1>2, FilledTyped
<1>3. \A d \in Caches : Dated(cached'[d].seen) /\ cached'[d].at <= MaxTime
  BY <1>2
<1>4. \A seen : Dated(seen) => Dated(seen)'
  BY DEF Dated
<1> QED BY <1>1, <1>3, <1>4 DEF Dated

LEMMA UnreadDated == Dated(Unread) /\ Dated(NoResolution.seen) /\ Dated(Empty.seen) /\ Empty.at = 0
BY AccessCacheAssumption DEF AccessCacheAssumption, Dated, Unread, NoResolution, Empty

LEMMA AccessBoundedInit == AccessInit => AccessBounded
BY UnreadDated, AccessCacheAssumption DEF AccessCacheAssumption, AccessInit, AccessBounded

LEMMA AccessBoundedStep == AccessKinds /\ AccessBounded /\ [AccessNext]_accessVars => AccessBounded'
<1> SUFFICES ASSUME AccessKinds, AccessBounded, [AccessNext]_accessVars PROVE AccessBounded'
  OBVIOUS
<1>0. MaxTime \in Nat /\ MaxWrites \in Nat /\ now \in Nat
  BY AccessCacheAssumption DEF AccessCacheAssumption, AccessKinds
<1>1. CASE AccessTick
  BY <1>0, <1>1 DEF AccessTick, AccessBounded, Dated
<1>2. ASSUME NEW r \in Readers, NEW c \in Caches, BeginResolution(r, c) PROVE AccessBounded'
  <2> DEFINE q == FromBelow(Begun(c))
  <2>1. To(r, q) /\ UNCHANGED <<now, version, cached>>
    BY <1>2 DEF BeginResolution, Begun
  <2>2. Dated(q.seen)
    <3>1. \/ q = Begun(c) \/ q = Take(Begun(c), "members", "profile")
          \/ q = Take(Begun(c), "membership", "permissions")
      BY DEF FromBelow
    <3>2. /\ Begun(c).seen = Unread
          /\ Take(Begun(c), "members", "profile").seen = cached["profile"].seen
          /\ Take(Begun(c), "membership", "permissions").seen = cached["permissions"].seen
      BY DEF Begun, Take
    <3> HIDE DEF q
    <3> QED BY <3>1, <3>2, UnreadDated DEF AccessBounded, Caches
  <2> HIDE DEF q
  <2> QED BY <2>1, <2>2, ReadingBounded
<1>3. ASSUME NEW r \in Readers, NEW s \in Inputs, ReadInput(r, s) PROVE AccessBounded'
  <2> DEFINE read == WithInput(resolution[r], s)
             stage == After(s)
             q == [read EXCEPT !.stage = stage]
  <2>1. s \in {"role", "delegation", "membership"} /\ resolution[r] \in Resolutions /\ read \in Resolutions /\ To(r, q)
    BY <1>3, ReadShape
  <2>2. Dated(read.seen)
    BY <2>1, InputDated DEF AccessBounded
  <2>3. q.seen = read.seen
    BY <2>1, StageTyped DEF ReadStages, After
  <2>4. UNCHANGED <<now, version, cached>>
    BY <1>3 DEF ReadInput
  <2> HIDE DEF q, read
  <2> QED BY <2>1, <2>2, <2>3, <2>4, ReadingBounded
<1>4. ASSUME NEW r \in Readers, NEW s \in Inputs, NEW c \in Caches, FillCache(r, s, c) PROVE AccessBounded'
  <2> DEFINE read == WithInput(resolution[r], s)
             stage == IF s = "override" THEN "membership" ELSE "members"
             q == [read EXCEPT !.stage = stage]
  <2>1. /\ s \in {"override", "grant"} /\ resolution[r] \in Resolutions /\ read \in Resolutions
        /\ cached' = Filled(c, read) /\ (To(r, NoResolution) \/ To(r, q))
    BY <1>4, FillShape
  <2>2. Dated(read.seen)
    BY <2>1, InputDated DEF AccessBounded
  <2>3. q.seen = read.seen
    BY <2>1, StageTyped DEF ReadStages
  <2>4. UNCHANGED <<now, version>>
    BY <1>4 DEF FillCache
  <2> HIDE DEF q, read
  <2>5. CASE To(r, NoResolution)
    BY <2>1, <2>2, <2>4, <2>5, UnreadDated, ReadingBounded
  <2>6. CASE To(r, q)
    BY <2>1, <2>2, <2>3, <2>4, <2>6, ReadingBounded
  <2> QED BY <2>1, <2>5, <2>6
<1>5. ASSUME NEW r \in Readers, FillMembers(r) PROVE AccessBounded'
  <2>1. /\ To(r, NoResolution) /\ UNCHANGED <<now, version>> /\ "unitMembers" \in Caches
        /\ resolution[r] \in Resolutions /\ Dated(resolution[r].seen)
        /\ cached' = Filled("unitMembers", resolution[r])
    BY <1>5 DEF FillMembers, Caches, AccessKinds, AccessBounded
  <2> QED BY <2>1, UnreadDated, ReadingBounded
<1>6. ASSUME NEW s \in Dropping, StoreChange(s) \/ StoreElsewhere(s) PROVE AccessBounded'
  <2>1. \A t \in Inputs : version'[t] <= MaxWrites
    BY <1>6, VersionGrows DEF StoreChange, StoreElsewhere, Dropping, Inputs
  <2> QED BY <1>6, <2>1 DEF StoreChange, StoreElsewhere, AccessBounded, Dated
<1>7. ASSUME NEW s \in Dropping, WriterFails(s) PROVE AccessBounded'
  BY <1>7 DEF WriterFails, AccessBounded, Dated
<1>8. ASSUME NEW s \in Dropping, DropCaches(s) PROVE AccessBounded'
  <2>1. UNCHANGED <<now, version>> /\ \A c \in Caches : cached'[c] = Empty \/ cached'[c] = cached[c]
    BY <1>8 DEF DropCaches
  <2>2. ASSUME NEW r \in Readers PROVE resolution'[r] = NoResolution \/ resolution'[r].seen = resolution[r].seen
    <3>1. resolution[r] \in Resolutions
      BY DEF AccessKinds
    <3>2. [resolution[r] EXCEPT !.late = @ \cup {s}].seen = resolution[r].seen
      BY <3>1 DEF Resolutions
    <3> QED BY <1>8, <3>2 DEF DropCaches
  <2>3. \A seen : Dated(seen) => Dated(seen)'
    BY DEF Dated
  <2> QED BY <1>0, <2>1, <2>2, <2>3, UnreadDated DEF AccessBounded, Dated
<1>9. CASE UNCHANGED accessVars
  BY <1>9 DEF accessVars, AccessBounded, Dated
<1>10. ASSUME NEW s \in Inputs \ Dropping, StoreUndropped(s) PROVE AccessBounded'
  <2>1. \A t \in Inputs : version'[t] <= MaxWrites
    BY <1>10, VersionGrows DEF StoreUndropped
  <2> QED BY <1>10, <2>1 DEF StoreUndropped, AccessBounded, Dated
<1> QED BY <1>1, <1>2, <1>3, <1>4, <1>5, <1>6, <1>7, <1>8, <1>9, <1>10 DEF AccessNext

LEMMA AccessTypes == AccessKinds /\ AccessBounded => AccessTypeOK
<1> SUFFICES ASSUME AccessKinds, AccessBounded PROVE AccessTypeOK
  OBVIOUS
<1>0. MaxTime \in Nat /\ MaxWrites \in Nat
  BY AccessCacheAssumption DEF AccessCacheAssumption
<1>1. ASSUME NEW seen \in [Inputs -> InputReads], Dated(seen) PROVE seen \in Readings
  <2>1. \A s \in Inputs : seen[s] \in [version : 0..MaxWrites, at : 0..MaxTime]
    BY <1>0, <1>1 DEF Dated, InputReads
  <2> QED BY <2>1 DEF Readings
<1>2. now \in 0..MaxTime /\ version \in [Inputs -> 0..MaxWrites]
  BY <1>0 DEF AccessKinds, AccessBounded
<1>3. cached \in [Caches -> [kept : BOOLEAN, seen : Readings, at : 0..MaxTime, late : SUBSET Inputs]]
  <2>1. ASSUME NEW c \in Caches
        PROVE  cached[c] \in [kept : BOOLEAN, seen : Readings, at : 0..MaxTime, late : SUBSET Inputs]
    <3>1. cached[c] \in Entries
      BY DEF AccessKinds
    <3>2. cached[c].seen \in Readings /\ cached[c].at \in 0..MaxTime
      BY <1>0, <1>1, <3>1 DEF Entries, AccessBounded
    <3> QED BY <3>1, <3>2 DEF Entries
  <2> QED BY <2>1 DEF AccessKinds
<1>4. ASSUME NEW r \in Readers
      PROVE  /\ resolution[r].stage \in Inputs \cup {"none", "members"}
             /\ resolution[r].for \in Caches \cup {"none"}
             /\ resolution[r].seen \in Readings /\ resolution[r].late \subseteq Inputs
  <2>1. resolution[r] \in Resolutions
    BY DEF AccessKinds
  <2> QED BY <1>1, <2>1 DEF Resolutions, ReadStages, Inputs, AccessBounded
<1> QED BY <1>2, <1>3, <1>4 DEF AccessTypeOK, AccessKinds

------------------------------------------------------------------------------
(* Sessions: a token that is valid, or about to be rotated, was cut off from every  *)
(* ended token it comes from.  A revocation cuts: the child next on the way is      *)
(* astray, is about to be linked by a rotation it overtakes, or is the one the row  *)
(* links to, which a valid row has none of and a walk goes on to.                   *)

Issued(t) == t \in 1..tally.tokens
Requests == [op : {"none"} \cup {"login", "rotate", "revokeOne", "change", "confirm", "accept", "request",
                                 "suspend", "reactivate", "offboard", "purge"},
             stage : {"none", "issue", "link", "walk", "revokeLink", "write", "revoke", "create", "apply"},
             from : Nat, at : Nat, next : Nat, password : Nat, late : BOOLEAN]
Pasts == [line : [Tokens -> SUBSET Tokens], opened : [Tokens -> Nat], astray : SUBSET Tokens,
          ended : SUBSET Tokens, scim : BOOLEAN, leaked : BOOLEAN, excused : BOOLEAN]

AccountShapes ==
    /\ account \in [status : Statuses, password : Nat]
    /\ invite \in {"none", "open", "used"}
    /\ resets \in [Links -> {"none", "open", "used"}]
    /\ token \in [Tokens -> [row : {"none", "live", "revoked", "deleted"}, next : Nat]]
    /\ command \in [Clients -> Requests]
    /\ tally \in [commands : Nat, tokens : 0..MaxTokens, passwords : Nat, resets : Nat]
    /\ past \in Pasts

\* y was issued for u.
Child(u, y) == y # u /\ u \in past.line[y] /\ past.line[y] = {y} \cup past.line[u]

\* Tokens are issued in order, and a line goes back child by child.
Lines ==
    \A t \in Tokens :
        /\ Issued(t) <=> token[t].row # "none"
        /\ ~Issued(t) => token[t] = NoToken /\ past.line[t] = {}
        /\ Issued(t) => t \in past.line[t]
        /\ \A x \in past.line[t] : Issued(x) /\ x <= t /\ past.line[x] \subseteq past.line[t]
        /\ \A a \in past.line[t] \ {t} : \E y \in past.line[t] : Child(a, y)

\* Tokens issued past a revocation, or about to be linked past one.
Loose == past.astray \cup {command[c].at : c \in {d \in Clients : command[d].late /\ command[d].stage = "link"}}
Cut(e, t) == \E x \in Loose \cap past.line[t] : x > e
\* The token is valid, or a rotation that nothing overtook is.
ActiveToken(t) ==
    IsLive(t) \/ \E c \in Clients : Issuing(command[c]) /\ command[c].from = t /\ ~command[c].late

\* A request that revokes a chain link by link.
InWalk(m) == m.stage \in {"walk", "revokeLink"}

\* What a request in progress refers to: a walk revokes only rows it found valid, which
\* no link had been read from.  What a walk has not cut off is still before it.
RequestSound(m) ==
    /\ m.stage = "issue" => (m.from = 0 <=> m.op # "rotate") /\ (m.from # 0 => Issued(m.from))
    /\ m.stage = "link" => m.op = "rotate" /\ Issued(m.from) /\ Issued(m.at) /\ Child(m.from, m.at)
    /\ m.next = 0
    /\ InWalk(m) => Issued(m.from) /\ Issued(m.at) /\ m.from \in past.line[m.at]
    /\ m.stage = "apply" => m.op \in {"suspend", "reactivate", "offboard", "purge"}
    /\ Issuing(m) /\ m.from # 0 /\ ~m.late => token[m.from].row # "deleted"
RequestsSound == \A c \in Clients : \A m \in {command[c]} : RequestSound(m)
Walking(m) == InWalk(m) =>
    \A t \in Tokens : ActiveToken(t) /\ m.from \in past.line[t] => Cut(m.from, t) \/ m.at \in past.line[t]
Walks == \A c \in Clients : \A m \in {command[c]} : Walking(m)

Linking(u, y) == \E c \in Clients : command[c].stage = "link" /\ command[c].from = u /\ command[c].at = y
\* A row links to a child; the other children are astray, or being linked.
RowsLink ==
    \A u \in Tokens :
        /\ token[u].next # 0 => Issued(token[u].next) /\ Child(u, token[u].next) /\ ~IsLive(u)
        /\ token[u].row # "deleted" =>
               \A y \in Tokens : Child(u, y) => y \in past.astray \/ Linking(u, y) \/ token[u].next = y

\* A token that outlived one that was deleted, or ended, was cut off from it.
DeletedCut ==
    \A t \in Tokens : Issued(t) /\ token[t].row # "deleted" =>
        \A u \in past.line[t] : token[u].row = "deleted" => Cut(u, t)
EndedCut ==
    /\ \A e \in past.ended : Issued(e)
    /\ \A t \in Tokens : ActiveToken(t) => \A e \in past.ended \cap past.line[t] : Cut(e, t)

SessionInv == AccountShapes /\ Lines /\ RequestsSound /\ Walks /\ RowsLink /\ DeletedCut /\ EndedCut

Stray(t) == Loose \cap past.line[t] # {}
RevocationDue == past.excused \/ \E c \in Clients : command[c].stage = "revoke"
\* A sign-in in progress that nothing overtook.
SigningIn(m) == m.stage = "issue" /\ m.from = 0 /\ ~m.late

OldPasswords ==
    /\ \A t \in Tokens : ActiveToken(t) /\ past.opened[t] < account.password => Stray(t) \/ RevocationDue
    /\ \A c \in Clients : SigningIn(command[c]) /\ command[c].password < account.password => RevocationDue
    /\ account.password = 0 =>
           (\A t \in Tokens : ActiveToken(t) => Stray(t)) /\ \A c \in Clients : ~SigningIn(command[c])
SignedOut ==
    account.status \in {"SUSPENDED", "ARCHIVED", "PURGED"} /\ ~past.scim =>
        (\A t \in Tokens : ActiveToken(t) => Stray(t)) /\ \A c \in Clients : ~SigningIn(command[c])
PurgedBare ==
    account.status = "PURGED" /\ ~past.leaked =>
        /\ account.password = 0 /\ invite # "open" /\ \A l \in Links : resets[l] # "open"
        /\ \A c \in Clients : command[c].stage \in {"write", "create"} => command[c].late

AccountInv == SessionInv /\ OldPasswords /\ SignedOut /\ PurgedBare

LEMMA ShapeParts ==
    ASSUME AccountShapes
    PROVE  /\ account \in [status : Statuses, password : Nat]
           /\ invite \in {"none", "open", "used"}
           /\ resets \in [Links -> {"none", "open", "used"}]
           /\ token \in [Tokens -> [row : {"none", "live", "revoked", "deleted"}, next : Nat]]
           /\ command \in [Clients -> Requests]
           /\ tally \in [commands : Nat, tokens : 0..MaxTokens, passwords : Nat, resets : Nat]
           /\ past \in Pasts
           /\ past.line \in [Tokens -> SUBSET Tokens] /\ past.opened \in [Tokens -> Nat]
           /\ past.astray \subseteq Tokens /\ past.ended \subseteq Tokens
           /\ tally.tokens \in Nat /\ tally.tokens <= MaxTokens /\ account.password \in Nat
           /\ \A t \in Nat : Issued(t) <=> t > 0 /\ t <= tally.tokens
           /\ \A t : Issued(t) => t \in Tokens
           /\ Tokens \subseteq Nat /\ MaxTokens \in Nat /\ 0 \notin Tokens
<1>1. /\ account \in [status : Statuses, password : Nat]
      /\ invite \in {"none", "open", "used"}
      /\ resets \in [Links -> {"none", "open", "used"}]
      /\ token \in [Tokens -> [row : {"none", "live", "revoked", "deleted"}, next : Nat]]
      /\ command \in [Clients -> Requests]
      /\ tally \in [commands : Nat, tokens : 0..MaxTokens, passwords : Nat, resets : Nat]
      /\ past \in Pasts
  BY DEF AccountShapes
<1>2. /\ past.line \in [Tokens -> SUBSET Tokens] /\ past.opened \in [Tokens -> Nat]
      /\ past.astray \subseteq Tokens /\ past.ended \subseteq Tokens
  BY <1>1 DEF Pasts
<1>3. MaxTokens \in Nat /\ tally.tokens \in 0..MaxTokens
  BY <1>1, AccountsAssumption
<1>4. tally.tokens \in Nat /\ tally.tokens <= MaxTokens /\ account.password \in Nat
  BY <1>1, <1>3
<1>5. \A t \in Nat : Issued(t) <=> t > 0 /\ t <= tally.tokens
  BY <1>4 DEF Issued
<1>6. \A t : Issued(t) => t \in Tokens
  BY <1>3, <1>4 DEF Issued, Tokens
<1>7. Tokens \subseteq Nat /\ 0 \notin Tokens
  BY <1>3 DEF Tokens
<1> QED BY <1>1, <1>2, <1>3, <1>4, <1>5, <1>6, <1>7

LEMMA NoRequest == NoCommand \in Requests /\ NoCommand.stage = "none" /\ NoCommand.at = 0 /\ NoCommand.next = 0
BY DEF NoCommand, Requests

Ops == {"login", "rotate", "revokeOne", "change", "confirm", "accept", "request",
        "suspend", "reactivate", "offboard", "purge"}
\* The request that c begins.
LEMMA OpenedRequest ==
    AccountShapes =>
       \A c \in Clients, op \in Ops, stage \in {"issue", "walk", "write", "create", "apply"}, from \in Nat :
           Opens(c, op, stage, from) =>
           /\ command[c] = NoCommand /\ command' \in [Clients -> Requests]
           /\ \A d \in Clients \ {c} : command'[d] = command[d]
           /\ command'[c].op = op /\ command'[c].stage = stage /\ command'[c].from = from
           /\ command'[c].at = (IF stage = "walk" THEN from ELSE 0) /\ command'[c].next = 0
           /\ command'[c].password = account.password /\ command'[c].late = FALSE
           /\ tally' = [tally EXCEPT !.commands = @ + 1]
<1> SUFFICES ASSUME AccountShapes, NEW c \in Clients, NEW op \in Ops,
                    NEW stage \in {"issue", "walk", "write", "create", "apply"}, NEW from \in Nat, Opens(c, op, stage, from)
             PROVE  /\ command[c] = NoCommand /\ command' \in [Clients -> Requests]
                    /\ \A d \in Clients \ {c} : command'[d] = command[d]
                    /\ command'[c].op = op /\ command'[c].stage = stage /\ command'[c].from = from
                    /\ command'[c].at = (IF stage = "walk" THEN from ELSE 0) /\ command'[c].next = 0
                    /\ command'[c].password = account.password /\ command'[c].late = FALSE
                    /\ tally' = [tally EXCEPT !.commands = @ + 1]
  OBVIOUS
<1>1. PICK m : m = [NoCommand EXCEPT !.op = op, !.stage = stage, !.from = from,
                        !.at = IF stage = "walk" THEN from ELSE 0, !.password = account.password]
  OBVIOUS
<1>2. account.password \in Nat /\ command \in [Clients -> Requests]
  BY ShapeParts
<1>3. /\ m \in Requests /\ m.op = op /\ m.stage = stage /\ m.from = from /\ m.at = (IF stage = "walk" THEN from ELSE 0) /\ m.next = 0
      /\ m.password = account.password /\ m.late = FALSE
  BY <1>1, <1>2 DEF NoCommand, Requests, Ops
<1>4. command' = [command EXCEPT ![c] = m]
  BY <1>1 DEF Opens
<1>5. command' \in [Clients -> Requests] /\ command'[c] = m /\ \A d \in Clients \ {c} : command'[d] = command[d]
  BY <1>2, <1>3, <1>4
<1> QED BY <1>3, <1>5 DEF Opens, Counts

\* What the requests in progress can be once some were overtaken.
LEMMA OvertakenTyped ==
    ASSUME AccountShapes, NEW ts
    PROVE  /\ \A r \in Requests : [r EXCEPT !.late = TRUE] \in Requests
           /\ Overtaken(ts) \in [Clients -> Requests] /\ OvertakenRotations(ts) \in [Clients -> Requests]
           /\ Late \in [Clients -> Requests]
<1>1. \A r \in Requests : [r EXCEPT !.late = TRUE] \in Requests
  BY DEF Requests
<1> QED BY <1>1, ShapeParts, NoRequest DEF Overtaken, OvertakenRotations, Late

LEMMA RevokedTyped ==
    ASSUME AccountShapes, NEW ts
    PROVE  Revoked(ts) \in [Tokens -> [row : {"none", "live", "revoked", "deleted"}, next : Nat]]
<1>1. token \in [Tokens -> [row : {"none", "live", "revoked", "deleted"}, next : Nat]]
  BY ShapeParts
<1>2. \A t \in Tokens : [token[t] EXCEPT !.row = "revoked"] \in [row : {"none", "live", "revoked", "deleted"}, next : Nat]
  BY <1>1
<1> QED BY <1>1, <1>2 DEF Revoked

\* The history records change field by field.
LEMMA PastTyped ==
    ASSUME AccountShapes
    PROVE  /\ \A S \in SUBSET Tokens : [past EXCEPT !.ended = S] \in Pasts /\ [past EXCEPT !.astray = S] \in Pasts
           /\ \A S \in SUBSET Tokens, b \in BOOLEAN : [past EXCEPT !.ended = S, !.excused = b] \in Pasts
           /\ \A S \in SUBSET Tokens, b \in BOOLEAN : [past EXCEPT !.astray = S, !.excused = b] \in Pasts
           /\ \A b, d, e \in BOOLEAN : [past EXCEPT !.leaked = b, !.excused = d, !.scim = e] \in Pasts
           /\ \A b \in BOOLEAN : [past EXCEPT !.leaked = b] \in Pasts /\ [past EXCEPT !.scim = b] \in Pasts
           /\ \A b, d \in BOOLEAN : [past EXCEPT !.scim = b, !.leaked = d] \in Pasts
BY DEF AccountShapes, Pasts

\* What begins changes no row.
BeginsCommand(c) ==
    \/ BeginLogin(c) \/ BeginReset(c) \/ BeginPassword(c) \/ BeginStatus(c)
    \/ \E t \in Tokens : BeginRotate(c, t) \/ RevokeOne(c, t)
LEMMA BeginsRequest ==
    ASSUME AccountShapes, NEW c \in Clients, BeginsCommand(c)
    PROVE  \E op \in Ops, stage \in {"issue", "walk", "write", "create", "apply"}, from \in Nat :
               /\ Opens(c, op, stage, from)
               /\ stage = "issue" => \/ op = "login" /\ from = 0 /\ account.status = "ACTIVE" /\ account.password # 0
                                     \/ op = "rotate" /\ from \in Tokens /\ IsLive(from)
               /\ stage = "walk" => from \in Tokens /\ token[from].row \in {"live", "revoked"}
               /\ stage = "apply" => op \in {"suspend", "reactivate", "offboard", "purge"}
               /\ stage = "create" => account.status = "ACTIVE"
               /\ stage = "write" => account.password # 0 \/ invite = "open" \/ \E l \in Links : resets[l] = "open"
               /\ UNCHANGED <<account, invite, token, past>> /\ (resets' = resets \/ stage = "create")
<1>0. Tokens \subseteq Nat /\ Links \subseteq Nat /\ 0 \in Nat
  BY AccountsAssumption DEF Tokens, Links
<1>1. CASE BeginLogin(c)
  <2>1. Opens(c, "login", "issue", 0)
    BY <1>1 DEF BeginLogin
  <2> QED BY <1>0, <1>1, <2>1 DEF BeginLogin, Ops
<1>2. CASE BeginReset(c)
  <2>1. Opens(c, "request", "create", 0)
    BY <1>2 DEF BeginReset
  <2> QED BY <1>0, <1>2, <2>1 DEF BeginReset, Ops
<1>3. CASE BeginPassword(c)
  <2>1. \E op \in {"change", "confirm", "accept"}, from \in Nat : Opens(c, op, "write", from)
    BY <1>0, <1>3 DEF BeginPassword
  <2> QED BY <1>0, <1>3, <2>1 DEF BeginPassword, Ops
<1>4. CASE BeginStatus(c)
  <2>1. PICK op \in {"suspend", "reactivate", "offboard", "purge"} : Opens(c, op, "apply", 0)
    BY <1>4 DEF BeginStatus
  <2> QED BY <1>0, <1>4, <2>1 DEF BeginStatus, Ops
<1>5. ASSUME NEW t \in Tokens, BeginRotate(c, t) \/ RevokeOne(c, t)
      PROVE  \/ IsLive(t) /\ Opens(c, "rotate", "issue", t)
             \/ token[t].row \in {"live", "revoked"} /\ Opens(c, "revokeOne", "walk", t)
  BY <1>5 DEF BeginRotate, RevokeOne
<1>6. ASSUME NEW t \in Tokens, BeginRotate(c, t) \/ RevokeOne(c, t)
      PROVE  UNCHANGED <<account, invite, token, past, resets>>
  BY <1>6 DEF BeginRotate, RevokeOne
<1>7. CASE \E t \in Tokens : BeginRotate(c, t) \/ RevokeOne(c, t)
  BY <1>0, <1>5, <1>6, <1>7 DEF Ops
<1> QED BY <1>1, <1>2, <1>3, <1>4, <1>7 DEF BeginsCommand

\* n is the request m, which a revocation may have overtaken.
Still(m, n) == n.op = m.op /\ n.stage = m.stage /\ n.from = m.from /\ n.at = m.at /\ n.next = m.next
               /\ n.password = m.password /\ (m.late => n.late)

LEMMA OvertakenStill ==
    ASSUME AccountShapes, NEW d \in Clients, NEW ts
    PROVE  /\ Still(command[d], Overtaken(ts)[d]) /\ Still(command[d], OvertakenRotations(ts)[d])
           /\ Still(command[d], Late[d])
           /\ Issuing(command[d]) /\ command[d].from \in ts \cup {0} => Overtaken(ts)[d].late
           /\ Issuing(command[d]) /\ command[d].from \in ts => OvertakenRotations(ts)[d].late
           /\ Late[d] = NoCommand \/ Late[d].late
<1>1. command[d] \in Requests
  BY ShapeParts
<1>2. PICK n : n = [command[d] EXCEPT !.late = TRUE]
  OBVIOUS
<1>3. Still(command[d], n) /\ n.late = TRUE /\ Still(command[d], command[d])
  BY <1>1, <1>2 DEF Still, Requests
<1>4. Overtaken(ts)[d] = (IF Issuing(command[d]) /\ command[d].from \in ts \cup {0} THEN n ELSE command[d])
  BY <1>2 DEF Overtaken
<1>5. OvertakenRotations(ts)[d] = (IF Issuing(command[d]) /\ command[d].from \in ts THEN n ELSE command[d])
  BY <1>2 DEF OvertakenRotations
<1>6. Late[d] = (IF command[d] = NoCommand THEN NoCommand ELSE n)
  BY <1>2 DEF Late
<1> QED BY <1>3, <1>4, <1>5, <1>6

\* A request that was begun or ended, or went to its next statement without touching a row.
Changed(m, n) ==
    /\ m.stage = "link" => m.at \in past'.astray
    /\ n.stage # "link" /\ n.next = 0
    /\ n.stage = "issue" =>
           (n.from = 0 <=> n.op # "rotate") /\ (n.from # 0 => n.from \in Tokens /\ IsLive(n.from))
    /\ n.stage = "apply" => n.op \in {"suspend", "reactivate", "offboard", "purge"}
    /\ InWalk(n) =>
           /\ Issued(n.from) /\ Issued(n.at) /\ n.from \in past.line[n.at]
           /\ \A t \in Tokens : ActiveToken(t)' /\ n.from \in past.line[t] => Cut(n.from, t)' \/ n.at \in past.line[t]
\* A step that at most revokes rows.
RowsOnlyRevoked ==
    \A t \in Tokens : /\ token'[t].next = token[t].next
                      /\ token[t].row # "live" => token'[t].row = token[t].row
                      /\ token[t].row = "live" => token'[t].row \in {"live", "revoked"}
RequestsGoOn == \A d \in Clients : \A m \in {command[d]}, n \in {command'[d]} : Still(m, n) \/ Changed(m, n)
Steady ==
    /\ past'.line = past.line /\ past'.opened = past.opened /\ tally'.tokens = tally.tokens
    /\ past.astray \subseteq past'.astray
    /\ RowsOnlyRevoked /\ RequestsGoOn
EndsRightly ==
    \A e \in past'.ended \ past.ended :
        Issued(e) /\ \A t \in Tokens : ActiveToken(t)' /\ e \in past.line[t] => Cut(e, t)'

LEMMA LooseGrows ==
    ASSUME SessionInv, AccountShapes', Steady
    PROVE  /\ Loose \subseteq Loose'
           /\ \A u, y \in Tokens : Linking(u, y) => Linking(u, y)' \/ y \in past'.astray
<1>1. \A d \in Clients : \A m \in {command[d]}, n \in {command'[d]} : Still(m, n) \/ Changed(m, n)
  BY DEF Steady, RequestsGoOn
<1>2. past.astray \subseteq past'.astray
  BY DEF Steady
<1>3. \A d \in Clients : command[d].stage = "link" =>
          \/ command[d].at \in past'.astray
          \/ /\ command'[d].stage = "link" /\ command'[d].from = command[d].from /\ command'[d].at = command[d].at
             /\ command[d].late => command'[d].late
  BY <1>1 DEF Still, Changed, InWalk
<1>4. Loose \subseteq Loose'
  <2> SUFFICES ASSUME NEW x \in Loose PROVE x \in Loose'
    OBVIOUS
  <2>1. CASE x \in past.astray
    BY <1>2, <2>1 DEF Loose
  <2>2. CASE \E d \in Clients : command[d].late /\ command[d].stage = "link" /\ x = command[d].at
    BY <1>3, <2>2 DEF Loose
  <2> QED BY <2>1, <2>2 DEF Loose
<1>5. ASSUME NEW u \in Tokens, NEW y \in Tokens, Linking(u, y) PROVE Linking(u, y)' \/ y \in past'.astray
  BY <1>3, <1>5 DEF Linking
<1> QED BY <1>4, <1>5

LEMMA ActiveShrinks ==
    ASSUME SessionInv, AccountShapes', Steady
    PROVE  \A t \in Tokens : ActiveToken(t)' => ActiveToken(t)
<1> SUFFICES ASSUME NEW t \in Tokens, ActiveToken(t)' PROVE ActiveToken(t)
  OBVIOUS
<1>1. \A d \in Clients : \A m \in {command[d]}, n \in {command'[d]} : Still(m, n) \/ Changed(m, n)
  BY DEF Steady, RequestsGoOn
<1>2. CASE IsLive(t)'
  BY <1>2 DEF IsLive, ActiveToken, Steady, RowsOnlyRevoked
<1>3. ASSUME NEW c \in Clients, NEW n \in {command'[c]}, Issuing(n), n.from = t, ~n.late PROVE ActiveToken(t)
  <2>0. t # 0
    BY ShapeParts DEF SessionInv
  <2>1. CASE Still(command[c], n)
    BY <1>3, <2>1 DEF Still, ActiveToken, Issuing
  <2>2. CASE Changed(command[c], n)
    BY <1>3, <2>0, <2>2 DEF Changed, ActiveToken, Issuing, InWalk
  <2> QED BY <1>1, <1>3, <2>1, <2>2
<1> QED BY <1>2, <1>3 DEF ActiveToken

\* What the lines say carries over such a step.
LEMMA LinesCarry ==
    ASSUME SessionInv, AccountShapes', past'.line = past.line, tally'.tokens = tally.tokens,
           \A t \in Tokens : ~Issued(t) => token'[t] = token[t],
           \A t \in Tokens : Issued(t) => token'[t].row # "none"
    PROVE  Lines' /\ (\A t : Issued(t)' <=> Issued(t)) /\ \A u, y : Child(u, y)' <=> Child(u, y)
<1>1. (\A t : Issued(t)' <=> Issued(t)) /\ \A u, y : Child(u, y)' <=> Child(u, y)
  BY DEF Issued, Child
<1>2. Lines
  BY DEF SessionInv
<1>3. ASSUME NEW t \in Tokens
      PROVE  /\ (Issued(t) <=> token[t].row # "none")'
             /\ (~Issued(t) => token[t] = NoToken /\ past.line[t] = {})'
  BY <1>1, <1>2 DEF Lines
<1>4. ASSUME NEW t \in Tokens
      PROVE  /\ (Issued(t) => t \in past.line[t])'
             /\ (\A x \in past.line[t] : Issued(x) /\ x <= t /\ past.line[x] \subseteq past.line[t])'
             /\ (\A a \in past.line[t] \ {t} : \E y \in past.line[t] : Child(a, y))'
  BY <1>1, <1>2 DEF Lines
<1> QED BY <1>1, <1>3, <1>4 DEF Lines

LEMMA CutGrows ==
    ASSUME SessionInv, past'.line = past.line, Loose \subseteq Loose'
    PROVE  (\A e, t : Cut(e, t) => Cut(e, t)') /\ \A t : Stray(t) => Stray(t)'
BY DEF Cut, Stray

LEMMA EndedCarry ==
    ASSUME SessionInv, AccountShapes', past'.line = past.line, tally'.tokens = tally.tokens, Loose \subseteq Loose',
           \A t \in Tokens : token'[t].row = "deleted" <=> token[t].row = "deleted",
           \A t \in Tokens : ActiveToken(t)' => ActiveToken(t), EndsRightly
    PROVE  DeletedCut' /\ EndedCut'
<1>1. \A t : Issued(t)' <=> Issued(t)
  BY DEF Issued
<1>2. \A e, t : Cut(e, t) => Cut(e, t)'
  BY CutGrows
<1>3. DeletedCut'
  BY <1>1, <1>2, ShapeParts DEF SessionInv, DeletedCut, Pasts
<1>4. (\A e \in past.ended : Issued(e))'
  BY <1>1 DEF SessionInv, EndedCut, EndsRightly
<1>5. ASSUME NEW t \in Tokens, ActiveToken(t)', NEW e \in past'.ended \cap past.line[t] PROVE Cut(e, t)'
  <2>1. CASE e \in past.ended
    BY <1>2, <1>5, <2>1 DEF SessionInv, EndedCut
  <2> QED BY <1>5, <2>1 DEF EndsRightly
<1>6. EndedCut'
  BY <1>4, <1>5 DEF EndedCut
<1> QED BY <1>3, <1>6

LEMMA SteadyKeeps ==
    ASSUME SessionInv, AccountShapes', Steady, EndsRightly
    PROVE  SessionInv' /\ Loose \subseteq Loose' /\ \A t \in Tokens : ActiveToken(t)' => ActiveToken(t)
<1>0. past'.line = past.line /\ tally'.tokens = tally.tokens /\ past.astray \subseteq past'.astray
  BY DEF Steady
<1>1. \A t \in Tokens : /\ token'[t].next = token[t].next
                        /\ token[t].row # "live" => token'[t].row = token[t].row
                        /\ token[t].row = "live" => token'[t].row \in {"live", "revoked"}
  BY DEF Steady, RowsOnlyRevoked
<1>2. Loose \subseteq Loose' /\ (\A u, y \in Tokens : Linking(u, y) => Linking(u, y)' \/ y \in past'.astray)
  BY LooseGrows
<1>3. \A t \in Tokens : ActiveToken(t)' => ActiveToken(t)
  BY ActiveShrinks
<1>4. \A t \in Tokens : token'[t].row = "deleted" <=> token[t].row = "deleted"
  BY <1>1
<1>5. DeletedCut' /\ EndedCut'
  BY <1>0, <1>2, <1>3, <1>4, EndedCarry
<1>6. ASSUME NEW t \in Tokens, ~Issued(t) PROVE token'[t] = token[t]
  <2>1. token[t] = NoToken
    BY <1>6 DEF SessionInv, Lines
  <2>2. token' \in [Tokens -> [row : {"none", "live", "revoked", "deleted"}, next : Nat]]
    BY DEF AccountShapes
  <2> QED BY <1>1, <2>1, <2>2 DEF NoToken
<1>7. ASSUME NEW t \in Tokens, Issued(t) PROVE token'[t].row # "none"
  BY <1>1, <1>7 DEF SessionInv, Lines
<1>8. Lines' /\ (\A t : Issued(t)' <=> Issued(t)) /\ \A u, y : Child(u, y)' <=> Child(u, y)
  BY <1>0, <1>6, <1>7, LinesCarry
<1>9. \A e, t : Cut(e, t) => Cut(e, t)'
  BY <1>0, <1>2, CutGrows
<1>10. ASSUME NEW d \in Clients, NEW n \in {command'[d]} PROVE RequestSound(n)' /\ Walking(n)'
  <2>0. RequestSound(command[d]) /\ Walking(command[d])
    BY DEF SessionInv, RequestsSound, Walks
  <2>1. CASE Still(command[d], n)
    <3>1. RequestSound(n)'
      BY <1>0, <1>4, <1>8, <2>0, <2>1, ShapeParts DEF Still, RequestSound, SessionInv, Issuing, InWalk
    <3>2. Walking(n)'
      BY <1>0, <1>3, <1>9, <2>0, <2>1 DEF Still, Walking, InWalk
    <3> QED BY <3>1, <3>2
  <2>2. CASE Changed(command[d], n)
    <3>1. \A t \in Tokens : IsLive(t) => Issued(t) /\ token[t].row # "deleted"
      BY DEF SessionInv, Lines, IsLive
    <3>2. RequestSound(n)'
      BY <1>0, <1>4, <1>8, <2>2, <3>1 DEF Changed, RequestSound, Issuing, InWalk
    <3>3. Walking(n)'
      BY <1>0, <2>2 DEF Changed, Walking, InWalk
    <3> QED BY <3>2, <3>3
  <2> QED BY <1>10, <2>1, <2>2 DEF Steady, RequestsGoOn
<1>11. RequestsSound' /\ Walks'
  BY <1>10 DEF RequestsSound, Walks
<1>12. ASSUME NEW u \in Tokens
       PROVE  (token[u].next # 0 => Issued(token[u].next) /\ Child(u, token[u].next) /\ ~IsLive(u))'
  BY <1>1, <1>8 DEF SessionInv, RowsLink, IsLive
<1>13. ASSUME NEW u \in Tokens, token'[u].row # "deleted", NEW y \in Tokens, Child(u, y)'
       PROVE  y \in past'.astray \/ Linking(u, y)' \/ token'[u].next = y
  BY <1>0, <1>1, <1>2, <1>4, <1>8, <1>13 DEF SessionInv, RowsLink
<1>14. RowsLink'
  BY <1>12, <1>13 DEF RowsLink
<1> QED BY <1>2, <1>3, <1>5, <1>8, <1>11, <1>14 DEF SessionInv

LEMMA BeginsShapes ==
    ASSUME AccountShapes, NEW c \in Clients, BeginsCommand(c) PROVE AccountShapes'
<1>1. PICK op \in Ops, stage \in {"issue", "walk", "write", "create", "apply"}, from \in Nat :
          Opens(c, op, stage, from) /\ UNCHANGED <<account, invite, token, past>>
  BY BeginsRequest
<1>2. command' \in [Clients -> Requests] /\ tally' = [tally EXCEPT !.commands = @ + 1]
  BY <1>1, OpenedRequest
<1>3. command' \in [Clients -> Requests] /\ tally' \in [commands : Nat, tokens : 0..MaxTokens, passwords : Nat, resets : Nat]
  BY <1>2 DEF AccountShapes
<1>4. resets' \in [Links -> {"none", "open", "used"}]
  BY DEF AccountShapes, BeginsCommand, BeginLogin, BeginReset, BeginPassword, BeginStatus, BeginRotate, RevokeOne
<1> QED BY <1>1, <1>3, <1>4 DEF AccountShapes

LEMMA IssueShapes ==
    ASSUME AccountShapes, NEW c \in Clients, RequestSound(command[c]), IssueToken(c)
    PROVE  /\ AccountShapes' /\ tally.tokens + 1 \in Tokens
           /\ past' \in Pasts /\ command' \in [Clients -> Requests]
           /\ past'.line = [past.line EXCEPT ![tally.tokens + 1] =
                                {tally.tokens + 1} \cup (IF command[c].from = 0 THEN {} ELSE past.line[command[c].from])]
           /\ past'.opened = [past.opened EXCEPT ![tally.tokens + 1] =
                                  IF command[c].from = 0 THEN command[c].password ELSE past.opened[command[c].from]]
           /\ past'.astray = (IF command[c].late THEN past.astray \cup {tally.tokens + 1} ELSE past.astray)
           /\ past'.ended = past.ended /\ past'.scim = past.scim /\ past'.leaked = past.leaked
           /\ past'.excused = past.excused
           /\ command[c].op # "rotate" => command'[c] = NoCommand
           /\ command[c].op = "rotate" =>
                  /\ command'[c].op = "rotate" /\ command'[c].stage = "link" /\ command'[c].from = command[c].from
                  /\ command'[c].at = tally.tokens + 1 /\ command'[c].password = command[c].password
                  /\ command'[c].late = command[c].late /\ command'[c].next = command[c].next
           /\ \A d \in Clients \ {c} : command'[d] = command[d]
<1> DEFINE r == command[c]
           t == tally.tokens + 1
<1>1. r \in Requests /\ past \in Pasts /\ tally.tokens \in Nat /\ tally.tokens <= MaxTokens
  BY ShapeParts
<1>2. t \in Tokens /\ t \in Nat
  BY <1>1, AccountsAssumption DEF IssueToken, Tokens
<1>3. PICK L : L = {t} \cup (IF r.from = 0 THEN {} ELSE past.line[r.from])
  OBVIOUS
<1>4. PICK w : w = (IF r.from = 0 THEN r.password ELSE past.opened[r.from])
  OBVIOUS
<1>5. PICK A : A = (IF r.late THEN past.astray \cup {t} ELSE past.astray)
  OBVIOUS
<1>6. L \in SUBSET Tokens /\ w \in Nat /\ A \in SUBSET Tokens
  <2>1. r.from # 0 => r.from \in Tokens
    BY ShapeParts DEF RequestSound, IssueToken, InWalk
  <2> QED BY <1>1, <1>2, <1>3, <1>4, <1>5, <2>1, ShapeParts DEF Requests
<1>7. past' = [past EXCEPT !.line[t] = L, !.opened[t] = w, !.astray = A]
  BY <1>3, <1>4, <1>5 DEF IssueToken
<1>8. /\ past' \in Pasts /\ past'.line = [past.line EXCEPT ![t] = L] /\ past'.opened = [past.opened EXCEPT ![t] = w]
      /\ past'.astray = A /\ past'.ended = past.ended /\ past'.scim = past.scim /\ past'.leaked = past.leaked
      /\ past'.excused = past.excused
  BY <1>1, <1>2, <1>6, <1>7 DEF Pasts
<1>9. PICK g : g = (IF r.op = "rotate" THEN [Goes(c, "link") EXCEPT !.at = t] ELSE NoCommand)
  OBVIOUS
<1>10. /\ g \in Requests
       /\ r.op # "rotate" => g = NoCommand
       /\ r.op = "rotate" => /\ g.op = "rotate" /\ g.stage = "link" /\ g.from = r.from /\ g.at = t
                             /\ g.password = r.password /\ g.late = r.late /\ g.next = r.next
  BY <1>1, <1>2, <1>9, NoRequest DEF Goes, Requests
<1>11. command' = [command EXCEPT ![c] = g]
  BY <1>9 DEF IssueToken
<1>12. tally' \in [commands : Nat, tokens : 0..MaxTokens, passwords : Nat, resets : Nat]
  <2>1. tally' = [tally EXCEPT !.tokens = t] /\ t \in 0..MaxTokens
    BY <1>2 DEF IssueToken, Tokens
  <2> QED BY <2>1 DEF AccountShapes
<1>13. token' \in [Tokens -> [row : {"none", "live", "revoked", "deleted"}, next : Nat]]
  BY <1>2 DEF AccountShapes, IssueToken
<1>14. command \in [Clients -> Requests]
  BY ShapeParts
<1>15. command' \in [Clients -> Requests] /\ command'[c] = g /\ \A d \in Clients \ {c} : command'[d] = command[d]
  <2>1. g \in Requests
    BY <1>10
  <2> QED BY <2>1, <1>11, <1>14
<1>16. AccountShapes'
  BY <1>8, <1>12, <1>13, <1>15 DEF AccountShapes, IssueToken
<1>17. /\ past'.line = [past.line EXCEPT ![t] = {t} \cup (IF r.from = 0 THEN {} ELSE past.line[r.from])]
       /\ past'.opened = [past.opened EXCEPT ![t] = IF r.from = 0 THEN r.password ELSE past.opened[r.from]]
       /\ past'.astray = (IF r.late THEN past.astray \cup {t} ELSE past.astray)
  BY <1>3, <1>4, <1>5, <1>8
<1> QED BY <1>2, <1>8, <1>10, <1>15, <1>16, <1>17

\* A request ends; what the other statements record of the past.
LEMMA EndsTyped == ASSUME AccountShapes, NEW c \in Clients, Ends(c)
    PROVE  /\ command' \in [Clients -> Requests] /\ command'[c] = NoCommand
           /\ \A d \in Clients \ {c} : command'[d] = command[d]
BY NoRequest, ShapeParts DEF Ends

LEMMA LinkShapes ==
    ASSUME SessionInv, NEW c \in Clients, LinkToken(c)
    PROVE  /\ AccountShapes'
           /\ past'.line = past.line /\ past'.opened = past.opened /\ past'.ended = past.ended
           /\ past'.scim = past.scim /\ past'.leaked = past.leaked /\ past'.excused = past.excused
           /\ token[command[c].from].row = "deleted" =>
                  token' = token /\ past'.astray = past.astray \cup {command[c].at}
           /\ token[command[c].from].row # "deleted" =>
                  /\ token' = [token EXCEPT ![command[c].from] = [row |-> "revoked", next |-> command[c].at]]
                  /\ past'.astray = past.astray \cup ({token[command[c].from].next} \ {0})
                                                \cup (IF command[c].late THEN {command[c].at} ELSE {})
<1> DEFINE r == command[c]
<1>0. AccountShapes /\ RequestSound(r) /\ RowsLink
  BY DEF SessionInv, RequestsSound
<1>1. r \in Requests /\ past \in Pasts /\ r.from \in Tokens /\ r.at \in Tokens /\ r.at \in Nat
  BY <1>0, ShapeParts DEF RequestSound, LinkToken, Requests, InWalk
<1>2. command' \in [Clients -> Requests]
  BY <1>0, EndsTyped DEF LinkToken
<1>3. CASE token[r.from].row = "deleted"
  <2>1. PICK A : A = past.astray \cup {r.at}
    OBVIOUS
  <2>2. past' = [past EXCEPT !.astray = A] /\ token' = token
    BY <1>3, <2>1 DEF LinkToken
  <2>3. A \in SUBSET Tokens
    BY <1>0, <1>1, <2>1, ShapeParts DEF RowsLink
  <2>4. /\ past' \in Pasts /\ past'.line = past.line /\ past'.opened = past.opened /\ past'.ended = past.ended
        /\ past'.scim = past.scim /\ past'.leaked = past.leaked /\ past'.excused = past.excused /\ past'.astray = A
    BY <1>1, <2>2, <2>3 DEF Pasts
  <2> QED BY <1>2, <1>3, <2>1, <2>2, <2>4 DEF SessionInv, AccountShapes, LinkToken
<1>4. CASE token[r.from].row # "deleted"
  <2>1. PICK A : A = past.astray \cup ({token[r.from].next} \ {0}) \cup (IF r.late THEN {r.at} ELSE {})
    OBVIOUS
  <2>2. past' = [past EXCEPT !.astray = A] /\ token' = [token EXCEPT ![r.from] = [row |-> "revoked", next |-> r.at]]
    BY <1>4, <2>1 DEF LinkToken, Successor
  <2>3. A \in SUBSET Tokens
    BY <1>0, <1>1, <2>1, ShapeParts DEF RowsLink
  <2>4. /\ past' \in Pasts /\ past'.line = past.line /\ past'.opened = past.opened /\ past'.ended = past.ended
        /\ past'.scim = past.scim /\ past'.leaked = past.leaked /\ past'.excused = past.excused /\ past'.astray = A
    BY <1>1, <2>2, <2>3 DEF Pasts
  <2>5. token' \in [Tokens -> [row : {"none", "live", "revoked", "deleted"}, next : Nat]]
    BY <1>0, <1>1, <2>2 DEF AccountShapes
  <2> QED BY <1>2, <1>4, <2>1, <2>2, <2>4, <2>5 DEF SessionInv, AccountShapes, LinkToken
<1> QED BY <1>3, <1>4

\* What the sessions were opened with, over a step that stores no password.
LEMMA OldPasswordsCarry ==
    ASSUME SessionInv, OldPasswords, past'.line = past.line, past'.opened = past.opened,
           account'.password = account.password, Loose \subseteq Loose', \A t \in Tokens : ActiveToken(t)' => ActiveToken(t),
           RevocationDue => RevocationDue',
           \A d \in Clients : \A n \in {command'[d]} : SigningIn(n) =>
               \/ SigningIn(command[d]) /\ n.password = command[d].password
               \/ account.password # 0 /\ n.password = account.password
    PROVE  OldPasswords'
<1>0. account.password \in Nat
  BY ShapeParts DEF SessionInv
<1>1. \A t : Stray(t) => Stray(t)'
  BY CutGrows
<1>2. \A t \in Tokens : (ActiveToken(t) /\ past.opened[t] < account.password => Stray(t) \/ RevocationDue)'
  BY <1>1 DEF OldPasswords
<1>3. ASSUME NEW d \in Clients, NEW n \in {command'[d]}, SigningIn(n), n.password < account.password PROVE RevocationDue'
  <2>1. SigningIn(command[d]) /\ n.password = command[d].password
    BY <1>0, <1>3
  <2> QED BY <1>3, <2>1 DEF OldPasswords
<1>4. ASSUME account.password = 0
      PROVE  (\A t \in Tokens : ActiveToken(t) => Stray(t))' /\ \A d \in Clients : \A n \in {command'[d]} : ~SigningIn(n)
  BY <1>1, <1>4 DEF OldPasswords
<1> QED BY <1>2, <1>3, <1>4 DEF OldPasswords

\* ... and whether any may be left, over a step that leaves the account alone.
LEMMA SignInsCarry ==
    ASSUME AccountInv, past'.line = past.line, past'.opened = past.opened, past'.scim = past.scim,
           account' = account, Loose \subseteq Loose', \A t \in Tokens : ActiveToken(t)' => ActiveToken(t),
           RevocationDue => RevocationDue',
           \A d \in Clients : \A n \in {command'[d]} : SigningIn(n) =>
               \/ SigningIn(command[d]) /\ n.password = command[d].password
               \/ account.status = "ACTIVE" /\ account.password # 0 /\ n.password = account.password
    PROVE  OldPasswords' /\ SignedOut'
<1>0. SessionInv /\ OldPasswords /\ SignedOut
  BY DEF AccountInv
<1>1. \A t : Stray(t) => Stray(t)'
  BY <1>0, CutGrows
<1>2. OldPasswords'
  BY <1>0, OldPasswordsCarry
<1>3. ASSUME account.status \in {"SUSPENDED", "ARCHIVED", "PURGED"}, ~past.scim
      PROVE  (\A t \in Tokens : ActiveToken(t) => Stray(t))' /\ \A d \in Clients : \A n \in {command'[d]} : ~SigningIn(n)
  BY <1>0, <1>1, <1>3 DEF SignedOut
<1>4. SignedOut'
  BY <1>3 DEF SignedOut
<1> QED BY <1>2, <1>4

LEMMA BareCarry ==
    ASSUME AccountInv, account' = account, invite' = invite, past.leaked => past'.leaked,
           \A l \in Links : resets'[l] = "open" => resets[l] = "open",
           \A d \in Clients : command'[d].stage \in {"write", "create"} =>
               \/ command[d].stage = command'[d].stage /\ (command[d].late => command'[d].late)
               \/ command'[d].late
    PROVE  PurgedBare'
<1>1. PurgedBare
  BY DEF AccountInv
<1> QED BY <1>1 DEF PurgedBare

\* A step that changes neither the account nor its links, and stores nothing.
LEMMA PlainKeeps ==
    ASSUME AccountInv, AccountShapes', Steady, EndsRightly, UNCHANGED <<account, invite, resets>>,
           past'.scim = past.scim, past'.leaked = past.leaked, RevocationDue => RevocationDue',
           \A d \in Clients : \A m \in {command[d]}, n \in {command'[d]} : Still(m, n) \/ n.stage \in {"none", "walk", "revokeLink"}
    PROVE  AccountInv'
<1>1. SessionInv' /\ Loose \subseteq Loose' /\ \A t \in Tokens : ActiveToken(t)' => ActiveToken(t)
  BY SteadyKeeps DEF AccountInv
<1>2. ASSUME NEW d \in Clients, NEW m \in {command[d]}, NEW n \in {command'[d]}, SigningIn(n)
      PROVE  SigningIn(m) /\ n.password = m.password
  BY <1>2 DEF SigningIn, Still
<1>3. past'.line = past.line /\ past'.opened = past.opened
  BY DEF Steady
<1>4. OldPasswords' /\ SignedOut'
  BY <1>1, <1>2, <1>3, SignInsCarry
<1>5. ASSUME NEW d \in Clients, command'[d].stage \in {"write", "create"}
      PROVE  command[d].stage = command'[d].stage /\ (command[d].late => command'[d].late)
  BY <1>5 DEF Still
<1>6. PurgedBare'
  BY <1>5, BareCarry
<1> QED BY <1>1, <1>4, <1>6 DEF AccountInv

LEMMA BeginsKeeps ==
    ASSUME AccountInv, NEW c \in Clients, BeginsCommand(c) PROVE AccountInv'
<1>0. AccountShapes /\ SessionInv /\ AccountShapes'
  BY BeginsShapes DEF AccountInv, SessionInv
<1>1. PICK op \in Ops, stage \in {"issue", "walk", "write", "create", "apply"}, from \in Nat :
               /\ Opens(c, op, stage, from)
               /\ stage = "issue" => \/ op = "login" /\ from = 0 /\ account.status = "ACTIVE" /\ account.password # 0
                                     \/ op = "rotate" /\ from \in Tokens /\ IsLive(from)
               /\ stage = "walk" => from \in Tokens /\ token[from].row \in {"live", "revoked"}
               /\ stage = "apply" => op \in {"suspend", "reactivate", "offboard", "purge"}
               /\ stage = "create" => account.status = "ACTIVE"
               /\ stage = "write" => account.password # 0 \/ invite = "open" \/ \E l \in Links : resets[l] = "open"
               /\ UNCHANGED <<account, invite, token, past>> /\ (resets' = resets \/ stage = "create")
  BY <1>0, BeginsRequest
<1>2. /\ command[c] = NoCommand
      /\ \A d \in Clients \ {c} : command'[d] = command[d]
      /\ command'[c].op = op /\ command'[c].stage = stage /\ command'[c].from = from
      /\ command'[c].at = (IF stage = "walk" THEN from ELSE 0) /\ command'[c].next = 0
      /\ command'[c].password = account.password /\ command'[c].late = FALSE
      /\ tally' = [tally EXCEPT !.commands = @ + 1]
  BY <1>0, <1>1, OpenedRequest
<1>3. tally'.tokens = tally.tokens
  BY <1>0, <1>2 DEF AccountShapes
<1>4. \A t \in Tokens : token[t].row \in {"live", "revoked"} => Issued(t) /\ t \in past.line[t] /\ t # 0
  BY <1>0, ShapeParts DEF SessionInv, Lines
<1>5. ASSUME NEW m \in {command[c]}, NEW n \in {command'[c]} PROVE Changed(m, n)
  BY <1>1, <1>2, <1>4, <1>5, NoRequest DEF Changed, IsLive, InWalk
<1>6. \A d \in Clients \ {c} : \A m \in {command[d]}, n \in {command'[d]} : Still(m, n)
  BY <1>2 DEF Still
<1>7. Steady
  BY <1>1, <1>3, <1>5, <1>6 DEF Steady, RequestsGoOn, RowsOnlyRevoked
<1>8. EndsRightly
  BY <1>1 DEF EndsRightly
<1>9. SessionInv' /\ Loose \subseteq Loose' /\ \A t \in Tokens : ActiveToken(t)' => ActiveToken(t)
  BY <1>0, <1>7, <1>8, SteadyKeeps
<1>10. RevocationDue => RevocationDue'
  BY <1>1, <1>2, NoRequest DEF RevocationDue
<1>11. ASSUME NEW d \in Clients, NEW m \in {command[d]}, NEW n \in {command'[d]}, SigningIn(n)
       PROVE  \/ SigningIn(m) /\ n.password = m.password
              \/ account.status = "ACTIVE" /\ account.password # 0 /\ n.password = account.password
  <2>1. CASE d = c
    BY <1>1, <1>2, <1>4, <1>11, <2>1 DEF SigningIn, IsLive
  <2>2. CASE d # c
    BY <1>2, <1>11, <2>2
  <2> QED BY <2>1, <2>2
<1>12. OldPasswords' /\ SignedOut'
  BY <1>0, <1>1, <1>9, <1>10, <1>11, SignInsCarry
<1>13. PurgedBare'
  <2>1. PurgedBare
    BY DEF AccountInv
  <2>2. CASE stage \in {"write", "create"}
    BY <1>1, <2>1, <2>2 DEF PurgedBare
  <2>3. CASE stage \notin {"write", "create"}
    BY <1>1, <1>2, <2>1, <2>3 DEF PurgedBare
  <2> QED BY <2>2, <2>3
<1> QED BY <1>9, <1>12, <1>13 DEF AccountInv

LEMMA RevokedRows ==
    ASSUME AccountShapes, NEW ts, token' = Revoked(ts)
    PROVE  RowsOnlyRevoked /\ \A t \in Tokens : t \in ts => token'[t].row # "live"
<1>1. token \in [Tokens -> [row : {"none", "live", "revoked", "deleted"}, next : Nat]]
  BY ShapeParts
<1>2. ASSUME NEW t \in Tokens
      PROVE  /\ token'[t].next = token[t].next
             /\ token[t].row # "live" => token'[t].row = token[t].row
             /\ token[t].row = "live" => token'[t].row \in {"live", "revoked"}
             /\ t \in ts => token'[t].row # "live"
  <2>1. PICK n : n = [token[t] EXCEPT !.row = "revoked"]
    OBVIOUS
  <2>2. n.row = "revoked" /\ n.next = token[t].next
    BY <1>1, <2>1
  <2>3. token'[t] = (IF t \in ts /\ IsLive(t) THEN n ELSE token[t])
    BY <2>1 DEF Revoked
  <2> QED BY <2>2, <2>3 DEF IsLive
<1> QED BY <1>2 DEF RowsOnlyRevoked

\* The rotations of the tokens ts in progress are overtaken, the others go on.
Overtakes(ts) ==
    \A d \in Clients : \A m \in {command[d]}, n \in {command'[d]} :
        /\ Still(m, n) \/ (~Issuing(m) /\ ~Issuing(n))
        /\ Issuing(m) /\ m.from \in ts => n.late

\* Once a row is revoked and its rotations overtaken, what stays valid past it
\* hangs on a child that is cut off, or on the one the row links to.
LEMMA Crossed ==
    ASSUME SessionInv, AccountShapes', past'.line = past.line, past.astray \subseteq past'.astray, NEW ts, Overtakes(ts),
           NEW x \in Tokens, x \in ts, token[x].row # "deleted", token'[x].row # "live",
           NEW t \in Tokens, ActiveToken(t)', x \in past.line[t]
    PROVE  \E y \in past.line[t] : Child(x, y) /\ Issued(y) /\ y > x /\ (y \in Loose' \/ token[x].next = y)
<1>1. \A d \in Clients : /\ Still(command[d], command'[d]) \/ (~Issuing(command[d]) /\ ~Issuing(command'[d]))
                         /\ Issuing(command[d]) /\ command[d].from \in ts => command'[d].late
  BY DEF Overtakes
<1>2. ASSUME NEW d \in Clients, Issuing(command'[d]), command'[d].from = x PROVE command'[d].late
  BY <1>1, <1>2 DEF Still, Issuing
<1>3. t # x
  BY <1>2 DEF ActiveToken, IsLive
<1>4. PICK y \in past.line[t] : Child(x, y)
  BY <1>3 DEF SessionInv, Lines
<1>5. Issued(y) /\ y \in Tokens
  BY ShapeParts DEF SessionInv, Lines
<1>6. x \in Nat /\ y \in Nat /\ y > x
  <2>1. x <= y /\ y # x
    BY <1>4, <1>5 DEF Child, SessionInv, Lines
  <2>2. AccountShapes
    BY DEF SessionInv
  <2>3. x \in Nat /\ y \in Nat
    BY <1>5, <2>2, ShapeParts
  <2> QED BY <2>1, <2>3
<1>7. y \in past.astray \/ Linking(x, y) \/ token[x].next = y
  BY <1>4, <1>5 DEF SessionInv, RowsLink
<1>8. CASE y \in past.astray
  BY <1>4, <1>5, <1>6, <1>8 DEF Loose
<1>9. CASE Linking(x, y)
  <2>1. PICK d \in Clients : command[d].stage = "link" /\ command[d].from = x /\ command[d].at = y
    BY <1>9 DEF Linking
  <2>2. command'[d].late /\ command'[d].stage = "link" /\ command'[d].at = y
    BY <1>1, <2>1 DEF Still, Issuing
  <2>3. y \in Loose'
    BY <2>2 DEF Loose
  <2> QED BY <1>4, <1>5, <1>6, <2>3
<1>10. CASE token[x].next = y
  BY <1>4, <1>5, <1>6, <1>10
<1> QED BY <1>7, <1>8, <1>9, <1>10

\* A revocation of valid tokens ends them rightly.
LEMMA RevocationEnds ==
    ASSUME SessionInv, AccountShapes', past'.line = past.line, past.astray \subseteq past'.astray, NEW ts, Overtakes(ts),
           \A e \in ts : e \in Tokens /\ IsLive(e), token' = Revoked(ts), past'.ended = past.ended \cup ts
    PROVE  EndsRightly
<1> SUFFICES ASSUME NEW e \in ts PROVE Issued(e) /\ \A t \in Tokens : ActiveToken(t)' /\ e \in past.line[t] => Cut(e, t)'
  BY DEF EndsRightly
<1>1. e \in Tokens /\ token[e].row = "live" /\ token'[e].row # "live" /\ Issued(e)
  BY RevokedRows DEF IsLive, SessionInv, Lines
<1>2. ASSUME NEW t \in Tokens, ActiveToken(t)', e \in past.line[t] PROVE Cut(e, t)'
  <2>1. PICK y \in past.line[t] : Child(e, y) /\ Issued(y) /\ y > e /\ (y \in Loose' \/ token[e].next = y)
    BY <1>1, <1>2, Crossed
  <2>2. token[e].next # y
    BY <1>1, <2>1, ShapeParts DEF SessionInv, RowsLink, IsLive
  <2> QED BY <2>1, <2>2 DEF Cut
<1> QED BY <1>1, <1>2

LEMMA OvertakenGoesOn ==
    ASSUME AccountShapes, NEW ts, command' = OvertakenRotations(ts)
    PROVE  /\ Overtakes(ts) /\ RequestsGoOn
           /\ \A d \in Clients : \A m \in {command[d]}, n \in {command'[d]} : Still(m, n)
<1>1. ASSUME NEW d \in Clients, NEW m \in {command[d]}, NEW n \in {command'[d]}
      PROVE  Still(m, n) /\ (Issuing(m) /\ m.from \in ts => n.late)
  BY <1>1, OvertakenStill
<1> QED BY <1>1 DEF Overtakes, RequestsGoOn

\* Sign-out of some valid tokens, at once.
LEMMA RevokesKeeps ==
    ASSUME AccountInv, NEW ts, \A e \in ts : e \in Tokens /\ IsLive(e), Counts, token' = Revoked(ts),
           past' = [past EXCEPT !.ended = @ \cup ts], command' = OvertakenRotations(ts),
           UNCHANGED <<account, invite, resets>>
    PROVE  AccountInv'
<1>0. AccountShapes /\ SessionInv
  BY DEF AccountInv, SessionInv
<1>1. PICK E : E = past.ended \cup ts
  OBVIOUS
<1>2. E \in SUBSET Tokens /\ past \in Pasts
  BY <1>0, <1>1, ShapeParts
<1>3. past' = [past EXCEPT !.ended = E]
  BY <1>1
<1>4. /\ past' \in Pasts /\ past'.line = past.line /\ past'.opened = past.opened /\ past'.astray = past.astray
      /\ past'.ended = E /\ past'.scim = past.scim /\ past'.leaked = past.leaked /\ past'.excused = past.excused
  BY <1>2, <1>3 DEF Pasts
<1>5. tally' \in [commands : Nat, tokens : 0..MaxTokens, passwords : Nat, resets : Nat] /\ tally'.tokens = tally.tokens
  BY <1>0 DEF Counts, AccountShapes
<1>6. AccountShapes'
  BY <1>0, <1>4, <1>5, OvertakenTyped, RevokedTyped DEF AccountShapes
<1>7. /\ Overtakes(ts) /\ RequestsGoOn
      /\ \A d \in Clients : \A m \in {command[d]}, n \in {command'[d]} : Still(m, n)
  BY <1>0, OvertakenGoesOn
<1>8. Steady
  BY <1>0, <1>4, <1>5, <1>7, RevokedRows DEF Steady
<1>9. EndsRightly
  BY <1>0, <1>1, <1>4, <1>6, <1>7, RevocationEnds
<1>10. RevocationDue => RevocationDue'
  BY <1>4, <1>7 DEF RevocationDue, Still
<1> QED BY <1>4, <1>6, <1>7, <1>8, <1>9, <1>10, PlainKeeps

LEMMA LogoutKeeps == ASSUME AccountInv, NEW t \in Tokens, Logout(t) PROVE AccountInv'
BY RevokesKeeps DEF Logout

LEMMA RevokeOthersKeeps == ASSUME AccountInv, NEW kept, RevokeOthers(kept) PROVE AccountInv'
BY RevokesKeeps DEF RevokeOthers

\* The token issued has the line of the one it is rotated from; unless the request
\* was overtaken, it is cut off from whatever that one was.
LEMMA IssueKeeps ==
    ASSUME AccountInv, NEW c \in Clients, IssueToken(c) PROVE AccountInv'
<1> DEFINE r == command[c]
<1>a. PICK t, u : t = tally.tokens + 1 /\ u = r.from
  OBVIOUS
<1>0. AccountShapes /\ SessionInv /\ RequestSound(r)
  BY DEF AccountInv, SessionInv, RequestsSound
<1>1. /\ AccountShapes' /\ t \in Tokens
      /\ past' \in Pasts /\ command' \in [Clients -> Requests]
      /\ past'.line = [past.line EXCEPT ![t] = {t} \cup (IF u = 0 THEN {} ELSE past.line[u])]
      /\ past'.opened = [past.opened EXCEPT ![t] = IF u = 0 THEN r.password ELSE past.opened[u]]
      /\ past'.astray = (IF r.late THEN past.astray \cup {t} ELSE past.astray)
      /\ past'.ended = past.ended /\ past'.scim = past.scim /\ past'.leaked = past.leaked
      /\ past'.excused = past.excused
      /\ r.op # "rotate" => command'[c] = NoCommand
      /\ r.op = "rotate" =>
             /\ command'[c].op = "rotate" /\ command'[c].stage = "link" /\ command'[c].from = u
             /\ command'[c].at = t /\ command'[c].password = r.password /\ command'[c].late = r.late
             /\ command'[c].next = r.next
      /\ \A d \in Clients \ {c} : command'[d] = command[d]
  BY <1>a, <1>0, IssueShapes
<1>2. /\ r \in Requests /\ r.stage = "issue" /\ r.next = 0 /\ (u = 0 <=> r.op # "rotate")
      /\ u # 0 => Issued(u) /\ u \in Tokens /\ u \in past.line[u]
      /\ u # 0 /\ ~r.late => token[u].row # "deleted"
  BY <1>a, <1>0, ShapeParts DEF IssueToken, RequestSound, Issuing, SessionInv, Lines, InWalk
<1>3. /\ t \in Nat /\ t # 0 /\ ~Issued(t) /\ token[t] = NoToken /\ past.line[t] = {}
      /\ \A x : Issued(x) => x < t /\ x \in Tokens /\ x \in Nat
  <2>1. tally.tokens \in Nat /\ tally.tokens + 1 > 0
    BY <1>0, ShapeParts
  <2>2. t \in Nat /\ t # 0 /\ ~Issued(t)
    BY <1>a, <2>1 DEF Issued
  <2>3. \A x : Issued(x) => x < t /\ x \in Tokens /\ x \in Nat
    BY <1>a, <1>0, <2>1, ShapeParts DEF Issued
  <2> QED BY <1>0, <1>1, <2>2, <2>3 DEF SessionInv, Lines
<1>4. /\ \A x : Issued(x)' <=> Issued(x) \/ x = t
      /\ \A x \in Tokens \ {t} : past'.line[x] = past.line[x] /\ past'.opened[x] = past.opened[x] /\ token'[x] = token[x]
      /\ past'.line[t] = {t} \cup (IF u = 0 THEN {} ELSE past.line[u])
      /\ past'.opened[t] = (IF u = 0 THEN r.password ELSE past.opened[u])
      /\ token'[t].row = "live" /\ token'[t].next = 0
      /\ UNCHANGED <<account, invite, resets>>
  <2>1. tally'.tokens = t
    BY <1>a, <1>0 DEF IssueToken, AccountShapes
  <2>2. \A x : Issued(x)' <=> Issued(x) \/ x = t
    <3>1. PICK n : n = tally.tokens
      OBVIOUS
    <3>2. n \in Nat /\ t = n + 1
      BY <1>a, <1>0, <3>1, ShapeParts
    <3>3. \A x : x \in 1..t <=> x \in 1..n \/ x = t
      BY <3>2
    <3> QED BY <2>1, <3>1, <3>3 DEF Issued
  <2>3. past.line \in [Tokens -> SUBSET Tokens] /\ past.opened \in [Tokens -> Nat]
        /\ token \in [Tokens -> [row : {"none", "live", "revoked", "deleted"}, next : Nat]]
    BY <1>0, ShapeParts
  <2>4. token' = [token EXCEPT ![t].row = "live"]
    BY <1>a DEF IssueToken
  <2>5. token'[t].row = "live" /\ token'[t].next = 0
    BY <1>1, <1>3, <2>3, <2>4 DEF NoToken
  <2>6. \A x \in Tokens \ {t} : past'.line[x] = past.line[x] /\ past'.opened[x] = past.opened[x]
    BY <1>1, <2>3
  <2>7. \A x \in Tokens \ {t} : token'[x] = token[x]
    BY <2>3, <2>4
  <2>8. past'.line[t] = {t} \cup (IF u = 0 THEN {} ELSE past.line[u])
    BY <1>1, <2>3
  <2>9. past'.opened[t] = (IF u = 0 THEN r.password ELSE past.opened[u])
    BY <1>1, <2>3
  <2> QED BY <2>2, <2>5, <2>6, <2>7, <2>8, <2>9 DEF IssueToken
<1>5. \A x \in Tokens : \A y \in past.line[x] : Issued(y) /\ Issued(x) /\ y <= x /\ y # t /\ x # t /\ past.line[y] \subseteq past.line[x]
  BY <1>0, <1>3 DEF SessionInv, Lines
<1>6. Loose \subseteq Loose' /\ (r.late => t \in Loose')
  <2>1. \A d \in Clients : command[d].stage = "link" => d # c
    BY <1>2
  <2>2. \A d \in Clients : command[d].stage = "link" => command'[d] = command[d]
    BY <1>1, <2>1
  <2> QED BY <1>1, <2>2 DEF Loose
<1>7. ASSUME NEW x \in Tokens, x # t, ActiveToken(x)' PROVE ActiveToken(x)
  <2>1. IsLive(x)' => IsLive(x)
    BY <1>4, <1>7 DEF IsLive
  <2>2. ASSUME NEW d \in Clients, Issuing(command'[d]), command'[d].from = x, ~command'[d].late PROVE ActiveToken(x)
    <3>1. CASE d = c
      BY <1>1, <1>2, <1>a, <2>2, <3>1, NoRequest DEF ActiveToken, Issuing
    <3>2. CASE d # c
      BY <1>1, <2>2, <3>2 DEF ActiveToken
    <3> QED BY <3>1, <3>2
  <2> QED BY <1>7, <2>1, <2>2 DEF ActiveToken
<1>8. u # 0 /\ ~r.late => ActiveToken(u)
  BY <1>a, <1>2 DEF ActiveToken, Issuing
<1>9. ASSUME NEW e, NEW x \in Tokens, Cut(e, x) PROVE Cut(e, x)'
  BY <1>4, <1>5, <1>6, <1>9 DEF Cut
<1>10. ASSUME NEW x \in Tokens, Stray(x) PROVE Stray(x)'
  BY <1>4, <1>5, <1>6, <1>10 DEF Stray
<1>11. ASSUME NEW e \in Nat, e < t, u # 0, r.late \/ Cut(e, u) PROVE Cut(e, t)'
  <2>1. past.line[u] \subseteq past'.line[t] /\ t \in past'.line[t]
    BY <1>4, <1>11
  <2>2. CASE r.late
    BY <1>3, <1>6, <1>11, <2>1, <2>2 DEF Cut
  <2>3. CASE Cut(e, u)
    BY <1>6, <1>11, <2>1, <2>3 DEF Cut
  <2> QED BY <1>11, <2>2, <2>3
\* Lines.
<1>12. ASSUME NEW a, NEW y, Child(a, y), y \in Tokens PROVE Child(a, y)'
  <2>1. a \in past.line[y] /\ a # y /\ past.line[y] = {y} \cup past.line[a]
    BY <1>12 DEF Child
  <2>2. a \in Tokens /\ a # t /\ y # t
    BY <1>3, <1>5, <1>12, <2>1
  <2> QED BY <1>4, <1>12, <2>1, <2>2 DEF Child
<1>13. u # 0 => Child(u, t)'
  BY <1>2, <1>3, <1>4 DEF Child
<1>14. ASSUME NEW x \in Tokens
       PROVE  /\ (Issued(x) <=> token[x].row # "none")'
              /\ (~Issued(x) => token[x] = NoToken /\ past.line[x] = {})'
              /\ (Issued(x) => x \in past.line[x])'
  BY <1>0, <1>4 DEF SessionInv, Lines
<1>15. ASSUME NEW x \in Tokens, NEW y \in past'.line[x] PROVE (Issued(y) /\ y <= x /\ past.line[y] \subseteq past.line[x])'
  <2>1. CASE x # t
    BY <1>4, <1>5, <1>3, <1>15, <2>1
  <2>2. CASE x = t /\ y = t
    BY <1>3, <1>4, <2>2
  <2>3. CASE x = t /\ y # t
    <3>1. u # 0 /\ y \in past.line[u]
      BY <1>4, <1>15, <2>3
    <3>2. Issued(y) /\ y < t /\ past.line[y] \subseteq past.line[u] /\ y \in Tokens /\ y \in Nat
      BY <1>2, <1>3, <1>5, <3>1
    <3> QED BY <1>3, <1>4, <2>3, <3>1, <3>2
  <2> QED BY <2>1, <2>2, <2>3
<1>16. ASSUME NEW x \in Tokens, NEW a \in past'.line[x] \ {x} PROVE (\E y \in past.line[x] : Child(a, y))'
  <2>1. CASE x # t
    BY <1>0, <1>3, <1>4, <1>5, <1>12, <1>16, <2>1 DEF SessionInv, Lines
  <2>2. CASE x = t /\ a = u
    BY <1>3, <1>4, <1>13, <1>16, <2>2
  <2>3. CASE x = t /\ a # u
    <3>1. u # 0 /\ a \in past.line[u] \ {u}
      BY <1>4, <1>16, <2>3
    <3>2. PICK y \in past.line[u] : Child(a, y)
      BY <1>0, <1>2, <3>1 DEF SessionInv, Lines
    <3>3. y \in Tokens
      BY <1>2, <1>3, <1>5, <3>1, <3>2
    <3> QED BY <1>4, <1>12, <2>3, <3>1, <3>2, <3>3
  <2> QED BY <2>1, <2>2, <2>3
<1>17. Lines'
  BY <1>14, <1>15, <1>16 DEF Lines
\* What the requests refer to.
<1>18. ASSUME NEW d \in Clients, NEW n \in {command'[d]} PROVE RequestSound(n)' /\ Walking(n)'
  <2>1. CASE d = c /\ r.op # "rotate"
    <3>1. n.stage = "none" /\ n.next = 0
      BY <1>1, <1>18, <2>1, NoRequest
    <3> QED BY <3>1 DEF RequestSound, Walking, Issuing, InWalk
  <2>2. CASE d = c /\ r.op = "rotate"
    <3>1. n.op = "rotate" /\ n.stage = "link" /\ n.from = u /\ n.at = t /\ n.late = r.late /\ u # 0 /\ n.next = 0
      BY <1>1, <1>2, <1>18, <2>2
    <3>2. Issued(u)' /\ Issued(t)' /\ Child(u, t)' /\ (~r.late => token'[u].row # "deleted")
      BY <1>2, <1>3, <1>4, <1>13, <3>1
    <3>3. RequestSound(n)'
      BY <3>1, <3>2 DEF RequestSound, Issuing, InWalk
    <3> QED BY <3>1, <3>3 DEF Walking, InWalk
  <2>3. CASE d # c
    <3>1. n = command[d] /\ RequestSound(n) /\ Walking(n)
      BY <1>0, <1>1, <1>18, <2>3 DEF SessionInv, RequestsSound, Walks
    <3>2. RequestSound(n)'
      BY <1>3, <1>4, <1>12, <3>1 DEF RequestSound, Issuing, InWalk
    <3>3. ASSUME InWalk(n), NEW x \in Tokens, ActiveToken(x)', n.from \in past'.line[x]
          PROVE  Cut(n.from, x)' \/ n.at \in past'.line[x]
      <4>1. Issued(n.from) /\ Issued(n.at) /\ n.from < t /\ n.from \in Nat /\ n.from # t
        BY <1>3, <3>1, <3>3 DEF RequestSound, InWalk
      <4>2. CASE x # t
        BY <1>4, <1>7, <1>9, <3>1, <3>3, <4>2 DEF Walking, InWalk
      <4>3. CASE x = t
        <5>1. u # 0 /\ n.from \in past.line[u]
          BY <1>4, <3>3, <4>1, <4>3
        <5>2. r.late \/ Cut(n.from, u) \/ n.at \in past.line[u]
          BY <1>2, <1>8, <3>1, <3>3, <5>1 DEF Walking, InWalk
        <5> QED BY <1>4, <1>11, <4>1, <4>3, <5>1, <5>2
      <4> QED BY <4>2, <4>3
    <3> QED BY <3>2, <3>3 DEF Walking, InWalk
  <2> QED BY <2>1, <2>2, <2>3
<1>19. RequestsSound' /\ Walks'
  BY <1>18 DEF RequestsSound, Walks
\* A child of the new token there is none; the new one is about to be linked.
<1>20. ASSUME NEW v \in Tokens
       PROVE  (token[v].next # 0 => Issued(token[v].next) /\ Child(v, token[v].next) /\ ~IsLive(v))'
  BY <1>0, <1>3, <1>4, <1>12 DEF SessionInv, RowsLink, IsLive
<1>21. ASSUME NEW v \in Tokens, token'[v].row # "deleted", NEW y \in Tokens, Child(v, y)'
       PROVE  y \in past'.astray \/ Linking(v, y)' \/ token'[v].next = y
  <2>1. CASE y = t
    <3>1. u # 0 /\ v \in past.line[u] /\ v # t
      BY <1>4, <1>21, <2>1 DEF Child
    <3>2. past.line[u] = past.line[v]
      BY <1>2, <1>3, <1>4, <1>5, <1>21, <2>1, <3>1 DEF Child
    <3>3. u <= v /\ v <= u /\ u \in Nat /\ v \in Nat
      BY <1>2, <1>3, <1>5, <3>1, <3>2
    <3>4. Linking(u, t)'
      BY <1>1, <1>2, <3>1 DEF Linking
    <3> QED BY <2>1, <3>3, <3>4
  <2>2. CASE y # t
    <3>1. v \in past.line[y] /\ v # t
      BY <1>4, <1>5, <1>21, <2>2 DEF Child
    <3>2. Child(v, y)
      BY <1>4, <1>21, <2>2, <3>1 DEF Child
    <3>3. y \in past.astray \/ Linking(v, y) \/ token[v].next = y
      BY <1>0, <1>4, <1>21, <3>1, <3>2 DEF SessionInv, RowsLink
    <3>4. Linking(v, y) => Linking(v, y)'
      BY <1>1, <1>2 DEF Linking
    <3>5. past.astray \subseteq past'.astray
      BY <1>1
    <3> QED BY <1>4, <3>1, <3>3, <3>4, <3>5
  <2> QED BY <2>1, <2>2
<1>22. RowsLink'
  BY <1>20, <1>21 DEF RowsLink
<1>23. DeletedCut'
  <2> SUFFICES ASSUME NEW x \in Tokens, Issued(x)', token'[x].row # "deleted",
                      NEW v \in past'.line[x], token'[v].row = "deleted"
               PROVE  Cut(v, x)'
    BY DEF DeletedCut
  <2>1. CASE x # t
    <3>1. v \in past.line[x] /\ v \in Tokens /\ v # t
      BY <1>3, <1>4, <1>5, <2>1
    <3>2. Cut(v, x)
      BY <1>0, <1>4, <1>5, <2>1, <3>1 DEF SessionInv, DeletedCut
    <3> QED BY <1>9, <3>2
  <2>2. CASE x = t
    <3>1. u # 0 /\ v \in past.line[u] /\ v \in Tokens /\ v \in Nat /\ v < t /\ token[v].row = "deleted"
      BY <1>2, <1>3, <1>4, <1>5, <2>2
    <3>2. r.late \/ Cut(v, u)
      BY <1>0, <1>2, <3>1 DEF SessionInv, DeletedCut
    <3> QED BY <1>11, <2>2, <3>1, <3>2
  <2> QED BY <2>1, <2>2
<1>24. EndedCut'
  <2>1. (\A e \in past.ended : Issued(e))'
    BY <1>0, <1>1, <1>4 DEF SessionInv, EndedCut
  <2>2. ASSUME NEW x \in Tokens, ActiveToken(x)', NEW e \in past'.ended \cap past'.line[x] PROVE Cut(e, x)'
    <3>1. Issued(e) /\ e \in past.ended /\ e < t /\ e \in Nat
      BY <1>0, <1>1, <1>3 DEF SessionInv, EndedCut
    <3>2. CASE x # t
      BY <1>0, <1>4, <1>7, <1>9, <2>2, <3>1, <3>2 DEF SessionInv, EndedCut
    <3>3. CASE x = t
      <4>1. u # 0 /\ e \in past.line[u]
        BY <1>3, <1>4, <2>2, <3>1, <3>3
      <4>2. r.late \/ Cut(e, u)
        BY <1>0, <1>2, <1>8, <3>1, <4>1 DEF SessionInv, EndedCut
      <4> QED BY <1>11, <3>1, <3>3, <4>1, <4>2
    <3> QED BY <3>2, <3>3
  <2> QED BY <2>1, <2>2 DEF EndedCut
<1>25. SessionInv'
  BY <1>1, <1>17, <1>19, <1>22, <1>23, <1>24 DEF SessionInv
\* Passwords and status.
<1>26. RevocationDue => RevocationDue'
  BY <1>1, <1>2 DEF RevocationDue
<1>27. ASSUME NEW d \in Clients, NEW n \in {command'[d]}, SigningIn(n) PROVE d # c /\ n = command[d]
  <2>1. command'[c].stage # "issue"
    BY <1>1, <1>2, NoRequest
  <2> QED BY <1>1, <1>27, <2>1 DEF SigningIn
<1>28. Stray(t)' \/ (u = 0 /\ SigningIn(r)) \/ (u # 0 /\ ActiveToken(u))
  <2>1. r.late => Stray(t)'
    BY <1>4, <1>6 DEF Stray
  <2> QED BY <1>a, <1>2, <1>8, <2>1 DEF SigningIn
<1>29. u # 0 /\ Stray(u) => Stray(t)'
  BY <1>2, <1>4, <1>6 DEF Stray
<1>30. OldPasswords'
  <2>0. OldPasswords
    BY DEF AccountInv
  <2>1. ASSUME NEW x \in Tokens, ActiveToken(x)', past'.opened[x] < account.password PROVE Stray(x)' \/ RevocationDue'
    <3>1. CASE x # t
      BY <1>4, <1>7, <1>10, <1>26, <2>0, <2>1, <3>1 DEF OldPasswords
    <3>2. CASE x = t /\ u = 0 /\ SigningIn(r)
      BY <1>4, <1>26, <2>0, <2>1, <3>2 DEF OldPasswords
    <3>3. CASE x = t /\ u # 0 /\ ActiveToken(u)
      BY <1>2, <1>4, <1>26, <1>29, <2>0, <2>1, <3>3 DEF OldPasswords
    <3> QED BY <1>28, <3>1, <3>2, <3>3
  <2>2. ASSUME NEW d \in Clients, NEW n \in {command'[d]}, SigningIn(n), n.password < account.password PROVE RevocationDue'
    BY <1>26, <1>27, <2>0, <2>2 DEF OldPasswords
  <2>3. ASSUME account.password = 0
        PROVE  (\A x \in Tokens : ActiveToken(x)' => Stray(x)') /\ \A d \in Clients : \A n \in {command'[d]} : ~SigningIn(n)
    <3>1. (\A x \in Tokens : ActiveToken(x) => Stray(x)) /\ \A d \in Clients : ~SigningIn(command[d])
      BY <2>0, <2>3 DEF OldPasswords
    <3> QED BY <1>2, <1>7, <1>10, <1>27, <1>28, <1>29, <3>1
  <2> QED BY <1>4, <2>1, <2>2, <2>3 DEF OldPasswords
<1>31. SignedOut'
  <2>1. ASSUME account.status \in {"SUSPENDED", "ARCHIVED", "PURGED"}, ~past.scim
        PROVE  (\A x \in Tokens : ActiveToken(x)' => Stray(x)') /\ \A d \in Clients : \A n \in {command'[d]} : ~SigningIn(n)
    <3>1. (\A x \in Tokens : ActiveToken(x) => Stray(x)) /\ \A d \in Clients : ~SigningIn(command[d])
      BY <2>1 DEF AccountInv, SignedOut
    <3> QED BY <1>2, <1>7, <1>10, <1>27, <1>28, <1>29, <3>1
  <2> QED BY <1>1, <1>4, <2>1 DEF SignedOut
<1>32. PurgedBare'
  BY <1>1, <1>2, <1>4, NoRequest, BareCarry
<1> QED BY <1>25, <1>30, <1>31, <1>32 DEF AccountInv

\* What ends with a request.
LEMMA EndsGoOn ==
    ASSUME AccountShapes, NEW c \in Clients, Ends(c), past.astray \subseteq past'.astray,
           command[c].stage = "link" => command[c].at \in past'.astray
    PROVE  /\ RequestsGoOn
           /\ \A d \in Clients : \A m \in {command[d]}, n \in {command'[d]} : Still(m, n) \/ n.stage \in {"none", "walk", "revokeLink"}
<1>1. command'[c] = NoCommand /\ \A d \in Clients \ {c} : command'[d] = command[d]
  BY EndsTyped
<1>2. \A m \in {command[c]}, n \in {command'[c]} : Changed(m, n) /\ n.stage = "none"
  BY <1>1, NoRequest DEF Changed, InWalk
<1>3. \A d \in Clients \ {c} : \A m \in {command[d]}, n \in {command'[d]} : Still(m, n)
  BY <1>1 DEF Still
<1> QED BY <1>2, <1>3 DEF RequestsGoOn

\* The link written: the child it replaces is astray, the new one is linked to.
LEMMA LinkKeeps ==
    ASSUME AccountInv, NEW c \in Clients, LinkToken(c) PROVE AccountInv'
<1> DEFINE r == command[c]
<1>a. PICK u, y : u = r.from /\ y = r.at
  OBVIOUS
<1>0. AccountShapes /\ SessionInv /\ RequestSound(r)
  BY DEF AccountInv, SessionInv, RequestsSound
<1>1. /\ AccountShapes'
      /\ past'.line = past.line /\ past'.opened = past.opened /\ past'.ended = past.ended
      /\ past'.scim = past.scim /\ past'.leaked = past.leaked /\ past'.excused = past.excused
      /\ token[u].row = "deleted" => token' = token /\ past'.astray = past.astray \cup {y}
      /\ token[u].row # "deleted" =>
             /\ token' = [token EXCEPT ![u] = [row |-> "revoked", next |-> y]]
             /\ past'.astray = past.astray \cup ({token[u].next} \ {0}) \cup (IF r.late THEN {y} ELSE {})
  BY <1>a, <1>0, LinkShapes
<1>2. /\ r.stage = "link" /\ Issued(u) /\ Issued(y) /\ Child(u, y) /\ u \in Tokens /\ y \in Tokens /\ y # 0
      /\ UNCHANGED <<account, invite, resets, tally>> /\ Ends(c)
  BY <1>a, <1>0, ShapeParts DEF RequestSound, LinkToken, InWalk
<1>3. command'[c] = NoCommand /\ \A d \in Clients \ {c} : command'[d] = command[d]
  BY <1>0, <1>2, EndsTyped
<1>4. past.astray \subseteq past'.astray
  BY <1>1
<1>5. RevocationDue => RevocationDue'
  BY <1>1, <1>2, <1>3 DEF RevocationDue
<1>6. CASE token[u].row = "deleted"
  <2>1. /\ RequestsGoOn
        /\ \A d \in Clients : \A m \in {command[d]}, n \in {command'[d]} : Still(m, n) \/ n.stage \in {"none", "walk", "revokeLink"}
    BY <1>a, <1>0, <1>1, <1>2, <1>4, <1>6, EndsGoOn
  <2>2. Steady
    BY <1>1, <1>2, <1>4, <1>6, <2>1 DEF Steady, RowsOnlyRevoked
  <2>3. EndsRightly
    BY <1>1 DEF EndsRightly
  <2> QED BY <1>1, <1>2, <1>5, <2>1, <2>2, <2>3, PlainKeeps
<1>7. CASE token[u].row # "deleted"
  <2>1. /\ token'[u].row = "revoked" /\ token'[u].next = y
        /\ \A x \in Tokens \ {u} : token'[x] = token[x]
    <3>1. token \in [Tokens -> [row : {"none", "live", "revoked", "deleted"}, next : Nat]]
      BY <1>0, ShapeParts
    <3> QED BY <1>1, <1>2, <1>7, <3>1
  <2>2. Loose \subseteq Loose'
    <3>1. r.late => y \in past'.astray
      BY <1>1, <1>7
    <3> QED BY <1>a, <1>3, <1>4, <3>1 DEF Loose
  <2>3. ASSUME NEW t \in Tokens, ActiveToken(t)' PROVE ActiveToken(t)
    <3>1. IsLive(t)' => IsLive(t)
      BY <2>1 DEF IsLive
    <3>2. \A d \in Clients : Issuing(command'[d]) => d # c /\ command'[d] = command[d]
      BY <1>3, NoRequest DEF Issuing
    <3> QED BY <2>3, <3>1, <3>2 DEF ActiveToken
  <2>4. /\ \A t \in Tokens : ~Issued(t) => token'[t] = token[t]
        /\ \A t \in Tokens : Issued(t) => token'[t].row # "none"
        /\ \A t \in Tokens : token'[t].row = "deleted" <=> token[t].row = "deleted"
    BY <1>0, <1>2, <1>7, <2>1 DEF SessionInv, Lines
  <2>5. Lines' /\ (\A t : Issued(t)' <=> Issued(t)) /\ \A v, x : Child(v, x)' <=> Child(v, x)
    BY <1>0, <1>1, <1>2, <2>4, LinesCarry
  <2>6. EndsRightly
    BY <1>1 DEF EndsRightly
  <2>7. DeletedCut' /\ EndedCut'
    BY <1>0, <1>1, <1>2, <2>2, <2>3, <2>4, <2>6, EndedCarry
  <2>8. ASSUME NEW d \in Clients, NEW n \in {command'[d]} PROVE RequestSound(n)' /\ Walking(n)'
    <3>1. CASE d = c
      BY <1>3, <2>8, <3>1, NoRequest DEF RequestSound, Walking, Issuing, InWalk
    <3>2. CASE d # c
      <4>1. n = command[d] /\ RequestSound(n) /\ Walking(n)
        BY <1>0, <1>3, <2>8, <3>2 DEF SessionInv, RequestsSound, Walks
      <4>2. RequestSound(n)'
        BY <1>0, <1>1, <2>4, <2>5, <4>1, ShapeParts DEF RequestSound, Issuing, InWalk
      <4>3. \A e, t : Cut(e, t) => Cut(e, t)'
        BY <1>0, <1>1, <2>2, CutGrows
      <4>4. Walking(n)'
        BY <1>1, <2>3, <4>1, <4>3 DEF Walking, InWalk
      <4> QED BY <4>2, <4>4
    <3> QED BY <3>1, <3>2
  <2>9. RequestsSound' /\ Walks'
    BY <2>8 DEF RequestsSound, Walks
  <2>10. ASSUME NEW v \in Tokens
         PROVE  (token[v].next # 0 => Issued(token[v].next) /\ Child(v, token[v].next) /\ ~IsLive(v))'
    BY <1>0, <1>2, <2>1, <2>5 DEF SessionInv, RowsLink, IsLive
  <2>11. ASSUME NEW v \in Tokens, token'[v].row # "deleted", NEW x \in Tokens, Child(v, x)'
         PROVE  x \in past'.astray \/ Linking(v, x)' \/ token'[v].next = x
    <3>1. x \in past.astray \/ Linking(v, x) \/ token[v].next = x
      BY <1>0, <2>4, <2>5, <2>11 DEF SessionInv, RowsLink
    <3>2. Linking(v, x) => Linking(v, x)' \/ (v = u /\ x = y)
      BY <1>a, <1>3 DEF Linking
    <3>3. v = u /\ token[v].next = x => x \in past'.astray
      BY <1>1, <1>7, <2>11, ShapeParts, <1>0
    <3> QED BY <1>4, <2>1, <3>1, <3>2, <3>3
  <2>12. RowsLink'
    BY <2>10, <2>11 DEF RowsLink
  <2>13. SessionInv'
    BY <1>1, <2>5, <2>7, <2>9, <2>12 DEF SessionInv
  <2>14. ASSUME NEW d \in Clients, NEW n \in {command'[d]}, SigningIn(n) PROVE SigningIn(command[d]) /\ n.password = command[d].password
    BY <1>3, <2>14, NoRequest DEF SigningIn
  <2>15. OldPasswords' /\ SignedOut'
    BY <1>1, <1>2, <1>5, <2>2, <2>3, <2>14, SignInsCarry
  <2>16. PurgedBare'
    BY <1>1, <1>2, <1>3, NoRequest, BareCarry
  <2> QED BY <2>13, <2>15, <2>16 DEF AccountInv
<1> QED BY <1>6, <1>7

\* A link of a chain that is revoked, or found so: the walk goes on to what is left of
\* the chain, or has cut all of it off.
LEMMA WalkGoes ==
    ASSUME AccountInv, NEW c \in Clients, InWalk(command[c]), NEW on,
           token' = Revoked({command[c].at}),
           command' = [OvertakenRotations({command[c].at}) EXCEPT ![c] = Onward(c, on)],
           past' \in Pasts, past'.line = past.line, past'.opened = past.opened,
           past.astray \subseteq past'.astray, past'.ended = WalkDone(c, on),
           past'.scim = past.scim, past'.leaked = past.leaked, past'.excused = past.excused,
           UNCHANGED <<account, invite, resets, tally>>,
           on # 0 => token[command[c].at].row # "deleted" /\ on = token[command[c].at].next,
           token[command[c].at].row # "deleted" => token[command[c].at].next \in {0, on} \cup past'.astray
    PROVE  AccountInv'
<1> DEFINE r == command[c]
<1>a. PICK a, x : a = r.from /\ x = r.at
  OBVIOUS
<1>0. AccountShapes /\ SessionInv /\ RequestSound(r) /\ Walking(r)
  BY DEF AccountInv, SessionInv, RequestsSound, Walks
<1>1. /\ r \in Requests /\ InWalk(r) /\ Issued(a) /\ Issued(x) /\ a \in past.line[x]
      /\ x \in Tokens /\ a \in Tokens /\ x \in Nat /\ a \in Nat /\ a <= x
  <2>1. r \in Requests /\ Issued(a) /\ Issued(x) /\ a \in past.line[x]
    BY <1>a, <1>0, ShapeParts DEF RequestSound
  <2>2. x \in Tokens /\ a \in Tokens
    BY <1>0, <2>1, ShapeParts
  <2> QED BY <1>0, <2>1, <2>2, ShapeParts DEF SessionInv, Lines
<1>2. token' = Revoked({x})
  BY <1>a
<1>3. PICK g : g = Onward(c, on)
  OBVIOUS
<1>4. on # 0 => on \in Tokens /\ on \in Nat /\ Issued(on) /\ Child(x, on) /\ token[x].row # "deleted" /\ on = token[x].next
  BY <1>a, <1>0, <1>1, ShapeParts DEF SessionInv, RowsLink
<1>5. /\ g \in Requests
      /\ on = 0 => g = NoCommand
      /\ on # 0 => g.op = r.op /\ g.stage = "walk" /\ g.from = a /\ g.at = on /\ g.next = 0
  <2>1. ASSUME on # 0
        PROVE  g \in Requests /\ g.op = r.op /\ g.stage = "walk" /\ g.from = a /\ g.at = on /\ g.next = 0
    <3>1. g = [[r EXCEPT !.stage = "walk"] EXCEPT !.at = on, !.next = 0]
      BY <1>3, <2>1 DEF Onward, Goes
    <3> QED BY <1>a, <1>1, <1>4, <2>1, <3>1 DEF Requests
  <2> QED BY <1>3, <2>1, NoRequest DEF Onward
<1>6. command' = [OvertakenRotations({x}) EXCEPT ![c] = g]
  BY <1>a, <1>3
<1>7. /\ command' \in [Clients -> Requests] /\ command'[c] = g
      /\ \A d \in Clients \ {c} : command'[d] = OvertakenRotations({x})[d]
  <2>1. OvertakenRotations({x}) \in [Clients -> Requests] /\ g \in Requests
    BY <1>0, <1>5, OvertakenTyped
  <2> QED BY <1>6, <2>1
<1>8. past'.ended = past.ended \cup (IF on = 0 THEN {a} ELSE {})
  BY <1>a DEF WalkDone
<1>11. AccountShapes'
  <2>2. token' \in [Tokens -> [row : {"none", "live", "revoked", "deleted"}, next : Nat]]
    BY <1>0, <1>2, RevokedTyped
  <2> QED BY <1>0, <1>7, <2>2 DEF AccountShapes
<1>12. \A d \in Clients \ {c} : \A m \in {command[d]}, n \in {command'[d]} : Still(m, n)
  BY <1>0, <1>7, OvertakenStill
<1>13. Overtakes({x})
  <2>1. \A d \in Clients \ {c} : Issuing(command[d]) /\ command[d].from \in {x} => command'[d].late
    BY <1>0, <1>7, OvertakenStill
  <2>2. \A m \in {command[c]}, n \in {command'[c]} : ~Issuing(m) /\ ~Issuing(n)
    BY <1>1, <1>5, <1>7, NoRequest DEF Issuing, InWalk
  <2> QED BY <1>12, <2>1, <2>2 DEF Overtakes
<1>14. RowsOnlyRevoked /\ token'[x].row # "live"
  BY <1>0, <1>1, <1>2, RevokedRows
\* What is valid past the token at the start is cut off, or past the next link.
<1>15. ASSUME NEW t \in Tokens, ActiveToken(t)', a \in past.line[t]
       PROVE  Cut(a, t)' \/ (on # 0 /\ on \in past.line[t])
  <2>1. Issued(t) /\ past.line[t] \subseteq Nat
    BY <1>0, <1>15, ShapeParts DEF SessionInv, Lines, Pasts
  <2>2. \A d \in Clients : \A n \in {command'[d]} : Issuing(n) => Still(command[d], n)
    BY <1>12, <1>13 DEF Overtakes, Issuing, Still
  <2>3. ActiveToken(t)
    BY <1>14, <1>15, <2>2 DEF ActiveToken, IsLive, RowsOnlyRevoked, Still, Issuing
  <2>4. Loose \subseteq Loose'
    <3>1. \A d \in Clients : command[d].stage = "link" => \A n \in {command'[d]} : Still(command[d], n)
      BY <1>1, <1>12 DEF Still, InWalk
    <3>2. \A d \in Clients : command[d].stage = "link" /\ command[d].late =>
              command'[d].stage = "link" /\ command'[d].late /\ command'[d].at = command[d].at
      BY <3>1 DEF Still
    <3>3. past.astray \subseteq past'.astray
      OBVIOUS
    <3>4. ASSUME NEW d \in Clients, command[d].late, command[d].stage = "link" PROVE command[d].at \in Loose'
      BY <3>2, <3>4 DEF Loose
    <3> QED BY <3>3, <3>4 DEF Loose
  <2>5. Cut(a, t) \/ x \in past.line[t]
    BY <1>a, <1>0, <1>1, <1>15, <2>3 DEF Walking, InWalk
  <2>6. CASE Cut(a, t)
    BY <1>0, <2>4, <2>6, CutGrows
  <2>7. CASE x \in past.line[t] /\ token[x].row = "deleted"
    <3>1. token[t].row # "deleted"
      BY <1>0, <2>1, <2>3, ShapeParts DEF ActiveToken, IsLive, SessionInv, RequestsSound, RequestSound, InWalk
    <3>2. PICK y \in Loose \cap past.line[t] : y > x
      BY <1>0, <2>1, <2>7, <3>1 DEF SessionInv, DeletedCut, Cut
    <3>3. y \in Nat /\ y > a
      BY <1>1, <2>1, <3>2
    <3> QED BY <2>4, <3>2, <3>3 DEF Cut
  <2>8. CASE x \in past.line[t] /\ token[x].row # "deleted"
    <3>1. PICK y \in past.line[t] : Child(x, y) /\ Issued(y) /\ y > x /\ (y \in Loose' \/ token[x].next = y)
      BY <1>0, <1>1, <1>11, <1>13, <1>14, <1>15, <2>8, Crossed
    <3>2. y \in Nat /\ y > a /\ y # 0
      BY <1>1, <2>1, <3>1
    <3>3. CASE y \in Loose'
      BY <3>1, <3>2, <3>3 DEF Cut
    <3>4. CASE token[x].next = y
      <4>1. y = on \/ y \in past'.astray
        BY <1>a, <2>8, <3>2, <3>4
      <4>2. y \in past'.astray => y \in Loose'
        BY DEF Loose
      <4> QED BY <3>1, <3>2, <3>3, <4>1, <4>2
    <3> QED BY <3>1, <3>3, <3>4
  <2> QED BY <2>5, <2>6, <2>7, <2>8
<1>16. \A m \in {command[c]}, n \in {command'[c]} : Changed(m, n)
  <2>1. on # 0 => a \in past.line[on]
    BY <1>1, <1>4 DEF Child
  <2> QED BY <1>1, <1>4, <1>5, <1>7, <1>15, <2>1, NoRequest DEF Changed, InWalk
<1>17. Steady
  BY <1>0, <1>12, <1>14, <1>16 DEF Steady, RequestsGoOn
<1>18. EndsRightly
  BY <1>1, <1>8, <1>15 DEF EndsRightly
<1>19. RevocationDue => RevocationDue'
  BY <1>1, <1>12 DEF RevocationDue, Still, InWalk
<1>20. \A d \in Clients : \A m \in {command[d]}, n \in {command'[d]} : Still(m, n) \/ n.stage \in {"none", "walk", "revokeLink"}
  BY <1>5, <1>7, <1>12, NoRequest
<1> QED BY <1>11, <1>17, <1>18, <1>19, <1>20, PlainKeeps

LEMMA ReadLinkKeeps ==
    ASSUME AccountInv, NEW c \in Clients, ReadLink(c) PROVE AccountInv'
<1> DEFINE r == command[c]
<1>a. PICK x, a : x = r.at /\ a = r.from
  OBVIOUS
<1>b. PICK on : on = (IF token[x].row = "deleted" THEN 0 ELSE token[x].next)
  OBVIOUS
<1>0. /\ AccountShapes /\ SessionInv /\ RequestSound(r) /\ Walking(r) /\ r \in Requests /\ past \in Pasts
      /\ r.stage = "walk" /\ UNCHANGED <<account, invite, resets, token, tally>>
  BY ShapeParts DEF AccountInv, SessionInv, RequestsSound, Walks, ReadLink
<1>1. x \in Tokens /\ Issued(x) /\ Issued(r.from) /\ r.from \in Tokens
  BY <1>0, <1>a, ShapeParts DEF RequestSound, InWalk
<1>2. CASE IsLive(x)
  <2>1. on = 0
    BY <1>0, <1>1, <1>2, <1>b DEF SessionInv, RowsLink
  <2>2. PICK g : g = [[r EXCEPT !.stage = "revokeLink"] EXCEPT !.next = on]
    OBVIOUS
  <2>3. command' = [command EXCEPT ![c] = g] /\ UNCHANGED past
    BY <1>2, <1>a, <1>b, <2>2 DEF ReadLink, Goes, NextLink
  <2>4. g \in Requests /\ g.stage = "revokeLink" /\ g.from = r.from /\ g.at = x /\ g.next = 0
    BY <1>0, <1>a, <2>1, <2>2 DEF Requests
  <2>5. command' \in [Clients -> Requests] /\ command'[c] = g /\ \A d \in Clients \ {c} : command'[d] = command[d]
    BY <1>0, <2>3, <2>4, ShapeParts
  <2>6. AccountShapes'
    BY <1>0, <2>3, <2>5 DEF AccountShapes
  <2>7. \A d \in Clients \ {c} : \A m \in {command[d]}, n \in {command'[d]} : Still(m, n)
    BY <2>5 DEF Still
  <2>8. \A t \in Tokens : ActiveToken(t)' => ActiveToken(t)
    BY <1>0, <2>4, <2>5 DEF ActiveToken, IsLive, Issuing
  <2>9. Loose \subseteq Loose'
    BY <1>0, <2>3, <2>5 DEF Loose
  <2>10. ASSUME NEW t \in Tokens, ActiveToken(t)', a \in past.line[t]
         PROVE  Cut(a, t)' \/ x \in past.line[t]
    <3>1. Cut(a, t) \/ x \in past.line[t]
      BY <1>0, <1>a, <2>8, <2>10 DEF Walking, InWalk
    <3> QED BY <1>0, <2>3, <2>9, <3>1, CutGrows
  <2>11. \A m \in {command[c]}, n \in {command'[c]} : Changed(m, n)
    BY <1>0, <1>1, <1>a, <2>4, <2>5, <2>10 DEF Changed, InWalk, RequestSound
  <2>12. Steady /\ EndsRightly
    BY <1>0, <2>3, <2>7, <2>11 DEF Steady, RequestsGoOn, RowsOnlyRevoked, EndsRightly
  <2>13. RevocationDue => RevocationDue'
    BY <1>0, <2>3, <2>5 DEF RevocationDue
  <2>14. \A d \in Clients : \A m \in {command[d]}, n \in {command'[d]} : Still(m, n) \/ n.stage \in {"none", "walk", "revokeLink"}
    BY <2>4, <2>5, <2>7
  <2> QED BY <1>0, <2>3, <2>6, <2>12, <2>13, <2>14, PlainKeeps
<1>3. CASE ~IsLive(x)
  <2>1. /\ command' = [OvertakenRotations({x}) EXCEPT ![c] = Onward(c, on)]
        /\ past' = [past EXCEPT !.ended = WalkDone(c, on)]
    BY <1>3, <1>a, <1>b DEF ReadLink, NextLink
  <2>2. WalkDone(c, on) \in SUBSET Tokens
    BY <1>0, <1>1, ShapeParts DEF WalkDone
  <2>3. /\ past' \in Pasts /\ past'.line = past.line /\ past'.opened = past.opened /\ past'.astray = past.astray
        /\ past'.ended = WalkDone(c, on) /\ past'.scim = past.scim /\ past'.leaked = past.leaked
        /\ past'.excused = past.excused
    BY <1>0, <2>1, <2>2 DEF Pasts
  <2>4. token' = Revoked({x})
    <3>1. token \in [Tokens -> [row : {"none", "live", "revoked", "deleted"}, next : Nat]]
      BY <1>0, ShapeParts
    <3>2. Revoked({x}) = [t \in Tokens |-> token[t]]
      BY <1>3 DEF Revoked
    <3> QED BY <1>0, <3>1, <3>2
  <2> QED BY <1>0, <1>a, <1>b, <2>1, <2>3, <2>4, WalkGoes DEF InWalk
<1> QED BY <1>2, <1>3

LEMMA RevokeLinkKeeps ==
    ASSUME AccountInv, NEW c \in Clients, RevokeLink(c) PROVE AccountInv'
<1> DEFINE r == command[c]
<1>a. PICK x, y : x = r.at /\ y = token[x].next
  OBVIOUS
<1>0. /\ AccountShapes /\ SessionInv /\ RequestSound(r) /\ r \in Requests /\ past \in Pasts
      /\ r.stage = "revokeLink" /\ UNCHANGED <<account, invite, resets, tally>>
  BY ShapeParts DEF AccountInv, SessionInv, RequestsSound, RevokeLink
<1>1. x \in Tokens /\ Issued(x) /\ Issued(r.from) /\ r.from \in Tokens /\ r.next = 0
  BY <1>0, <1>a, ShapeParts DEF RequestSound, InWalk
<1>2. CASE token[x].row = "deleted"
  <2>1. Ends(c) /\ UNCHANGED <<token, past>>
    BY <1>2, <1>a DEF RevokeLink
  <2>2. command' \in [Clients -> Requests] /\ command'[c] = NoCommand /\ \A d \in Clients \ {c} : command'[d] = command[d]
    BY <1>0, <2>1, EndsTyped
  <2>3. AccountShapes'
    BY <1>0, <2>1, <2>2 DEF AccountShapes
  <2>4. /\ RequestsGoOn
        /\ \A d \in Clients : \A m \in {command[d]}, n \in {command'[d]} : Still(m, n) \/ n.stage \in {"none", "walk", "revokeLink"}
    BY <1>0, <2>1, EndsGoOn
  <2>5. Steady /\ EndsRightly
    BY <1>0, <2>1, <2>4 DEF Steady, RowsOnlyRevoked, EndsRightly
  <2>6. RevocationDue => RevocationDue'
    BY <1>0, <2>1, <2>2 DEF RevocationDue
  <2> QED BY <1>0, <2>1, <2>3, <2>4, <2>5, <2>6, PlainKeeps
<1>3. CASE token[x].row # "deleted"
  <2>1. PICK A, E : A = past.astray \cup ({y} \ {0, 0}) /\ E = WalkDone(c, 0)
    OBVIOUS
  <2>2. /\ token' = Revoked({x})
        /\ command' = [OvertakenRotations({x}) EXCEPT ![c] = Onward(c, 0)]
        /\ past' = [past EXCEPT !.ended = E, !.astray = A]
    BY <1>1, <1>3, <1>a, <2>1 DEF RevokeLink
  <2>3. A \in SUBSET Tokens /\ E \in SUBSET Tokens
    BY <1>0, <1>1, <1>a, <2>1, ShapeParts DEF WalkDone, SessionInv, RowsLink
  <2>4. /\ past' \in Pasts /\ past'.line = past.line /\ past'.opened = past.opened /\ past'.astray = A
        /\ past'.ended = E /\ past'.scim = past.scim /\ past'.leaked = past.leaked /\ past'.excused = past.excused
    BY <1>0, <2>2, <2>3 DEF Pasts
  <2>5. past.astray \subseteq A /\ y \in {0} \cup A
    BY <2>1
  <2> QED BY <1>0, <1>3, <1>a, <2>1, <2>2, <2>4, <2>5, WalkGoes DEF InWalk
<1> QED BY <1>2, <1>3

LEMMA GiveUpKeeps ==
    ASSUME AccountInv, NEW c \in Clients, GiveUp(c) PROVE AccountInv'
<1> DEFINE r == command[c]
<1>0. AccountShapes /\ SessionInv /\ RequestSound(r)
  BY DEF AccountInv, SessionInv, RequestsSound
<1>1. PICK A : A = (IF r.stage = "link" THEN past.astray \cup {r.at} ELSE past.astray)
  OBVIOUS
<1>2. PICK b \in BOOLEAN : b = (past.excused \/ r.stage = "revoke")
  OBVIOUS
<1>3. past' = [past EXCEPT !.astray = A, !.excused = b] /\ A \in SUBSET Tokens /\ past \in Pasts
  BY <1>0, <1>1, <1>2, ShapeParts DEF GiveUp, RequestSound, InWalk
<1>4. /\ past' \in Pasts /\ past'.line = past.line /\ past'.opened = past.opened /\ past'.astray = A
      /\ past'.ended = past.ended /\ past'.scim = past.scim /\ past'.leaked = past.leaked /\ past'.excused = b
  BY <1>3 DEF Pasts
<1>5. UNCHANGED <<account, invite, resets, token, tally>> /\ Ends(c)
  BY DEF GiveUp
<1>6. command' \in [Clients -> Requests] /\ command'[c] = NoCommand /\ \A d \in Clients \ {c} : command'[d] = command[d]
  BY <1>0, <1>5, EndsTyped
<1>7. AccountShapes'
  BY <1>0, <1>4, <1>5, <1>6 DEF AccountShapes
<1>8. /\ RequestsGoOn
      /\ \A d \in Clients : \A m \in {command[d]}, n \in {command'[d]} : Still(m, n) \/ n.stage \in {"none", "walk", "revokeLink"}
  BY <1>0, <1>1, <1>4, <1>5, EndsGoOn
<1>9. Steady
  BY <1>1, <1>4, <1>5, <1>8 DEF Steady, RowsOnlyRevoked
<1>10. EndsRightly
  BY <1>4 DEF EndsRightly
<1>11. RevocationDue => RevocationDue'
  BY <1>2, <1>4, <1>6 DEF RevocationDue
<1> QED BY <1>4, <1>5, <1>7, <1>8, <1>9, <1>10, <1>11, PlainKeeps

LEMMA CreateResetKeeps ==
    ASSUME AccountInv, NEW c \in Clients, CreateReset(c) PROVE AccountInv'
<1> DEFINE r == command[c]
<1>0. AccountShapes /\ SessionInv /\ r \in Requests /\ past \in Pasts
  BY ShapeParts DEF AccountInv, SessionInv
<1>1. PICK b \in BOOLEAN : b = (past.leaked \/ r.late)
  OBVIOUS
<1>2. past' = [past EXCEPT !.leaked = b]
  BY <1>1 DEF CreateReset
<1>3. /\ past' \in Pasts /\ past'.line = past.line /\ past'.opened = past.opened /\ past'.astray = past.astray
      /\ past'.ended = past.ended /\ past'.scim = past.scim /\ past'.leaked = b /\ past'.excused = past.excused
  BY <1>0, <1>2 DEF Pasts
<1>4. UNCHANGED <<account, invite, token>> /\ Ends(c) /\ r.stage = "create"
  BY DEF CreateReset
<1>5. command' \in [Clients -> Requests] /\ command'[c] = NoCommand /\ \A d \in Clients \ {c} : command'[d] = command[d]
  BY <1>0, <1>4, EndsTyped
<1>6. /\ tally' \in [commands : Nat, tokens : 0..MaxTokens, passwords : Nat, resets : Nat]
      /\ tally'.tokens = tally.tokens /\ resets' \in [Links -> {"none", "open", "used"}]
  <2>1. tally' = [tally EXCEPT !.resets = @ + 1] /\ resets' = [resets EXCEPT ![tally.resets + 1] = "open"]
    BY DEF CreateReset
  <2>2. /\ tally \in [commands : Nat, tokens : 0..MaxTokens, passwords : Nat, resets : Nat]
        /\ resets \in [Links -> {"none", "open", "used"}]
    BY <1>0 DEF AccountShapes
  <2>3. /\ tally' \in [commands : Nat, tokens : 0..MaxTokens, passwords : Nat, resets : Nat]
        /\ tally'.tokens = tally.tokens
    BY <2>1, <2>2
  <2> QED BY <2>1, <2>2, <2>3
<1>7. AccountShapes'
  BY <1>0, <1>3, <1>4, <1>5, <1>6 DEF AccountShapes
<1>8. RequestsGoOn
  BY <1>0, <1>3, <1>4, EndsGoOn
<1>9. Steady /\ EndsRightly
  BY <1>3, <1>4, <1>6, <1>8 DEF Steady, RowsOnlyRevoked, EndsRightly
<1>10. SessionInv' /\ Loose \subseteq Loose' /\ \A t \in Tokens : ActiveToken(t)' => ActiveToken(t)
  BY <1>0, <1>7, <1>9, SteadyKeeps
<1>11. RevocationDue => RevocationDue'
  BY <1>3, <1>4, <1>5 DEF RevocationDue
<1>12. ASSUME NEW d \in Clients, NEW n \in {command'[d]}, SigningIn(n) PROVE SigningIn(command[d]) /\ n.password = command[d].password
  BY <1>5, <1>12, NoRequest DEF SigningIn
<1>13. OldPasswords' /\ SignedOut'
  BY <1>3, <1>4, <1>10, <1>11, <1>12, SignInsCarry
<1>14. PurgedBare'
  <2>1. account.status = "PURGED" => past'.leaked
    BY <1>1, <1>3, <1>4 DEF AccountInv, PurgedBare
  <2> QED BY <1>4, <2>1 DEF PurgedBare
<1> QED BY <1>10, <1>13, <1>14 DEF AccountInv

\* The password stored: the sessions of the one before are still to be revoked,
\* or there was none before.
LEMMA WritePasswordKeeps ==
    ASSUME AccountInv, NEW c \in Clients, WritePassword(c) PROVE AccountInv'
<1> DEFINE r == command[c]
           fails == (r.op = "accept" /\ invite = "none") \/ (r.op = "confirm" /\ resets[r.from] = "none")
<1>a. PICK n : n = tally.passwords + 1
  OBVIOUS
<1>0. AccountShapes /\ SessionInv /\ r \in Requests /\ past \in Pasts /\ r.stage = "write" /\ token' = token
  BY ShapeParts DEF AccountInv, SessionInv, WritePassword
<1>1. CASE fails
  <2>1. Ends(c) /\ UNCHANGED <<account, invite, resets, tally, past>>
    BY <1>1 DEF WritePassword
  <2>2. command' \in [Clients -> Requests] /\ command'[c] = NoCommand /\ \A d \in Clients \ {c} : command'[d] = command[d]
    BY <1>0, <2>1, EndsTyped
  <2>3. AccountShapes'
    BY <1>0, <2>1, <2>2 DEF AccountShapes
  <2>4. /\ RequestsGoOn
        /\ \A d \in Clients : \A m \in {command[d]}, q \in {command'[d]} : Still(m, q) \/ q.stage \in {"none", "walk", "revokeLink"}
    BY <1>0, <2>1, EndsGoOn
  <2>5. Steady /\ EndsRightly
    BY <1>0, <2>1, <2>4 DEF Steady, RowsOnlyRevoked, EndsRightly
  <2>6. RevocationDue => RevocationDue'
    BY <1>0, <2>1, <2>2 DEF RevocationDue
  <2> QED BY <2>1, <2>3, <2>4, <2>5, <2>6, PlainKeeps
<1>2. CASE ~fails
  <2>1. /\ tally' = [tally EXCEPT !.passwords = n]
        /\ account' = [account EXCEPT !.password = n, !.status = IF r.op = "accept" THEN "ACTIVE" ELSE @]
        /\ invite' = (IF r.op = "accept" THEN "used" ELSE invite)
        /\ resets' = (IF r.op = "confirm" THEN [resets EXCEPT ![r.from] = "used"] ELSE resets)
        /\ past' = [past EXCEPT !.leaked = @ \/ r.late,
                        !.excused = @ \/ (r.op = "accept" /\ account.password # 0),
                        !.scim = IF r.op = "accept" THEN FALSE ELSE @]
        /\ command' = [command EXCEPT ![c] = [r EXCEPT !.stage = AfterPassword(r.op), !.password = n, !.from = 0]]
    BY <1>a, <1>2 DEF WritePassword
  <2>2. n \in Nat /\ n # 0
    BY <1>a, <1>0 DEF AccountShapes
  <2>3. /\ account' \in [status : Statuses, password : Nat] /\ account'.password = n
        /\ account'.status = (IF r.op = "accept" THEN "ACTIVE" ELSE account.status)
    BY <1>0, <2>1, <2>2 DEF AccountShapes, Statuses
  <2>4. PICK l \in BOOLEAN : l = (past.leaked \/ r.late)
    OBVIOUS
  <2>5. PICK x \in BOOLEAN : x = (past.excused \/ (r.op = "accept" /\ account.password # 0))
    OBVIOUS
  <2>6. PICK s \in BOOLEAN : s = (IF r.op = "accept" THEN FALSE ELSE past.scim)
    BY <1>0 DEF Pasts
  <2>7. past' = [past EXCEPT !.leaked = l, !.excused = x, !.scim = s]
    BY <2>1, <2>4, <2>5, <2>6
  <2>8. /\ past' \in Pasts /\ past'.line = past.line /\ past'.opened = past.opened /\ past'.astray = past.astray
        /\ past'.ended = past.ended /\ past'.scim = s /\ past'.leaked = l /\ past'.excused = x
    BY <1>0, <2>7 DEF Pasts
  <2>9. PICK g : g = [r EXCEPT !.stage = AfterPassword(r.op), !.password = n, !.from = 0]
    OBVIOUS
  <2>10. /\ g \in Requests /\ g.op = r.op /\ g.from = 0 /\ g.password = n /\ g.late = r.late /\ g.next = r.next
         /\ g.stage = (IF r.op = "accept" THEN "issue" ELSE "revoke")
    BY <1>0, <2>2, <2>9 DEF Requests, AfterPassword
  <2>11. command' = [command EXCEPT ![c] = g] /\ command \in [Clients -> Requests]
    BY <1>0, <2>1, <2>9, ShapeParts
  <2>12. command' \in [Clients -> Requests] /\ command'[c] = g /\ \A d \in Clients \ {c} : command'[d] = command[d]
    <3>1. g \in Requests
      BY <2>10
    <3> QED BY <2>11, <3>1
  <2>13. /\ tally' \in [commands : Nat, tokens : 0..MaxTokens, passwords : Nat, resets : Nat]
         /\ tally'.tokens = tally.tokens
    BY <1>0, <2>1, <2>2 DEF AccountShapes
  <2>14. invite' \in {"none", "open", "used"} /\ resets' \in [Links -> {"none", "open", "used"}]
    BY <1>0, <2>1 DEF AccountShapes
  <2>15. AccountShapes'
    BY <1>0, <2>3, <2>8, <2>12, <2>13, <2>14 DEF AccountShapes
  <2>16. RequestsGoOn
    <3>1. \A m \in {command[c]}, q \in {command'[c]} : Changed(m, q)
      BY <1>0, <2>10, <2>12 DEF Changed, InWalk, AccountInv, SessionInv, RequestsSound, RequestSound
    <3>2. \A d \in Clients \ {c} : \A m \in {command[d]}, q \in {command'[d]} : Still(m, q)
      BY <2>12 DEF Still
    <3> QED BY <3>1, <3>2 DEF RequestsGoOn
  <2>17. Steady /\ EndsRightly
    BY <1>0, <2>8, <2>13, <2>16 DEF Steady, RowsOnlyRevoked, EndsRightly
  <2>18. SessionInv' /\ Loose \subseteq Loose' /\ \A t \in Tokens : ActiveToken(t)' => ActiveToken(t)
    BY <1>0, <2>15, <2>17, SteadyKeeps
  <2>19. \A t : Stray(t) => Stray(t)'
    BY <1>0, <2>8, <2>18, CutGrows
  <2>20. RevocationDue' \/ (r.op = "accept" /\ account.password = 0)
    <3>1. r.op # "accept" => command'[c].stage = "revoke"
      BY <2>10, <2>12
    <3> QED BY <2>5, <2>8, <3>1 DEF RevocationDue
  <2>21. ASSUME account.password = 0 PROVE (\A t \in Tokens : ActiveToken(t) => Stray(t))' /\ \A d \in Clients \ {c} : ~SigningIn(command'[d])
    BY <2>12, <2>18, <2>19, <2>21 DEF AccountInv, OldPasswords
  <2>22. OldPasswords'
    <3>1. \A t \in Tokens : (ActiveToken(t) /\ past.opened[t] < account.password => Stray(t) \/ RevocationDue)'
      BY <2>20, <2>21
    <3>2. ASSUME NEW d \in Clients, NEW q \in {command'[d]}, SigningIn(q), q.password < n PROVE RevocationDue'
      <4>1. d # c
        BY <2>2, <2>10, <2>12, <3>2
      <4> QED BY <2>20, <2>21, <3>2, <4>1
    <3> QED BY <2>2, <2>3, <3>1, <3>2 DEF OldPasswords
  <2>23. SignedOut'
    <3>1. CASE r.op = "accept"
      BY <2>3, <3>1 DEF SignedOut
    <3>2. CASE r.op # "accept"
      <4>1. account'.status = account.status /\ past'.scim = past.scim
        BY <2>3, <2>6, <2>8, <3>2
      <4>2. ASSUME NEW d \in Clients, NEW q \in {command'[d]}, SigningIn(q) PROVE d # c /\ q = command[d]
        BY <2>10, <2>12, <3>2, <4>2 DEF SigningIn
      <4>3. ASSUME account.status \in {"SUSPENDED", "ARCHIVED", "PURGED"}, ~past.scim
            PROVE  (\A t \in Tokens : ActiveToken(t) => Stray(t))' /\ \A d \in Clients : \A q \in {command'[d]} : ~SigningIn(q)
        BY <2>18, <2>19, <4>2, <4>3 DEF AccountInv, SignedOut
      <4> QED BY <4>1, <4>3 DEF SignedOut
    <3> QED BY <3>1, <3>2
  <2>24. PurgedBare'
    <3>1. account.status = "PURGED" => l
      BY <1>0, <2>4 DEF AccountInv, PurgedBare
    <3> QED BY <2>3, <2>8, <3>1 DEF PurgedBare
  <2> QED BY <2>18, <2>22, <2>23, <2>24 DEF AccountInv
<1> QED BY <1>1, <1>2

\* Every session is revoked and everything about to issue one is overtaken.
LEMMA RevokeAllKeeps ==
    ASSUME AccountInv, NEW c \in Clients, RevokeAll(c) PROVE AccountInv'
<1>0. AccountShapes /\ SessionInv /\ past \in Pasts
  BY ShapeParts DEF AccountInv, SessionInv
<1>1. PICK E : E = past.ended \cup {t \in Tokens : IsLive(t)}
  OBVIOUS
<1>2. past' = [past EXCEPT !.ended = E, !.excused = FALSE] /\ E \in SUBSET Tokens
  BY <1>0, <1>1, ShapeParts DEF RevokeAll
<1>3. /\ past' \in Pasts /\ past'.line = past.line /\ past'.opened = past.opened /\ past'.astray = past.astray
      /\ past'.ended = E /\ past'.scim = past.scim /\ past'.leaked = past.leaked
  BY <1>0, <1>2 DEF Pasts
<1>4. /\ command' = [Overtaken(Tokens) EXCEPT ![c] = NoCommand] /\ token' = Revoked(Tokens)
      /\ UNCHANGED <<account, invite, resets, tally>> /\ command[c].stage = "revoke"
  BY DEF RevokeAll
<1>5. /\ command' \in [Clients -> Requests] /\ command'[c] = NoCommand
      /\ \A d \in Clients \ {c} : command'[d] = Overtaken(Tokens)[d]
  BY <1>0, <1>4, OvertakenTyped, NoRequest
<1>6. AccountShapes'
  <2>1. token' \in [Tokens -> [row : {"none", "live", "revoked", "deleted"}, next : Nat]]
    BY <1>0, <1>4, RevokedTyped
  <2> QED BY <1>0, <1>3, <1>4, <1>5, <2>1 DEF AccountShapes
<1>7. \A d \in Clients \ {c} : \A m \in {command[d]}, n \in {command'[d]} :
          Still(m, n) /\ (Issuing(m) /\ m.from \in Tokens \cup {0} => n.late)
  BY <1>0, <1>5, OvertakenStill
<1>8. \A m \in {command[c]}, n \in {command'[c]} : Changed(m, n)
  BY <1>4, <1>5, NoRequest DEF Changed, InWalk
<1>9. RowsOnlyRevoked /\ \A t \in Tokens : token'[t].row # "live"
  BY <1>0, <1>4, RevokedRows
<1>10. \A d \in Clients : \A n \in {command'[d]} : Issuing(n) => n.late
  <2>1. ASSUME NEW d \in Clients, NEW n \in {command'[d]}, Issuing(n) PROVE n.late
    <3>1. d # c
      BY <1>5, <2>1, NoRequest DEF Issuing
    <3>2. Issuing(command[d])
      BY <1>7, <2>1, <3>1 DEF Still, Issuing
    <3>3. command[d].from \in Tokens \cup {0}
      BY <1>0, <3>2, ShapeParts DEF SessionInv, RequestsSound, RequestSound, Issuing, InWalk
    <3> QED BY <1>7, <2>1, <3>1, <3>2, <3>3
  <2> QED BY <2>1
<1>11. \A t \in Tokens : ~ActiveToken(t)'
  BY <1>9, <1>10 DEF ActiveToken, IsLive
<1>12. \A d \in Clients : \A n \in {command'[d]} : ~SigningIn(n)
  BY <1>10 DEF SigningIn, Issuing
<1>13. Steady
  BY <1>3, <1>4, <1>7, <1>8, <1>9 DEF Steady, RequestsGoOn
<1>14. EndsRightly
  BY <1>0, <1>1, <1>3, <1>11 DEF EndsRightly, SessionInv, Lines, IsLive
<1>15. SessionInv'
  BY <1>0, <1>6, <1>13, <1>14, SteadyKeeps
<1>16. OldPasswords' /\ SignedOut'
  BY <1>11, <1>12 DEF OldPasswords, SignedOut
<1>17. PurgedBare'
  <2>1. \A d \in Clients : command'[d].stage \in {"write", "create"} =>
            command[d].stage = command'[d].stage /\ (command[d].late => command'[d].late)
    BY <1>5, <1>7, NoRequest DEF Still
  <2> QED BY <1>3, <1>4, <2>1, BareCarry
<1> QED BY <1>15, <1>16, <1>17 DEF AccountInv

\* A status that signs out deletes every row and overtakes every request.
LEMMA ApplyStatusKeeps ==
    ASSUME AccountInv, NEW c \in Clients, ApplyStatus(c) PROVE AccountInv'
<1> DEFINE r == command[c]
<1>a. PICK op : op = r.op
  OBVIOUS
<1>0. AccountShapes /\ SessionInv /\ r \in Requests /\ past \in Pasts /\ r.stage = "apply"
      /\ op \in {"suspend", "reactivate", "offboard", "purge"}
  BY <1>a, ShapeParts DEF AccountInv, SessionInv, ApplyStatus, RequestsSound, RequestSound, InWalk
<1>1. PICK b \in BOOLEAN : b = (past.leaked /\ op # "purge")
  OBVIOUS
<1>2. past' = [past EXCEPT !.scim = FALSE, !.leaked = b]
  BY <1>a, <1>1 DEF ApplyStatus
<1>3. /\ past' \in Pasts /\ past'.line = past.line /\ past'.opened = past.opened /\ past'.astray = past.astray
      /\ past'.ended = past.ended /\ past'.scim = FALSE /\ past'.leaked = b /\ past'.excused = past.excused
  BY <1>0, <1>2 DEF Pasts
<1>4. /\ account' = [status |-> StatusAfter(op), password |-> IF op = "purge" THEN 0 ELSE account.password]
      /\ invite' = (IF op = "purge" THEN "none" ELSE invite)
      /\ resets' = (IF op = "purge" THEN [l \in Links |-> "none"] ELSE resets)
      /\ tally' = tally
  BY <1>a DEF ApplyStatus
<1>5. /\ account' \in [status : Statuses, password : Nat]
      /\ account'.password = (IF op = "purge" THEN 0 ELSE account.password)
      /\ account'.status = "PURGED" <=> op = "purge"
      /\ op = "reactivate" => account'.status = "ACTIVE"
      /\ account.password \in Nat
  BY <1>0, <1>4, ShapeParts DEF StatusAfter, Statuses
<1>6. invite' \in {"none", "open", "used"} /\ resets' \in [Links -> {"none", "open", "used"}]
  BY <1>0, <1>4 DEF AccountShapes
<1>7. CASE op = "reactivate"
  <2>1. Ends(c) /\ token' = token
    BY <1>a, <1>7 DEF ApplyStatus, SignsOut, Ends
  <2>2. command' \in [Clients -> Requests] /\ command'[c] = NoCommand /\ \A d \in Clients \ {c} : command'[d] = command[d]
    BY <1>0, <2>1, EndsTyped
  <2>3. AccountShapes'
    BY <1>0, <1>3, <1>4, <1>5, <1>6, <2>1, <2>2 DEF AccountShapes
  <2>4. RequestsGoOn
    BY <1>0, <1>3, <2>1, EndsGoOn
  <2>5. Steady /\ EndsRightly
    BY <1>3, <1>4, <2>1, <2>4 DEF Steady, RowsOnlyRevoked, EndsRightly
  <2>6. SessionInv' /\ Loose \subseteq Loose' /\ \A t \in Tokens : ActiveToken(t)' => ActiveToken(t)
    BY <1>0, <2>3, <2>5, SteadyKeeps
  <2>7. RevocationDue => RevocationDue'
    BY <1>0, <1>3, <2>2 DEF RevocationDue
  <2>8. ASSUME NEW d \in Clients, NEW n \in {command'[d]}, SigningIn(n)
        PROVE  SigningIn(command[d]) /\ n.password = command[d].password
    BY <2>2, <2>8, NoRequest DEF SigningIn
  <2>9. OldPasswords'
    <3>1. OldPasswords /\ account'.password = account.password
      BY <1>5, <1>7 DEF AccountInv
    <3> QED BY <1>0, <1>3, <2>6, <2>7, <2>8, <3>1, OldPasswordsCarry
  <2>10. SignedOut' /\ PurgedBare'
    BY <1>5, <1>7 DEF SignedOut, PurgedBare
  <2> QED BY <2>6, <2>9, <2>10 DEF AccountInv
<1>8. CASE op # "reactivate"
  <2>1. /\ token' = [t \in Tokens |-> IF token[t] = NoToken THEN NoToken ELSE [row |-> "deleted", next |-> 0]]
        /\ command' = [Late EXCEPT ![c] = NoCommand]
    BY <1>a, <1>8 DEF ApplyStatus, SignsOut
  <2>2. /\ command' \in [Clients -> Requests] /\ command'[c] = NoCommand
        /\ \A d \in Clients \ {c} : command'[d] = Late[d]
    BY <1>0, <2>1, OvertakenTyped, NoRequest
  <2>3. ASSUME NEW d \in Clients, NEW n \in {command'[d]}
        PROVE  n = NoCommand \/ (n.late /\ Still(command[d], n) /\ d # c)
    BY <1>0, <2>2, <2>3, OvertakenStill
  <2>4. ASSUME NEW t \in Tokens
        PROVE  /\ ~Issued(t) => token'[t] = token[t] /\ token[t] = NoToken
               /\ Issued(t) => token'[t].row = "deleted" /\ token'[t].next = 0
    <3>1. Issued(t) <=> token[t].row # "none"
      BY <1>0 DEF SessionInv, Lines
    <3>2. ~Issued(t) => token[t] = NoToken
      BY <1>0 DEF SessionInv, Lines
    <3> QED BY <2>1, <3>1, <3>2 DEF NoToken
  <2>5. \A t \in Tokens : token'[t].row \in {"none", "deleted"} /\ token'[t].next = 0
    BY <2>4 DEF NoToken
  <2>6. AccountShapes'
    <3>1. token' \in [Tokens -> [row : {"none", "live", "revoked", "deleted"}, next : Nat]]
      BY <2>1 DEF NoToken
    <3> QED BY <1>0, <1>3, <1>4, <1>5, <1>6, <2>2, <3>1 DEF AccountShapes
  <2>7. Lines' /\ (\A t : Issued(t)' <=> Issued(t)) /\ \A u, y : Child(u, y)' <=> Child(u, y)
    BY <1>0, <1>3, <1>4, <2>4, <2>6, LinesCarry
  <2>8. \A d \in Clients : \A n \in {command'[d]} : Issuing(n) => n.late
    BY <2>3, NoRequest DEF Issuing
  <2>9. \A t \in Tokens : ~ActiveToken(t)'
    BY <2>5, <2>8 DEF ActiveToken, IsLive
  <2>10. \A d \in Clients : \A n \in {command'[d]} : ~SigningIn(n)
    BY <2>8 DEF SigningIn, Issuing
  <2>11. ASSUME NEW d \in Clients, NEW n \in {command'[d]} PROVE RequestSound(n)' /\ Walking(n)'
    <3>1. CASE n = NoCommand
      BY <3>1, NoRequest DEF RequestSound, Walking, Issuing, InWalk
    <3>2. CASE n.late /\ Still(command[d], n)
      <4>1. RequestSound(command[d])
        BY <1>0 DEF SessionInv, RequestsSound
      <4>2. RequestSound(n)'
        BY <1>3, <2>7, <3>2, <4>1 DEF RequestSound, Still, Issuing, InWalk
      <4>3. Walking(n)'
        BY <2>9 DEF Walking, InWalk
      <4> QED BY <4>2, <4>3
    <3> QED BY <2>3, <2>11, <3>1, <3>2
  <2>12. RequestsSound' /\ Walks'
    BY <2>11 DEF RequestsSound, Walks
  <2>13. RowsLink'
    <3>1. ASSUME NEW u \in Tokens, token'[u].row # "deleted", NEW y \in Tokens, Child(u, y)' PROVE FALSE
      <4>1. Issued(u)
        BY <1>0, <2>7, <3>1 DEF Child, SessionInv, Lines
      <4> QED BY <2>4, <3>1, <4>1
    <3> QED BY <2>5, <3>1 DEF RowsLink
  <2>14. DeletedCut'
    BY <2>4, <2>7 DEF DeletedCut
  <2>15. EndedCut'
    BY <1>0, <1>3, <2>7, <2>9 DEF EndedCut, SessionInv
  <2>16. SessionInv'
    BY <2>6, <2>7, <2>12, <2>13, <2>14, <2>15 DEF SessionInv
  <2>17. OldPasswords' /\ SignedOut'
    BY <2>9, <2>10 DEF OldPasswords, SignedOut
  <2>18. PurgedBare'
    <3>1. \A d \in Clients : command'[d].stage \in {"write", "create"} => command'[d].late
      BY <2>3, NoRequest
    <3> QED BY <1>4, <1>5, <3>1 DEF PurgedBare
  <2> QED BY <2>16, <2>17, <2>18 DEF AccountInv
<1> QED BY <1>7, <1>8

LEMMA ScimKeeps ==
    ASSUME AccountInv, NEW s \in {"ACTIVE", "SUSPENDED", "ARCHIVED"}, ScimStatus(s) PROVE AccountInv'
<1>0. AccountShapes /\ SessionInv /\ OldPasswords /\ past \in Pasts /\ UNCHANGED <<invite, resets, token, command>>
  BY ShapeParts DEF AccountInv, SessionInv, ScimStatus
<1>1. /\ account' \in [status : Statuses, password : Nat] /\ account'.password = account.password
      /\ account'.status = s
  BY <1>0 DEF ScimStatus, AccountShapes, Statuses
<1>2. /\ past' \in Pasts /\ past'.line = past.line /\ past'.opened = past.opened /\ past'.astray = past.astray
      /\ past'.ended = past.ended /\ past'.scim = TRUE /\ past'.leaked = past.leaked /\ past'.excused = past.excused
  BY <1>0 DEF ScimStatus, Pasts
<1>3. /\ tally' \in [commands : Nat, tokens : 0..MaxTokens, passwords : Nat, resets : Nat]
      /\ tally'.tokens = tally.tokens
  BY <1>0 DEF ScimStatus, Counts, AccountShapes
<1>4. AccountShapes'
  BY <1>0, <1>1, <1>2, <1>3 DEF AccountShapes
<1>5. Steady /\ EndsRightly
  BY <1>0, <1>2, <1>3 DEF Steady, RowsOnlyRevoked, RequestsGoOn, Still, EndsRightly
<1>6. SessionInv' /\ Loose \subseteq Loose' /\ \A t \in Tokens : ActiveToken(t)' => ActiveToken(t)
  BY <1>0, <1>4, <1>5, SteadyKeeps
<1>7. RevocationDue => RevocationDue'
  BY <1>0, <1>2 DEF RevocationDue
<1>8. OldPasswords'
  BY <1>0, <1>1, <1>2, <1>6, <1>7, OldPasswordsCarry
<1> QED BY <1>1, <1>2, <1>6, <1>8 DEF AccountInv, SignedOut, PurgedBare

LEMMA AccountStart == AccountsInit => AccountInv
<1> SUFFICES ASSUME AccountsInit PROVE AccountInv
  OBVIOUS
<1>0. MaxTokens \in Nat /\ Tokens \subseteq Nat \ {0}
  BY AccountsAssumption DEF Tokens
<1>1. \A t \in Tokens : token[t] = NoToken /\ token[t].row = "none" /\ token[t].next = 0
  BY DEF AccountsInit, NoToken
<1>2. \A c \in Clients : command[c] = NoCommand /\ command[c].stage = "none" /\ ~Issuing(command[c])
  BY NoRequest DEF AccountsInit, Issuing
<1>3. past = [line |-> [t \in Tokens |-> {}], opened |-> [t \in Tokens |-> 0], astray |-> {}, ended |-> {},
              scim |-> FALSE, leaked |-> FALSE, excused |-> FALSE]
  BY DEF AccountsInit
<1>4. /\ past \in Pasts /\ past.ended = {} /\ past.scim = FALSE
      /\ \A t \in Tokens : past.line[t] = {}
  BY <1>3 DEF Pasts
<1>5. tally \in [commands : Nat, tokens : 0..MaxTokens, passwords : Nat, resets : Nat] /\ tally.tokens = 0
  BY <1>0 DEF AccountsInit
<1>6. \A t : ~Issued(t)
  BY <1>5 DEF Issued
<1>7. account \in [status : Statuses, password : Nat] /\ account.status \in {"INVITED", "ACTIVE"}
  BY DEF AccountsInit, Statuses
<1>8. command \in [Clients -> Requests]
  BY NoRequest DEF AccountsInit
<1>9. /\ invite \in {"none", "open", "used"} /\ resets \in [Links -> {"none", "open", "used"}]
      /\ token \in [Tokens -> [row : {"none", "live", "revoked", "deleted"}, next : Nat]]
  BY DEF AccountsInit, NoToken
<1>10. AccountShapes
  BY <1>4, <1>5, <1>7, <1>8, <1>9 DEF AccountShapes
<1>11. Lines
  BY <1>1, <1>4, <1>6 DEF Lines
<1>12. RequestsSound /\ Walks
  BY <1>2, NoRequest DEF RequestsSound, RequestSound, Walks, Walking, InWalk
<1>13. \A t \in Tokens : ~ActiveToken(t)
  BY <1>1, <1>2 DEF ActiveToken, IsLive
<1>14. RowsLink
  BY <1>1, <1>4 DEF RowsLink, Child
<1>15. DeletedCut /\ EndedCut
  BY <1>4, <1>6, <1>13 DEF DeletedCut, EndedCut
<1>16. OldPasswords /\ SignedOut /\ PurgedBare
  BY <1>2, <1>7, <1>13 DEF OldPasswords, SignedOut, PurgedBare, SigningIn
<1> QED BY <1>10, <1>11, <1>12, <1>14, <1>15, <1>16 DEF AccountInv, SessionInv

LEMMA AccountStutters == AccountInv /\ UNCHANGED accountVars => AccountInv'
BY DEF AccountInv, SessionInv, AccountShapes, Lines, Child, Issued, Loose, Cut, ActiveToken, IsLive, RequestSound, RequestsSound,
       Walking, InWalk, Walks, Linking, RowsLink, DeletedCut, EndedCut, Stray, RevocationDue, OldPasswords, SignedOut,
       PurgedBare, accountVars

LEMMA AccountStep == AccountInv /\ [AccountsNext]_accountVars => AccountInv'
<1> SUFFICES ASSUME AccountInv, [AccountsNext]_accountVars PROVE AccountInv'
  OBVIOUS
<1>1. CASE UNCHANGED accountVars
  BY <1>1, AccountStutters
<1>2. ASSUME NEW c \in Clients, BeginsCommand(c) PROVE AccountInv'
  BY <1>2, BeginsKeeps
<1>3. ASSUME NEW c \in Clients, IssueToken(c) PROVE AccountInv'
  BY <1>3, IssueKeeps
<1>4. ASSUME NEW c \in Clients, LinkToken(c) PROVE AccountInv'
  BY <1>4, LinkKeeps
<1>5. ASSUME NEW c \in Clients, ReadLink(c) PROVE AccountInv'
  BY <1>5, ReadLinkKeeps
<1>14. ASSUME NEW c \in Clients, RevokeLink(c) PROVE AccountInv'
  BY <1>14, RevokeLinkKeeps
<1>6. ASSUME NEW c \in Clients, CreateReset(c) PROVE AccountInv'
  BY <1>6, CreateResetKeeps
<1>7. ASSUME NEW c \in Clients, WritePassword(c) PROVE AccountInv'
  BY <1>7, WritePasswordKeeps
<1>8. ASSUME NEW c \in Clients, RevokeAll(c) PROVE AccountInv'
  BY <1>8, RevokeAllKeeps
<1>9. ASSUME NEW c \in Clients, ApplyStatus(c) PROVE AccountInv'
  BY <1>9, ApplyStatusKeeps
<1>10. ASSUME NEW c \in Clients, GiveUp(c) PROVE AccountInv'
  BY <1>10, GiveUpKeeps
<1>11. ASSUME NEW t \in Tokens, Logout(t) PROVE AccountInv'
  BY <1>11, LogoutKeeps
<1>12. ASSUME NEW kept, RevokeOthers(kept) PROVE AccountInv'
  BY <1>12, RevokeOthersKeeps
<1>13. ASSUME NEW s \in {"ACTIVE", "SUSPENDED", "ARCHIVED"}, ScimStatus(s) PROVE AccountInv'
  BY <1>13, ScimKeeps
<1> QED BY <1>1, <1>2, <1>3, <1>4, <1>5, <1>6, <1>7, <1>8, <1>9, <1>10, <1>11, <1>12, <1>13, <1>14 DEF AccountsNext, BeginsCommand

LEMMA AccountAlways == AccountsSpec => []AccountInv
BY AccountStart, AccountStep, PTL DEF AccountsSpec

LEMMA LooseAstray == Loose \subseteq Astray
BY DEF Loose, Astray

\* EndedChainsStayEnded: once a session was signed out, no token rotated from it
\* stays valid, however rotations, walks and revocations interleave, but past a
\* rotation that overtook the revocation, lost its link, or was linked between the
\* read and the update of the walk.
THEOREM EndedStayEnded == AccountsSpec => []EndedChainsStayEnded
<1>1. ASSUME AccountInv, NEW t \in Tokens, IsLive(t), NEW e \in past.ended \cap Lineage(t)
      PROVE  \E x \in Astray \cap Lineage(t) : x > e
  <2>1. Cut(e, t)
    BY <1>1 DEF AccountInv, SessionInv, EndedCut, ActiveToken, Lineage
  <2> QED BY <2>1, LooseAstray DEF Cut, Lineage
<1>2. AccountInv => EndedChainsStayEnded
  BY <1>1 DEF EndedChainsStayEnded
<1> QED BY <1>2, AccountAlways, PTL

\* OldPasswordSessionsEnd: a password change or reset leaves no session opened with
\* an earlier password, once its revocation is done, but those in progress then.
THEOREM OldSessionsEnd == AccountsSpec => []OldPasswordSessionsEnd
<1>1. ASSUME AccountInv, NEW t \in Tokens, IsLive(t), past.opened[t] < account.password
      PROVE  \/ Astray \cap Lineage(t) # {}
             \/ \E c \in Clients : command[c].stage = "revoke"
             \/ past.excused
  <2>1. Stray(t) \/ RevocationDue
    BY <1>1 DEF AccountInv, OldPasswords, ActiveToken
  <2> QED BY <2>1, LooseAstray DEF Stray, RevocationDue, Lineage
<1>2. AccountInv => OldPasswordSessionsEnd
  BY <1>1 DEF OldPasswordSessionsEnd
<1> QED BY <1>2, AccountAlways, PTL

\* BlockedAreSignedOut: a user suspended, offboarded or purged in the application
\* has no session left, a purged one neither password nor link, but for what was
\* in progress at that moment.
THEOREM BlockedStaySignedOut == AccountsSpec => []BlockedAreSignedOut
<1>1. ASSUME AccountInv, account.status \in {"SUSPENDED", "ARCHIVED", "PURGED"}, ~past.scim,
             NEW t \in Tokens, IsLive(t)
      PROVE  Astray \cap Lineage(t) # {}
  <2>1. Stray(t)
    BY <1>1 DEF AccountInv, SignedOut, ActiveToken
  <2> QED BY <2>1, LooseAstray DEF Stray, Lineage
<1>2. AccountInv => BlockedAreSignedOut
  BY <1>1 DEF BlockedAreSignedOut, AccountInv, PurgedBare
<1> QED BY <1>2, AccountAlways, PTL

(* Bounds: passwords and links are numbered by the requests that make them. *)

\* The requests that are about to store a password.
Writing == {c \in Clients : command[c].stage = "write"}
\* What a request refers to, when p passwords have been set.
Fits(m, p) ==
    /\ m.password <= p /\ m.at <= MaxTokens
    /\ m = NoCommand \/ (m.op # "none" /\ m.stage # "none")

\* Each password, stored or about to be, is a request's, but the first.
AccountsBounded ==
    /\ tally.commands <= MaxCommands
    /\ IsFiniteSet(Writing) /\ tally.passwords + Cardinality(Writing) <= tally.commands + 1
    /\ account.password <= tally.passwords
    /\ \A c \in Clients : Fits(command[c], tally.passwords)

LEMMA FitsStill ==
    ASSUME NEW m, NEW n, NEW p, Fits(m, p), m # NoCommand, Still(m, n)
    PROVE  Fits(n, p)
BY DEF Fits, Still

LEMMA NoCommandFits == ASSUME NEW p \in Nat PROVE Fits(NoCommand, p) /\ NoCommand.stage = "none"
BY AccountsAssumption DEF Fits, NoCommand

LEMMA WritingParts ==
    ASSUME NEW W, IsFiniteSet(W), NEW V, V \subseteq W
    PROVE  IsFiniteSet(V) /\ Cardinality(V) \in Nat /\ Cardinality(W) \in Nat /\ Cardinality(V) <= Cardinality(W)
BY FS_Subset, FS_CardinalityType

\* Requests go on, end, or are overtaken, and no password is set.
LEMMA CommandsCarry ==
    ASSUME AccountShapes, AccountShapes', AccountsBounded, tally'.passwords = tally.passwords,
           tally.commands <= tally'.commands, tally'.commands <= MaxCommands,
           account'.password \in {0, account.password},
           \A d \in Clients : /\ Fits(command'[d], tally.passwords)
                              /\ command'[d].stage = "write" => command[d].stage = "write"
    PROVE  AccountsBounded'
<1> USE DEF AccountsBounded
<1>1. /\ tally.commands \in Nat /\ tally'.commands \in Nat /\ tally.passwords \in Nat /\ account.password \in Nat
  BY DEF AccountShapes
<1>2. Writing' \subseteq Writing
  BY DEF Writing
<1>3. /\ IsFiniteSet(Writing') /\ Cardinality(Writing') \in Nat /\ Cardinality(Writing) \in Nat
      /\ Cardinality(Writing') <= Cardinality(Writing)
  BY <1>2, WritingParts
<1>4. tally'.passwords + Cardinality(Writing') <= tally'.commands + 1
  BY <1>1, <1>3
<1>5. account'.password <= tally'.passwords
  BY <1>1
<1>6. \A c \in Clients : Fits(command'[c], tally'.passwords)
  OBVIOUS
<1> QED BY <1>3, <1>4, <1>5, <1>6 DEF Fits

LEMMA CountsOne ==
    ASSUME AccountShapes, Counts
    PROVE  /\ tally'.commands = tally.commands + 1 /\ tally.commands < MaxCommands
           /\ tally'.passwords = tally.passwords /\ tally.commands <= tally'.commands /\ tally'.commands <= MaxCommands
<1>1. tally.commands \in Nat /\ MaxCommands \in Nat
  BY AccountsAssumption DEF AccountShapes
<1>2. tally'.commands = tally.commands + 1 /\ tally'.passwords = tally.passwords /\ tally.commands < MaxCommands
  BY DEF Counts, AccountShapes
<1> QED BY <1>1, <1>2

\* The requests a revocation overtakes refer to what they did.
LEMMA OvertakenFit ==
    ASSUME AccountShapes, AccountsBounded, NEW d \in Clients, NEW ts
    PROVE  \A n \in {Overtaken(ts)[d], OvertakenRotations(ts)[d], Late[d]} :
               Fits(n, tally.passwords) /\ (n.stage = "write" => command[d].stage = "write")
<1>0. Fits(command[d], tally.passwords) /\ tally.passwords \in Nat
  BY DEF AccountsBounded, AccountShapes
<1>1. ASSUME NEW n, n = NoCommand \/ n = command[d] \/ (Still(command[d], n) /\ command[d] # NoCommand)
      PROVE  Fits(n, tally.passwords) /\ (n.stage = "write" => command[d].stage = "write")
  BY <1>0, <1>1, FitsStill, NoCommandFits DEF Still
<1>2. Issuing(command[d]) => command[d] # NoCommand
  BY NoCommandFits, <1>0 DEF Issuing
<1>3. \A n \in {Overtaken(ts)[d], OvertakenRotations(ts)[d]} :
          n = command[d] \/ (Still(command[d], n) /\ command[d] # NoCommand)
  BY <1>2, OvertakenStill DEF Overtaken, OvertakenRotations
<1>4. Late[d] = NoCommand \/ (Still(command[d], Late[d]) /\ command[d] # NoCommand)
  BY OvertakenStill DEF Late
<1> QED BY <1>1, <1>3, <1>4

\* The request c ends, or goes on as m, and the others may have been overtaken.
LEMMA RequestGoes ==
    ASSUME AccountShapes, AccountShapes', AccountsBounded, NEW c \in Clients, NEW f \in [Clients -> Requests],
           \A d \in Clients \ {c} : /\ Fits(f[d], tally.passwords)
                                    /\ f[d].stage = "write" => command[d].stage = "write",
           NEW m, Fits(m, tally.passwords), m.stage # "write", command' = [f EXCEPT ![c] = m],
           tally'.passwords = tally.passwords, tally'.commands = tally.commands,
           account'.password \in {0, account.password}
    PROVE  AccountsBounded'
<1>1. \A d \in Clients : command'[d] = IF d = c THEN m ELSE f[d]
  OBVIOUS
<1>2. tally.commands \in Nat /\ tally.commands <= MaxCommands
  BY DEF AccountShapes, AccountsBounded
<1> QED BY <1>1, <1>2, CommandsCarry

LEMMA BeginsBounded ==
    ASSUME AccountShapes, AccountShapes', AccountsBounded, NEW c \in Clients, BeginsCommand(c) PROVE AccountsBounded'
<1>1. PICK op \in Ops, stage \in {"issue", "walk", "write", "create", "apply"}, from \in Nat :
          /\ Opens(c, op, stage, from) /\ (stage = "walk" => from \in Tokens) /\ account' = account
  BY BeginsRequest
<1>2. /\ command[c] = NoCommand /\ \A d \in Clients \ {c} : command'[d] = command[d]
      /\ command'[c].op = op /\ command'[c].stage = stage
      /\ command'[c].at = (IF stage = "walk" THEN from ELSE 0)
      /\ command'[c].password = account.password
  BY <1>1, OpenedRequest
<1>3. /\ tally'.commands = tally.commands + 1 /\ tally.commands < MaxCommands
      /\ tally'.passwords = tally.passwords /\ tally.commands <= tally'.commands /\ tally'.commands <= MaxCommands
  BY <1>1, CountsOne DEF Opens
<1>4. Fits(command'[c], tally.passwords)
  <2>1. command'[c].at <= MaxTokens
    BY <1>1, <1>2, AccountsAssumption DEF Tokens
  <2> QED BY <1>2, <2>1 DEF AccountsBounded, Fits, Ops
<1>5. \A d \in Clients : Fits(command'[d], tally.passwords)
  BY <1>2, <1>4 DEF AccountsBounded
<1>6. CASE stage # "write"
  BY <1>1, <1>2, <1>3, <1>5, <1>6, CommandsCarry
<1>7. CASE stage = "write"
  <2>1. Writing' = Writing \cup {c} /\ c \notin Writing
    BY <1>2, <1>7, NoRequest DEF Writing
  <2>2. IsFiniteSet(Writing) /\ Cardinality(Writing) \in Nat
    BY FS_CardinalityType DEF AccountsBounded
  <2>3. IsFiniteSet(Writing') /\ Cardinality(Writing') = Cardinality(Writing) + 1
    BY <2>1, <2>2, FS_AddElement
  <2>4. tally.passwords \in Nat /\ tally.commands \in Nat
    BY DEF AccountShapes
  <2>5. tally'.passwords + Cardinality(Writing') <= tally'.commands + 1
    BY <1>3, <2>2, <2>3, <2>4 DEF AccountsBounded
  <2> QED BY <1>1, <1>3, <1>5, <2>3, <2>5 DEF AccountsBounded, Fits
<1> QED BY <1>6, <1>7

LEMMA WritePasswordBounded ==
    ASSUME AccountShapes, AccountShapes', AccountsBounded, NEW c \in Clients, WritePassword(c) PROVE AccountsBounded'
<1> DEFINE r == command[c]
           n == tally.passwords + 1
<1>0. /\ command \in [Clients -> Requests] /\ r \in Requests /\ tally.passwords \in Nat /\ tally.commands \in Nat
      /\ r.stage = "write" /\ Fits(r, tally.passwords) /\ MaxTokens \in Nat /\ account.password \in Nat
  BY AccountsAssumption DEF AccountShapes, WritePassword, AccountsBounded
<1>1. CASE Ends(c) /\ UNCHANGED <<account, tally>>
  <2>1. command' = [command EXCEPT ![c] = NoCommand]
    BY <1>1 DEF Ends
  <2> QED BY <1>0, <1>1, <2>1, NoCommandFits, RequestGoes DEF AccountsBounded
<1>2. CASE /\ tally' = [tally EXCEPT !.passwords = n] /\ account'.password = n
           /\ command' = [command EXCEPT
                              ![c] = [r EXCEPT !.stage = AfterPassword(r.op), !.password = n, !.from = 0]]
  <2>1. PICK m : m = [r EXCEPT !.stage = AfterPassword(r.op), !.password = n, !.from = 0]
    OBVIOUS
  <2>2. m.stage \in {"issue", "revoke"} /\ m.password = n /\ m.op = r.op /\ m.at = r.at
    BY <1>0, <2>1 DEF AfterPassword, Requests
  <2>3. r.op # "none" /\ r.at <= MaxTokens
    BY <1>0, NoRequest DEF Fits
  <2>4. Fits(m, n)
    BY <1>0, <2>2, <2>3 DEF Fits
  <2>5. \A d \in Clients : command'[d] = IF d = c THEN m ELSE command[d]
    BY <1>0, <1>2, <2>1
  <2>6. \A d \in Clients : Fits(command[d], n)
    <3> SUFFICES ASSUME NEW d \in Clients PROVE Fits(command[d], n)
      OBVIOUS
    <3>1. Fits(command[d], tally.passwords) /\ command[d].password \in Nat
      BY <1>0 DEF AccountsBounded, Requests
    <3> QED BY <1>0, <3>1 DEF Fits
  <2>7. Writing' = Writing \ {c} /\ c \in Writing
    BY <1>0, <2>2, <2>5 DEF Writing
  <2>8. IsFiniteSet(Writing) /\ Cardinality(Writing) \in Nat /\ IsFiniteSet(Writing')
    BY <2>7, FS_CardinalityType, FS_Subset DEF AccountsBounded
  <2>9. Cardinality(Writing') = Cardinality(Writing) - 1
    BY <2>7, <2>8, FS_RemoveElement
  <2>10. tally'.passwords = n /\ tally'.commands = tally.commands
    BY <1>2 DEF AccountShapes
  <2>11. tally'.passwords + Cardinality(Writing') <= tally'.commands + 1
    BY <1>0, <2>8, <2>9, <2>10 DEF AccountsBounded
  <2>12. account'.password <= tally'.passwords
    BY <1>0, <1>2, <2>10
  <2>13. \A d \in Clients : Fits(command'[d], tally'.passwords)
    BY <2>4, <2>5, <2>6, <2>10
  <2> QED BY <2>8, <2>10, <2>11, <2>12, <2>13 DEF AccountsBounded, Fits
<1>3. account \in [status : Statuses, password : Nat]
  BY DEF AccountShapes
<1> QED BY <1>1, <1>2, <1>3 DEF WritePassword

LEMMA AccountsBoundedInit == AccountsInit => AccountsBounded
<1> SUFFICES ASSUME AccountsInit PROVE AccountsBounded
  OBVIOUS
<1>1. \A c \in Clients : command[c] = NoCommand
  BY DEF AccountsInit
<1>2. Writing = {}
  BY <1>1, NoRequest DEF Writing
<1>3. /\ tally.passwords = 1 /\ tally.commands = 0 /\ account.password \in {0, 1} /\ MaxCommands \in Nat
  BY AccountsAssumption DEF AccountsInit
<1>4. \A c \in Clients : Fits(command[c], 1)
  BY <1>1, NoCommandFits
<1> QED BY <1>2, <1>3, <1>4, FS_EmptySet DEF AccountsBounded

LEMMA AccountsBoundedStep ==
    AccountInv /\ AccountInv' /\ AccountsBounded /\ [AccountsNext]_accountVars => AccountsBounded'
<1> SUFFICES ASSUME AccountInv, AccountInv', AccountsBounded, [AccountsNext]_accountVars PROVE AccountsBounded'
  OBVIOUS
<1>0. /\ AccountShapes /\ AccountShapes' /\ RowsLink /\ command \in [Clients -> Requests] /\ MaxTokens \in Nat
      /\ tally \in [commands : Nat, tokens : 0..MaxTokens, passwords : Nat, resets : Nat]
      /\ tally.passwords \in Nat /\ account \in [status : Statuses, password : Nat]
      /\ \A d \in Clients : Fits(command[d], tally.passwords)
  BY AccountsAssumption DEF AccountInv, SessionInv, AccountShapes, AccountsBounded
<1>1. CASE UNCHANGED accountVars
  BY <1>1 DEF accountVars, AccountsBounded, Writing, Fits
<1>2. ASSUME NEW c \in Clients, BeginsCommand(c) PROVE AccountsBounded'
  BY <1>0, <1>2, BeginsBounded
<1>3. ASSUME NEW c \in Clients, NEW m, Fits(m, tally.passwords), m.stage # "write",
             command' = [command EXCEPT ![c] = m], tally'.passwords = tally.passwords,
             tally'.commands = tally.commands, account' = account
      PROVE  AccountsBounded'
  BY <1>0, <1>3, RequestGoes
<1>4. ASSUME NEW c \in Clients, IssueToken(c) PROVE AccountsBounded'
  <2> DEFINE r == command[c]
             t == tally.tokens + 1
             m == IF r.op = "rotate" THEN [Goes(c, "link") EXCEPT !.at = t] ELSE NoCommand
  <2>1. /\ command' = [command EXCEPT ![c] = m] /\ tally' = [tally EXCEPT !.tokens = t] /\ account' = account
        /\ tally.tokens < MaxTokens
    BY <1>4 DEF IssueToken
  <2>2. t <= MaxTokens
    BY <1>0, <2>1
  <2>3. Fits(m, tally.passwords) /\ m.stage # "write"
    <3>1. CASE r.op = "rotate"
      <4>1. r \in Requests
        BY <1>0
      <4>2. m.op = "rotate" /\ m.stage = "link" /\ m.at = t /\ m.password = r.password
        BY <3>1, <4>1 DEF Goes, Requests
      <4> QED BY <1>0, <2>2, <4>2 DEF Fits
    <3>2. CASE r.op # "rotate"
      BY <1>0, <3>2, NoCommandFits
    <3> QED BY <3>1, <3>2
  <2>4. tally'.passwords = tally.passwords /\ tally'.commands = tally.commands
    BY <1>0, <2>1
  <2> HIDE DEF m
  <2> QED BY <1>3, <2>1, <2>3, <2>4
<1>5. ASSUME NEW c \in Clients, LinkToken(c) \/ CreateReset(c) \/ GiveUp(c) PROVE AccountsBounded'
  <2>1. command' = [command EXCEPT ![c] = NoCommand] /\ account' = account
    BY <1>5 DEF LinkToken, CreateReset, GiveUp, Ends
  <2>2. tally'.passwords = tally.passwords /\ tally'.commands = tally.commands
    BY <1>0, <1>5 DEF LinkToken, CreateReset, GiveUp
  <2> QED BY <1>0, <1>3, <2>1, <2>2, NoCommandFits
<1>6. ASSUME NEW c \in Clients, NEW x, NEW on, on = 0 \/ on \in Tokens, UNCHANGED <<account, tally>>,
             command[c] # NoCommand, command' = [OvertakenRotations({x}) EXCEPT ![c] = Onward(c, on)]
      PROVE  AccountsBounded'
  <2> DEFINE r == command[c]
             m == Onward(c, on)
  <2>1. r \in Requests /\ Fits(r, tally.passwords)
    BY <1>0
  <2>2. Fits(m, tally.passwords) /\ m.stage # "write"
    <3>1. CASE on = 0
      BY <1>0, <3>1, NoCommandFits DEF Onward
    <3>2. CASE on # 0
      <4>1. on <= MaxTokens
        BY <1>0, <1>6, <3>2 DEF Tokens
      <4>2. m.op = r.op /\ m.stage = "walk" /\ m.at = on /\ m.password = r.password
        BY <2>1, <3>2 DEF Requests, Onward, Goes
      <4> QED BY <1>6, <2>1, <4>1, <4>2 DEF Fits
    <3> QED BY <3>1, <3>2
  <2>3. PICK f : f = OvertakenRotations({x})
    OBVIOUS
  <2>4. f \in [Clients -> Requests]
    BY <1>0, <2>3, OvertakenTyped
  <2>5. \A d \in Clients : Fits(f[d], tally.passwords) /\ (f[d].stage = "write" => command[d].stage = "write")
    BY <1>0, <2>3, OvertakenFit
  <2>6. tally' = tally /\ account' = account /\ command' = [f EXCEPT ![c] = m]
    BY <1>6, <2>3
  <2> HIDE DEF m
  <2> QED BY <1>0, <2>2, <2>4, <2>5, <2>6, RequestGoes
<1>17. ASSUME NEW c \in Clients, ReadLink(c) PROVE AccountsBounded'
  <2> DEFINE r == command[c]
             on == IF token[r.at].row = "deleted" THEN 0 ELSE NextLink(r.at)
             m == [[r EXCEPT !.stage = "revokeLink"] EXCEPT !.next = on]
  <2>1. r.stage = "walk" /\ UNCHANGED <<account, tally>> /\ r \in Requests /\ r # NoCommand /\ Fits(r, tally.passwords)
    BY <1>0, <1>17, NoRequest DEF ReadLink
  <2>2. on = 0 \/ on \in Tokens
    <3>1. r.at \in Tokens
      BY <1>0, <2>1, ShapeParts DEF AccountInv, SessionInv, RequestsSound, RequestSound, InWalk
    <3> QED BY <1>0, <3>1, ShapeParts DEF RowsLink, NextLink
  <2>3. CASE IsLive(r.at)
    <3>1. command' = [command EXCEPT ![c] = m]
      BY <1>17, <2>3 DEF ReadLink, Goes
    <3>2. m.op = r.op /\ m.stage = "revokeLink" /\ m.at = r.at /\ m.password = r.password
      BY <2>1 DEF Requests
    <3>3. Fits(m, tally.passwords) /\ m.stage # "write"
      BY <2>1, <3>2 DEF Fits
    <3> HIDE DEF m
    <3> QED BY <1>0, <2>1, <3>1, <3>3, RequestGoes
  <2>4. CASE ~IsLive(r.at)
    <3>1. command' = [OvertakenRotations({r.at}) EXCEPT ![c] = Onward(c, on)]
      BY <1>17, <2>4 DEF ReadLink
    <3> HIDE DEF on
    <3> QED BY <1>6, <2>1, <2>2, <3>1
  <2> QED BY <2>3, <2>4
<1>18. ASSUME NEW c \in Clients, RevokeLink(c) PROVE AccountsBounded'
  <2>1. command[c].stage = "revokeLink" /\ UNCHANGED <<account, tally>> /\ command[c] # NoCommand
    BY <1>18, NoRequest DEF RevokeLink
  <2>2. command[c].next = 0
    BY <1>0 DEF AccountInv, SessionInv, RequestsSound, RequestSound
  <2>3. CASE token[command[c].at].row = "deleted"
    <3>1. command' = [command EXCEPT ![c] = NoCommand]
      BY <1>18, <2>3 DEF RevokeLink, Ends
    <3>2. tally'.passwords = tally.passwords /\ tally'.commands = tally.commands
      BY <2>1
    <3> QED BY <1>0, <1>3, <2>1, <3>1, <3>2, NoCommandFits
  <2>4. CASE token[command[c].at].row # "deleted"
    <3>1. command' = [OvertakenRotations({command[c].at}) EXCEPT ![c] = Onward(c, 0)]
      BY <1>18, <2>2, <2>4 DEF RevokeLink
    <3> QED BY <1>6, <2>1, <3>1
  <2> QED BY <2>3, <2>4
<1>7. ASSUME NEW c \in Clients, RevokeAll(c) PROVE AccountsBounded'
  <2>1. command' = [Overtaken(Tokens) EXCEPT ![c] = NoCommand] /\ UNCHANGED <<account, tally>>
    BY <1>7 DEF RevokeAll
  <2>2. Overtaken(Tokens) \in [Clients -> Requests]
    BY <1>0, OvertakenTyped
  <2> QED BY <1>0, <2>1, <2>2, NoCommandFits, OvertakenFit, RequestGoes
<1>8. ASSUME NEW c \in Clients, ApplyStatus(c) PROVE AccountsBounded'
  <2>1. PICK f \in {Late, command} : command' = [f EXCEPT ![c] = NoCommand]
    BY <1>8 DEF ApplyStatus
  <2>2. tally' = tally /\ account'.password \in {0, account.password}
    BY <1>8 DEF ApplyStatus
  <2>3. Late \in [Clients -> Requests]
    BY <1>0, OvertakenTyped
  <2>4. \A d \in Clients : /\ Fits(f[d], tally.passwords)
                           /\ f[d].stage = "write" => command[d].stage = "write"
    BY <1>0, OvertakenFit
  <2>5. f \in [Clients -> Requests]
    BY <1>0, <2>3
  <2>6. Fits(NoCommand, tally.passwords) /\ NoCommand.stage # "write"
    BY <1>0, NoCommandFits
  <2> QED BY <1>0, <2>1, <2>2, <2>4, <2>5, <2>6, RequestGoes
<1>9. ASSUME NEW ts, Counts, command' = OvertakenRotations(ts), account' = account PROVE AccountsBounded'
  BY <1>0, <1>9, CountsOne, OvertakenFit, CommandsCarry
<1>10. ASSUME NEW t \in Tokens, Logout(t) PROVE AccountsBounded'
  BY <1>9, <1>10 DEF Logout
<1>11. ASSUME NEW kept, RevokeOthers(kept) PROVE AccountsBounded'
  BY <1>9, <1>11 DEF RevokeOthers
<1>12. ASSUME NEW s \in {"ACTIVE", "SUSPENDED", "ARCHIVED"}, ScimStatus(s) PROVE AccountsBounded'
  <2>1. Counts /\ command' = command /\ account'.password = account.password
    BY <1>0, <1>12 DEF ScimStatus
  <2> QED BY <1>0, <2>1, CountsOne, CommandsCarry
<1> QED BY <1>0, <1>1, <1>2, <1>4, <1>5, <1>7, <1>8, <1>10, <1>11, <1>12, <1>17, <1>18, WritePasswordBounded
        DEF AccountsNext, BeginsCommand

LEMMA AccountsTypes == AccountInv /\ AccountsBounded => AccountsTypeOK
<1> SUFFICES ASSUME AccountInv, AccountsBounded PROVE AccountsTypeOK
  OBVIOUS
<1>0. /\ AccountShapes /\ RowsLink /\ MaxTokens \in Nat /\ MaxCommands \in Nat
      /\ IsFiniteSet(Writing) /\ Cardinality(Writing) \in Nat
  BY AccountsAssumption, FS_CardinalityType DEF AccountInv, SessionInv, AccountsBounded
<1>1. /\ tally.passwords \in Nat /\ tally.commands \in Nat /\ tally.passwords <= MaxCommands + 1
  BY <1>0 DEF AccountShapes, AccountsBounded
<1>2. account \in [status : Statuses, password : Passwords]
  <2>1. account \in [status : Statuses, password : Nat] /\ account.password <= tally.passwords
    BY <1>0 DEF AccountShapes, AccountsBounded
  <2>2. account.password \in Passwords
    BY <1>0, <1>1, <2>1 DEF Passwords
  <2> QED BY <2>1, <2>2
<1>3. token \in [Tokens -> [row : {"none", "live", "revoked", "deleted"}, next : 0..MaxTokens]]
  <2>1. ASSUME NEW t \in Tokens PROVE token[t] \in [row : {"none", "live", "revoked", "deleted"}, next : 0..MaxTokens]
    <3>1. token[t] \in [row : {"none", "live", "revoked", "deleted"}, next : Nat]
      BY <1>0 DEF AccountShapes
    <3>2. token[t].next = 0 \/ token[t].next \in Tokens
      BY <1>0, ShapeParts DEF RowsLink
    <3>3. token[t].next \in 0..MaxTokens
      BY <1>0, <3>2 DEF Tokens
    <3> QED BY <3>1, <3>3
  <2> QED BY <1>0, <2>1 DEF AccountShapes
<1>4. ASSUME NEW c \in Clients PROVE command[c] = NoCommand \/ command[c] \in Commands
  <2>1. command[c] \in Requests /\ Fits(command[c], tally.passwords)
    BY <1>0 DEF AccountShapes, AccountsBounded
  <2>2. command[c].password \in Passwords /\ command[c].at \in 0..MaxTokens
    BY <1>0, <1>1, <2>1 DEF Fits, Passwords, Requests
  <2>3. command[c].next \in 0..MaxTokens
    BY <1>0 DEF AccountInv, SessionInv, RequestsSound, RequestSound
  <2> QED BY <2>1, <2>2, <2>3 DEF Fits, Requests, Commands
<1> QED BY <1>0, <1>2, <1>3, <1>4, ShapeParts DEF AccountShapes, AccountsTypeOK
=================================================================================
