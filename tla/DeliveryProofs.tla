----------------------------- MODULE DeliveryProofs -----------------------------
(***************************************************************************)
(* Proofs about NotificationDelivery: how often a delivery is attempted    *)
(* and sent, whatever attempts of it interleave.                           *)
(***************************************************************************)
EXTENDS NotificationDelivery, FiniteSetTheorems, TLAPS

\* Manual retries and crashes: each may add one attempt beyond the chain's own.
Owed(d) == manual[d] + crashes

States == [stage : {"load", "send", "sent", "retryable", "final", "schedule"},
           of : Deliveries, by : Origins, no : Nat] \cup {Idle}

On(m, d) == m # Idle /\ m.of = d
\* The attempt has a number below the maximum, and so may still schedule one more.
Young(m, d) == On(m, d) /\ m.no < MAX_ATTEMPTS
\* The attempt, or one it schedules, may still send: a message that went out is
\* sent again only when the row exists and the outcome could not be written.
Hopes(m, d, exists) == On(m, d) /\ m.stage # "sent" /\ (m.stage = "retryable" => exists)

Able(d) == {c \in Callers : Young(attempt[c], d)}
Hopeful(d) == {c \in Callers : Hopes(attempt[c], d, Exists(d))}

\* The shape of every variable; the bound on the attempts follows from Counted.
Shapes ==
    /\ row \in [Deliveries -> [status : {"none", "PENDING", "SENT", "FAILED", "gone"}, attempts : Nat]]
    /\ channel \in [Deliveries -> {"IN_APP", "active", "inactive"}]
    /\ retries \in [Deliveries -> Nat] /\ ending \in [Deliveries -> Nat]
    /\ attempt \in [Callers -> States]
    /\ sends \in [Deliveries -> Nat]
    /\ refused \in [Deliveries -> BOOLEAN]
    /\ manual \in [Deliveries -> 0..MaxManual]
    /\ hiccups \in 0..MaxHiccups /\ crashes \in 0..MaxCrashes
    /\ \A c \in Callers : /\ attempt[c].stage = "load" => attempt[c].no = 0
                          /\ attempt[c].stage = "schedule" => attempt[c].no < MAX_ATTEMPTS

\* An attempt number at the maximum or beyond leaves that much less to come.
Spent(n, d) ==
    n >= MAX_ATTEMPTS => n + Cardinality(Able(d)) + retries[d] <= MAX_ATTEMPTS + Owed(d)

Unborn(d) ==
    row[d].status = "none" =>
        Busy(d) = {} /\ retries[d] = 0 /\ sends[d] = 0 /\ row[d].attempts = 0

Counted(d) ==
    /\ Unborn(d)
    /\ Chains(d) <= 1 + Owed(d)
    /\ Spent(row[d].attempts, d)
    /\ \A c \in Callers : On(attempt[c], d) => Spent(attempt[c].no, d)
    /\ sends[d] + Cardinality(Hopeful(d)) + retries[d] <= 1 + Owed(d) + hiccups

\* A job that ended was about a delivery that was created.
Ended == \A d \in Deliveries : ending[d] > 0 => row[d].status # "none"

DeliveryInv == Shapes /\ Ended /\ \A d \in Deliveries : Counted(d)

------------------------------------------------------------------------------
(* Counting attempts *)

LEMMA MaxIsPositive == MAX_ATTEMPTS \in Nat /\ MAX_ATTEMPTS >= 1
BY DeliveryAssumption DEF DeliveryAssumption, MAX_ATTEMPTS

LEMMA CallerSets ==
    ASSUME NEW S \in SUBSET Callers
    PROVE  IsFiniteSet(S) /\ Cardinality(S) \in Nat
<1>1. IsFiniteSet(S)
  BY DeliveryAssumption, FS_Subset DEF DeliveryAssumption
<1> QED BY <1>1, FS_CardinalityType

\* Sets of callers that differ in c only.
LEMMA Recount ==
    ASSUME NEW S \in SUBSET Callers, NEW T \in SUBSET Callers, NEW c \in Callers,
           \A u \in Callers \ {c} : u \in S <=> u \in T
    PROVE  Cardinality(T) + (IF c \in S THEN 1 ELSE 0) = Cardinality(S) + (IF c \in T THEN 1 ELSE 0)
<1>0. S \ {c} \in SUBSET Callers /\ IsFiniteSet(S \ {c}) /\ Cardinality(S \ {c}) \in Nat
  BY CallerSets
<1>1. T \ {c} = S \ {c} /\ c \notin S \ {c}
  OBVIOUS
<1>2. Cardinality((S \ {c}) \cup {c}) = Cardinality(S \ {c}) + 1
  BY <1>0, <1>1, FS_AddElement
<1>3. Cardinality(S) = Cardinality(S \ {c}) + (IF c \in S THEN 1 ELSE 0)
  <2>1. CASE c \in S
    <3>1. S = (S \ {c}) \cup {c}
      BY <2>1
    <3> QED BY <1>0, <1>2, <2>1, <3>1
  <2>2. CASE c \notin S
    <3>1. S = S \ {c}
      BY <2>2
    <3>2. Cardinality(S) = Cardinality(S \ {c})
      BY <3>1
    <3> QED BY <1>0, <2>2, <3>2
  <2> QED BY <2>1, <2>2
<1>4. Cardinality(T) = Cardinality(S \ {c}) + (IF c \in T THEN 1 ELSE 0)
  <2>1. CASE c \in T
    <3>1. T = (S \ {c}) \cup {c}
      BY <1>1, <2>1
    <3> QED BY <1>0, <1>2, <2>1, <3>1
  <2>2. CASE c \notin T
    <3>1. T = S \ {c}
      BY <1>1, <2>2
    <3> QED BY <1>0, <2>2, <3>1
  <2> QED BY <2>1, <2>2
<1> QED BY <1>0, <1>3, <1>4

LEMMA CountsAreNatural ==
    ASSUME NEW d \in Deliveries
    PROVE  /\ Cardinality(Busy(d)) \in Nat /\ Cardinality(Able(d)) \in Nat /\ Cardinality(Hopeful(d)) \in Nat
           /\ (Cardinality(Busy(d)) \in Nat)' /\ (Cardinality(Able(d)) \in Nat)' /\ (Cardinality(Hopeful(d)) \in Nat)'
<1>1. /\ Busy(d) \in SUBSET Callers /\ Able(d) \in SUBSET Callers /\ Hopeful(d) \in SUBSET Callers
      /\ (Busy(d) \in SUBSET Callers)' /\ (Able(d) \in SUBSET Callers)' /\ (Hopeful(d) \in SUBSET Callers)'
  BY DEF Busy, Able, Hopeful
<1> QED BY <1>1, CallerSets

LEMMA Naturals ==
    ASSUME Shapes, NEW d \in Deliveries
    PROVE  /\ retries[d] \in Nat /\ sends[d] \in Nat /\ manual[d] \in Nat /\ crashes \in Nat
           /\ hiccups \in Nat /\ Owed(d) \in Nat /\ row[d].attempts \in Nat
BY DeliveryAssumption DEF DeliveryAssumption, Shapes, Owed

\* An attempt that goes from one state to another counts as what it becomes.
LEMMA AttemptMoves ==
    ASSUME Shapes, NEW c \in Callers, NEW n \in States, attempt' = [attempt EXCEPT ![c] = n],
           NEW d \in Deliveries, Exists(d)' = Exists(d)
    PROVE  /\ Cardinality(Busy(d))' + (IF On(attempt[c], d) THEN 1 ELSE 0)
                = Cardinality(Busy(d)) + (IF On(n, d) THEN 1 ELSE 0)
           /\ Cardinality(Able(d))' + (IF Young(attempt[c], d) THEN 1 ELSE 0)
                = Cardinality(Able(d)) + (IF Young(n, d) THEN 1 ELSE 0)
           /\ Cardinality(Hopeful(d))' + (IF Hopes(attempt[c], d, Exists(d)) THEN 1 ELSE 0)
                = Cardinality(Hopeful(d)) + (IF Hopes(n, d, Exists(d)) THEN 1 ELSE 0)
<1>0. \A u \in Callers : attempt'[u] = IF u = c THEN n ELSE attempt[u]
  BY DEF Shapes
<1>1. Cardinality(Busy(d))' + (IF On(attempt[c], d) THEN 1 ELSE 0)
         = Cardinality(Busy(d)) + (IF On(n, d) THEN 1 ELSE 0)
  <2>1. /\ Busy(d) \in SUBSET Callers /\ Busy(d)' \in SUBSET Callers
        /\ \A u \in Callers \ {c} : u \in Busy(d) <=> u \in Busy(d)'
        /\ (c \in Busy(d) <=> On(attempt[c], d)) /\ (c \in Busy(d)' <=> On(n, d))
    BY <1>0 DEF Busy, On
  <2>2. Cardinality(Busy(d)') + (IF c \in Busy(d) THEN 1 ELSE 0)
            = Cardinality(Busy(d)) + (IF c \in Busy(d)' THEN 1 ELSE 0)
    BY <2>1, Recount
  <2> QED BY <2>1, <2>2
<1>2. Cardinality(Able(d))' + (IF Young(attempt[c], d) THEN 1 ELSE 0)
         = Cardinality(Able(d)) + (IF Young(n, d) THEN 1 ELSE 0)
  <2>1. /\ Able(d) \in SUBSET Callers /\ Able(d)' \in SUBSET Callers
        /\ \A u \in Callers \ {c} : u \in Able(d) <=> u \in Able(d)'
        /\ (c \in Able(d) <=> Young(attempt[c], d)) /\ (c \in Able(d)' <=> Young(n, d))
    BY <1>0 DEF Able, Young, On
  <2>2. Cardinality(Able(d)') + (IF c \in Able(d) THEN 1 ELSE 0)
            = Cardinality(Able(d)) + (IF c \in Able(d)' THEN 1 ELSE 0)
    BY <2>1, Recount
  <2> QED BY <2>1, <2>2
<1>3. Cardinality(Hopeful(d))' + (IF Hopes(attempt[c], d, Exists(d)) THEN 1 ELSE 0)
         = Cardinality(Hopeful(d)) + (IF Hopes(n, d, Exists(d)) THEN 1 ELSE 0)
  <2>1. /\ Hopeful(d) \in SUBSET Callers /\ Hopeful(d)' \in SUBSET Callers
        /\ \A u \in Callers \ {c} : u \in Hopeful(d) <=> u \in Hopeful(d)'
        /\ (c \in Hopeful(d) <=> Hopes(attempt[c], d, Exists(d)))
        /\ (c \in Hopeful(d)' <=> Hopes(n, d, Exists(d)))
    BY <1>0 DEF Hopeful, Hopes, On
  <2>2. Cardinality(Hopeful(d)') + (IF c \in Hopeful(d) THEN 1 ELSE 0)
            = Cardinality(Hopeful(d)) + (IF c \in Hopeful(d)' THEN 1 ELSE 0)
    BY <2>1, Recount
  <2> QED BY <2>1, <2>2
<1> QED BY <1>1, <1>2, <1>3

\* A step leaves the deliveries alone whose row, retries and attempts it leaves alone.
LEMMA Untouched ==
    ASSUME Shapes, Shapes', NEW d \in Deliveries, Counted(d),
           row'[d] = row[d], retries'[d] = retries[d], sends'[d] = sends[d], manual'[d] = manual[d],
           hiccups' >= hiccups, crashes' >= crashes,
           \A u \in Callers : \/ attempt'[u] = attempt[u]
                              \/ ~On(attempt[u], d) /\ ~On(attempt'[u], d)
    PROVE  Counted(d)'
<1>1. Busy(d)' = Busy(d) /\ Able(d)' = Able(d) /\ Hopeful(d)' = Hopeful(d)
  BY DEF Busy, Able, Hopeful, Young, Hopes, On, Exists
<1>2. Owed(d)' >= Owed(d)
  BY Naturals DEF Owed, Shapes
<1>3. /\ row[d].attempts \in Nat /\ retries[d] \in Nat /\ sends[d] \in Nat /\ hiccups \in Nat /\ hiccups' \in Nat
      /\ Owed(d) \in Nat /\ Owed(d)' \in Nat /\ MAX_ATTEMPTS \in Nat
      /\ Cardinality(Busy(d)) \in Nat /\ Cardinality(Able(d)) \in Nat /\ Cardinality(Hopeful(d)) \in Nat
  <2>1. Owed(d)' \in Nat /\ hiccups' \in Nat
    BY DeliveryAssumption DEF DeliveryAssumption, Shapes, Owed
  <2> QED BY <2>1, Naturals, CountsAreNatural, MaxIsPositive
<1>4. \A n \in Nat : Spent(n, d) => (n >= MAX_ATTEMPTS => n + Cardinality(Able(d)') + retries'[d] <= MAX_ATTEMPTS + Owed(d)')
  BY <1>1, <1>2, <1>3 DEF Spent
<1>5. Spent(row[d].attempts, d)'
  BY <1>3, <1>4 DEF Counted, Spent
<1>6. ASSUME NEW u \in Callers, On(attempt'[u], d)
      PROVE  Spent(attempt[u].no, d)'
  <2>1. attempt'[u] = attempt[u] /\ On(attempt[u], d) /\ attempt[u].no \in Nat
    BY <1>6 DEF Shapes, States, On
  <2> QED BY <1>4, <2>1 DEF Counted, Spent
<1>7. Unborn(d)' /\ (Chains(d) <= 1 + Owed(d))'
  BY <1>1, <1>2, <1>3 DEF Counted, Unborn, Chains
<1>8. (sends[d] + Cardinality(Hopeful(d)) + retries[d] <= 1 + Owed(d) + hiccups)'
  BY <1>1, <1>2, <1>3 DEF Counted
<1> QED BY <1>5, <1>6, <1>7, <1>8 DEF Counted

\* The accounts of a delivery still balance after a step of one of its attempts
\* that earns no more attempts, retries and sends than it spends.
LEMMA Balanced ==
    ASSUME Shapes, Shapes', NEW d \in Deliveries, Counted(d),
           NEW c \in Callers, NEW n \in States, attempt' = [attempt EXCEPT ![c] = n],
           Exists(d)' = Exists(d), row'[d].status # "none",
           Owed(d)' >= Owed(d),
           retries'[d] + (IF On(n, d) THEN 1 ELSE 0) + Owed(d)
               <= retries[d] + (IF On(attempt[c], d) THEN 1 ELSE 0) + Owed(d)',
           retries'[d] + (IF Young(n, d) THEN 1 ELSE 0) + Owed(d)
               <= retries[d] + (IF Young(attempt[c], d) THEN 1 ELSE 0) + Owed(d)',
           sends'[d] + retries'[d] + (IF Hopes(n, d, Exists(d)) THEN 1 ELSE 0) + Owed(d) + hiccups
               <= sends[d] + retries[d] + (IF Hopes(attempt[c], d, Exists(d)) THEN 1 ELSE 0) + Owed(d)' + hiccups',
           \/ row'[d].attempts = row[d].attempts
           \/ On(attempt[c], d) /\ row'[d].attempts = attempt[c].no,
           On(n, d) => \/ n.no < MAX_ATTEMPTS
                       \/ On(attempt[c], d) /\ n.no = attempt[c].no
                       \/ Young(attempt[c], d) /\ n.no = row[d].attempts + 1 /\ retries'[d] = retries[d]
    PROVE  Counted(d)'
<1> DEFINE B == Cardinality(Busy(d))   A == Cardinality(Able(d))   H == Cardinality(Hopeful(d))
           r == retries[d]   o == Owed(d)
<1>1. /\ B \in Nat /\ A \in Nat /\ H \in Nat /\ r \in Nat /\ o \in Nat /\ sends[d] \in Nat /\ hiccups \in Nat
      /\ B' \in Nat /\ A' \in Nat /\ H' \in Nat /\ r' \in Nat /\ o' \in Nat /\ sends'[d] \in Nat /\ hiccups' \in Nat
      /\ row[d].attempts \in Nat /\ row'[d].attempts \in Nat /\ MAX_ATTEMPTS \in Nat
  <2>1. /\ retries'[d] \in Nat /\ sends'[d] \in Nat /\ hiccups' \in Nat /\ Owed(d)' \in Nat /\ row'[d].attempts \in Nat
    BY DeliveryAssumption DEF DeliveryAssumption, Shapes, Owed
  <2> QED BY <2>1, Naturals, CountsAreNatural, MaxIsPositive
<1>2. /\ B' + (IF On(attempt[c], d) THEN 1 ELSE 0) = B + (IF On(n, d) THEN 1 ELSE 0)
      /\ A' + (IF Young(attempt[c], d) THEN 1 ELSE 0) = A + (IF Young(n, d) THEN 1 ELSE 0)
      /\ H' + (IF Hopes(attempt[c], d, Exists(d)) THEN 1 ELSE 0) = H + (IF Hopes(n, d, Exists(d)) THEN 1 ELSE 0)
  BY AttemptMoves
<1>3. A <= B
  <2>1. Able(d) \in SUBSET Busy(d) /\ IsFiniteSet(Busy(d))
    BY CallerSets DEF Able, Busy, Young, On
  <2> QED BY <2>1, FS_Subset
<1>4. B + r <= 1 + o /\ sends[d] + H + r <= 1 + o + hiccups
  BY DEF Counted, Chains
<1>5. \A k \in Nat : Spent(k, d) => (k >= MAX_ATTEMPTS => k + A + r <= MAX_ATTEMPTS + o)
  BY DEF Spent
<1>6. A' + r' + o <= A + r + o'
  <2> QED BY <1>1, <1>2
<1>7. B' + r' <= 1 + o' /\ sends'[d] + H' + r' <= 1 + o' + hiccups'
  <2>1. r' + (IF On(n, d) THEN 1 ELSE 0) + o <= r + (IF On(attempt[c], d) THEN 1 ELSE 0) + o'
    OBVIOUS
  <2>2. sends'[d] + r' + (IF Hopes(n, d, Exists(d)) THEN 1 ELSE 0) + o + hiccups
               <= sends[d] + r + (IF Hopes(attempt[c], d, Exists(d)) THEN 1 ELSE 0) + o' + hiccups'
    OBVIOUS
  <2> QED BY <1>1, <1>2, <1>4, <2>1, <2>2
<1>8. \A k \in Nat : Spent(k, d) => Spent(k, d)'
  <2>1. \A k \in Nat : Spent(k, d)' <=> (k >= MAX_ATTEMPTS => k + A' + r' <= MAX_ATTEMPTS + o')
    BY DEF Spent
  <2> QED BY <1>1, <1>5, <1>6, <2>1
<1>9. \A u \in Callers : On(attempt[u], d) => attempt[u].no \in Nat /\ Spent(attempt[u].no, d)
  BY DEF Counted, Shapes, States, On
<1>10. Spent(row[d].attempts, d)'
  <2>1. Spent(row[d].attempts, d)
    BY DEF Counted
  <2>2. \E k \in Nat : row'[d].attempts = k /\ Spent(k, d)
    BY <1>1, <1>9, <2>1
  <2>3. PICK k \in Nat : row'[d].attempts = k /\ Spent(k, d)
    BY <2>2
  <2>4. Spent(k, d)'
    BY <1>8, <2>3
  <2> QED BY <2>3, <2>4 DEF Spent
<1>11. ASSUME On(n, d) PROVE Spent(n.no, d)'
  <2>0. n.no \in Nat
    BY <1>11 DEF On, States
  <2>1. Spent(n.no, d)' <=> (n.no >= MAX_ATTEMPTS => n.no + A' + r' <= MAX_ATTEMPTS + o')
    BY DEF Spent
  <2>2. CASE n.no < MAX_ATTEMPTS
    BY <1>1, <2>0, <2>1, <2>2
  <2>3. CASE On(attempt[c], d) /\ n.no = attempt[c].no
    BY <1>8, <1>9, <2>0, <2>3
  <2>4. CASE Young(attempt[c], d) /\ n.no = row[d].attempts + 1 /\ retries'[d] = retries[d] /\ ~(n.no < MAX_ATTEMPTS)
    <3>1. ~Young(n, d) /\ On(attempt[c], d) /\ r' = r
      BY <2>4 DEF Young
    <3>2. A' + 1 = A
      <4> QED BY <1>1, <1>2, <2>4, <3>1
    <3>3. Spent(row[d].attempts, d)
      BY DEF Counted
    <3>4. row[d].attempts >= MAX_ATTEMPTS => row[d].attempts + A + r <= MAX_ATTEMPTS + o
      BY <1>1, <1>5, <3>3
    <3>5. o' >= o
      OBVIOUS
    <3> QED BY <1>1, <1>3, <1>4, <2>0, <2>1, <2>4, <3>1, <3>2, <3>4, <3>5
  <2> QED BY <1>11, <2>2, <2>3, <2>4
<1>12. ASSUME NEW u \in Callers, On(attempt'[u], d)
       PROVE  Spent(attempt[u].no, d)'
  <2>1. CASE u = c
    <3>1. attempt'[u] = n
      BY <2>1 DEF Shapes
    <3> QED BY <1>11, <1>12, <3>1 DEF Spent
  <2>2. CASE u # c
    <3>1. attempt'[u] = attempt[u]
      BY <2>2 DEF Shapes
    <3>2. PICK k \in Nat : attempt[u].no = k /\ Spent(k, d)
      BY <1>9, <1>12, <3>1
    <3>3. Spent(k, d)'
      BY <1>8, <3>2
    <3> QED BY <3>1, <3>2, <3>3 DEF Spent
  <2> QED BY <2>1, <2>2
<1>13. Unborn(d)'
  BY DEF Unborn
<1> QED BY <1>7, <1>10, <1>12, <1>13 DEF Counted, Chains

------------------------------------------------------------------------------
(* The shapes *)

LEMMA InitShapes == Init => Shapes
BY DeliveryAssumption DEF DeliveryAssumption, Init, Shapes, States, Idle

LEMMA ManyStages ==
    ASSUME NEW m \in States, m.stage # "idle"
    PROVE  /\ m \in [stage : {"load", "send", "sent", "retryable", "final", "schedule"},
                     of : Deliveries, by : Origins, no : Nat]
           /\ m # Idle /\ m.of \in Deliveries /\ m.no \in Nat
BY DEF States, Idle

LEMMA StepShapes == Shapes /\ [Next]_vars => Shapes'
<1> SUFFICES ASSUME Shapes, [Next]_vars PROVE Shapes'
  OBVIOUS
<1>0. MaxHiccups \in Nat /\ MaxCrashes \in Nat /\ MaxManual \in Nat /\ MAX_ATTEMPTS \in Nat /\ MAX_ATTEMPTS >= 1
  BY DeliveryAssumption, MaxIsPositive DEF DeliveryAssumption
<1> DEFINE Sound(n) == /\ n \in States
                       /\ n.stage = "load" => n.no = 0
                       /\ n.stage = "schedule" => n.no < MAX_ATTEMPTS
<1>1. ASSUME NEW c \in Callers, NEW n, Sound(n), attempt' = [attempt EXCEPT ![c] = n]
      PROVE  attempt' \in [Callers -> States] /\ \A u \in Callers : Sound(attempt'[u])
  BY <1>1 DEF Shapes
<1>e. ASSUME NEW d \in Deliveries, NEW k \in Nat, ending' = [ending EXCEPT ![d] = k]
      PROVE  ending' \in [Deliveries -> Nat]
  BY <1>e DEF Shapes
<1>f. ASSUME NEW c \in Callers, attempt[c].of \in Deliveries, Finish(c)
      PROVE  ending' \in [Deliveries -> Nat]
  <2>1. (IF attempt[c].by = "job" THEN ending[attempt[c].of] + 1 ELSE ending[attempt[c].of]) \in Nat
    BY <1>f DEF Shapes
  <2> QED BY <1>e, <1>f, <2>1 DEF Finish
<1>2. Sound(Idle) /\ \A d \in Deliveries, o \in Origins : Sound(Begin(d, o))
  BY <1>0 DEF Begin, States, Idle
<1>3. \A m \in States, st \in {"sent", "retryable", "final", "send"} :
          m.stage # "idle" => Sound([m EXCEPT !.stage = st])
  BY DEF States, Idle
<1>4. ASSUME NEW c \in Callers, NEW d \in Deliveries, Dispatch(c, d) \/ StartRetry(c, d) \/ ManualRetry(c, d)
      PROVE  Shapes'
  <2>1. attempt' \in [Callers -> States] /\ \A u \in Callers : Sound(attempt'[u])
    BY <1>1, <1>2, <1>4 DEF Dispatch, StartRetry, ManualRetry, Origins
  <2>2. retries[d] > 0 => retries[d] - 1 \in Nat
    BY DEF Shapes
  <2>3. CASE Dispatch(c, d)
    BY <2>1, <2>3 DEF Dispatch, Shapes, history
  <2>4. CASE StartRetry(c, d)
    BY <2>1, <2>2, <2>4 DEF StartRetry, Shapes, history
  <2>5. CASE ManualRetry(c, d)
    BY <1>0, <2>1, <2>5 DEF ManualRetry, Shapes
  <2> QED BY <1>4, <2>3, <2>4, <2>5
<1>5. ASSUME NEW c \in Callers, Load(c) PROVE Shapes'
  <2> DEFINE d == attempt[c].of
  <2>0. d \in Deliveries /\ attempt[c] \in States /\ attempt[c].stage # "idle" /\ row[d].attempts \in Nat
    BY <1>5, ManyStages DEF Load, Shapes
  <2>1. \A k \in Nat, st \in {"final", "send"} : Sound([attempt[c] EXCEPT !.no = k, !.stage = st])
    BY <2>0, ManyStages DEF States
  <2>2. \E n : Sound(n) /\ attempt' = [attempt EXCEPT ![c] = n]
    <3>1. CASE attempt' = [attempt EXCEPT ![c] = [attempt[c] EXCEPT !.no = NextNumber(row[d].attempts),
                                      !.stage = IF channel[d] = "inactive" THEN "final" ELSE "send"]]
      <4>1. NextNumber(row[d].attempts) \in Nat
        BY <2>0 DEF NextNumber
      <4>2. (IF channel[d] = "inactive" THEN "final" ELSE "send") \in {"final", "send"}
        OBVIOUS
      <4> HIDE DEF Sound, d
      <4>3. PICK k \in Nat, st \in {"final", "send"} :
                attempt' = [attempt EXCEPT ![c] = [attempt[c] EXCEPT !.no = k, !.stage = st]]
        BY <3>1, <4>1, <4>2, Zenon
      <4> QED BY <2>1, <4>3
    <3>2. CASE attempt' = [attempt EXCEPT ![c] = Idle]
      BY <1>2, <3>2
    <3> QED BY <1>5, <3>1, <3>2 DEF Load, Finish, Proceed
  <2>3. attempt' \in [Callers -> States] /\ \A u \in Callers : Sound(attempt'[u])
    BY <1>1, <2>2
  <2>4. ending' \in [Deliveries -> Nat]
    BY <1>5, <1>f, <2>0 DEF Load, Shapes
  <2> QED BY <1>0, <1>5, <2>3, <2>4 DEF Load, Shapes, history
<1>6. ASSUME NEW c \in Callers, Send(c) PROVE Shapes'
  <2>0. attempt[c].of \in Deliveries /\ attempt[c] \in States /\ attempt[c].stage # "idle"
    BY <1>6, ManyStages DEF Send, Shapes
  <2>1. \E n : Sound(n) /\ attempt' = [attempt EXCEPT ![c] = n]
    BY <1>3, <1>6, <2>0 DEF Send, Finish, Proceed
  <2>2. attempt' \in [Callers -> States] /\ \A u \in Callers : Sound(attempt'[u])
    BY <1>1, <2>1
  <2>3. ending' = ending
    BY <1>6 DEF Send, Proceed
  <2> QED BY <1>0, <1>6, <2>0, <2>2, <2>3 DEF Send, Shapes
<1>7. ASSUME NEW c \in Callers, RecordSent(c) PROVE Shapes'
  <2>0. attempt[c].of \in Deliveries /\ attempt[c] \in States /\ attempt[c].stage # "idle" /\ attempt[c].no \in Nat
    BY <1>7, ManyStages DEF RecordSent, Shapes
  <2>1. \E n : Sound(n) /\ attempt' = [attempt EXCEPT ![c] = n]
    BY <1>2, <1>3, <1>7, <2>0 DEF RecordSent, Finish, Proceed
  <2>2. attempt' \in [Callers -> States] /\ \A u \in Callers : Sound(attempt'[u])
    BY <1>1, <2>1
  <2>3. ending' \in [Deliveries -> Nat]
    BY <1>7, <1>f, <2>0 DEF RecordSent, Proceed, Shapes
  <2> QED BY <1>0, <1>7, <2>0, <2>2, <2>3 DEF RecordSent, Shapes, history
<1>8. ASSUME NEW c \in Callers, MarkFailed(c) PROVE Shapes'
  <2>0. attempt[c].of \in Deliveries /\ attempt[c] \in States /\ attempt[c].stage # "idle" /\ attempt[c].no \in Nat
    BY <1>8, ManyStages DEF MarkFailed, Shapes
  <2>1. ~Terminal(attempt[c]) => Sound([attempt[c] EXCEPT !.stage = "schedule"])
    BY <1>0, <2>0, ManyStages DEF Terminal, States
  <2>2. \E n : Sound(n) /\ attempt' = [attempt EXCEPT ![c] = n]
    BY <1>2, <1>8, <2>0, <2>1 DEF MarkFailed, Finish, Proceed
  <2>3. attempt' \in [Callers -> States] /\ \A u \in Callers : Sound(attempt'[u])
    BY <1>1, <2>2
  <2>4. refused' \in [Deliveries -> BOOLEAN]
    <3>1. \/ refused' = refused
          \/ \E b \in BOOLEAN : refused' = [refused EXCEPT ![attempt[c].of] = b]
      BY <1>8, <2>0 DEF MarkFailed, Shapes
    <3> QED BY <2>0, <3>1 DEF Shapes
  <2>5. row' \in [Deliveries -> [status : {"none", "PENDING", "SENT", "FAILED", "gone"}, attempts : Nat]]
    BY <1>8, <2>0 DEF MarkFailed, Shapes
  <2>6. hiccups' \in 0..MaxHiccups
    BY <1>0, <1>8 DEF MarkFailed, Shapes
  <2>7. UNCHANGED <<channel, retries, sends, manual, crashes>>
    BY <1>8 DEF MarkFailed
  <2>8. ending' \in [Deliveries -> Nat]
    BY <1>8, <1>f, <2>0 DEF MarkFailed, Proceed, Shapes
  <2> QED BY <2>3, <2>4, <2>5, <2>6, <2>7, <2>8 DEF Shapes
<1>9. ASSUME NEW c \in Callers, ScheduleRetry(c) PROVE Shapes'
  <2>0. attempt[c].of \in Deliveries
    BY <1>9, ManyStages DEF ScheduleRetry, Shapes
  <2>1. attempt' \in [Callers -> States] /\ \A u \in Callers : Sound(attempt'[u])
    BY <1>1, <1>2, <1>9 DEF ScheduleRetry, Finish, Proceed
  <2>2. ending' \in [Deliveries -> Nat]
    BY <1>9, <1>f, <2>0 DEF ScheduleRetry
  <2> QED BY <1>0, <1>9, <2>0, <2>1, <2>2 DEF ScheduleRetry, Shapes, history, OneMore
<1>10. ASSUME NEW c \in Callers, Crash(c) PROVE Shapes'
  <2>0. attempt[c].of \in Deliveries
    BY <1>10 DEF Crash, Shapes, States
  <2>1. attempt' \in [Callers -> States] /\ \A u \in Callers : Sound(attempt'[u])
    BY <1>1, <1>2, <1>10 DEF Crash
  <2> QED BY <1>0, <1>10, <2>0, <2>1 DEF Crash, Shapes, history
<1>11. ASSUME NEW d \in Deliveries, SwitchChannel(d) \/ Cascade(d) PROVE Shapes'
  <2>1. CASE SwitchChannel(d)
    BY <2>1 DEF SwitchChannel, Shapes, history
  <2>2. CASE Cascade(d)
    BY <2>2 DEF Cascade, Shapes, history
  <2> QED BY <1>11, <2>1, <2>2
<1>13. ASSUME NEW d \in Deliveries, Complete(d) \/ CrashAtEnd(d) PROVE Shapes'
  <2>1. ending[d] - 1 \in Nat /\ retries[d] + 1 \in Nat
    BY <1>13 DEF Complete, CrashAtEnd, Shapes
  <2>2. ending' \in [Deliveries -> Nat]
    BY <1>13, <1>e, <2>1 DEF Complete, CrashAtEnd
  <2>3. CASE Complete(d)
    BY <2>2, <2>3 DEF Complete, Shapes, history
  <2>4. CASE CrashAtEnd(d)
    BY <1>0, <2>1, <2>2, <2>4 DEF CrashAtEnd, Shapes, history
  <2> QED BY <1>13, <2>3, <2>4
<1>12. ASSUME UNCHANGED vars PROVE Shapes'
  BY <1>12 DEF vars, history, Shapes
<1> QED BY <1>4, <1>5, <1>6, <1>7, <1>8, <1>9, <1>10, <1>11, <1>12, <1>13 DEF Next, AttemptStep

------------------------------------------------------------------------------
(* The counts *)

LEMMA InitCounts == Init => \A d \in Deliveries : Counted(d)
<1> SUFFICES ASSUME Init, NEW d \in Deliveries PROVE Counted(d)
  OBVIOUS
<1>1. Busy(d) = {} /\ Able(d) = {} /\ Hopeful(d) = {} /\ \A c \in Callers : ~On(attempt[c], d)
  BY DEF Init, Busy, Able, Hopeful, Young, Hopes, On
<1>2. Cardinality({}) = 0
  BY FS_EmptySet
<1>3. row[d].attempts = 0 /\ retries[d] = 0 /\ sends[d] = 0 /\ Owed(d) = 0 /\ hiccups = 0
  BY DEF Init, Owed
<1> QED BY <1>1, <1>2, <1>3, MaxIsPositive DEF Counted, Unborn, Chains, Spent

\* What an attempt in each state counts for.
LEMMA StateCounts ==
    ASSUME NEW d \in Deliveries
    PROVE  /\ ~On(Idle, d) /\ ~Young(Idle, d) /\ \A e \in BOOLEAN : ~Hopes(Idle, d, e)
           /\ \A o \in Origins : LET n == Begin(d, o)
                                 IN /\ n \in States /\ n # Idle /\ n.of = d /\ n.no = 0
                                    /\ On(n, d) /\ Young(n, d) /\ \A e \in BOOLEAN : Hopes(n, d, e)
<1>1. ~On(Idle, d)
  BY DEF On
<1>2. \A o \in Origins : LET n == Begin(d, o)
                         IN n \in States /\ n # Idle /\ n.of = d /\ n.no = 0 /\ n.stage = "load"
  BY DEF Begin, States, Idle
<1> QED BY <1>1, <1>2, MaxIsPositive DEF Young, Hopes, On

LEMMA DispatchCounts ==
    ASSUME DeliveryInv, Shapes', NEW c \in Callers, NEW d \in Deliveries, Dispatch(c, d)
    PROVE  \A e \in Deliveries : Counted(e)'
<1>0. Shapes /\ Counted(d) /\ attempt[c] = Idle /\ row[d].status = "none"
  BY DEF DeliveryInv, Dispatch
<1>1. ASSUME NEW e \in Deliveries, e # d PROVE Counted(e)'
  <2>1. \A u \in Callers : \/ attempt'[u] = attempt[u]
                           \/ ~On(attempt[u], e) /\ ~On(attempt'[u], e)
    <3>1. attempt'[c] = Begin(d, "dispatch") /\ \A u \in Callers \ {c} : attempt'[u] = attempt[u]
      BY <1>0 DEF Dispatch, Shapes
    <3>2. ~On(attempt[c], e) /\ ~On(attempt'[c], e)
      BY <1>0, <1>1, <3>1 DEF On, Begin
    <3> QED BY <3>1, <3>2
  <2>2. row'[e] = row[e] /\ UNCHANGED <<retries, sends, manual, hiccups, crashes>>
    BY <1>0, <1>1 DEF Dispatch, Shapes, history
  <2>3. hiccups \in Nat /\ crashes \in Nat /\ Counted(e)
    BY <1>0, Naturals DEF DeliveryInv
  <2> QED BY <1>0, <2>1, <2>2, <2>3, Untouched
<1>2. Counted(d)'
  <2>1. Busy(d) = {} /\ retries[d] = 0 /\ sends[d] = 0 /\ row[d].attempts = 0
    BY <1>0 DEF Counted, Unborn
  <2>2. LET n == Begin(d, "dispatch")
        IN /\ \A u \in Callers : attempt'[u] = IF u = c THEN n ELSE attempt[u]
           /\ n # Idle /\ n.of = d /\ n.no = 0 /\ Young(n, d) /\ Hopes(n, d, TRUE)
    <3>1. /\ Begin(d, "dispatch") # Idle /\ Begin(d, "dispatch").of = d /\ Begin(d, "dispatch").no = 0
          /\ Young(Begin(d, "dispatch"), d) /\ Hopes(Begin(d, "dispatch"), d, TRUE)
      BY StateCounts DEF Origins
    <3>2. \A u \in Callers : attempt'[u] = IF u = c THEN Begin(d, "dispatch") ELSE attempt[u]
      BY <1>0 DEF Dispatch, Shapes
    <3> QED BY <3>1, <3>2
  <2>3. retries' = retries /\ sends' = sends /\ manual' = manual /\ hiccups' = hiccups /\ crashes' = crashes
    BY DEF Dispatch, history
  <2>4. row'[d].status = "PENDING" /\ row'[d].attempts = 0
    BY <1>0, <2>1 DEF Dispatch, Shapes
  <2>5. Busy(d)' = {c} /\ Able(d)' = {c}
    BY <2>1, <2>2 DEF Busy, Able, Young, On
  <2>6. Hopeful(d)' = {c}
    BY <2>1, <2>2, <2>4 DEF Busy, Hopeful, Hopes, On, Exists
  <2>7. Cardinality({c}) = 1
    BY FS_Singleton
  <2>8. /\ Cardinality(Busy(d))' = 1 /\ Cardinality(Able(d))' = 1 /\ Cardinality(Hopeful(d))' = 1
    BY <2>5, <2>6, <2>7
  <2>9. /\ \A u \in Callers : On(attempt'[u], d) => attempt'[u].no = 0
        /\ (\A k : Spent(k, d)' <=> (k >= MAX_ATTEMPTS => k + 1 + retries'[d] <= MAX_ATTEMPTS + Owed(d)'))
    BY <2>1, <2>2, <2>8 DEF Busy, On, Spent
  <2>10. Owed(d)' = Owed(d) /\ Owed(d) \in Nat /\ hiccups \in Nat
    BY <1>0, <2>3, Naturals DEF Owed
  <2>11. Spent(0, d)'
    BY <2>9, <2>1, MaxIsPositive
  <2>12. Unborn(d)'
    BY <2>4 DEF Unborn
  <2>13. (Chains(d) <= 1 + Owed(d))' /\ (sends[d] + Cardinality(Hopeful(d)) + retries[d] <= 1 + Owed(d) + hiccups)'
    BY <2>1, <2>3, <2>8, <2>10 DEF Chains
  <2>14. Spent(row[d].attempts, d)' /\ \A u \in Callers : On(attempt'[u], d) => Spent(attempt[u].no, d)'
    BY <2>4, <2>9, <2>11 DEF Spent
  <2> QED BY <2>12, <2>13, <2>14 DEF Counted
<1> QED BY <1>1, <1>2

\* A step of caller c about delivery d leaves the others as they were.
LEMMA OthersKeep ==
    ASSUME DeliveryInv, Shapes', NEW c \in Callers, NEW d \in Deliveries, NEW n \in States,
           attempt' = [attempt EXCEPT ![c] = n],
           attempt[c] = Idle \/ attempt[c].of = d, n = Idle \/ n.of = d,
           \A e \in Deliveries \ {d} : /\ row'[e] = row[e] /\ retries'[e] = retries[e]
                                       /\ sends'[e] = sends[e] /\ manual'[e] = manual[e],
           hiccups' >= hiccups, crashes' >= crashes,
           Counted(d)'
    PROVE  \A e \in Deliveries : Counted(e)'
<1> SUFFICES ASSUME NEW e \in Deliveries, e # d PROVE Counted(e)'
  OBVIOUS
<1>1. \A u \in Callers : \/ attempt'[u] = attempt[u]
                         \/ ~On(attempt[u], e) /\ ~On(attempt'[u], e)
  BY DEF On, DeliveryInv, Shapes
<1> QED BY <1>1, Untouched DEF DeliveryInv

LEMMA StartRetryCounts ==
    ASSUME DeliveryInv, Shapes', NEW c \in Callers, NEW d \in Deliveries, StartRetry(c, d)
    PROVE  \A e \in Deliveries : Counted(e)'
<1> DEFINE n == Begin(d, "job")
<1>0. /\ Shapes /\ Counted(d) /\ attempt[c] = Idle /\ attempt' = [attempt EXCEPT ![c] = n]
      /\ retries' = [retries EXCEPT ![d] = retries[d] - 1] /\ retries[d] > 0
      /\ UNCHANGED <<row, channel, sends, refused, manual, hiccups, crashes>>
  BY DEF DeliveryInv, StartRetry, history
<1>1. /\ n \in States /\ n.of = d /\ n.no = 0 /\ On(n, d) /\ Young(n, d) /\ Hopes(n, d, Exists(d))
      /\ ~On(Idle, d) /\ ~Young(Idle, d) /\ ~Hopes(Idle, d, Exists(d))
  BY StateCounts DEF Origins, Exists
<1>2. /\ hiccups \in Nat /\ crashes \in Nat /\ Owed(d) \in Nat /\ retries[d] \in Nat /\ sends[d] \in Nat
      /\ MAX_ATTEMPTS \in Nat /\ MAX_ATTEMPTS >= 1
  BY <1>0, Naturals, MaxIsPositive
<1>3. /\ retries'[d] = retries[d] - 1 /\ Owed(d)' = Owed(d) /\ Exists(d)' = Exists(d)
      /\ \A e \in Deliveries \ {d} : retries'[e] = retries[e]
  BY <1>0 DEF Owed, Exists, Shapes
<1>4. row[d].status # "none"
  BY <1>0, <1>2 DEF Counted, Unborn
<1>5. Counted(d)'
  <2> HIDE DEF n
  <2>1. /\ retries'[d] + (IF On(n, d) THEN 1 ELSE 0) + Owed(d)
             <= retries[d] + (IF On(attempt[c], d) THEN 1 ELSE 0) + Owed(d)'
        /\ retries'[d] + (IF Young(n, d) THEN 1 ELSE 0) + Owed(d)
             <= retries[d] + (IF Young(attempt[c], d) THEN 1 ELSE 0) + Owed(d)'
        /\ sends'[d] + retries'[d] + (IF Hopes(n, d, Exists(d)) THEN 1 ELSE 0) + Owed(d) + hiccups
             <= sends[d] + retries[d] + (IF Hopes(attempt[c], d, Exists(d)) THEN 1 ELSE 0) + Owed(d)' + hiccups'
    BY <1>0, <1>1, <1>2, <1>3
  <2>2. row'[d].status # "none" /\ row'[d].attempts = row[d].attempts /\ n.no < MAX_ATTEMPTS /\ Owed(d)' >= Owed(d)
    BY <1>0, <1>1, <1>2, <1>3, <1>4
  <2> QED BY <1>0, <1>1, <1>3, <2>1, <2>2, Balanced
<1>6. /\ \A e \in Deliveries \ {d} : /\ row'[e] = row[e] /\ retries'[e] = retries[e]
                                      /\ sends'[e] = sends[e] /\ manual'[e] = manual[e]
      /\ hiccups' >= hiccups /\ crashes' >= crashes
  BY <1>0, <1>2, <1>3
<1> HIDE DEF n
<1> QED BY <1>0, <1>1, <1>5, <1>6, OthersKeep

LEMMA ManualRetryCounts ==
    ASSUME DeliveryInv, Shapes', NEW c \in Callers, NEW d \in Deliveries, ManualRetry(c, d)
    PROVE  \A e \in Deliveries : Counted(e)'
<1> DEFINE n == Begin(d, "manual")
<1>0. /\ Shapes /\ Counted(d) /\ attempt[c] = Idle /\ attempt' = [attempt EXCEPT ![c] = n]
      /\ manual' = [manual EXCEPT ![d] = manual[d] + 1] /\ Exists(d)
      /\ UNCHANGED <<row, channel, retries, sends, refused, hiccups, crashes>>
  BY DEF DeliveryInv, ManualRetry
<1>1. /\ n \in States /\ n.of = d /\ n.no = 0 /\ On(n, d) /\ Young(n, d) /\ Hopes(n, d, Exists(d))
      /\ ~On(Idle, d) /\ ~Young(Idle, d) /\ ~Hopes(Idle, d, Exists(d))
  BY StateCounts DEF Origins, Exists
<1>2. /\ hiccups \in Nat /\ crashes \in Nat /\ Owed(d) \in Nat /\ retries[d] \in Nat /\ sends[d] \in Nat
      /\ manual[d] \in Nat /\ MAX_ATTEMPTS \in Nat /\ MAX_ATTEMPTS >= 1
  BY <1>0, Naturals, MaxIsPositive
<1>3. /\ Owed(d)' = Owed(d) + 1 /\ Exists(d)' = Exists(d)
      /\ \A e \in Deliveries \ {d} : manual'[e] = manual[e]
  BY <1>0, <1>2 DEF Owed, Exists, Shapes
<1>5. Counted(d)'
  <2> HIDE DEF n
  <2>1. /\ retries'[d] + (IF On(n, d) THEN 1 ELSE 0) + Owed(d)
             <= retries[d] + (IF On(attempt[c], d) THEN 1 ELSE 0) + Owed(d)'
        /\ retries'[d] + (IF Young(n, d) THEN 1 ELSE 0) + Owed(d)
             <= retries[d] + (IF Young(attempt[c], d) THEN 1 ELSE 0) + Owed(d)'
        /\ sends'[d] + retries'[d] + (IF Hopes(n, d, Exists(d)) THEN 1 ELSE 0) + Owed(d) + hiccups
             <= sends[d] + retries[d] + (IF Hopes(attempt[c], d, Exists(d)) THEN 1 ELSE 0) + Owed(d)' + hiccups'
    BY <1>0, <1>1, <1>2, <1>3
  <2>2. row'[d].status # "none" /\ row'[d].attempts = row[d].attempts /\ n.no < MAX_ATTEMPTS /\ Owed(d)' >= Owed(d)
    BY <1>0, <1>1, <1>2, <1>3 DEF Exists
  <2> QED BY <1>0, <1>1, <1>3, <2>1, <2>2, Balanced
<1>6. /\ \A e \in Deliveries \ {d} : /\ row'[e] = row[e] /\ retries'[e] = retries[e]
                                      /\ sends'[e] = sends[e] /\ manual'[e] = manual[e]
      /\ hiccups' >= hiccups /\ crashes' >= crashes
  BY <1>0, <1>2, <1>3
<1> HIDE DEF n
<1> QED BY <1>0, <1>1, <1>5, <1>6, OthersKeep

\* The attempt of c is under way: what is known of it and of its delivery.
LEMMA UnderWay ==
    ASSUME DeliveryInv, NEW c \in Callers, attempt[c].stage # "idle"
    PROVE  LET m == attempt[c]   d == attempt[c].of
           IN /\ m \in States /\ m # Idle /\ d \in Deliveries /\ m.no \in Nat /\ On(m, d)
              /\ Counted(d) /\ row[d].status # "none" /\ row[d].attempts \in Nat /\ Exists(d) \in BOOLEAN
              /\ ~On(Idle, d) /\ ~Young(Idle, d) /\ ~Hopes(Idle, d, Exists(d))
              /\ hiccups \in Nat /\ crashes \in Nat /\ Owed(d) \in Nat /\ retries[d] \in Nat /\ sends[d] \in Nat
              /\ MAX_ATTEMPTS \in Nat
<1> DEFINE m == attempt[c]   d == attempt[c].of
<1>1. m \in States /\ m # Idle /\ d \in Deliveries /\ m.no \in Nat
  BY ManyStages DEF DeliveryInv, Shapes
<1>2. On(m, d) /\ c \in Busy(d)
  BY <1>1 DEF On, Busy
<1>3. Counted(d) /\ row[d].status # "none"
  BY <1>1, <1>2 DEF DeliveryInv, Counted, Unborn
<1>4. ~On(Idle, d) /\ ~Young(Idle, d) /\ ~Hopes(Idle, d, Exists(d))
  BY <1>1, StateCounts DEF Exists
<1>5. /\ hiccups \in Nat /\ crashes \in Nat /\ Owed(d) \in Nat /\ retries[d] \in Nat /\ sends[d] \in Nat
      /\ MAX_ATTEMPTS \in Nat /\ row[d].attempts \in Nat
  BY <1>1, Naturals, MaxIsPositive DEF DeliveryInv
<1> QED BY <1>1, <1>2, <1>3, <1>4, <1>5 DEF Exists

\* Its next stage.
LEMMA NextStage ==
    ASSUME DeliveryInv, NEW c \in Callers, attempt[c].stage # "idle",
           NEW st \in {"load", "send", "sent", "retryable", "final", "schedule"},
           NEW d \in Deliveries, d = attempt[c].of
    PROVE  \E n \in States :
              /\ n = [attempt[c] EXCEPT !.stage = st]
              /\ n # Idle /\ n.stage = st /\ n.of = d /\ n.no = attempt[c].no
              /\ On(n, d) /\ (Young(n, d) <=> Young(attempt[c], d))
              /\ (Hopes(n, d, Exists(d)) <=> st # "sent" /\ (st = "retryable" => Exists(d)))
<1>1. /\ attempt[c] \in [stage : {"load", "send", "sent", "retryable", "final", "schedule"},
                         of : Deliveries, by : Origins, no : Nat]
      /\ On(attempt[c], d)
  BY ManyStages DEF DeliveryInv, Shapes, On
<1> DEFINE n == [attempt[c] EXCEPT !.stage = st]
<1>2. n \in States /\ n # Idle /\ n.stage = st /\ n.of = d /\ n.no = attempt[c].no
  BY <1>1 DEF States, Idle
<1> HIDE DEF n
<1>3. On(n, d) /\ (Young(n, d) <=> Young(attempt[c], d))
  BY <1>1, <1>2 DEF On, Young
<1>4. Hopes(n, d, Exists(d)) <=> st # "sent" /\ (st = "retryable" => Exists(d))
  BY <1>2, <1>3 DEF Hopes
<1> QED BY <1>2, <1>3, <1>4 DEF n

\* Between attempts of one delivery: what a step of c must not exceed.
LEMMA AttemptCounts ==
    ASSUME DeliveryInv, Shapes', NEW c \in Callers, attempt[c].stage # "idle",
           NEW d \in Deliveries, d = attempt[c].of,
           NEW n \in States, n = Idle \/ n.of = d, attempt' = [attempt EXCEPT ![c] = n],
           UNCHANGED manual, hiccups' >= hiccups, crashes' >= crashes,
           \/ row' = row
           \/ /\ Exists(d)
              /\ \E st \in {"SENT", "FAILED"} :
                     row' = [row EXCEPT ![d] = [status |-> st, attempts |-> attempt[c].no]],
           \A e \in Deliveries \ {d} : retries'[e] = retries[e] /\ sends'[e] = sends[e],
           retries'[d] + (IF On(n, d) THEN 1 ELSE 0) + crashes <= retries[d] + 1 + crashes',
           retries'[d] + (IF Young(n, d) THEN 1 ELSE 0) + crashes
               <= retries[d] + (IF Young(attempt[c], d) THEN 1 ELSE 0) + crashes',
           sends'[d] + retries'[d] + (IF Hopes(n, d, Exists(d)) THEN 1 ELSE 0) + crashes + hiccups
               <= sends[d] + retries[d] + (IF Hopes(attempt[c], d, Exists(d)) THEN 1 ELSE 0) + crashes' + hiccups',
           n # Idle => \/ n.no = attempt[c].no
                       \/ Young(attempt[c], d) /\ n.no = row[d].attempts + 1 /\ retries'[d] = retries[d]
    PROVE  \A e \in Deliveries : Counted(e)'
<1>1. /\ Shapes /\ Counted(d) /\ On(attempt[c], d) /\ row[d].status # "none"
      /\ hiccups \in Nat /\ crashes \in Nat /\ Owed(d) \in Nat /\ retries[d] \in Nat /\ sends[d] \in Nat
      /\ manual[d] \in Nat
  BY UnderWay, Naturals DEF DeliveryInv
<1>2. /\ retries'[d] \in Nat /\ sends'[d] \in Nat /\ hiccups' \in Nat /\ crashes' \in Nat
  BY DeliveryAssumption DEF DeliveryAssumption, Shapes
<1>3. Exists(d)' = Exists(d) /\ row'[d].status # "none"
  BY <1>1 DEF Exists, Shapes
<1>4. /\ row'[d].attempts = row[d].attempts \/ row'[d].attempts = attempt[c].no
      /\ \A e \in Deliveries \ {d} : row'[e] = row[e]
  BY <1>1 DEF Shapes
<1>5. Owed(d) = manual[d] + crashes /\ Owed(d)' = manual[d] + crashes'
  BY DEF Owed
<1>6. Counted(d)'
  <2>1. /\ Owed(d)' >= Owed(d)
        /\ retries'[d] + (IF On(n, d) THEN 1 ELSE 0) + Owed(d)
             <= retries[d] + (IF On(attempt[c], d) THEN 1 ELSE 0) + Owed(d)'
        /\ retries'[d] + (IF Young(n, d) THEN 1 ELSE 0) + Owed(d)
             <= retries[d] + (IF Young(attempt[c], d) THEN 1 ELSE 0) + Owed(d)'
        /\ sends'[d] + retries'[d] + (IF Hopes(n, d, Exists(d)) THEN 1 ELSE 0) + Owed(d) + hiccups
             <= sends[d] + retries[d] + (IF Hopes(attempt[c], d, Exists(d)) THEN 1 ELSE 0) + Owed(d)' + hiccups'
    BY <1>1, <1>2, <1>5
  <2>2. On(n, d) => n # Idle
    BY DEF On
  <2> QED BY <1>1, <1>3, <1>4, <2>1, <2>2, Balanced, ZenonT(60)
<1> QED BY <1>1, <1>4, <1>6, OthersKeep

LEMMA LoadCounts ==
    ASSUME DeliveryInv, Shapes', NEW c \in Callers, Load(c)
    PROVE  \A e \in Deliveries : Counted(e)'
<1>1. PICK d \in Deliveries : d = attempt[c].of
  BY UnderWay DEF Load
<1>2. /\ attempt[c] \in States /\ attempt[c] # Idle /\ On(attempt[c], d) /\ row[d].attempts \in Nat
      /\ hiccups \in Nat /\ crashes \in Nat /\ retries[d] \in Nat /\ sends[d] \in Nat
      /\ ~On(Idle, d) /\ ~Young(Idle, d) /\ ~Hopes(Idle, d, Exists(d))
  BY <1>1, UnderWay DEF Load
<1>3. attempt[c].no = 0 /\ Young(attempt[c], d) /\ Hopes(attempt[c], d, Exists(d))
  BY <1>2, MaxIsPositive DEF Load, DeliveryInv, Shapes, Young, Hopes
<1>4. ASSUME NEW n \in States, n = Idle \/ n.of = d, attempt' = [attempt EXCEPT ![c] = n], hiccups' >= hiccups,
             n # Idle => n.no = row[d].attempts + 1
      PROVE  \A e \in Deliveries : Counted(e)'
  <2>1. attempt[c].stage # "idle" /\ UNCHANGED manual /\ row' = row /\ crashes' >= crashes
    BY <1>2 DEF Load, history
  <2>2. /\ \A e \in Deliveries \ {d} : retries'[e] = retries[e] /\ sends'[e] = sends[e]
        /\ retries'[d] = retries[d] /\ sends'[d] = sends[d] /\ crashes' = crashes /\ hiccups' \in Nat
    BY DeliveryAssumption DEF DeliveryAssumption, Shapes, Load, history
  <2>3. /\ retries'[d] + (IF On(n, d) THEN 1 ELSE 0) + crashes <= retries[d] + 1 + crashes'
        /\ retries'[d] + (IF Young(n, d) THEN 1 ELSE 0) + crashes
               <= retries[d] + (IF Young(attempt[c], d) THEN 1 ELSE 0) + crashes'
        /\ sends'[d] + retries'[d] + (IF Hopes(n, d, Exists(d)) THEN 1 ELSE 0) + crashes + hiccups
               <= sends[d] + retries[d] + (IF Hopes(attempt[c], d, Exists(d)) THEN 1 ELSE 0) + crashes' + hiccups'
    BY <1>2, <1>3, <1>4, <2>2
  <2>4. n # Idle => Young(attempt[c], d) /\ n.no = row[d].attempts + 1 /\ retries'[d] = retries[d]
    BY <1>3, <1>4, <2>2
  <2> QED BY <1>1, <1>4, <2>1, <2>2, <2>3, <2>4, AttemptCounts, ZenonT(60)
<1>5. ASSUME NEW st \in {"final", "send"}, NEW k \in Nat, k = row[d].attempts + 1
      PROVE  LET n == [attempt[c] EXCEPT !.no = k, !.stage = st]
             IN n \in States /\ n # Idle /\ n.of = d /\ n.no = row[d].attempts + 1
  BY <1>1, <1>2, <1>5, ManyStages DEF Load, States, Idle
<1>6. \/ attempt' = [attempt EXCEPT ![c] = Idle] /\ hiccups' >= hiccups
      \/ /\ UNCHANGED hiccups
         /\ attempt' = [attempt EXCEPT ![c] = [attempt[c] EXCEPT !.no = NextNumber(row[d].attempts),
                                !.stage = IF channel[d] = "inactive" THEN "final" ELSE "send"]]
  BY <1>1, <1>2 DEF Load, Finish, Proceed
<1>7. CASE attempt' = [attempt EXCEPT ![c] = Idle] /\ hiccups' >= hiccups
  <2>1. Idle \in States
    BY DEF States
  <2> QED BY <1>4, <1>7, <2>1
<1>8. CASE /\ UNCHANGED hiccups
           /\ attempt' = [attempt EXCEPT ![c] = [attempt[c] EXCEPT !.no = NextNumber(row[d].attempts),
                                  !.stage = IF channel[d] = "inactive" THEN "final" ELSE "send"]]
  <2>1. (IF channel[d] = "inactive" THEN "final" ELSE "send") \in {"final", "send"}
    OBVIOUS
  <2>2. NextNumber(row[d].attempts) \in Nat /\ NextNumber(row[d].attempts) = row[d].attempts + 1
    BY <1>2 DEF NextNumber
  <2>3. PICK st \in {"final", "send"}, k \in Nat :
            k = row[d].attempts + 1 /\ attempt' = [attempt EXCEPT ![c] = [attempt[c] EXCEPT !.no = k, !.stage = st]]
    BY <1>8, <2>1, <2>2, Zenon
  <2> DEFINE n == [attempt[c] EXCEPT !.no = k, !.stage = st]
  <2>4. n \in States /\ n # Idle /\ n.of = d /\ n.no = row[d].attempts + 1 /\ attempt' = [attempt EXCEPT ![c] = n]
    BY <1>5, <2>3
  <2>5. hiccups' >= hiccups
    BY <1>2, <1>8
  <2> HIDE DEF n
  <2> QED BY <1>4, <2>4, <2>5
<1> QED BY <1>6, <1>7, <1>8

LEMMA SendCounts ==
    ASSUME DeliveryInv, Shapes', NEW c \in Callers, Send(c)
    PROVE  \A e \in Deliveries : Counted(e)'
<1>1. PICK d \in Deliveries : d = attempt[c].of
  BY UnderWay DEF Send
<1>2. /\ attempt[c] \in States /\ attempt[c] # Idle /\ On(attempt[c], d)
      /\ hiccups \in Nat /\ crashes \in Nat /\ retries[d] \in Nat /\ sends[d] \in Nat
  BY <1>1, UnderWay DEF Send
<1>3. Hopes(attempt[c], d, Exists(d))
  BY <1>2 DEF Send, Hopes
<1>4. PICK st \in {"sent", "retryable", "final"} :
          /\ attempt' = [attempt EXCEPT ![c] = [attempt[c] EXCEPT !.stage = st]]
          /\ sends' = IF st = "sent" THEN [sends EXCEPT ![d] = sends[d] + 1] ELSE sends
  BY <1>1, <1>2 DEF Send, Finish, Proceed
<1>5. PICK n \in States :
          /\ n = [attempt[c] EXCEPT !.stage = st]
          /\ n # Idle /\ n.of = d /\ n.no = attempt[c].no /\ On(n, d) /\ (Young(n, d) <=> Young(attempt[c], d))
          /\ (Hopes(n, d, Exists(d)) <=> st # "sent" /\ (st = "retryable" => Exists(d)))
  BY <1>1, NextStage DEF Send
<1>6. attempt' = [attempt EXCEPT ![c] = n]
  BY <1>4, <1>5
<1>7. /\ \A e \in Deliveries \ {d} : retries'[e] = retries[e] /\ sends'[e] = sends[e]
      /\ retries'[d] = retries[d] /\ sends'[d] = IF st = "sent" THEN sends[d] + 1 ELSE sends[d]
      /\ UNCHANGED <<row, manual, crashes, hiccups>>
  BY <1>2, <1>4 DEF DeliveryInv, Shapes, Send
<1>8. /\ retries'[d] + (IF On(n, d) THEN 1 ELSE 0) + crashes <= retries[d] + 1 + crashes'
      /\ retries'[d] + (IF Young(n, d) THEN 1 ELSE 0) + crashes
             <= retries[d] + (IF Young(attempt[c], d) THEN 1 ELSE 0) + crashes'
      /\ sends'[d] + retries'[d] + (IF Hopes(n, d, Exists(d)) THEN 1 ELSE 0) + crashes + hiccups
             <= sends[d] + retries[d] + (IF Hopes(attempt[c], d, Exists(d)) THEN 1 ELSE 0) + crashes' + hiccups'
  BY <1>2, <1>3, <1>5, <1>7
<1>9. attempt[c].stage # "idle" /\ hiccups' >= hiccups /\ crashes' >= crashes
  BY <1>2, <1>7 DEF Send
<1> QED BY <1>1, <1>5, <1>6, <1>7, <1>8, <1>9, AttemptCounts

LEMMA IdleIsState == Idle \in States
BY DEF States

\* An attempt that ends where it is costs nothing.
LEMMA EndCounts ==
    ASSUME DeliveryInv, Shapes', NEW c \in Callers, attempt[c].stage # "idle",
           NEW d \in Deliveries, d = attempt[c].of,
           NEW n \in States, n = Idle, attempt' = [attempt EXCEPT ![c] = n],
           \A e \in Deliveries : retries'[e] = retries[e] /\ sends'[e] = sends[e],
           UNCHANGED <<manual, crashes>>, hiccups' >= hiccups,
           \/ row' = row
           \/ /\ Exists(d)
              /\ \E st \in {"SENT", "FAILED"} :
                     row' = [row EXCEPT ![d] = [status |-> st, attempts |-> attempt[c].no]]
    PROVE  \A e \in Deliveries : Counted(e)'
<1>1. /\ ~On(n, d) /\ ~Young(n, d) /\ ~Hopes(n, d, Exists(d))
      /\ hiccups \in Nat /\ crashes \in Nat /\ retries[d] \in Nat /\ sends[d] \in Nat /\ hiccups' \in Nat
  <2>1. hiccups' \in Nat
    BY DeliveryAssumption DEF DeliveryAssumption, Shapes
  <2> QED BY <2>1, UnderWay
<1>2. /\ retries'[d] + (IF On(n, d) THEN 1 ELSE 0) + crashes <= retries[d] + 1 + crashes'
      /\ retries'[d] + (IF Young(n, d) THEN 1 ELSE 0) + crashes
             <= retries[d] + (IF Young(attempt[c], d) THEN 1 ELSE 0) + crashes'
      /\ sends'[d] + retries'[d] + (IF Hopes(n, d, Exists(d)) THEN 1 ELSE 0) + crashes + hiccups
             <= sends[d] + retries[d] + (IF Hopes(attempt[c], d, Exists(d)) THEN 1 ELSE 0) + crashes' + hiccups'
  BY <1>1
<1>3. /\ \A e \in Deliveries \ {d} : retries'[e] = retries[e] /\ sends'[e] = sends[e]
      /\ crashes' >= crashes /\ UNCHANGED manual
  BY <1>1
<1>4. n = Idle \/ n.of = d
  OBVIOUS
<1>5. n # Idle => \/ n.no = attempt[c].no
                  \/ Young(attempt[c], d) /\ n.no = row[d].attempts + 1 /\ retries'[d] = retries[d]
  OBVIOUS
<1> QED BY <1>1, <1>2, <1>3, <1>4, <1>5, AttemptCounts

LEMMA RecordSentCounts ==
    ASSUME DeliveryInv, Shapes', NEW c \in Callers, RecordSent(c)
    PROVE  \A e \in Deliveries : Counted(e)'
<1>1. PICK d \in Deliveries : d = attempt[c].of
  BY UnderWay DEF RecordSent
<1>2. /\ attempt[c] # Idle /\ attempt[c].stage = "sent" /\ attempt[c].stage # "idle"
      /\ hiccups \in Nat /\ crashes \in Nat /\ retries[d] \in Nat /\ sends[d] \in Nat
      /\ UNCHANGED <<retries, sends, manual, crashes>>
  BY <1>1, UnderWay DEF RecordSent, history
<1>3. CASE /\ Exists(d) /\ row' = [row EXCEPT ![d] = [status |-> "SENT", attempts |-> attempt[c].no]]
           /\ attempt' = [attempt EXCEPT ![c] = Idle] /\ UNCHANGED hiccups
  <2>1. hiccups' >= hiccups
    BY <1>2, <1>3
  <2> QED BY <1>1, <1>2, <1>3, <2>1, IdleIsState, EndCounts
<1>4. ASSUME attempt' = [attempt EXCEPT ![c] = [attempt[c] EXCEPT !.stage = "retryable"]], row' = row,
             \/ ~Exists(d) /\ hiccups' = hiccups
             \/ hiccups' = hiccups + 1
      PROVE  \A e \in Deliveries : Counted(e)'
  <2>1. PICK n \in States :
            /\ n = [attempt[c] EXCEPT !.stage = "retryable"]
            /\ n # Idle /\ n.of = d /\ n.no = attempt[c].no /\ On(n, d) /\ (Young(n, d) <=> Young(attempt[c], d))
            /\ (Hopes(n, d, Exists(d)) => Exists(d))
    BY <1>1, <1>2, NextStage
  <2>2. ~Hopes(attempt[c], d, Exists(d))
    BY <1>2 DEF Hopes
  <2>3. /\ retries'[d] + (IF On(n, d) THEN 1 ELSE 0) + crashes <= retries[d] + 1 + crashes'
        /\ retries'[d] + (IF Young(n, d) THEN 1 ELSE 0) + crashes
               <= retries[d] + (IF Young(attempt[c], d) THEN 1 ELSE 0) + crashes'
        /\ sends'[d] + retries'[d] + (IF Hopes(n, d, Exists(d)) THEN 1 ELSE 0) + crashes + hiccups
               <= sends[d] + retries[d] + (IF Hopes(attempt[c], d, Exists(d)) THEN 1 ELSE 0) + crashes' + hiccups'
    BY <1>2, <1>4, <2>1, <2>2
  <2>4. /\ \A e \in Deliveries \ {d} : retries'[e] = retries[e] /\ sends'[e] = sends[e]
        /\ crashes' >= crashes /\ hiccups' >= hiccups /\ UNCHANGED manual
        /\ attempt' = [attempt EXCEPT ![c] = n]
    BY <1>2, <1>4, <2>1
  <2> QED BY <1>1, <1>2, <1>4, <2>1, <2>3, <2>4, AttemptCounts, ZenonT(60)
<1> QED BY <1>1, <1>2, <1>3, <1>4 DEF RecordSent, Finish, Proceed

LEMMA MarkFailedCounts ==
    ASSUME DeliveryInv, Shapes', NEW c \in Callers, MarkFailed(c)
    PROVE  \A e \in Deliveries : Counted(e)'
<1>1. PICK d \in Deliveries : d = attempt[c].of
  BY UnderWay DEF MarkFailed
<1>2. /\ attempt[c] # Idle /\ attempt[c].stage \in {"retryable", "final"} /\ attempt[c].stage # "idle"
      /\ On(attempt[c], d)
      /\ hiccups \in Nat /\ crashes \in Nat /\ retries[d] \in Nat /\ sends[d] \in Nat
      /\ UNCHANGED <<retries, sends, manual, crashes>>
  BY <1>1, UnderWay DEF MarkFailed
<1>3. CASE /\ attempt' = [attempt EXCEPT ![c] = Idle] /\ hiccups' >= hiccups
           /\ \/ row' = row
              \/ /\ Exists(d)
                 /\ row' = [row EXCEPT ![d] = [status |-> "FAILED", attempts |-> attempt[c].no]]
  BY <1>1, <1>2, <1>3, IdleIsState, EndCounts
<1>4. CASE /\ attempt' = [attempt EXCEPT ![c] = [attempt[c] EXCEPT !.stage = "schedule"]] /\ hiccups' = hiccups
           /\ Exists(d) /\ row' = [row EXCEPT ![d] = [status |-> "FAILED", attempts |-> attempt[c].no]]
  <2>1. PICK n \in States :
            /\ n = [attempt[c] EXCEPT !.stage = "schedule"]
            /\ n # Idle /\ n.of = d /\ n.no = attempt[c].no /\ On(n, d) /\ (Young(n, d) <=> Young(attempt[c], d))
    BY <1>1, <1>2, NextStage
  <2>2. Hopes(attempt[c], d, Exists(d))
    BY <1>2, <1>4 DEF Hopes
  <2>3. retries'[d] = retries[d] /\ sends'[d] = sends[d] /\ crashes' = crashes /\ hiccups' = hiccups
    BY <1>2, <1>4
  <2>4. /\ retries'[d] + (IF On(n, d) THEN 1 ELSE 0) + crashes <= retries[d] + 1 + crashes'
        /\ retries'[d] + (IF Young(n, d) THEN 1 ELSE 0) + crashes
               <= retries[d] + (IF Young(attempt[c], d) THEN 1 ELSE 0) + crashes'
        /\ sends'[d] + retries'[d] + (IF Hopes(n, d, Exists(d)) THEN 1 ELSE 0) + crashes + hiccups
               <= sends[d] + retries[d] + (IF Hopes(attempt[c], d, Exists(d)) THEN 1 ELSE 0) + crashes' + hiccups'
    BY <1>2, <2>1, <2>2, <2>3
  <2>5. /\ \A e \in Deliveries \ {d} : retries'[e] = retries[e] /\ sends'[e] = sends[e]
        /\ crashes' >= crashes /\ hiccups' >= hiccups /\ UNCHANGED manual
        /\ attempt' = [attempt EXCEPT ![c] = n]
    BY <1>2, <1>4, <2>1
  <2> QED BY <1>1, <1>2, <1>4, <2>1, <2>4, <2>5, AttemptCounts
<1>5. \/ /\ Exists(d) /\ row' = [row EXCEPT ![d] = [status |-> "FAILED", attempts |-> attempt[c].no]]
         /\ UNCHANGED hiccups
         /\ \/ attempt' = [attempt EXCEPT ![c] = Idle]
            \/ attempt' = [attempt EXCEPT ![c] = [attempt[c] EXCEPT !.stage = "schedule"]]
      \/ attempt' = [attempt EXCEPT ![c] = Idle] /\ UNCHANGED <<row, hiccups>>
      \/ attempt' = [attempt EXCEPT ![c] = Idle] /\ UNCHANGED row /\ hiccups' = hiccups + 1
  BY <1>1 DEF MarkFailed, Finish, Proceed
<1>6. hiccups + 1 >= hiccups /\ hiccups >= hiccups
  BY <1>2
<1> QED BY <1>3, <1>4, <1>5, <1>6

LEMMA ScheduleRetryCounts ==
    ASSUME DeliveryInv, Shapes', NEW c \in Callers, ScheduleRetry(c)
    PROVE  \A e \in Deliveries : Counted(e)'
<1>1. PICK d \in Deliveries : d = attempt[c].of
  BY UnderWay DEF ScheduleRetry
<1>2. /\ attempt[c].stage # "idle" /\ On(attempt[c], d)
      /\ hiccups \in Nat /\ crashes \in Nat /\ retries[d] \in Nat /\ sends[d] \in Nat
      /\ UNCHANGED <<row, sends, manual, crashes>> /\ attempt' = [attempt EXCEPT ![c] = Idle]
      /\ \/ retries' = [retries EXCEPT ![d] = retries[d] + 1] /\ UNCHANGED hiccups
         \/ hiccups' = hiccups + 1 /\ UNCHANGED retries
  BY <1>1, UnderWay DEF ScheduleRetry, history, Finish, Proceed, OneMore
<1>3. CASE hiccups' = hiccups + 1 /\ UNCHANGED retries
  <2>1. hiccups' >= hiccups
    BY <1>2, <1>3
  <2> QED BY <1>1, <1>2, <1>3, <2>1, IdleIsState, EndCounts
<1>4. CASE retries' = [retries EXCEPT ![d] = retries[d] + 1] /\ UNCHANGED hiccups
  <2>1. PICK n \in States : n = Idle
    BY DEF States
  <2>2. /\ ~On(n, d) /\ ~Young(n, d) /\ ~Hopes(n, d, Exists(d)) /\ attempt' = [attempt EXCEPT ![c] = n]
    BY <1>1, <1>2, <2>1, UnderWay
  <2>3. Young(attempt[c], d) /\ Hopes(attempt[c], d, Exists(d))
    BY <1>2 DEF Young, Hopes, DeliveryInv, Shapes, ScheduleRetry
  <2>4. /\ \A e \in Deliveries \ {d} : retries'[e] = retries[e] /\ sends'[e] = sends[e]
        /\ retries'[d] = retries[d] + 1 /\ sends'[d] = sends[d]
        /\ crashes' >= crashes /\ hiccups' >= hiccups /\ UNCHANGED manual /\ row' = row
    BY <1>2, <1>4 DEF DeliveryInv, Shapes
  <2>5. /\ retries'[d] + (IF On(n, d) THEN 1 ELSE 0) + crashes <= retries[d] + 1 + crashes'
        /\ retries'[d] + (IF Young(n, d) THEN 1 ELSE 0) + crashes
               <= retries[d] + (IF Young(attempt[c], d) THEN 1 ELSE 0) + crashes'
        /\ sends'[d] + retries'[d] + (IF Hopes(n, d, Exists(d)) THEN 1 ELSE 0) + crashes + hiccups
               <= sends[d] + retries[d] + (IF Hopes(attempt[c], d, Exists(d)) THEN 1 ELSE 0) + crashes' + hiccups'
    BY <1>2, <1>4, <2>2, <2>3, <2>4
  <2> QED BY <1>1, <1>2, <2>1, <2>2, <2>4, <2>5, AttemptCounts, ZenonT(60)
<1> QED BY <1>2, <1>3, <1>4

LEMMA CrashCounts ==
    ASSUME DeliveryInv, Shapes', NEW c \in Callers, Crash(c)
    PROVE  \A e \in Deliveries : Counted(e)'
<1>0. attempt[c].stage # "idle"
  BY DEF Crash, DeliveryInv, Shapes, States
<1>1. PICK d \in Deliveries : d = attempt[c].of
  BY <1>0, UnderWay
<1>2. /\ On(attempt[c], d)
      /\ hiccups \in Nat /\ crashes \in Nat /\ retries[d] \in Nat /\ sends[d] \in Nat
      /\ UNCHANGED <<row, sends, manual, hiccups>> /\ attempt' = [attempt EXCEPT ![c] = Idle] /\ crashes' = crashes + 1
      /\ retries' = retries \/ retries' = [retries EXCEPT ![d] = retries[d] + 1]
  BY <1>0, <1>1, UnderWay DEF Crash, history
<1>3. PICK n \in States : n = Idle
  BY DEF States
<1>4. ~On(n, d) /\ ~Young(n, d) /\ ~Hopes(n, d, Exists(d)) /\ attempt' = [attempt EXCEPT ![c] = n]
  BY <1>0, <1>1, <1>2, <1>3, UnderWay
<1>5. /\ \A e \in Deliveries \ {d} : retries'[e] = retries[e] /\ sends'[e] = sends[e]
      /\ retries'[d] \in {retries[d], retries[d] + 1} /\ sends'[d] = sends[d]
      /\ crashes' >= crashes /\ hiccups' >= hiccups /\ UNCHANGED manual /\ row' = row
  BY <1>2 DEF DeliveryInv, Shapes
<1>6. /\ retries'[d] + (IF On(n, d) THEN 1 ELSE 0) + crashes <= retries[d] + 1 + crashes'
      /\ retries'[d] + (IF Young(n, d) THEN 1 ELSE 0) + crashes
             <= retries[d] + (IF Young(attempt[c], d) THEN 1 ELSE 0) + crashes'
      /\ sends'[d] + retries'[d] + (IF Hopes(n, d, Exists(d)) THEN 1 ELSE 0) + crashes + hiccups
             <= sends[d] + retries[d] + (IF Hopes(attempt[c], d, Exists(d)) THEN 1 ELSE 0) + crashes' + hiccups'
  BY <1>2, <1>4, <1>5
<1> QED BY <1>0, <1>1, <1>3, <1>4, <1>5, <1>6, AttemptCounts

\* The rows of deleted alerts go: what failed to be written is not tried again.
LEMMA CascadeCounts ==
    ASSUME DeliveryInv, Shapes', NEW d \in Deliveries, Cascade(d)
    PROVE  \A e \in Deliveries : Counted(e)'
<1>0. /\ Shapes /\ UNCHANGED <<retries, attempt, sends, manual, hiccups, crashes>>
      /\ row' = [row EXCEPT ![d] = [row[d] EXCEPT !.status = "gone"]] /\ hiccups \in Nat /\ crashes \in Nat
  BY Naturals DEF DeliveryInv, Cascade, history
<1>1. ASSUME NEW e \in Deliveries, e # d PROVE Counted(e)'
  <2>1. row'[e] = row[e] /\ Counted(e)
    BY <1>0, <1>1 DEF DeliveryInv, Shapes
  <2> QED BY <1>0, <2>1, Untouched
<1>2. Counted(d)'
  <2>1. row'[d].status = "gone" /\ row'[d].attempts = row[d].attempts /\ Counted(d)
    BY <1>0 DEF DeliveryInv, Shapes
  <2>2. Busy(d)' = Busy(d) /\ Able(d)' = Able(d) /\ Owed(d)' = Owed(d)
    BY <1>0 DEF Busy, Able, Owed
  <2>3. Cardinality(Hopeful(d)') <= Cardinality(Hopeful(d))
    <3>1. Hopeful(d)' \in SUBSET Hopeful(d) /\ Hopeful(d) \in SUBSET Callers
      BY <1>0 DEF Hopeful, Hopes, Exists, Cascade
    <3> QED BY <3>1, CallerSets, FS_Subset
  <2>4. Unborn(d)'
    BY <2>1 DEF Unborn
  <2>5. (Chains(d) <= 1 + Owed(d))'
    BY <1>0, <2>1, <2>2 DEF Counted, Chains
  <2>6. (sends[d] + Cardinality(Hopeful(d)) + retries[d] <= 1 + Owed(d) + hiccups)'
    <3>1. /\ sends[d] \in Nat /\ retries[d] \in Nat /\ Owed(d) \in Nat /\ hiccups \in Nat
          /\ Cardinality(Hopeful(d)) \in Nat /\ Cardinality(Hopeful(d))' \in Nat
      BY <1>0, Naturals, CountsAreNatural
    <3> QED BY <1>0, <2>1, <2>2, <2>3, <3>1 DEF Counted
  <2>7. \A k : Spent(k, d)' <=> Spent(k, d)
    BY <1>0, <2>2 DEF Spent
  <2>8. Spent(row[d].attempts, d)' /\ \A u \in Callers : On(attempt'[u], d) => Spent(attempt[u].no, d)'
    BY <1>0, <2>1, <2>2, <2>7 DEF Counted, Spent
  <2> QED BY <1>0, <2>4, <2>5, <2>6, <2>8 DEF Counted
<1> QED BY <1>1, <1>2

\* A job is run again whose attempt is over: one more chain, for one more crash.
LEMMA CrashAtEndCounts ==
    ASSUME DeliveryInv, Shapes', NEW d \in Deliveries, CrashAtEnd(d)
    PROVE  \A e \in Deliveries : Counted(e)'
<1>0. /\ Shapes /\ UNCHANGED <<row, attempt, sends, manual, hiccups>> /\ crashes' = crashes + 1
      /\ retries' = [retries EXCEPT ![d] = retries[d] + 1] /\ hiccups \in Nat /\ crashes \in Nat
  BY Naturals DEF DeliveryInv, CrashAtEnd, history
<1>1. ASSUME NEW e \in Deliveries, e # d PROVE Counted(e)'
  <2>1. retries'[e] = retries[e] /\ Counted(e)
    BY <1>0, <1>1 DEF DeliveryInv, Shapes
  <2> QED BY <1>0, <2>1, Untouched
<1>2. Counted(d)'
  <2>1. Busy(d)' = Busy(d) /\ Able(d)' = Able(d) /\ Hopeful(d)' = Hopeful(d)
    BY <1>0 DEF Busy, Able, Hopeful, Exists
  <2>2. /\ retries'[d] = retries[d] + 1 /\ Owed(d)' = Owed(d) + 1 /\ Counted(d) /\ row[d].status # "none"
        /\ Owed(d) \in Nat /\ retries[d] \in Nat /\ sends[d] \in Nat /\ MAX_ATTEMPTS \in Nat
    <3>1. manual[d] \in Nat /\ retries[d] \in Nat /\ sends[d] \in Nat /\ Owed(d) \in Nat
      BY <1>0, Naturals
    <3>2. retries'[d] = retries[d] + 1 /\ Counted(d) /\ row[d].status # "none"
      BY <1>0 DEF DeliveryInv, Shapes, Ended, CrashAtEnd
    <3> QED BY <1>0, <3>1, <3>2, MaxIsPositive DEF Owed
  <2>3. Cardinality(Busy(d)) \in Nat /\ Cardinality(Able(d)) \in Nat /\ Cardinality(Hopeful(d)) \in Nat
    BY CountsAreNatural
  <2>4. \A k \in Nat : Spent(k, d) => Spent(k, d)'
    BY <2>1, <2>2, <2>3 DEF Spent
  <2>5. Spent(row[d].attempts, d)'
    <3>1. row[d].attempts \in Nat /\ Spent(row[d].attempts, d)
      BY <1>0, <2>2, Naturals DEF Counted
    <3>2. PICK k \in Nat : k = row[d].attempts /\ Spent(k, d)
      BY <3>1
    <3> QED BY <1>0, <2>4, <3>2 DEF Spent
  <2>6. ASSUME NEW u \in Callers, On(attempt'[u], d) PROVE Spent(attempt[u].no, d)'
    <3>1. On(attempt[u], d) /\ attempt[u].no \in Nat /\ Spent(attempt[u].no, d)
      BY <1>0, <2>2, <2>6 DEF Counted, On, Shapes, States
    <3>2. PICK k \in Nat : k = attempt[u].no /\ Spent(k, d)
      BY <3>1
    <3> QED BY <1>0, <2>4, <3>2 DEF Spent
  <2>7. Unborn(d)' /\ (Chains(d) <= 1 + Owed(d))'
    BY <1>0, <2>1, <2>2, <2>3 DEF Counted, Chains, Unborn
  <2>8. (sends[d] + Cardinality(Hopeful(d)) + retries[d] <= 1 + Owed(d) + hiccups)'
    BY <1>0, <2>1, <2>2, <2>3 DEF Counted
  <2> QED BY <2>5, <2>6, <2>7, <2>8 DEF Counted
<1> QED BY <1>1, <1>2

LEMMA InitEnded == Init => Ended
BY DEF Init, Ended

LEMMA StepEnded == DeliveryInv /\ Shapes' /\ [Next]_vars => Ended'
<1> SUFFICES ASSUME DeliveryInv, Shapes', [Next]_vars, NEW d \in Deliveries, ending'[d] > 0
             PROVE  row'[d].status # "none"
  BY DEF Ended
<1>1. row[d].status # "none" => row'[d].status # "none"
  <2>1. \/ UNCHANGED row
        \/ \E e \in Deliveries : \/ row' = [row EXCEPT ![e].status = "PENDING"]
                                 \/ row' = [row EXCEPT ![e].status = "gone"]
        \/ \E e \in Deliveries, st \in {"SENT", "FAILED"} : \E k : row' = [row EXCEPT ![e] = [status |-> st, attempts |-> k]]
    <3>1. ASSUME NEW c \in Callers, RecordSent(c) \/ MarkFailed(c)
          PROVE  \/ UNCHANGED row
                 \/ \E e \in Deliveries, st \in {"SENT", "FAILED"} : \E k :
                        row' = [row EXCEPT ![e] = [status |-> st, attempts |-> k]]
      <4>1. attempt[c].of \in Deliveries
        BY <3>1, UnderWay DEF RecordSent, MarkFailed
      <4> QED BY <3>1, <4>1 DEF RecordSent, MarkFailed
    <3>2. ASSUME NEW c \in Callers, Load(c) \/ Send(c) \/ ScheduleRetry(c) \/ Crash(c) PROVE UNCHANGED row
      BY <3>2 DEF Load, Send, ScheduleRetry, Crash
    <3>3. ASSUME NEW c \in Callers, NEW e \in Deliveries, StartRetry(c, e) \/ ManualRetry(c, e) PROVE UNCHANGED row
      BY <3>3 DEF StartRetry, ManualRetry
    <3>4. ASSUME NEW e \in Deliveries, SwitchChannel(e) \/ Complete(e) \/ CrashAtEnd(e) PROVE UNCHANGED row
      BY <3>4 DEF SwitchChannel, Complete, CrashAtEnd
    <3>5. ASSUME NEW c \in Callers, NEW e \in Deliveries, Dispatch(c, e)
          PROVE  row' = [row EXCEPT ![e].status = "PENDING"]
      BY <3>5 DEF Dispatch
    <3>6. ASSUME NEW e \in Deliveries, Cascade(e) PROVE row' = [row EXCEPT ![e].status = "gone"]
      BY <3>6 DEF Cascade
    <3> QED BY <3>1, <3>2, <3>3, <3>4, <3>5, <3>6 DEF Next, AttemptStep, vars
  <2> QED BY <2>1 DEF DeliveryInv, Shapes
<1>2. CASE ending[d] > 0
  BY <1>1, <1>2 DEF DeliveryInv, Ended
<1>3. CASE ~(ending[d] > 0)
  <2>1. PICK c \in Callers : attempt[c].stage # "idle" /\ attempt[c].of = d
    <3>1. \/ \E c \in Callers : attempt[c].stage # "idle" /\ Finish(c)
          \/ UNCHANGED ending
          \/ \E e \in Deliveries : ending' = [ending EXCEPT ![e] = ending[e] - 1]
      <4>1. ASSUME NEW c \in Callers, AttemptStep(c)
            PROVE  attempt[c].stage # "idle" /\ (Finish(c) \/ UNCHANGED ending)
        BY <4>1 DEF AttemptStep, Load, Send, RecordSent, MarkFailed, ScheduleRetry, Proceed
      <4>2. ASSUME NEW c \in Callers, Crash(c) PROVE UNCHANGED ending
        BY <4>2 DEF Crash
      <4>3. ASSUME NEW c \in Callers, NEW e \in Deliveries, Dispatch(c, e) \/ StartRetry(c, e) \/ ManualRetry(c, e)
            PROVE  UNCHANGED ending
        BY <4>3 DEF Dispatch, StartRetry, ManualRetry
      <4>4. ASSUME NEW e \in Deliveries, SwitchChannel(e) \/ Cascade(e) PROVE UNCHANGED ending
        BY <4>4 DEF SwitchChannel, Cascade
      <4>5. ASSUME NEW e \in Deliveries, Complete(e) \/ CrashAtEnd(e)
            PROVE  ending' = [ending EXCEPT ![e] = ending[e] - 1]
        BY <4>5 DEF Complete, CrashAtEnd
      <4> QED BY <4>1, <4>2, <4>3, <4>4, <4>5 DEF Next, vars
    <3>2. ending \in [Deliveries -> Nat]
      BY DEF DeliveryInv, Shapes
    <3>3. CASE \E c \in Callers : attempt[c].stage # "idle" /\ Finish(c)
      BY <1>3, <3>2, <3>3 DEF Finish
    <3>4. CASE \E e \in Deliveries : ending' = [ending EXCEPT ![e] = ending[e] - 1]
      BY <1>3, <3>2, <3>4
    <3> QED BY <1>3, <3>1, <3>3, <3>4
  <2> QED BY <1>1, <2>1, UnderWay
<1> QED BY <1>2, <1>3

LEMMA StepCounts == DeliveryInv /\ Shapes' /\ [Next]_vars => \A e \in Deliveries : Counted(e)'
<1> SUFFICES ASSUME DeliveryInv, Shapes', [Next]_vars PROVE \A e \in Deliveries : Counted(e)'
  OBVIOUS
<1>1. ASSUME UNCHANGED <<row, retries, attempt, sends, manual, hiccups, crashes>>
      PROVE  \A e \in Deliveries : Counted(e)'
  BY <1>1, Untouched, Naturals DEF DeliveryInv
<1>2. ASSUME NEW d \in Deliveries, SwitchChannel(d) PROVE \A e \in Deliveries : Counted(e)'
  BY <1>1, <1>2 DEF SwitchChannel, history
<1>4. ASSUME NEW d \in Deliveries, Complete(d) PROVE \A e \in Deliveries : Counted(e)'
  BY <1>1, <1>4 DEF Complete, history
<1>3. ASSUME UNCHANGED vars PROVE \A e \in Deliveries : Counted(e)'
  BY <1>1, <1>3 DEF vars
<1>a. \/ \E c \in Callers, d \in Deliveries : Dispatch(c, d) \/ StartRetry(c, d) \/ ManualRetry(c, d)
      \/ \E c \in Callers : \/ Load(c) \/ Send(c) \/ RecordSent(c) \/ MarkFailed(c) \/ ScheduleRetry(c)
                            \/ Crash(c)
      \/ \E d \in Deliveries : SwitchChannel(d) \/ Cascade(d) \/ Complete(d) \/ CrashAtEnd(d)
      \/ UNCHANGED vars
  BY DEF Next, AttemptStep
<1> QED BY <1>2, <1>3, <1>4, <1>a, CrashAtEndCounts, DispatchCounts, StartRetryCounts, ManualRetryCounts, LoadCounts, SendCounts,
           RecordSentCounts, MarkFailedCounts, ScheduleRetryCounts, CrashCounts, CascadeCounts, Zenon

------------------------------------------------------------------------------
(* The theorems *)

LEMMA DeliveryInvariant == Spec => []DeliveryInv
<1>1. Init => DeliveryInv
  BY InitShapes, InitEnded, InitCounts DEF DeliveryInv
<1>2. DeliveryInv /\ [Next]_vars => DeliveryInv'
  BY StepShapes, StepEnded, StepCounts DEF DeliveryInv
<1> QED BY <1>1, <1>2, PTL DEF Spec

\* Attempt numbers are bounded by what is owed, so every variable has its type.
THEOREM DeliveryTypeCorrect == Spec => []TypeOK
<1>1. DeliveryInv => TypeOK
  <2> SUFFICES ASSUME DeliveryInv PROVE TypeOK
    OBVIOUS
  <2>0. /\ MaxManual \in Nat /\ MaxCrashes \in Nat /\ MAX_ATTEMPTS \in Nat /\ MostAttempts \in Nat
        /\ MostAttempts = MAX_ATTEMPTS + MaxManual + MaxCrashes
    BY DeliveryAssumption, MaxIsPositive DEF DeliveryAssumption, MostAttempts
  <2>1. ASSUME NEW d \in Deliveries, NEW k \in Nat, Spent(k, d) PROVE k \in 0..MostAttempts
    <3>1. /\ retries[d] \in Nat /\ Cardinality(Able(d)) \in Nat /\ manual[d] \in 0..MaxManual /\ crashes \in 0..MaxCrashes
      BY Naturals, CountsAreNatural DEF DeliveryInv, Shapes
    <3>2. Owed(d) \in Nat /\ Owed(d) <= MaxManual + MaxCrashes
      BY <2>0, <3>1 DEF Owed
    <3> QED BY <2>0, <2>1, <3>1, <3>2 DEF Spent
  <2>2. row \in [Deliveries -> Rows]
    <3>1. \A d \in Deliveries : row[d].attempts \in 0..MostAttempts
      BY <2>1, Naturals DEF DeliveryInv, Counted
    <3> QED BY <3>1 DEF DeliveryInv, Shapes, Rows
  <2>3. attempt \in [Callers -> Attempts \cup {Idle}]
    <3>1. ASSUME NEW c \in Callers, attempt[c] # Idle PROVE attempt[c] \in Attempts
      <4>1. /\ attempt[c] \in [stage : {"load", "send", "sent", "retryable", "final", "schedule"},
                               of : Deliveries, by : Origins, no : Nat]
        BY <3>1 DEF DeliveryInv, Shapes, States
      <4>2. attempt[c].no \in 0..MostAttempts
        BY <2>1, <3>1, <4>1 DEF DeliveryInv, Counted, On
      <4> QED BY <4>1, <4>2 DEF Attempts
    <3> QED BY <3>1 DEF DeliveryInv, Shapes
  <2> QED BY <2>2, <2>3 DEF TypeOK, DeliveryInv, Shapes
<1> QED BY <1>1, DeliveryInvariant, PTL

\* The attempts in progress and the retry jobs of a delivery form one chain, and
\* one more for each manual retry or crash.
THEOREM OneChain == Spec => []ChainsBounded
<1>1. DeliveryInv => ChainsBounded
  <2> SUFFICES ASSUME DeliveryInv, NEW d \in Deliveries PROVE Chains(d) <= 1 + manual[d] + crashes
    BY DEF ChainsBounded
  <2>1. Chains(d) \in Nat /\ manual[d] \in Nat /\ crashes \in Nat /\ Chains(d) <= 1 + (manual[d] + crashes)
    BY Naturals, CountsAreNatural DEF DeliveryInv, Counted, Chains, Owed
  <2> QED BY <2>1
<1> QED BY <1>1, DeliveryInvariant, PTL

\* No interleaving of attempts pushes a row beyond MAX_ATTEMPTS: only manual
\* retries and crashes do.
THEOREM AttemptsEnd == Spec => []AttemptsBounded
<1>1. DeliveryInv => AttemptsBounded
  <2> SUFFICES ASSUME DeliveryInv, NEW d \in Deliveries
               PROVE  row[d].attempts <= MAX_ATTEMPTS + manual[d] + crashes
    BY DEF AttemptsBounded
  <2>1. /\ row[d].attempts \in Nat /\ manual[d] \in Nat /\ crashes \in Nat /\ retries[d] \in Nat
        /\ Cardinality(Able(d)) \in Nat /\ MAX_ATTEMPTS \in Nat /\ Spent(row[d].attempts, d)
    BY Naturals, CountsAreNatural, MaxIsPositive DEF DeliveryInv, Counted
  <2> QED BY <2>1 DEF Spent, Owed
<1> QED BY <1>1, DeliveryInvariant, PTL

\* A message goes out once, unless a manual retry, a crash or a failed write of
\* its outcome repeats it.
THEOREM MessageSentOnce == Spec => []SentOnce
<1>1. DeliveryInv => SentOnce
  <2> SUFFICES ASSUME DeliveryInv, NEW d \in Deliveries PROVE sends[d] <= 1 + manual[d] + crashes + hiccups
    BY DEF SentOnce
  <2>1. /\ sends[d] \in Nat /\ manual[d] \in Nat /\ crashes \in Nat /\ retries[d] \in Nat /\ hiccups \in Nat
        /\ Cardinality(Hopeful(d)) \in Nat
        /\ sends[d] + Cardinality(Hopeful(d)) + retries[d] <= 1 + (manual[d] + crashes) + hiccups
    BY Naturals, CountsAreNatural DEF DeliveryInv, Counted, Owed
  <2> QED BY <2>1
<1> QED BY <1>1, DeliveryInvariant, PTL

------------------------------------------------------------------------------
(* Refinement: while nobody intervenes and nothing fails, a delivery has one *)
(* chain of attempts, and the attempt on hand knows where its row stands.    *)

Calm(d) == Owed(d) = 0 /\ hiccups = 0

\* The next attempt may still change the row for the better.
Unsettled(d) ==
    row[d].status \notin {"none", "SENT"} /\ ~refused[d] /\ row[d].attempts < MAX_ATTEMPTS

\* What an attempt in progress read of its row still holds.  Only the deletion
\* of the row can come between a send and its record.
Placed(m, d) ==
    /\ Unsettled(d)
    /\ m.stage \notin {"load", "schedule"} => m.no = row[d].attempts + 1
    /\ m.stage = "sent" => sends[d] = 1
    /\ m.stage # "sent" => sends[d] = 0 \/ (m.stage = "retryable" /\ row[d].status = "gone")

Serial(d) ==
    Calm(d) =>
        /\ row[d].status = "none" => ~refused[d]
        /\ retries[d] > 0 => Unsettled(d) /\ sends[d] = 0
        /\ \A c \in Callers : On(attempt[c], d) => Placed(attempt[c], d)

SerialInv == DeliveryInv /\ \A d \in Deliveries : Serial(d)

\* The attempt on hand is the chain: there is no other, and no retry waits.
LEMMA Alone ==
    ASSUME DeliveryInv, NEW d \in Deliveries, Calm(d), NEW c \in Callers, On(attempt[c], d)
    PROVE  retries[d] = 0 /\ \A u \in Callers \ {c} : ~On(attempt[u], d)
<1>1. /\ Cardinality(Busy(d)) + retries[d] <= 1 /\ Cardinality(Busy(d)) \in Nat /\ retries[d] \in Nat
  BY Naturals, CountsAreNatural DEF DeliveryInv, Counted, Chains, Calm
<1>2. c \in Busy(d) /\ Busy(d) \in SUBSET Callers /\ IsFiniteSet(Busy(d))
  BY CallerSets DEF Busy, On
<1>3. Cardinality({c}) = 1 /\ IsFiniteSet({c})
  BY FS_Singleton
<1>4. Cardinality({c}) <= Cardinality(Busy(d))
  BY <1>2, FS_Subset
<1>5. ASSUME NEW u \in Callers \ {c}, On(attempt[u], d) PROVE FALSE
  <2>1. PICK T \in SUBSET Busy(d) : T = {c} \cup {u}
    BY <1>2, <1>5 DEF Busy, On
  <2>2. u \notin {c} /\ Cardinality(T) = Cardinality({c}) + 1
    BY <1>3, <2>1, FS_AddElement
  <2>3. Cardinality(T) <= Cardinality(Busy(d))
    BY <1>2, <2>1, FS_Subset
  <2> QED BY <1>1, <1>3, <2>2, <2>3
<1> QED BY <1>1, <1>3, <1>4, <1>5

\* A waiting retry is the chain.
LEMMA Waiting ==
    ASSUME DeliveryInv, NEW d \in Deliveries, Calm(d), retries[d] > 0
    PROVE  retries[d] = 1 /\ \A u \in Callers : ~On(attempt[u], d)
<1>1. /\ Cardinality(Busy(d)) + retries[d] <= 1 /\ Cardinality(Busy(d)) \in Nat /\ retries[d] \in Nat
  BY Naturals, CountsAreNatural DEF DeliveryInv, Counted, Chains, Calm
<1> QED BY <1>1, Alone

\* What was disturbed stays so.
LEMMA CalmBefore ==
    ASSUME Shapes, Shapes', NEW d \in Deliveries,
           manual'[d] >= manual[d], hiccups' >= hiccups, crashes' >= crashes, Calm(d)'
    PROVE  Calm(d) /\ hiccups' = hiccups /\ crashes' = crashes /\ manual'[d] = manual[d]
<1>1. /\ manual[d] \in Nat /\ hiccups \in Nat /\ crashes \in Nat
      /\ manual'[d] \in Nat /\ hiccups' \in Nat /\ crashes' \in Nat
  BY DeliveryAssumption DEF DeliveryAssumption, Shapes
<1> QED BY <1>1 DEF Calm, Owed

\* A step about d leaves every other delivery as it was.
OthersStay(d) ==
    \A e \in Deliveries \ {d} :
        /\ row'[e] = row[e] /\ retries'[e] = retries[e] /\ sends'[e] = sends[e]
        /\ refused'[e] = refused[e] /\ manual'[e] = manual[e]

\* What a step that begins or ends the attempt n of a calm d must leave behind.
Keeps(c, d, n) ==
    Calm(d) /\ Calm(d)' =>
        /\ \A u \in Callers \ {c} : ~On(attempt[u], d)
        /\ row'[d].status # "none"
        /\ retries'[d] = 0 \/ (Unsettled(d)' /\ sends'[d] = 0)
        /\ n = Idle \/ Placed(n, d)'

\* What a step of its attempt must, that goes on to n or ends.
GoesOn(d, n) ==
    Calm(d) /\ Calm(d)' =>
        /\ row'[d].status # "none"
        /\ retries'[d] = retries[d] \/ (Unsettled(d)' /\ sends'[d] = 0)
        /\ n = Idle \/ Placed(n, d)'

\* A step of c about d.
LEMMA StepKeepsSerial ==
    ASSUME SerialInv, Shapes', NEW c \in Callers, NEW d \in Deliveries, NEW n \in States,
           attempt' = [attempt EXCEPT ![c] = n],
           attempt[c] = Idle \/ attempt[c].of = d, n = Idle \/ n.of = d,
           OthersStay(d), manual'[d] >= manual[d], hiccups' >= hiccups, crashes' >= crashes,
           Keeps(c, d, n)
    PROVE  \A e \in Deliveries : Serial(e)'
<1>0. /\ Shapes /\ manual \in [Deliveries -> 0..MaxManual] /\ MaxManual \in Nat
      /\ \A u \in Callers : attempt'[u] = IF u = c THEN n ELSE attempt[u]
  BY DeliveryAssumption DEF DeliveryAssumption, SerialInv, DeliveryInv, Shapes
<1>1. ASSUME NEW e \in Deliveries, e # d, Calm(e)'
      PROVE  Serial(e)'
  <2>1. manual'[e] >= manual[e]
    BY <1>0, <1>1 DEF OthersStay
  <2>2. Calm(e)
    BY <1>0, <1>1, <2>1, CalmBefore
  <2>3. \A u \in Callers : On(attempt'[u], e) => attempt'[u] = attempt[u] /\ On(attempt[u], e)
    BY <1>0, <1>1 DEF On
  <2>4. Serial(e) /\ Unsettled(e)' = Unsettled(e) /\ row'[e] = row[e] /\ sends'[e] = sends[e]
        /\ retries'[e] = retries[e] /\ refused'[e] = refused[e]
    BY <1>1 DEF SerialInv, Unsettled, OthersStay
  <2>5. ASSUME NEW u \in Callers, On(attempt'[u], e) PROVE Placed(attempt[u], e)'
    BY <2>2, <2>3, <2>4, <2>5 DEF Serial, Placed
  <2> QED BY <2>2, <2>4, <2>5 DEF Serial
<1>2. ASSUME Calm(d)' PROVE Serial(d)'
  <2>1. Calm(d)
    BY <1>0, <1>2, CalmBefore
  <2>2. ASSUME NEW u \in Callers, On(attempt'[u], d) PROVE Placed(attempt[u], d)'
    <3>1. u = c /\ attempt'[u] = n /\ n # Idle
      BY <1>0, <1>2, <2>1, <2>2 DEF On, Keeps
    <3> QED BY <1>2, <2>1, <3>1 DEF Placed, Keeps
  <2>3. row'[d].status # "none" /\ (retries'[d] > 0 => Unsettled(d)' /\ sends'[d] = 0)
    BY <1>2, <2>1 DEF Keeps
  <2> QED BY <2>2, <2>3 DEF Serial
<1> QED BY <1>1, <1>2 DEF Serial
LEMMA DispatchSerial ==
    ASSUME SerialInv, Shapes', NEW c \in Callers, NEW d \in Deliveries, Dispatch(c, d)
    PROVE  \A e \in Deliveries : Serial(e)'
<1> DEFINE n == Begin(d, "dispatch")
<1>0. /\ DeliveryInv /\ Shapes /\ Serial(d) /\ attempt[c] = Idle /\ attempt' = [attempt EXCEPT ![c] = n]
      /\ row[d].status = "none" /\ row' = [row EXCEPT ![d] = [row[d] EXCEPT !.status = "PENDING"]]
      /\ UNCHANGED <<channel, retries, sends, refused, manual, hiccups, crashes>>
  BY DEF SerialInv, DeliveryInv, Dispatch, history
<1>1. n \in States /\ n.of = d /\ n.stage = "load"
  BY StateCounts DEF Origins, Begin
<1>2. hiccups \in Nat /\ crashes \in Nat /\ manual[d] \in Nat
  BY <1>0, Naturals
<1>3. /\ \A e \in Deliveries \ {d} : row'[e] = row[e]
      /\ row'[d].status = "PENDING" /\ row'[d].attempts = row[d].attempts
  BY <1>0 DEF Shapes
<1>4. Busy(d) = {} /\ retries[d] = 0 /\ sends[d] = 0 /\ row[d].attempts = 0
  BY <1>0 DEF DeliveryInv, Counted, Unborn
<1>5. \A u \in Callers : ~On(attempt[u], d)
  BY <1>4 DEF Busy, On
<1> HIDE DEF n
<1>6. ASSUME Calm(d) PROVE Placed(n, d)'
  <2>1. ~refused[d]
    BY <1>0, <1>6 DEF Serial
  <2> QED BY <1>0, <1>1, <1>3, <1>4, <2>1, MaxIsPositive DEF Placed, Unsettled
<1>7. Keeps(c, d, n)
  BY <1>0, <1>3, <1>4, <1>5, <1>6 DEF Keeps
<1>8. OthersStay(d) /\ manual'[d] >= manual[d] /\ hiccups' >= hiccups /\ crashes' >= crashes
  BY <1>0, <1>2, <1>3 DEF OthersStay
<1> QED BY <1>0, <1>1, <1>7, <1>8, StepKeepsSerial

LEMMA StartRetrySerial ==
    ASSUME SerialInv, Shapes', NEW c \in Callers, NEW d \in Deliveries, StartRetry(c, d)
    PROVE  \A e \in Deliveries : Serial(e)'
<1> DEFINE n == Begin(d, "job")
<1>0. /\ DeliveryInv /\ Shapes /\ Serial(d) /\ attempt[c] = Idle /\ attempt' = [attempt EXCEPT ![c] = n]
      /\ retries' = [retries EXCEPT ![d] = retries[d] - 1] /\ retries[d] > 0
      /\ UNCHANGED <<row, channel, sends, refused, manual, hiccups, crashes>>
  BY DEF SerialInv, DeliveryInv, StartRetry, history
<1>1. n \in States /\ n.of = d /\ n.stage = "load"
  BY StateCounts DEF Origins, Begin
<1>2. hiccups \in Nat /\ crashes \in Nat /\ manual[d] \in Nat
  BY <1>0, Naturals
<1>3. retries'[d] = retries[d] - 1 /\ \A e \in Deliveries \ {d} : retries'[e] = retries[e]
  BY <1>0 DEF Shapes
<1> HIDE DEF n
<1>4. ASSUME Calm(d)
      PROVE  /\ \A u \in Callers : ~On(attempt[u], d)
             /\ row'[d].status # "none" /\ retries'[d] = 0 /\ Placed(n, d)'
  <2>1. retries[d] = 1 /\ \A u \in Callers : ~On(attempt[u], d)
    BY <1>0, <1>4, Waiting
  <2>2. Unsettled(d) /\ sends[d] = 0
    BY <1>0, <1>4 DEF Serial
  <2> QED BY <1>0, <1>1, <1>3, <2>1, <2>2 DEF Placed, Unsettled
<1>5. Keeps(c, d, n)
  BY <1>4 DEF Keeps
<1>6. OthersStay(d) /\ manual'[d] >= manual[d] /\ hiccups' >= hiccups /\ crashes' >= crashes
  BY <1>0, <1>2, <1>3 DEF OthersStay
<1> QED BY <1>0, <1>1, <1>5, <1>6, StepKeepsSerial

LEMMA ManualRetrySerial ==
    ASSUME SerialInv, Shapes', NEW c \in Callers, NEW d \in Deliveries, ManualRetry(c, d)
    PROVE  \A e \in Deliveries : Serial(e)'
<1> DEFINE n == Begin(d, "manual")
<1>0. /\ DeliveryInv /\ Shapes /\ attempt[c] = Idle /\ attempt' = [attempt EXCEPT ![c] = n]
      /\ manual' = [manual EXCEPT ![d] = manual[d] + 1]
      /\ UNCHANGED <<row, channel, retries, sends, refused, hiccups, crashes>>
  BY DEF SerialInv, DeliveryInv, ManualRetry
<1>1. n \in States /\ n.of = d
  BY StateCounts DEF Origins
<1>2. hiccups \in Nat /\ crashes \in Nat /\ manual[d] \in Nat
  BY <1>0, Naturals
<1>3. manual'[d] = manual[d] + 1 /\ \A e \in Deliveries \ {d} : manual'[e] = manual[e]
  BY <1>0 DEF Shapes
<1>4. ~Calm(d)'
  BY <1>0, <1>2, <1>3 DEF Calm, Owed
<1> HIDE DEF n
<1>5. Keeps(c, d, n)
  BY <1>4 DEF Keeps
<1>6. OthersStay(d) /\ manual'[d] >= manual[d] /\ hiccups' >= hiccups /\ crashes' >= crashes
  BY <1>0, <1>2, <1>3 DEF OthersStay
<1> QED BY <1>0, <1>1, <1>5, <1>6, StepKeepsSerial

\* The attempt of a calm delivery is its only one, and in place.
LEMMA CalmAttempt ==
    ASSUME SerialInv, NEW c \in Callers, attempt[c].stage # "idle",
           NEW d \in Deliveries, d = attempt[c].of, Calm(d)
    PROVE  /\ retries[d] = 0 /\ \A u \in Callers \ {c} : ~On(attempt[u], d)
           /\ Placed(attempt[c], d)
<1>1. On(attempt[c], d) /\ DeliveryInv /\ Serial(d)
  BY UnderWay DEF SerialInv
<1> QED BY <1>1, Alone DEF Serial

\* A step of the attempt c.
LEMMA AttemptSerial ==
    ASSUME SerialInv, Shapes', NEW c \in Callers, attempt[c].stage # "idle",
           NEW d \in Deliveries, d = attempt[c].of,
           NEW n \in States, n = Idle \/ n.of = d, attempt' = [attempt EXCEPT ![c] = n],
           UNCHANGED manual, hiccups' >= hiccups, crashes' >= crashes,
           OthersStay(d), GoesOn(d, n)
    PROVE  \A e \in Deliveries : Serial(e)'
<1>1. manual'[d] >= manual[d]
  BY Naturals DEF SerialInv, DeliveryInv
<1>2. Calm(d) => retries[d] = 0 /\ \A u \in Callers \ {c} : ~On(attempt[u], d)
  BY CalmAttempt
<1>3. Keeps(c, d, n)
  BY <1>2 DEF Keeps, GoesOn
<1>4. attempt[c] = Idle \/ attempt[c].of = d
  OBVIOUS
<1> QED BY <1>1, <1>3, <1>4, StepKeepsSerial

LEMMA LoadSerial ==
    ASSUME SerialInv, Shapes', NEW c \in Callers, Load(c)
    PROVE  \A e \in Deliveries : Serial(e)'
<1>0. DeliveryInv /\ Shapes
  BY DEF SerialInv, DeliveryInv
<1>1. PICK d \in Deliveries : d = attempt[c].of
  BY <1>0, UnderWay DEF Load
<1>2. /\ attempt[c] \in States /\ attempt[c].stage = "load" /\ attempt[c].stage # "idle"
      /\ row[d].attempts \in Nat /\ row[d].status # "none" /\ hiccups \in Nat /\ crashes \in Nat
      /\ UNCHANGED <<row, retries, sends, refused, manual, crashes>>
  BY <1>0, <1>1, UnderWay DEF Load, history
<1>3. ASSUME NEW n \in States, n = Idle \/ n.of = d, attempt' = [attempt EXCEPT ![c] = n], hiccups' >= hiccups,
             n # Idle => n.stage \in {"final", "send"} /\ n.no = row[d].attempts + 1
      PROVE  \A e \in Deliveries : Serial(e)'
  <2>1. crashes' >= crashes
    BY <1>2
  <2>2. ASSUME Calm(d), n # Idle PROVE Placed(n, d)'
    <3>1. Placed(attempt[c], d)
      BY <1>1, <1>2, <2>2, CalmAttempt
    <3> QED BY <1>2, <1>3, <2>2, <3>1 DEF Placed, Unsettled
  <2>3. GoesOn(d, n) /\ OthersStay(d)
    BY <1>2, <2>2 DEF GoesOn, OthersStay
  <2> QED BY <1>1, <1>2, <1>3, <2>1, <2>3, AttemptSerial
<1>4. ASSUME NEW st \in {"final", "send"}, NEW k \in Nat, k = row[d].attempts + 1
      PROVE  LET n == [attempt[c] EXCEPT !.no = k, !.stage = st]
             IN n \in States /\ n.of = d /\ n.no = row[d].attempts + 1 /\ n.stage = st
  BY <1>1, <1>2, <1>4, ManyStages DEF States, Idle
<1>5. \/ attempt' = [attempt EXCEPT ![c] = Idle] /\ hiccups' >= hiccups
      \/ /\ UNCHANGED hiccups
         /\ attempt' = [attempt EXCEPT ![c] = [attempt[c] EXCEPT !.no = NextNumber(row[d].attempts),
                                !.stage = IF channel[d] = "inactive" THEN "final" ELSE "send"]]
  BY <1>1, <1>2 DEF Load, Finish, Proceed
<1>6. CASE attempt' = [attempt EXCEPT ![c] = Idle] /\ hiccups' >= hiccups
  BY <1>3, <1>6, IdleIsState
<1>7. CASE /\ UNCHANGED hiccups
           /\ attempt' = [attempt EXCEPT ![c] = [attempt[c] EXCEPT !.no = NextNumber(row[d].attempts),
                                  !.stage = IF channel[d] = "inactive" THEN "final" ELSE "send"]]
  <2>1. (IF channel[d] = "inactive" THEN "final" ELSE "send") \in {"final", "send"}
    OBVIOUS
  <2>2. NextNumber(row[d].attempts) \in Nat /\ NextNumber(row[d].attempts) = row[d].attempts + 1
    BY <1>2 DEF NextNumber
  <2>3. PICK st \in {"final", "send"}, k \in Nat :
            k = row[d].attempts + 1 /\ attempt' = [attempt EXCEPT ![c] = [attempt[c] EXCEPT !.no = k, !.stage = st]]
    BY <1>7, <2>1, <2>2, Zenon
  <2> DEFINE n == [attempt[c] EXCEPT !.no = k, !.stage = st]
  <2>4. n \in States /\ n.of = d /\ n.no = row[d].attempts + 1 /\ n.stage = st /\ attempt' = [attempt EXCEPT ![c] = n]
    BY <1>4, <2>3
  <2>5. hiccups' >= hiccups
    BY <1>2, <1>7
  <2> HIDE DEF n
  <2> QED BY <1>3, <2>4, <2>5
<1> QED BY <1>5, <1>6, <1>7

LEMMA SendSerial ==
    ASSUME SerialInv, Shapes', NEW c \in Callers, Send(c)
    PROVE  \A e \in Deliveries : Serial(e)'
<1>0. DeliveryInv /\ Shapes
  BY DEF SerialInv, DeliveryInv
<1>1. PICK d \in Deliveries : d = attempt[c].of
  BY <1>0, UnderWay DEF Send
<1>2. /\ attempt[c].stage = "send" /\ attempt[c].stage # "idle" /\ sends[d] \in Nat
      /\ row[d].status # "none" /\ hiccups \in Nat /\ crashes \in Nat
      /\ UNCHANGED <<row, retries, refused, manual, hiccups, crashes>>
  BY <1>0, <1>1, UnderWay DEF Send
<1>3. PICK st \in {"sent", "retryable", "final"} :
          /\ attempt' = [attempt EXCEPT ![c] = [attempt[c] EXCEPT !.stage = st]]
          /\ sends' = IF st = "sent" THEN [sends EXCEPT ![d] = sends[d] + 1] ELSE sends
  BY <1>1, <1>2 DEF Send, Finish, Proceed
<1>4. PICK n \in States :
          /\ n = [attempt[c] EXCEPT !.stage = st]
          /\ n # Idle /\ n.stage = st /\ n.of = d /\ n.no = attempt[c].no
  BY <1>0, <1>1, <1>2, NextStage
<1>5. /\ attempt' = [attempt EXCEPT ![c] = n]
      /\ \A e \in Deliveries \ {d} : sends'[e] = sends[e]
      /\ sends'[d] = IF st = "sent" THEN sends[d] + 1 ELSE sends[d]
      /\ hiccups' >= hiccups /\ crashes' >= crashes
  BY <1>0, <1>2, <1>3, <1>4 DEF Shapes
<1>6. ASSUME Calm(d) PROVE Placed(n, d)'
  <2>1. Placed(attempt[c], d)
    BY <1>1, <1>2, <1>6, CalmAttempt
  <2> QED BY <1>2, <1>4, <1>5, <2>1 DEF Placed, Unsettled
<1>7. GoesOn(d, n) /\ OthersStay(d)
  BY <1>2, <1>5, <1>6 DEF GoesOn, OthersStay
<1> QED BY <1>1, <1>2, <1>4, <1>5, <1>7, AttemptSerial

LEMMA RecordSentSerial ==
    ASSUME SerialInv, Shapes', NEW c \in Callers, RecordSent(c)
    PROVE  \A e \in Deliveries : Serial(e)'
<1>0. DeliveryInv /\ Shapes
  BY DEF SerialInv, DeliveryInv
<1>1. PICK d \in Deliveries : d = attempt[c].of
  BY <1>0, UnderWay DEF RecordSent
<1>2. /\ attempt[c].stage = "sent" /\ attempt[c].stage # "idle"
      /\ row[d].status # "none" /\ hiccups \in Nat /\ crashes \in Nat /\ Owed(d) \in Nat
      /\ UNCHANGED <<retries, sends, refused, manual, crashes>> /\ crashes' >= crashes
  BY <1>0, <1>1, UnderWay DEF RecordSent, history
<1>3. CASE /\ Exists(d) /\ row' = [row EXCEPT ![d] = [status |-> "SENT", attempts |-> attempt[c].no]]
           /\ attempt' = [attempt EXCEPT ![c] = Idle] /\ UNCHANGED hiccups
  <2>1. row'[d].status = "SENT" /\ hiccups' >= hiccups /\ \A e \in Deliveries \ {d} : row'[e] = row[e]
    BY <1>0, <1>2, <1>3 DEF Shapes
  <2>2. GoesOn(d, Idle) /\ OthersStay(d)
    BY <1>2, <2>1 DEF GoesOn, OthersStay
  <2> QED BY <1>1, <1>2, <1>3, <2>1, <2>2, IdleIsState, AttemptSerial
<1>4. ASSUME attempt' = [attempt EXCEPT ![c] = [attempt[c] EXCEPT !.stage = "retryable"]], row' = row,
             \/ ~Exists(d) /\ hiccups' = hiccups
             \/ hiccups' = hiccups + 1
      PROVE  \A e \in Deliveries : Serial(e)'
  <2>1. PICK n \in States :
            /\ n = [attempt[c] EXCEPT !.stage = "retryable"]
            /\ n # Idle /\ n.stage = "retryable" /\ n.of = d /\ n.no = attempt[c].no
    BY <1>0, <1>1, <1>2, NextStage
  <2>2. attempt' = [attempt EXCEPT ![c] = n] /\ hiccups' >= hiccups
    BY <1>2, <1>4, <2>1
  <2>3. ASSUME Calm(d), Calm(d)' PROVE Placed(n, d)'
    <3>1. row[d].status = "gone"
      BY <1>2, <1>4, <2>3 DEF Calm, Exists
    <3>2. Placed(attempt[c], d)
      BY <1>1, <1>2, <2>3, CalmAttempt
    <3> QED BY <1>2, <1>4, <2>1, <3>1, <3>2 DEF Placed, Unsettled
  <2>4. GoesOn(d, n) /\ OthersStay(d)
    BY <1>2, <1>4, <2>3 DEF GoesOn, OthersStay
  <2> QED BY <1>1, <1>2, <2>1, <2>2, <2>4, AttemptSerial
<1> QED BY <1>1, <1>2, <1>3, <1>4 DEF RecordSent, Finish, Proceed

LEMMA MarkFailedSerial ==
    ASSUME SerialInv, Shapes', NEW c \in Callers, MarkFailed(c)
    PROVE  \A e \in Deliveries : Serial(e)'
<1>0. DeliveryInv /\ Shapes
  BY DEF SerialInv, DeliveryInv
<1>1. PICK d \in Deliveries : d = attempt[c].of
  BY <1>0, UnderWay DEF MarkFailed
<1>2. /\ attempt[c].stage \in {"retryable", "final"} /\ attempt[c].stage # "idle" /\ attempt[c].no \in Nat
      /\ row[d].status # "none" /\ hiccups \in Nat /\ crashes \in Nat /\ MAX_ATTEMPTS \in Nat
      /\ UNCHANGED <<retries, sends, manual, crashes>> /\ crashes' >= crashes
  BY <1>0, <1>1, UnderWay DEF MarkFailed
<1>3. CASE /\ Exists(d) /\ row' = [row EXCEPT ![d] = [status |-> "FAILED", attempts |-> attempt[c].no]]
           /\ refused' = [refused EXCEPT ![d] = refused[d] \/ attempt[c].stage = "final"]
           /\ (IF Terminal(attempt[c]) THEN Finish(c) ELSE Proceed(c, "schedule")) /\ UNCHANGED hiccups
  <2>1. /\ row'[d].status = "FAILED" /\ row'[d].attempts = attempt[c].no
        /\ \A e \in Deliveries \ {d} : row'[e] = row[e]
    BY <1>0, <1>3 DEF Shapes
  <2>a. \A e \in Deliveries : refused'[e] = IF e = d THEN refused[d] \/ attempt[c].stage = "final" ELSE refused[e]
    BY <1>0, <1>3 DEF Shapes
  <2>b. OthersStay(d) /\ hiccups' >= hiccups
    BY <1>2, <1>3, <2>1, <2>a DEF OthersStay
  <2>2. CASE Terminal(attempt[c])
    <3>1. attempt' = [attempt EXCEPT ![c] = Idle]
      BY <1>3, <2>2 DEF Finish, Proceed
    <3>2. GoesOn(d, Idle)
      BY <1>2, <2>1 DEF GoesOn
    <3> QED BY <1>1, <1>2, <2>b, <3>1, <3>2, IdleIsState, AttemptSerial
  <2>3. CASE ~Terminal(attempt[c])
    <3>1. PICK n \in States :
              /\ n = [attempt[c] EXCEPT !.stage = "schedule"]
              /\ n # Idle /\ n.stage = "schedule" /\ n.of = d /\ n.no = attempt[c].no
      BY <1>0, <1>1, <1>2, NextStage
    <3>2. /\ attempt' = [attempt EXCEPT ![c] = n]
          /\ attempt[c].stage # "final" /\ attempt[c].no < MAX_ATTEMPTS
      <4>1. attempt' = [attempt EXCEPT ![c] = [attempt[c] EXCEPT !.stage = "schedule"]]
        BY <1>3, <2>3 DEF Finish, Proceed
      <4>2. attempt[c].stage # "final" /\ attempt[c].no < MAX_ATTEMPTS
        BY <1>2, <2>3 DEF Terminal
      <4> QED BY <3>1, <4>1, <4>2
    <3>3. ASSUME Calm(d) PROVE Placed(n, d)'
      <4>1. Placed(attempt[c], d)
        BY <1>1, <1>2, <3>3, CalmAttempt
      <4>2. sends'[d] = 0
        BY <1>2, <1>3, <3>2, <4>1 DEF Placed, Exists
      <4> QED BY <2>1, <2>a, <3>1, <3>2, <4>1, <4>2 DEF Placed, Unsettled
    <3>4. GoesOn(d, n)
      BY <1>2, <2>1, <3>3 DEF GoesOn
    <3> QED BY <1>1, <1>2, <2>b, <3>1, <3>2, <3>4, AttemptSerial
  <2> QED BY <2>2, <2>3
<1>4. CASE attempt' = [attempt EXCEPT ![c] = Idle] /\ UNCHANGED <<row, refused>> /\ hiccups' >= hiccups
  <2>1. GoesOn(d, Idle) /\ OthersStay(d)
    BY <1>2, <1>4 DEF GoesOn, OthersStay
  <2> QED BY <1>1, <1>2, <1>4, <2>1, IdleIsState, AttemptSerial
<1>5. hiccups + 1 >= hiccups /\ hiccups >= hiccups
  BY <1>2
<1> QED BY <1>1, <1>3, <1>4, <1>5 DEF MarkFailed, Finish, Proceed

LEMMA ScheduleRetrySerial ==
    ASSUME SerialInv, Shapes', NEW c \in Callers, ScheduleRetry(c)
    PROVE  \A e \in Deliveries : Serial(e)'
<1>0. DeliveryInv /\ Shapes
  BY DEF SerialInv, DeliveryInv
<1>1. PICK d \in Deliveries : d = attempt[c].of
  BY <1>0, UnderWay DEF ScheduleRetry
<1>2. /\ attempt[c].stage = "schedule" /\ attempt[c].stage # "idle" /\ row[d].status # "none"
      /\ hiccups \in Nat /\ crashes \in Nat
      /\ UNCHANGED <<row, sends, refused, manual, crashes>> /\ attempt' = [attempt EXCEPT ![c] = Idle]
      /\ retries' = retries \/ retries' = [retries EXCEPT ![d] = retries[d] + 1]
      /\ hiccups' = hiccups \/ hiccups' = hiccups + 1
  BY <1>0, <1>1, UnderWay DEF ScheduleRetry, history, Finish, Proceed, OneMore
<1>3. /\ \A e \in Deliveries \ {d} : retries'[e] = retries[e]
      /\ hiccups' >= hiccups /\ crashes' >= crashes
  BY <1>0, <1>2 DEF Shapes
<1>4. ASSUME Calm(d) PROVE Unsettled(d)' /\ sends'[d] = 0
  <2>1. Placed(attempt[c], d)
    BY <1>1, <1>2, <1>4, CalmAttempt
  <2> QED BY <1>2, <2>1 DEF Placed, Unsettled
<1>5. GoesOn(d, Idle) /\ OthersStay(d)
  BY <1>2, <1>3, <1>4 DEF GoesOn, OthersStay
<1> QED BY <1>1, <1>2, <1>3, <1>5, IdleIsState, AttemptSerial

\* A crash disturbs every delivery.
LEMMA CrashSerial ==
    ASSUME SerialInv, Shapes', \/ \E c \in Callers : Crash(c)
                               \/ \E d \in Deliveries : CrashAtEnd(d)
    PROVE  \A e \in Deliveries : Serial(e)'
<1> SUFFICES ASSUME NEW e \in Deliveries PROVE ~Calm(e)'
  BY DEF Serial
<1>1. crashes \in Nat /\ crashes' = crashes + 1 /\ manual'[e] \in Nat
  BY DeliveryAssumption DEF DeliveryAssumption, SerialInv, DeliveryInv, Shapes, Crash, CrashAtEnd
<1> QED BY <1>1 DEF Calm, Owed

LEMMA CascadeSerial ==
    ASSUME SerialInv, Shapes', NEW d \in Deliveries, Cascade(d)
    PROVE  \A e \in Deliveries : Serial(e)'
<1> SUFFICES ASSUME NEW e \in Deliveries, Calm(e)' PROVE Serial(e)'
  BY DEF Serial
<1>0. /\ UNCHANGED <<retries, attempt, sends, refused, manual, hiccups, crashes>>
      /\ row' = [row EXCEPT ![d].status = "gone"] /\ Exists(d)
  BY DEF Cascade, history
<1>1. Calm(e) /\ Serial(e)
  BY <1>0 DEF Calm, Owed, SerialInv
<1>2. /\ row'[e].attempts = row[e].attempts
      /\ row'[e].status = row[e].status \/ (row'[e].status = "gone" /\ row[e].status # "none")
  BY <1>0 DEF SerialInv, DeliveryInv, Shapes, Exists
<1>3. Unsettled(e) => Unsettled(e)'
  BY <1>0, <1>2 DEF Unsettled
<1>4. ASSUME NEW u \in Callers, On(attempt'[u], e) PROVE Placed(attempt[u], e)'
  BY <1>0, <1>1, <1>2, <1>3, <1>4 DEF Serial, Placed
<1>5. retries'[e] > 0 => Unsettled(e)' /\ sends'[e] = 0
  BY <1>0, <1>1, <1>3 DEF Serial
<1>6. row'[e].status = "none" => ~refused'[e]
  BY <1>0, <1>1, <1>2 DEF Serial
<1> QED BY <1>4, <1>5, <1>6 DEF Serial

LEMMA StepSerial == SerialInv /\ Shapes' /\ [Next]_vars => \A e \in Deliveries : Serial(e)'
<1> SUFFICES ASSUME SerialInv, Shapes', [Next]_vars PROVE \A e \in Deliveries : Serial(e)'
  OBVIOUS
<1>1. ASSUME UNCHANGED <<row, retries, attempt, sends, refused, manual, hiccups, crashes>>
      PROVE  \A e \in Deliveries : Serial(e)'
  BY <1>1 DEF SerialInv, Serial, Calm, Owed, Placed, Unsettled
<1>2. ASSUME NEW d \in Deliveries, SwitchChannel(d) PROVE \A e \in Deliveries : Serial(e)'
  BY <1>1, <1>2 DEF SwitchChannel, history
<1>4. ASSUME NEW d \in Deliveries, Complete(d) PROVE \A e \in Deliveries : Serial(e)'
  BY <1>1, <1>4 DEF Complete, history
<1>3. ASSUME UNCHANGED vars PROVE \A e \in Deliveries : Serial(e)'
  BY <1>1, <1>3 DEF vars, history
<1>a. \/ \E c \in Callers, d \in Deliveries : Dispatch(c, d) \/ StartRetry(c, d) \/ ManualRetry(c, d)
      \/ \E c \in Callers : \/ Load(c) \/ Send(c) \/ RecordSent(c) \/ MarkFailed(c) \/ ScheduleRetry(c)
                            \/ Crash(c)
      \/ \E d \in Deliveries : SwitchChannel(d) \/ Cascade(d) \/ Complete(d) \/ CrashAtEnd(d)
      \/ UNCHANGED vars
  BY DEF Next, AttemptStep
<1> QED BY <1>2, <1>3, <1>4, <1>a, DispatchSerial, StartRetrySerial, ManualRetrySerial, LoadSerial, SendSerial,
           RecordSentSerial, MarkFailedSerial, ScheduleRetrySerial, CrashSerial, CascadeSerial, Zenon

LEMMA SerialInvariant == Spec => []SerialInv
<1>1. Init => SerialInv
  <2> SUFFICES ASSUME Init PROVE SerialInv
    OBVIOUS
  <2>1. DeliveryInv
    BY InitShapes, InitEnded, InitCounts DEF DeliveryInv
  <2>2. \A d \in Deliveries : ~refused[d] /\ retries[d] = 0 /\ \A c \in Callers : ~On(attempt[c], d)
    BY DEF Init, On
  <2> QED BY <2>1, <2>2 DEF SerialInv, Serial
<1>2. SerialInv /\ [Next]_vars => SerialInv'
  BY StepShapes, StepEnded, StepCounts, StepSerial DEF SerialInv, DeliveryInv
<1> QED BY <1>1, <1>2, PTL DEF Spec

\* The states of one delivery that the intent speaks of.
Results == [status : {"none", "PENDING", "SENT", "FAILED", "gone"}, attempts : Nat, accepted : Nat, refused : BOOLEAN]

\* The fields that a move of the intent may find and leave.
LEMMA CreateMoves ==
    ASSUME NEW r \in Results, NEW s \in Results,
           r.status = "none", r.attempts = 0, r.accepted = 0, ~r.refused,
           s.status = "PENDING", s.attempts = 0, s.accepted = 0, ~s.refused
    PROVE  Intent!Moves(r, s)
<1>1. r = Intent!Unsent /\ s = [r EXCEPT !.status = "PENDING"]
  BY DEF Results, Intent!Unsent
<1> QED BY <1>1 DEF Intent!Moves, Intent!Create

LEMMA AcceptMoves ==
    ASSUME NEW r \in Results, NEW s \in Results,
           r.status # "none", r.attempts < MAX_ATTEMPTS, r.accepted = 0, ~r.refused,
           s.status = r.status, s.attempts = r.attempts, s.accepted = 1, s.refused = r.refused
    PROVE  Intent!Moves(r, s)
<1>1. s = [r EXCEPT !.accepted = 1]
  BY DEF Results
<1>2. Intent!Pending(r)
  BY DEF Intent!Pending
<1> QED BY <1>1, <1>2 DEF Intent!Moves, Intent!Accept

LEMMA RecordMoves ==
    ASSUME NEW r \in Results, NEW s \in Results,
           r.status \in {"PENDING", "FAILED"}, r.attempts < MAX_ATTEMPTS, r.accepted = 1,
           s.status = "SENT", s.attempts = r.attempts + 1, s.accepted = 1, s.refused = r.refused
    PROVE  Intent!Moves(r, s)
<1>1. s = [r EXCEPT !.status = "SENT", !.attempts = @ + 1]
  BY DEF Results
<1>2. Intent!Open(r)
  BY DEF Intent!Open
<1> QED BY <1>1, <1>2 DEF Intent!Moves, Intent!Record

LEMMA FailMoves ==
    ASSUME NEW r \in Results, NEW s \in Results,
           r.status \in {"PENDING", "FAILED"}, r.attempts < MAX_ATTEMPTS, r.accepted = 0, ~r.refused,
           s.status = "FAILED", s.attempts = r.attempts + 1, s.accepted = 0
    PROVE  Intent!Moves(r, s)
<1>1. s = [r EXCEPT !.status = "FAILED", !.attempts = @ + 1, !.refused = s.refused] /\ s.refused \in BOOLEAN
  BY DEF Results
<1>2. Intent!Open(r) /\ Intent!Pending(r)
  BY DEF Intent!Open, Intent!Pending
<1> QED BY <1>1, <1>2 DEF Intent!Moves, Intent!Fail

LEMMA DeleteMoves ==
    ASSUME NEW r \in Results, NEW s \in Results,
           r.status \notin {"none", "gone"},
           s.status = "gone", s.attempts = r.attempts, s.accepted = r.accepted, s.refused = r.refused
    PROVE  Intent!Moves(r, s)
<1>1. s = [r EXCEPT !.status = "gone"]
  BY DEF Results
<1> QED BY <1>1 DEF Intent!Moves, Intent!Delete

\* One of them, by its fields.
Result(st, k, n, f) == [status |-> st, attempts |-> k, accepted |-> n, refused |-> f]

LEMMA ResultFields ==
    ASSUME NEW st \in {"none", "PENDING", "SENT", "FAILED", "gone"}, NEW k \in Nat, NEW n \in Nat, NEW f \in BOOLEAN
    PROVE  /\ Result(st, k, n, f) \in Results
           /\ Result(st, k, n, f).status = st /\ Result(st, k, n, f).attempts = k
           /\ Result(st, k, n, f).accepted = n /\ Result(st, k, n, f).refused = f
BY DEF Results, Result

\* What a delivery has come to, and comes to in a step.
LEMMA ResultOf ==
    ASSUME Shapes, Shapes', NEW d \in Deliveries
    PROVE  \E r, s \in Results :
              /\ r = Outcomes[d] /\ s = Outcomes[d]'
              /\ r.status = row[d].status /\ r.attempts = row[d].attempts
              /\ r.accepted = sends[d] /\ r.refused = refused[d]
              /\ s.status = row'[d].status /\ s.attempts = row'[d].attempts
              /\ s.accepted = sends'[d] /\ s.refused = refused'[d]
<1>1. /\ row[d].status \in {"none", "PENDING", "SENT", "FAILED", "gone"} /\ row[d].attempts \in Nat
      /\ row'[d].status \in {"none", "PENDING", "SENT", "FAILED", "gone"} /\ row'[d].attempts \in Nat
      /\ sends[d] \in Nat /\ sends'[d] \in Nat /\ refused[d] \in BOOLEAN /\ refused'[d] \in BOOLEAN
  BY DEF Shapes
<1>2. /\ Outcomes[d] = Result(row[d].status, row[d].attempts, sends[d], refused[d])
      /\ Outcomes[d]' = Result(row'[d].status, row'[d].attempts, sends'[d], refused'[d])
  BY DEF Outcomes, Result
<1>3. PICK st \in {"none", "PENDING", "SENT", "FAILED", "gone"}, k \in Nat, n \in Nat, f \in BOOLEAN :
        st = row[d].status /\ k = row[d].attempts /\ n = sends[d] /\ f = refused[d]
  BY <1>1
<1>4. PICK st2 \in {"none", "PENDING", "SENT", "FAILED", "gone"}, k2 \in Nat, n2 \in Nat, f2 \in BOOLEAN :
        st2 = row'[d].status /\ k2 = row'[d].attempts /\ n2 = sends'[d] /\ f2 = refused'[d]
  BY <1>1
<1>5. Outcomes[d] = Result(st, k, n, f) /\ Outcomes[d]' = Result(st2, k2, n2, f2)
  BY <1>2, <1>3, <1>4
<1>6. /\ Result(st, k, n, f) \in Results /\ Result(st, k, n, f).status = st /\ Result(st, k, n, f).attempts = k
      /\ Result(st, k, n, f).accepted = n /\ Result(st, k, n, f).refused = f
  BY ResultFields
<1>7. /\ Result(st2, k2, n2, f2) \in Results /\ Result(st2, k2, n2, f2).status = st2
      /\ Result(st2, k2, n2, f2).attempts = k2
      /\ Result(st2, k2, n2, f2).accepted = n2 /\ Result(st2, k2, n2, f2).refused = f2
  BY ResultFields
<1> QED BY <1>3, <1>4, <1>5, <1>6, <1>7

\* A step that leaves the outcomes of the undisturbed deliveries alone.
LEMMA Disturbs ==
    ASSUME Disturbed \subseteq Disturbed',
           \A e \in Deliveries \ Disturbed' : row'[e] = row[e] /\ sends'[e] = sends[e] /\ refused'[e] = refused[e]
    PROVE  Intent!Next
<1>1. \A e \in Deliveries \ Disturbed' : Outcomes'[e] = Outcomes[e]
  BY DEF Outcomes
<1> QED BY <1>1 DEF Intent!Next, Intent!Disturb, Intent!OthersStay

\* A step about d, when it is one the intent allows a calm delivery.
LEMMA Advances ==
    ASSUME SerialInv, NEW d \in Deliveries,
           UNCHANGED <<manual, hiccups, crashes>>,
           \A e \in Deliveries \ {d} : row'[e] = row[e] /\ sends'[e] = sends[e] /\ refused'[e] = refused[e],
           Calm(d) => Intent!Moves(Outcomes[d], Outcomes[d]')
    PROVE  Intent!Next
<1>1. Disturbed' = Disturbed
  BY DEF Disturbed
<1>2. CASE d \in Disturbed
  BY <1>1, <1>2, Disturbs
<1>3. CASE d \notin Disturbed
  <2>1. manual[d] \in Nat /\ hiccups \in Nat /\ crashes \in Nat
    BY Naturals DEF SerialInv, DeliveryInv
  <2>2. Calm(d)
    BY <1>3, <2>1 DEF Disturbed, Calm, Owed
  <2>3. \A e \in Deliveries \ {d} : Outcomes'[e] = Outcomes[e]
    BY DEF Outcomes
  <2>4. Intent!Step(d)
    BY <1>1, <2>2, <2>3 DEF Intent!Step, Intent!OthersStay
  <2> QED BY <2>4 DEF Intent!Next
<1> QED BY <1>2, <1>3

\* An error or a crash disturbs them all.
LEMMA FaultDisturbs ==
    ASSUME Shapes, hiccups' = hiccups + 1 \/ crashes' = crashes + 1
    PROVE  Intent!Next
<1>1. \/ hiccups \in Nat /\ hiccups' > 0
      \/ crashes \in Nat /\ crashes' > 0
  BY DeliveryAssumption DEF DeliveryAssumption, Shapes
<1>2. Disturbed' = Deliveries
  BY <1>1 DEF Disturbed
<1>3. Disturbed \subseteq Deliveries
  BY DEF Disturbed
<1> QED BY <1>2, <1>3, Disturbs

LEMMA DispatchAdvances ==
    ASSUME SerialInv, Shapes', NEW c \in Callers, NEW d \in Deliveries, Dispatch(c, d)
    PROVE  Intent!Next
<1>0. Shapes
  BY DEF SerialInv, DeliveryInv
<1>1. /\ row[d].status = "none" /\ row' = [row EXCEPT ![d] = [row[d] EXCEPT !.status = "PENDING"]]
      /\ UNCHANGED <<sends, refused, manual, hiccups, crashes>>
  BY DEF Dispatch, history
<1>2. /\ row'[d].status = "PENDING" /\ row'[d].attempts = row[d].attempts
      /\ \A e \in Deliveries \ {d} : row'[e] = row[e]
  BY <1>1 DEF SerialInv, DeliveryInv, Shapes
<1>3. sends[d] = 0 /\ row[d].attempts = 0
  BY <1>1 DEF SerialInv, DeliveryInv, Counted, Unborn
<1>4. ASSUME Calm(d) PROVE Intent!Moves(Outcomes[d], Outcomes[d]')
  <2>1. refused[d] = FALSE
    BY <1>1, <1>4 DEF SerialInv, DeliveryInv, Shapes, Serial
  <2>2. PICK r, s \in Results :
            /\ r = Outcomes[d] /\ s = Outcomes[d]'
            /\ r.status = row[d].status /\ r.attempts = row[d].attempts
            /\ r.accepted = sends[d] /\ r.refused = refused[d]
            /\ s.status = row'[d].status /\ s.attempts = row'[d].attempts
            /\ s.accepted = sends'[d] /\ s.refused = refused'[d]
    BY <1>0, ResultOf
  <2> QED BY <1>1, <1>2, <1>3, <2>1, <2>2, CreateMoves
<1> QED BY <1>1, <1>2, <1>4, Advances

LEMMA SendAdvances ==
    ASSUME SerialInv, Shapes', NEW c \in Callers, Send(c)
    PROVE  [Intent!Next]_<<Outcomes, Disturbed>>
<1>0. DeliveryInv /\ Shapes
  BY DEF SerialInv, DeliveryInv
<1>1. PICK d \in Deliveries : d = attempt[c].of
  BY <1>0, UnderWay DEF Send
<1>2. attempt[c].stage = "send" /\ attempt[c].stage # "idle" /\ sends[d] \in Nat
      /\ UNCHANGED <<row, refused, manual, hiccups, crashes>>
  BY <1>0, <1>1, UnderWay DEF Send
<1>3. CASE UNCHANGED sends
  BY <1>2, <1>3 DEF Outcomes, Disturbed
<1>4. CASE sends' = [sends EXCEPT ![d] = sends[d] + 1]
  <2>1. sends'[d] = sends[d] + 1 /\ \A e \in Deliveries \ {d} : sends'[e] = sends[e]
    BY <1>0, <1>4 DEF Shapes
  <2>2. ASSUME Calm(d) PROVE Intent!Moves(Outcomes[d], Outcomes[d]')
    <3>1. Unsettled(d) /\ sends[d] = 0
      BY <1>1, <1>2, <2>2, CalmAttempt DEF Placed
    <3>2. PICK r, s \in Results :
              /\ r = Outcomes[d] /\ s = Outcomes[d]'
              /\ r.status = row[d].status /\ r.attempts = row[d].attempts
              /\ r.accepted = sends[d] /\ r.refused = refused[d]
              /\ s.status = row'[d].status /\ s.attempts = row'[d].attempts
              /\ s.accepted = sends'[d] /\ s.refused = refused'[d]
      BY <1>0, ResultOf
    <3>3. row[d].status # "none" /\ row[d].attempts < MAX_ATTEMPTS /\ ~refused[d]
      BY <3>1 DEF Unsettled
    <3> QED BY <1>2, <2>1, <3>1, <3>2, <3>3, AcceptMoves
  <2> QED BY <1>2, <2>1, <2>2, Advances
<1> QED BY <1>1, <1>3, <1>4 DEF Send

LEMMA RecordSentAdvances ==
    ASSUME SerialInv, Shapes', NEW c \in Callers, RecordSent(c)
    PROVE  [Intent!Next]_<<Outcomes, Disturbed>>
<1>0. DeliveryInv /\ Shapes
  BY DEF SerialInv, DeliveryInv
<1>1. PICK d \in Deliveries : d = attempt[c].of
  BY <1>0, UnderWay DEF RecordSent
<1>2. attempt[c].stage = "sent" /\ attempt[c].stage # "idle" /\ UNCHANGED <<sends, refused, manual, crashes>>
  BY DEF RecordSent, history
<1>3. CASE hiccups' = hiccups + 1
  BY <1>0, <1>3, FaultDisturbs
<1>4. CASE UNCHANGED <<row, hiccups>>
  BY <1>2, <1>4 DEF Outcomes, Disturbed
<1>5. CASE Exists(d) /\ row' = [row EXCEPT ![d] = [status |-> "SENT", attempts |-> attempt[c].no]] /\ UNCHANGED hiccups
  <2>1. /\ row'[d].status = "SENT" /\ row'[d].attempts = attempt[c].no
        /\ \A e \in Deliveries \ {d} : row'[e] = row[e]
    BY <1>0, <1>5 DEF Shapes
  <2>2. ASSUME Calm(d) PROVE Intent!Moves(Outcomes[d], Outcomes[d]')
    <3>1. Unsettled(d) /\ sends[d] = 1 /\ attempt[c].no = row[d].attempts + 1
      BY <1>1, <1>2, <2>2, CalmAttempt DEF Placed
    <3>2. row[d].status \in {"PENDING", "FAILED"} /\ row[d].attempts < MAX_ATTEMPTS
      BY <1>0, <1>5, <3>1 DEF Shapes, Exists, Unsettled
    <3>3. PICK r, s \in Results :
              /\ r = Outcomes[d] /\ s = Outcomes[d]'
              /\ r.status = row[d].status /\ r.attempts = row[d].attempts
              /\ r.accepted = sends[d] /\ r.refused = refused[d]
              /\ s.status = row'[d].status /\ s.attempts = row'[d].attempts
              /\ s.accepted = sends'[d] /\ s.refused = refused'[d]
      BY <1>0, ResultOf
    <3> QED BY <1>2, <2>1, <3>1, <3>2, <3>3, RecordMoves
  <2> QED BY <1>2, <1>5, <2>1, <2>2, Advances
<1> QED BY <1>1, <1>3, <1>4, <1>5 DEF RecordSent

LEMMA MarkFailedAdvances ==
    ASSUME SerialInv, Shapes', NEW c \in Callers, MarkFailed(c)
    PROVE  [Intent!Next]_<<Outcomes, Disturbed>>
<1>0. DeliveryInv /\ Shapes
  BY DEF SerialInv, DeliveryInv
<1>1. PICK d \in Deliveries : d = attempt[c].of
  BY <1>0, UnderWay DEF MarkFailed
<1>2. attempt[c].stage \in {"retryable", "final"} /\ attempt[c].stage # "idle" /\ UNCHANGED <<sends, manual, crashes>>
  BY DEF MarkFailed
<1>3. CASE hiccups' = hiccups + 1
  BY <1>0, <1>3, FaultDisturbs
<1>4. CASE UNCHANGED <<row, refused, hiccups>>
  BY <1>2, <1>4 DEF Outcomes, Disturbed
<1>5. CASE /\ Exists(d) /\ row' = [row EXCEPT ![d] = [status |-> "FAILED", attempts |-> attempt[c].no]]
           /\ refused' = [refused EXCEPT ![d] = refused[d] \/ attempt[c].stage = "final"] /\ UNCHANGED hiccups
  <2>1. /\ row'[d].status = "FAILED" /\ row'[d].attempts = attempt[c].no
        /\ \A e \in Deliveries \ {d} : row'[e] = row[e] /\ refused'[e] = refused[e]
    BY <1>0, <1>5 DEF Shapes
  <2>2. ASSUME Calm(d) PROVE Intent!Moves(Outcomes[d], Outcomes[d]')
    <3>1. Unsettled(d) /\ sends[d] = 0 /\ attempt[c].no = row[d].attempts + 1
      BY <1>1, <1>2, <1>5, <2>2, CalmAttempt DEF Placed, Exists
    <3>2. row[d].status \in {"PENDING", "FAILED"} /\ row[d].attempts < MAX_ATTEMPTS /\ ~refused[d]
      BY <1>0, <1>5, <3>1 DEF Shapes, Exists, Unsettled
    <3>3. PICK r, s \in Results :
              /\ r = Outcomes[d] /\ s = Outcomes[d]'
              /\ r.status = row[d].status /\ r.attempts = row[d].attempts
              /\ r.accepted = sends[d] /\ r.refused = refused[d]
              /\ s.status = row'[d].status /\ s.attempts = row'[d].attempts
              /\ s.accepted = sends'[d] /\ s.refused = refused'[d]
      BY <1>0, ResultOf
    <3> QED BY <1>2, <2>1, <3>1, <3>2, <3>3, FailMoves
  <2> QED BY <1>2, <1>5, <2>1, <2>2, Advances
<1> QED BY <1>1, <1>3, <1>4, <1>5 DEF MarkFailed

LEMMA CascadeAdvances ==
    ASSUME SerialInv, Shapes', NEW d \in Deliveries, Cascade(d)
    PROVE  Intent!Next
<1>1. /\ Exists(d) /\ row' = [row EXCEPT ![d] = [row[d] EXCEPT !.status = "gone"]]
      /\ UNCHANGED <<sends, refused, manual, hiccups, crashes>>
  BY DEF Cascade, history
<1>2. /\ row'[d].status = "gone" /\ row'[d].attempts = row[d].attempts
      /\ \A e \in Deliveries \ {d} : row'[e] = row[e]
  BY <1>1 DEF SerialInv, DeliveryInv, Shapes
<1>3. PICK r, s \in Results :
          /\ r = Outcomes[d] /\ s = Outcomes[d]'
          /\ r.status = row[d].status /\ r.attempts = row[d].attempts
          /\ r.accepted = sends[d] /\ r.refused = refused[d]
          /\ s.status = row'[d].status /\ s.attempts = row'[d].attempts
          /\ s.accepted = sends'[d] /\ s.refused = refused'[d]
  BY ResultOf DEF SerialInv, DeliveryInv
<1>4. Intent!Moves(r, s)
  BY <1>1, <1>2, <1>3, DeleteMoves DEF Exists
<1> QED BY <1>1, <1>2, <1>3, <1>4, Advances

LEMMA ManualRetryDisturbs ==
    ASSUME SerialInv, NEW c \in Callers, NEW d \in Deliveries, ManualRetry(c, d)
    PROVE  Intent!Next
<1>1. \A e \in Deliveries : manual[e] > 0 => manual'[e] > 0
  <2>1. \A e \in Deliveries : manual[e] \in Nat /\ manual'[e] = IF e = d THEN manual[e] + 1 ELSE manual[e]
    BY DeliveryAssumption DEF DeliveryAssumption, SerialInv, DeliveryInv, Shapes, ManualRetry
  <2> QED BY <2>1
<1>2. UNCHANGED <<row, sends, refused, hiccups, crashes>>
  BY DEF ManualRetry
<1>3. Disturbed \subseteq Disturbed'
  BY <1>1, <1>2 DEF Disturbed
<1> QED BY <1>2, <1>3, Disturbs

LEMMA StepAdvances == SerialInv /\ [Next]_vars => [Intent!Next]_<<Outcomes, Disturbed>>
<1> SUFFICES ASSUME SerialInv, [Next]_vars PROVE [Intent!Next]_<<Outcomes, Disturbed>>
  OBVIOUS
<1>1. ASSUME UNCHANGED <<row, sends, refused, manual, hiccups, crashes>>
      PROVE  UNCHANGED <<Outcomes, Disturbed>>
  BY <1>1 DEF Outcomes, Disturbed
<1>0. Shapes'
  BY StepShapes DEF SerialInv, DeliveryInv
<1>2. ASSUME NEW c \in Callers, Load(c) \/ ScheduleRetry(c) \/ Crash(c)
      PROVE  [Intent!Next]_<<Outcomes, Disturbed>>
  <2>1. \/ UNCHANGED <<row, sends, refused, manual, hiccups, crashes>>
        \/ hiccups' = hiccups + 1
        \/ crashes' = crashes + 1
    BY <1>2 DEF Load, ScheduleRetry, Crash, history
  <2> QED BY <1>1, <2>1, FaultDisturbs DEF SerialInv, DeliveryInv
<1>3. ASSUME NEW c \in Callers, NEW d \in Deliveries, StartRetry(c, d)
      PROVE  UNCHANGED <<Outcomes, Disturbed>>
  BY <1>1, <1>3 DEF StartRetry, history
<1>4. ASSUME NEW d \in Deliveries, SwitchChannel(d) \/ Complete(d)
      PROVE  UNCHANGED <<Outcomes, Disturbed>>
  BY <1>1, <1>4 DEF SwitchChannel, Complete, history
<1>6. ASSUME NEW d \in Deliveries, CrashAtEnd(d)
      PROVE  [Intent!Next]_<<Outcomes, Disturbed>>
  BY <1>6, FaultDisturbs DEF SerialInv, DeliveryInv, CrashAtEnd, history
<1>5. ASSUME UNCHANGED vars PROVE UNCHANGED <<Outcomes, Disturbed>>
  BY <1>1, <1>5 DEF vars, history
<1>a. \/ \E c \in Callers, d \in Deliveries : Dispatch(c, d) \/ StartRetry(c, d) \/ ManualRetry(c, d)
      \/ \E c \in Callers : \/ Load(c) \/ Send(c) \/ RecordSent(c) \/ MarkFailed(c) \/ ScheduleRetry(c)
                            \/ Crash(c)
      \/ \E d \in Deliveries : SwitchChannel(d) \/ Cascade(d) \/ Complete(d) \/ CrashAtEnd(d)
      \/ UNCHANGED vars
  BY DEF Next, AttemptStep
<1> QED BY <1>0, <1>2, <1>3, <1>4, <1>5, <1>6, <1>a, DispatchAdvances, ManualRetryDisturbs, SendAdvances,
           RecordSentAdvances, MarkFailedAdvances, CascadeAdvances, Zenon

\* Attempts of a delivery that read, send and write in separate steps implement
\* DeliveryIntent: undisturbed, it goes out once, is counted right, and ends.
THEOREM DeliveryImplements == Spec => ImplementsIntent
<1>1. Init => Intent!Init
  BY DEF Init, Intent!Init, Intent!Unsent, Outcomes, Disturbed
<1>2. SerialInv /\ [Next]_vars => [Intent!Next]_<<Outcomes, Disturbed>>
  BY StepAdvances
<1> QED BY <1>1, <1>2, SerialInvariant, PTL DEF Spec, ImplementsIntent, Intent!Spec
=============================================================================
