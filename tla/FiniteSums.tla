------------------------------- MODULE FiniteSums -------------------------------
(***************************************************************************)
(* Lemmas about recursion over finite sets that the proofs of several      *)
(* components cite: a fold has a solution and only one, and a sum of       *)
(* naturals does not depend on the order of its terms, so that none of     *)
(* them exceeds it.                                                        *)
(***************************************************************************)
EXTENDS Integers, FiniteSetTheorems, WellFoundedInduction, TLAPS

\* Induction over the naturals, as a statement about sets.
LEMMA FromZero ==
    ASSUME NEW S, 0 \in S, \A n \in S : n \in Nat => n + 1 \in S
    PROVE  Nat \subseteq S
<1> SUFFICES ASSUME Nat \ S # {} PROVE FALSE
  OBVIOUS
<1>1. PICK n \in Nat \ S : \A m \in Nat \ S : ~(<<m, n>> \in OpToRel(<, Nat))
  <2> DEFINE R == OpToRel(<, Nat)
             T == Nat \ S
  <2>1. IsWellFoundedOn(R, Nat) /\ T \subseteq Nat /\ T # {}
    BY NatLessThanWellFounded
  <2> HIDE DEF R, T
  <2>2. \E x \in T : \A y \in T : ~(<<y, x>> \in R)
    BY <2>1, WFMin
  <2> QED BY <2>2 DEF R, T
<1>2. \A m \in Nat \ S : ~(m < n)
  BY <1>1 DEF OpToRel
<1>3. n # 0 /\ n - 1 \in Nat /\ n - 1 < n
  OBVIOUS
<1>4. n - 1 \in S
  BY <1>2, <1>3
<1>5. (n - 1) + 1 \in S
  BY <1>3, <1>4
<1> QED BY <1>5

\* A fold over a finite set is one function on its subsets.
Folds(D, g, base, op) ==
    g[{}] = base /\ \A T \in SUBSET D : T # {} =>
        LET x == CHOOSE y \in T : TRUE IN g[T] = op[<<x, g[T \ {x}]>>]

LEMMA FoldExists ==
    ASSUME NEW D, IsFiniteSet(D), NEW V, NEW base \in V, NEW op \in [D \X V -> V]
    PROVE  \E g \in [SUBSET D -> V] : Folds(D, g, base, op)
<1> DEFINE Small(i) == {T \in SUBSET D : Cardinality(T) <= i}
           pick(T) == CHOOSE y \in T : TRUE
           Solves(g, i) == /\ g[{}] = base
                           /\ \A T \in Small(i) : T # {} => g[T] = op[<<pick(T), g[T \ {pick(T)}]>>]
           S == {i \in Nat : \E g \in [SUBSET D -> V] : Solves(g, i)}
<1>0. \A T \in SUBSET D : IsFiniteSet(T) /\ Cardinality(T) \in Nat /\ (Cardinality(T) = 0 <=> T = {})
  BY FS_Subset, FS_CardinalityType, FS_EmptySet
<1>1. 0 \in S
  <2>1. [T \in SUBSET D |-> base] \in [SUBSET D -> V]
    OBVIOUS
  <2>2. Solves([T \in SUBSET D |-> base], 0)
    BY <1>0
  <2> QED BY <2>1, <2>2
<1>2. ASSUME NEW i \in S PROVE i + 1 \in S
  <2>0. i \in Nat
    OBVIOUS
  <2>1. PICK g \in [SUBSET D -> V] : Solves(g, i)
    OBVIOUS
  <2> DEFINE h == [T \in SUBSET D |-> IF T \in Small(i) THEN g[T] ELSE op[<<pick(T), g[T \ {pick(T)}]>>]]
  <2>2. \A T \in SUBSET D : T # {} => pick(T) \in T
    OBVIOUS
  <2>3. {} \in Small(i)
    BY <1>0, <2>0
  <2>4. h \in [SUBSET D -> V]
    <3>1. ASSUME NEW T \in SUBSET D PROVE h[T] \in V
      <4>1. CASE T \in Small(i)
        BY <2>1, <4>1
      <4>2. CASE T \notin Small(i)
        <5>1. T # {} /\ pick(T) \in D /\ T \ {pick(T)} \in SUBSET D
          BY <2>2, <2>3, <4>2
        <5>2. g[T \ {pick(T)}] \in V
          BY <2>1, <5>1
        <5> HIDE DEF pick
        <5> QED BY <4>2, <5>1, <5>2
      <4> QED BY <4>1, <4>2
    <3> QED BY <3>1
  <2>5. h[{}] = base
    BY <2>1, <2>3
  <2>6. ASSUME NEW T \in Small(i + 1), T # {}
        PROVE  h[T] = op[<<pick(T), h[T \ {pick(T)}]>>]
    <3>1. pick(T) \in T
      BY <2>2, <2>6
    <3> HIDE DEF pick
    <3>2. Cardinality(T \ {pick(T)}) = Cardinality(T) - 1
      BY <1>0, <3>1, FS_RemoveElement
    <3>3. T \ {pick(T)} \in Small(i)
      <4>1. PICK n \in Nat, m \in Nat : n = Cardinality(T) /\ m = Cardinality(T \ {pick(T)})
        BY <1>0
      <4>2. n <= i + 1 /\ m = n - 1
        BY <2>6, <3>2, <4>1
      <4> QED BY <2>0, <4>1, <4>2
    <3>4. h[T \ {pick(T)}] = g[T \ {pick(T)}]
      BY <3>3
    <3>5. CASE T \in Small(i)
      BY <2>1, <2>6, <3>4, <3>5
    <3>6. CASE T \notin Small(i)
      BY <3>4, <3>6
    <3> QED BY <3>5, <3>6
  <2> HIDE DEF h
  <2>7. Solves(h, i + 1)
    BY <2>5, <2>6
  <2> HIDE DEF Solves
  <2> QED BY <2>0, <2>4, <2>7
<1>3. Nat \subseteq S
  <2> HIDE DEF S
  <2> QED BY <1>1, <1>2, FromZero
<1>4. PICK n \in Nat : n = Cardinality(D)
  BY <1>0
<1>5. PICK g \in [SUBSET D -> V] : Solves(g, n)
  BY <1>3, <1>4
<1>6. \A T \in SUBSET D : T \in Small(n)
  BY <1>4, FS_Subset
<1> QED BY <1>5, <1>6 DEF Folds

\* F sums f, taking the terms in some order.
SumsUp(D, f, F) ==
    /\ f \in [D -> Nat] /\ F \in [SUBSET D -> Nat]
    /\ \A T \in SUBSET D : T # {} => \E x \in T : F[T] = f[x] + F[T \ {x}]

AnyTerm(D, f, F) == \A T \in SUBSET D : \A x \in T : F[T] = f[x] + F[T \ {x}]

\* A sum does not depend on that order.
LEMMA AnyOrder ==
    ASSUME NEW D, IsFiniteSet(D), NEW f, NEW F, SumsUp(D, f, F)
    PROVE  AnyTerm(D, f, F)
<1> DEFINE Takes(T) == \A x \in T : F[T] = f[x] + F[T \ {x}]
           S == {i \in Nat : \A T \in SUBSET D : Cardinality(T) = i => Takes(T)}
<1>0. \A T \in SUBSET D : IsFiniteSet(T) /\ Cardinality(T) \in Nat /\ (Cardinality(T) = 0 <=> T = {})
  BY FS_Subset, FS_CardinalityType, FS_EmptySet
<1> USE DEF SumsUp
<1>1. 0 \in S
  BY <1>0
<1>2. ASSUME NEW i \in S PROVE i + 1 \in S
  <2> SUFFICES ASSUME NEW T \in SUBSET D, Cardinality(T) = i + 1, NEW x \in T
               PROVE  F[T] = f[x] + F[T \ {x}]
    OBVIOUS
  <2>1. PICK y \in T : F[T] = f[y] + F[T \ {y}]
    OBVIOUS
  <2>2. \A z \in T : T \ {z} \in SUBSET D /\ Cardinality(T \ {z}) = i /\ Takes(T \ {z})
    <3> TAKE z \in T
    <3>1. Cardinality(T \ {z}) = Cardinality(T) - 1
      BY <1>0, FS_RemoveElement
    <3>2. T \ {z} \in SUBSET D /\ Cardinality(T \ {z}) = i
      BY <3>1
    <3> QED BY <3>2
  <2>3. CASE x = y
    BY <2>1, <2>3
  <2>4. CASE x # y
    <3>1. F[T \ {y}] = f[x] + F[(T \ {y}) \ {x}]
      BY <2>2, <2>4
    <3>2. F[T \ {x}] = f[y] + F[(T \ {x}) \ {y}]
      BY <2>2, <2>4
    <3>3. (T \ {y}) \ {x} = (T \ {x}) \ {y}
      OBVIOUS
    <3>4. f[x] \in Nat /\ f[y] \in Nat /\ F[(T \ {x}) \ {y}] \in Nat
      OBVIOUS
    <3>5. f[y] + (f[x] + F[(T \ {x}) \ {y}]) = f[x] + (f[y] + F[(T \ {x}) \ {y}])
      BY <3>4
    <3> QED BY <2>1, <3>1, <3>2, <3>3, <3>5
  <2> QED BY <2>3, <2>4
<1>3. Nat \subseteq S
  <2> HIDE DEF S
  <2> QED BY <1>1, <1>2, FromZero
<1>4. ASSUME NEW T \in SUBSET D PROVE Takes(T)
  <2>1. Cardinality(T) \in S
    BY <1>0, <1>3
  <2> QED BY <2>1
<1> QED BY <1>4 DEF AnyTerm

\* A fold is known from what it is for the empty set and from one element less.
LEMMA SameFold ==
    ASSUME NEW D, IsFiniteSet(D), NEW f, NEW h, f[{}] = h[{}],
           \A T \in SUBSET D : T # {} =>
               LET x == CHOOSE y \in T : TRUE IN f[T \ {x}] = h[T \ {x}] => f[T] = h[T]
    PROVE  f[D] = h[D]
<1> DEFINE S == {i \in Nat : \A T \in SUBSET D : Cardinality(T) = i => f[T] = h[T]}
<1>0. \A T \in SUBSET D : IsFiniteSet(T) /\ Cardinality(T) \in Nat /\ (Cardinality(T) = 0 <=> T = {})
  BY FS_Subset, FS_CardinalityType, FS_EmptySet
<1>1. 0 \in S
  BY <1>0
<1>2. ASSUME NEW i \in S PROVE i + 1 \in S
  <2> SUFFICES ASSUME NEW T \in SUBSET D, Cardinality(T) = i + 1 PROVE f[T] = h[T]
    OBVIOUS
  <2>1. T # {}
    BY <1>0
  <2>2. PICK x \in T : x = CHOOSE y \in T : TRUE
    BY <2>1
  <2>3. Cardinality(T \ {x}) = Cardinality(T) - 1
    BY <1>0, FS_RemoveElement
  <2>4. T \ {x} \in SUBSET D /\ Cardinality(T \ {x}) = i
    BY <2>3
  <2>5. f[T \ {x}] = h[T \ {x}]
    BY <2>4
  <2> QED BY <2>1, <2>2, <2>5
<1>3. Nat \subseteq S
  <2> HIDE DEF S
  <2> QED BY <1>1, <1>2, FromZero
<1>4. Cardinality(D) \in S
  BY <1>0, <1>3
<1> QED BY <1>4

\* The terms of a sum over K, in any order and in the order of a fold.
Terms(K, w, F) ==
    F \in [SUBSET K -> Nat] /\ F[{}] = 0 /\ AnyTerm(K, w, F)
Chosen(T) == CHOOSE y \in T : TRUE

LEMMA IsChosen == \A T : T # {} => Chosen(T) \in T
BY DEF Chosen

LEMMA TermsExist ==
    ASSUME NEW K, IsFiniteSet(K), NEW w \in [K -> Nat]
    PROVE  \E F : Terms(K, w, F)
<1> DEFINE op == [q \in K \X Nat |-> w[q[1]] + q[2]]
<1>1. op \in [K \X Nat -> Nat]
  <2>1. ASSUME NEW q \in K \X Nat PROVE w[q[1]] + q[2] \in Nat
    <3>1. q[1] \in K /\ q[2] \in Nat
      OBVIOUS
    <3>2. w[q[1]] \in Nat
      BY <3>1
    <3> QED BY <3>1, <3>2
  <2> QED BY <2>1
<1>2. \A x \in K, v \in Nat : op[<<x, v>>] = w[x] + v
  OBVIOUS
<1> HIDE DEF op
<1>3. PICK F \in [SUBSET K -> Nat] : Folds(K, F, 0, op)
  BY <1>1, FoldExists
<1>4. \A T \in SUBSET K : T # {} => \E x \in T : F[T] = w[x] + F[T \ {x}]
  <2> SUFFICES ASSUME NEW T \in SUBSET K, T # {} PROVE \E x \in T : F[T] = w[x] + F[T \ {x}]
    OBVIOUS
  <2>1. PICK x \in T : x = CHOOSE y \in T : TRUE
    OBVIOUS
  <2>2. F[T] = op[<<x, F[T \ {x}]>>]
    BY <1>3, <2>1 DEF Folds
  <2>3. x \in K /\ F[T \ {x}] \in Nat
    OBVIOUS
  <2> QED BY <1>2, <2>2, <2>3
<1>5. AnyTerm(K, w, F)
  <2>1. SumsUp(K, w, F)
    BY <1>4 DEF SumsUp
  <2> QED BY <2>1, AnyOrder
<1>6. F[{}] = 0
  BY <1>3 DEF Folds
<1> QED BY <1>5, <1>6 DEF Terms

\* No term exceeds the sum.
LEMMA TermBelowSum ==
    ASSUME NEW K, NEW w \in [K -> Nat], NEW F, Terms(K, w, F), NEW x \in K
    PROVE  w[x] <= F[K]
<1>1. F[K] = w[x] + F[K \ {x}] /\ F[K \ {x}] \in Nat
  BY DEF Terms, AnyTerm
<1> QED BY <1>1
=================================================================================
