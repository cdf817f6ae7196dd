------------------------------ MODULE NumberLemmas ------------------------------
(***************************************************************************)
(* Least and greatest elements, which the proofs about the outbox, the     *)
(* inbox and the roster use; the library's induction theorem takes an      *)
(* operator, this one a set.                                               *)
(***************************************************************************)
EXTENDS Integers, FiniteSets, FunctionTheorems, FiniteSetTheorems, WellFoundedInduction, TLAPS

\* Every set of natural numbers has a least element.
LEMMA LeastNumber ==
    ASSUME NEW T \in SUBSET Nat, T # {}
    PROVE  \E m \in T : \A n \in T : m =< n
<1>1. PICK m \in T : \A n \in T : <<n, m>> \notin OpToRel(<, Nat)
  BY NatLessThanWellFounded, WFMin
<1>2. \A n \in T : n < m => <<n, m>> \in OpToRel(<, Nat)
  BY DEF OpToRel
<1>3. \A n \in T : ~(n < m)
  BY <1>1, <1>2
<1>4. \A n \in T : m \in Nat /\ n \in Nat
  OBVIOUS
<1>5. QED BY <1>3, <1>4

\* What holds of 0 and of the successor of every number it holds of, holds of every number.
LEMMA NumberInduction ==
    ASSUME NEW T, 0 \in T, \A n \in Nat : n \in T => n + 1 \in T
    PROVE  Nat \subseteq T
<1> SUFFICES ASSUME Nat \ T # {} PROVE FALSE
  OBVIOUS
<1>1. PICK m \in Nat \ T : \A n \in Nat \ T : m =< n
  BY LeastNumber
<1>2. m - 1 \in Nat /\ m - 1 \in T
  BY <1>1
<1>3. QED BY <1>1, <1>2

\* A list of numbers has a greatest one.
LEMMA GreatestListed ==
    ASSUME NEW n \in Nat, n # 0, NEW f \in [1..n -> Nat]
    PROVE  \E i \in 1..n : \A j \in 1..n : f[j] =< f[i]
<1> DEFINE T == {k \in Nat : k + 1 =< n => \E i \in 1..k + 1 : \A j \in 1..k + 1 : f[j] =< f[i]}
<1>1. 0 \in T
  <2>1. 1..0 + 1 = {1} /\ f[1] \in Nat
    OBVIOUS
  <2>2. QED BY <2>1
<1>2. ASSUME NEW k \in Nat, k \in T PROVE k + 1 \in T
  <2>1. SUFFICES ASSUME (k + 1) + 1 =< n
                 PROVE  \E i \in 1..(k + 1) + 1 : \A j \in 1..(k + 1) + 1 : f[j] =< f[i]
    OBVIOUS
  <2>2. PICK i \in 1..k + 1 : \A j \in 1..k + 1 : f[j] =< f[i]
    BY <1>2, <2>1
  <2>3. \A j \in 1..(k + 1) + 1 : f[j] \in Nat /\ (j \in 1..k + 1 \/ j = (k + 1) + 1)
    BY <2>1
  <2>4. CASE f[(k + 1) + 1] =< f[i]
    <3>1. \A j \in 1..(k + 1) + 1 : f[j] =< f[i]
      BY <2>2, <2>3, <2>4
    <3>2. i \in 1..(k + 1) + 1
      OBVIOUS
    <3>3. QED BY <3>1, <3>2
  <2>5. CASE f[i] =< f[(k + 1) + 1]
    <3>1. \A j \in 1..(k + 1) + 1 : f[j] =< f[(k + 1) + 1]
      BY <2>2, <2>3, <2>5
    <3>2. QED BY <3>1
  <2>6. QED BY <2>3, <2>4, <2>5
<1>3. n - 1 \in T
  <2> HIDE DEF T
  <2>1. \A k \in Nat : k \in T => k + 1 \in T
    BY <1>2
  <2>2. Nat \subseteq T
    BY <1>1, <2>1, NumberInduction
  <2>3. QED BY <2>2
<1>4. QED BY <1>3

\* Every finite set of natural numbers has a greatest element.
LEMMA GreatestNumber ==
    ASSUME NEW T \in SUBSET Nat, IsFiniteSet(T), T # {}
    PROVE  \E m \in T : \A k \in T : k =< m
<1>1. PICK n \in Nat : ExistsBijection(1..n, T)
  BY FS_NatBijection
<1>2. PICK f : f \in Bijection(1..n, T)
  BY <1>1 DEF ExistsBijection
<1>3. f \in [1..n -> T] /\ \A t \in T : \E i \in 1..n : f[i] = t
  BY <1>2 DEF Bijection, Surjection, Injection
<1>4. n # 0
  <2>1. PICK t \in T : TRUE
    OBVIOUS
  <2>2. PICK i \in 1..n : f[i] = t
    BY <1>3
  <2>3. QED BY <2>2
<1>5. PICK i \in 1..n : \A j \in 1..n : f[j] =< f[i]
  <2>1. f \in [1..n -> Nat]
    BY <1>3
  <2>2. QED BY <1>4, <2>1, GreatestListed
<1>6. QED BY <1>3, <1>5

\* So has every set of integers between two bounds.
LEMMA GreatestBounded ==
    ASSUME NEW a \in Int, NEW b \in Int, NEW T \in SUBSET (a..b), T # {}
    PROVE  \E m \in T : \A k \in T : k =< m
<1>1. {b - t : t \in T} \in SUBSET Nat /\ {b - t : t \in T} # {}
  <2>1. \A t \in T : t \in a..b
    OBVIOUS
  <2>2. \A t \in T : b - t \in Nat
    BY <2>1
  <2>3. PICK t \in T : TRUE
    OBVIOUS
  <2>4. b - t \in {b - u : u \in T}
    OBVIOUS
  <2>5. QED BY <2>2, <2>4
<1>2. PICK d \in {b - t : t \in T} : \A e \in {b - t : t \in T} : d =< e
  BY <1>1, LeastNumber
<1>3. PICK m \in T : d = b - m
  BY <1>2
<1>4. \A k \in T : b - m =< b - k
  BY <1>2, <1>3
<1>5. \A k \in T : k \in Int /\ m \in Int
  OBVIOUS
<1>6. QED BY <1>4, <1>5

\* In a finite set of natural numbers one is the k-th from below.
LEMMA RankedNumber ==
    ASSUME NEW S \in SUBSET Nat, IsFiniteSet(S), NEW k \in 1..Cardinality(S)
    PROVE  \E n \in S : Cardinality({m \in S : m =< n}) = k
<1> DEFINE Ranked(T, j) == \E n \in T : Cardinality({m \in T : m =< n}) = j
           Good == {c \in Nat : \A T \in SUBSET Nat : IsFiniteSet(T) /\ Cardinality(T) = c =>
                                   \A j \in 1..c : Ranked(T, j)}
<1>1. 0 \in Good
  OBVIOUS
<1>2. ASSUME NEW c \in Nat, c \in Good PROVE c + 1 \in Good
  <2> SUFFICES ASSUME NEW T \in SUBSET Nat, IsFiniteSet(T), Cardinality(T) = c + 1,
                      NEW j \in 1..c + 1
               PROVE  Ranked(T, j)
    OBVIOUS
  <2>1. T # {}
    BY FS_EmptySet
  <2>2. PICK x \in T : \A n \in T : n =< x
    BY <2>1, GreatestNumber
  <2> DEFINE U == T \ {x}
  <2>3. IsFiniteSet(U) /\ Cardinality(U) = c /\ U \in SUBSET Nat
    BY SMTT(30), <2>2, FS_RemoveElement
  <2>4. CASE j = c + 1
    <3>1. {m \in T : m =< x} = T
      BY <2>2
    <3>2. QED BY <3>1, <2>2, <2>4
  <2>5. CASE j \in 1..c
    <3>1. Ranked(U, j)
      BY <2>3, <2>5, <1>2
    <3>2. PICK n \in U : Cardinality({m \in U : m =< n}) = j
      BY <3>1
    <3>3. {m \in U : m =< n} = {m \in T : m =< n}
      <4>1. ~(x =< n)
        <5>1. n =< x /\ n # x /\ n \in Nat /\ x \in Nat
          BY <2>2, <3>2
        <5>2. QED BY <5>1
      <4>2. QED BY <4>1
    <3>4. QED BY <3>2, <3>3
  <2>6. QED BY <2>4, <2>5
<1>3. Nat \subseteq Good
  <2> HIDE DEF Good
  <2>1. QED BY <1>1, <1>2, NumberInduction
<1>4. Cardinality(S) \in Nat
  BY FS_CardinalityType
<1>5. QED BY <1>3, <1>4

\* And the rank tells which.
LEMMA RankTells ==
    ASSUME NEW S \in SUBSET Nat, IsFiniteSet(S), NEW n \in S, NEW p \in S,
           Cardinality({m \in S : m =< n}) = Cardinality({m \in S : m =< p})
    PROVE  n = p
<1>1. ASSUME NEW x \in S, NEW y \in S, x < y,
             Cardinality({m \in S : m =< x}) = Cardinality({m \in S : m =< y})
      PROVE  FALSE
  <2>1. {m \in S : m =< x} \in SUBSET {m \in S : m =< y} /\ y \notin {m \in S : m =< x}
    <3>1. \A m \in S : m =< x => m =< y
      BY <1>1
    <3>2. ~(y =< x)
      BY <1>1
    <3>3. QED BY <3>1, <3>2
  <2>2. IsFiniteSet({m \in S : m =< y})
    BY FS_Subset
  <2>3. {m \in S : m =< x} = {m \in S : m =< y}
    BY <2>1, <2>2, <1>1, FS_Subset
  <2>4. y \in {m \in S : m =< y}
    BY <1>1
  <2>5. QED BY <2>1, <2>3, <2>4
<1>2. n < p \/ p < n \/ n = p
  OBVIOUS
<1>3. QED BY <1>1, <1>2
===============================================================================
