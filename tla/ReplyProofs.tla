------------------------------- MODULE ReplyProofs -------------------------------
(***************************************************************************)
(* Proofs about Conversation, what a reply is made from: whatever is said, *)
(* by however many, in whatever order the readers spool it and however     *)
(* their clocks differ.  And proofs about Sending, what becomes of it:     *)
(* whatever text it is, however it is split and for any number of tries.   *)
(***************************************************************************)
EXTENDS Conversation, Sending, NumberLemmas, SequenceTheorems

-------------------------------------------------------------------------------
(* The order of time, and a set of messages listed in it.                  *)

\* Messages that Telegram numbered.
Apart(rows) == /\ rows \subseteq Message /\ IsFiniteSet(rows)
               /\ \A r, s \in rows : r.id = s.id => r = s

LEMMA MessageTypes ==
    ASSUME NEW r \in Message
    PROVE  /\ r.id \in Nat /\ r.id \in Id /\ r.id # 0 /\ r.ts \in Int /\ r.parent \in Nat
           /\ r.sender \in Sender \cup {Nobody} /\ r.topic \in Id \cup {Main}
           /\ r.cue \in Cue
<1>1. /\ r.id \in 1..MaxSpool /\ r.ts \in Int /\ r.parent \in 0..MaxSpool
      /\ r.sender \in Sender \cup {Nobody} /\ r.topic \in Id \cup {Main} /\ r.cue \in Cue
  BY DEF Message, Id
<1>2. r.id \in Nat /\ r.id # 0 /\ r.parent \in Nat
  BY <1>1
<1>3. QED BY <1>1, <1>2 DEF Id

LEMMA EarlierOrders ==
    ASSUME NEW r \in Message, NEW s \in Message, NEW t \in Message
    PROVE  /\ ~Earlier(r, r)
           /\ Earlier(r, s) => ~Earlier(s, r)
           /\ Earlier(r, s) /\ Earlier(s, t) => Earlier(r, t)
           /\ r.id # s.id => Earlier(r, s) \/ Earlier(s, r)
<1>1. \A m \in {r, s, t} : m.id \in Nat /\ m.ts \in Int
  BY MessageTypes
<1>2. QED BY <1>1 DEF Earlier

\* How many of rows came before r.
Before(rows, r) == {s \in rows : Earlier(s, r)}
Place(rows, r) == Cardinality(Before(rows, r))

LEMMA PlaceTypes ==
    ASSUME NEW R, Apart(R), NEW r \in R
    PROVE  Place(R, r) \in 0..Cardinality(R) - 1
<1>1. Before(R, r) \in SUBSET R /\ r \notin Before(R, r) /\ IsFiniteSet(R)
  BY EarlierOrders DEF Before, Apart
<1>2. /\ IsFiniteSet(Before(R, r)) /\ Cardinality(Before(R, r)) =< Cardinality(R)
      /\ Cardinality(Before(R, r)) # Cardinality(R)
  BY <1>1, FS_Subset
<1>3. Cardinality(Before(R, r)) \in Nat /\ Cardinality(R) \in Nat
  BY <1>1, <1>2, FS_CardinalityType
<1>4. QED BY <1>2, <1>3 DEF Place

LEMMA PlaceGrows ==
    ASSUME NEW R, Apart(R), NEW r \in R, NEW s \in R, Earlier(r, s)
    PROVE  Place(R, r) < Place(R, s)
<1>1. Before(R, r) \in SUBSET Before(R, s)
  <2>1. \A m \in R : Earlier(m, r) => Earlier(m, s)
    BY EarlierOrders DEF Apart
  <2>2. QED BY <2>1 DEF Before
<1>2. r \in Before(R, s) /\ r \notin Before(R, r)
  BY EarlierOrders DEF Before, Apart
<1>3. IsFiniteSet(Before(R, s)) /\ IsFiniteSet(Before(R, r))
  <2>1. Before(R, s) \in SUBSET R /\ Before(R, r) \in SUBSET R /\ IsFiniteSet(R)
    BY DEF Before, Apart
  <2>2. QED BY <2>1, FS_Subset
<1>4. /\ Cardinality(Before(R, r)) =< Cardinality(Before(R, s))
      /\ Cardinality(Before(R, r)) # Cardinality(Before(R, s))
  BY <1>1, <1>2, <1>3, FS_Subset
<1>5. Cardinality(Before(R, r)) \in Nat /\ Cardinality(Before(R, s)) \in Nat
  BY <1>3, FS_CardinalityType
<1>6. QED BY <1>4, <1>5 DEF Place

LEMMA PlaceTells ==
    ASSUME NEW R, Apart(R), NEW r \in R, NEW s \in R
    PROVE  /\ Place(R, r) = Place(R, s) => r = s
           /\ Place(R, r) < Place(R, s) => Earlier(r, s)
<1>1. r # s => Earlier(r, s) \/ Earlier(s, r)
  BY EarlierOrders DEF Apart
<1>2. /\ Earlier(r, s) => Place(R, r) < Place(R, s)
      /\ Earlier(s, r) => Place(R, s) < Place(R, r)
  BY PlaceGrows
<1>3. Place(R, r) \in Int /\ Place(R, s) \in Int
  <2>1. Place(R, r) \in 0..Cardinality(R) - 1 /\ Place(R, s) \in 0..Cardinality(R) - 1
    BY PlaceTypes
  <2>2. QED BY <2>1
<1>4. QED BY <1>1, <1>2, <1>3

\* Every place is taken.
LEMMA PlaceTaken ==
    ASSUME NEW R, Apart(R), NEW k \in 1..Cardinality(R)
    PROVE  \E r \in R : Place(R, r) = k - 1
<1> DEFINE n == Cardinality(R)
           f == [r \in R |-> Place(R, r) + 1]
<1>1. IsFiniteSet(R) /\ n \in Nat
  BY FS_CardinalityType DEF Apart
<1>2. \A r \in R : Place(R, r) + 1 \in 1..n
  <2>1. \A r \in R : Place(R, r) \in 0..n - 1
    BY PlaceTypes
  <2>2. QED BY <1>1, <2>1
<1>3. \A r, s \in R : Place(R, r) + 1 = Place(R, s) + 1 => r = s
  <2>1. \A r \in R : Place(R, r) \in 0..n - 1
    BY PlaceTypes
  <2>2. \A r, s \in R : Place(R, r) + 1 = Place(R, s) + 1 => Place(R, r) = Place(R, s)
    BY <1>1, <2>1
  <2>3. QED BY <2>2, PlaceTells
<1>4. f \in Injection(R, 1..n)
  BY <1>2, <1>3 DEF Injection, IsInjective
<1>5. IsFiniteSet(1..n) /\ Cardinality(1..n) = n
  BY <1>1, FS_Interval
<1> HIDE DEF n, f
<1>6. f \in Surjection(R, 1..n)
  BY <1>4, <1>5, FS_Injection DEF n
<1>7. PICK r \in R : f[r] = k
  BY <1>6 DEF Surjection, n
<1>8. Place(R, r) + 1 = k /\ Place(R, r) \in 0..n - 1
  BY <1>7, PlaceTypes DEF f, n
<1>9. QED BY <1>1, <1>8

\* A set of messages in order lists them all, each once, the earlier ones first.
LEMMA SortedLists ==
    ASSUME NEW R, Apart(R)
    PROVE  /\ Cardinality(R) \in Nat
           /\ Sorted(R) \in Seq(R) /\ Len(Sorted(R)) = Cardinality(R)
           /\ \A k \in 1..Cardinality(R) : Place(R, Sorted(R)[k]) = k - 1
           /\ \A r \in R : \E k \in 1..Cardinality(R) : Sorted(R)[k] = r
           /\ \A k, l \in 1..Cardinality(R) : k < l => Earlier(Sorted(R)[k], Sorted(R)[l])
<1> DEFINE n == Cardinality(R)
           at(k) == CHOOSE r \in R : Place(R, r) = k - 1
<1>1. n \in Nat
  BY FS_CardinalityType DEF Apart
<1>2. Sorted(R) = [k \in 1..n |-> at(k)]
  BY DEF Sorted, Place, Before
<1>3. \A k \in 1..n : at(k) \in R /\ Place(R, at(k)) = k - 1
  BY PlaceTaken
<1>4. \A r \in R : Place(R, r) + 1 \in 1..n /\ at(Place(R, r) + 1) = r
  <2>1. ASSUME NEW r \in R PROVE Place(R, r) + 1 \in 1..n /\ at(Place(R, r) + 1) = r
    <3>1. Place(R, r) \in 0..n - 1
      BY PlaceTypes
    <3>2. Place(R, r) + 1 \in 1..n /\ (Place(R, r) + 1) - 1 = Place(R, r)
      BY <1>1, <3>1
    <3>3. at(Place(R, r) + 1) \in R /\ Place(R, at(Place(R, r) + 1)) = Place(R, r)
      BY <1>3, <3>2
    <3> HIDE DEF at
    <3>4. QED BY <3>2, <3>3, PlaceTells
  <2>2. QED BY <2>1
<1> HIDE DEF at, n
<1>5. Sorted(R) \in [1..n -> R] /\ \A k \in 1..n : Sorted(R)[k] = at(k)
  BY <1>2, <1>3
<1>6. Sorted(R) \in Seq(R) /\ Len(Sorted(R)) = n
  BY <1>1, <1>5, LenProperties
<1>7. \A k, l \in 1..n : k < l => Earlier(at(k), at(l))
  <2>1. ASSUME NEW k \in 1..n, NEW l \in 1..n, k < l PROVE Earlier(at(k), at(l))
    <3>1. /\ at(k) \in R /\ at(l) \in R /\ Place(R, at(k)) = k - 1 /\ Place(R, at(l)) = l - 1
      BY <1>3
    <3>2. k - 1 < l - 1
      BY <2>1
    <3>3. QED BY <3>1, <3>2, PlaceTells
  <2>2. QED BY <2>1
<1>8. QED BY <1>1, <1>3, <1>4, <1>5, <1>6, <1>7 DEF n

\* A later message is listed behind the others.
LEMMA SortedGrows ==
    ASSUME NEW R, NEW m, Apart(R \cup {m}), m \notin R, \A r \in R : Earlier(r, m)
    PROVE  Sorted(R \cup {m}) = Append(Sorted(R), m)
<1> DEFINE Q == R \cup {m}
           n == Cardinality(R)
<1>1. Apart(R) /\ Apart(Q) /\ m \in Q /\ m \in Message /\ R \subseteq Message
  <2>1. R \in SUBSET Q /\ IsFiniteSet(Q)
    BY DEF Apart
  <2>2. IsFiniteSet(R)
    BY <2>1, FS_Subset
  <2>3. QED BY <2>1, <2>2 DEF Apart
<1>2. n \in Nat /\ Cardinality(Q) = n + 1
  BY <1>1, FS_AddElement, FS_CardinalityType DEF Apart
<1>3. Place(Q, m) = n /\ \A r \in R : Place(Q, r) = Place(R, r)
  <2>1. Before(Q, m) = R
    BY <1>1, EarlierOrders DEF Before
  <2>2. \A r \in R : Before(Q, r) = Before(R, r)
    BY <1>1, EarlierOrders DEF Before
  <2>3. QED BY <2>1, <2>2 DEF Place
<1> HIDE DEF Q, n
<1>4. /\ Sorted(Q) \in Seq(Q) /\ Len(Sorted(Q)) = n + 1
      /\ \A k \in 1..n + 1 : Sorted(Q)[k] \in Q /\ Place(Q, Sorted(Q)[k]) = k - 1
  <2>1. /\ Sorted(Q) \in Seq(Q) /\ Len(Sorted(Q)) = n + 1
        /\ \A k \in 1..n + 1 : Place(Q, Sorted(Q)[k]) = k - 1
    BY <1>1, <1>2, SortedLists
  <2>2. \A k \in 1..n + 1 : Sorted(Q)[k] \in Q
    BY <2>1, LenProperties
  <2>3. QED BY <2>1, <2>2
<1>5. /\ Sorted(R) \in Seq(R) /\ Len(Sorted(R)) = n
      /\ \A k \in 1..n : Sorted(R)[k] \in R /\ Place(R, Sorted(R)[k]) = k - 1
  <2>1. /\ Sorted(R) \in Seq(R) /\ Len(Sorted(R)) = n
        /\ \A k \in 1..n : Place(R, Sorted(R)[k]) = k - 1
    BY <1>1, <1>2, SortedLists DEF n
  <2>2. \A k \in 1..n : Sorted(R)[k] \in R
    BY <2>1, LenProperties
  <2>3. QED BY <2>1, <2>2
<1>6. R \subseteq Q
  BY DEF Q
<1>7. /\ Append(Sorted(R), m) \in Seq(Q) /\ Len(Append(Sorted(R), m)) = n + 1
      /\ \A k \in 1..n : Append(Sorted(R), m)[k] = Sorted(R)[k]
      /\ Append(Sorted(R), m)[n + 1] = m
  <2>1. Sorted(R) \in Seq(Q)
    BY <1>5, <1>6, SeqMonotonic
  <2>2. QED BY <1>1, <1>5, <2>1, AppendProperties
<1>8. \A k \in 1..n + 1 : Sorted(Q)[k] = Append(Sorted(R), m)[k]
  <2>1. ASSUME NEW k \in 1..n PROVE Sorted(Q)[k] = Sorted(R)[k]
    <3>1. k \in 1..n + 1
      BY <1>2
    <3>2. Sorted(R)[k] \in Q /\ Place(Q, Sorted(R)[k]) = k - 1
      BY <1>3, <1>5, <1>6
    <3>3. Sorted(Q)[k] \in Q /\ Place(Q, Sorted(Q)[k]) = k - 1
      BY <1>4, <3>1
    <3>4. QED BY <1>1, <3>2, <3>3, PlaceTells
  <2>2. Sorted(Q)[n + 1] = m
    <3>1. n + 1 \in 1..n + 1 /\ (n + 1) - 1 = n
      BY <1>2
    <3>2. Sorted(Q)[n + 1] \in Q /\ Place(Q, Sorted(Q)[n + 1]) = n
      BY <1>4, <3>1
    <3>3. QED BY <1>1, <1>3, <3>2, PlaceTells
  <2>3. \A k \in 1..n + 1 : k \in 1..n \/ k = n + 1
    BY <1>2
  <2>4. QED BY <1>7, <2>1, <2>2, <2>3
<1>9. QED BY <1>4, <1>7, <1>8, SeqEqual DEF Q

-------------------------------------------------------------------------------
(* Bursts.                                                                  *)

\* The bursts are what becomes of the messages one after the other.
LEMMA BurstSteps ==
    ASSUME NEW s, Len(s) \in Nat
    PROVE  \E f : /\ f[0] = <<>> /\ Bursts(s) = f[Len(s)]
                  /\ \A n \in 1..Len(s) : f[n] = WithNext(f[n - 1], s[n])
<1> DEFINE step(f, n) == IF n = 0 THEN <<>> ELSE WithNext(f[n - 1], s[n])
           Good == {k \in Nat : \E f : f = [n \in 0..k |-> step(f, n)]}
<1>1. 0 \in Good
  <2> DEFINE f == [n \in 0..0 |-> <<>>]
  <2>1. f = [n \in 0..0 |-> step(f, n)]
    OBVIOUS
  <2> HIDE DEF f, step
  <2>2. QED BY <2>1
<1>2. ASSUME NEW k \in Nat, k \in Good PROVE k + 1 \in Good
  <2>1. PICK f : f = [n \in 0..k |-> step(f, n)]
    BY <1>2
  <2> DEFINE g == [n \in 0..k + 1 |-> IF n = k + 1 THEN step(f, k + 1) ELSE f[n]]
  <2>2. \A n \in 0..k : g[n] = f[n] /\ f[n] = step(f, n)
    <3>1. \A n \in 0..k : n \in 0..k + 1 /\ n # k + 1
      OBVIOUS
    <3> HIDE DEF step
    <3>2. \A n \in 0..k : g[n] = f[n]
      BY <3>1
    <3>3. QED BY <2>1, <3>2
  <2>3. g[k + 1] = step(f, k + 1)
    <3> HIDE DEF step
    <3>1. QED OBVIOUS
  <2>4. \A n \in 0..k + 1 : step(g, n) = step(f, n)
    <3>1. \A n \in 0..k + 1 : n = 0 \/ n - 1 \in 0..k
      OBVIOUS
    <3> HIDE DEF g
    <3>2. QED BY <3>1, <2>2
  <2>5. \A n \in 0..k + 1 : g[n] = step(g, n)
    <3>1. \A n \in 0..k + 1 : n \in 0..k \/ n = k + 1
      OBVIOUS
    <3> HIDE DEF g, step
    <3>2. QED BY <3>1, <2>2, <2>3, <2>4
  <2>6. g = [n \in 0..k + 1 |-> g[n]]
    OBVIOUS
  <2> HIDE DEF g, step
  <2>7. g = [n \in 0..k + 1 |-> step(g, n)]
    BY <2>5, <2>6
  <2>8. QED BY <2>7
<1>3. Len(s) \in Good
  <2> HIDE DEF Good
  <2>1. Nat \subseteq Good
    BY <1>1, <1>2, NumberInduction
  <2>2. QED BY <2>1
<1> DEFINE upto == CHOOSE f : f = [n \in 0..Len(s) |-> step(f, n)]
<1>4. upto = [n \in 0..Len(s) |-> step(upto, n)]
  <2> HIDE DEF step
  <2>1. \E f : f = [n \in 0..Len(s) |-> step(f, n)]
    BY <1>3
  <2>2. QED BY <2>1
<1>5. Bursts(s) = upto[Len(s)]
  BY DEF Bursts
<1> HIDE DEF upto
<1>6. \A n \in 0..Len(s) : upto[n] = step(upto, n)
  BY <1>4
<1>7. upto[0] = <<>> /\ \A n \in 1..Len(s) : upto[n] = WithNext(upto[n - 1], s[n])
  <2>1. \A n \in 1..Len(s) : n \in 0..Len(s) /\ n # 0
    OBVIOUS
  <2>2. QED BY <1>6, <2>1
<1>8. QED BY <1>5, <1>7

\* One more message is one more step.
LEMMA BurstsGrow ==
    ASSUME NEW S, NEW s \in Seq(S), NEW m \in S
    PROVE  Bursts(Append(s, m)) = WithNext(Bursts(s), m)
<1> DEFINE t == Append(s, m)
           n == Len(s)
<1>1. /\ n \in Nat /\ Len(t) = n + 1 /\ t[n + 1] = m /\ \A i \in 1..n : t[i] = s[i]
  BY AppendProperties, LenProperties
<1> HIDE DEF t, n
<1>2. PICK f : /\ f[0] = <<>> /\ Bursts(s) = f[n]
               /\ \A i \in 1..n : f[i] = WithNext(f[i - 1], s[i])
  BY <1>1, BurstSteps DEF n
<1>3. PICK g : /\ g[0] = <<>> /\ Bursts(t) = g[n + 1]
               /\ \A i \in 1..n + 1 : g[i] = WithNext(g[i - 1], t[i])
  <2>1. Len(t) \in Nat
    BY <1>1
  <2>2. \E g : /\ g[0] = <<>> /\ Bursts(t) = g[Len(t)]
               /\ \A i \in 1..Len(t) : g[i] = WithNext(g[i - 1], t[i])
    BY <2>1, BurstSteps
  <2>3. QED BY <1>1, <2>2
<1> DEFINE Same == {i \in Nat : i =< n => f[i] = g[i]}
<1>4. 0 \in Same
  BY <1>2, <1>3
<1>5. \A i \in Nat : i \in Same => i + 1 \in Same
  <2>1. SUFFICES ASSUME NEW i \in Nat, f[i] = g[i], i + 1 =< n PROVE f[i + 1] = g[i + 1]
    BY <1>1
  <2>2. i + 1 \in 1..n /\ i + 1 \in 1..n + 1 /\ (i + 1) - 1 = i
    BY <1>1, <2>1
  <2>3. f[i + 1] = WithNext(f[i], s[i + 1]) /\ g[i + 1] = WithNext(g[i], t[i + 1])
    BY <1>2, <1>3, <2>2
  <2>4. QED BY <1>1, <2>1, <2>2, <2>3
<1> HIDE DEF Same
<1>6. n \in Same
  BY <1>1, <1>4, <1>5, NumberInduction
<1>7. f[n] = g[n]
  BY <1>1, <1>6 DEF Same
<1>8. n + 1 \in 1..n + 1 /\ (n + 1) - 1 = n
  BY <1>1
<1>9. QED BY <1>1, <1>2, <1>3, <1>7, <1>8 DEF t

\* all holds the first n messages of s in order: each in one burst, a burst of one sender
\* in one topic and behind the bursts before it.
Ascends(s) == \A k, l \in 1..Len(s) : k < l => Earlier(s[k], s[l])
Split(s, n, all) ==
    /\ \A i \in 1..Len(all) : all[i] # <<>> /\ Ascends(all[i])
    /\ \A i \in 1..Len(all) : \A a, b \in 1..Len(all[i]) :
         all[i][a].sender = all[i][b].sender /\ all[i][a].topic = all[i][b].topic
    /\ \A i, j \in 1..Len(all) : i < j =>
         \A a \in 1..Len(all[i]), b \in 1..Len(all[j]) : Earlier(all[i][a], all[j][b])
    /\ \A i \in 1..Len(all) : \A a \in 1..Len(all[i]) : \E k \in 1..n : all[i][a] = s[k]
    /\ \A k \in 1..n : \E i \in 1..Len(all) : \E a \in 1..Len(all[i]) : all[i][a] = s[k]

\* A message behind those of the bursts, in a burst of its own.
LEMMA SplitStarts ==
    ASSUME NEW S, S \subseteq Message, NEW s \in Seq(S), Ascends(s), NEW n \in Nat, n + 1 =< Len(s),
           NEW all \in Seq(Seq(S)), Split(s, n, all)
    PROVE  /\ Append(all, <<s[n + 1]>>) \in Seq(Seq(S))
           /\ Split(s, n + 1, Append(all, <<s[n + 1]>>))
<1> DEFINE r == s[n + 1]
           one == <<r>>
           new == Append(all, one)
           l == Len(all)
<1>1. /\ n + 1 \in 1..Len(s) /\ r \in S
      /\ \A k \in 1..n : k \in 1..Len(s) /\ k < n + 1 /\ k \in 1..n + 1
      /\ \A k \in 1..n + 1 : k \in 1..n \/ k = n + 1
  <2>1. n + 1 \in 1..Len(s)
    BY LenProperties
  <2>2. QED BY <2>1, LenProperties
<1>2. \A k \in 1..n : Earlier(s[k], r)
  BY <1>1 DEF Ascends
<1>3. one \in Seq(S) /\ Len(one) = 1 /\ one[1] = r /\ one # <<>>
  BY <1>1
<1>4. /\ l \in Nat /\ new \in Seq(Seq(S)) /\ Len(new) = l + 1 /\ new[l + 1] = one
      /\ \A i \in 1..l : new[i] = all[i]
      /\ \A i \in 1..l + 1 : i \in 1..l \/ i = l + 1
      /\ \A i \in 1..l : i \in 1..l + 1
  <2>1. /\ l \in Nat /\ new \in Seq(Seq(S)) /\ Len(new) = l + 1 /\ new[l + 1] = one
        /\ \A i \in 1..l : new[i] = all[i]
    BY <1>3, AppendProperties, LenProperties
  <2>2. QED BY <2>1
<1>5. /\ \A a \in 1..Len(one) : one[a] = r
      /\ ~\E a, b \in 1..Len(one) : a < b
  BY <1>3
<1> HIDE DEF r, one, new, l
<1>6. \A i \in 1..l : \A a \in 1..Len(all[i]) : Earlier(all[i][a], r)
  BY <1>2 DEF Split, l
<1>7. \A i \in 1..l + 1 : new[i] # <<>> /\ Ascends(new[i])
  <2>1. Ascends(one)
    BY <1>5 DEF Ascends
  <2>2. QED BY <1>3, <1>4, <2>1 DEF Split, l
<1>8. \A i \in 1..l + 1 : \A a, b \in 1..Len(new[i]) :
         new[i][a].sender = new[i][b].sender /\ new[i][a].topic = new[i][b].topic
  <2>1. ASSUME NEW i \in 1..l + 1, NEW a \in 1..Len(new[i]), NEW b \in 1..Len(new[i])
        PROVE  new[i][a].sender = new[i][b].sender /\ new[i][a].topic = new[i][b].topic
    <3>1. CASE i = l + 1
      BY <1>4, <1>5, <2>1, <3>1
    <3>2. CASE i \in 1..l
      <4>1. new[i] = all[i] /\ i \in 1..Len(all)
        BY <1>4, <3>2 DEF l
      <4>2. \A c, d \in 1..Len(all[i]) :
               all[i][c].sender = all[i][d].sender /\ all[i][c].topic = all[i][d].topic
        BY <4>1 DEF Split
      <4>3. a \in 1..Len(all[i]) /\ b \in 1..Len(all[i])
        BY <2>1, <4>1
      <4>4. all[i][a].sender = all[i][b].sender /\ all[i][a].topic = all[i][b].topic
        BY <4>2, <4>3
      <4>5. QED BY <4>1, <4>4
    <3>3. QED BY <1>4, <3>1, <3>2
  <2>2. QED BY <2>1
<1>9. \A i, j \in 1..l + 1 : i < j =>
         \A a \in 1..Len(new[i]), b \in 1..Len(new[j]) : Earlier(new[i][a], new[j][b])
  <2>1. ASSUME NEW i \in 1..l + 1, NEW j \in 1..l + 1, i < j,
               NEW a \in 1..Len(new[i]), NEW b \in 1..Len(new[j])
        PROVE  Earlier(new[i][a], new[j][b])
    <3>1. i \in 1..l /\ new[i] = all[i]
      <4>1. i \in 1..l
        BY <1>4, <2>1
      <4>2. QED BY <1>4, <4>1
    <3>2. CASE j = l + 1
      BY <1>4, <1>5, <1>6, <2>1, <3>1, <3>2
    <3>3. CASE j \in 1..l
      BY <1>4, <2>1, <3>1, <3>3 DEF Split, l
    <3>4. QED BY <1>4, <3>2, <3>3
  <2>2. QED BY <2>1
<1>10. \A i \in 1..l + 1 : \A a \in 1..Len(new[i]) : \E k \in 1..n + 1 : new[i][a] = s[k]
  <2>1. ASSUME NEW i \in 1..l + 1, NEW a \in 1..Len(new[i])
        PROVE  \E k \in 1..n + 1 : new[i][a] = s[k]
    <3>1. CASE i = l + 1
      <4>1. new[i][a] = s[n + 1]
        BY <1>4, <1>5, <2>1, <3>1 DEF r
      <4>2. n + 1 \in 1..n + 1
        OBVIOUS
      <4>3. QED BY <4>1, <4>2
    <3>2. CASE i \in 1..l
      <4>1. PICK k \in 1..n : all[i][a] = s[k]
        <5>1. new[i] = all[i] /\ i \in 1..Len(all)
          BY <1>4, <3>2 DEF l
        <5>2. a \in 1..Len(all[i])
          BY <2>1, <5>1
        <5>3. QED BY Zenon, <5>1, <5>2 DEF Split
      <4>2. QED BY <1>1, <1>4, <3>2, <4>1
    <3>3. QED BY <1>4, <3>1, <3>2
  <2>2. QED BY <2>1
<1>11. \A k \in 1..n + 1 : \E i \in 1..l + 1 : \E a \in 1..Len(new[i]) : new[i][a] = s[k]
  <2>1. ASSUME NEW k \in 1..n + 1
        PROVE  \E i \in 1..l + 1 : \E a \in 1..Len(new[i]) : new[i][a] = s[k]
    <3>1. CASE k = n + 1
      <4>1. 1 \in 1..Len(new[l + 1]) /\ new[l + 1][1] = s[k] /\ l + 1 \in 1..l + 1
        BY <1>3, <1>4, <3>1 DEF r
      <4>2. QED BY <4>1
    <3>2. CASE k \in 1..n
      <4>1. PICK i \in 1..l : \E a \in 1..Len(all[i]) : all[i][a] = s[k]
        BY <3>2 DEF Split, l
      <4>2. QED BY <1>4, <4>1
    <3>3. QED BY <1>1, <3>1, <3>2
  <2>2. QED BY <2>1
<1>12. Split(s, n + 1, new)
  BY <1>4, <1>7, <1>8, <1>9, <1>10, <1>11 DEF Split
<1>13. QED BY <1>4, <1>12 DEF new, one, r

\* A message behind those of the bursts, which joins the last one.
LEMMA SplitJoins ==
    ASSUME NEW S, S \subseteq Message, NEW s \in Seq(S), Ascends(s), NEW n \in Nat, n + 1 =< Len(s),
           NEW all \in Seq(Seq(S)), Split(s, n, all), all # <<>>, Joins(Last(all), s[n + 1]),
           NEW new, new = WithNext(all, s[n + 1])
    PROVE  new \in Seq(Seq(S)) /\ Split(s, n + 1, new)
<1> DEFINE r == s[n + 1]
           l == Len(all)
           old == all[l]
           one == Append(old, r)
           z == Len(old)
<1>1. /\ n + 1 \in 1..Len(s) /\ r \in S
      /\ \A k \in 1..n : k \in 1..Len(s) /\ k < n + 1 /\ k \in 1..n + 1
      /\ \A k \in 1..n + 1 : k \in 1..n \/ k = n + 1
  <2>1. n + 1 \in 1..Len(s)
    BY LenProperties
  <2>2. QED BY <2>1, LenProperties
<1>2. \A k \in 1..n : Earlier(s[k], r)
  BY <1>1 DEF Ascends
<1>3. l \in Nat \ {0} /\ l \in 1..l /\ \A i \in 1..l : all[i] \in Seq(S)
  <2>1. l \in Nat \ {0}
    BY EmptySeq
  <2>2. QED BY <2>1, LenProperties
<1>4. /\ old \in Seq(S) /\ z \in Nat /\ one \in Seq(S) /\ Len(one) = z + 1 /\ one[z + 1] = r
      /\ \A a \in 1..z : one[a] = old[a]
      /\ \A a \in 1..z + 1 : a \in 1..z \/ a = z + 1
      /\ \A a \in 1..z : a \in 1..z + 1 /\ a < z + 1
      /\ one # <<>> /\ z + 1 \in 1..z + 1
  <2>1. old \in Seq(S)
    BY <1>3
  <2>2. /\ z \in Nat /\ one \in Seq(S) /\ Len(one) = z + 1 /\ one[z + 1] = r /\ one # <<>>
        /\ \A a \in 1..z : one[a] = old[a]
    BY <1>1, <2>1, AppendProperties, LenProperties
  <2> HIDE DEF z, one, old, r
  <2>3. /\ \A a \in 1..z + 1 : a \in 1..z \/ a = z + 1
        /\ \A a \in 1..z : a \in 1..z + 1 /\ a < z + 1
        /\ z + 1 \in 1..z + 1
    BY <2>2
  <2>4. QED BY <2>1, <2>2, <2>3
<1>5. /\ new \in Seq(Seq(S)) /\ Len(new) = l /\ new[l] = one
      /\ \A i \in 1..l : i # l => new[i] = all[i]
  <2>1. new = [all EXCEPT ![l] = one]
    BY DEF WithNext
  <2>2. QED BY <1>3, <1>4, <2>1, ExceptSeq
<1>6. z \in 1..z /\ old[z].sender = r.sender /\ old[z].topic = r.topic
  <2>1. old # <<>>
    BY <1>3 DEF Split
  <2>2. z # 0
    BY <1>4, <2>1, EmptySeq
  <2>3. QED BY <1>4, <2>2 DEF Joins, Last
<1> HIDE DEF r, one, l, old, z
<1>8. /\ \A i \in 1..l : \A a \in 1..Len(all[i]) : Earlier(all[i][a], r)
      /\ \A a \in 1..z : Earlier(old[a], r)
  <2>1. \A i \in 1..l : \A a \in 1..Len(all[i]) : Earlier(all[i][a], r)
    BY <1>2 DEF Split, l
  <2>2. QED BY <1>3, <2>1 DEF old, z
<1>9. \A i \in 1..l : new[i] # <<>> /\ Ascends(new[i])
  <2>1. \A i \in 1..l : all[i] # <<>> /\ Ascends(all[i])
    BY DEF Split, l
  <2>2. \A a, b \in 1..z : a < b => Earlier(old[a], old[b])
    BY <1>3, <2>1 DEF Ascends, old, z
  <2>3. Ascends(one)
    <3>1. ASSUME NEW a \in 1..z + 1, NEW b \in 1..z + 1, a < b PROVE Earlier(one[a], one[b])
      <4>1. a \in 1..z
        BY <1>4, <3>1
      <4>2. QED BY <1>4, <1>8, <2>2, <3>1, <4>1
    <3>2. QED BY <1>4, <3>1 DEF Ascends
  <2>4. QED BY <1>4, <1>5, <2>1, <2>3
<1>10. \A i \in 1..l : \A a, b \in 1..Len(new[i]) :
         new[i][a].sender = new[i][b].sender /\ new[i][a].topic = new[i][b].topic
  <2>1. \A a \in 1..z : old[a].sender = old[z].sender /\ old[a].topic = old[z].topic
    BY <1>3, <1>6 DEF Split, l, old, z
  <2>2. \A a \in 1..z + 1 : one[a].sender = r.sender /\ one[a].topic = r.topic
    BY <1>4, <1>6, <2>1
  <2>3. ASSUME NEW i \in 1..l, NEW a \in 1..Len(new[i]), NEW b \in 1..Len(new[i])
        PROVE  new[i][a].sender = new[i][b].sender /\ new[i][a].topic = new[i][b].topic
    <3>1. CASE i = l
      <4>1. new[i] = one /\ a \in 1..z + 1 /\ b \in 1..z + 1
        BY <1>4, <1>5, <2>3, <3>1
      <4>2. /\ one[a].sender = r.sender /\ one[a].topic = r.topic
            /\ one[b].sender = r.sender /\ one[b].topic = r.topic
        BY <2>2, <4>1
      <4>3. QED BY <4>1, <4>2
    <3>2. CASE i # l
      <4>1. new[i] = all[i] /\ i \in 1..Len(all)
        BY <1>5, <3>2 DEF l
      <4>2. QED BY <2>3, <4>1 DEF Split
    <3>3. QED BY <3>1, <3>2
  <2>4. QED BY <2>3
<1>11. \A i, j \in 1..l : i < j =>
         \A a \in 1..Len(new[i]), b \in 1..Len(new[j]) : Earlier(new[i][a], new[j][b])
  <2>1. ASSUME NEW i \in 1..l, NEW j \in 1..l, i < j,
               NEW a \in 1..Len(new[i]), NEW b \in 1..Len(new[j])
        PROVE  Earlier(new[i][a], new[j][b])
    <3>1. new[i] = all[i] /\ a \in 1..Len(all[i])
      <4>1. i # l
        BY <1>3, <2>1
      <4>2. new[i] = all[i]
        BY <1>5, <4>1
      <4>3. QED BY <2>1, <4>2
    <3>2. ASSUME NEW e \in 1..Len(all[j]) PROVE Earlier(all[i][a], all[j][e])
      BY <2>1, <3>1, <3>2 DEF Split, l
    <3>3. CASE j = l
      <4>1. b \in 1..z + 1 /\ new[j][b] = one[b]
        BY <1>4, <1>5, <2>1, <3>3
      <4>2. CASE b = z + 1
        BY <1>4, <1>8, <2>1, <3>1, <4>1, <4>2
      <4>3. CASE b \in 1..z
        BY <1>4, <3>1, <3>2, <3>3, <4>1, <4>3 DEF old, z
      <4>4. QED BY <1>4, <4>1, <4>2, <4>3
    <3>4. CASE j # l
      <4>1. new[j] = all[j]
        BY <1>5, <3>4
      <4>2. QED BY <2>1, <3>1, <3>2, <4>1
    <3>5. QED BY <3>3, <3>4
  <2>2. QED BY <2>1
<1>12. \A i \in 1..l : \A a \in 1..Len(new[i]) : \E k \in 1..n + 1 : new[i][a] = s[k]
  <2>1. ASSUME NEW i \in 1..l, NEW a \in 1..Len(all[i]) PROVE \E k \in 1..n + 1 : all[i][a] = s[k]
    <3>1. PICK k \in 1..n : all[i][a] = s[k]
      BY Zenon, <2>1 DEF Split, l
    <3>2. QED BY <1>1, <3>1
  <2>2. ASSUME NEW i \in 1..l, NEW a \in 1..Len(new[i])
        PROVE  \E k \in 1..n + 1 : new[i][a] = s[k]
    <3>1. CASE i = l
      <4>1. a \in 1..z + 1 /\ new[i][a] = one[a]
        BY <1>4, <1>5, <2>2, <3>1
      <4>2. CASE a = z + 1
        <5>1. new[i][a] = s[n + 1] /\ n + 1 \in 1..n + 1
          BY <1>4, <4>1, <4>2 DEF r
        <5>2. QED BY <5>1
      <4>3. CASE a \in 1..z
        BY <1>4, <2>1, <3>1, <4>1, <4>3 DEF old, z
      <4>4. QED BY <1>4, <4>1, <4>2, <4>3
    <3>2. CASE i # l
      <4>1. new[i] = all[i] /\ a \in 1..Len(all[i])
        BY <1>5, <2>2, <3>2
      <4>2. QED BY <2>1, <4>1
    <3>3. QED BY <3>1, <3>2
  <2>3. QED BY <2>2
<1>13. \A k \in 1..n + 1 : \E i \in 1..l : \E a \in 1..Len(new[i]) : new[i][a] = s[k]
  <2>1. ASSUME NEW k \in 1..n + 1
        PROVE  \E i \in 1..l : \E a \in 1..Len(new[i]) : new[i][a] = s[k]
    <3>1. CASE k = n + 1
      <4>1. z + 1 \in 1..Len(new[l]) /\ new[l][z + 1] = s[k]
        BY <1>4, <1>5, <3>1 DEF r
      <4>2. QED BY <1>3, <4>1
    <3>2. CASE k \in 1..n
      <4>1. PICK i \in 1..l : \E a \in 1..Len(all[i]) : all[i][a] = s[k]
        BY <3>2 DEF Split, l
      <4>2. PICK a \in 1..Len(all[i]) : all[i][a] = s[k]
        BY <4>1
      <4>3. CASE i = l
        <5>1. a \in 1..Len(new[i]) /\ new[i][a] = s[k]
          BY <1>4, <1>5, <4>2, <4>3 DEF old, z
        <5>2. QED BY <5>1
      <4>4. CASE i # l
        BY <1>5, <4>2, <4>4
      <4>5. QED BY <4>3, <4>4
    <3>3. QED BY <1>1, <3>1, <3>2
  <2>2. QED BY <2>1
<1>14. QED
  BY <1>5, <1>9, <1>10, <1>11, <1>12, <1>13 DEF Split

\* Whatever the messages, their bursts hold them all in order.
LEMMA BurstsSplit ==
    ASSUME NEW S, S \subseteq Message, NEW s \in Seq(S), Ascends(s)
    PROVE  Bursts(s) \in Seq(Seq(S)) /\ Split(s, Len(s), Bursts(s))
<1> DEFINE n == Len(s)
<1>1. n \in Nat
  BY LenProperties
<1>2. PICK f : /\ f[0] = <<>> /\ Bursts(s) = f[n]
               /\ \A i \in 1..n : f[i] = WithNext(f[i - 1], s[i])
  BY <1>1, BurstSteps
<1> HIDE DEF n
<1> DEFINE Good == {i \in Nat : i =< n => f[i] \in Seq(Seq(S)) /\ Split(s, i, f[i])}
<1>3. 0 \in Good
  <2>1. f[0] \in Seq(Seq(S)) /\ Len(f[0]) = 0
    BY <1>2, EmptySeq
  <2>2. Split(s, 0, f[0])
    BY <2>1 DEF Split
  <2>3. QED BY <2>1, <2>2
<1>4. \A i \in Nat : i \in Good => i + 1 \in Good
  <2>1. SUFFICES ASSUME NEW i \in Nat, i + 1 =< n, f[i] \in Seq(Seq(S)), Split(s, i, f[i])
                 PROVE  f[i + 1] \in Seq(Seq(S)) /\ Split(s, i + 1, f[i + 1])
    BY <1>1
  <2>2. f[i + 1] = WithNext(f[i], s[i + 1]) /\ i + 1 =< Len(s)
    <3>1. i + 1 \in 1..n /\ (i + 1) - 1 = i
      BY <1>1, <2>1
    <3>2. QED BY <1>2, <2>1, <3>1 DEF n
  <2>3. CASE f[i] # <<>> /\ Joins(Last(f[i]), s[i + 1])
    BY <2>1, <2>2, <2>3, SplitJoins
  <2>4. CASE ~(f[i] # <<>> /\ Joins(Last(f[i]), s[i + 1]))
    <3>1. f[i + 1] = Append(f[i], <<s[i + 1]>>)
      BY <2>2, <2>4 DEF WithNext
    <3>2. QED BY <2>1, <2>2, <3>1, SplitStarts
  <2>5. QED BY <2>3, <2>4
<1> HIDE DEF Good
<1>5. n \in Good
  BY <1>1, <1>3, <1>4, NumberInduction
<1>6. QED BY <1>1, <1>2, <1>5 DEF Good, n

-------------------------------------------------------------------------------
(* The chat.                                                                *)

\* Telegram numbers each message, a reply after what it answers; the root of a topic lies
\* in no topic and answers nothing.
SpoolInv ==
    /\ spool \in Seq(Message)
    /\ \A i, j \in 1..Len(spool) : spool[i].id = spool[j].id => i = j
    /\ \A i \in 1..Len(spool) :
         /\ spool[i].parent < spool[i].id /\ spool[i].topic \in Topics \cup {Main}
         /\ spool[i].id \in Topics => spool[i].topic = Main /\ spool[i].parent = 0

LEMMA InitSpool == ConversationInit => SpoolInv
<1> SUFFICES ASSUME ConversationInit PROVE SpoolInv
  OBVIOUS
<1>1. spool = <<>> /\ Len(spool) = 0 /\ spool \in Seq(Message)
  BY EmptySeq DEF ConversationInit
<1>2. QED BY <1>1 DEF SpoolInv

\* What a reader spools is a message like that, and new.
LEMMA PostTypes ==
    ASSUME SpoolInv, Post
    PROVE  \E r \in Message :
              /\ spool' = Append(spool, r)
              /\ \A i \in 1..Len(spool) : spool[i].id # r.id
              /\ r.parent < r.id /\ r.topic \in Topics \cup {Main}
              /\ r.id \in Topics => r.topic = Main /\ r.parent = 0
<1>1. PICK s \in Saying, m \in Id \ Posted :
         \E parent \in IF s.reply THEN 1..m - 1 ELSE {0} :
           /\ m \in Topics => s.topic = Main /\ ~s.reply
           /\ spool' = Append(spool, [id |-> m, sender |-> s.sender, topic |-> s.topic,
                                      parent |-> parent, cue |-> s.cue, ts |-> Clock + s.gap])
  BY DEF Post
<1>2. PICK parent \in IF s.reply THEN 1..m - 1 ELSE {0} :
           /\ m \in Topics => s.topic = Main /\ ~s.reply
           /\ spool' = Append(spool, [id |-> m, sender |-> s.sender, topic |-> s.topic,
                                      parent |-> parent, cue |-> s.cue, ts |-> Clock + s.gap])
  BY <1>1
<1>3. /\ s.sender \in Sender \cup {Nobody} /\ s.topic \in Id \cup {Main} /\ s.cue \in Cue
      /\ s.reply \in BOOLEAN /\ s.gap \in Int /\ MaxSpool \in Nat
  BY ConversationAssumption DEF SayingOK
<1>4. m \in Id /\ m \in Nat /\ m # 0 /\ m =< MaxSpool
  BY <1>3 DEF Id
<1>5. parent \in 0..MaxSpool /\ parent < m /\ (~s.reply => parent = 0)
  BY <1>2, <1>3, <1>4
<1>6. Clock \in Int
  <2>1. CASE spool = <<>>
    BY <2>1 DEF Clock, Start
  <2>2. CASE spool # <<>>
    <3>1. Len(spool) \in 1..Len(spool) /\ spool \in [1..Len(spool) -> Message]
      BY <2>2, EmptySeq, LenProperties DEF SpoolInv
    <3>2. Last(spool) \in Message
      BY <3>1 DEF Last
    <3>3. QED BY <2>2, <3>2, MessageTypes DEF Clock
  <2>3. QED BY <2>1, <2>2
<1> DEFINE r == [id |-> m, sender |-> s.sender, topic |-> s.topic,
                 parent |-> parent, cue |-> s.cue, ts |-> Clock + s.gap]
<1>7. r \in Message
  BY <1>3, <1>4, <1>5, <1>6 DEF Message
<1>8. \A i \in 1..Len(spool) : spool[i].id # m
  <2>1. \A i \in 1..Len(spool) : spool[i] \in ToSet(spool)
    BY LenProperties DEF SpoolInv, ToSet
  <2>2. QED BY <1>1, <2>1 DEF Posted
<1>9. s.topic \in Topics \cup {Main}
  BY DEF Topics
<1>10. /\ r.id = m /\ r.parent = parent /\ r.topic = s.topic /\ spool' = Append(spool, r)
  BY <1>2
<1> HIDE DEF r
<1>11. QED BY <1>2, <1>3, <1>5, <1>7, <1>8, <1>9, <1>10

LEMMA StepSpool == SpoolInv /\ [ConversationNext]_spool => SpoolInv'
<1> SUFFICES ASSUME SpoolInv, [ConversationNext]_spool PROVE SpoolInv'
  OBVIOUS
<1>1. CASE UNCHANGED spool
  BY <1>1 DEF SpoolInv
<1>2. CASE Post
  <2>1. PICK r \in Message :
              /\ spool' = Append(spool, r)
              /\ \A i \in 1..Len(spool) : spool[i].id # r.id
              /\ r.parent < r.id /\ r.topic \in Topics \cup {Main}
              /\ r.id \in Topics => r.topic = Main /\ r.parent = 0
    BY <1>2, PostTypes
  <2> DEFINE n == Len(spool)
  <2>2. /\ n \in Nat /\ spool' \in Seq(Message) /\ Len(spool') = n + 1 /\ spool'[n + 1] = r
        /\ \A i \in 1..n : spool'[i] = spool[i]
    BY <2>1, AppendProperties, LenProperties DEF SpoolInv
  <2>3. \A i \in 1..n + 1 : i \in 1..n \/ i = n + 1
    BY <2>2
  <2> HIDE DEF n
  <2>4. \A i, j \in 1..n + 1 : spool'[i].id = spool'[j].id => i = j
    BY <2>1, <2>2, <2>3 DEF SpoolInv, n
  <2>5. \A i \in 1..n + 1 :
         /\ spool'[i].parent < spool'[i].id /\ spool'[i].topic \in Topics \cup {Main}
         /\ spool'[i].id \in Topics => spool'[i].topic = Main /\ spool'[i].parent = 0
    BY <2>1, <2>2, <2>3 DEF SpoolInv, n
  <2>6. QED BY <2>2, <2>4, <2>5 DEF SpoolInv
<1>3. QED BY <1>1, <1>2 DEF ConversationNext

LEMMA ChatRows ==
    ASSUME SpoolInv
    PROVE  /\ Len(spool) \in Nat /\ DOMAIN spool = 1..Len(spool)
           /\ ToSet(spool) = {spool[i] : i \in 1..Len(spool)}
           /\ Apart(ToSet(spool))
<1>1. Len(spool) \in Nat /\ spool \in [1..Len(spool) -> Message] /\ DOMAIN spool = 1..Len(spool)
  BY LenProperties DEF SpoolInv
<1>2. ToSet(spool) = {spool[i] : i \in 1..Len(spool)}
  BY <1>1 DEF ToSet
<1>3. IsFiniteSet({spool[i] : i \in 1..Len(spool)})
  <2> DEFINE R == {spool[i] : i \in 1..Len(spool)}
  <2>1. spool \in Surjection(1..Len(spool), R)
    BY <1>1 DEF Surjection
  <2>2. IsFiniteSet(1..Len(spool))
    BY <1>1, FS_Interval
  <2> HIDE DEF R
  <2>3. IsFiniteSet(R)
    BY <2>1, <2>2, FS_Surjection
  <2>4. QED BY <2>3 DEF R
<1>4. ToSet(spool) \subseteq Message
  BY <1>1, <1>2
<1>5. \A r, s \in ToSet(spool) : r.id = s.id => r = s
  BY <1>2 DEF SpoolInv
<1>6. QED BY <1>1, <1>2, <1>3, <1>4, <1>5 DEF Apart

\* The messages candidates are made of.
Said(rows) == {r \in ToSet(rows) : r.cue # "command"}

LEMMA CandidatesSplit ==
    ASSUME SpoolInv
    PROVE  /\ Said(spool) \subseteq ToSet(spool) /\ Apart(Said(spool))
           /\ Sorted(Said(spool)) \in Seq(Said(spool)) /\ Ascends(Sorted(Said(spool)))
           /\ Coalesced(spool) \in Seq(Seq(Said(spool)))
           /\ Split(Sorted(Said(spool)), Len(Sorted(Said(spool))), Coalesced(spool))
<1> DEFINE S == Said(spool)
<1>1. S \in SUBSET ToSet(spool)
  BY DEF Said
<1>2. Apart(S)
  <2>1. IsFiniteSet(S)
    BY <1>1, ChatRows, FS_Subset DEF Apart
  <2>2. QED BY <1>1, <2>1, ChatRows DEF Apart
<1>3. Coalesced(spool) = Bursts(Sorted(S))
  BY DEF Coalesced, Said
<1> HIDE DEF S
<1>4. Sorted(S) \in Seq(S) /\ Ascends(Sorted(S))
  BY <1>2, SortedLists DEF Ascends
<1>5. S \subseteq Message
  BY <1>2 DEF Apart
<1>6. Bursts(Sorted(S)) \in Seq(Seq(S)) /\ Split(Sorted(S), Len(Sorted(S)), Bursts(Sorted(S)))
  BY <1>4, <1>5, BurstsSplit
<1>7. QED BY <1>1, <1>2, <1>3, <1>4, <1>6 DEF S

\* The first of the strongest cues of a burst.
First(b, i) == /\ i \in 1..Len(b)
               /\ \A j \in 1..Len(b) : Rank(b[j]) =< Rank(b[i])
               /\ \A j \in 1..Len(b) : j < i => Rank(b[j]) < Rank(b[i])

LEMMA AnchorFirst ==
    ASSUME NEW S, NEW b \in Seq(S), b # <<>>
    PROVE  /\ \E i \in 1..Len(b) : First(b, i)
           /\ \A i \in 1..Len(b) : First(b, i) =>
                Anchor(b) = IF Rank(b[i]) > 0 THEN b[i] ELSE Last(b)
<1> DEFINE n == Len(b)
           top == {i \in 1..n : \A j \in 1..n : Rank(b[j]) =< Rank(b[i])}
<1>1. n \in Nat /\ n # 0 /\ DOMAIN b = 1..n
  BY EmptySeq, LenProperties
<1>2. \A r : Rank(r) \in Nat
  BY DEF Rank
<1>3. \E i \in 1..n : \A j \in 1..n : Rank(b[j]) =< Rank(b[i])
  <2> DEFINE f == [i \in 1..n |-> Rank(b[i])]
  <2>1. f \in [1..n -> Nat] /\ \A i \in 1..n : f[i] = Rank(b[i])
    BY <1>2
  <2> HIDE DEF f
  <2>2. PICK i \in 1..n : \A j \in 1..n : f[j] =< f[i]
    BY <1>1, <2>1, GreatestListed
  <2>3. QED BY <2>1, <2>2
<1>4. top \in SUBSET Nat /\ top # {}
  BY <1>3
<1>5. PICK i \in top : \A j \in top : i =< j
  BY <1>4, LeastNumber
<1>6. First(b, i)
  <2>1. ASSUME NEW j \in 1..n, j < i PROVE Rank(b[j]) < Rank(b[i])
    <3>1. j \notin top
      BY <1>5, <2>1
    <3>2. PICK k \in 1..n : ~(Rank(b[k]) =< Rank(b[j]))
      BY <3>1
    <3>3. Rank(b[k]) =< Rank(b[i])
      BY <1>5
    <3>4. Rank(b[j]) \in Nat /\ Rank(b[i]) \in Nat /\ Rank(b[k]) \in Nat
      BY <1>2
    <3>5. QED BY <3>2, <3>3, <3>4
  <2>2. QED BY <1>5, <2>1 DEF First
<1>7. ASSUME NEW k \in 1..n, First(b, k)
      PROVE  Anchor(b) = IF Rank(b[k]) > 0 THEN b[k] ELSE Last(b)
  <2>1. k \in top
    BY <1>7 DEF First
  <2>2. \A j \in top : k =< j
    <3>1. ASSUME NEW j \in top, j < k PROVE FALSE
      <4>1. Rank(b[j]) < Rank(b[k]) /\ Rank(b[k]) =< Rank(b[j])
        BY <1>7, <3>1 DEF First
      <4>2. Rank(b[j]) \in Nat /\ Rank(b[k]) \in Nat
        BY <1>2
      <4>3. QED BY <4>1, <4>2
    <3>2. QED BY <3>1
  <2>3. \A m \in top : (\A j \in top : m =< j) => m = k
    <3>1. \A m \in top : m \in Nat /\ k \in Nat
      OBVIOUS
    <3>2. QED BY <2>1, <2>2, <3>1
  <2>4. top = {m \in DOMAIN b : \A j \in DOMAIN b : Rank(b[j]) =< Rank(b[m])}
    BY <1>1
  <2> HIDE DEF top
  <2>5. Min(top) = k
    BY <2>1, <2>2, <2>3 DEF Min
  <2>6. QED BY <2>4, <2>5 DEF Anchor
<1>8. QED BY <1>5, <1>6, <1>7

\* A candidate's fragments, among them its anchor, are of one sender in one topic.
LEMMA CandidateTypes ==
    ASSUME SpoolInv, NEW c \in ToSet(Coalesced(spool))
    PROVE  /\ c \in Seq(Said(spool)) /\ Len(c) \in Nat \ {0} /\ c # <<>>
           /\ ToSet(c) = {c[a] : a \in 1..Len(c)} /\ ToSet(c) \subseteq ToSet(spool)
           /\ Last(c) \in ToSet(c) /\ Anchor(c) \in ToSet(c)
           /\ \A r \in ToSet(c) : r.topic = Last(c).topic /\ r.sender = Last(c).sender
<1> DEFINE all == Coalesced(spool)
<1>1. /\ all \in Seq(Seq(Said(spool))) /\ Said(spool) \subseteq ToSet(spool)
      /\ Split(Sorted(Said(spool)), Len(Sorted(Said(spool))), all)
  BY CandidatesSplit
<1> HIDE DEF all
<1>2. all \in [1..Len(all) -> Seq(Said(spool))]
  BY <1>1, LenProperties
<1>3. PICK i \in 1..Len(all) : c = all[i]
  BY <1>2 DEF ToSet, all
<1>4. /\ c \in Seq(Said(spool)) /\ c # <<>>
      /\ \A a, b \in 1..Len(c) : c[a].sender = c[b].sender /\ c[a].topic = c[b].topic
  <2>1. all[i] \in Seq(Said(spool))
    BY <1>2
  <2>2. /\ all[i] # <<>>
        /\ \A a, b \in 1..Len(all[i]) :
             all[i][a].sender = all[i][b].sender /\ all[i][a].topic = all[i][b].topic
    BY Zenon, <1>1 DEF Split
  <2>3. QED BY <1>3, <2>1, <2>2
<1>5. Len(c) \in Nat \ {0} /\ c \in [1..Len(c) -> Said(spool)] /\ DOMAIN c = 1..Len(c)
  BY <1>4, EmptySeq, LenProperties
<1>6. ToSet(c) = {c[a] : a \in 1..Len(c)} /\ ToSet(c) \subseteq ToSet(spool)
  BY <1>1, <1>5 DEF ToSet
<1>7. Len(c) \in 1..Len(c) /\ Last(c) = c[Len(c)]
  BY <1>5 DEF Last
<1>8. Anchor(c) \in ToSet(c)
  <2>1. PICK a \in 1..Len(c) : First(c, a)
    BY <1>4, AnchorFirst
  <2>2. Anchor(c) = IF Rank(c[a]) > 0 THEN c[a] ELSE Last(c)
    BY <1>4, <2>1, AnchorFirst
  <2>3. QED BY <1>6, <1>7, <2>2
<1>9. QED BY <1>4, <1>5, <1>6, <1>7, <1>8

-------------------------------------------------------------------------------
(* Scenes.                                                                  *)

\* The reply path is what parents, their parents and so on are found on the floor.
LEMMA AncestrySteps ==
    ASSUME NEW floor, NEW row
    PROVE  \E f : /\ f[0] = floor \cap {row}
                  /\ \A n \in 1..ChainCap : f[n] = Parents(floor, f[n - 1])
                  /\ Ancestry(floor, row) = UNION {f[n] : n \in 1..ChainCap}
<1> DEFINE first == floor \cap {row}
           step(f, n) == IF n = 0 THEN first ELSE Parents(floor, f[n - 1])
           Good == {k \in Nat : \E f : f = [n \in 0..k |-> step(f, n)]}
<1>1. 0 \in Good
  <2> DEFINE f == [n \in 0..0 |-> first]
  <2>1. f = [n \in 0..0 |-> step(f, n)]
    OBVIOUS
  <2> HIDE DEF f, step
  <2>2. QED BY <2>1
<1>2. ASSUME NEW k \in Nat, k \in Good PROVE k + 1 \in Good
  <2>1. PICK f : f = [n \in 0..k |-> step(f, n)]
    BY <1>2
  <2> DEFINE g == [n \in 0..k + 1 |-> IF n = k + 1 THEN step(f, k + 1) ELSE f[n]]
  <2>2. \A n \in 0..k : g[n] = f[n] /\ f[n] = step(f, n)
    <3>1. \A n \in 0..k : n \in 0..k + 1 /\ n # k + 1
      OBVIOUS
    <3> HIDE DEF step
    <3>2. \A n \in 0..k : g[n] = f[n]
      BY <3>1
    <3>3. QED BY <2>1, <3>2
  <2>3. g[k + 1] = step(f, k + 1)
    <3> HIDE DEF step
    <3>1. QED OBVIOUS
  <2>4. \A n \in 0..k + 1 : step(g, n) = step(f, n)
    <3>1. \A n \in 0..k + 1 : n = 0 \/ n - 1 \in 0..k
      OBVIOUS
    <3> HIDE DEF g
    <3>2. QED BY <3>1, <2>2
  <2>5. \A n \in 0..k + 1 : g[n] = step(g, n)
    <3>1. \A n \in 0..k + 1 : n \in 0..k \/ n = k + 1
      OBVIOUS
    <3> HIDE DEF g, step
    <3>2. QED BY <3>1, <2>2, <2>3, <2>4
  <2>6. g = [n \in 0..k + 1 |-> g[n]]
    OBVIOUS
  <2> HIDE DEF g, step
  <2>7. g = [n \in 0..k + 1 |-> step(g, n)]
    BY <2>5, <2>6
  <2>8. QED BY <2>7
<1>3. ChainCap \in Nat
  BY ConversationAssumption
<1>4. ChainCap \in Good
  <2> HIDE DEF Good
  <2>1. Nat \subseteq Good
    BY <1>1, <1>2, NumberInduction
  <2>2. QED BY <1>3, <2>1
<1> DEFINE up == CHOOSE f : f = [n \in 0..ChainCap |-> step(f, n)]
<1>5. up = [n \in 0..ChainCap |-> step(up, n)]
  <2> HIDE DEF step
  <2>1. \E f : f = [n \in 0..ChainCap |-> step(f, n)]
    BY <1>4
  <2>2. QED BY <2>1
<1>6. Ancestry(floor, row) = UNION {up[n] : n \in 1..ChainCap}
  BY DEF Ancestry
<1> HIDE DEF up
<1>7. \A n \in 0..ChainCap : up[n] = step(up, n)
  BY <1>5
<1>8. up[0] = first /\ \A n \in 1..ChainCap : up[n] = Parents(floor, up[n - 1])
  <2>1. \A n \in 1..ChainCap : n \in 0..ChainCap /\ n # 0
    BY <1>3
  <2>2. 0 \in 0..ChainCap
    BY <1>3
  <2>3. QED BY <1>7, <2>1, <2>2
<1>9. QED BY <1>6, <1>8

\* It lies on the floor.
LEMMA AncestryOnFloor ==
    ASSUME NEW floor, NEW row
    PROVE  Ancestry(floor, row) \subseteq floor
<1>1. PICK f : /\ \A n \in 1..ChainCap : f[n] = Parents(floor, f[n - 1])
               /\ Ancestry(floor, row) = UNION {f[n] : n \in 1..ChainCap}
  BY AncestrySteps
<1>2. \A n \in 1..ChainCap : f[n] \subseteq floor
  BY <1>1 DEF Parents
<1>3. QED BY <1>1, <1>2

\* The rows of the floor of a topic.
FloorOf(rows, topic) == {r \in rows : InTopic(rows, topic, r)}

\* A scene is the reply path and what its sender and others said before the candidate,
\* all of its floor.
LEMMA SceneRows ==
    ASSUME NEW rows, NEW c
    PROVE  /\ Scene(rows, c) \subseteq FloorOf(rows, Last(c).topic)
           /\ \A r \in Scene(rows, c) :
                \/ r \in Ancestry(FloorOf(rows, Last(c).topic), Anchor(c))
                \/ BeforeCandidate(r, c)
           /\ Newest(Ancestry(FloorOf(rows, Last(c).topic), Anchor(c)), MaxTurns) \subseteq Scene(rows, c)
<1> DEFINE floor == FloorOf(rows, Last(c).topic)
           path == Ancestry(floor, Anchor(c))
           context == Nearby(floor, c) \ {Anchor(c)}
<1>1. Scene(rows, c) = Collected(path, context)
  BY DEF Scene, FloorOf
<1>2. path \subseteq floor
  BY AncestryOnFloor
<1>3. \A r \in context : r \in floor /\ BeforeCandidate(r, c)
  BY DEF Nearby, Newest
<1> HIDE DEF floor, path, context
<1>4. /\ Collected(path, context) \subseteq path \cup context
      /\ Newest(path, MaxTurns) \subseteq Collected(path, context)
  BY DEF Collected, Newest
<1>5. QED BY <1>1, <1>2, <1>3, <1>4 DEF floor, path

LEMMA NoLater == SpoolInv => NoLaterTurns
<1> SUFFICES ASSUME SpoolInv, NEW c \in ToSet(Coalesced(spool)),
                    NEW r \in Scene(ToSet(spool), c), r.ts > Last(c).ts
             PROVE  r \in Ancestry(FloorOf(ToSet(spool), Last(c).topic), Anchor(c))
  BY DEF NoLaterTurns, FloorOf
<1>1. r \in ToSet(spool) /\ Last(c) \in ToSet(spool)
  BY SceneRows, CandidateTypes DEF FloorOf
<1>2. r \in Message /\ Last(c) \in Message
  BY <1>1, ChatRows DEF Apart
<1>3. r.ts \in Int /\ Last(c).ts \in Int
  BY <1>2, MessageTypes
<1>4. ~BeforeCandidate(r, c)
  BY <1>3 DEF BeforeCandidate
<1>5. QED BY <1>4, SceneRows

\* A row is on one floor: the root of a topic on the floor it opens, and no other row of
\* the main floor or of another topic bears a topic's number.
LEMMA OneFloor ==
    ASSUME SpoolInv, NEW t \in Topics \cup {Main}, NEW u \in Topics \cup {Main}, t # u,
           t = Main \/ \E s \in ToSet(spool) : s.topic = t,
           u = Main \/ \E s \in ToSet(spool) : s.topic = u
    PROVE  FloorOf(ToSet(spool), t) \cap FloorOf(ToSet(spool), u) = {}
<1> SUFFICES ASSUME NEW r \in ToSet(spool), InTopic(ToSet(spool), t, r), InTopic(ToSet(spool), u, r)
             PROVE  FALSE
  BY DEF FloorOf
<1>1. r.id \in Topics => r.topic = Main
  BY ChatRows DEF SpoolInv
<1>2. Main \notin Topics
  BY DEF Topics
<1>3. r.topic = t \/ (t # Main /\ r.id = t)
  BY DEF InTopic
<1>4. r.topic = u \/ (u # Main /\ r.id = u)
  BY DEF InTopic
<1>5. CASE r.topic = t
  <2>1. u # Main /\ r.id = u
    BY <1>4, <1>5
  <2>2. u \in Topics
    BY <2>1
  <2>3. t = Main
    BY <1>1, <1>5, <2>1, <2>2
  <2>4. r.id \in ForumRoots(ToSet(spool))
    BY <2>1 DEF ForumRoots
  <2>5. QED BY <2>3, <2>4 DEF InTopic
<1>6. CASE t # Main /\ r.id = t
  <2>1. t \in Topics /\ r.topic = Main
    BY <1>1, <1>6
  <2>2. u = Main
    BY <1>4, <1>6, <2>1
  <2>3. r.id \in ForumRoots(ToSet(spool))
    BY <1>6 DEF ForumRoots
  <2>4. QED BY <2>2, <2>3 DEF InTopic
<1>7. QED BY <1>3, <1>5, <1>6

LEMMA Floors == SpoolInv => FloorsApart
<1> SUFFICES ASSUME SpoolInv, NEW c \in ToSet(Coalesced(spool)), NEW d \in ToSet(Coalesced(spool)),
                    Last(c).topic # Last(d).topic
             PROVE  Scene(ToSet(spool), c) \cap Scene(ToSet(spool), d) = {}
  BY DEF FloorsApart
<1>1. Last(c) \in ToSet(spool) /\ Last(d) \in ToSet(spool)
  BY CandidateTypes
<1>2. \A s \in ToSet(spool) : s.topic \in Topics \cup {Main}
  BY ChatRows DEF SpoolInv
<1>3. FloorOf(ToSet(spool), Last(c).topic) \cap FloorOf(ToSet(spool), Last(d).topic) = {}
  BY <1>1, <1>2, OneFloor
<1>4. QED BY <1>3, SceneRows

\* In a spool in the order of time, earlier is further ahead.
LEMMA ClockOrders ==
    ASSUME SpoolInv, ClockAgrees(spool)
    PROVE  \A i, j \in 1..Len(spool) : Earlier(spool[i], spool[j]) <=> i < j
<1>1. /\ \A i, j \in 1..Len(spool) : i < j => Earlier(spool[i], spool[j])
      /\ \A i \in 1..Len(spool) : spool[i] \in Message
  BY ChatRows, LenProperties DEF ClockAgrees, SpoolInv
<1>2. ASSUME NEW i \in 1..Len(spool), NEW j \in 1..Len(spool), Earlier(spool[i], spool[j])
      PROVE  i < j
  <2>1. CASE i = j
    BY <1>1, <1>2, <2>1, EarlierOrders
  <2>2. CASE j < i
    BY <1>1, <1>2, <2>2, EarlierOrders
  <2>3. QED BY <2>1, <2>2
<1>3. QED BY <1>1, <1>2

\* Where times and numbers agree, the parent is the newest row of the reply path.
LEMMA ParentKept ==
    ASSUME SpoolInv, ClockAgrees(spool),
           \A i, j \in DOMAIN spool : i < j => spool[i].id < spool[j].id,
           NEW c \in ToSet(Coalesced(spool)), NEW r \in ToSet(spool),
           r.id = Anchor(c).parent, InTopic(ToSet(spool), Last(c).topic, r)
    PROVE  r \in Scene(ToSet(spool), c)
<1> DEFINE rows == ToSet(spool)
           a == Anchor(c)
           floor == FloorOf(rows, Last(c).topic)
<1>1. /\ rows = {spool[i] : i \in 1..Len(spool)} /\ Apart(rows) /\ Len(spool) \in Nat
      /\ DOMAIN spool = 1..Len(spool)
  BY ChatRows
<1>2. /\ \A s \in rows : s \in Message /\ s.id \in Nat /\ s.parent \in Nat /\ s.id # 0
      /\ \A s \in rows : s.parent < s.id
      /\ \A s \in rows : s.id \in Topics => s.parent = 0
      /\ \A s \in rows : s.topic \in Topics \cup {Main}
  <2>1. \A s \in rows : s \in Message
    BY <1>1 DEF Apart
  <2>2. QED BY <1>1, <2>1, MessageTypes DEF SpoolInv
<1>3. a \in rows /\ a.topic = Last(c).topic
  BY CandidateTypes
<1>4. r \in floor /\ a \in floor
  <2>1. a.id \notin Topics
    BY <1>2, <1>3
  <2>2. ForumRoots(rows) \subseteq Topics
    BY <1>2 DEF ForumRoots
  <2>3. InTopic(rows, Last(c).topic, a)
    BY <1>3, <2>1, <2>2 DEF InTopic
  <2>4. QED BY <1>3, <2>3 DEF FloorOf
<1>5. \A s, t \in rows : Earlier(s, t) => s.id < t.id
  <2>1. ASSUME NEW i \in 1..Len(spool), NEW j \in 1..Len(spool), Earlier(spool[i], spool[j])
        PROVE  spool[i].id < spool[j].id
    <3>1. i < j
      BY <2>1, ClockOrders
    <3>2. QED BY <1>1, <3>1
  <2>2. QED BY <1>1, <2>1
<1> HIDE DEF rows, a, floor
<1>6. PICK f : /\ f[0] = floor \cap {a}
               /\ \A n \in 1..ChainCap : f[n] = Parents(floor, f[n - 1])
               /\ Ancestry(floor, a) = UNION {f[n] : n \in 1..ChainCap}
  BY AncestrySteps
<1>7. ChainCap \in Nat /\ 1 \in 1..ChainCap /\ 1 - 1 = 0
  BY ConversationAssumption
<1>8. floor \subseteq rows
  BY DEF floor, FloorOf, rows
<1>9. r \in Ancestry(floor, a)
  <2>1. r \in f[1]
    BY <1>4, <1>6, <1>7 DEF Parents, a
  <2>2. QED BY <1>6, <1>7, <2>1
<1>10. \A s \in Ancestry(floor, a) : s.id =< r.id
  <2> DEFINE Good == {n \in Nat : n + 1 =< ChainCap => \A s \in f[n + 1] : s.id =< r.id}
  <2>1. 0 \in Good
    <3>1. ASSUME NEW s \in f[1] PROVE s.id =< r.id
      <4>1. s \in floor /\ a.parent = s.id
        BY <1>6, <1>7, <3>1 DEF Parents
      <4>2. s.id = r.id
        BY <4>1 DEF a
      <4>3. s.id \in Nat
        BY <1>2, <1>8, <4>1
      <4>4. QED BY <4>2, <4>3
    <3>2. QED BY <3>1
  <2>2. \A n \in Nat : n \in Good => n + 1 \in Good
    <3> SUFFICES ASSUME NEW n \in Nat, n \in Good PROVE n + 1 \in Good
      OBVIOUS
    <3>1. SUFFICES ASSUME (n + 1) + 1 =< ChainCap, NEW s \in f[(n + 1) + 1] PROVE s.id =< r.id
      OBVIOUS
    <3>2. /\ (n + 1) + 1 \in 1..ChainCap /\ n + 1 \in 1..ChainCap /\ ((n + 1) + 1) - 1 = n + 1
          /\ n + 1 =< ChainCap
      BY <1>7, <3>1
    <3>3. f[(n + 1) + 1] = Parents(floor, f[n + 1]) /\ f[n + 1] = Parents(floor, f[(n + 1) - 1])
      BY <1>6, <3>2
    <3>4. PICK t \in f[n + 1] : t.parent = s.id
      BY <3>1, <3>3 DEF Parents
    <3>5. s \in rows /\ t \in rows
      BY <1>8, <3>1, <3>3 DEF Parents
    <3>6. t.id =< r.id
      BY <3>1, <3>2
    <3>7. t.parent < t.id /\ s.id \in Nat /\ t.id \in Nat /\ r.id \in Nat
      BY <1>2, <1>4, <1>8, <3>5
    <3>8. QED BY <3>4, <3>6, <3>7
  <2> HIDE DEF Good
  <2>3. Nat \subseteq Good
    BY <2>1, <2>2, NumberInduction
  <2>4. ASSUME NEW n \in 1..ChainCap, NEW s \in f[n] PROVE s.id =< r.id
    <3>1. n - 1 \in Nat /\ (n - 1) + 1 = n /\ n =< ChainCap
      BY <1>7
    <3>2. n - 1 \in Good
      BY <2>3, <3>1
    <3>3. QED BY <2>4, <3>1, <3>2 DEF Good
  <2>5. QED BY <1>6, <2>4
<1>11. r \in Newest(Ancestry(floor, a), MaxTurns)
  <2>1. \A s \in Ancestry(floor, a) : ~Earlier(r, s)
    <3>1. \A s \in Ancestry(floor, a) : s \in rows
      BY <1>8, AncestryOnFloor
    <3>2. r \in rows
      BY <1>4, <1>8
    <3>3. QED BY <1>2, <1>5, <1>10, <3>1, <3>2
  <2>2. {s \in Ancestry(floor, a) : Earlier(r, s)} = {}
    BY <2>1
  <2>3. MaxTurns \in Nat \ {0} /\ Cardinality({}) = 0
    BY ConversationAssumption, FS_EmptySet
  <2>4. Cardinality({s \in Ancestry(floor, a) : Earlier(r, s)}) < MaxTurns
    BY <2>2, <2>3
  <2>5. QED BY <1>9, <2>4 DEF Newest
<1>12. Newest(Ancestry(floor, a), MaxTurns) \subseteq Scene(rows, c)
  BY SceneRows DEF floor, a
<1>13. QED BY <1>11, <1>12 DEF rows

\* The budget of a scene: of the newest rows there are not more than asked for.
LEMMA NewestFew ==
    ASSUME NEW R, Apart(R), NEW n \in Nat
    PROVE  /\ IsFiniteSet(Newest(R, n)) /\ Cardinality(Newest(R, n)) \in Nat
           /\ Cardinality(Newest(R, n)) =< n
<1> DEFINE behind(r) == {s \in R : Earlier(r, s)}
           new == Newest(R, n)
<1>1. \A r \in R : IsFiniteSet(behind(r)) /\ Cardinality(behind(r)) \in Nat
  <2>1. \A r \in R : behind(r) \in SUBSET R
    OBVIOUS
  <2>2. IsFiniteSet(R)
    BY DEF Apart
  <2> HIDE DEF behind
  <2>3. QED BY <2>1, <2>2, FS_Subset, FS_CardinalityType
<1>2. ASSUME NEW r \in R, NEW s \in R, Earlier(r, s)
      PROVE  Cardinality(behind(s)) # Cardinality(behind(r))
  <2>1. behind(s) \in SUBSET behind(r)
    <3>1. \A m \in R : Earlier(s, m) => Earlier(r, m)
      BY <1>2, EarlierOrders DEF Apart
    <3>2. QED BY <3>1
  <2>2. s \in behind(r) /\ s \notin behind(s)
    BY <1>2, EarlierOrders DEF Apart
  <2>3. IsFiniteSet(behind(r))
    BY <1>1
  <2> HIDE DEF behind
  <2>4. Cardinality(behind(r)) = Cardinality(behind(s)) => behind(r) = behind(s)
    BY <2>1, <2>3, FS_Subset
  <2>5. QED BY <2>2, <2>4
<1>3. \A r, s \in R : Cardinality(behind(r)) = Cardinality(behind(s)) => r = s
  <2>1. \A r, s \in R : r # s => Earlier(r, s) \/ Earlier(s, r)
    BY EarlierOrders DEF Apart
  <2> HIDE DEF behind
  <2>2. QED BY <1>2, <2>1
<1>4. \A r \in new : r \in R /\ Cardinality(behind(r)) < n
  BY DEF Newest
<1> DEFINE f == [r \in new |-> Cardinality(behind(r))]
<1> HIDE DEF behind, new
<1>5. \A r \in new : Cardinality(behind(r)) \in 0..n - 1
  BY <1>1, <1>4
<1>6. f \in Injection(new, 0..n - 1)
  BY <1>3, <1>4, <1>5 DEF Injection, IsInjective
<1>7. IsFiniteSet(0..n - 1) /\ Cardinality(0..n - 1) = n
  <2>1. 0 \in Int /\ n - 1 \in Int
    OBVIOUS
  <2>2. /\ IsFiniteSet(0..n - 1)
        /\ Cardinality(0..n - 1) = IF 0 > n - 1 THEN 0 ELSE (n - 1) - 0 + 1
    BY <2>1, FS_Interval
  <2>3. QED BY <2>2
<1> HIDE DEF f
<1>8. IsFiniteSet(new) /\ Cardinality(new) =< n
  BY <1>6, <1>7, FS_Injection
<1>9. QED BY <1>8, FS_CardinalityType DEF new

LEMMA SceneFits ==
    ASSUME SpoolInv, NEW c
    PROVE  Cardinality(Scene(ToSet(spool), c)) =< MaxTurns
<1> DEFINE rows == ToSet(spool)
           floor == FloorOf(rows, Last(c).topic)
           path == Ancestry(floor, Anchor(c))
           context == Nearby(floor, c) \ {Anchor(c)}
           chain == Newest(path, MaxTurns)
<1>1. \A S \in SUBSET rows : Apart(S)
  <2>1. \A S \in SUBSET rows : IsFiniteSet(S)
    BY ChatRows, FS_Subset DEF Apart
  <2>2. QED BY <2>1, ChatRows DEF Apart
<1>2. path \in SUBSET rows /\ context \ path \in SUBSET rows
  <2>1. path \subseteq floor
    BY AncestryOnFloor
  <2>2. context \subseteq floor
    BY DEF Nearby, Newest
  <2>3. floor \subseteq rows
    BY DEF FloorOf
  <2> HIDE DEF floor, path, context
  <2>4. QED BY <2>1, <2>2, <2>3
<1>3. Scene(rows, c) = chain \cup Newest(context \ path, MaxTurns - Cardinality(chain))
  BY DEF Scene, Collected, FloorOf
<1>4. MaxTurns \in Nat
  BY ConversationAssumption
<1> HIDE DEF rows, path, context
<1>5. IsFiniteSet(chain) /\ Cardinality(chain) \in Nat /\ Cardinality(chain) =< MaxTurns
  BY <1>1, <1>2, <1>4, NewestFew
<1> HIDE DEF chain
<1> DEFINE left == MaxTurns - Cardinality(chain)
           rest == Newest(context \ path, left)
<1>6. left \in Nat
  BY <1>4, <1>5
<1> HIDE DEF left
<1>7. IsFiniteSet(rest) /\ Cardinality(rest) \in Nat /\ Cardinality(rest) =< left
  BY <1>1, <1>2, <1>6, NewestFew
<1> HIDE DEF rest
<1>8. Cardinality(chain \cup rest) = Cardinality(chain) + Cardinality(rest)
                                       - Cardinality(chain \cap rest)
  BY <1>5, <1>7, FS_Union
<1>9. Cardinality(chain \cap rest) \in Nat
  BY <1>5, FS_Intersection, FS_CardinalityType
<1>10. Cardinality(chain \cup rest) =< MaxTurns
  BY <1>4, <1>5, <1>7, <1>8, <1>9 DEF left
<1>11. QED BY <1>3, <1>10 DEF rest, left, rows

LEMMA InScene == SpoolInv => ParentInScene
BY SceneFits, ParentKept DEF ParentInScene

\* A message is in one burst.
LEMMA SaidOnce ==
    ASSUME SpoolInv, NEW r \in Said(spool)
    PROVE  LET all == Coalesced(spool)
           IN  \E i \in DOMAIN all : \A j \in DOMAIN all : r \in ToSet(all[j]) <=> j = i
<1> DEFINE all == Coalesced(spool)
           S == Said(spool)
           s == Sorted(S)
<1>1. /\ all \in Seq(Seq(S)) /\ Split(s, Len(s), all) /\ S \subseteq Message
      /\ Len(s) = Cardinality(S)
      /\ \E k \in 1..Cardinality(S) : s[k] = r
  BY CandidatesSplit, SortedLists DEF Apart
<1> HIDE DEF all, s, S
<1>2. DOMAIN all = 1..Len(all) /\ Len(all) \in Nat
  BY <1>1, LenProperties
<1>3. \A i \in 1..Len(all) : ToSet(all[i]) = {all[i][a] : a \in 1..Len(all[i])}
  <2>1. \A i \in 1..Len(all) : all[i] \in Seq(S)
    BY <1>1, ElementOfSeq
  <2>2. \A i \in 1..Len(all) : DOMAIN all[i] = 1..Len(all[i])
    BY <2>1, LenProperties
  <2>3. QED BY <2>2 DEF ToSet
<1>4. PICK k \in 1..Len(s) : s[k] = r
  BY <1>1
<1>5. PICK i \in 1..Len(all) : \E a \in 1..Len(all[i]) : all[i][a] = s[k]
  BY <1>1 DEF Split
<1>6. r \in ToSet(all[i])
  BY <1>3, <1>4, <1>5
<1>7. ASSUME NEW x \in 1..Len(all), NEW y \in 1..Len(all), x < y,
             r \in ToSet(all[x]), r \in ToSet(all[y])
      PROVE  FALSE
  <2>1. PICK a \in 1..Len(all[x]) : all[x][a] = r
    BY <1>3, <1>7
  <2>2. PICK b \in 1..Len(all[y]) : all[y][b] = r
    BY <1>3, <1>7
  <2>3. Earlier(all[x][a], all[y][b])
    BY <1>1, <1>7 DEF Split
  <2>4. r \in Message
    BY <1>1 DEF S
  <2>5. QED BY <2>1, <2>2, <2>3, <2>4, EarlierOrders
<1>8. ASSUME NEW j \in 1..Len(all), r \in ToSet(all[j]) PROVE j = i
  <2>1. j < i \/ i < j \/ j = i
    OBVIOUS
  <2>2. QED BY <1>6, <1>7, <1>8, <2>1
<1>9. QED BY <1>2, <1>6, <1>8 DEF all

LEMMA CandidatesApart ==
    ASSUME SpoolInv, ClockAgrees(spool),
           NEW i \in DOMAIN Coalesced(spool), NEW j \in DOMAIN Coalesced(spool), i # j,
           NEW n \in {SpoolSeq(r) : r \in ToSet(Coalesced(spool)[j])},
           Min({SpoolSeq(r) : r \in ToSet(Coalesced(spool)[i])}) < n,
           n < Max({SpoolSeq(r) : r \in ToSet(Coalesced(spool)[i])})
    PROVE  FALSE
<1> DEFINE all == Coalesced(spool)
           of(c) == {SpoolSeq(r) : r \in ToSet(c)}
<1>1. /\ i \in DOMAIN all /\ j \in DOMAIN all /\ n \in of(all[j])
       /\ Min(of(all[i])) < n /\ n < Max(of(all[i]))
  OBVIOUS
<1>2. /\ all \in Seq(Seq(Said(spool))) /\ Said(spool) \subseteq ToSet(spool)
      /\ Split(Sorted(Said(spool)), Len(Sorted(Said(spool))), all)
  BY CandidatesSplit
<1> HIDE DEF all
<1>3. DOMAIN all = 1..Len(all) /\ Len(all) \in Nat
  BY <1>2, LenProperties
<1>4. \A k \in 1..Len(all) :
         /\ all[k] \in ToSet(Coalesced(spool))
         /\ ToSet(all[k]) = {all[k][a] : a \in 1..Len(all[k])}
         /\ ToSet(all[k]) \subseteq ToSet(spool) /\ Last(all[k]) \in ToSet(all[k])
  <2>1. \A k \in 1..Len(all) : all[k] \in ToSet(Coalesced(spool))
    BY <1>3 DEF ToSet, all
  <2>2. QED BY <2>1, CandidateTypes
\* A row's place in the spool.
<1>5. \A r \in ToSet(spool) : SpoolSeq(r) \in 1..Len(spool) /\ spool[SpoolSeq(r)] = r
  BY ChatRows DEF SpoolSeq
<1>6. \A r, s \in ToSet(spool) : Earlier(r, s) => SpoolSeq(r) < SpoolSeq(s)
  BY <1>5, ClockOrders
<1>7. ASSUME NEW k \in 1..Len(all)
      PROVE  Min(of(all[k])) \in of(all[k]) /\ Max(of(all[k])) \in of(all[k])
  <2>1. of(all[k]) \in SUBSET Nat /\ of(all[k]) \in SUBSET 0..Len(spool) /\ of(all[k]) # {}
    BY <1>4, <1>5
  <2>2. PICK least \in of(all[k]) : \A x \in of(all[k]) : least =< x
    BY <2>1, LeastNumber
  <2>3. PICK most \in of(all[k]) : \A x \in of(all[k]) : x =< most
    <3>1. 0 \in Int /\ Len(spool) \in Int
      BY ChatRows
    <3>2. QED BY <2>1, <3>1, GreatestBounded
  <2>4. \A x \in of(all[k]) : most >= x
    BY <2>1, <2>3
  <2> HIDE DEF of
  <2>5. Min(of(all[k])) \in of(all[k])
    BY <2>2 DEF Min
  <2>6. Max(of(all[k])) \in of(all[k])
    BY <2>4 DEF Max
  <2>7. QED BY <2>5, <2>6
<1>8. ASSUME NEW k \in 1..Len(all), NEW l \in 1..Len(all), k < l,
             NEW x \in of(all[k]), NEW y \in of(all[l])
      PROVE  x < y
  <2>1. PICK r \in ToSet(all[k]), s \in ToSet(all[l]) : x = SpoolSeq(r) /\ y = SpoolSeq(s)
    BY <1>8
  <2>2. Earlier(r, s)
    <3>1. PICK a \in 1..Len(all[k]) : r = all[k][a]
      BY <1>4
    <3>2. PICK b \in 1..Len(all[l]) : s = all[l][b]
      BY <1>4
    <3>3. QED BY <1>2, <1>8, <3>1, <3>2 DEF Split
  <2>3. QED BY <1>4, <1>6, <2>1, <2>2
<1>9. i \in 1..Len(all) /\ j \in 1..Len(all)
  BY <1>3, <1>1
<1>10. \A k \in 1..Len(all) : \A x \in of(all[k]) : x \in Nat
  BY <1>4, <1>5
<1>11. i < j \/ j < i
  BY <1>9
<1> DEFINE least == Min(of(all[i]))
           most == Max(of(all[i]))
<1>12. least \in of(all[i]) /\ most \in of(all[i]) /\ n \in of(all[j]) /\ least < n /\ n < most
  BY <1>7, <1>9, <1>1
<1>13. least \in Nat /\ most \in Nat /\ n \in Nat
  BY <1>9, <1>10, <1>12
<1> HIDE DEF of, least, most
<1>14. CASE i < j
  <2>1. most < n
    BY <1>8, <1>9, <1>14, <1>12
  <2>2. QED BY <1>12, <1>13, <2>1
<1>15. CASE j < i
  <2>1. n < least
    BY <1>8, <1>9, <1>15, <1>12
  <2>2. QED BY <1>12, <1>13, <2>1
<1>16. QED BY <1>11, <1>14, <1>15

LEMMA Together == SpoolInv => FragmentsTogether
<1> SUFFICES ASSUME SpoolInv PROVE FragmentsTogether
  OBVIOUS
<1>1. \A r \in ToSet(spool) : r.cue # "command" =>
        \E i \in DOMAIN Coalesced(spool) : \A j \in DOMAIN Coalesced(spool) :
           r \in ToSet(Coalesced(spool)[j]) <=> j = i
  BY SaidOnce DEF Said
<1>2. ClockAgrees(spool) =>
        \A i, j \in DOMAIN Coalesced(spool) : i # j =>
           ~\E n \in {SpoolSeq(r) : r \in ToSet(Coalesced(spool)[j])} :
              /\ Min({SpoolSeq(r) : r \in ToSet(Coalesced(spool)[i])}) < n
              /\ n < Max({SpoolSeq(r) : r \in ToSet(Coalesced(spool)[i])})
  BY Zenon, CandidatesApart
<1>3. QED BY Zenon, <1>1, <1>2 DEF FragmentsTogether

-------------------------------------------------------------------------------
(* A message more.                                                          *)

LEMMA PrefixOfAppend ==
    ASSUME NEW S, NEW s \in Seq(S), NEW m \in S
    PROVE  IsPrefix(s, Append(s, m)) /\ IsPrefix(s, s)
<1> DEFINE t == Append(s, m)
           n == Len(s)
<1>1. /\ n \in Nat /\ t \in Seq(S) /\ Len(t) = n + 1 /\ \A i \in 1..n : t[i] = s[i]
      /\ \A i \in 1..n : s[i] \in S
  BY AppendProperties, LenProperties
<1> HIDE DEF t, n
<1>2. \A i \in 1..n : t[i] \in S
  BY <1>1
<1>3. /\ SubSeq(s, 1, n) \in Seq(S) /\ Len(SubSeq(s, 1, n)) = n
      /\ \A i \in 1..n : SubSeq(s, 1, n)[i] = s[i]
  <2>1. /\ SubSeq(s, 1, n) \in Seq(S) /\ Len(SubSeq(s, 1, n)) = (IF 1 =< n THEN n - 1 + 1 ELSE 0)
        /\ \A i \in 1..n - 1 + 1 : SubSeq(s, 1, n)[i] = s[1 + i - 1]
    BY <1>1, SubSeqProperties
  <2>2. (n - 1) + 1 = n /\ (1 =< n \/ n = 0) /\ \A i \in 1..n : (1 + i) - 1 = i
    BY <1>1
  <2>3. QED BY <2>1, <2>2
<1>4. /\ SubSeq(t, 1, n) \in Seq(S) /\ Len(SubSeq(t, 1, n)) = n
      /\ \A i \in 1..n : SubSeq(t, 1, n)[i] = t[i]
  <2>1. /\ SubSeq(t, 1, n) \in Seq(S) /\ Len(SubSeq(t, 1, n)) = (IF 1 =< n THEN n - 1 + 1 ELSE 0)
        /\ \A i \in 1..n - 1 + 1 : SubSeq(t, 1, n)[i] = t[1 + i - 1]
    BY <1>1, <1>2, SubSeqProperties
  <2>2. (n - 1) + 1 = n /\ (1 =< n \/ n = 0) /\ \A i \in 1..n : (1 + i) - 1 = i
    BY <1>1
  <2>3. QED BY <2>1, <2>2
<1>5. SubSeq(s, 1, n) = SubSeq(t, 1, n)
  BY <1>1, <1>3, <1>4, SeqEqual
<1>6. n =< Len(t) /\ n =< n
  BY <1>1
<1>7. QED BY <1>5, <1>6 DEF IsPrefix, n, t

\* A message extends the last of some bursts or starts one, and leaves the others alone.
LEMMA WithNextKeeps ==
    ASSUME NEW S, NEW all \in Seq(Seq(S)), all # <<>>, NEW m \in S,
           NEW new, new = WithNext(all, m)
    PROVE  /\ SubSeq(new, 1, Len(all) - 1) = Front(all)
           /\ new[Len(all)] \in {all[Len(all)], Append(all[Len(all)], m)}
           /\ all[Len(all)] \in Seq(S)
<1> DEFINE n == Len(all)
           b == all[n]
<1>1. n \in Nat \ {0} /\ n \in 1..n /\ \A i \in 1..n : all[i] \in Seq(S)
  <2>1. n \in Nat \ {0}
    BY EmptySeq
  <2>2. QED BY <2>1, LenProperties
<1>2. b \in Seq(S) /\ Append(b, m) \in Seq(S) /\ <<m>> \in Seq(S)
  BY <1>1, AppendProperties
<1> HIDE DEF n, b
<1>3. /\ new \in Seq(Seq(S)) /\ Len(new) \in {n, n + 1}
      /\ \A i \in 1..n - 1 : new[i] = all[i]
      /\ new[n] \in {b, Append(b, m)}
  <2>1. \A i \in 1..n - 1 : i \in 1..n /\ i # n
    BY <1>1
  <2>2. CASE Joins(Last(all), m)
    <3>1. new = [all EXCEPT ![n] = Append(b, m)]
      BY <2>2 DEF WithNext, n, b
    <3>2. /\ new \in Seq(Seq(S)) /\ Len(new) = n
          /\ \A i \in 1..n : new[i] = IF i = n THEN Append(b, m) ELSE all[i]
      BY <1>1, <1>2, <3>1, ExceptSeq DEF n
    <3>3. QED BY <1>1, <2>1, <3>2
  <2>3. CASE ~Joins(Last(all), m)
    <3>1. new = Append(all, <<m>>)
      BY <2>3 DEF WithNext
    <3>2. new \in Seq(Seq(S)) /\ Len(new) = n + 1 /\ \A i \in 1..n : new[i] = all[i]
      BY <1>2, <3>1, AppendProperties DEF n
    <3>3. QED BY <1>1, <2>1, <3>2 DEF b
  <2>4. QED BY <2>2, <2>3
<1>4. SubSeq(new, 1, n - 1) = SubSeq(all, 1, n - 1)
  <2>1. \A i \in 1..n - 1 : i \in 1..n /\ all[i] \in Seq(S) /\ new[i] \in Seq(S)
    BY <1>1, <1>3
  <2>2. /\ SubSeq(all, 1, n - 1) \in Seq(Seq(S))
        /\ Len(SubSeq(all, 1, n - 1)) = (IF 1 =< n - 1 THEN (n - 1) - 1 + 1 ELSE 0)
        /\ \A i \in 1..(n - 1) - 1 + 1 : SubSeq(all, 1, n - 1)[i] = all[1 + i - 1]
    BY <1>1, <2>1, SubSeqProperties
  <2>3. /\ SubSeq(new, 1, n - 1) \in Seq(Seq(S))
        /\ Len(SubSeq(new, 1, n - 1)) = (IF 1 =< n - 1 THEN (n - 1) - 1 + 1 ELSE 0)
        /\ \A i \in 1..(n - 1) - 1 + 1 : SubSeq(new, 1, n - 1)[i] = new[1 + i - 1]
    BY <1>1, <2>1, SubSeqProperties
  <2>4. /\ ((n - 1) - 1) + 1 = n - 1 /\ (1 =< n - 1 \/ n - 1 = 0)
        /\ \A i \in 1..n - 1 : (1 + i) - 1 = i
    BY <1>1
  <2>5. /\ Len(SubSeq(all, 1, n - 1)) = n - 1 /\ Len(SubSeq(new, 1, n - 1)) = n - 1
        /\ \A i \in 1..n - 1 : SubSeq(all, 1, n - 1)[i] = all[i] /\ SubSeq(new, 1, n - 1)[i] = new[i]
    BY <2>2, <2>3, <2>4
  <2>6. QED BY <1>3, <2>2, <2>3, <2>5, SeqEqual
<1>5. QED BY <1>2, <1>3, <1>4 DEF Front, n, b

\* A message takes over the anchor of an addressed burst only with a stronger cue.
LEMMA AnchorTakenOver ==
    ASSUME NEW S, NEW b \in Seq(S), b # <<>>, NEW m \in S,
           Rank(Anchor(b)) > 0, Anchor(Append(b, m)) # Anchor(b)
    PROVE  Rank(Anchor(Append(b, m))) > Rank(Anchor(b))
<1> DEFINE t == Append(b, m)
           n == Len(b)
<1>1. \A r : Rank(r) \in Nat
  BY DEF Rank
<1>2. /\ n \in Nat \ {0} /\ t \in Seq(S) /\ t # <<>> /\ Len(t) = n + 1 /\ t[n + 1] = m
      /\ \A i \in 1..n : t[i] = b[i]
  BY AppendProperties, EmptySeq
<1>3. \A i \in 1..n + 1 : i \in 1..n \/ i = n + 1
  BY <1>2
<1> HIDE DEF t
<1>4. PICK i \in 1..n : First(b, i)
  BY AnchorFirst
<1>5. Anchor(b) = b[i] /\ Rank(b[i]) > 0
  <2>1. Anchor(b) = IF Rank(b[i]) > 0 THEN b[i] ELSE Last(b)
    BY <1>4, AnchorFirst
  <2>2. Rank(Last(b)) =< Rank(b[i])
    <3>1. n \in 1..n
      BY <1>2
    <3>2. QED BY <1>4, <3>1 DEF First, Last
  <2>3. Rank(Last(b)) \in Nat /\ Rank(b[i]) \in Nat
    BY <1>1
  <2>4. QED BY <2>1, <2>2, <2>3
<1>6. i \in 1..n + 1 /\ n + 1 \in 1..n + 1 /\ t[i] = b[i] /\ \A j \in 1..n : j < n + 1
  BY <1>2
<1>7. CASE Rank(m) =< Rank(b[i])
  <2>1. \A j \in 1..n + 1 : Rank(t[j]) =< Rank(b[i])
    BY <1>2, <1>3, <1>4, <1>7 DEF First
  <2>2. \A j \in 1..n + 1 : j < i => Rank(t[j]) < Rank(b[i])
    <3>1. \A j \in 1..n + 1 : j < i => j \in 1..n
      BY <1>2
    <3>2. QED BY <1>2, <1>4, <3>1 DEF First
  <2>3. First(t, i)
    BY <1>2, <1>6, <2>1, <2>2 DEF First
  <2>4. Anchor(t) = IF Rank(t[i]) > 0 THEN t[i] ELSE Last(t)
    BY <1>2, <1>6, <2>3, AnchorFirst
  <2>5. QED BY <1>5, <1>6, <2>4 DEF t
<1>8. CASE Rank(b[i]) < Rank(m)
  <2>1. \A j \in 1..n : Rank(t[j]) < Rank(m)
    <3>1. ASSUME NEW j \in 1..n PROVE Rank(t[j]) < Rank(m)
      <4>1. t[j] = b[j] /\ Rank(b[j]) =< Rank(b[i])
        BY <1>2, <1>4 DEF First
      <4>2. Rank(b[j]) \in Nat /\ Rank(b[i]) \in Nat /\ Rank(m) \in Nat
        BY <1>1
      <4>3. QED BY <1>8, <4>1, <4>2
    <3>2. QED BY <3>1
  <2>2. \A j \in 1..n + 1 : Rank(t[j]) =< Rank(m)
    <3>1. ASSUME NEW j \in 1..n + 1 PROVE Rank(t[j]) =< Rank(m)
      <4>1. Rank(t[j]) < Rank(m) \/ t[j] = m
        BY <1>2, <1>3, <2>1
      <4>2. Rank(t[j]) \in Nat /\ Rank(m) \in Nat
        BY <1>1
      <4>3. QED BY <4>1, <4>2
    <3>2. QED BY <3>1
  <2>3. \A j \in 1..n + 1 : j < n + 1 => Rank(t[j]) < Rank(m)
    <3>1. \A j \in 1..n + 1 : j < n + 1 => j \in 1..n
      BY <1>2
    <3>2. QED BY <2>1, <3>1
  <2>4. First(t, n + 1)
    BY <1>2, <1>6, <2>2, <2>3 DEF First
  <2>5. Anchor(t) = IF Rank(t[n + 1]) > 0 THEN t[n + 1] ELSE Last(t)
    BY <1>2, <1>6, <2>4, AnchorFirst
  <2>6. Rank(m) > 0
    <3>1. Rank(b[i]) \in Nat /\ Rank(m) \in Nat
      BY <1>1
    <3>2. QED BY <1>8, <3>1
  <2>7. Anchor(t) = m
    BY <1>2, <2>5, <2>6
  <2>8. Rank(m) > Rank(b[i])
    <3>1. Rank(b[i]) \in Nat /\ Rank(m) \in Nat
      BY <1>1
    <3>2. QED BY <1>8, <3>1
  <2>9. QED BY <1>5, <2>7, <2>8 DEF t
<1>9. Rank(m) =< Rank(b[i]) \/ Rank(b[i]) < Rank(m)
  <2>1. Rank(b[i]) \in Nat /\ Rank(m) \in Nat
    BY <1>1
  <2>2. QED BY <2>1
<1>10. QED BY <1>7, <1>8, <1>9

\* A message that comes in the order of time: a command changes no candidate, any other
\* is coalesced behind those there are.
LEMMA CoalescedGrows ==
    ASSUME SpoolInv, Post, ClockAgrees(spool')
    PROVE  \/ Coalesced(spool') = Coalesced(spool)
           \/ \E r \in Message : Coalesced(spool') = WithNext(Coalesced(spool), r)
<1> DEFINE n == Len(spool)
           R == Said(spool)
<1>1. PICK r \in Message :
         spool' = Append(spool, r) /\ \A i \in 1..n : spool[i].id # r.id
  BY PostTypes
<1>2. /\ n \in Nat /\ spool \in [1..n -> Message] /\ DOMAIN spool = 1..n
      /\ spool' \in Seq(Message) /\ Len(spool') = n + 1 /\ DOMAIN spool' = 1..n + 1
      /\ \A i \in 1..n : spool'[i] = spool[i]
      /\ spool'[n + 1] = r
  <2>1. spool \in Seq(Message)
    BY DEF SpoolInv
  <2>2. /\ n \in Nat /\ spool \in [1..n -> Message] /\ DOMAIN spool = 1..n
    BY <2>1, LenProperties
  <2>3. /\ spool' \in Seq(Message) /\ Len(spool') = n + 1
        /\ \A i \in 1..n : spool'[i] = spool[i]
        /\ spool'[n + 1] = r
    BY <1>1, <2>1, AppendProperties
  <2>4. QED BY <2>2, <2>3, LenProperties
<1> HIDE DEF n
<1>3. ToSet(spool') = ToSet(spool) \cup {r}
  <2>1. \A i \in 1..n + 1 : i \in 1..n \/ i = n + 1
    BY <1>2
  <2>2. n + 1 \in 1..n + 1 /\ \A i \in 1..n : i \in 1..n + 1
    BY <1>2
  <2>3. QED BY <1>2, <2>1, <2>2 DEF ToSet
<1>4. \A s \in ToSet(spool) : Earlier(s, r) /\ s.id # r.id
  <2>1. ASSUME NEW i \in 1..n PROVE Earlier(spool[i], r) /\ spool[i].id # r.id
    <3>1. i \in 1..n + 1 /\ n + 1 \in 1..n + 1 /\ i < n + 1
      BY <1>2
    <3>2. Earlier(spool'[i], spool'[n + 1])
      BY <1>2, <3>1 DEF ClockAgrees
    <3>3. QED BY <1>1, <1>2, <3>2
  <2>2. QED BY <1>2, <2>1 DEF ToSet
<1>5. CASE r.cue = "command"
  <2>1. {s \in ToSet(spool') : s.cue # "command"} = {s \in ToSet(spool) : s.cue # "command"}
    BY <1>3, <1>5
  <2>2. QED BY <2>1 DEF Coalesced
<1>6. CASE r.cue # "command"
  <2>1. {s \in ToSet(spool') : s.cue # "command"} = R \cup {r}
    BY <1>3, <1>6 DEF Said
  <2>2. Apart(R) /\ R \subseteq ToSet(spool)
    BY CandidatesSplit
  <2>3. Apart(R \cup {r}) /\ r \notin R
    <3>1. IsFiniteSet(R \cup {r})
      BY <2>2, FS_AddElement DEF Apart
    <3>2. QED BY <1>4, <2>2, <3>1 DEF Apart
  <2>4. Sorted(R \cup {r}) = Append(Sorted(R), r)
    BY <1>4, <2>2, <2>3, SortedGrows
  <2>5. Coalesced(spool') = Bursts(Sorted(R \cup {r})) /\ Coalesced(spool) = Bursts(Sorted(R))
    BY <2>1 DEF Coalesced, Said
  <2> HIDE DEF R
  <2>6. Sorted(R) \in Seq(R \cup {r})
    <3>1. Sorted(R) \in Seq(R)
      BY <2>2, SortedLists
    <3>2. QED BY <3>1, SeqMonotonic
  <2>7. Bursts(Append(Sorted(R), r)) = WithNext(Bursts(Sorted(R)), r)
    BY <2>6, BurstsGrow
  <2>8. QED BY <2>4, <2>5, <2>7
<1>7. QED BY <1>5, <1>6

-------------------------------------------------------------------------------
(* The theorems.                                                            *)

\* Coalescing loses no message and repeats none: each but a command is a fragment of one
\* candidate.  And while the clocks agree a lane's cursor stands between two candidates of its
\* lane, never among the fragments of one: whoever writes what, on however many floors.
THEOREM CursorsBetweenCandidates == ConversationSpec => []FragmentsTogether
<1>1. QED BY InitSpool, StepSpool, Together, PTL DEF ConversationSpec

\* However long a busy floor grows and however short the scene, the message an anchor
\* replies to is in it, while the readers spool in order; and no scene is longer than its budget.
THEOREM ParentNeverEvicted == ConversationSpec => []ParentInScene
<1>1. QED BY InitSpool, StepSpool, InScene, PTL DEF ConversationSpec

\* Whatever order the readers spool in and however far their clocks differ, what was said
\* after a candidate is in its scene only as one of its ancestors.
THEOREM ScenesLookBack == ConversationSpec => []NoLaterTurns
<1>1. QED BY InitSpool, StepSpool, NoLater, PTL DEF ConversationSpec

\* However many topics: a row is in the scenes of the candidates of one floor only.
THEOREM TopicsAreBoundaries == ConversationSpec => []FloorsApart
<1>1. QED BY InitSpool, StepSpool, Floors, PTL DEF ConversationSpec

\* A message that comes in the order of time changes at most the last candidate, at its
\* end, and takes over the anchor of an addressed one only with a stronger cue.
THEOREM CandidatesOnlyGrow == ConversationSpec => BurstGrows
<1> DEFINE Grown ==
      LET old == Coalesced(spool)
          new == Coalesced(spool')
          n == Len(old)
      IN  ClockAgrees(spool') /\ n > 0 =>
             /\ SubSeq(new, 1, n - 1) = Front(old)
             /\ IsPrefix(old[n], new[n])
             /\ Rank(Anchor(old[n])) > 0 /\ Anchor(new[n]) # Anchor(old[n]) =>
                  Rank(Anchor(new[n])) > Rank(Anchor(old[n]))
<1>1. SpoolInv /\ [ConversationNext]_spool => [Grown]_spool
  <2> DEFINE old == Coalesced(spool)
             new == Coalesced(spool')
             n == Len(old)
  <2> SUFFICES ASSUME SpoolInv, Post, ClockAgrees(spool'), n > 0
               PROVE  /\ SubSeq(new, 1, n - 1) = Front(old)
                      /\ IsPrefix(old[n], new[n])
                      /\ Rank(Anchor(old[n])) > 0 /\ Anchor(new[n]) # Anchor(old[n]) =>
                           Rank(Anchor(new[n])) > Rank(Anchor(old[n]))
    BY DEF ConversationNext
  <2>1. old \in Seq(Seq(Message)) /\ \A i \in 1..Len(old) : old[i] # <<>>
    <3>1. /\ Said(spool) \subseteq Message /\ old \in Seq(Seq(Said(spool)))
          /\ Split(Sorted(Said(spool)), Len(Sorted(Said(spool))), old)
      BY CandidatesSplit DEF Apart
    <3>2. Seq(Said(spool)) \subseteq Seq(Message)
      BY <3>1, SeqMonotonic
    <3>3. Seq(Seq(Said(spool))) \subseteq Seq(Seq(Message))
      BY <3>2, SeqMonotonic
    <3> HIDE DEF old
    <3>4. \A i \in 1..Len(old) : old[i] # <<>>
      BY <3>1 DEF Split
    <3>5. QED BY <3>1, <3>3, <3>4
  <2>2. new = old \/ \E r \in Message : new = WithNext(old, r)
    BY CoalescedGrows
  <2> HIDE DEF old, new
  <2>3. n \in Nat /\ n \in 1..n /\ old # <<>> /\ old[n] \in Seq(Message) /\ old[n] # <<>>
    <3>1. n \in Nat /\ n \in 1..n /\ old # <<>>
      BY <2>1, LenProperties, EmptySeq
    <3>2. QED BY <2>1, <3>1, LenProperties
  <2>4. CASE new = old
    <3>1. IsPrefix(old[n], old[n])
      <4>1. PICK m \in Message : m = old[n][1]
        <5>1. 1 \in 1..Len(old[n])
          BY <2>3, EmptySeq
        <5>2. QED BY <2>3, <5>1, ElementOfSeq
      <4>2. QED BY <2>3, PrefixOfAppend
    <3>2. SubSeq(old, 1, n - 1) = Front(old)
      BY DEF Front
    <3>3. QED BY <2>4, <3>1, <3>2
  <2>5. CASE \E r \in Message : new = WithNext(old, r)
    <3>1. PICK r \in Message : new = WithNext(old, r)
      BY <2>5
    <3>2. /\ SubSeq(new, 1, n - 1) = Front(old)
          /\ new[n] \in {old[n], Append(old[n], r)}
      BY <2>1, <2>3, <3>1, WithNextKeeps
    <3>3. IsPrefix(old[n], new[n])
      BY <2>3, <3>2, PrefixOfAppend
    <3>4. Rank(Anchor(old[n])) > 0 /\ Anchor(new[n]) # Anchor(old[n]) =>
             Rank(Anchor(new[n])) > Rank(Anchor(old[n]))
      BY <2>3, <3>2, AnchorTakenOver
    <3>5. QED BY <3>2, <3>3, <3>4
  <2>6. QED BY <2>2, <2>4, <2>5
<1>2. QED BY <1>1, InitSpool, StepSpool, PTL DEF ConversationSpec, BurstGrows
-------------------------------------------------------------------------------
(* Sending the reply.                                                       *)

Positive == Nat \ {0}

\* The requests Telegram accepted, or may still accept.
Made == flying \cup ToSet(chat)

\* The requests a try has made are the chunks up to the awaited one; those before it were
\* accepted, and a worker that has succeeded has had the last one accepted too.
Trying ==
    /\ task # 0 => /\ tries # 0 /\ worker # "ok"
                   /\ \A m \in Made : m[1] = tries => m[2] =< task
                   /\ \A c \in 1..task - 1 : <<tries, c>> \in ToSet(chat)
    /\ worker = "ok" => /\ Len(Chunks(text)) \in Positive
                        /\ \A m \in Made : m[1] = tries => m[2] =< Len(Chunks(text))
                        /\ \A c \in 1..Len(Chunks(text)) : <<tries, c>> \in ToSet(chat)

\* A request is made after those before it were accepted, and accepted once.
Asking ==
    /\ flying \cap ToSet(chat) = {}
    /\ \A m \in flying : \A c \in 1..m[2] - 1 : <<m[1], c>> \in ToSet(chat)

SendingTypes ==
    /\ worker \in {"idle", "waiting", "ok", "failed"} /\ task \in Nat /\ tries \in Nat
    /\ flying \subseteq Positive \X Positive /\ chat \in Seq(Positive \X Positive)
    /\ \A m \in Made : m[1] =< tries

SendingInv == SendingTypes /\ Asking /\ Trying /\ PrefixOnly

LEMMA Appended ==
    ASSUME NEW S, NEW s \in Seq(S), NEW e \in S
    PROVE  /\ ToSet(Append(s, e)) = ToSet(s) \cup {e}
           /\ Append(s, e) \in Seq(S) /\ DOMAIN s = 1..Len(s) /\ Len(s) \in Nat
           /\ DOMAIN Append(s, e) = 1..Len(s) + 1
           /\ \A i \in 1..Len(s) : Append(s, e)[i] = s[i]
           /\ Append(s, e)[Len(s) + 1] = e
<1>1. /\ Append(s, e) \in Seq(S) /\ DOMAIN s = 1..Len(s) /\ Len(s) \in Nat
      /\ DOMAIN Append(s, e) = 1..Len(s) + 1
      /\ \A i \in 1..Len(s) : Append(s, e)[i] = s[i]
      /\ Append(s, e)[Len(s) + 1] = e
  BY AppendProperties
<1> DEFINE more == Append(s, e)
<1> HIDE DEF more
<1>2. \A i \in 1..Len(s) + 1 : i \in 1..Len(s) \/ i = Len(s) + 1
  BY <1>1
<1>3. \A i \in 1..Len(s) : i \in 1..Len(s) + 1
  BY <1>1
<1>4. Len(s) + 1 \in 1..Len(s) + 1
  BY <1>1
<1>5. ToSet(more) = ToSet(s) \cup {e}
  BY <1>1, <1>2, <1>3, <1>4 DEF ToSet, more
<1>6. QED BY <1>1, <1>5 DEF more

LEMMA InitSending == SendingInit => SendingInv
<1> SUFFICES ASSUME SendingInit PROVE SendingInv
  OBVIOUS
<1>1. chat \in Seq(Positive \X Positive) /\ ToSet(chat) = {} /\ DOMAIN chat = {}
  BY EmptySeq DEF SendingInit, ToSet
<1>2. SendingTypes
  BY <1>1 DEF SendingInit, SendingTypes, Made
<1>3. Asking /\ Trying
  BY <1>1 DEF SendingInit, Asking, Trying
<1>4. PrefixOnly
  BY <1>1 DEF PrefixOnly
<1>5. QED BY <1>2, <1>3, <1>4 DEF SendingInv

\* What Telegram accepted stays accepted and in its place, whatever is tried next.
LEMMA SamePrefix ==
    ASSUME PrefixOnly, UNCHANGED chat, tries \in Nat, tries' \in {tries, tries + 1}
    PROVE  PrefixOnly'
<1>1. 1..tries \subseteq 1..tries'
  BY DEF PrefixOnly
<1>2. QED BY SMTT(30), <1>1 DEF PrefixOnly

LEMMA StepSending == SendingInv /\ [SendingNext]_sendingVars => SendingInv'
<1> SUFFICES ASSUME SendingInv, [SendingNext]_sendingVars PROVE SendingInv'
  OBVIOUS
<1> USE DEF Positive
<1>1. /\ SendingTypes /\ Asking /\ Trying /\ PrefixOnly
      /\ worker \in {"idle", "waiting", "ok", "failed"} /\ task \in Nat /\ tries \in Nat
      /\ flying \subseteq Positive \X Positive /\ chat \in Seq(Positive \X Positive)
      /\ \A m \in Made : m[1] =< tries
      /\ ToSet(chat) \subseteq Positive \X Positive
  BY DEF SendingInv, SendingTypes, ToSet
<1>2. \A m \in Made : m[1] \in Nat /\ m[2] \in Nat /\ m[1] =< tries /\ m[2] >= 1
  BY <1>1 DEF Made
<1>3. ASSUME UNCHANGED <<chat, tries>>, flying' \subseteq flying,
             worker' \in {"idle", "waiting", "failed"},
             task' \in {0, task}, task' # 0 => worker' # "ok"
      PROVE  SendingInv'
  <2>1. Made' \subseteq Made
    BY <1>3 DEF Made
  <2>2. SendingTypes'
    BY <1>1, <1>3, <2>1 DEF SendingTypes
  <2>3. Asking'
    BY <1>1, <1>3 DEF Asking
  <2>4. Trying'
    BY <1>1, <1>3, <2>1 DEF Trying
  <2>5. QED BY <1>1, <1>3, <2>2, <2>3, <2>4, SamePrefix DEF SendingInv
<1>4. CASE UNCHANGED sendingVars
  <2>1. UNCHANGED <<text, worker, task, flying, chat, tries>>
    BY <1>4 DEF sendingVars
  <2>2. SendingTypes'
    BY <1>1, <2>1 DEF SendingTypes, Made
  <2>3. Asking'
    BY <1>1, <2>1 DEF Asking
  <2>4. Trying'
    BY <1>1, <2>1 DEF Trying, Made
  <2>5. QED BY <1>1, <2>1, <2>2, <2>3, <2>4, SamePrefix DEF SendingInv
<1>5. CASE Refuse
  <2>1. /\ UNCHANGED <<text, task, flying, chat>> /\ tries' = tries + 1 /\ task = 0
        /\ worker' = "failed"
    BY <1>5 DEF Refuse, Try
  <2>2. SendingTypes'
    <3>1. \A m \in Made : m[1] =< tries + 1
      BY <1>1, <1>2
    <3>2. QED BY <1>1, <2>1, <3>1 DEF SendingTypes, Made
  <2>3. Asking' /\ Trying'
    BY <1>1, <2>1 DEF Asking, Trying
  <2>4. QED BY <1>1, <2>1, <2>2, <2>3, SamePrefix DEF SendingInv
<1>6. CASE Begin
  <2>1. /\ UNCHANGED <<text, chat>> /\ tries' = tries + 1 /\ task' = 1 /\ worker' = "waiting"
        /\ flying' = flying \cup {<<tries + 1, 1>>}
    BY <1>6 DEF Begin, Try, Requests
  <2>2. <<tries + 1, 1>> \notin Made /\ <<tries + 1, 1>> \in Positive \X Positive
    <3>1. ~(tries + 1 =< tries) /\ tries + 1 \in Positive
      BY <1>1
    <3>2. QED BY <1>2, <3>1
  <2>3. Made' = Made \cup {<<tries + 1, 1>>}
    BY <2>1 DEF Made
  <2>4. SendingTypes'
    <3>1. \A m \in Made' : m[1] =< tries + 1
      BY <1>1, <1>2, <2>3
    <3>2. QED BY <1>1, <2>1, <2>2, <3>1 DEF SendingTypes
  <2>5. Asking'
    <3>1. flying' \cap ToSet(chat) = {}
      BY <1>1, <2>1, <2>2 DEF Asking, Made
    <3>2. ASSUME NEW m \in flying', NEW c \in 1..m[2] - 1 PROVE <<m[1], c>> \in ToSet(chat)
      <4>1. CASE m \in flying
        BY <1>1, <4>1 DEF Asking
      <4>2. CASE m = <<tries + 1, 1>>
        BY <4>2
      <4>3. QED BY <2>1, <4>1, <4>2
    <3>3. QED BY <2>1, <3>1, <3>2 DEF Asking
  <2>6. Trying'
    <3>1. \A m \in Made' : m[1] = tries + 1 => m[2] =< 1
      <4>1. \A m \in Made : m[1] # tries + 1
        BY <1>1, <1>2
      <4>2. QED BY <2>3, <4>1
    <3>2. QED BY <1>1, <2>1, <3>1 DEF Trying
  <2>7. QED BY <1>1, <2>1, <2>4, <2>5, <2>6, SamePrefix DEF SendingInv
<1>7. CASE Accepted
  <2>1. PICK m \in flying : chat' = Append(chat, m) /\ flying' = flying \ {m}
    BY <1>7 DEF Accepted
  <2>2. UNCHANGED <<text, worker, task, tries>>
    BY <1>7 DEF Accepted
  <2> DEFINE n == Len(chat)
  <2>3. /\ m \in Positive \X Positive /\ m \notin ToSet(chat) /\ m \in Made
        /\ \A c \in 1..m[2] - 1 : <<m[1], c>> \in ToSet(chat)
    BY <1>1 DEF Asking, Made
  <2>4. /\ ToSet(chat') = ToSet(chat) \cup {m} /\ chat' \in Seq(Positive \X Positive)
        /\ DOMAIN chat = 1..n /\ DOMAIN chat' = 1..n + 1 /\ n \in Nat
        /\ \A i \in 1..n : chat'[i] = chat[i]
        /\ chat'[n + 1] = m
    BY <1>1, <2>1, <2>3, Appended
  <2> HIDE DEF n
  <2>5. Made' = Made
    BY <2>1, <2>4 DEF Made
  <2>6. SendingTypes'
    BY <1>1, <2>1, <2>2, <2>4, <2>5 DEF SendingTypes
  <2>7. Asking'
    BY <1>1, <2>1, <2>4 DEF Asking
  <2>8. Trying'
    BY <1>1, <2>2, <2>4, <2>5 DEF Trying
  <2>9. PrefixOnly'
    <3>1. SUFFICES ASSUME NEW i \in 1..n + 1
                   PROVE  /\ chat'[i][1] \in 1..tries
                          /\ \A j \in 1..i - 1 : chat'[j] # chat'[i]
                          /\ \A c \in 1..chat'[i][2] - 1 :
                               \E j \in 1..i - 1 : chat'[j] = <<chat'[i][1], c>>
      BY <2>2, <2>4 DEF PrefixOnly
    <3>2. CASE i \in 1..n
      <4>1. \A j \in 1..i - 1 : j \in 1..n
        BY <2>4, <3>2
      <4>2. chat'[i] = chat[i] /\ \A j \in 1..i - 1 : chat'[j] = chat[j]
        BY <2>4, <3>2, <4>1
      <4>3. /\ chat[i][1] \in 1..tries /\ \A j \in 1..i - 1 : chat[j] # chat[i]
            /\ \A c \in 1..chat[i][2] - 1 : \E j \in 1..i - 1 : chat[j] = <<chat[i][1], c>>
        BY <1>1, <2>4, <3>2 DEF PrefixOnly
      <4>4. QED BY <4>2, <4>3
    <3>3. CASE i = n + 1
      <4>1. i - 1 = n
        BY <2>4, <3>3
      <4>2. m[1] \in 1..tries
        BY <1>1, <1>2, <2>3
      <4>3. \A j \in 1..n : chat[j] # m
        BY <2>3, <2>4 DEF ToSet
      <4>4. \A c \in 1..m[2] - 1 : \E j \in 1..n : chat[j] = <<m[1], c>>
        BY ZenonT(60), <2>3, <2>4 DEF ToSet
      <4>5. QED BY <2>4, <3>3, <4>1, <4>2, <4>3, <4>4
    <3>4. i \in 1..n \/ i = n + 1
      BY <2>4
    <3>5. QED BY <3>2, <3>3, <3>4
  <2>10. QED BY <2>6, <2>7, <2>8, <2>9 DEF SendingInv
<1>8. CASE NextChunk
  <2>1. /\ UNCHANGED <<text, worker, chat, tries>> /\ task' = task + 1 /\ task # 0
        /\ <<tries, task>> \in ToSet(chat)
        /\ flying' = flying \cup {<<tries, task + 1>>}
    BY <1>8 DEF NextChunk, Answered, Awaited, Requests
  <2>2. /\ tries # 0 /\ worker # "ok" /\ \A m \in Made : m[1] = tries => m[2] =< task
        /\ \A c \in 1..task - 1 : <<tries, c>> \in ToSet(chat)
    BY <1>1, <2>1 DEF Trying
  <2>3. \A c \in 1..task : <<tries, c>> \in ToSet(chat)
    <3>1. \A c \in 1..task : c \in 1..task - 1 \/ c = task
      BY <1>1
    <3>2. QED BY <2>1, <2>2, <3>1
  <2>4. <<tries, task + 1>> \notin Made /\ <<tries, task + 1>> \in Positive \X Positive
    <3>1. ~(task + 1 =< task) /\ tries \in Positive /\ task + 1 \in Positive
      BY <1>1, <2>2
    <3>2. QED BY <2>2, <3>1
  <2>5. Made' = Made \cup {<<tries, task + 1>>}
    BY <2>1 DEF Made
  <2>6. SendingTypes'
    BY <1>1, <1>2, <2>1, <2>4, <2>5 DEF SendingTypes
  <2>7. Asking'
    <3>1. flying' \cap ToSet(chat) = {}
      BY <1>1, <2>1, <2>4 DEF Asking, Made
    <3>2. (task + 1) - 1 = task
      BY <1>1
    <3>3. ASSUME NEW m \in flying', NEW c \in 1..m[2] - 1 PROVE <<m[1], c>> \in ToSet(chat)
      <4>1. CASE m \in flying
        BY <1>1, <4>1 DEF Asking
      <4>2. CASE m = <<tries, task + 1>>
        BY <2>3, <3>2, <4>2
      <4>3. QED BY <2>1, <4>1, <4>2
    <3>4. QED BY <2>1, <3>1, <3>3 DEF Asking
  <2>8. Trying'
    <3>1. \A m \in Made' : m[1] = tries => m[2] =< task + 1
      BY <1>1, <1>2, <2>2, <2>5
    <3>2. task + 1 # 0 /\ (task + 1) - 1 = task
      BY <1>1
    <3>3. QED BY <2>1, <2>2, <2>3, <3>1, <3>2 DEF Trying
  <2>9. QED BY <1>1, <2>1, <2>6, <2>7, <2>8, SamePrefix DEF SendingInv
<1>9. CASE Done
  <2>1. /\ UNCHANGED <<text, flying, chat, tries>> /\ task' = 0 /\ task # 0
        /\ <<tries, task>> \in ToSet(chat) /\ task = Len(Chunks(text))
        /\ worker' = IF worker = "waiting" THEN "ok" ELSE worker
    BY <1>9 DEF Done, Answered, Awaited, AllSent
  <2>2. Made' = Made
    BY <2>1 DEF Made
  <2>3. SendingTypes'
    BY <1>1, <2>1, <2>2 DEF SendingTypes
  <2>4. Asking'
    BY <1>1, <2>1 DEF Asking
  <2>5. Trying'
    <3>1. /\ \A m \in Made : m[1] = tries => m[2] =< task
          /\ \A c \in 1..task - 1 : <<tries, c>> \in ToSet(chat)
      BY <1>1, <2>1 DEF Trying
    <3>2. \A c \in 1..task : c \in 1..task - 1 \/ c = task
      BY <1>1
    <3>3. \A c \in 1..task : <<tries, c>> \in ToSet(chat)
      BY <2>1, <3>1, <3>2
    <3>4. task \in Positive
      BY <1>1, <2>1
    <3>5. QED BY <2>1, <2>2, <3>1, <3>3, <3>4 DEF Trying
  <2>6. QED BY <1>1, <2>1, <2>3, <2>4, <2>5, SamePrefix DEF SendingInv
<1>10. CASE RequestFails \/ GivesUp \/ Cancelled
  BY <1>3, <1>10 DEF RequestFails, GivesUp, Cancelled
<1>11. QED
  BY <1>4, <1>5, <1>6, <1>7, <1>8, <1>9, <1>10 DEF SendingNext

\* Whatever fails, and however late a request is accepted: every try leaves a prefix of the
\* reply in the chat, in order and each chunk once.
THEOREM EveryTryLeavesPrefix == SendingSpec => []PrefixOnly
<1>1. SendingInv => PrefixOnly
  BY DEF SendingInv
<1>2. QED BY <1>1, InitSending, StepSending, PTL DEF SendingSpec

\* When do_reply answers success, Telegram has accepted every chunk of that try and no more.
THEOREM SuccessMeansWhole == SendingSpec => []AckMeansAll
<1>1. SendingInv => AckMeansAll
  <2>1. SUFFICES ASSUME SendingInv, worker = "ok"
                 PROVE  {m \in ToSet(chat) : m[1] = tries}
                          = {<<tries, i>> : i \in 1..Len(Chunks(text))}
    BY DEF AckMeansAll
  <2> DEFINE n == Len(Chunks(text))
  <2>2. /\ n \in Nat /\ \A m \in ToSet(chat) : m[1] = tries => m[2] =< n
        /\ \A c \in 1..n : <<tries, c>> \in ToSet(chat)
        /\ ToSet(chat) \subseteq Positive \X Positive
    BY <2>1 DEF SendingInv, SendingTypes, Trying, Made, Positive, ToSet
  <2> HIDE DEF n
  <2>3. \A m \in ToSet(chat) : m = <<m[1], m[2]>> /\ m[2] \in Nat /\ m[2] >= 1
    BY <2>2 DEF Positive
  <2>4. \A m \in ToSet(chat) : m[1] = tries => m[2] \in 1..n
    BY <2>2, <2>3
  <2>5. QED BY <2>2, <2>3, <2>4 DEF n
<1>2. QED BY <1>1, InitSending, StepSending, PTL DEF SendingSpec

-------------------------------------------------------------------------------
(* Cutting and packing.                                                     *)

\* How many chunks a word fills.
LEMMA Ceiling ==
    ASSUME NEW m \in Nat \ {0}, NEW l \in Nat \ {0}
    PROVE  LET n == (l + m - 1) \div m
           IN  n \in Nat \ {0} /\ (n - 1) * m < l /\ l =< n * m
<1> DEFINE n == (l + m - 1) \div m
           r == (l + m - 1) % m
<1>1. n \in Int /\ r \in 0..m - 1 /\ l + m - 1 = m * n + r
  OBVIOUS
<1> HIDE DEF n, r
<1>2. (n - 1) * m = m * n - m /\ n * m = m * n
  BY <1>1
<1>3. (n - 1) * m < l /\ l =< n * m
  BY <1>1, <1>2
<1>4. n > 0
  BY <1>1, <1>3
<1>5. QED BY <1>1, <1>3, <1>4 DEF n


\* The units are what becomes of those there were as others come one after the other.
LEMMA PackSteps ==
    ASSUME NEW units, NEW us, Len(us) \in Nat
    PROVE  \E f : /\ f[0] = units /\ PackAll(units, us) = f[Len(us)]
                  /\ \A n \in 1..Len(us) : f[n] = Pack(f[n - 1], us[n])
<1> DEFINE step(f, n) == IF n = 0 THEN units ELSE Pack(f[n - 1], us[n])
           Good == {k \in Nat : \E f : f = [n \in 0..k |-> step(f, n)]}
<1>1. 0 \in Good
  <2> DEFINE f == [n \in 0..0 |-> units]
  <2>1. f = [n \in 0..0 |-> step(f, n)]
    OBVIOUS
  <2> HIDE DEF f, step
  <2>2. QED BY <2>1
<1>2. ASSUME NEW k \in Nat, k \in Good PROVE k + 1 \in Good
  <2>1. PICK f : f = [n \in 0..k |-> step(f, n)]
    BY <1>2
  <2> DEFINE g == [n \in 0..k + 1 |-> IF n = k + 1 THEN step(f, k + 1) ELSE f[n]]
  <2>2. \A n \in 0..k : g[n] = f[n] /\ f[n] = step(f, n)
    <3>1. \A n \in 0..k : n \in 0..k + 1 /\ n # k + 1
      OBVIOUS
    <3> HIDE DEF step
    <3>2. \A n \in 0..k : g[n] = f[n]
      BY <3>1
    <3>3. QED BY <2>1, <3>2
  <2>3. g[k + 1] = step(f, k + 1)
    <3> HIDE DEF step
    <3>1. QED OBVIOUS
  <2>4. \A n \in 0..k + 1 : step(g, n) = step(f, n)
    <3>1. \A n \in 0..k + 1 : n = 0 \/ n - 1 \in 0..k
      OBVIOUS
    <3> HIDE DEF g
    <3>2. QED BY <3>1, <2>2
  <2>5. \A n \in 0..k + 1 : g[n] = step(g, n)
    <3>1. \A n \in 0..k + 1 : n \in 0..k \/ n = k + 1
      OBVIOUS
    <3> HIDE DEF g, step
    <3>2. QED BY <3>1, <2>2, <2>3, <2>4
  <2>6. g = [n \in 0..k + 1 |-> g[n]]
    OBVIOUS
  <2> HIDE DEF g, step
  <2>7. g = [n \in 0..k + 1 |-> step(g, n)]
    BY <2>5, <2>6
  <2>8. QED BY <2>7
<1>3. Len(us) \in Good
  <2> HIDE DEF Good
  <2>1. Nat \subseteq Good
    BY <1>1, <1>2, NumberInduction
  <2>2. QED BY <2>1
<1> DEFINE upto == CHOOSE f : f = [n \in 0..Len(us) |-> step(f, n)]
<1>4. upto = [n \in 0..Len(us) |-> step(upto, n)]
  <2> HIDE DEF step
  <2>1. \E f : f = [n \in 0..Len(us) |-> step(f, n)]
    BY <1>3
  <2>2. QED BY <2>1
<1>5. PackAll(units, us) = upto[Len(us)]
  BY DEF PackAll
<1> HIDE DEF upto
<1>6. \A n \in 0..Len(us) : upto[n] = step(upto, n)
  BY <1>4
<1>7. upto[0] = units /\ \A n \in 1..Len(us) : upto[n] = Pack(upto[n - 1], us[n])
  <2>1. \A n \in 1..Len(us) : n \in 0..Len(us) /\ n # 0
    OBVIOUS
  <2>2. QED BY <1>6, <2>1
<1>8. QED BY <1>5, <1>7

\* The chunks are what becomes of the words one after the other.
LEMMA ReadSteps ==
    ASSUME NEW t, Len(t) \in Nat
    PROVE  \E f : /\ f[0] = [chunks |-> <<>>, parts |-> <<>>] /\ Chunks(t) = f[Len(t)].chunks
                  /\ \A n \in 1..Len(t) : f[n] = Read(t, f[n - 1], n)
<1> DEFINE step(f, n) == IF n = 0 THEN [chunks |-> <<>>, parts |-> <<>>] ELSE Read(t, f[n - 1], n)
           Good == {k \in Nat : \E f : f = [n \in 0..k |-> step(f, n)]}
<1>1. 0 \in Good
  <2> DEFINE f == [n \in 0..0 |-> [chunks |-> <<>>, parts |-> <<>>]]
  <2>1. f = [n \in 0..0 |-> step(f, n)]
    OBVIOUS
  <2> HIDE DEF f, step
  <2>2. QED BY <2>1
<1>2. ASSUME NEW k \in Nat, k \in Good PROVE k + 1 \in Good
  <2>1. PICK f : f = [n \in 0..k |-> step(f, n)]
    BY <1>2
  <2> DEFINE g == [n \in 0..k + 1 |-> IF n = k + 1 THEN step(f, k + 1) ELSE f[n]]
  <2>2. \A n \in 0..k : g[n] = f[n] /\ f[n] = step(f, n)
    <3>1. \A n \in 0..k : n \in 0..k + 1 /\ n # k + 1
      OBVIOUS
    <3> HIDE DEF step
    <3>2. \A n \in 0..k : g[n] = f[n]
      BY <3>1
    <3>3. QED BY <2>1, <3>2
  <2>3. g[k + 1] = step(f, k + 1)
    <3> HIDE DEF step
    <3>1. QED OBVIOUS
  <2>4. \A n \in 0..k + 1 : step(g, n) = step(f, n)
    <3>1. \A n \in 0..k + 1 : n = 0 \/ n - 1 \in 0..k
      OBVIOUS
    <3> HIDE DEF g
    <3>2. QED BY <3>1, <2>2
  <2>5. \A n \in 0..k + 1 : g[n] = step(g, n)
    <3>1. \A n \in 0..k + 1 : n \in 0..k \/ n = k + 1
      OBVIOUS
    <3> HIDE DEF g, step
    <3>2. QED BY <3>1, <2>2, <2>3, <2>4
  <2>6. g = [n \in 0..k + 1 |-> g[n]]
    OBVIOUS
  <2> HIDE DEF g, step
  <2>7. g = [n \in 0..k + 1 |-> step(g, n)]
    BY <2>5, <2>6
  <2>8. QED BY <2>7
<1>3. Len(t) \in Good
  <2> HIDE DEF Good
  <2>1. Nat \subseteq Good
    BY <1>1, <1>2, NumberInduction
  <2>2. QED BY <2>1
<1> DEFINE upto == CHOOSE f : f = [n \in 0..Len(t) |-> step(f, n)]
<1>4. upto = [n \in 0..Len(t) |-> step(upto, n)]
  <2> HIDE DEF step
  <2>1. \E f : f = [n \in 0..Len(t) |-> step(f, n)]
    BY <1>3
  <2>2. QED BY <2>1
<1>5. Chunks(t) = upto[Len(t)].chunks
  BY DEF Chunks
<1> HIDE DEF upto
<1>6. \A n \in 0..Len(t) : upto[n] = step(upto, n)
  BY <1>4
<1>7. /\ upto[0] = [chunks |-> <<>>, parts |-> <<>>]
      /\ \A n \in 1..Len(t) : upto[n] = Read(t, upto[n - 1], n)
  <2>1. \A n \in 1..Len(t) : n \in 0..Len(t) /\ n # 0
    OBVIOUS
  <2>2. QED BY <1>6, <2>1
<1>8. QED BY <1>5, <1>7

\* The characters of some pieces are those of each, added up.
LEMMA CharsSteps ==
    ASSUME NEW s, Len(s) \in Nat
    PROVE  \E f : /\ f[0] = 0 /\ Chars(s) = f[Len(s)]
                  /\ \A n \in 1..Len(s) : f[n] = f[n - 1] + (s[n].to - s[n].from + 1)
<1> DEFINE step(f, n) == IF n = 0 THEN 0 ELSE f[n - 1] + (s[n].to - s[n].from + 1)
           Good == {k \in Nat : \E f : f = [n \in 0..k |-> step(f, n)]}
<1>1. 0 \in Good
  <2> DEFINE f == [n \in 0..0 |-> 0]
  <2>1. f = [n \in 0..0 |-> step(f, n)]
    OBVIOUS
  <2> HIDE DEF f, step
  <2>2. QED BY <2>1
<1>2. ASSUME NEW k \in Nat, k \in Good PROVE k + 1 \in Good
  <2>1. PICK f : f = [n \in 0..k |-> step(f, n)]
    BY <1>2
  <2> DEFINE g == [n \in 0..k + 1 |-> IF n = k + 1 THEN step(f, k + 1) ELSE f[n]]
  <2>2. \A n \in 0..k : g[n] = f[n] /\ f[n] = step(f, n)
    <3>1. \A n \in 0..k : n \in 0..k + 1 /\ n # k + 1
      OBVIOUS
    <3> HIDE DEF step
    <3>2. \A n \in 0..k : g[n] = f[n]
      BY <3>1
    <3>3. QED BY <2>1, <3>2
  <2>3. g[k + 1] = step(f, k + 1)
    <3> HIDE DEF step
    <3>1. QED OBVIOUS
  <2>4. \A n \in 0..k + 1 : step(g, n) = step(f, n)
    <3>1. \A n \in 0..k + 1 : n = 0 \/ n - 1 \in 0..k
      OBVIOUS
    <3> HIDE DEF g
    <3>2. QED BY <3>1, <2>2
  <2>5. \A n \in 0..k + 1 : g[n] = step(g, n)
    <3>1. \A n \in 0..k + 1 : n \in 0..k \/ n = k + 1
      OBVIOUS
    <3> HIDE DEF g, step
    <3>2. QED BY <3>1, <2>2, <2>3, <2>4
  <2>6. g = [n \in 0..k + 1 |-> g[n]]
    OBVIOUS
  <2> HIDE DEF g, step
  <2>7. g = [n \in 0..k + 1 |-> step(g, n)]
    BY <2>5, <2>6
  <2>8. QED BY <2>7
<1>3. Len(s) \in Good
  <2> HIDE DEF Good
  <2>1. Nat \subseteq Good
    BY <1>1, <1>2, NumberInduction
  <2>2. QED BY <2>1
<1> DEFINE upto == CHOOSE f : f = [n \in 0..Len(s) |-> step(f, n)]
<1>4. upto = [n \in 0..Len(s) |-> step(upto, n)]
  <2> HIDE DEF step
  <2>1. \E f : f = [n \in 0..Len(s) |-> step(f, n)]
    BY <1>3
  <2>2. QED BY <2>1
<1>5. Chars(s) = upto[Len(s)]
  BY DEF Chars
<1> HIDE DEF upto
<1>6. \A n \in 0..Len(s) : upto[n] = step(upto, n)
  BY <1>4
<1>7. upto[0] = 0 /\ \A n \in 1..Len(s) : upto[n] = upto[n - 1] + (s[n].to - s[n].from + 1)
  <2>1. \A n \in 1..Len(s) : n \in 0..Len(s) /\ n # 0
    OBVIOUS
  <2>2. QED BY <1>6, <2>1
<1>8. QED BY <1>5, <1>7

\* A piece is characters of its word, all of them unless the word fills more than a chunk.
Pieces(t) ==
    {p \in [word: 1..Len(t), from: Positive, to: Positive] :
        /\ p.from =< p.to /\ p.to =< t[p.word].len
        /\ t[p.word].len =< MaxChars => p.from = 1 /\ p.to = t[p.word].len}

\* Pieces of which each begins where the one before it ends.
Line(t, s) ==
    /\ s \in Seq(Pieces(t)) /\ s # <<>>
    /\ \A k \in 2..Len(s) : StartsAt(s[k]) = After(t, s[k - 1])

\* A unit fits in a chunk, with the separators, and only the text's first one has none before it.
Units(t) ==
    {u \in [pieces: Seq(Pieces(t)), len: Nat, sep: Nat] :
        /\ Line(t, u.pieces)
        /\ u.len =< MaxChars /\ u.len >= Chars(u.pieces) + Len(u.pieces) - 1
        /\ u.sep = 0 => StartsAt(u.pieces[1]) = <<1, 1>>}

StartOf(u) == StartsAt(u.pieces[1])
EndOf(t, u) == After(t, u.pieces[Len(u.pieces)])

\* Units that lead from one place of the text to another.
Runs(t, us, x, y) ==
    /\ us \in Seq(Units(t)) /\ (us = <<>> => x = y)
    /\ us # <<>> => StartOf(us[1]) = x /\ EndOf(t, us[Len(us)]) = y
    /\ \A i \in 2..Len(us) : StartOf(us[i]) = EndOf(t, us[i - 1])

LEMMA Joined ==
    ASSUME NEW S, NEW a \in Seq(S), NEW b \in Seq(S)
    PROVE  /\ a \o b \in Seq(S) /\ Len(a) \in Nat /\ Len(b) \in Nat
           /\ Len(a \o b) = Len(a) + Len(b)
           /\ \A i \in 1..Len(a) : (a \o b)[i] = a[i]
           /\ \A i \in 1..Len(b) : (a \o b)[Len(a) + i] = b[i]
           /\ \A i \in 1..Len(a) + Len(b) :
                 i \in 1..Len(a) \/ \E j \in 1..Len(b) : i = Len(a) + j
<1>1. /\ a \o b \in Seq(S) /\ Len(a) \in Nat /\ Len(b) \in Nat
      /\ Len(a \o b) = Len(a) + Len(b)
  BY ConcatProperties, LenProperties
<1>2. \A i \in 1..Len(a) + Len(b) : (a \o b)[i] = IF i =< Len(a) THEN a[i] ELSE b[i - Len(a)]
  BY ConcatProperties
<1>3. \A i \in 1..Len(a) : i \in 1..Len(a) + Len(b) /\ i =< Len(a)
  BY <1>1
<1>4. \A i \in 1..Len(b) : Len(a) + i \in 1..Len(a) + Len(b) /\ ~(Len(a) + i =< Len(a))
                           /\ (Len(a) + i) - Len(a) = i
  BY <1>1
<1>5. \A i \in 1..Len(a) + Len(b) : i \in 1..Len(a) \/ \E j \in 1..Len(b) : i = Len(a) + j
  <2> SUFFICES ASSUME NEW i \in 1..Len(a) + Len(b), i \notin 1..Len(a)
               PROVE  \E j \in 1..Len(b) : i = Len(a) + j
    OBVIOUS
  <2>1. i - Len(a) \in 1..Len(b) /\ i = Len(a) + (i - Len(a))
    BY <1>1
  <2>2. QED BY <2>1
<1>6. QED BY <1>1, <1>2, <1>3, <1>4, <1>5

\* The characters of two lines of pieces together.
LEMMA CharsJoin ==
    ASSUME NEW t \in Seq(Word), NEW a \in Seq(Pieces(t)), NEW b \in Seq(Pieces(t))
    PROVE  Chars(a) \in Nat /\ Chars(a \o b) = Chars(a) + Chars(b)
<1> DEFINE size(p) == p.to - p.from + 1
<1>1. \A p \in Pieces(t) : size(p) \in Nat
  BY DEF Pieces, Positive
<1>2. /\ a \o b \in Seq(Pieces(t)) /\ Len(a) \in Nat /\ Len(b) \in Nat
      /\ Len(a \o b) = Len(a) + Len(b)
      /\ \A i \in 1..Len(a) : (a \o b)[i] = a[i] /\ a[i] \in Pieces(t)
      /\ \A i \in 1..Len(b) : (a \o b)[Len(a) + i] = b[i] /\ b[i] \in Pieces(t)
  BY Joined, ElementOfSeq
<1> DEFINE c == a \o b
<1> HIDE DEF c
<1>3. PICK f : /\ f[0] = 0 /\ Chars(a) = f[Len(a)]
               /\ \A n \in 1..Len(a) : f[n] = f[n - 1] + size(a[n])
  BY <1>2, CharsSteps
<1>4. PICK g : /\ g[0] = 0 /\ Chars(b) = g[Len(b)]
               /\ \A n \in 1..Len(b) : g[n] = g[n - 1] + size(b[n])
  BY <1>2, CharsSteps
<1>13. Len(a) \in Nat /\ Len(b) \in Nat /\ Len(c) = Len(a) + Len(b)
  BY <1>2 DEF c
<1>5. PICK h : /\ h[0] = 0 /\ Chars(c) = h[Len(c)]
               /\ \A n \in 1..Len(c) : h[n] = h[n - 1] + size(c[n])
  <2>1. Len(c) \in Nat
    BY <1>13
  <2>2. QED BY <2>1, CharsSteps
<1> HIDE DEF size
<1>6. \A i \in 1..Len(a) : c[i] = a[i] /\ size(a[i]) \in Nat
  BY <1>1, <1>2 DEF c
<1>7. \A i \in 1..Len(b) : c[Len(a) + i] = b[i] /\ size(b[i]) \in Nat
  BY <1>1, <1>2 DEF c
<1> DEFINE Through == {n \in Nat : n =< Len(a) => f[n] \in Nat /\ h[n] = f[n]}
           Beyond == {n \in Nat : n =< Len(b) => g[n] \in Nat /\ h[Len(a) + n] = f[Len(a)] + g[n]}
<1>8. Nat \subseteq Through
  <2>1. 0 \in Through
    BY <1>3, <1>5
  <2>2. ASSUME NEW n \in Nat, n \in Through PROVE n + 1 \in Through
    <3>1. SUFFICES ASSUME n + 1 =< Len(a) PROVE f[n + 1] \in Nat /\ h[n + 1] = f[n + 1]
      OBVIOUS
    <3>2. n + 1 \in 1..Len(a) /\ n + 1 \in 1..Len(c) /\ (n + 1) - 1 = n /\ n =< Len(a)
      BY <1>13, <3>1
    <3>3. f[n] \in Nat /\ h[n] = f[n]
      BY <2>2, <3>2
    <3>4. f[n + 1] = f[n] + size(a[n + 1])
      BY <1>3, <3>2
    <3>5. h[n + 1] = h[n] + size(c[n + 1])
      BY <1>5, <3>2
    <3>6. c[n + 1] = a[n + 1] /\ size(a[n + 1]) \in Nat
      BY <1>6, <3>2
    <3>7. QED BY <3>3, <3>4, <3>5, <3>6
  <2> HIDE DEF Through
  <2>3. QED BY <2>1, <2>2, NumberInduction
<1>9. f[Len(a)] \in Nat /\ h[Len(a)] = f[Len(a)]
  BY <1>2, <1>8
<1>10. Nat \subseteq Beyond
  <2>1. 0 \in Beyond
    BY <1>2, <1>4, <1>9
  <2>2. ASSUME NEW n \in Nat, n \in Beyond PROVE n + 1 \in Beyond
    <3>1. SUFFICES ASSUME n + 1 =< Len(b)
                   PROVE  g[n + 1] \in Nat /\ h[Len(a) + (n + 1)] = f[Len(a)] + g[n + 1]
      OBVIOUS
    <3>2. /\ n + 1 \in 1..Len(b) /\ Len(a) + (n + 1) \in 1..Len(c) /\ (n + 1) - 1 = n
          /\ (Len(a) + (n + 1)) - 1 = Len(a) + n /\ n =< Len(b)
      BY <1>13, <3>1
    <3>3. g[n] \in Nat /\ h[Len(a) + n] = f[Len(a)] + g[n]
      BY <2>2, <3>2
    <3>4. g[n + 1] = g[n] + size(b[n + 1])
      BY <1>4, <3>2
    <3>5. h[Len(a) + (n + 1)] = h[Len(a) + n] + size(c[Len(a) + (n + 1)])
      BY <1>5, <3>2
    <3>6. c[Len(a) + (n + 1)] = b[n + 1] /\ size(b[n + 1]) \in Nat
      BY <1>7, <3>2
    <3>7. QED BY <1>9, <3>3, <3>4, <3>5, <3>6
  <2> HIDE DEF Beyond
  <2>3. QED BY <2>1, <2>2, NumberInduction
<1>11. h[Len(a) + Len(b)] = f[Len(a)] + g[Len(b)]
  BY <1>2, <1>10
<1>12. QED BY <1>3, <1>4, <1>5, <1>9, <1>11, <1>13 DEF c

LEMMA PieceTypes ==
    ASSUME NEW t \in Seq(Word), NEW p \in Pieces(t)
    PROVE  /\ p.word \in 1..Len(t) /\ p.from \in Positive /\ p.to \in Positive
           /\ p.from =< p.to /\ p.to =< t[p.word].len
           /\ t[p.word].len =< MaxChars => p.from = 1 /\ p.to = t[p.word].len
           /\ After(t, p) # <<1, 1>>
<1>1. /\ p.word \in 1..Len(t) /\ p.from \in Positive /\ p.to \in Positive
      /\ p.from =< p.to /\ p.to =< t[p.word].len
      /\ t[p.word].len =< MaxChars => p.from = 1 /\ p.to = t[p.word].len
  BY DEF Pieces
<1>2. p.word + 1 # 1 /\ p.to + 1 # 1
  BY <1>1 DEF Positive
<1>3. QED BY <1>1, <1>2 DEF After

LEMMA UnitTypes ==
    ASSUME NEW t \in Seq(Word), NEW u \in Units(t)
    PROVE  /\ u.pieces \in Seq(Pieces(t)) /\ u.pieces # <<>>
           /\ Len(u.pieces) \in Nat /\ Len(u.pieces) >= 1 /\ u.len \in Nat /\ u.sep \in Nat
           /\ u.len =< MaxChars /\ u.len >= Chars(u.pieces) + Len(u.pieces) - 1
           /\ u.sep = 0 => StartOf(u) = <<1, 1>>
           /\ \A k \in 1..Len(u.pieces) : u.pieces[k] \in Pieces(t)
           /\ \A k \in 2..Len(u.pieces) : StartsAt(u.pieces[k]) = After(t, u.pieces[k - 1])
           /\ EndOf(t, u) # <<1, 1>>
<1>1. /\ u.pieces \in Seq(Pieces(t)) /\ u.pieces # <<>> /\ u.len \in Nat /\ u.sep \in Nat
      /\ u.len =< MaxChars /\ u.len >= Chars(u.pieces) + Len(u.pieces) - 1
      /\ u.sep = 0 => StartOf(u) = <<1, 1>>
      /\ \A k \in 2..Len(u.pieces) : StartsAt(u.pieces[k]) = After(t, u.pieces[k - 1])
  BY DEF Units, Line, StartOf
<1>2. Len(u.pieces) \in Nat /\ Len(u.pieces) # 0
  BY <1>1, EmptySeq, LenProperties
<1>3. \A k \in 1..Len(u.pieces) : u.pieces[k] \in Pieces(t)
  BY <1>1, ElementOfSeq
<1>4. Len(u.pieces) >= 1 /\ Len(u.pieces) \in 1..Len(u.pieces)
  BY <1>2
<1>5. EndOf(t, u) # <<1, 1>>
  BY <1>3, <1>4, PieceTypes DEF EndOf
<1>6. QED BY <1>1, <1>2, <1>3, <1>4, <1>5

\* Of two units that follow each other and fit in a chunk, one is made.
LEMMA UnitsJoin ==
    ASSUME NEW t \in Seq(Word), NEW a \in Units(t), NEW b \in Units(t),
           StartOf(b) = EndOf(t, a), a.len + b.sep + b.len =< MaxChars
    PROVE  LET u == Unit(a.pieces \o b.pieces, a.len + b.sep + b.len, a.sep)
           IN  u \in Units(t) /\ StartOf(u) = StartOf(a) /\ EndOf(t, u) = EndOf(t, b)
<1> DEFINE s == a.pieces \o b.pieces
           l == a.len + b.sep + b.len
           m == Len(a.pieces)
           n == Len(b.pieces)
<1>1. /\ s \in Seq(Pieces(t)) /\ m \in Nat /\ n \in Nat /\ Len(s) = m + n
      /\ \A i \in 1..m : s[i] = a.pieces[i]
      /\ \A i \in 1..n : s[m + i] = b.pieces[i]
      /\ \A i \in 1..m + n : i \in 1..m \/ \E j \in 1..n : i = m + j
  <2>1. a.pieces \in Seq(Pieces(t)) /\ b.pieces \in Seq(Pieces(t))
    BY UnitTypes
  <2> DEFINE p == a.pieces
             q == b.pieces
  <2>2. p \in Seq(Pieces(t)) /\ q \in Seq(Pieces(t))
    BY <2>1
  <2> HIDE DEF p, q
  <2>3. /\ p \o q \in Seq(Pieces(t)) /\ Len(p) \in Nat /\ Len(q) \in Nat
        /\ Len(p \o q) = Len(p) + Len(q)
        /\ \A i \in 1..Len(p) : (p \o q)[i] = p[i]
        /\ \A i \in 1..Len(q) : (p \o q)[Len(p) + i] = q[i]
        /\ \A i \in 1..Len(p) + Len(q) :
              i \in 1..Len(p) \/ \E j \in 1..Len(q) : i = Len(p) + j
    BY ONLY <2>2, Joined
  <2>4. QED BY <2>3 DEF p, q
<1>2. /\ Chars(a.pieces) \in Nat /\ Chars(b.pieces) \in Nat
      /\ Chars(s) = Chars(a.pieces) + Chars(b.pieces)
  BY UnitTypes, CharsJoin
<1>3. m >= 1 /\ n >= 1 /\ b.sep \in Nat /\ b.sep # 0
  BY UnitTypes
<1>4. l \in Nat /\ l >= Chars(s) + Len(s) - 1
  <2>1. /\ a.len \in Nat /\ b.len \in Nat
        /\ a.len >= Chars(a.pieces) + m - 1 /\ b.len >= Chars(b.pieces) + n - 1
    BY UnitTypes
  <2>2. ASSUME NEW k \in Nat, NEW i \in Nat, NEW j \in Nat, NEW c \in Nat, NEW d \in Nat,
               NEW p \in Nat, NEW q \in Nat, i >= c + p - 1, j >= d + q - 1, k # 0
        PROVE  i + k + j \in Nat /\ i + k + j >= (c + d) + (p + q) - 1
    BY <2>2
  <2>3. Len(s) = m + n
    BY <1>1
  <2> HIDE DEF s, m, n
  <2>4. l \in Nat /\ l >= (Chars(a.pieces) + Chars(b.pieces)) + (m + n) - 1
    BY <1>1, <1>2, <1>3, <2>1, <2>2
  <2>5. QED BY <1>2, <2>3, <2>4
<1> HIDE DEF s, m, n
<1>5. s[1] = a.pieces[1] /\ s[m + n] = b.pieces[n]
  <2>1. 1 \in 1..m /\ n \in 1..n
    BY <1>1, <1>3
  <2>2. QED BY <1>1, <2>1
<1>6. s # <<>>
  BY <1>1, <1>3, EmptySeq
<1>7. ASSUME NEW k \in 2..Len(s) PROVE StartsAt(s[k]) = After(t, s[k - 1])
  <2>1. CASE k \in 1..m
    <3>1. k \in 2..m /\ k - 1 \in 1..m
      BY <1>1, <2>1
    <3>2. StartsAt(a.pieces[k]) = After(t, a.pieces[k - 1])
      BY <3>1, UnitTypes DEF m
    <3>3. s[k] = a.pieces[k] /\ s[k - 1] = a.pieces[k - 1]
      BY <1>1, <2>1, <3>1
    <3>4. QED BY <3>2, <3>3
  <2>2. ASSUME NEW j \in 1..n, k = m + j PROVE StartsAt(s[k]) = After(t, s[k - 1])
    <3>1. s[k] = b.pieces[j]
      BY <1>1, <2>2
    <3>2. CASE j = 1
      <4>1. k - 1 = m /\ m \in 1..m
        BY <1>1, <1>3, <2>2, <3>2
      <4>2. s[k - 1] = a.pieces[m]
        BY <1>1, <4>1
      <4>3. QED BY <3>1, <3>2, <4>2 DEF StartOf, EndOf, m
    <3>3. CASE j # 1
      <4>1. j \in 2..n /\ j - 1 \in 1..n /\ k - 1 = m + (j - 1)
        BY <1>1, <2>2, <3>3
      <4>2. s[k - 1] = b.pieces[j - 1]
        BY <1>1, <4>1
      <4>3. StartsAt(b.pieces[j]) = After(t, b.pieces[j - 1])
        BY <4>1, UnitTypes DEF n
      <4>4. QED BY <3>1, <4>2, <4>3
    <3>4. QED BY <3>2, <3>3
  <2>3. k \in 1..m + n
    BY <1>1
  <2>4. QED BY <1>1, <2>1, <2>2, <2>3
<1>8. Line(t, s)
  BY <1>1, <1>6, <1>7 DEF Line
<1> HIDE DEF l
<1> DEFINE u == Unit(s, l, a.sep)
<1>9. /\ u \in [pieces: Seq(Pieces(t)), len: Nat, sep: Nat]
      /\ u.pieces = s /\ u.len = l /\ u.sep = a.sep
  BY <1>1, <1>4, UnitTypes DEF Unit
<1> HIDE DEF u
<1>10. StartOf(u) = StartOf(a) /\ EndOf(t, u) = EndOf(t, b)
  BY <1>1, <1>5, <1>9 DEF StartOf, EndOf, n
<1>11. u.sep = 0 => StartsAt(u.pieces[1]) = <<1, 1>>
  BY <1>9, <1>10, UnitTypes DEF StartOf
<1>12. l =< MaxChars
  BY DEF l
<1>13. u \in Units(t)
  BY <1>4, <1>8, <1>9, <1>11, <1>12 DEF Units
<1>14. QED BY <1>10, <1>13 DEF u, s, l

LEMMA RunTypes ==
    ASSUME NEW t \in Seq(Word), NEW us, NEW x, NEW y, Runs(t, us, x, y), us # <<>>
    PROVE  /\ Len(us) \in Nat /\ Len(us) >= 1 /\ Len(us) \in 1..Len(us) /\ us \in Seq(Units(t))
           /\ \A i \in 1..Len(us) : us[i] \in Units(t)
           /\ StartOf(us[1]) = x /\ EndOf(t, us[Len(us)]) = y
           /\ \A i \in 2..Len(us) : StartOf(us[i]) = EndOf(t, us[i - 1])
<1>1. us \in Seq(Units(t)) /\ StartOf(us[1]) = x /\ EndOf(t, us[Len(us)]) = y
      /\ \A i \in 2..Len(us) : StartOf(us[i]) = EndOf(t, us[i - 1])
  BY DEF Runs
<1>2. Len(us) \in Nat /\ Len(us) # 0
  BY <1>1, EmptySeq, LenProperties
<1>3. \A i \in 1..Len(us) : us[i] \in Units(t)
  BY <1>1, ElementOfSeq
<1>4. Len(us) >= 1 /\ Len(us) \in 1..Len(us)
  BY <1>2
<1>5. QED BY <1>1, <1>2, <1>3, <1>4

\* A unit that comes next joins the last one or follows it.
LEMMA PackRuns ==
    ASSUME NEW t \in Seq(Word), NEW us, NEW x, NEW y, Runs(t, us, x, y),
           NEW u \in Units(t), StartOf(u) = y
    PROVE  Runs(t, Pack(us, u), x, EndOf(t, u)) /\ Pack(us, u) # <<>>
<1> DEFINE n == Len(us)
<1>1. us \in Seq(Units(t)) /\ n \in Nat
  BY LenProperties DEF Runs
<1>2. CASE us # <<>> /\ us[n].len + u.sep + u.len =< MaxChars
  <2> DEFINE v == Unit(us[n].pieces \o u.pieces, us[n].len + u.sep + u.len, us[n].sep)
             new == [us EXCEPT ![n] = v]
  <2>1. /\ n >= 1 /\ n \in 1..n /\ \A i \in 1..n : us[i] \in Units(t)
        /\ StartOf(us[1]) = x /\ EndOf(t, us[n]) = y
        /\ \A i \in 2..n : StartOf(us[i]) = EndOf(t, us[i - 1])
    BY <1>2, RunTypes
  <2>2. v \in Units(t) /\ StartOf(v) = StartOf(us[n]) /\ EndOf(t, v) = EndOf(t, u)
    BY <1>2, <2>1, UnitsJoin
  <2> HIDE DEF v
  <2>3. /\ new \in Seq(Units(t)) /\ Len(new) = n /\ new[n] = v
        /\ \A i \in 1..n : i # n => new[i] = us[i]
    <3>1. new \in Seq(Units(t)) /\ Len(new) = n
      BY <1>1, <2>1, <2>2, ExceptSeq
    <3>2. DOMAIN us = 1..n
      BY <1>1, LenProperties
    <3>3. QED BY <2>1, <3>1, <3>2
  <2>4. Pack(us, u) = new
    BY <1>2 DEF Pack, Last, v
  <2> HIDE DEF new
  <2>5. new # <<>>
    BY <1>1, <2>1, <2>3, EmptySeq
  <2>6. StartOf(new[1]) = x
    <3>1. CASE n = 1
      BY <2>1, <2>2, <2>3, <3>1
    <3>2. CASE n # 1
      <4>1. 1 \in 1..n
        BY <1>1, <2>1
      <4>2. QED BY <2>1, <2>3, <3>2, <4>1
    <3>3. QED BY <3>1, <3>2
  <2>7. ASSUME NEW i \in 2..n PROVE StartOf(new[i]) = EndOf(t, new[i - 1])
    <3>1. i \in 1..n /\ i - 1 \in 1..n /\ i - 1 # n
      BY <1>1
    <3>2. StartOf(us[i]) = EndOf(t, us[i - 1]) /\ new[i - 1] = us[i - 1]
      BY <2>1, <2>3, <3>1
    <3>3. StartOf(new[i]) = StartOf(us[i])
      BY <2>2, <2>3, <3>1
    <3>4. QED BY <3>2, <3>3
  <2>8. QED BY <2>2, <2>3, <2>4, <2>5, <2>6, <2>7 DEF Runs
<1>3. CASE ~(us # <<>> /\ us[n].len + u.sep + u.len =< MaxChars)
  <2> DEFINE new == Append(us, u)
  <2>1. /\ new \in Seq(Units(t)) /\ Len(new) = n + 1 /\ new[n + 1] = u
        /\ \A i \in 1..n : new[i] = us[i]
    BY <1>1, AppendProperties
  <2>2. Pack(us, u) = new
    BY <1>3 DEF Pack, Last
  <2> HIDE DEF new
  <2>3. new # <<>>
    BY <1>1, <2>1, EmptySeq
  <2>4. CASE us = <<>>
    <3>1. n = 0 /\ x = y
      BY <2>4, EmptySeq DEF Runs
    <3>2. StartOf(new[1]) = x /\ Len(new) = 1 /\ new[1] = u
      BY <2>1, <3>1
    <3>3. 2..Len(new) = {}
      BY <3>2
    <3>4. QED BY <2>1, <2>2, <2>3, <3>2, <3>3 DEF Runs
  <2>5. CASE us # <<>>
    <3>1. /\ n >= 1 /\ StartOf(us[1]) = x /\ EndOf(t, us[n]) = y
          /\ \A i \in 2..n : StartOf(us[i]) = EndOf(t, us[i - 1])
      BY <2>5, RunTypes
    <3>2. 1 \in 1..n /\ n \in 1..n
      BY <1>1, <3>1
    <3>3. StartOf(new[1]) = x
      BY <2>1, <3>1, <3>2
    <3>4. ASSUME NEW i \in 2..n + 1 PROVE StartOf(new[i]) = EndOf(t, new[i - 1])
      <4>1. CASE i = n + 1
        <5>1. i - 1 = n
          BY <1>1, <4>1
        <5>2. QED BY <2>1, <3>1, <3>2, <4>1, <5>1
      <4>2. CASE i # n + 1
        <5>1. i \in 2..n /\ i \in 1..n /\ i - 1 \in 1..n
          BY <1>1, <4>2
        <5>2. QED BY <2>1, <3>1, <5>1
      <4>3. QED BY <4>1, <4>2
    <3>5. QED BY <2>1, <2>2, <2>3, <3>3, <3>4 DEF Runs
  <2>6. QED BY <2>4, <2>5
<1>4. QED BY <1>2, <1>3

\* Units packed one after the other lead as far as they led.
LEMMA PackAllRuns ==
    ASSUME NEW t \in Seq(Word), NEW us, NEW vs, NEW x, NEW y, NEW z,
           Runs(t, us, x, y), Runs(t, vs, y, z)
    PROVE  Runs(t, PackAll(us, vs), x, z)
<1> DEFINE n == Len(vs)
<1>1. vs \in Seq(Units(t)) /\ n \in Nat
  BY LenProperties DEF Runs
<1>2. PICK f : /\ f[0] = us /\ PackAll(us, vs) = f[n]
               /\ \A k \in 1..n : f[k] = Pack(f[k - 1], vs[k])
  BY <1>1, PackSteps
<1>3. CASE vs = <<>>
  <2>1. n = 0 /\ y = z
    BY <1>3, EmptySeq DEF Runs
  <2>2. QED BY <1>2, <2>1
<1>4. CASE vs # <<>>
  <2>1. /\ n >= 1 /\ \A i \in 1..n : vs[i] \in Units(t)
        /\ StartOf(vs[1]) = y /\ EndOf(t, vs[n]) = z
        /\ \A i \in 2..n : StartOf(vs[i]) = EndOf(t, vs[i - 1])
    BY <1>4, RunTypes
  <2> DEFINE Good == {k \in Nat : k + 1 =< n => Runs(t, f[k + 1], x, EndOf(t, vs[k + 1]))}
  <2> HIDE DEF n
  <2>2. 0 \in Good
    <3>1. 1 \in 1..n
      BY <1>1, <2>1
    <3>2. f[1] = Pack(us, vs[1]) /\ vs[1] \in Units(t)
      BY <1>2, <2>1, <3>1
    <3>3. Runs(t, f[1], x, EndOf(t, vs[1]))
      BY <2>1, <3>2, PackRuns
    <3>4. QED BY <3>3
  <2>3. ASSUME NEW k \in Nat, k \in Good PROVE k + 1 \in Good
    <3>1. SUFFICES ASSUME (k + 1) + 1 =< n
                   PROVE  Runs(t, f[(k + 1) + 1], x, EndOf(t, vs[(k + 1) + 1]))
      OBVIOUS
    <3> DEFINE i == (k + 1) + 1
    <3>2. k + 1 =< n /\ i \in 1..n /\ i \in 2..n /\ i - 1 = k + 1
      BY <1>1, <3>1
    <3>3. Runs(t, f[k + 1], x, EndOf(t, vs[k + 1]))
      BY <2>3, <3>2
    <3> HIDE DEF i
    <3>4. f[i] = Pack(f[k + 1], vs[i]) /\ vs[i] \in Units(t) /\ StartOf(vs[i]) = EndOf(t, vs[k + 1])
      BY <1>2, <2>1, <3>2
    <3>5. Runs(t, f[i], x, EndOf(t, vs[i]))
      BY <3>3, <3>4, PackRuns
    <3>6. QED BY <3>5 DEF i
  <2>4. Nat \subseteq Good
    <3> HIDE DEF Good
    <3>1. QED BY <2>2, <2>3, NumberInduction
  <2>5. n - 1 \in Nat /\ (n - 1) + 1 = n
    BY <1>1, <2>1
  <2>6. Runs(t, f[n], x, EndOf(t, vs[n]))
    BY <2>4, <2>5
  <2>7. QED BY <1>2, <2>1, <2>6
<1>5. QED BY <1>3, <1>4

LEMMA Lesser ==
    ASSUME NEW a \in Nat, NEW b \in Nat
    PROVE  /\ Min({a, b}) \in {a, b} /\ Min({a, b}) =< a /\ Min({a, b}) =< b
<1> DEFINE S == {a, b}
<1>1. \E m \in S : \A k \in S : m =< k
  OBVIOUS
<1>2. Min(S) \in S /\ \A k \in S : Min(S) =< k
  <2> HIDE DEF S
  <2>1. QED BY <1>1 DEF Min
<1>3. QED BY <1>2

\* The line one piece is.
LEMMA OnePiece ==
    ASSUME SendingAssumption, NEW t \in Seq(Word), NEW p \in Pieces(t), NEW sep \in Nat,
           p.to - p.from + 1 =< MaxChars, sep = 0 => StartsAt(p) = <<1, 1>>
    PROVE  LET u == Unit(<<p>>, p.to - p.from + 1, sep)
           IN  u \in Units(t) /\ StartOf(u) = StartsAt(p) /\ EndOf(t, u) = After(t, p)
<1> DEFINE s == <<p>>
           l == p.to - p.from + 1
           u == Unit(s, l, sep)
<1>1. s \in Seq(Pieces(t)) /\ Len(s) = 1 /\ s[1] = p /\ s # <<>>
  OBVIOUS
<1>2. l \in Nat
  BY PieceTypes DEF Positive
<1> HIDE DEF s
<1>3. Chars(s) = l
  <2>1. PICK f : /\ f[0] = 0 /\ Chars(s) = f[Len(s)]
                 /\ \A n \in 1..Len(s) : f[n] = f[n - 1] + (s[n].to - s[n].from + 1)
    <3>1. Len(s) \in Nat
      BY <1>1
    <3>2. QED BY <3>1, CharsSteps
  <2>2. f[1] = f[0] + l
    BY <1>1, <2>1
  <2>3. QED BY <1>1, <1>2, <2>1, <2>2
<1> HIDE DEF l
<1>4. Line(t, s)
  <2>1. 2..Len(s) = {}
    BY <1>1
  <2>2. QED BY <1>1, <2>1 DEF Line
<1>5. /\ u \in [pieces: Seq(Pieces(t)), len: Nat, sep: Nat]
      /\ u.pieces = s /\ u.len = l /\ u.sep = sep
  BY <1>1, <1>2 DEF Unit
<1> HIDE DEF u
<1>6. u.len =< MaxChars /\ u.len >= Chars(u.pieces) + Len(u.pieces) - 1
  <2>1. l =< MaxChars
    BY DEF l
  <2>2. u.len = l /\ Chars(u.pieces) = l /\ Len(u.pieces) = 1
    BY <1>1, <1>3, <1>5
  <2>3. l >= l + 1 - 1
    BY <1>2
  <2>4. QED BY <2>1, <2>2, <2>3
<1>7. u \in Units(t)
  BY <1>1, <1>4, <1>5, <1>6 DEF Units
<1>8. StartOf(u) = StartsAt(p) /\ EndOf(t, u) = After(t, p)
  BY <1>1, <1>5 DEF StartOf, EndOf
<1>9. QED BY <1>7, <1>8 DEF u, s, l

\* A cut word leads from its first character to the word behind it.
LEMMA CutRuns ==
    ASSUME SendingAssumption, NEW t \in Seq(Word), NEW w \in 1..Len(t), NEW sep \in Nat,
           sep = 0 => w = 1
    PROVE  Runs(t, Cut(w, t[w].len, sep), <<w, 1>>, <<w + 1, 1>>)
<1> DEFINE len == t[w].len
           n == (len + MaxChars - 1) \div MaxChars
           piece(i) == PieceOf(w, len, i)
           us == Cut(w, len, sep)
<1>1. len \in Nat \ {0} /\ MaxChars \in Nat \ {0} /\ w \in Nat
  <2>1. t[w] \in Word
    BY ElementOfSeq
  <2>2. QED BY <2>1 DEF Word, SendingAssumption
<1> HIDE DEF len
<1>2. n \in Nat \ {0} /\ (n - 1) * MaxChars < len /\ len =< n * MaxChars
  BY <1>1, Ceiling
<1>3. us = [i \in 1..n |-> Unit(<<piece(i)>>, piece(i).to - piece(i).from + 1,
                                IF i = 1 THEN sep ELSE 1)]
  BY DEF Cut, Cuts
<1> HIDE DEF n, us
<1>4. ASSUME NEW i \in 1..n
      PROVE  /\ piece(i).word = w /\ piece(i).from = (i - 1) * MaxChars + 1
             /\ piece(i) \in [word: 1..Len(t), from: Positive, to: Positive]
             /\ piece(i).from =< piece(i).to /\ piece(i).to =< len
             /\ piece(i).to - piece(i).from + 1 =< MaxChars
             /\ i < n => piece(i).to = i * MaxChars /\ i * MaxChars < len
             /\ i = n => piece(i).to = len
  <2>1. i \in Nat /\ i - 1 \in Nat /\ i * MaxChars \in Nat /\ (i - 1) * MaxChars \in Nat
        /\ i * MaxChars = (i - 1) * MaxChars + MaxChars
    BY <1>1, <1>2
  <2>2. i < n => i * MaxChars =< (n - 1) * MaxChars
    <3>1. SUFFICES ASSUME i < n PROVE i * MaxChars =< (n - 1) * MaxChars
      OBVIOUS
    <3>2. (n - 1) - i \in Nat /\ n - 1 \in Nat
      BY <1>2, <3>1
    <3>3. ((n - 1) - i) * MaxChars \in Nat
      BY <1>1, <3>2
    <3>4. (n - 1) * MaxChars = i * MaxChars + ((n - 1) - i) * MaxChars
      BY <1>1, <2>1, <3>2
    <3>5. QED BY <2>1, <3>3, <3>4
  <2>3. (n - 1) * MaxChars \in Nat /\ n * MaxChars \in Nat
    BY <1>1, <1>2
  <2> DEFINE from == (i - 1) * MaxChars + 1
             to == Min({i * MaxChars, len})
  <2>4. to \in {i * MaxChars, len} /\ to =< i * MaxChars /\ to =< len
    BY <1>1, <2>1, Lesser
  <2>5. piece(i) = [word |-> w, from |-> from, to |-> to]
    BY DEF PieceOf, Piece
  <2> HIDE DEF to
  <2>6. i < n => to = i * MaxChars /\ i * MaxChars < len
    BY <1>1, <1>2, <2>1, <2>2, <2>3, <2>4
  <2>7. i = n => to = len
    BY <1>1, <1>2, <2>1, <2>3, <2>4
  <2>8. from \in Positive /\ from =< to /\ to \in Positive /\ to - from + 1 =< MaxChars
    <3>1. i < n \/ i = n
      BY <1>2
    <3>2. from =< i * MaxChars /\ i = n => from =< len
      BY <1>1, <1>2, <2>1
    <3>3. from \in Positive
      <4>1. \A x \in Nat : x + 1 \in Positive
        BY DEF Positive
      <4>2. QED BY <2>1, <4>1
    <3>4. from =< to
      BY <1>1, <1>2, <2>1, <2>6, <2>7, <3>1
    <3>5. to \in Nat
      BY <1>1, <2>1, <2>4
    <3>6. to - from + 1 =< MaxChars
      BY <1>1, <2>1, <2>4, <3>5
    <3>7. QED BY <3>3, <3>4, <3>5, <3>6 DEF Positive
  <2> HIDE DEF from
  <2> HIDE DEF piece
  <2>9. QED BY <2>4, <2>5, <2>6, <2>7, <2>8 DEF from
<1> HIDE DEF piece
<1>5. \A i \in 1..n : piece(i) \in Pieces(t)
  <2> SUFFICES ASSUME NEW i \in 1..n PROVE piece(i) \in Pieces(t)
    OBVIOUS
  <2>1. ASSUME len =< MaxChars PROVE piece(i).from = 1 /\ piece(i).to = len
    <3>1. n = 1
      <4>1. n >= 2 => (n - 1) * MaxChars >= MaxChars
        <5>1. SUFFICES ASSUME n >= 2 PROVE (n - 1) * MaxChars >= MaxChars
          OBVIOUS
        <5>2. n - 2 \in Nat /\ (n - 2) * MaxChars \in Nat
          BY <1>1, <1>2, <5>1
        <5>3. (n - 1) * MaxChars = (n - 2) * MaxChars + MaxChars
          BY <1>1, <1>2
        <5>4. QED BY <1>1, <5>2, <5>3
      <4>2. (n - 1) * MaxChars \in Nat
        BY <1>1, <1>2
      <4>3. QED BY <1>1, <1>2, <2>1, <4>1, <4>2
    <3>2. i = 1 /\ i = n
      BY <3>1
    <3>3. (1 - 1) * MaxChars = 0
      BY <1>1
    <3>4. QED BY <1>4, <3>2, <3>3
  <2>2. QED BY <1>4, <2>1 DEF Pieces, len
<1>6. ASSUME NEW i \in 1..n
      PROVE  /\ us[i] \in Units(t)
             /\ StartOf(us[i]) = StartsAt(piece(i)) /\ EndOf(t, us[i]) = After(t, piece(i))
  <2> DEFINE s == IF i = 1 THEN sep ELSE 1
  <2>1. s \in Nat /\ (s = 0 => i = 1 /\ w = 1)
    OBVIOUS
  <2>2. s = 0 => StartsAt(piece(i)) = <<1, 1>>
    <3>1. (1 - 1) * MaxChars + 1 = 1
      BY <1>1
    <3>2. QED BY <1>4, <2>1, <3>1 DEF StartsAt
  <2>3. us[i] = Unit(<<piece(i)>>, piece(i).to - piece(i).from + 1, s)
    BY <1>3
  <2> HIDE DEF s
  <2>4. piece(i).to - piece(i).from + 1 =< MaxChars /\ piece(i) \in Pieces(t)
    BY <1>4, <1>5
  <2>5. QED BY <2>1, <2>2, <2>3, <2>4, OnePiece
<1>7. us \in Seq(Units(t)) /\ Len(us) = n
  <2>1. us = [i \in 1..n |-> us[i]] /\ \A i \in 1..n : us[i] \in Units(t)
    BY <1>3, <1>6
  <2>2. n \in Nat
    BY <1>2
  <2>3. us \in [1..n -> Units(t)]
    BY <2>1
  <2>4. QED BY <2>2, <2>3, SeqDef, LenProperties
<1>8. 1 \in 1..n /\ n \in 1..n
  BY <1>2
<1>9. us # <<>>
  BY <1>2, <1>7, EmptySeq
<1>10. StartOf(us[1]) = <<w, 1>>
  <2>1. (1 - 1) * MaxChars + 1 = 1
    BY <1>1
  <2>2. QED BY <1>4, <1>6, <1>8, <2>1 DEF StartsAt
<1>11. EndOf(t, us[n]) = <<w + 1, 1>>
  BY <1>4, <1>6, <1>8 DEF After, len
<1>12. ASSUME NEW i \in 2..n PROVE StartOf(us[i]) = EndOf(t, us[i - 1])
  <2>1. i \in 1..n /\ i - 1 \in 1..n /\ i - 1 < n
    BY <1>2
  <2>2. /\ piece(i - 1).to = (i - 1) * MaxChars /\ (i - 1) * MaxChars < len
        /\ piece(i - 1).word = w
    BY <1>4, <2>1
  <2>3. After(t, piece(i - 1)) = <<w, (i - 1) * MaxChars + 1>>
    <3>1. (i - 1) * MaxChars # len
      BY <1>1, <2>1, <2>2
    <3>2. QED BY <2>2, <3>1 DEF After, len
  <2>4. QED BY <1>4, <1>6, <2>1, <2>3 DEF StartsAt
<1>13. Runs(t, us, <<w, 1>>, <<w + 1, 1>>)
  BY <1>7, <1>9, <1>10, <1>11, <1>12 DEF Runs
<1>14. QED BY <1>13 DEF us, len

\* What the words up to one have become: chunks, and the parts of a sentence that goes on.
ReadUpTo(t, acc, w) ==
    /\ \E m : Runs(t, acc.chunks, <<1, 1>>, m) /\ Runs(t, acc.parts, m, <<w + 1, 1>>)
    /\ w = Len(t) => acc.parts = <<>>

LEMMA NoRun == ASSUME NEW t, NEW x PROVE Runs(t, <<>>, x, x)
<1>1. <<>> \in Seq(Units(t)) /\ Len(<<>>) = 0 /\ 2..0 = {}
  BY EmptySeq
<1>2. QED BY <1>1 DEF Runs

LEMMA ReadRuns ==
    ASSUME SendingAssumption, NEW t \in Seq(Word), NEW w \in 1..Len(t), NEW acc,
           ReadUpTo(t, acc, w - 1)
    PROVE  ReadUpTo(t, Read(t, acc, w), w)
<1>1. PICK m : Runs(t, acc.chunks, <<1, 1>>, m) /\ Runs(t, acc.parts, m, <<(w - 1) + 1, 1>>)
  BY DEF ReadUpTo
<1>2. w \in Nat /\ (w - 1) + 1 = w
  BY LenProperties
<1> DEFINE cut == Cut(w, t[w].len, Sep(t, w))
           parts == PackAll(acc.parts, cut)
<1>3. Sep(t, w) \in Nat /\ (Sep(t, w) = 0 => w = 1)
  BY <1>2 DEF Sep
<1>4. Runs(t, cut, <<w, 1>>, <<w + 1, 1>>)
  BY <1>3, CutRuns
<1> HIDE DEF cut
<1>5. Runs(t, parts, m, <<w + 1, 1>>)
  BY <1>1, <1>2, <1>4, PackAllRuns
<1>6. CASE EndsSentence(t, w)
  <2>1. Read(t, acc, w) = [chunks |-> PackAll(acc.chunks, parts), parts |-> <<>>]
    BY <1>6 DEF Read, cut
  <2> HIDE DEF parts
  <2>2. Runs(t, PackAll(acc.chunks, parts), <<1, 1>>, <<w + 1, 1>>)
    BY <1>1, <1>5, PackAllRuns
  <2>3. Runs(t, <<>>, <<w + 1, 1>>, <<w + 1, 1>>)
    BY NoRun
  <2> DEFINE chunks == PackAll(acc.chunks, parts)
  <2> HIDE DEF chunks
  <2>4. Read(t, acc, w).chunks = chunks /\ Read(t, acc, w).parts = <<>>
    BY <2>1 DEF chunks
  <2>5. Runs(t, chunks, <<1, 1>>, <<w + 1, 1>>)
    BY <2>2 DEF chunks
  <2>6. QED BY <2>3, <2>4, <2>5 DEF ReadUpTo
<1>7. CASE ~EndsSentence(t, w)
  <2>1. Read(t, acc, w) = [chunks |-> acc.chunks, parts |-> parts] /\ w # Len(t)
    BY <1>7 DEF Read, EndsSentence, cut
  <2> HIDE DEF parts
  <2>2. Read(t, acc, w).chunks = acc.chunks /\ Read(t, acc, w).parts = parts
    BY <2>1
  <2>3. QED BY <1>1, <1>5, <2>1, <2>2 DEF ReadUpTo
<1>8. QED BY <1>6, <1>7

\* The chunks of a text lead from its first character to its end.
LEMMA ChunksRun ==
    ASSUME SendingAssumption, NEW t \in Seq(Word), t # <<>>
    PROVE  Runs(t, Chunks(t), <<1, 1>>, <<Len(t) + 1, 1>>)
<1>1. Len(t) \in Nat /\ Len(t) # 0
  BY EmptySeq, LenProperties
<1>2. PICK f : /\ f[0] = [chunks |-> <<>>, parts |-> <<>>] /\ Chunks(t) = f[Len(t)].chunks
               /\ \A n \in 1..Len(t) : f[n] = Read(t, f[n - 1], n)
  BY <1>1, ReadSteps
<1> DEFINE Good == {n \in Nat : n =< Len(t) => ReadUpTo(t, f[n], n)}
<1>3. 0 \in Good
  <2>1. f[0].chunks = <<>> /\ f[0].parts = <<>> /\ 0 + 1 = 1
    BY <1>2
  <2>2. Runs(t, <<>>, <<1, 1>>, <<1, 1>>)
    BY NoRun
  <2>3. ReadUpTo(t, f[0], 0)
    BY <1>1, <2>1, <2>2 DEF ReadUpTo
  <2>4. QED BY <2>3
<1>4. ASSUME NEW n \in Nat, n \in Good PROVE n + 1 \in Good
  <2>1. SUFFICES ASSUME n + 1 =< Len(t) PROVE ReadUpTo(t, f[n + 1], n + 1)
    OBVIOUS
  <2>2. n =< Len(t) /\ n + 1 \in 1..Len(t) /\ (n + 1) - 1 = n
    BY <1>1, <2>1
  <2>3. ReadUpTo(t, f[n], n)
    BY <1>4, <2>2
  <2>4. f[n + 1] = Read(t, f[n], n + 1)
    BY <1>2, <2>2
  <2>5. QED BY <2>2, <2>3, <2>4, ReadRuns
<1>5. Nat \subseteq Good
  <2> HIDE DEF Good
  <2>1. QED BY <1>3, <1>4, NumberInduction
<1>6. ReadUpTo(t, f[Len(t)], Len(t))
  BY <1>1, <1>5
<1>7. PICK m : /\ Runs(t, f[Len(t)].chunks, <<1, 1>>, m)
               /\ Runs(t, f[Len(t)].parts, m, <<Len(t) + 1, 1>>)
               /\ f[Len(t)].parts = <<>>
  BY <1>6 DEF ReadUpTo
<1>8. m = <<Len(t) + 1, 1>>
  BY <1>7 DEF Runs
<1>9. QED BY <1>2, <1>7, <1>8

LEMMA TextsSplit == SendingAssumption /\ text \in Texts => TextSplit
<1> SUFFICES ASSUME SendingAssumption, text \in Texts PROVE TextSplit
  OBVIOUS
<1>1. text \in Seq(Word) /\ text # <<>> /\ Len(text) \in Nat /\ Len(text) # 0
  <2>1. text \in Seq(Word) /\ text # <<>>
    BY DEF SendingAssumption
  <2>2. QED BY <2>1, EmptySeq, LenProperties
<1> DEFINE chunks == Chunks(text)
<1>2. Runs(text, chunks, <<1, 1>>, <<Len(text) + 1, 1>>)
  BY <1>1, ChunksRun
<1> HIDE DEF chunks
<1>3. chunks # <<>>
  <2>1. Len(text) + 1 # 1
    BY <1>1
  <2>2. <<1, 1>> # <<Len(text) + 1, 1>>
    BY <2>1
  <2>3. QED BY <1>2, <2>2 DEF Runs
<1>4. /\ Len(chunks) \in Nat /\ Len(chunks) \in 1..Len(chunks)
      /\ chunks \in Seq(Units(text)) /\ \A i \in 1..Len(chunks) : chunks[i] \in Units(text)
      /\ StartOf(chunks[1]) = <<1, 1>> /\ EndOf(text, chunks[Len(chunks)]) = <<Len(text) + 1, 1>>
      /\ \A i \in 2..Len(chunks) : StartOf(chunks[i]) = EndOf(text, chunks[i - 1])
  BY <1>1, <1>2, <1>3, RunTypes
<1>5. DOMAIN chunks = 1..Len(chunks)
  BY <1>4, LenProperties
<1>6. StartsAt(chunks[1].pieces[1]) = <<1, 1>>
  BY <1>4 DEF StartOf
<1>7. After(text, Last(Last(chunks).pieces)) = <<Len(text) + 1, 1>>
  BY <1>4 DEF EndOf, Last
<1>8. ASSUME NEW i \in DOMAIN chunks, i > 1
      PROVE  StartsAt(chunks[i].pieces[1]) = After(text, Last(chunks[i - 1].pieces))
  <2>1. i \in 2..Len(chunks)
    BY <1>4, <1>5, <1>8
  <2>2. QED BY <1>4, <2>1 DEF StartOf, EndOf, Last
<1>9. ASSUME NEW i \in DOMAIN chunks, NEW k \in DOMAIN chunks[i].pieces
      PROVE  LET p == chunks[i].pieces[k]
             IN  /\ k > 1 => StartsAt(p) = After(text, chunks[i].pieces[k - 1])
                 /\ p.from =< p.to /\ p.to =< text[p.word].len
                 /\ text[p.word].len =< MaxChars => p.from = 1 /\ p.to = text[p.word].len
  <2> DEFINE c == chunks[i]
  <2>1. c \in Units(text)
    BY <1>4, <1>5
  <2> HIDE DEF c
  <2>2. /\ c.pieces \in Seq(Pieces(text)) /\ Len(c.pieces) \in Nat
        /\ \A j \in 1..Len(c.pieces) : c.pieces[j] \in Pieces(text)
        /\ \A j \in 2..Len(c.pieces) : StartsAt(c.pieces[j]) = After(text, c.pieces[j - 1])
    BY <1>1, <2>1, UnitTypes
  <2>3. k \in 1..Len(c.pieces)
    BY <2>2, LenProperties DEF c
  <2>4. k > 1 => StartsAt(c.pieces[k]) = After(text, c.pieces[k - 1])
    <3>1. k > 1 => k \in 2..Len(c.pieces)
      BY <2>2, <2>3
    <3>2. QED BY <2>2, <3>1
  <2>5. c.pieces[k] \in Pieces(text)
    BY <2>2, <2>3
  <2>6. QED BY <1>1, <2>4, <2>5, PieceTypes DEF c
<1>10. ASSUME NEW i \in DOMAIN chunks
       PROVE  /\ chunks[i].len =< MaxChars
              /\ chunks[i].len >= Chars(chunks[i].pieces) + Len(chunks[i].pieces) - 1
  BY <1>1, <1>4, <1>5, UnitTypes
<1>11. QED BY <1>3, <1>6, <1>7, <1>8, <1>9, <1>10 DEF TextSplit, chunks

\* "Split text without silently truncating it": whatever the text and the limit, the chunks
\* fit, hold every character once and in order, and cut only a word longer than a chunk.
THEOREM NothingTruncated == SendingSpec => []TextSplit
<1>1. SendingInit => text \in Texts
  BY DEF SendingInit
<1>2. text \in Texts /\ [SendingNext]_sendingVars => (text \in Texts)'
  BY DEF SendingNext, sendingVars, Refuse, Begin, Try, Accepted, NextChunk, Done, RequestFails,
         GivesUp, Cancelled
<1>3. text \in Texts => TextSplit
  BY SendingAssumption, TextsSplit
<1>4. QED BY <1>1, <1>2, <1>3, PTL DEF SendingSpec
===============================================================================
