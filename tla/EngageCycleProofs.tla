--------------------------- MODULE EngageCycleProofs ---------------------------
(***************************************************************************)
(* Proofs about the engagement cycle and its policies, for any chats,      *)
(* lanes, messages, answers, faults and budgets.                           *)
(***************************************************************************)
EXTENDS EngageCycle, NumberLemmas, SequenceTheorems

-------------------------------------------------------------------------------
(* Sets of numbers in order, and parts of a sequence.                      *)

\* A set in order lists its elements, each of them.
LEMMA AscendingLists ==
    ASSUME NEW S \in SUBSET Nat, IsFiniteSet(S)
    PROVE  /\ Cardinality(S) \in Nat
           /\ DOMAIN Ascending(S) = 1..Cardinality(S)
           /\ Ascending(S) \in [1..Cardinality(S) -> S]
           /\ \A n \in S : \E k \in 1..Cardinality(S) : Ascending(S)[k] = n
           /\ \A i, j \in 1..Cardinality(S) : Ascending(S)[i] = Ascending(S)[j] => i = j
<1> DEFINE rank(n) == Cardinality({m \in S : m =< n})
           at(k) == CHOOSE n \in S : rank(n) = k
<1>1. Cardinality(S) \in Nat
  BY FS_CardinalityType
<1>2. Ascending(S) = [k \in 1..Cardinality(S) |-> at(k)]
  BY DEF Ascending
<1>3. \A k \in 1..Cardinality(S) : at(k) \in S /\ rank(at(k)) = k
  <2>1. ASSUME NEW k \in 1..Cardinality(S) PROVE at(k) \in S /\ rank(at(k)) = k
    <3>1. \E n \in S : rank(n) = k
      BY RankedNumber
    <3> HIDE DEF rank
    <3>2. QED BY <3>1
  <2>2. QED BY <2>1
<1>4. ASSUME NEW n \in S
      PROVE  \E k \in 1..Cardinality(S) : at(k) = n
  <2>1. rank(n) \in 1..Cardinality(S)
    <3>1. {m \in S : m =< n} \in SUBSET S /\ n \in {m \in S : m =< n}
      OBVIOUS
    <3>2. IsFiniteSet({m \in S : m =< n}) /\ rank(n) =< Cardinality(S)
      BY <3>1, FS_Subset
    <3>3. rank(n) \in Nat /\ rank(n) # 0
      BY <3>1, <3>2, FS_CardinalityType, FS_EmptySet
    <3> HIDE DEF rank
    <3>4. QED BY <3>2, <3>3, <1>1
  <2>2. at(rank(n)) \in S /\ rank(at(rank(n))) = rank(n)
    BY <2>1, <1>3
  <2> HIDE DEF at
  <2>3. at(rank(n)) = n
    <3>1. PICK p \in S : p = at(rank(n)) /\ rank(p) = rank(n)
      BY <2>2
    <3>2. p = n
      BY <3>1, RankTells
    <3>3. QED BY <3>1, <3>2
  <2> HIDE DEF rank
  <2>4. QED BY <2>1, <2>3
<1>5. ASSUME NEW i \in 1..Cardinality(S), NEW j \in 1..Cardinality(S), at(i) = at(j)
      PROVE  i = j
  <2>1. rank(at(i)) = i /\ rank(at(j)) = j
    BY <1>3
  <2> HIDE DEF rank, at
  <2>2. QED BY <2>1, <1>5
<1> HIDE DEF rank, at
<1>6. Ascending(S) \in [1..Cardinality(S) -> S] /\ DOMAIN Ascending(S) = 1..Cardinality(S)
  BY <1>2, <1>3
<1>7. \A n \in S : \E k \in 1..Cardinality(S) : Ascending(S)[k] = n
  BY <1>2, <1>4
<1>8. \A i, j \in 1..Cardinality(S) : Ascending(S)[i] = Ascending(S)[j] => i = j
  BY <1>2, <1>5
<1>9. QED BY <1>1, <1>6, <1>7, <1>8

\* A set of messages is finite.
LEMMA RowsFinite ==
    ASSUME NEW R \in SUBSET Row
    PROVE  R \in SUBSET Nat /\ IsFiniteSet(R) /\ Cardinality(R) \in Nat
<1>1. Row \in SUBSET Nat /\ IsFiniteSet(Row)
  <2>1. Rows \in Int
    BY PolicyAssumption
  <2>2. QED BY <2>1, FS_Interval DEF Row
<1>2. QED BY <1>1, FS_Subset, FS_CardinalityType

\* What is taken from a sequence are its elements at the places.
LEMMA TakenFrom ==
    ASSUME NEW T, NEW s \in Seq(T), NEW places \in SUBSET (1..Len(s))
    PROVE  /\ Taken(s, places) \in Seq(T)
           /\ ToSet(Taken(s, places)) = {s[i] : i \in places}
<1>1. Len(s) \in Nat /\ \A i \in 1..Len(s) : s[i] \in T
  BY LenProperties, ElementOfSeq
<1>2. places \in SUBSET Nat /\ IsFiniteSet(places)
  <2>1. IsFiniteSet(1..Len(s))
    BY <1>1, FS_Interval
  <2>2. \A i \in places : i \in 1..Len(s) /\ i \in Nat
    BY <1>1
  <2>3. places \in SUBSET Nat
    BY <2>2
  <2>4. QED BY <2>1, <2>3, FS_Subset
<1> DEFINE n == Cardinality(places)
           order == Ascending(places)
           new == Taken(s, places)
<1>3. /\ n \in Nat /\ order \in [1..n -> places]
      /\ \A i \in places : \E k \in 1..n : order[k] = i
  BY <1>2, AscendingLists
<1>4. new = [k \in 1..n |-> s[order[k]]]
  BY DEF Taken
<1> HIDE DEF n, order, new
<1>5. \A k \in 1..n : order[k] \in places /\ s[order[k]] \in T
  BY <1>1, <1>3
<1>6. new \in [1..n -> T] /\ DOMAIN new = 1..n
  BY <1>4, <1>5
<1>7. new \in Seq(T)
  BY <1>3, <1>6, SeqDef
<1>8. ToSet(new) = {s[i] : i \in places}
  <2>1. ToSet(new) = {new[k] : k \in 1..n}
    BY <1>6 DEF ToSet
  <2>2. \A k \in 1..n : new[k] = s[order[k]] /\ order[k] \in places
    BY <1>4, <1>5
  <2>3. ASSUME NEW x \in ToSet(new) PROVE x \in {s[i] : i \in places}
    <3>1. PICK k \in 1..n : x = new[k]
      BY <2>1
    <3>2. x = s[order[k]] /\ order[k] \in places
      BY <3>1, <2>2
    <3>3. QED BY <3>2
  <2>4. ASSUME NEW i \in places PROVE s[i] \in ToSet(new)
    <3>1. PICK k \in 1..n : order[k] = i
      BY <1>3
    <3>2. new[k] = s[i]
      BY <2>2, <3>1
    <3>3. QED BY <2>1, <3>2
  <2>5. QED BY <2>3, <2>4
<1>9. QED BY <1>7, <1>8 DEF new

\* No place is taken twice.
LEMMA TakenPlaces ==
    ASSUME NEW T, NEW s \in Seq(T), NEW places \in SUBSET (1..Len(s))
    PROVE  LET n == Len(Taken(s, places))
           IN  \E g \in [1..n -> places] : \A k \in 1..n :
                  /\ Taken(s, places)[k] = s[g[k]]
                  /\ \A m \in 1..n : g[k] = g[m] => k = m
<1>1. IsFiniteSet(1..Len(s)) /\ \A i \in 1..Len(s) : i \in Nat
  BY FS_Interval, LenProperties
<1>2. places \in SUBSET Nat /\ IsFiniteSet(places)
  BY <1>1, FS_Subset
<1> DEFINE n == Cardinality(places)
           order == Ascending(places)
           new == Taken(s, places)
<1>3. /\ n \in Nat /\ order \in [1..n -> places]
      /\ \A i, j \in 1..n : order[i] = order[j] => i = j
  BY <1>2, AscendingLists
<1>4. new = [k \in 1..n |-> s[order[k]]]
  BY DEF Taken
<1> HIDE DEF n, order
<1>5. Len(new) = n
  <2> DEFINE U == {s[i] : i \in places}
  <2>1. \A k \in 1..n : s[order[k]] \in U
    BY <1>3
  <2> HIDE DEF new, U
  <2>2. new \in [1..n -> U] /\ DOMAIN new = 1..n
    BY <2>1, <1>4
  <2>3. new \in Seq(U)
    BY <2>2, <1>3, SeqDef
  <2>4. QED BY <2>2, <2>3, <1>3, LenProperties
<1>6. \A k \in 1..n : new[k] = s[order[k]]
  BY <1>4
<1> HIDE DEF new
<1>7. \E g \in [1..n -> places] : \A k \in 1..n :
         new[k] = s[g[k]] /\ \A m \in 1..n : g[k] = g[m] => k = m
  BY <1>3, <1>6
<1>8. QED BY <1>5, <1>7 DEF new

\* A sequence as a set, the usual way.
LEMMA Elements ==
    ASSUME NEW T, NEW s \in Seq(T)
    PROVE  /\ Len(s) \in Nat /\ DOMAIN s = 1..Len(s)
           /\ \A i \in 1..Len(s) : s[i] \in T
           /\ ToSet(s) = {s[i] : i \in 1..Len(s)} /\ ToSet(s) \subseteq T
<1>1. Len(s) \in Nat /\ DOMAIN s = 1..Len(s) /\ \A i \in 1..Len(s) : s[i] \in T
  BY LenProperties, ElementOfSeq
<1>2. QED BY <1>1 DEF ToSet
LEMMA SeqOfSome ==
    ASSUME NEW T, NEW s \in Seq(T), NEW U, ToSet(s) \subseteq U
    PROVE  s \in Seq(U)
<1>1. Len(s) \in Nat /\ s \in [1..Len(s) -> T] /\ DOMAIN s = 1..Len(s)
  BY LenProperties
<1>2. s \in [1..Len(s) -> U]
  BY <1>1 DEF ToSet
<1>3. QED BY <1>1, <1>2, SeqDef

-------------------------------------------------------------------------------
(* The policies make plans of plans.  T is a set of plans that companions, *)
(* delegation and its undoing do not leave.                                *)

Closed(T) ==
    /\ T \subseteq Plan
    /\ \A p \in T : /\ Noted(p) => Companion(p) \in T
                    /\ p.act = "reply" => [p EXCEPT !.act = "delegate"] \in T
                    /\ p.act \in {"reply", "delegate"} =>
                         /\ p.text = "short" => [p EXCEPT !.act = "reply"] \in T
                         /\ [p EXCEPT !.act = "reply", !.text = "short"] \in T

LEMMA ClosedIn ==
    ASSUME NEW T, Closed(T), NEW p \in T
    PROVE  /\ p \in Plan
           /\ p.act \in {"reply", "delegate"} /\ p.text = "short" => [p EXCEPT !.act = "reply"] \in T
<1>1. T \subseteq Plan
  BY Zenon DEF Closed
<1>2. p.act \in {"reply", "delegate"} /\ p.text = "short" => [p EXCEPT !.act = "reply"] \in T
  BY Zenon DEF Closed
<1>3. QED BY <1>1, <1>2, Zenon

LEMMA AutonomyKeeps ==
    ASSUME NEW T, NEW plans \in Seq(T), NEW demand, NEW proactive
    PROVE  WithinAutonomy(plans, demand, proactive) \in Seq(T)
<1>1. {i \in DOMAIN plans : \/ proactive
                            \/ plans[i].row \in demand
                            \/ plans[i].act \notin Outward \cup Memory} \in SUBSET (1..Len(plans))
  BY Elements
<1>2. QED BY <1>1, TakenFrom DEF WithinAutonomy

LEMMA NotWaitingKeeps ==
    ASSUME NEW T, NEW plans \in Seq(T)
    PROVE  NotWaiting(plans) \in Seq({p \in T : p.act # "wait"})
<1> DEFINE places == {i \in DOMAIN plans : plans[i].act # "wait"}
<1>1. DOMAIN plans = 1..Len(plans) /\ \A i \in 1..Len(plans) : plans[i] \in T
  BY Elements
<1>2. places \in SUBSET (1..Len(plans))
  BY <1>1
<1>3. NotWaiting(plans) \in Seq(T) /\ ToSet(NotWaiting(plans)) = {plans[i] : i \in places}
  BY <1>2, TakenFrom DEF NotWaiting
<1>4. ToSet(NotWaiting(plans)) \subseteq {p \in T : p.act # "wait"}
  BY <1>1, <1>3
<1>5. QED BY <1>3, <1>4, SeqOfSome

LEMMA MemoryKeeps ==
    ASSUME NEW T, NEW plans \in Seq(T), \A p \in T : Noted(p) => Companion(p) \in T
    PROVE  WithMemory(plans) \in Seq(T)
<1> DEFINE both == [i \in 1..2 * Len(plans) |-> IF i % 2 = 1 THEN plans[(i + 1) \div 2]
                                                ELSE Companion(plans[i \div 2])]
           places == {i \in DOMAIN both : i % 2 = 1 \/ Noted(plans[i \div 2])}
           U == {both[i] : i \in 1..2 * Len(plans)}
<1>1. Len(plans) \in Nat /\ \A i \in 1..Len(plans) : plans[i] \in T
  BY Elements
<1>2. 2 * Len(plans) \in Nat
  BY <1>1
<1>3. both \in Seq(U) /\ Len(both) = 2 * Len(plans) /\ DOMAIN both = 1..2 * Len(plans)
  <2>1. both \in [1..2 * Len(plans) -> U] /\ DOMAIN both = 1..2 * Len(plans)
    OBVIOUS
  <2> HIDE DEF both, U
  <2>2. both \in Seq(U)
    BY <2>1, <1>2, SeqDef
  <2>3. QED BY <2>1, <2>2, <1>2, LenProperties
<1>4. places \in SUBSET (1..Len(both))
  BY <1>3
<1>5. \A i \in places : both[i] \in T
  <2>1. ASSUME NEW i \in places PROVE both[i] \in T
    <3>1. i \in 1..2 * Len(plans) /\ (i % 2 = 1 \/ Noted(plans[i \div 2]))
      BY <1>3
    <3>2. CASE i % 2 = 1
      <4>1. both[i] = plans[(i + 1) \div 2]
        BY <3>1, <3>2
      <4>2. (i + 1) \div 2 \in 1..Len(plans)
        BY <3>1, <3>2, <1>1
      <4>3. QED BY <4>1, <4>2, <1>1
    <3>3. CASE i % 2 # 1
      <4>1. both[i] = Companion(plans[i \div 2]) /\ Noted(plans[i \div 2])
        BY <3>1, <3>3
      <4>2. i \div 2 \in 1..Len(plans)
        BY <3>1, <3>3, <1>1
      <4>3. QED BY <4>1, <4>2, <1>1
    <3>4. QED BY <3>2, <3>3
  <2>2. QED BY <2>1
<1>6. WithMemory(plans) = Taken(both, places)
  BY DEF WithMemory
<1> HIDE DEF both, places, U
<1>7. Taken(both, places) \in Seq(U) /\ ToSet(Taken(both, places)) = {both[i] : i \in places}
  BY <1>3, <1>4, TakenFrom
<1>8. ToSet(Taken(both, places)) \subseteq T
  BY <1>5, <1>7
<1>9. QED BY <1>6, <1>7, <1>8, SeqOfSome

LEMMA DepthKeeps ==
    ASSUME NEW T, Closed(T), NEW plans \in Seq(T), NEW demand
    PROVE  AtDepth(plans, demand) \in Seq(T)
<1> DEFINE places == {i \in DOMAIN plans : plans[i].act \in Outward => plans[i].want = "yes"}
           wanted == Taken(plans, places)
           deep == [i \in DOMAIN wanted |-> Deepened(wanted[i], demand)]
<1>1. places \in SUBSET (1..Len(plans))
  BY Elements
<1>2. wanted \in Seq(T)
  BY <1>1, TakenFrom
<1> HIDE DEF wanted
<1>3. DOMAIN wanted = 1..Len(wanted) /\ Len(wanted) \in Nat
      /\ \A i \in 1..Len(wanted) : wanted[i] \in T
  BY <1>2, Elements
<1>4. \A p \in T : Deepened(p, demand) \in T
  BY DEF Deepened, Closed
<1>5. deep \in [1..Len(wanted) -> T]
  BY <1>3, <1>4
<1>6. AtDepth(plans, demand) = deep
  BY DEF AtDepth, wanted
<1>7. QED BY <1>3, <1>5, <1>6, SeqDef

\* All policies together: no plan of theirs waits.
LEMMA DecidedKeeps ==
    ASSUME NEW T, Closed(T), NEW plans \in Seq(T), NEW lane, NEW rows, NEW proactive
    PROVE  Decided(plans, lane, rows, proactive) \in Seq({p \in T : p.act # "wait"})
<1> DEFINE U == {p \in T : p.act # "wait"}
           demand == Demand(plans)
           allowed == NotWaiting(WithinAutonomy(plans, demand, proactive))
<1>1. allowed \in Seq(U)
  BY AutonomyKeeps, NotWaitingKeeps
<1>2. Closed(U)
  <2>1. \A p \in T : Noted(p) => Companion(p) \in U
    <3>1. ASSUME NEW p \in T, Noted(p) PROVE Companion(p) \in U
      <4>1. Companion(p) \in T /\ p \in Plan
        BY <3>1 DEF Closed
      <4>2. Companion(p).act = NoteOf(p)
        BY <4>1 DEF Companion, Plan
      <4>3. QED BY <4>1, <4>2 DEF NoteOf
    <3>2. QED BY <3>1
  <2>2. \A p \in T : p.act = "reply" => [p EXCEPT !.act = "delegate"] \in U
    <3>1. \A p \in T : p \in Plan /\ (p.act = "reply" => [p EXCEPT !.act = "delegate"] \in T)
      BY DEF Closed
    <3>2. \A p \in Plan : [p EXCEPT !.act = "delegate"].act = "delegate"
      BY DEF Plan
    <3>3. QED BY <3>1, <3>2
  <2>3. \A p \in T : p.act \in {"reply", "delegate"} =>
           /\ p.text = "short" => [p EXCEPT !.act = "reply"] \in U
           /\ [p EXCEPT !.act = "reply", !.text = "short"] \in U
    <3>1. \A p \in T : p \in Plan /\ (p.act \in {"reply", "delegate"} =>
             /\ p.text = "short" => [p EXCEPT !.act = "reply"] \in T
             /\ [p EXCEPT !.act = "reply", !.text = "short"] \in T)
      BY DEF Closed
    <3>2. \A p \in Plan : [p EXCEPT !.act = "reply"].act = "reply"
                          /\ [p EXCEPT !.act = "reply", !.text = "short"].act = "reply"
      BY DEF Plan
    <3>3. QED BY <3>1, <3>2
  <2>4. QED BY <2>1, <2>2, <2>3 DEF Closed
<1> HIDE DEF U
<1>3. WithMemory(allowed) \in Seq(U)
  BY <1>1, <1>2, MemoryKeeps DEF Closed
<1>4. AtDepth(WithMemory(allowed), demand) \in Seq(U)
  BY <1>2, <1>3, DepthKeeps
<1>5. QED BY <1>4 DEF Decided, U

\* The ceilings: what becomes of each plan, one after the other.
LEMMA AdmitSteps ==
    ASSUME NEW plans, NEW demand, Len(plans) \in Nat
    PROVE  \E f : /\ f[0] = [out |-> <<>>, deferred |-> {}, refused |-> {}]
                  /\ \A n \in 1..Len(plans) : f[n] = AdmitOne(f[n - 1], plans[n], demand)
                  /\ Admit(plans, demand) = f[Len(plans)]
<1> DEFINE first == [out |-> <<>>, deferred |-> {}, refused |-> {}]
           step(f, n) == IF n = 0 THEN first ELSE AdmitOne(f[n - 1], plans[n], demand)
           Good == {k \in Nat : \E f : f = [n \in 0..k |-> step(f, n)]}
<1>1. 0 \in Good
  <2> DEFINE f == [n \in 0..0 |-> first]
  <2>1. f = [n \in 0..0 |-> step(f, n)]
    OBVIOUS
  <2> HIDE DEF f, step
  <2>2. QED BY <2>1
<1>2. ASSUME NEW k \in Nat, k \in Good PROVE k + 1 \in Good
  <2>1. PICK f : f = [n \in 0..k |-> step(f, n)]
    BY <1>2
  <2> DEFINE g == [n \in 0..k + 1 |-> IF n = k + 1 THEN step(f, k + 1) ELSE f[n]]
  <2>2. \A n \in 0..k : g[n] = f[n] /\ f[n] = step(f, n)
    <3>1. \A n \in 0..k : n \in 0..k + 1 /\ n # k + 1
      OBVIOUS
    <3> HIDE DEF step
    <3>2. \A n \in 0..k : g[n] = f[n]
      BY <3>1
    <3>3. QED BY <2>1, <3>2
  <2>3. g[k + 1] = step(f, k + 1)
    <3> HIDE DEF step
    <3>1. QED OBVIOUS
  <2>4. \A n \in 0..k + 1 : step(g, n) = step(f, n)
    <3>1. \A n \in 0..k + 1 : n = 0 \/ n - 1 \in 0..k
      OBVIOUS
    <3> HIDE DEF g
    <3>2. QED BY <3>1, <2>2
  <2>5. \A n \in 0..k + 1 : g[n] = step(g, n)
    <3>1. \A n \in 0..k + 1 : n \in 0..k \/ n = k + 1
      OBVIOUS
    <3> HIDE DEF g, step
    <3>2. QED BY <3>1, <2>2, <2>3, <2>4
  <2>6. g = [n \in 0..k + 1 |-> g[n]]
    OBVIOUS
  <2> HIDE DEF g, step
  <2>7. g = [n \in 0..k + 1 |-> step(g, n)]
    BY <2>5, <2>6
  <2>8. QED BY <2>7
<1>3. Len(plans) \in Good
  <2> HIDE DEF Good
  <2>1. Nat \subseteq Good
    BY <1>1, <1>2, NumberInduction
  <2>2. QED BY <2>1
<1> DEFINE after == CHOOSE f : f = [n \in 0..Len(plans) |-> step(f, n)]
<1>4. after = [n \in 0..Len(plans) |-> step(after, n)]
  <2> HIDE DEF step
  <2>1. \E f : f = [n \in 0..Len(plans) |-> step(f, n)]
    BY <1>3
  <2>2. QED BY <2>1
<1>5. Admit(plans, demand) = after[Len(plans)]
  BY DEF Admit
<1> HIDE DEF after
<1>6. \A n \in 0..Len(plans) : after[n] = step(after, n)
  BY <1>4
<1>7. after[0] = first /\ \A n \in 1..Len(plans) : after[n] = AdmitOne(after[n - 1], plans[n], demand)
  <2>1. \A n \in 1..Len(plans) : n \in 0..Len(plans) /\ n # 0
    OBVIOUS
  <2>2. QED BY <1>6, <2>1
<1>8. QED BY <1>5, <1>7

\* The action a plan is for, and sequences with one plan for each action.
KeyOf(p) == <<p.row, KindOf(p)>>
Once(s) == \A i, j \in 1..Len(s) : KeyOf(s[i]) = KeyOf(s[j]) => i = j

\* What the ceilings may make of an accumulated pass: they keep what is in it, and plan p
\* gets in, its message is deferred, or its reply is refused; nothing else gets in.
Acc(T, R) == [out: Seq(T), deferred: SUBSET R, refused: SUBSET R]
Handled(p, acc) ==
    \/ p.act \in {"ignore", "wait"} \/ p.row \in acc.deferred
    \/ KeyOf(p) \in acc.refused \X {"reply"}
    \/ \E q \in ToSet(acc.out) : KeyOf(q) = KeyOf(p)
Goes(acc, p, new, T, R) ==
    /\ new \in Acc(T, R)
    /\ acc.deferred \subseteq new.deferred /\ acc.refused \subseteq new.refused
    /\ ToSet(acc.out) \subseteq ToSet(new.out)
    /\ \A q \in ToSet(new.out) : q \in ToSet(acc.out) \/ KeyOf(q) = KeyOf(p)
    /\ Once(acc.out) /\ (\A q \in ToSet(acc.out) : KeyOf(q) # KeyOf(p)) => Once(new.out)
    /\ Handled(p, new)

LEMMA AdmittedGoes ==
    ASSUME NEW T, NEW R, NEW acc \in Acc(T, R), NEW p, NEW q \in T, KeyOf(q) = KeyOf(p)
    PROVE  Goes(acc, p, Admitted(acc, q), T, R)
<1> DEFINE new == Admitted(acc, q)
<1>1. acc.out \in Seq(T) /\ acc.deferred \in SUBSET R /\ acc.refused \in SUBSET R
  BY DEF Acc
<1>2. new.out = Append(acc.out, q) /\ new.deferred = acc.deferred /\ new.refused = acc.refused
      /\ new = [out |-> Append(acc.out, q), deferred |-> acc.deferred, refused |-> acc.refused]
  <2>1. DOMAIN acc = {"out", "deferred", "refused"}
        /\ acc = [out |-> acc.out, deferred |-> acc.deferred, refused |-> acc.refused]
    BY DEF Acc
  <2>2. new.out = Append(acc.out, q)
    BY <2>1 DEF Admitted
  <2>3. new.deferred = acc.deferred
    BY <2>1 DEF Admitted
  <2>4. new.refused = acc.refused
    BY <2>1 DEF Admitted
  <2>5. new = [out |-> Append(acc.out, q), deferred |-> acc.deferred, refused |-> acc.refused]
    BY <2>1 DEF Admitted
  <2>6. QED BY <2>2, <2>3, <2>4, <2>5
<1>3. /\ Append(acc.out, q) \in Seq(T) /\ Len(Append(acc.out, q)) = Len(acc.out) + 1
      /\ \A i \in 1..Len(acc.out) : Append(acc.out, q)[i] = acc.out[i]
      /\ Append(acc.out, q)[Len(acc.out) + 1] = q
  BY <1>1, AppendProperties
<1>4. Len(acc.out) \in Nat /\ ToSet(acc.out) = {acc.out[i] : i \in 1..Len(acc.out)}
      /\ ToSet(Append(acc.out, q)) = {Append(acc.out, q)[i] : i \in 1..Len(acc.out) + 1}
  <2>1. Len(acc.out) \in Nat /\ ToSet(acc.out) = {acc.out[i] : i \in 1..Len(acc.out)}
    BY <1>1, Elements
  <2>2. ToSet(Append(acc.out, q)) = {Append(acc.out, q)[i] : i \in 1..Len(Append(acc.out, q))}
    BY <1>3, Elements
  <2>3. QED BY <2>1, <2>2, <1>3
<1>5. ToSet(Append(acc.out, q)) = ToSet(acc.out) \cup {q}
  <2>1. \A i \in 1..Len(acc.out) + 1 : i \in 1..Len(acc.out) \/ i = Len(acc.out) + 1
    BY <1>4
  <2>2. Len(acc.out) + 1 \in 1..Len(acc.out) + 1
        /\ \A i \in 1..Len(acc.out) : i \in 1..Len(acc.out) + 1
    BY <1>4
  <2>3. QED BY <2>1, <2>2, <1>3, <1>4
<1>6. ASSUME Once(acc.out), \A r \in ToSet(acc.out) : KeyOf(r) # KeyOf(p)
      PROVE  Once(Append(acc.out, q))
  <2>1. \A i \in 1..Len(acc.out) : KeyOf(acc.out[i]) # KeyOf(q)
    BY <1>4, <1>6
  <2>2. \A i, j \in 1..Len(acc.out) : KeyOf(acc.out[i]) = KeyOf(acc.out[j]) => i = j
    BY <1>6 DEF Once
  <2>3. \A i \in 1..Len(acc.out) + 1 : i \in 1..Len(acc.out) \/ i = Len(acc.out) + 1
    BY <1>4
  <2>4. SUFFICES ASSUME NEW i \in 1..Len(acc.out) + 1, NEW j \in 1..Len(acc.out) + 1,
                        KeyOf(Append(acc.out, q)[i]) = KeyOf(Append(acc.out, q)[j])
                 PROVE  i = j
    BY <1>3 DEF Once
  <2>5. QED BY <2>1, <2>2, <2>3, <2>4, <1>3
<1> HIDE DEF new
<1>7. new \in Acc(T, R)
  BY <1>1, <1>2, <1>3 DEF Acc
<1>8. Handled(p, new)
  BY <1>2, <1>5 DEF Handled
<1>9. QED BY <1>2, <1>5, <1>6, <1>7, <1>8 DEF Goes, new

\* The message is put down in a field of the accumulated pass, and what is in it stays.
LEMMA PutDownGoes ==
    ASSUME NEW T, NEW R, NEW acc \in Acc(T, R), NEW p, p.row \in R, NEW new,
           \/ new = Deferred(acc, p)
           \/ new = Refused(acc, p) /\ KindOf(p) = "reply"
    PROVE  Goes(acc, p, new, T, R)
<1>1. acc.out \in Seq(T) /\ acc.deferred \in SUBSET R /\ acc.refused \in SUBSET R
      /\ DOMAIN acc = {"out", "deferred", "refused"}
      /\ acc = [out |-> acc.out, deferred |-> acc.deferred, refused |-> acc.refused]
  BY DEF Acc
<1>2. CASE new = Deferred(acc, p)
  <2>1. new.out = acc.out
    BY <1>1, <1>2 DEF Deferred
  <2>2. new.deferred = acc.deferred \cup {p.row}
    BY <1>1, <1>2 DEF Deferred
  <2>3. new.refused = acc.refused
    BY <1>1, <1>2 DEF Deferred
  <2>4. new = [out |-> acc.out, deferred |-> acc.deferred \cup {p.row}, refused |-> acc.refused]
    BY <1>1, <1>2 DEF Deferred
  <2>5. new \in Acc(T, R)
    BY <1>1, <2>4 DEF Acc
  <2>6. Handled(p, new)
    BY <2>2 DEF Handled
  <2>7. QED BY <2>1, <2>2, <2>3, <2>5, <2>6 DEF Goes
<1>3. CASE new = Refused(acc, p) /\ KindOf(p) = "reply"
  <2>1. new.out = acc.out
    BY <1>1, <1>3 DEF Refused
  <2>2. new.refused = acc.refused \cup {p.row}
    BY <1>1, <1>3 DEF Refused
  <2>3. new.deferred = acc.deferred
    BY <1>1, <1>3 DEF Refused
  <2>4. new = [out |-> acc.out, deferred |-> acc.deferred, refused |-> acc.refused \cup {p.row}]
    BY <1>1, <1>3 DEF Refused
  <2>5. new \in Acc(T, R)
    BY <1>1, <2>4 DEF Acc
  <2>6. Handled(p, new)
    BY <2>2, <1>3 DEF Handled, KeyOf
  <2>7. QED BY <2>1, <2>2, <2>3, <2>5, <2>6 DEF Goes
<1>4. QED BY <1>2, <1>3

Active(T) == {p \in T : p.act \notin {"ignore", "wait"}}

LEMMA AdmitReplyGoes ==
    ASSUME NEW T, Closed(T), NEW R, NEW acc \in Acc(Active(T), R), NEW p \in T, p.row \in R,
           p.act \in {"reply", "delegate"}, NEW demand
    PROVE  Goes(acc, p, AdmitReply(acc, p, demand), Active(T), R)
<1> DEFINE q == [p EXCEPT !.act = "reply"]
<1>0. p \in Plan /\ q.row = p.row /\ q.act = "reply" /\ KindOf(p) = "reply"
  <2>1. p \in Plan
    BY ClosedIn
  <2>2. q.row = p.row /\ q.act = "reply"
    BY <2>1 DEF Plan
  <2>3. KindOf(p) = "reply"
    BY DEF KindOf
  <2>4. QED BY <2>1, <2>2, <2>3
<1>1. CASE p.text # "short"
  <2>1. AdmitReply(acc, p, demand) = Refused(acc, p)
    BY <1>1 DEF AdmitReply
  <2>2. QED BY <2>1, <1>0, PutDownGoes
<1>2. CASE p.text = "short" /\ ReplyRoom(acc.out, p, demand)
  <2>1. AdmitReply(acc, p, demand) = Admitted(acc, q)
    BY <1>2 DEF AdmitReply
  <2>2. q \in T
    BY <1>2, ClosedIn
  <2>4. q \in Active(T)
    <3> HIDE DEF q
    <3>1. QED BY <2>2, <1>0 DEF Active
  <2>3. KeyOf(q) = KeyOf(p)
    BY <1>0 DEF KindOf, KeyOf
  <2> HIDE DEF q
  <2>5. QED BY <2>1, <2>3, <2>4, AdmittedGoes
<1>3. CASE p.text = "short" /\ ~ReplyRoom(acc.out, p, demand)
  <2>1. AdmitReply(acc, p, demand) = Deferred(acc, p)
    BY <1>3 DEF AdmitReply
  <2>2. QED BY <2>1, PutDownGoes
<1>4. QED BY <1>1, <1>2, <1>3

LEMMA AdmitOneGoes ==
    ASSUME NEW T, Closed(T), NEW R, NEW acc \in Acc(Active(T), R), NEW p \in T, p.row \in R, NEW demand
    PROVE  Goes(acc, p, AdmitOne(acc, p, demand), Active(T), R)
<1> DEFINE new == AdmitOne(acc, p, demand)
<1>0. p \in Plan
  BY ClosedIn
<1>1. CASE p.act \in {"ignore", "wait"}
  <2>1. new = acc
    BY <1>1 DEF AdmitOne, Memory
  <2>2. QED BY <2>1, <1>1 DEF Goes, Handled
<1>2. CASE p.act = "reply"
  <2>1. new = AdmitReply(acc, p, demand)
    BY <1>2 DEF AdmitOne, Memory
  <2>2. QED BY <2>1, <1>2, AdmitReplyGoes
<1>3. CASE p.act = "delegate"
  <2>1. new = AdmitDelegate(acc, p, demand)
    BY <1>3 DEF AdmitOne, Memory
  <2>2. CASE Count(acc.out, {"delegate"}) < DelegatesPerCycle
    BY <2>1, <2>2, <1>3, AdmittedGoes DEF AdmitDelegate, Active
  <2>3. CASE ~(Count(acc.out, {"delegate"}) < DelegatesPerCycle) /\ p.text = "none"
    BY <2>1, <2>3, PutDownGoes DEF AdmitDelegate
  <2>4. CASE ~(Count(acc.out, {"delegate"}) < DelegatesPerCycle) /\ p.text # "none"
    <3>1. new = AdmitReply(acc, p, demand)
      BY <2>1, <2>4 DEF AdmitDelegate
    <3>2. QED BY <3>1, <1>3, AdmitReplyGoes
  <2>5. QED BY <2>2, <2>3, <2>4
<1>4. CASE p.act \in Memory
  <2>1. new = AdmitMemory(acc, p)
    BY <1>4 DEF AdmitOne, Memory
  <2>2. p \in Active(T)
    BY <1>4 DEF Active, Memory
  <2>3. QED BY <2>1, <2>2, AdmittedGoes, PutDownGoes DEF AdmitMemory
<1>5. CASE p.act \in {"react", "notify_owner"}
  <2>1. new = Admitted(acc, p)
    BY <1>5 DEF AdmitOne, Memory
  <2>2. p \in Active(T)
    BY <1>5 DEF Active
  <2>3. QED BY <2>1, <2>2, AdmittedGoes
<1>6. QED BY <1>0, <1>1, <1>2, <1>3, <1>4, <1>5 DEF Plan, Action, Outward, Memory

\* All plans of the pass: each gets in, its message is deferred or its reply refused;
\* if there was one plan for each action, so there is now.
LEMMA AdmitKeeps ==
    ASSUME NEW T, Closed(T), NEW R, NEW plans \in Seq(T), \A p \in ToSet(plans) : p.row \in R,
           NEW demand
    PROVE  /\ Admit(plans, demand) \in Acc(Active(T), R)
           /\ \A p \in ToSet(plans) : Handled(p, Admit(plans, demand))
           /\ Once(plans) => Once(Admit(plans, demand).out)
<1>1. Len(plans) \in Nat /\ ToSet(plans) = {plans[i] : i \in 1..Len(plans)}
      /\ \A i \in 1..Len(plans) : plans[i] \in T /\ plans[i].row \in R
  <2>1. Len(plans) \in Nat /\ ToSet(plans) = {plans[i] : i \in 1..Len(plans)}
        /\ \A i \in 1..Len(plans) : plans[i] \in T
    BY Elements
  <2>2. QED BY <2>1
<1>2. PICK f : /\ f[0] = [out |-> <<>>, deferred |-> {}, refused |-> {}]
               /\ \A n \in 1..Len(plans) : f[n] = AdmitOne(f[n - 1], plans[n], demand)
               /\ Admit(plans, demand) = f[Len(plans)]
  BY <1>1, AdmitSteps
<1> DEFINE Fine(n) ==
              /\ f[n] \in Acc(Active(T), R)
              /\ \A i \in 1..n : Handled(plans[i], f[n])
              /\ \A q \in ToSet(f[n].out) : \E i \in 1..n : KeyOf(q) = KeyOf(plans[i])
              /\ Once(plans) => Once(f[n].out)
           Good == {n \in Nat : n =< Len(plans) => Fine(n)}
<1>3. 0 \in Good
  <2>1. <<>> \in Seq(Active(T)) /\ Len(<<>>) = 0
    BY EmptySeq
  <2>2. [out |-> <<>>, deferred |-> {}, refused |-> {}] \in Acc(Active(T), R)
    BY <2>1 DEF Acc
  <2>3. f[0] \in Acc(Active(T), R) /\ f[0].out = <<>>
    BY <2>2, <1>2
  <2>4. ToSet(f[0].out) = {} /\ Once(f[0].out)
    BY <2>1, <2>3 DEF ToSet, Once
  <2>5. QED BY <2>3, <2>4
<1>4. ASSUME NEW n \in Nat, n \in Good PROVE n + 1 \in Good
  <2> SUFFICES ASSUME n + 1 =< Len(plans) PROVE Fine(n + 1)
    OBVIOUS
  <2>1. Fine(n)
    BY <1>1, <1>4
  <2>2. n + 1 \in 1..Len(plans) /\ n + 1 - 1 = n
    BY <1>1
  <2>3. f[n + 1] = AdmitOne(f[n], plans[n + 1], demand)
    BY <1>2, <2>2
  <2>4. Goes(f[n], plans[n + 1], f[n + 1], Active(T), R)
    BY <1>1, <2>1, <2>2, <2>3, AdmitOneGoes
  <2>5. \A i \in 1..n : Handled(plans[i], f[n]) => Handled(plans[i], f[n + 1])
    BY <2>4 DEF Goes, Handled
  <2>6. \A i \in 1..n + 1 : i \in 1..n \/ i = n + 1
    OBVIOUS
  <2>7. \A i \in 1..n : i \in 1..n + 1 /\ i \in 1..Len(plans) /\ i # n + 1
    BY <1>1, <2>2
  <2>8. n + 1 \in 1..n + 1
    OBVIOUS
  <2>9. f[n + 1] \in Acc(Active(T), R) /\ \A i \in 1..n + 1 : Handled(plans[i], f[n + 1])
    BY <2>1, <2>4, <2>5, <2>6 DEF Goes
  <2>10. \A q \in ToSet(f[n + 1].out) : \E i \in 1..n + 1 : KeyOf(q) = KeyOf(plans[i])
    BY <2>1, <2>4, <2>7, <2>8 DEF Goes
  <2>11. ASSUME Once(plans) PROVE Once(f[n + 1].out)
    <3>1. \A i \in 1..n : KeyOf(plans[i]) # KeyOf(plans[n + 1])
      BY <2>2, <2>7, <2>11 DEF Once
    <3>2. \A q \in ToSet(f[n].out) : KeyOf(q) # KeyOf(plans[n + 1])
      BY <3>1, <2>1
    <3>3. QED BY <2>1, <2>4, <2>11, <3>2 DEF Goes
  <2>12. QED BY <2>9, <2>10, <2>11
<1>5. Len(plans) \in Good
  <2> HIDE DEF Good
  <2>1. Nat \subseteq Good
    BY <1>3, <1>4, NumberInduction
  <2>2. QED BY <2>1, <1>1
<1>6. QED BY <1>1, <1>2, <1>5

-------------------------------------------------------------------------------
(* The inductive invariant of the cycle, in parts.                         *)

ChatEntry == [cursor: 0..Rows, resting: BOOLEAN, count: [Class -> 0..ChatCap]]
LaneEntry == [cursor: Unset..Rows, failures: 0..MaxInvalid, invalid: Nat,
              resting: BOOLEAN, anchor: 0..Rows, waits: 0..MaxWaits]
Ledger == [today: BOOLEAN, chat: [Chat -> ChatEntry], lane: [Lane -> LaneEntry],
           reacts: 0..ReactCap]
CycleRecord == [queue: Seq(Chat), calls: 0..CycleCalls, proactive: BOOLEAN]
PassRecord == [top: 0..Rows, snap: 0..Rows, second: 0..Rows, todo: SUBSET Batch,
               asked: SUBSET Asked, calls: 0..ChatCalls, blocked: SUBSET Lane,
               plans: Seq(Plan), demand: SUBSET Row, done: SUBSET Key,
               deferred: SUBSET Row, failed: SUBSET Row]
OutboxEntry == [state: {"none", "queued", "acked", "dead"}, tries: 0..MaxAttempts]

\* The types, and what they need: an action that is still to send has a try left.
CycleTypes ==
    /\ script \in Scripts /\ arrived \in 0..Len(script.floor)
    /\ saved \in Ledger /\ led \in Ledger
    /\ pc \in {"idle", "chat", "decide", "validate", "apply", "log"}
    /\ cycle \in CycleRecord /\ pass \in PassRecord
    /\ outbox \in [Key -> OutboxEntry]
    /\ \A a \in Key : outbox[a].state \in {"none", "queued"} => outbox[a].tries < MaxAttempts
    /\ log \subseteq Key /\ owed \subseteq Row \X (Kind \cup {"wait"} \cup GivenUp)
    /\ fate \in [Row -> {"unread", "judged", "quarantined"}] /\ told \in [Key -> Nat]
    /\ posted \subseteq Row \X Class \X (1..MaxAttempts) /\ doubted \subseteq posted
    /\ spent \in [Fault -> Nat] /\ \A f \in Fault : spent[f] =< script.faults[f]

\* Batches hold messages of one lane of the current chat, those of the page.
InScene(b) == /\ b.rows # {} /\ b.rows \subseteq 1..arrived
              /\ \A r \in b.rows : LaneOf(r) = b.lane /\ ChatOf(r) = chat
                                   /\ r =< pass.top /\ r \notin Command

\* Plans to apply are about messages of the chat; none waits, and once they are
\* validated none is left to the composer or to do nothing.
Applicable == {p \in Plan : p.act \in Kind}
PlansInScene ==
    /\ \A p \in ToSet(pass.plans) : p.row \in 1..arrived /\ ChatOf(p.row) = chat /\ p.act # "wait"
    /\ pc \in {"apply", "log"} => pass.plans \in Seq(Applicable)

\* Where the cycle is tells what it holds.
PassShape ==
    /\ pc = "idle" => led = saved
    /\ pc \in {"idle", "chat"} => pass = NoPass
    /\ pc \notin {"idle", "chat"} => cycle.queue # <<>> /\ \A b \in pass.todo \cup pass.asked : InScene(b)
    /\ pc \in {"validate", "apply", "log"} => pass.todo = {}
    /\ pc = "log" => pass.plans # <<>> /\ key \in pass.done
    /\ pc \notin {"idle", "chat"} => PlansInScene
CycleInv == CycleTypes /\ PassShape

\* A pass takes no action twice: its batches share no message.
OnceInv ==
    pc \notin {"idle", "chat"} =>
       /\ Once(pass.plans)
       /\ pc = "decide" => \A p \in ToSet(pass.plans) : \E b \in pass.asked : p.row \in b.rows

\* The owner was told of an action once more than there were slips; only as often as
\* that, if the action is not logged, nor about to be, or is still to be taken.
Slips == spent["crash"] + spent["log"] + spent["read"] + spent["notify"]
ToldInv ==
    /\ \A a \in Key : told[a] =< Slips + 1
    /\ \A a \in Key : a \notin log /\ ~(pc = "log" /\ key = a) => told[a] =< Slips
    /\ pc \in {"decide", "validate"} => \A a \in Key \ pass.done : told[a] =< Slips
    /\ pc \in {"apply", "log"} => \A p \in ToSet(pass.plans) :
                                     KeyOf(p) \notin pass.done => told[KeyOf(p)] =< Slips

\* A lane that was heard has no failure that is not an invalid answer.
Earned(l, lane) == l.lane[lane].failures =< l.lane[lane].invalid + 1
Level(l, lane) == l.lane[lane].failures =< l.lane[lane].invalid
HeardLane(lane) == Level(led, lane)
EarnedInv ==
    /\ \A l \in Lane : Earned(led, l) /\ Earned(saved, l)
    /\ pc \notin {"idle", "chat"} =>
         \A r \in pass.failed \cup {p.row : p \in ToSet(pass.plans)} :
            r \in 1..arrived /\ HeardLane(LaneOf(r))

\* The lanes of the plans to apply have not moved.
Moved(r) == /\ r \notin Command
            /\ Cardinality({s \in pass.snap + 1..r : ChatOf(s) = chat}) =< PageLimit
SceneInv ==
    pc \in {"apply", "log"} =>
       \A p \in ToSet(pass.plans) : \A r \in pass.snap + 1..pass.second :
          ~(LaneOf(r) = LaneOf(p.row) /\ Moved(r))

\* The counters of the ledger's day bound its replies, but for lost ledgers and those
\* it does not know were sent.
Lost == spent["crash"] + spent["save"]
Known == posted \ doubted
Posted(c, k) == {p \in Known : ChatOf(p[1]) = c /\ p[2] = k}
Units(l, k) == {u \in Chat \X (1..ChatCap) : u[2] =< l.chat[u[1]].count[k]}
Today(l, n) == IF l.today THEN n ELSE 0
Within(n, day, cap, lost) == n =< day + cap * lost
CapsInv ==
    /\ pc # "idle" => led.today
    /\ \A k \in Class :
         /\ Cardinality(Units(led, k)) =< GlobalCap /\ Cardinality(Units(saved, k)) =< GlobalCap
         /\ \A c \in Chat : Within(Cardinality(Posted(c, k)),
                                   Today(led, led.chat[c].count[k]), ChatCap, Lost)
         /\ Within(Cardinality({p \in Known : p[2] = k}),
                   Today(led, Cardinality(Units(led, k))), GlobalCap, Lost)

\* Cursors: those saved are not ahead of those of the cycle; what is behind either
\* arrived; the batches of a pass share no message, are ahead of the cursors, leave
\* out none of the page, and follow each other in rounds.
BehindIn(l, r) == r =< l.chat[ChatOf(r)].cursor \/ r =< l.lane[LaneOf(r)].cursor
Bounded(l) == /\ \A c \in Chat : l.chat[c].cursor =< arrived
              /\ \A x \in Lane : l.lane[x].cursor =< arrived
Dealt == pass.todo \cup pass.asked
Apart == /\ \A b, c \in pass.todo : b.rows \cap c.rows # {} => b = c
         /\ \A b, c \in pass.asked : b.rows \cap c.rows # {} => b = c
         /\ \A b \in pass.todo, c \in pass.asked : b.rows \cap c.rows = {}
DealtInv ==
    /\ pass.top =< arrived /\ Apart
    /\ \A b \in Dealt : \A r \in b.rows : ~BehindIn(led, r)
    /\ \A b, c \in Dealt : \A r \in b.rows, s \in c.rows :
          b.lane = c.lane /\ r =< s => b.round =< c.round
    /\ \A r \in 1..arrived \ Command :
          ChatOf(r) = chat /\ r =< pass.top =>
             BehindIn(led, r) \/ \E b \in Dealt : r \in b.rows
CursorInv ==
    /\ \A r \in 1..arrived : BehindIn(saved, r) => BehindIn(led, r)
    /\ Bounded(led) /\ Bounded(saved)
    /\ pc \notin {"idle", "chat"} => DealtInv

\* What is behind a cursor was read; so is what is in a batch with an answer.
ReadInv ==
    /\ \A r \in 1..arrived \ Command : BehindIn(led, r) => fate[r] # "unread"
    /\ \A b \in pass.asked : \A r \in b.rows :
          /\ b.status = "valid" => fate[r] = "judged"
          /\ b.status = "quarantined" => fate[r] = "quarantined"

\* What is due, owed and not given up, is accounted for: ahead of the cursors, and by
\* the pass.
Due == {o \in owed : o[2] \notin GivenUp}
Does(p, o) == p.row = o[1] /\ KindOf(p) = o[2]
Accounted(o) == o[1] \in unsettled \/ \E p \in ToSet(pass.plans) : Does(p, o)
OwedInv ==
    /\ \A o \in Due : o[1] \in 1..arrived \ Command
    /\ \A o \in Due : BehindIn(led, o[1]) => fate[o[1]] = "quarantined"
    /\ \A b \in pass.asked : b.status = "valid" =>
          \A o \in Due : o[1] \in b.rows => (Accounted(o) /\ (pc = "log" => o # key))

-------------------------------------------------------------------------------
(* What the program does to a ledger leaves a ledger.                      *)

LEMMA Numbers ==
    /\ Rows \in Nat /\ Rows # 0 /\ Row \in SUBSET Nat
    /\ {PageLimit, BatchSize, ChatCalls, CycleCalls, MaxInvalid, MaxAttempts} \subseteq Nat \ {0}
    /\ {ChatCap, GlobalCap, ReactCap, MaxWaits} \subseteq Nat
BY PolicyAssumption, CycleAssumption DEF Row

LEMMA MaxRow ==
    ASSUME NEW R \in SUBSET (Unset..Rows), R # {}
    PROVE  Max(R) \in R /\ \A r \in R : r =< Max(R)
<1>1. Unset \in Int /\ Rows \in Int
  BY Numbers DEF Unset
<1>2. \E n \in R : \A r \in R : r =< n
  <2> HIDE DEF Unset
  <2>1. QED BY <1>1, GreatestBounded
<1>3. \A r \in R : r \in Int
  BY <1>1
<1>4. \E n \in R : \A r \in R : n >= r
  BY <1>2, <1>3
<1> DEFINE m == CHOOSE x \in R : \A r \in R : x >= r
<1>5. m \in R /\ \A r \in R : m >= r
  BY <1>4
<1>6. Max(R) = m
  BY DEF Max
<1> HIDE DEF m
<1>7. QED BY <1>3, <1>5, <1>6

LEMMA MinRow ==
    ASSUME NEW R \in SUBSET Nat, R # {}
    PROVE  Min(R) \in R /\ \A r \in R : Min(R) =< r
<1>1. \E m \in R : \A r \in R : m =< r
  BY LeastNumber
<1>2. QED BY <1>1 DEF Min

LEMMA SmallerOf ==
    ASSUME NEW n \in Nat, NEW m \in Nat
    PROVE  Min({n, m}) = IF n =< m THEN n ELSE m
<1>1. Min({n, m}) \in {n, m} /\ \A r \in {n, m} : Min({n, m}) =< r
  BY MinRow
<1>2. QED BY <1>1

LEMMA LedgerParts ==
    ASSUME NEW l \in Ledger
    PROVE  /\ l.today \in BOOLEAN /\ l.reacts \in 0..ReactCap
           /\ l.chat \in [Chat -> ChatEntry] /\ l.lane \in [Lane -> LaneEntry]
           /\ \A c \in Chat : /\ l.chat[c] \in ChatEntry /\ l.chat[c].cursor \in 0..Rows
                              /\ \A k \in Class : l.chat[c].count[k] \in 0..ChatCap
           /\ \A x \in Lane : /\ l.lane[x] \in LaneEntry /\ l.lane[x].cursor \in Unset..Rows
                              /\ l.lane[x].failures \in 0..MaxInvalid /\ l.lane[x].invalid \in Nat
<1>1. /\ l.today \in BOOLEAN /\ l.reacts \in 0..ReactCap
      /\ l.chat \in [Chat -> ChatEntry] /\ l.lane \in [Lane -> LaneEntry]
  BY DEF Ledger
<1>2. \A c \in Chat : l.chat[c] \in ChatEntry
  BY <1>1
<1>3. \A x \in Lane : l.lane[x] \in LaneEntry
  BY <1>1
<1>4. QED BY <1>1, <1>2, <1>3 DEF ChatEntry, LaneEntry

LEMMA NewLedgerOK == NewLedger \in Ledger /\ NewLane \in LaneEntry /\ NewChat \in ChatEntry
<1>1. NewChat \in ChatEntry
  BY Numbers DEF NewChat, ChatEntry
<1>2. NewLane \in LaneEntry
  BY Numbers DEF NewLane, LaneEntry, Unset
<1>3. NewLedger \in Ledger
  BY <1>1, <1>2, Numbers DEF NewLedger, Ledger
<1>4. QED BY <1>1, <1>2, <1>3

LEMMA RestedOK ==
    ASSUME NEW l \in Ledger
    PROVE  /\ Rested(l) \in Ledger /\ Rested(l).today = l.today
           /\ \A c \in Chat : /\ Rested(l).chat[c].cursor = l.chat[c].cursor
                              /\ Rested(l).chat[c].count = l.chat[c].count
           /\ \A x \in Lane : /\ Rested(l).lane[x].cursor = l.lane[x].cursor
                              /\ Rested(l).lane[x].failures = l.lane[x].failures
                              /\ Rested(l).lane[x].invalid = l.lane[x].invalid
<1>1. /\ \A c \in Chat : l.chat[c] \in ChatEntry
      /\ \A x \in Lane : l.lane[x] \in LaneEntry
  BY LedgerParts
<1> DEFINE cs == [c \in Chat |-> [l.chat[c] EXCEPT !.resting = FALSE]]
           ls == [x \in Lane |-> [l.lane[x] EXCEPT !.resting = FALSE]]
<1>2. cs \in [Chat -> ChatEntry]
  BY <1>1 DEF ChatEntry
<1>3. ls \in [Lane -> LaneEntry]
  BY <1>1 DEF LaneEntry
<1>4. \A c \in Chat : cs[c].cursor = l.chat[c].cursor /\ cs[c].count = l.chat[c].count
  BY <1>1 DEF ChatEntry
<1>5. \A x \in Lane : /\ ls[x].cursor = l.lane[x].cursor /\ ls[x].failures = l.lane[x].failures
                      /\ ls[x].invalid = l.lane[x].invalid
  BY <1>1 DEF LaneEntry
<1>6. Rested(l) = [l EXCEPT !.chat = cs, !.lane = ls]
  BY DEF Rested
<1> HIDE DEF cs, ls
<1>7. Rested(l) \in Ledger /\ Rested(l).today = l.today
      /\ Rested(l).chat = cs /\ Rested(l).lane = ls
  BY <1>2, <1>3, <1>6 DEF Ledger
<1>8. QED BY <1>4, <1>5, <1>7

LEMMA DayRolledOK ==
    ASSUME NEW l \in Ledger
    PROVE  /\ DayRolled(l) \in Ledger /\ DayRolled(l).today /\ DayRolled(l).lane = l.lane
           /\ \A c \in Chat : DayRolled(l).chat[c].cursor = l.chat[c].cursor
           /\ l.today => DayRolled(l) = l
           /\ ~l.today => \A c \in Chat, k \in Class : DayRolled(l).chat[c].count[k] = 0
<1>1. CASE l.today
  BY <1>1 DEF DayRolled
<1>2. CASE ~l.today
  <2> DEFINE cs == [c \in Chat |-> [l.chat[c] EXCEPT !.count = [k \in Class |-> 0]]]
  <2>1. \A c \in Chat : l.chat[c] \in ChatEntry
    BY LedgerParts
  <2>2. cs \in [Chat -> ChatEntry]
    BY <2>1, Numbers DEF ChatEntry
  <2>3. \A c \in Chat : cs[c].cursor = l.chat[c].cursor /\ cs[c].count = [k \in Class |-> 0]
    BY <2>1 DEF ChatEntry
  <2>4. DayRolled(l) = [l EXCEPT !.today = TRUE, !.reacts = 0, !.chat = cs]
    BY <1>2 DEF DayRolled
  <2> HIDE DEF cs
  <2>5. /\ DayRolled(l) \in Ledger /\ DayRolled(l).today = TRUE
        /\ DayRolled(l).lane = l.lane /\ DayRolled(l).chat = cs
    <3>1. DayRolled(l) \in Ledger
      <4> DEFINE a == [l EXCEPT !.today = TRUE]
                 b == [a EXCEPT !.reacts = 0]
      <4>1. a \in Ledger
        BY DEF Ledger
      <4>2. b \in Ledger
        <5> HIDE DEF a
        <5>1. 0 \in 0..ReactCap
          BY Numbers
        <5>2. QED BY <4>1, <5>1 DEF Ledger
      <4>3. DayRolled(l) = [b EXCEPT !.chat = cs]
        BY <2>4
      <4> HIDE DEF a, b
      <4>4. QED BY <2>2, <4>2, <4>3 DEF Ledger
    <3>2. DOMAIN l = {"today", "chat", "lane", "reacts"}
      BY DEF Ledger
    <3>3. DayRolled(l).today = TRUE
      BY <2>4, <3>2
    <3>4. DayRolled(l).lane = l.lane
      BY <2>4, <3>2
    <3>5. DayRolled(l).chat = cs
      BY <2>4, <3>2
    <3>6. QED BY <3>1, <3>3, <3>4, <3>5
  <2>6. QED BY <1>2, <2>3, <2>5
<1>3. QED BY <1>1, <1>2

LEMMA ChatAdvancedOK ==
    ASSUME NEW l \in Ledger, NEW top \in 0..Rows, chat \in Chat
    PROVE  /\ ChatAdvanced(l, top) \in Ledger /\ ChatAdvanced(l, top).lane = l.lane
           /\ ChatAdvanced(l, top).today = l.today
           /\ \A c \in Chat : /\ ChatAdvanced(l, top).chat[c].count = l.chat[c].count
                              /\ c # chat => ChatAdvanced(l, top).chat[c].cursor = l.chat[c].cursor
           /\ ChatAdvanced(l, top).chat[chat].cursor
                = IF top =< l.chat[chat].cursor THEN l.chat[chat].cursor ELSE top
<1> DEFINE old == l.chat[chat].cursor
           new == Max({old, top})
           e == [l.chat[chat] EXCEPT !.cursor = new, !.resting = FALSE]
<1>1. l.chat[chat] \in ChatEntry /\ old \in 0..Rows /\ l.chat \in [Chat -> ChatEntry]
  BY LedgerParts
<1>2. new \in 0..Rows /\ new = IF top =< old THEN old ELSE top
  <2>1. {old, top} \in SUBSET (Unset..Rows) /\ {old, top} # {}
    BY <1>1 DEF Unset
  <2> HIDE DEF old
  <2>2. new \in {old, top} /\ \A r \in {old, top} : r =< new
    BY <2>1, MaxRow
  <2>3. old \in 0..Rows /\ Rows \in Nat
    BY <1>1, Numbers DEF old
  <2>4. QED BY <2>2, <2>3
<1> HIDE DEF new
<1>3. e \in ChatEntry /\ e.cursor = new /\ e.count = l.chat[chat].count
  BY <1>1, <1>2 DEF ChatEntry
<1>4. ChatAdvanced(l, top) = [l EXCEPT !.chat = [l.chat EXCEPT ![chat] = e]]
  <2>1. ChatAdvanced(l, top) = [l EXCEPT !.chat[chat].cursor = new, !.chat[chat].resting = FALSE]
    BY DEF ChatAdvanced, new
  <2>2. [l EXCEPT !.chat[chat].cursor = new]
          = [l EXCEPT !.chat = [l.chat EXCEPT ![chat] = [l.chat[chat] EXCEPT !.cursor = new]]]
    OBVIOUS
  <2>3. QED BY <2>1, <2>2, <1>1 DEF Ledger
<1> HIDE DEF e, old
<1>5. [l.chat EXCEPT ![chat] = e] \in [Chat -> ChatEntry]
  BY <1>1, <1>3
<1>6. ChatAdvanced(l, top).chat = [l.chat EXCEPT ![chat] = e]
      /\ ChatAdvanced(l, top) \in Ledger /\ ChatAdvanced(l, top).lane = l.lane
      /\ ChatAdvanced(l, top).today = l.today
  BY <1>4, <1>5 DEF Ledger
<1>7. \A c \in Chat : ChatAdvanced(l, top).chat[c] = IF c = chat THEN e ELSE l.chat[c]
  BY <1>1, <1>6
<1>8. QED BY <1>2, <1>3, <1>6, <1>7 DEF old

-------------------------------------------------------------------------------
(* The world's script, the page, the fresh messages and their batches.     *)

LEMMA ScriptFacts ==
    ASSUME CycleTypes
    PROVE  /\ arrived \in 0..Rows /\ script.gate \subseteq BOOLEAN
           /\ \A r \in 1..arrived : /\ r \in Row /\ LaneOf(r) \in Lane /\ ChatOf(r) \in Chat
                                    /\ script.says[r] \subseteq {s \in Shape : Legal(s)}
           /\ script.faults \in [Fault -> Nat]
           /\ UNION ToSet(script.says) \subseteq Shape
           /\ \A s \in UNION ToSet(script.says) : Legal(s)
           /\ DOMAIN script.floor = 1..Len(script.floor)
<1>1. script \in Scripts /\ arrived \in 0..Len(script.floor)
  BY DEF CycleTypes
<1>2. /\ Len(script.floor) =< Rows /\ Len(script.says) = Len(script.floor)
      /\ \A s \in UNION ToSet(script.says) : Legal(s)
  BY <1>1, CycleAssumption
<1>3. script \in Script
  BY <1>1, CycleAssumption
<1>4. /\ script.floor \in Seq(Lane) /\ script.says \in Seq(SUBSET Shape)
      /\ script.gate \subseteq BOOLEAN /\ script.faults \in [Fault -> Nat]
  BY <1>3 DEF Script
<1>5. /\ Len(script.floor) \in Nat /\ \A r \in 1..Len(script.floor) : script.floor[r] \in Lane
      /\ DOMAIN script.floor = 1..Len(script.floor)
  BY <1>4, Elements
<1>6. /\ \A r \in 1..Len(script.says) : script.says[r] \in SUBSET Shape
      /\ ToSet(script.says) = {script.says[r] : r \in 1..Len(script.says)}
      /\ ToSet(script.says) \subseteq SUBSET Shape
  BY <1>4, Elements
<1>7. arrived \in 0..Rows
  BY <1>1, <1>2, <1>5, Numbers
<1>8. ASSUME NEW r \in 1..arrived
      PROVE  /\ r \in Row /\ LaneOf(r) \in Lane /\ ChatOf(r) \in Chat
             /\ script.says[r] \subseteq {s \in Shape : Legal(s)}
  <2>1. r \in 1..Len(script.floor) /\ r \in 1..Len(script.says) /\ r \in Row
    BY <1>1, <1>2, <1>5, <1>7, Numbers DEF Row
  <2>2. LaneOf(r) \in Lane
    BY <2>1, <1>5 DEF LaneOf
  <2>3. ChatOf(r) \in Chat
    BY <2>2, CycleAssumption DEF ChatOf
  <2>4. script.says[r] \in ToSet(script.says) /\ script.says[r] \in SUBSET Shape
    BY <2>1, <1>6
  <2>5. QED BY <2>1, <2>2, <2>3, <2>4, <1>2
<1>9. UNION ToSet(script.says) \subseteq Shape
  BY <1>6
<1>10. QED BY <1>2, <1>4, <1>5, <1>7, <1>8, <1>9

\* A page is the beginning of what is pending.
LEMMA PageFacts ==
    ASSUME CycleTypes, NEW a \in Nat
    PROVE  /\ Page(a) \subseteq a + 1..arrived /\ \A r \in Page(a) : ChatOf(r) = chat
           /\ \A r \in a + 1..arrived :
                 ChatOf(r) = chat /\ r \notin Page(a) =>
                    ~(Cardinality({s \in a + 1..r : ChatOf(s) = chat}) =< PageLimit)
           /\ \A m \in Page(a) : \A r \in a + 1..arrived :
                 ChatOf(r) = chat /\ r =< m => r \in Page(a)
<1> DEFINE pending == {r \in a + 1..arrived : ChatOf(r) = chat}
           upto(r) == {s \in pending : s =< r}
<1>0. arrived \in Nat
  BY ScriptFacts
<1>1. Page(a) = {r \in pending : Cardinality(upto(r)) =< PageLimit}
  BY DEF Page
<1>2. ASSUME NEW r \in a + 1..arrived
      PROVE  upto(r) = {s \in a + 1..r : ChatOf(s) = chat}
  <2>1. \A s : (s \in a + 1..arrived /\ s =< r) <=> s \in a + 1..r
    BY <1>0
  <2>2. QED BY <2>1
<1>3. ASSUME NEW m \in a + 1..arrived, NEW r \in a + 1..arrived, r =< m,
             Cardinality(upto(m)) =< PageLimit
      PROVE  Cardinality(upto(r)) =< PageLimit
  <2>1. upto(m) \in SUBSET Nat /\ IsFiniteSet(upto(m))
    <3>1. upto(m) \in SUBSET (a + 1..arrived) /\ a + 1 \in Int /\ arrived \in Int
      BY <1>0
    <3>2. IsFiniteSet(a + 1..arrived)
      BY <3>1, FS_Interval
    <3> HIDE DEF upto
    <3>3. IsFiniteSet(upto(m))
      BY <3>1, <3>2, FS_Subset
    <3>4. \A s \in a + 1..arrived : s \in Nat
      BY <1>0
    <3>5. QED BY <3>1, <3>3, <3>4
  <2>2. upto(r) \in SUBSET upto(m)
    <3>1. \A s \in a + 1..arrived : s =< r => s =< m
      BY <1>3, <1>0
    <3>2. QED BY <3>1
  <2> HIDE DEF upto
  <2>3. /\ IsFiniteSet(upto(r)) /\ Cardinality(upto(r)) =< Cardinality(upto(m))
        /\ Cardinality(upto(r)) \in Nat /\ Cardinality(upto(m)) \in Nat
    BY <2>1, <2>2, FS_Subset, FS_CardinalityType
  <2>4. QED BY <2>3, <1>3, Numbers
<1> HIDE DEF upto
<1>4. QED BY <1>1, <1>2, <1>3

\* Seeding sets the cursor of lanes of the chat that have none.
LEMMA SeededOK ==
    ASSUME CycleTypes, chat \in Chat
    PROVE  /\ Seeded \in Ledger /\ Seeded.chat = led.chat /\ Seeded.today = led.today
           /\ \A x \in Lane :
                /\ Seeded.lane[x].failures = led.lane[x].failures
                /\ Seeded.lane[x].invalid = led.lane[x].invalid
                /\ \/ Seeded.lane[x].cursor = led.lane[x].cursor
                   \/ /\ led.lane[x].cursor = Unset /\ Home[x] = chat
                      /\ Seeded.lane[x].cursor = led.chat[chat].cursor
<1> DEFINE new == {l \in {LaneOf(r) : r \in Talk} : led.lane[l].cursor = Unset}
           at == led.chat[chat].cursor
           ls == [l \in Lane |-> IF l \in new THEN [led.lane[l] EXCEPT !.cursor = at]
                                              ELSE led.lane[l]]
<1>1. led \in Ledger /\ led.lane \in [Lane -> LaneEntry] /\ at \in 0..Rows
      /\ \A x \in Lane : led.lane[x] \in LaneEntry
  BY LedgerParts DEF CycleTypes
<1>2. Seeded = [led EXCEPT !.lane = ls]
  BY DEF Seeded
<1>3. \A x \in new : led.lane[x].cursor = Unset /\ Home[x] = chat
  <2>1. \A r \in Talk : ChatOf(r) = chat
    BY <1>1, PageFacts, Numbers DEF Talk
  <2>2. QED BY <2>1 DEF ChatOf
<1> HIDE DEF new, at
<1>4. at \in Unset..Rows
  BY <1>1 DEF Unset
<1>5. \A x \in Lane : [led.lane[x] EXCEPT !.cursor = at] \in LaneEntry
  BY <1>1, <1>4 DEF LaneEntry
<1>6. ls \in [Lane -> LaneEntry]
  BY <1>1, <1>5
<1>7. \A x \in Lane : /\ ls[x].failures = led.lane[x].failures
                      /\ ls[x].invalid = led.lane[x].invalid
                      /\ ls[x].cursor = IF x \in new THEN at ELSE led.lane[x].cursor
  BY <1>1 DEF LaneEntry
<1> HIDE DEF ls
<1>8. Seeded \in Ledger /\ Seeded.chat = led.chat /\ Seeded.today = led.today
      /\ Seeded.lane = ls
  BY <1>1, <1>2, <1>6 DEF Ledger
<1>9. QED BY <1>3, <1>7, <1>8 DEF at

LEMMA FreshFacts ==
    ASSUME CycleTypes, chat \in Chat
    PROVE  /\ Page(led.chat[chat].cursor) \subseteq 1..arrived
           /\ Fresh \subseteq Page(led.chat[chat].cursor)
           /\ \A r \in Fresh : /\ r \notin Command /\ ChatOf(r) = chat
                               /\ ~(r =< led.chat[chat].cursor)
                               /\ ~(r =< Seeded.lane[LaneOf(r)].cursor)
           /\ \A r \in Page(led.chat[chat].cursor) \ Command :
                 r \in Fresh \/ r =< Seeded.lane[LaneOf(r)].cursor
<1> DEFINE at == led.chat[chat].cursor
<1>1. at \in Nat /\ arrived \in Nat
  BY LedgerParts, ScriptFacts, Numbers DEF CycleTypes
<1>2. /\ Page(at) \subseteq at + 1..arrived /\ \A r \in Page(at) : ChatOf(r) = chat
  BY <1>1, PageFacts
<1>3. at + 1..arrived \subseteq 1..arrived /\ \A r \in at + 1..arrived : ~(r =< at)
  BY <1>1
<1>4. \A r \in 1..arrived : LaneOf(r) \in Lane
  BY ScriptFacts
<1>5. \A x \in Lane : Seeded.lane[x].cursor \in Int
  BY SeededOK, LedgerParts, Numbers DEF Unset
<1>6. \A r \in Page(at) : r \in Int /\ Seeded.lane[LaneOf(r)].cursor \in Int
  BY <1>1, <1>2, <1>3, <1>4, <1>5
<1>7. \A n, m \in Int : n > m <=> ~(n =< m)
  OBVIOUS
<1> HIDE DEF at
<1>8. Fresh = {r \in Page(at) \ Command : r > Seeded.lane[LaneOf(r)].cursor}
  BY DEF Fresh, Talk, at
<1>9. \A r \in Page(at) : r > Seeded.lane[LaneOf(r)].cursor <=> ~(r =< Seeded.lane[LaneOf(r)].cursor)
  BY <1>6, <1>7
<1>10. /\ Page(at) \subseteq 1..arrived /\ Fresh \subseteq Page(at)
       /\ \A r \in Fresh : /\ r \notin Command /\ ChatOf(r) = chat /\ ~(r =< at)
                           /\ ~(r =< Seeded.lane[LaneOf(r)].cursor)
       /\ \A r \in Page(at) \ Command : r \in Fresh \/ r =< Seeded.lane[LaneOf(r)].cursor
  BY <1>2, <1>3, <1>8, <1>9
<1>11. QED BY <1>10 DEF at

\* A message's round: no message has a later one than a younger message of its lane.
LEMMA Rounds ==
    ASSUME NEW R \in SUBSET Row, NEW r \in R
    PROVE  /\ Round(R, r) \in Nat
           /\ \A s \in R : LaneOf(s) = LaneOf(r) /\ s =< r => Round(R, s) =< Round(R, r)
<1> DEFINE rank(s) == Cardinality({t \in InLane(R, LaneOf(s)) : t =< s})
           late(s) == {i \in Row : rank(s) =< i * BatchSize}
<1>1. \A s \in R : Round(R, s) = Min(late(s))
  BY DEF Round
<1>2. R \in SUBSET Nat /\ Rows \in Nat /\ Rows \in Row /\ BatchSize \in Nat /\ BatchSize # 0
  BY Numbers, RowsFinite DEF Row
<1>3. \A s \in R : {t \in InLane(R, LaneOf(s)) : t =< s} \in SUBSET Row
  BY DEF InLane
<1>4. \A s \in R : rank(s) \in Nat /\ rank(s) =< Rows
  <2>1. \A T \in SUBSET Row : Cardinality(T) \in Nat /\ Cardinality(T) =< Rows
    <3>1. IsFiniteSet(Row) /\ Cardinality(Row) = Rows
      <4>1. Rows \in Int /\ ~(1 > Rows) /\ Rows - 1 + 1 = Rows /\ 1 \in Int
        BY Numbers
      <4>2. IsFiniteSet(1..Rows) /\ Cardinality(1..Rows) = IF 1 > Rows THEN 0 ELSE Rows - 1 + 1
        BY <4>1, FS_Interval
      <4>3. QED BY <4>1, <4>2 DEF Row
    <3>2. QED BY <3>1, FS_Subset, FS_CardinalityType
  <2>2. QED BY <2>1, <1>3
<1>5. ASSUME NEW s \in R PROVE late(s) # {} /\ late(s) \in SUBSET Nat
  <2>1. \A n, b \in Nat : b # 0 => n =< n * b
    OBVIOUS
  <2>2. Rows =< Rows * BatchSize /\ Rows * BatchSize \in Int
    BY <2>1, <1>2
  <2>3. rank(s) =< Rows * BatchSize
    <3> HIDE DEF rank
    <3>1. QED BY <2>2, <1>2, <1>4
  <2>4. late(s) \in SUBSET Nat
    BY <1>2 DEF Row
  <2>5. QED BY <2>3, <2>4, <1>2
<1>6. ASSUME NEW s \in R, LaneOf(s) = LaneOf(r), s =< r PROVE late(r) \subseteq late(s)
  <2>1. {t \in InLane(R, LaneOf(s)) : t =< s} \in SUBSET {t \in InLane(R, LaneOf(r)) : t =< r}
    <3>1. \A t \in R : t =< s => t =< r
      BY <1>2, <1>6
    <3>2. \A t \in InLane(R, LaneOf(r)) : t \in R
      BY DEF InLane
    <3>3. QED BY <3>1, <3>2, <1>6
  <2>2. rank(s) =< rank(r)
    BY <2>1, <1>3, RowsFinite, FS_Subset
  <2>3. rank(s) \in Nat /\ rank(r) \in Nat
    BY <1>4
  <2> HIDE DEF rank
  <2>4. \A i \in Row : i * BatchSize \in Int
    BY <1>2 DEF Row
  <2>5. QED BY <2>2, <2>3, <2>4
<1> HIDE DEF late
<1>7. \A s \in R : Min(late(s)) \in late(s) /\ \A i \in late(s) : Min(late(s)) =< i
  BY <1>5, MinRow
<1>8. Round(R, r) \in Nat
  BY <1>1, <1>5, <1>7
<1>9. QED BY <1>1, <1>6, <1>7, <1>8

\* The batches of some messages: each message is in one, of its lane and round.
LEMMA BatchFacts ==
    ASSUME NEW R \in SUBSET Row, \A r \in R : LaneOf(r) \in Lane
    PROVE  /\ Batches(R) \in SUBSET Batch
           /\ \A r \in R : \E b \in Batches(R) : r \in b.rows
           /\ \A b \in Batches(R) :
                 /\ b.rows # {} /\ b.rows \in SUBSET R
                 /\ \A r \in b.rows : LaneOf(r) = b.lane /\ b.round = Round(R, r)
           /\ \A b, c \in Batches(R) : b.rows \cap c.rows # {} => b = c
           /\ \A b, c \in Batches(R) : \A r \in b.rows, s \in c.rows :
                 b.lane = c.lane /\ r =< s => b.round =< c.round
<1> DEFINE mates(r) == {s \in InLane(R, LaneOf(r)) : Round(R, s) = Round(R, r)}
<1>1. \A r \in R : /\ BatchOf(R, r).lane = LaneOf(r) /\ BatchOf(R, r).rows = mates(r)
                   /\ BatchOf(R, r).round = Round(R, r)
                   /\ BatchOf(R, r) = [lane |-> LaneOf(r), rows |-> mates(r),
                                       round |-> Round(R, r), first |-> LaneOrder(R, LaneOf(r))]
  BY DEF BatchOf
<1>2. \A r \in R : mates(r) \in SUBSET R /\ r \in mates(r)
                   /\ \A s \in mates(r) : LaneOf(s) = LaneOf(r) /\ Round(R, s) = Round(R, r)
  BY DEF InLane
<1>3. \A r \in R : LaneOrder(R, LaneOf(r)) \in Nat
  <2>1. ASSUME NEW r \in R PROVE LaneOrder(R, LaneOf(r)) \in Nat
    <3>1. r \in InLane(R, LaneOf(r)) /\ InLane(R, LaneOf(r)) \in SUBSET Nat
      BY Numbers DEF InLane
    <3>2. Min(InLane(R, LaneOf(r))) \in Nat
      BY <3>1, MinRow
    <3>3. QED BY <3>2, Numbers DEF LaneOrder
  <2>2. QED BY <2>1
<1>4. \A r \in R : Round(R, r) \in Nat
  BY Rounds
<1> HIDE DEF mates
<1>5. Batches(R) \in SUBSET Batch
  <2>1. \A r \in R : mates(r) \in SUBSET Row
    BY <1>2
  <2>2. \A r \in R : BatchOf(R, r) \in Batch
    BY <1>1, <1>3, <1>4, <2>1 DEF Batch
  <2>3. QED BY <2>2 DEF Batches
<1>6. \A r \in R : BatchOf(R, r) \in Batches(R) /\ r \in BatchOf(R, r).rows
  BY <1>1, <1>2 DEF Batches
<1>7. \A b \in Batches(R) : \E r \in R : b = BatchOf(R, r)
  BY DEF Batches
<1>8. ASSUME NEW b \in Batches(R)
      PROVE  /\ b.rows # {} /\ b.rows \in SUBSET R
             /\ \A r \in b.rows : LaneOf(r) = b.lane /\ b.round = Round(R, r)
  BY <1>1, <1>2, <1>7
<1>9. ASSUME NEW b \in Batches(R), NEW s \in b.rows PROVE b = BatchOf(R, s)
  <2>1. PICK r \in R : b = BatchOf(R, r)
    BY <1>7
  <2>2. s \in R /\ LaneOf(s) = LaneOf(r) /\ Round(R, s) = Round(R, r)
    BY <2>1, <1>1, <1>2, <1>9
  <2>3. QED BY <2>1, <2>2 DEF BatchOf
<1>10. \A b, c \in Batches(R) : b.rows \cap c.rows # {} => b = c
  BY <1>9
<1>11. ASSUME NEW b \in Batches(R), NEW c \in Batches(R), NEW r \in b.rows, NEW s \in c.rows,
              b.lane = c.lane, r =< s
       PROVE  b.round =< c.round
  <2>1. /\ r \in R /\ LaneOf(r) = b.lane /\ b.round = Round(R, r)
        /\ s \in R /\ LaneOf(s) = c.lane /\ c.round = Round(R, s)
    BY <1>8
  <2>2. QED BY <2>1, <1>11, Rounds
<1>12. QED BY <1>5, <1>6, <1>8, <1>10, <1>11

\* The next batch is one of those to do.
LEMMA NextBatch ==
    ASSUME pass.todo \in SUBSET Batch, pass.todo # {}
    PROVE  batch \in pass.todo /\ batch \in Batch
<1>1. \A b \in pass.todo : b.round \in Nat /\ b.first \in Nat
  BY DEF Batch
<1> DEFINE rounds == {b.round : b \in pass.todo}
<1>2. rounds \in SUBSET Nat /\ rounds # {}
  BY <1>1
<1>3. PICK n \in rounds : \A m \in rounds : n =< m
  BY <1>2, LeastNumber
<1> DEFINE firsts == {b.first : b \in {c \in pass.todo : c.round = n}}
<1>4. firsts \in SUBSET Nat /\ firsts # {}
  BY <1>1
<1>5. PICK f \in firsts : \A m \in firsts : f =< m
  BY <1>4, LeastNumber
<1>6. PICK b \in pass.todo : b.round = n /\ b.first = f
  BY <1>5
<1>7. \A c \in pass.todo : b.round < c.round \/ (b.round = c.round /\ b.first =< c.first)
  <2>1. ASSUME NEW c \in pass.todo PROVE b.round < c.round \/ (b.round = c.round /\ b.first =< c.first)
    <3>1. c.round \in Nat /\ n \in Nat /\ n =< c.round /\ b.round = n
      BY <1>1, <1>2, <1>3, <1>6
    <3>2. CASE c.round = n
      BY <3>1, <3>2, <1>5, <1>6
    <3>3. CASE c.round # n
      BY <3>1, <3>3
    <3>4. QED BY <3>2, <3>3
  <2>2. QED BY <2>1
<1>8. \E d \in pass.todo :
         \A c \in pass.todo : d.round < c.round \/ (d.round = c.round /\ d.first =< c.first)
  BY <1>7
<1>9. batch \in pass.todo
  BY <1>8 DEF batch
<1>10. QED BY <1>9

-------------------------------------------------------------------------------
(* The plans of an answer and of a pass.                                   *)

\* Plans about some messages, and those that fit a plain reply.
About(R) == {p \in Plan : p.row \in R}

LEMMA AboutClosed == ASSUME NEW R PROVE Closed(About(R))
<1>1. \A p \in Plan : /\ Companion(p).row = p.row /\ Companion(p) \in Plan
                      /\ [p EXCEPT !.act = "delegate"] \in Plan
                      /\ [p EXCEPT !.act = "delegate"].row = p.row
                      /\ [p EXCEPT !.act = "reply"] \in Plan
                      /\ [p EXCEPT !.act = "reply"].row = p.row
                      /\ [p EXCEPT !.act = "reply", !.text = "short"] \in Plan
                      /\ [p EXCEPT !.act = "reply", !.text = "short"].row = p.row
  <2>1. ASSUME NEW p \in Plan
        PROVE  Companion(p).row = p.row /\ Companion(p) \in Plan
    <3>1. NoteOf(p) \in Action
      BY DEF NoteOf, Action, Memory
    <3>2. QED BY <3>1 DEF Companion, Plan, Text
  <2>2. ASSUME NEW p \in Plan
        PROVE  /\ [p EXCEPT !.act = "delegate"] \in Plan
               /\ [p EXCEPT !.act = "delegate"].row = p.row
               /\ [p EXCEPT !.act = "reply"] \in Plan
               /\ [p EXCEPT !.act = "reply"].row = p.row
               /\ [p EXCEPT !.act = "reply", !.text = "short"] \in Plan
               /\ [p EXCEPT !.act = "reply", !.text = "short"].row = p.row
    BY DEF Plan, Action, Outward, Text
  <2>3. QED BY <2>1, <2>2
<1>2. QED BY <1>1 DEF Closed, About

\* The composer makes replies of delegates; a message it fails is undrafted.
LEMMA ComposedKeeps ==
    ASSUME NEW T, Closed(T), NEW out \in Seq(T), NEW failing
    PROVE  /\ Composed(out, failing) \in Seq({p \in T : p.act # "delegate"})
           /\ \A q \in ToSet(out) : q.row \in Undrafted(out, failing)
                 \/ \E p \in ToSet(Composed(out, failing)) :
                       p.row = q.row /\ KindOf(p) = KindOf(q)
           /\ \A p \in ToSet(Composed(out, failing)) : \E q \in ToSet(out) :
                 /\ p.row = q.row
                 /\ p.act = q.act \/ (q.act = "delegate" /\ p.act = "reply")
           /\ \A r \in Undrafted(out, failing) : \E q \in ToSet(out) : r = q.row
<1> DEFINE places == {i \in DOMAIN out : out[i].act = "delegate"
                                           => out[i].row \notin Undrafted(out, failing)}
           kept == Taken(out, places)
           as(q) == IF q.act = "delegate" THEN [q EXCEPT !.act = "reply", !.text = "short"] ELSE q
           U == {p \in T : p.act # "delegate"}
<1>1. DOMAIN out = 1..Len(out) /\ ToSet(out) = {out[i] : i \in 1..Len(out)}
  BY Elements
<1>2. places \in SUBSET (1..Len(out))
  BY <1>1
<1>3. kept \in Seq(T) /\ ToSet(kept) = {out[i] : i \in places}
  BY <1>2, TakenFrom
<1>4. Composed(out, failing) = [i \in DOMAIN kept |-> as(kept[i])]
  BY DEF Composed
<1> HIDE DEF kept
<1>5. /\ Len(kept) \in Nat /\ DOMAIN kept = 1..Len(kept)
      /\ \A i \in 1..Len(kept) : kept[i] \in T
      /\ ToSet(kept) = {kept[i] : i \in 1..Len(kept)}
  BY <1>3, Elements
<1>6. ASSUME NEW q \in T
      PROVE  /\ as(q) \in U /\ as(q).row = q.row /\ KindOf(as(q)) = KindOf(q)
             /\ as(q).act = q.act \/ (q.act = "delegate" /\ as(q).act = "reply")
  <2>1. q \in Plan
    BY DEF Closed
  <2>2. CASE q.act = "delegate"
    <3>1. as(q) = [q EXCEPT !.act = "reply", !.text = "short"]
      BY <2>2
    <3>2. as(q) \in T
      BY <2>2, <3>1 DEF Closed
    <3>3. as(q).act = "reply" /\ as(q).row = q.row
      BY <2>1, <3>1 DEF Plan
    <3> HIDE DEF as
    <3>4. QED BY <2>2, <3>2, <3>3 DEF KindOf
  <2>3. CASE q.act # "delegate"
    BY <2>3
  <2>4. QED BY <2>2, <2>3
<1> HIDE DEF as, U
<1>7. Composed(out, failing) \in Seq(U)
  <2>1. Composed(out, failing) \in [1..Len(kept) -> U]
    BY <1>4, <1>5, <1>6
  <2>2. QED BY <2>1, <1>5, SeqDef
<1>8. ToSet(Composed(out, failing)) = {as(kept[i]) : i \in 1..Len(kept)}
  BY <1>4, <1>5 DEF ToSet
<1>9. ASSUME NEW q \in ToSet(out), q.row \notin Undrafted(out, failing)
      PROVE  \E p \in ToSet(Composed(out, failing)) : p.row = q.row /\ KindOf(p) = KindOf(q)
  <2>1. q \in ToSet(kept)
    BY <1>1, <1>3, <1>9
  <2>2. PICK i \in 1..Len(kept) : q = kept[i]
    BY <2>1, <1>5
  <2>3. as(q) \in ToSet(Composed(out, failing)) /\ q \in T
    BY <2>2, <1>5, <1>8
  <2>4. QED BY <2>3, <1>6
<1>10. ASSUME NEW p \in ToSet(Composed(out, failing))
       PROVE  \E q \in ToSet(out) :
                 /\ p.row = q.row
                 /\ p.act = q.act \/ (q.act = "delegate" /\ p.act = "reply")
  <2>1. PICK i \in 1..Len(kept) : p = as(kept[i])
    BY <1>8
  <2>2. kept[i] \in ToSet(out) /\ kept[i] \in T
    BY <1>1, <1>2, <1>3, <1>5
  <2>3. QED BY <2>1, <2>2, <1>6
<1>11. \A r \in Undrafted(out, failing) : \E q \in ToSet(out) : r = q.row
  BY DEF Undrafted
<1>12. QED BY <1>7, <1>9, <1>10, <1>11 DEF U

\* The answer for a batch, as plans about its messages: one for each.
OneEach(plans) == \A i, j \in 1..Len(plans) : plans[i].row = plans[j].row => i = j
LEMMA AnswerPlans ==
    ASSUME CycleTypes, NEW R \in SUBSET (1..arrived), NEW answer \in AnswersTo(R)
    PROVE  PlansOf(answer) \in Seq(About(R)) /\ OneEach(PlansOf(answer))
<1>1. /\ answer \in [R -> UNION ToSet(script.says)] /\ \A r \in R : answer[r] \in script.says[r]
      /\ DOMAIN answer = R
  BY DEF AnswersTo
<1>2. script \in Scripts /\ \A r \in R : r \in Row
  BY ScriptFacts DEF CycleTypes
<1>3. \A r \in R : answer[r] \in Shape
  BY <1>1, ScriptFacts
<1>4. R \in SUBSET Nat /\ IsFiniteSet(R)
  BY <1>2, RowsFinite
<1> DEFINE n == Cardinality(R)
           order == Ascending(R)
           new == PlansOf(answer)
<1>5. /\ n \in Nat /\ order \in [1..n -> R] /\ DOMAIN order = 1..n
      /\ \A i, j \in 1..n : order[i] = order[j] => i = j
  BY <1>4, AscendingLists
<1>6. new = [i \in 1..n |-> PlanOf(order[i], answer[order[i]])]
  BY <1>1, <1>5 DEF PlansOf
<1>7. \A r \in R : PlanOf(r, answer[r]) \in About(R)
  <2>1. \A t \in Written : Sanitized(t) \in Text
    BY DEF Written, Text, Sanitized
  <2>2. SUFFICES ASSUME NEW r \in R PROVE PlanOf(r, answer[r]) \in About(R)
    OBVIOUS
  <2>3. Sanitized(answer[r].text) \in Text
    BY <1>3, <2>1 DEF Shape
  <2>4. QED BY <1>2, <1>3, <2>3 DEF PlanOf, Shape, Plan, About
<1>8. \A i \in 1..n : new[i].row = order[i]
  BY <1>6 DEF PlanOf
<1> HIDE DEF n, order, new
<1>9. new \in [1..n -> About(R)]
  BY <1>5, <1>6, <1>7
<1>10. new \in Seq(About(R)) /\ Len(new) = n
  BY <1>5, <1>9, SeqDef, LenProperties
<1>11. OneEach(new)
  BY <1>5, <1>8, <1>10 DEF OneEach
<1>12. QED BY <1>10, <1>11 DEF new

LEMMA UndoneKeeps ==
    ASSUME NEW T, NEW plans \in Seq(T), NEW done
    PROVE  Undone(plans, done) \in Seq(T)
<1>1. {i \in DOMAIN plans : <<plans[i].row, KindOf(plans[i])>> \notin done} \in SUBSET (1..Len(plans))
  BY Elements
<1>2. QED BY <1>1, TakenFrom DEF Undone

-------------------------------------------------------------------------------
(* Each action is planned once.                                             *)

LEMMA TakenOnce ==
    ASSUME NEW T, NEW s \in Seq(T), NEW places \in SUBSET (1..Len(s))
    PROVE  /\ Once(s) => Once(Taken(s, places))
           /\ OneEach(s) => OneEach(Taken(s, places))
<1> DEFINE n == Len(Taken(s, places))
<1>1. PICK g \in [1..n -> places] : \A k \in 1..n :
         Taken(s, places)[k] = s[g[k]] /\ \A m \in 1..n : g[k] = g[m] => k = m
  BY TakenPlaces
<1>2. \A k \in 1..n : g[k] \in 1..Len(s)
  OBVIOUS
<1> HIDE DEF n
<1>3. ASSUME Once(s), NEW i \in 1..n, NEW j \in 1..n,
             KeyOf(Taken(s, places)[i]) = KeyOf(Taken(s, places)[j])
      PROVE  i = j
  <2>1. KeyOf(s[g[i]]) = KeyOf(s[g[j]])
    BY <1>1, <1>3
  <2>2. g[i] = g[j]
    BY <2>1, <1>2, <1>3 DEF Once
  <2>3. QED BY <2>2, <1>1
<1>4. ASSUME OneEach(s), NEW i \in 1..n, NEW j \in 1..n,
             Taken(s, places)[i].row = Taken(s, places)[j].row
      PROVE  i = j
  <2>1. s[g[i]].row = s[g[j]].row
    BY <1>1, <1>4
  <2>2. g[i] = g[j]
    BY <2>1, <1>2, <1>4 DEF OneEach
  <2>3. QED BY <2>2, <1>1
<1>5. QED BY <1>3, <1>4 DEF Once, OneEach, n

\* A plan and its companion are for different actions.
LEMMA CompanionDiffers ==
    ASSUME NEW p \in Plan, Noted(p)
    PROVE  Companion(p).row = p.row /\ KeyOf(Companion(p)) # KeyOf(p)
<1>1. Companion(p).row = p.row /\ Companion(p).act = NoteOf(p)
  BY DEF Companion, Plan
<1>2. NoteOf(p) \in Memory /\ p.act # NoteOf(p)
  BY DEF NoteOf, Memory, Noted
<1>3. KindOf(Companion(p)) = NoteOf(p)
  BY <1>1, <1>2 DEF KindOf, Memory
<1>4. KindOf(p) # NoteOf(p)
  BY <1>2 DEF KindOf, Memory
<1>5. QED BY <1>1, <1>3, <1>4 DEF KeyOf

LEMMA MemoryOnce ==
    ASSUME NEW T, T \subseteq Plan, NEW plans \in Seq(T), OneEach(plans)
    PROVE  Once(WithMemory(plans))
<1> DEFINE both == [i \in 1..2 * Len(plans) |-> IF i % 2 = 1 THEN plans[(i + 1) \div 2]
                                                ELSE Companion(plans[i \div 2])]
           places == {i \in DOMAIN both : i % 2 = 1 \/ Noted(plans[i \div 2])}
           U == {both[i] : i \in 1..2 * Len(plans)}
           new == Taken(both, places)
           n == Len(new)
<1>1. Len(plans) \in Nat /\ \A i \in 1..Len(plans) : plans[i] \in Plan
  <2>1. Len(plans) \in Nat /\ \A i \in 1..Len(plans) : plans[i] \in T
    BY Elements
  <2>2. QED BY <2>1
<1>2. both \in Seq(U) /\ Len(both) = 2 * Len(plans) /\ DOMAIN both = 1..2 * Len(plans)
  <2>1. both \in [1..2 * Len(plans) -> U] /\ DOMAIN both = 1..2 * Len(plans)
    OBVIOUS
  <2>2. 2 * Len(plans) \in Nat
    BY <1>1
  <2> HIDE DEF both, U
  <2>3. both \in Seq(U)
    BY <2>1, <2>2, SeqDef
  <2>4. QED BY <2>1, <2>2, <2>3, LenProperties
<1>3. places \in SUBSET (1..Len(both))
  BY <1>2
\* Where a plan comes from.
<1> DEFINE from(i) == (i + 1) \div 2
<1>4. ASSUME NEW i \in places
      PROVE  /\ from(i) \in 1..Len(plans) /\ i \in Int
             /\ \/ i = 2 * from(i) - 1 /\ both[i] = plans[from(i)]
                \/ i = 2 * from(i) /\ both[i] = Companion(plans[from(i)])
                   /\ Noted(plans[from(i)])
  <2>1. i \in 1..2 * Len(plans) /\ (i % 2 = 1 \/ Noted(plans[i \div 2]))
    BY <1>2
  <2>2. CASE i % 2 = 1
    <3>1. both[i] = plans[from(i)]
      BY <2>1, <2>2
    <3>2. from(i) \in 1..Len(plans) /\ i = 2 * from(i) - 1
      <4> HIDE DEF both, places
      <4>1. QED BY <2>1, <2>2, <1>1
    <3>3. QED BY <2>1, <3>1, <3>2
  <2>3. CASE i % 2 # 1
    <3>1. from(i) \in 1..Len(plans) /\ i = 2 * from(i) /\ i \div 2 = from(i)
      <4> HIDE DEF both, places
      <4>1. QED BY <2>1, <2>3, <1>1
    <3>2. both[i] = Companion(plans[i \div 2])
      BY <2>1, <2>3
    <3>3. QED BY <2>1, <2>3, <3>1, <3>2
  <2>4. QED BY <2>2, <2>3
<1>5. WithMemory(plans) = new
  BY DEF WithMemory
<1> HIDE DEF both, places, U
<1>6. PICK g \in [1..n -> places] : \A k \in 1..n :
         new[k] = both[g[k]] /\ \A m \in 1..n : g[k] = g[m] => k = m
  BY <1>2, <1>3, TakenPlaces
<1>7. ASSUME NEW i \in places, NEW j \in places, KeyOf(both[i]) = KeyOf(both[j])
      PROVE  i = j
  <2> HIDE DEF from
  <2>1. \A k \in 1..Len(plans) : Noted(plans[k]) =>
            /\ Companion(plans[k]).row = plans[k].row
            /\ KeyOf(Companion(plans[k])) # KeyOf(plans[k])
    BY <1>1, CompanionDiffers
  <2>2. both[i].row = plans[from(i)].row /\ both[j].row = plans[from(j)].row
    BY <1>4, <2>1
  <2>3. both[i].row = both[j].row
    BY <1>7 DEF KeyOf
  <2>4. from(i) = from(j)
    BY <2>2, <2>3, <1>4 DEF OneEach
  <2>5. i = 2 * from(i) - 1 <=> j = 2 * from(j) - 1
    <3>1. \/ i = 2 * from(i) - 1 /\ both[i] = plans[from(i)]
          \/ i = 2 * from(i) /\ both[i] = Companion(plans[from(i)]) /\ Noted(plans[from(i)])
      BY <1>4
    <3>2. \/ j = 2 * from(j) - 1 /\ both[j] = plans[from(j)]
          \/ j = 2 * from(j) /\ both[j] = Companion(plans[from(j)]) /\ Noted(plans[from(j)])
      BY <1>4
    <3>3. from(i) \in 1..Len(plans) /\ from(i) \in Int
      BY <1>4, <1>1
    <3>4. Noted(plans[from(i)]) => KeyOf(Companion(plans[from(i)])) # KeyOf(plans[from(i)])
      BY <2>1, <3>3
    <3>5. 2 * from(i) # 2 * from(i) - 1
      BY <3>3
    <3>6. QED BY <3>1, <3>2, <3>4, <3>5, <2>4, <1>7
  <2>6. from(i) \in Int
    BY <1>4, <1>1
  <2>7. QED BY <2>4, <2>5, <2>6, <1>4
<1>8. SUFFICES ASSUME NEW k \in 1..n, NEW m \in 1..n, KeyOf(new[k]) = KeyOf(new[m])
               PROVE  k = m
  BY <1>5 DEF Once
<1>9. g[k] \in places /\ g[m] \in places /\ KeyOf(both[g[k]]) = KeyOf(both[g[m]])
  BY <1>6, <1>8
<1>10. g[k] = g[m]
  BY <1>7, <1>9
<1>11. QED BY <1>6, <1>10

LEMMA DepthOnce ==
    ASSUME NEW T, T \subseteq Plan, NEW plans \in Seq(T), Once(plans), NEW demand
    PROVE  Once(AtDepth(plans, demand))
<1> DEFINE places == {i \in DOMAIN plans : plans[i].act \in Outward => plans[i].want = "yes"}
           wanted == Taken(plans, places)
           deep == [i \in DOMAIN wanted |-> Deepened(wanted[i], demand)]
<1>1. places \in SUBSET (1..Len(plans))
  BY Elements
<1>2. wanted \in Seq(T) /\ Once(wanted)
  BY <1>1, TakenFrom, TakenOnce
<1> HIDE DEF wanted
<1>3. DOMAIN wanted = 1..Len(wanted) /\ Len(wanted) \in Nat
      /\ \A i \in 1..Len(wanted) : wanted[i] \in Plan
  BY <1>2, Elements
<1>4. \A p \in Plan : KeyOf(Deepened(p, demand)) = KeyOf(p)
  <2>1. \A p \in Plan : [p EXCEPT !.act = "delegate"].row = p.row
                        /\ [p EXCEPT !.act = "delegate"].act = "delegate"
    BY DEF Plan
  <2>2. ASSUME NEW p \in Plan PROVE KeyOf(Deepened(p, demand)) = KeyOf(p)
    <3>1. CASE Deepened(p, demand) = p
      BY <3>1
    <3>2. CASE p.act = "reply" /\ Deepened(p, demand) = [p EXCEPT !.act = "delegate"]
      BY <3>2, <2>1 DEF KeyOf, KindOf
    <3>3. QED BY <3>1, <3>2 DEF Deepened
  <2>3. QED BY <2>2
<1>5. deep \in [1..Len(wanted) -> {Deepened(p, demand) : p \in Plan}] /\ DOMAIN deep = 1..Len(wanted)
  BY <1>3
<1>6. \A i \in 1..Len(wanted) : KeyOf(deep[i]) = KeyOf(wanted[i])
  BY <1>3, <1>4
<1> HIDE DEF deep
<1>7. deep \in Seq({Deepened(p, demand) : p \in Plan}) /\ Len(deep) = Len(wanted)
  <2>1. deep \in Seq({Deepened(p, demand) : p \in Plan})
    BY <1>3, <1>5, SeqDef
  <2>2. QED BY <2>1, <1>3, <1>5, LenProperties
<1>8. Once(deep)
  BY <1>2, <1>6, <1>7 DEF Once
<1>9. QED BY <1>8 DEF AtDepth, deep, wanted

\* The answer for a batch, through all policies.
LEMMA DecidedOnce ==
    ASSUME NEW T, Closed(T), NEW plans \in Seq(T), OneEach(plans), NEW lane, NEW rows,
           NEW proactive, NEW done
    PROVE  Once(Undone(Decided(plans, lane, rows, proactive), done))
<1> DEFINE demand == Demand(plans)
           within == WithinAutonomy(plans, demand, proactive)
           allowed == NotWaiting(within)
           all == Decided(plans, lane, rows, proactive)
<1>0. T \subseteq Plan
  BY ClosedIn
<1>1. within \in Seq(T) /\ OneEach(within)
  <2>1. {i \in DOMAIN plans : \/ proactive
                              \/ plans[i].row \in demand
                              \/ plans[i].act \notin Outward \cup Memory} \in SUBSET (1..Len(plans))
    BY Elements
  <2>2. QED BY <2>1, TakenFrom, TakenOnce DEF WithinAutonomy
<1> HIDE DEF within
<1>2. allowed \in Seq(T) /\ OneEach(allowed)
  <2>1. {i \in DOMAIN within : within[i].act # "wait"} \in SUBSET (1..Len(within))
    BY <1>1, Elements
  <2>2. QED BY <2>1, <1>1, TakenFrom, TakenOnce DEF NotWaiting
<1> HIDE DEF allowed
<1>3. WithMemory(allowed) \in Seq(T) /\ Once(WithMemory(allowed))
  BY <1>0, <1>2, MemoryKeeps, MemoryOnce DEF Closed
<1>4. all \in Seq(T) /\ Once(all)
  <2>1. all = AtDepth(WithMemory(allowed), demand)
    BY DEF Decided, allowed, within
  <2>2. QED BY <2>1, <1>0, <1>3, DepthKeeps, DepthOnce
<1> HIDE DEF all
<1>5. {i \in DOMAIN all : <<all[i].row, KindOf(all[i])>> \notin done} \in SUBSET (1..Len(all))
  BY <1>4, Elements
<1>6. QED BY <1>4, <1>5, TakenOnce DEF Undone, all

\* What the composer makes of the plans that got in.
LEMMA ComposedOnce ==
    ASSUME NEW T, Closed(T), NEW out \in Seq(T), Once(out), NEW failing
    PROVE  Once(Composed(out, failing))
<1> DEFINE places == {i \in DOMAIN out : out[i].act = "delegate"
                                           => out[i].row \notin Undrafted(out, failing)}
           kept == Taken(out, places)
           as(q) == IF q.act = "delegate" THEN [q EXCEPT !.act = "reply", !.text = "short"] ELSE q
           new == [i \in DOMAIN kept |-> as(kept[i])]
<1>1. places \in SUBSET (1..Len(out))
  BY Elements
<1>2. kept \in Seq(T) /\ Once(kept)
  BY <1>1, TakenFrom, TakenOnce
<1> HIDE DEF kept
<1>3. DOMAIN kept = 1..Len(kept) /\ Len(kept) \in Nat /\ \A i \in 1..Len(kept) : kept[i] \in Plan
  BY <1>2, Elements, ClosedIn
<1>4. ASSUME NEW q \in Plan PROVE KeyOf(as(q)) = KeyOf(q)
  <2>1. CASE q.act = "delegate"
    <3>1. as(q) = [q EXCEPT !.act = "reply", !.text = "short"]
      BY <2>1
    <3>2. as(q).row = q.row /\ as(q).act = "reply"
      BY <3>1 DEF Plan
    <3> HIDE DEF as
    <3>3. QED BY <3>2, <2>1 DEF KeyOf, KindOf
  <2>2. CASE q.act # "delegate"
    BY <2>2
  <2>3. QED BY <2>1, <2>2
<1> HIDE DEF as
<1>5. new \in [1..Len(kept) -> {as(q) : q \in Plan}] /\ DOMAIN new = 1..Len(kept)
  BY <1>3
<1>6. \A i \in 1..Len(kept) : KeyOf(new[i]) = KeyOf(kept[i])
  BY <1>3, <1>4
<1>7. Composed(out, failing) = new
  BY DEF Composed, as, kept
<1> HIDE DEF new
<1>8. Len(new) = Len(kept)
  <2>1. new \in Seq({as(q) : q \in Plan})
    BY <1>3, <1>5, SeqDef
  <2>2. QED BY <2>1, <1>3, <1>5, LenProperties
<1>9. Once(new)
  BY <1>2, <1>6, <1>8 DEF Once
<1>10. QED BY <1>7, <1>9

\* Of what is planned once, the rest has no plan for the first action.
LEMMA TailOnce ==
    ASSUME NEW T, NEW s \in Seq(T), s # <<>>, Once(s)
    PROVE  /\ Once(Tail(s))
           /\ \A p \in ToSet(Tail(s)) : KeyOf(p) # KeyOf(Head(s))
<1>1. /\ Tail(s) \in Seq(T) /\ Len(Tail(s)) = Len(s) - 1 /\ Head(s) = s[1]
      /\ \A i \in 1..Len(Tail(s)) : Tail(s)[i] = s[i + 1]
  BY HeadTailProperties
<1>2. Len(s) \in Nat /\ Len(s) # 0
  BY Elements, EmptySeq
<1>3. \A i \in 1..Len(Tail(s)) : i \in Int /\ i + 1 \in 1..Len(s) /\ i + 1 # 1
  BY <1>1, <1>2
<1>4. 1 \in 1..Len(s)
  BY <1>2
<1>5. ASSUME NEW i \in 1..Len(Tail(s)), NEW j \in 1..Len(Tail(s)),
             KeyOf(Tail(s)[i]) = KeyOf(Tail(s)[j])
      PROVE  i = j
  <2>1. i + 1 = j + 1
    BY <1>1, <1>3, <1>5 DEF Once
  <2>2. QED BY <2>1, <1>3
<1>6. \A i \in 1..Len(Tail(s)) : KeyOf(Tail(s)[i]) # KeyOf(Head(s))
  BY <1>1, <1>3, <1>4 DEF Once
<1>7. ToSet(Tail(s)) = {Tail(s)[i] : i \in 1..Len(Tail(s))}
  BY <1>1, Elements
<1>8. QED BY <1>5, <1>6, <1>7 DEF Once

-------------------------------------------------------------------------------
(* What the lanes and the ledger become.                                    *)

LEMMA WantedOK ==
    ASSUME NEW R \in SUBSET Row, NEW decided \in Seq({p \in About(R) : p.act # "wait"}),
           NEW held \in SUBSET R
    PROVE  /\ Wanted(decided, held) \subseteq R \X (Kind \cup {"wait"})
           /\ \A o \in Wanted(decided, held) :
                 o[1] \in held \/ \E p \in ToSet(decided) : p.row = o[1] /\ KindOf(p) = o[2]
<1>1. \A p \in ToSet(decided) : p \in Plan /\ p.row \in R /\ p.act # "wait"
  BY Elements DEF About
<1>2. \A p \in Plan : p.act \notin {"ignore", "wait"} => KindOf(p) \in Kind
  BY DEF Plan, Action, Outward, KindOf, Kind
<1>3. ASSUME NEW o \in Wanted(decided, held)
      PROVE  /\ o \in R \X (Kind \cup {"wait"})
             /\ o[1] \in held \/ \E p \in ToSet(decided) : p.row = o[1] /\ KindOf(p) = o[2]
  <2>1. CASE o \in held \X {"wait"}
    BY <2>1
  <2>2. CASE o \in {<<p.row, KindOf(p)>> : p \in {q \in ToSet(decided) : q.act # "ignore"}}
    <3>1. PICK p \in ToSet(decided) : p.act # "ignore" /\ o = <<p.row, KindOf(p)>>
      BY <2>2
    <3>2. KindOf(p) \in Kind
      BY <1>1, <1>2, <3>1
    <3>3. QED BY <1>1, <3>1, <3>2
  <2>3. QED BY <1>3, <2>1, <2>2 DEF Wanted
<1>4. QED BY <1>3

LEMMA AfterWaitOK ==
    ASSUME NEW R \in SUBSET Row, R # {}, NEW e \in LaneEntry, NEW plans \in Seq(About(R))
    PROVE  /\ AfterWait(plans, e, R) \in LaneEntry /\ Held(plans, e, R) \in SUBSET R
           /\ AfterWait(plans, e, R).cursor = e.cursor
           /\ AfterWait(plans, e, R).failures = e.failures
           /\ AfterWait(plans, e, R).invalid = e.invalid
<1> DEFINE n == WaitCount(e, R)
           m == Max(R)
<1>1. Held(plans, e, R) \in SUBSET R
  <2>1. \A p \in ToSet(plans) : p.row \in R
    BY Elements DEF About
  <2>2. QED BY <2>1 DEF Held, Waiting
<1>2. m \in 0..Rows
  <2>1. R \in SUBSET (Unset..Rows)
    BY Numbers DEF Row, Unset
  <2>2. m \in R
    BY <2>1, MaxRow
  <2> HIDE DEF m
  <2>3. QED BY <2>2, Numbers DEF Row
<1>3. e.waits \in 0..MaxWaits /\ 0 \in 0..MaxWaits /\ 0 \in 0..Rows /\ MaxWaits \in Nat
  BY Numbers DEF LaneEntry
<1>4. n \in Nat
  BY <1>3 DEF WaitCount
<1>5. n < MaxWaits => n \in 0..MaxWaits
  <2> HIDE DEF n
  <2>1. QED BY <1>3, <1>4
<1>6. CASE Held(plans, e, R) = {}
  <2>1. AfterWait(plans, e, R) = [e EXCEPT !.anchor = 0, !.waits = 0]
    BY <1>6 DEF AfterWait
  <2>2. QED BY <2>1, <1>1, <1>3 DEF LaneEntry
<1>7. CASE Held(plans, e, R) # {}
  <2>1. AfterWait(plans, e, R) = [e EXCEPT !.anchor = m, !.waits = n]
    BY <1>7 DEF AfterWait
  <2>2. n \in 0..MaxWaits
    BY <1>5, <1>7 DEF Held
  <2> HIDE DEF n, m
  <2>3. QED BY <2>1, <2>2, <1>1, <1>2 DEF LaneEntry
<1>8. QED BY <1>6, <1>7

LEMMA HeardOK ==
    ASSUME NEW e \in LaneEntry
    PROVE  Heard(e) \in LaneEntry /\ Heard(e).cursor = e.cursor
           /\ Heard(e).failures = 0 /\ Heard(e).invalid = 0
<1>1. 0 \in 0..MaxInvalid
  BY Numbers
<1>2. QED BY <1>1 DEF Heard, LaneEntry

LEMMA NotedFailureOK ==
    ASSUME NEW e \in LaneEntry
    PROVE  /\ NotedFailure(e) \in LaneEntry /\ NotedFailure(e).cursor = e.cursor
           /\ NotedFailure(e).invalid = e.invalid
           /\ NotedFailure(e).failures =< e.failures + 1
           /\ NotedFailure(e).failures =< MaxInvalid
<1> DEFINE n == Min({MaxInvalid, e.failures + 1})
<1>1. e.failures \in 0..MaxInvalid /\ MaxInvalid \in Nat /\ e.failures + 1 \in Nat
  BY Numbers DEF LaneEntry
<1>2. n = IF MaxInvalid =< e.failures + 1 THEN MaxInvalid ELSE e.failures + 1
  BY <1>1, SmallerOf
<1> HIDE DEF n
<1>3. n \in 0..MaxInvalid /\ n =< e.failures + 1 /\ n =< MaxInvalid /\ (n < MaxInvalid) \in BOOLEAN
  BY <1>1, <1>2
<1>4. NotedFailure(e) = [e EXCEPT !.failures = n, !.resting = n < MaxInvalid]
  BY DEF NotedFailure, n
<1>5. NotedFailure(e).failures = n /\ NotedFailure(e).cursor = e.cursor
      /\ NotedFailure(e).invalid = e.invalid
  BY <1>4 DEF LaneEntry
<1>6. NotedFailure(e) \in LaneEntry
  <2> DEFINE a == [e EXCEPT !.failures = n]
             b == n < MaxInvalid
  <2>1. a \in LaneEntry
    BY <1>3 DEF LaneEntry
  <2>2. NotedFailure(e) = [a EXCEPT !.resting = b]
    BY <1>4
  <2>3. b \in BOOLEAN
    BY <1>3
  <2> HIDE DEF a, b
  <2>4. QED BY <2>1, <2>2, <2>3 DEF LaneEntry
<1>7. QED BY <1>3, <1>5, <1>6

\* The end of a pass moves a lane's cursor to the last message of its settled batches.
LEMMA AfterPassOK ==
    ASSUME CycleTypes, NEW x \in Lane, \A b \in pass.asked : b.rows \subseteq 1..arrived
    PROVE  /\ AfterPass(x) \in LaneEntry /\ Passed(x) \subseteq 1..arrived
           /\ led.lane[x].cursor =< AfterPass(x).cursor
           /\ AfterPass(x).cursor = led.lane[x].cursor \/ AfterPass(x).cursor \in Passed(x)
           /\ \/ AfterPass(x).failures = 0
              \/ /\ AfterPass(x).invalid = led.lane[x].invalid
                 /\ AfterPass(x).failures =< led.lane[x].failures + IF x \in FailedLanes THEN 1 ELSE 0
<1> DEFINE old == led.lane[x]
           e == IF x \in FailedLanes THEN NotedFailure(old) ELSE old
           new == Max(Passed(x) \cup {e.cursor})
           ahead == [e EXCEPT !.cursor = new]
           due == IF x \in FailedLanes THEN 1 ELSE 0
<1>1. old \in LaneEntry /\ old.cursor \in Unset..Rows /\ old.failures \in Nat
  BY LedgerParts DEF CycleTypes
<1>2. e \in LaneEntry /\ e.cursor = old.cursor /\ e.invalid = old.invalid
      /\ e.failures =< old.failures + due
  <2> HIDE DEF old
  <2>1. CASE x \in FailedLanes
    BY <1>1, <2>1, NotedFailureOK
  <2>2. CASE x \notin FailedLanes
    BY <1>1, <2>2
  <2>3. QED BY <2>1, <2>2
<1> HIDE DEF e, old
<1>3. Passed(x) \subseteq 1..arrived
  BY DEF Passed
<1>4. Unset..Rows \subseteq Int /\ 1..arrived \subseteq Unset..Rows
  BY ScriptFacts, Numbers DEF Unset
<1>5. new \in Passed(x) \cup {e.cursor} /\ e.cursor =< new /\ new \in Unset..Rows
  <2>1. Passed(x) \cup {e.cursor} \in SUBSET (Unset..Rows) /\ Passed(x) \cup {e.cursor} # {}
    BY <1>1, <1>2, <1>3, <1>4
  <2>2. QED BY <2>1, MaxRow
<1> HIDE DEF new
<1>6. /\ ahead \in LaneEntry /\ ahead.cursor = new /\ ahead.invalid = e.invalid
      /\ ahead.failures = e.failures
  BY <1>2, <1>5 DEF LaneEntry
<1>7. AfterPass(x) = IF Passed(x) = {} THEN e ELSE IF x \in Failing THEN ahead ELSE Heard(ahead)
  BY DEF AfterPass, LaneAdvanced, e, old, new
<1> HIDE DEF ahead
<1>8. CASE Passed(x) = {}
  <2>1. AfterPass(x) = e
    BY <1>7, <1>8
  <2>2. old.cursor =< e.cursor
    BY <1>1, <1>2, <1>4
  <2>3. QED BY <2>1, <2>2, <1>2, <1>3 DEF old
<1>9. CASE Passed(x) # {} /\ x \in Failing
  BY <1>2, <1>3, <1>5, <1>6, <1>7, <1>9 DEF old
<1>10. CASE Passed(x) # {} /\ x \notin Failing
  <2>1. AfterPass(x) = Heard(ahead)
    BY <1>7, <1>10
  <2>2. Heard(ahead) \in LaneEntry /\ Heard(ahead).cursor = new /\ Heard(ahead).failures = 0
    BY <1>6, HeardOK
  <2>3. QED BY <2>1, <2>2, <1>2, <1>3, <1>5 DEF old
<1>11. QED BY <1>8, <1>9, <1>10

LEMMA LanesAfterPass ==
    ASSUME CycleTypes, \A b \in pass.asked : b.rows \subseteq 1..arrived
    PROVE  LET after == [led EXCEPT !.lane = [l \in Lane |-> AfterPass(l)]]
           IN  /\ after \in Ledger /\ after.chat = led.chat /\ after.today = led.today
               /\ \A l \in Lane : after.lane[l] = AfterPass(l)
<1> DEFINE ls == [l \in Lane |-> AfterPass(l)]
<1>1. ls \in [Lane -> LaneEntry]
  BY AfterPassOK
<1>2. led \in Ledger
  BY DEF CycleTypes
<1>3. \A l \in Lane : ls[l] = AfterPass(l)
  OBVIOUS
<1> HIDE DEF ls
<1>4. [led EXCEPT !.lane = ls] \in Ledger
  BY <1>1, <1>2 DEF Ledger
<1>5. [led EXCEPT !.lane = ls].chat = led.chat /\ [led EXCEPT !.lane = ls].today = led.today
      /\ [led EXCEPT !.lane = ls].lane = ls
  BY <1>2 DEF Ledger
<1>6. QED BY <1>3, <1>4, <1>5 DEF ls

LEMMA CountedOK ==
    ASSUME NEW l \in Ledger, chat \in Chat, plan.act \in {"reply", "react"},
           plan.act = "reply" => l.chat[chat].count[class] < ChatCap,
           plan.act = "react" => l.reacts < ReactCap
    PROVE  /\ Counted(l) \in Ledger /\ Counted(l).today = l.today /\ Counted(l).lane = l.lane
           /\ \A c \in Chat : /\ Counted(l).chat[c].cursor = l.chat[c].cursor
                              /\ \A k \in Class : Counted(l).chat[c].count[k] =
                                   IF plan.act = "reply" /\ c = chat /\ k = class
                                   THEN l.chat[c].count[k] + 1 ELSE l.chat[c].count[k]
<1>1. CASE plan.act = "react"
  <2>1. Counted(l) = [l EXCEPT !.reacts = @ + 1]
    BY <1>1 DEF Counted
  <2>2. l.reacts + 1 \in 0..ReactCap
    BY <1>1, LedgerParts, Numbers
  <2>3. Counted(l) \in Ledger /\ Counted(l).today = l.today /\ Counted(l).lane = l.lane
        /\ Counted(l).chat = l.chat
    BY <2>1, <2>2 DEF Ledger
  <2>4. QED BY <2>3, <1>1
<1>2. CASE plan.act = "reply"
  <2> DEFINE e == [l.chat[chat] EXCEPT !.count[class] = @ + 1]
  <2>1. class \in Class
    BY DEF class, Class
  <2>2. /\ l.chat \in [Chat -> ChatEntry] /\ l.chat[chat] \in ChatEntry
        /\ l.chat[chat].count \in [Class -> 0..ChatCap] /\ l.chat[chat].count[class] + 1 \in 0..ChatCap
    <3>1. l.chat \in [Chat -> ChatEntry] /\ l.chat[chat] \in ChatEntry
      BY LedgerParts
    <3>2. l.chat[chat].count \in [Class -> 0..ChatCap]
      BY <3>1 DEF ChatEntry
    <3>3. l.chat[chat].count[class] + 1 \in 0..ChatCap
      BY <3>2, <2>1, <1>2, Numbers
    <3>4. QED BY <3>1, <3>2, <3>3
  <2>3. /\ e \in ChatEntry /\ e.cursor = l.chat[chat].cursor
        /\ \A k \in Class : e.count[k] = IF k = class THEN l.chat[chat].count[k] + 1
                                         ELSE l.chat[chat].count[k]
    <3> DEFINE counts == [l.chat[chat].count EXCEPT ![class] = l.chat[chat].count[class] + 1]
    <3>1. counts \in [Class -> 0..ChatCap]
      BY <2>2
    <3>2. \A k \in Class : counts[k] = IF k = class THEN l.chat[chat].count[k] + 1
                                       ELSE l.chat[chat].count[k]
      BY <2>2
    <3>3. e = [l.chat[chat] EXCEPT !.count = counts]
      BY <2>2 DEF ChatEntry
    <3> HIDE DEF counts, e
    <3>4. e \in ChatEntry /\ e.cursor = l.chat[chat].cursor /\ e.count = counts
      BY <2>2, <3>1, <3>3 DEF ChatEntry
    <3>5. QED BY <3>2, <3>4
  <2>4. Counted(l) = [l EXCEPT !.chat = [l.chat EXCEPT ![chat] = e]]
    <3>1. Counted(l) = [l EXCEPT !.chat[chat].count[class] = @ + 1]
      BY <1>2 DEF Counted
    <3>2. QED BY <3>1
  <2> HIDE DEF e
  <2>5. [l.chat EXCEPT ![chat] = e] \in [Chat -> ChatEntry]
    BY <2>2, <2>3
  <2>6. /\ Counted(l) \in Ledger /\ Counted(l).today = l.today /\ Counted(l).lane = l.lane
        /\ Counted(l).chat = [l.chat EXCEPT ![chat] = e]
    BY <2>4, <2>5 DEF Ledger
  <2>7. \A c \in Chat : Counted(l).chat[c] = IF c = chat THEN e ELSE l.chat[c]
    BY <2>2, <2>6
  <2>8. QED BY <2>3, <2>6, <2>7, <1>2
<1>3. QED BY <1>1, <1>2

-------------------------------------------------------------------------------
(* What the steps of a pass do to its record.                              *)

\* The parts of a pass that a batch's answer leaves alone, and those that only
\* the answer to a page or a popped plan changes.
SamePage == /\ pass'.top = pass.top /\ pass'.snap = pass.snap /\ pass'.second = pass.second
            /\ pass'.failed = pass.failed /\ pass'.done = pass.done
AskedAs(status) == [lane |-> batch.lane, rows |-> batch.rows, round |-> batch.round,
                    status |-> status]
Answered(status) ==
    /\ pass' \in PassRecord /\ SamePage
    /\ pass'.todo = pass.todo \ {batch} /\ pass'.asked = pass.asked \cup {AskedAs(status)}

LEMMA AssessedOK ==
    ASSUME CycleTypes, pass.todo # {}, NEW status \in {"open", "invalid", "quarantined", "valid"}
    PROVE  /\ Assessed(status) \in PassRecord /\ batch \in pass.todo /\ batch \in Batch
           /\ AskedAs(status) \in Asked
           /\ Assessed(status).todo = pass.todo \ {batch}
           /\ Assessed(status).asked = pass.asked \cup {AskedAs(status)}
           /\ Assessed(status).top = pass.top /\ Assessed(status).snap = pass.snap
           /\ Assessed(status).second = pass.second /\ Assessed(status).calls = pass.calls
           /\ Assessed(status).blocked = pass.blocked /\ Assessed(status).plans = pass.plans
           /\ Assessed(status).demand = pass.demand /\ Assessed(status).done = pass.done
           /\ Assessed(status).deferred = pass.deferred /\ Assessed(status).failed = pass.failed
<1>1. pass \in PassRecord /\ pass.todo \in SUBSET Batch /\ pass.asked \in SUBSET Asked
  BY DEF CycleTypes, PassRecord
<1>2. batch \in pass.todo /\ batch \in Batch
  BY <1>1, NextBatch
<1>3. AskedAs(status) \in Asked
  BY <1>2 DEF AskedAs, Asked, Batch
<1> DEFINE a == [pass EXCEPT !.todo = pass.todo \ {batch}]
<1>4. a \in PassRecord
  BY <1>1 DEF PassRecord
<1>5. Assessed(status) = [a EXCEPT !.asked = pass.asked \cup {AskedAs(status)}]
  BY <1>1 DEF Assessed, AskedAs, PassRecord
<1>6. pass.asked \cup {AskedAs(status)} \in SUBSET Asked
  BY <1>1, <1>3
<1>7. /\ a.todo = pass.todo \ {batch} /\ a.top = pass.top /\ a.snap = pass.snap
      /\ a.second = pass.second /\ a.calls = pass.calls
      /\ a.blocked = pass.blocked /\ a.plans = pass.plans
      /\ a.demand = pass.demand /\ a.done = pass.done
      /\ a.deferred = pass.deferred /\ a.failed = pass.failed
  BY <1>1 DEF PassRecord
<1> HIDE DEF a
<1>8. Assessed(status) \in PassRecord
  BY <1>4, <1>5, <1>6 DEF PassRecord
<1>9. /\ Assessed(status).asked = pass.asked \cup {AskedAs(status)}
      /\ Assessed(status).todo = a.todo /\ Assessed(status).top = a.top
      /\ Assessed(status).snap = a.snap
      /\ Assessed(status).second = a.second /\ Assessed(status).calls = a.calls
      /\ Assessed(status).blocked = a.blocked /\ Assessed(status).plans = a.plans
      /\ Assessed(status).demand = a.demand /\ Assessed(status).done = a.done
      /\ Assessed(status).deferred = a.deferred /\ Assessed(status).failed = a.failed
  BY <1>4, <1>5 DEF PassRecord
<1>10. QED BY <1>2, <1>3, <1>7, <1>8, <1>9

LEMMA PassOverDoes ==
    ASSUME CycleTypes, PassOver
    PROVE  /\ Answered("open") /\ batch \in pass.todo /\ batch \in Batch
           /\ pass'.plans = pass.plans /\ pass'.deferred = pass.deferred
           /\ pass'.demand = pass.demand
<1> DEFINE a == Assessed("open")
           more == IF Silent THEN {batch.lane} ELSE {}
<1>1. pass.todo # {} /\ pass' = [a EXCEPT !.blocked = @ \cup more]
  BY DEF PassOver
<1>2. /\ a \in PassRecord /\ batch \in pass.todo /\ batch \in Batch
      /\ a.todo = pass.todo \ {batch} /\ a.asked = pass.asked \cup {AskedAs("open")}
      /\ a.top = pass.top /\ a.snap = pass.snap /\ a.second = pass.second
      /\ a.plans = pass.plans /\ a.done = pass.done /\ a.deferred = pass.deferred
      /\ a.failed = pass.failed /\ a.blocked = pass.blocked /\ a.demand = pass.demand
  BY <1>1, AssessedOK
<1>3. more \in SUBSET Lane
  BY <1>2 DEF Batch
<1> HIDE DEF a, more
<1>4. a.blocked \cup more \in SUBSET Lane
  BY <1>2, <1>3 DEF PassRecord
<1>5. pass' \in PassRecord
  BY <1>1, <1>2, <1>4 DEF PassRecord
<1>6. /\ pass'.todo = a.todo /\ pass'.asked = a.asked
      /\ pass'.top = a.top /\ pass'.snap = a.snap /\ pass'.second = a.second
      /\ pass'.plans = a.plans /\ pass'.done = a.done /\ pass'.deferred = a.deferred
      /\ pass'.failed = a.failed /\ pass'.demand = a.demand
  BY <1>1, <1>2 DEF PassRecord
<1>7. QED BY <1>2, <1>5, <1>6 DEF Answered, SamePage

LEMMA LaneSet ==
    ASSUME NEW l \in Ledger, NEW x \in Lane, NEW e \in LaneEntry
    PROVE  /\ [l EXCEPT !.lane[x] = e] \in Ledger
           /\ [l EXCEPT !.lane[x] = e].chat = l.chat /\ [l EXCEPT !.lane[x] = e].today = l.today
           /\ \A y \in Lane : [l EXCEPT !.lane[x] = e].lane[y] = IF y = x THEN e ELSE l.lane[y]
<1> DEFINE ls == [l.lane EXCEPT ![x] = e]
           new == [l EXCEPT !.lane[x] = e]
<1>1. l.lane \in [Lane -> LaneEntry]
  BY LedgerParts
<1>2. /\ ls \in [Lane -> LaneEntry]
      /\ \A y \in Lane : ls[y] = IF y = x THEN e ELSE l.lane[y]
  BY <1>1
<1>3. new = [l EXCEPT !.lane = ls]
  OBVIOUS
<1> HIDE DEF ls, new
<1>4. new \in Ledger /\ new.lane = ls /\ new.chat = l.chat /\ new.today = l.today
  BY <1>2, <1>3 DEF Ledger
<1>5. QED BY <1>2, <1>4 DEF new

\* Cursors of the cycle's ledger, and the failures of other lanes, stay.
LaneAnswered ==
    /\ led' \in Ledger /\ led'.chat = led.chat /\ led'.today = led.today
    /\ \A x \in Lane : /\ led'.lane[x].cursor = led.lane[x].cursor
                       /\ x # batch.lane => /\ led'.lane[x].failures = led.lane[x].failures
                                            /\ led'.lane[x].invalid = led.lane[x].invalid

LEMMA AskInvalidDoes ==
    ASSUME CycleTypes, AskInvalid
    PROVE  /\ batch \in pass.todo /\ batch \in Batch
           /\ \E status \in {"invalid", "quarantined"} :
                /\ Answered(status)
                /\ fate' = IF status = "quarantined"
                           THEN [r \in Row |-> IF r \in batch.rows THEN "quarantined" ELSE fate[r]]
                           ELSE fate
           /\ pass'.plans = pass.plans /\ pass'.deferred = pass.deferred
           /\ pass'.demand = pass.demand
           /\ LaneAnswered
           /\ led'.lane[batch.lane].failures =< led.lane[batch.lane].failures + 1
           /\ led'.lane[batch.lane].failures =< MaxInvalid
           /\ led'.lane[batch.lane].invalid
                = IF MaxInvalid =< led.lane[batch.lane].invalid + 1 THEN MaxInvalid
                  ELSE led.lane[batch.lane].invalid + 1
<1> DEFINE n == Min({MaxInvalid, NotedFailure(entry).invalid + 1})
           noted == [NotedFailure(entry) EXCEPT !.invalid = n]
           status == IF noted.failures = MaxInvalid THEN "quarantined" ELSE "invalid"
           a == Assessed(status)
<1>1. /\ pass.todo # {} /\ pc = "decide" /\ ~NoCalls
      /\ led' = [led EXCEPT !.lane[batch.lane] = noted]
      /\ pass' = [a EXCEPT !.calls = @ + 1, !.blocked = @ \cup {batch.lane}]
      /\ fate' = IF noted.failures = MaxInvalid
                 THEN [r \in Row |-> IF r \in batch.rows THEN "quarantined" ELSE fate[r]]
                 ELSE fate
  BY DEF AskInvalid, Ask
<1>2. status \in {"invalid", "quarantined"}
  OBVIOUS
<1>3. fate' = IF status = "quarantined"
              THEN [r \in Row |-> IF r \in batch.rows THEN "quarantined" ELSE fate[r]]
              ELSE fate
  BY <1>1
<1> HIDE DEF status
<1>4. /\ a \in PassRecord /\ batch \in pass.todo /\ batch \in Batch
      /\ a.todo = pass.todo \ {batch} /\ a.asked = pass.asked \cup {AskedAs(status)}
      /\ a.top = pass.top /\ a.snap = pass.snap /\ a.second = pass.second
      /\ a.plans = pass.plans /\ a.done = pass.done /\ a.deferred = pass.deferred
      /\ a.failed = pass.failed /\ a.blocked = pass.blocked /\ a.calls = pass.calls
      /\ a.demand = pass.demand
  BY <1>1, <1>2, AssessedOK
<1>5. batch.lane \in Lane /\ led \in Ledger /\ led.lane[batch.lane] \in LaneEntry
      /\ led.lane[batch.lane].invalid \in Nat
  BY <1>4, LedgerParts DEF Batch, CycleTypes
<1>6. /\ NotedFailure(entry) \in LaneEntry
      /\ NotedFailure(entry).cursor = led.lane[batch.lane].cursor
      /\ NotedFailure(entry).invalid = led.lane[batch.lane].invalid
      /\ NotedFailure(entry).failures =< led.lane[batch.lane].failures + 1
      /\ NotedFailure(entry).failures =< MaxInvalid
  BY <1>5, NotedFailureOK DEF entry
<1>7. n = (IF MaxInvalid =< led.lane[batch.lane].invalid + 1 THEN MaxInvalid
           ELSE led.lane[batch.lane].invalid + 1) /\ n \in Nat
  <2>1. MaxInvalid \in Nat /\ led.lane[batch.lane].invalid + 1 \in Nat
    BY <1>5, Numbers
  <2>2. n = Min({MaxInvalid, led.lane[batch.lane].invalid + 1})
    BY <1>6
  <2> HIDE DEF n
  <2>3. QED BY <2>1, <2>2, SmallerOf
<1> HIDE DEF n
<1>8. /\ noted \in LaneEntry /\ noted.cursor = NotedFailure(entry).cursor /\ noted.invalid = n
      /\ noted.failures = NotedFailure(entry).failures
  BY <1>6, <1>7 DEF LaneEntry
<1> HIDE DEF noted
<1>9. LaneAnswered /\ led'.lane[batch.lane] = noted
  <2>1. led' \in Ledger /\ led'.chat = led.chat /\ led'.today = led.today
        /\ \A y \in Lane : led'.lane[y] = IF y = batch.lane THEN noted ELSE led.lane[y]
    BY <1>1, <1>5, <1>8, LaneSet
  <2>2. QED BY <2>1, <1>5, <1>6, <1>8 DEF LaneAnswered
<1> HIDE DEF a
<1>10. Answered(status) /\ pass'.plans = pass.plans /\ pass'.deferred = pass.deferred
       /\ pass'.demand = pass.demand
  <2> DEFINE b == [a EXCEPT !.calls = a.calls + 1]
  <2>1. a.calls + 1 \in 0..ChatCalls
    BY SMTT(30), <1>1, <1>4, Numbers DEF NoCalls, PassRecord
  <2>2. b \in PassRecord
    BY <1>4, <2>1 DEF PassRecord
  <2>3. pass' = [b EXCEPT !.blocked = a.blocked \cup {batch.lane}]
    BY <1>1, <1>4 DEF PassRecord
  <2>4. a.blocked \cup {batch.lane} \in SUBSET Lane
    BY <1>4, <1>5 DEF PassRecord
  <2>5. /\ b.todo = a.todo /\ b.asked = a.asked
        /\ b.top = a.top /\ b.snap = a.snap /\ b.second = a.second
        /\ b.plans = a.plans /\ b.done = a.done /\ b.deferred = a.deferred
        /\ b.failed = a.failed /\ b.demand = a.demand
    BY <1>4 DEF PassRecord
  <2> HIDE DEF b
  <2>6. pass' \in PassRecord
    BY <2>2, <2>3, <2>4 DEF PassRecord
  <2>7. /\ pass'.todo = b.todo /\ pass'.asked = b.asked
        /\ pass'.top = b.top /\ pass'.snap = b.snap /\ pass'.second = b.second
        /\ pass'.plans = b.plans /\ pass'.done = b.done /\ pass'.deferred = b.deferred
        /\ pass'.failed = b.failed /\ pass'.demand = b.demand
    BY <2>2, <2>3 DEF PassRecord
  <2>8. QED BY <1>4, <2>5, <2>6, <2>7 DEF Answered, SamePage
<1>11. QED BY <1>2, <1>3, <1>4, <1>6, <1>7, <1>8, <1>9, <1>10

\* A valid answer leaves decided plans and messages held to wait.
Judged(decided, held) ==
    /\ decided \in Seq({p \in About(batch.rows) : p.act # "wait"})
    /\ Once(decided) /\ held \in SUBSET batch.rows
    /\ pass'.plans = pass.plans \o decided /\ pass'.deferred = pass.deferred \cup held
    /\ owed' = {o \in owed : o[1] \notin batch.rows} \cup Wanted(decided, held)

LEMMA AskValidDoes ==
    ASSUME CycleTypes, AskValid, \A b \in pass.todo : b.rows # {} /\ b.rows \subseteq 1..arrived
    PROVE  /\ batch \in pass.todo /\ batch \in Batch /\ Answered("valid")
           /\ \E decided, held : Judged(decided, held)
           /\ fate' = [r \in Row |-> IF r \in batch.rows THEN "judged" ELSE fate[r]]
           /\ LaneAnswered
           /\ led'.lane[batch.lane].failures = 0 /\ led'.lane[batch.lane].invalid = 0
           /\ pass.demand \subseteq pass'.demand
<1> DEFINE plans(x) == PlansOf(x)
           quiet == Heard(entry)
           allowed(x) == WithinAutonomy(plans(x), Demand(plans(x)), cycle.proactive)
           held(x) == Held(allowed(x), quiet, batch.rows)
           all(x) == Decided(plans(x), quiet, batch.rows, cycle.proactive)
           decided(x) == Undone(all(x), pass.done)
           after(x) == AfterWait(allowed(x), quiet, batch.rows)
           a == Assessed("valid")
           more(x) == IF held(x) = {} THEN {} ELSE {batch.lane}
<1>1. pass.todo # {} /\ pc = "decide" /\ ~NoCalls
  BY DEF AskValid, Ask
<1>2. PICK x \in AnswersTo(batch.rows) :
         /\ led' = [led EXCEPT !.lane[batch.lane] = after(x)]
         /\ pass' = [a EXCEPT !.calls = @ + 1, !.plans = @ \o decided(x),
                              !.demand = @ \cup Demand(plans(x)),
                              !.deferred = @ \cup held(x), !.blocked = @ \cup more(x)]
         /\ fate' = [r \in Row |-> IF r \in batch.rows THEN "judged" ELSE fate[r]]
         /\ owed' = {o \in owed : o[1] \notin batch.rows} \cup Wanted(decided(x), held(x))
  BY DEF AskValid
<1>3. /\ a \in PassRecord /\ batch \in pass.todo /\ batch \in Batch
      /\ a.todo = pass.todo \ {batch} /\ a.asked = pass.asked \cup {AskedAs("valid")}
      /\ a.top = pass.top /\ a.snap = pass.snap /\ a.second = pass.second
      /\ a.plans = pass.plans /\ a.done = pass.done /\ a.deferred = pass.deferred
      /\ a.failed = pass.failed /\ a.blocked = pass.blocked /\ a.calls = pass.calls
      /\ a.demand = pass.demand
  BY <1>1, AssessedOK
<1>4. batch.lane \in Lane /\ led \in Ledger /\ entry \in LaneEntry /\ batch.rows \in SUBSET Row
      /\ batch.rows # {} /\ batch.rows \in SUBSET (1..arrived)
      /\ entry.cursor = led.lane[batch.lane].cursor
  BY <1>3, LedgerParts DEF Batch, CycleTypes, entry
<1>5. plans(x) \in Seq(About(batch.rows)) /\ OneEach(plans(x))
  BY <1>4, AnswerPlans
<1> HIDE DEF plans
<1>6. /\ quiet \in LaneEntry /\ quiet.cursor = entry.cursor
      /\ quiet.failures = 0 /\ quiet.invalid = 0
  BY <1>4, HeardOK
<1> HIDE DEF quiet
<1>7. allowed(x) \in Seq(About(batch.rows))
  BY <1>5, AutonomyKeeps
<1> HIDE DEF allowed
<1>8. /\ after(x) \in LaneEntry /\ held(x) \in SUBSET batch.rows
      /\ after(x).cursor = entry.cursor /\ after(x).failures = 0 /\ after(x).invalid = 0
  BY <1>4, <1>6, <1>7, AfterWaitOK
<1>9. /\ decided(x) \in Seq({p \in About(batch.rows) : p.act # "wait"})
      /\ Once(decided(x))
  <2>1. all(x) \in Seq({p \in About(batch.rows) : p.act # "wait"})
    BY <1>5, AboutClosed, DecidedKeeps
  <2>2. Once(decided(x))
    BY <1>5, AboutClosed, DecidedOnce
  <2> HIDE DEF all
  <2>3. decided(x) \in Seq({p \in About(batch.rows) : p.act # "wait"})
    BY <2>1, UndoneKeeps
  <2>4. QED BY <2>2, <2>3
<1>10. Demand(plans(x)) \in SUBSET Row
  BY PolicyAssumption DEF Demand
<1> HIDE DEF after, held, decided, a
<1>11. LaneAnswered /\ led'.lane[batch.lane] = after(x)
  <2>1. led' \in Ledger /\ led'.chat = led.chat /\ led'.today = led.today
        /\ \A y \in Lane : led'.lane[y] = IF y = batch.lane THEN after(x) ELSE led.lane[y]
    BY <1>2, <1>4, <1>8, LaneSet
  <2>2. QED BY <2>1, <1>4, <1>8 DEF LaneAnswered
<1>12. /\ Answered("valid") /\ pass'.plans = pass.plans \o decided(x)
       /\ pass'.deferred = pass.deferred \cup held(x)
       /\ pass'.demand = pass.demand \cup Demand(plans(x))
  <2> DEFINE b == [a EXCEPT !.calls = a.calls + 1]
             c == [b EXCEPT !.plans = a.plans \o decided(x)]
             d == [c EXCEPT !.demand = a.demand \cup Demand(plans(x))]
             e == [d EXCEPT !.deferred = a.deferred \cup held(x)]
  <2>1. /\ a.calls + 1 \in 0..ChatCalls /\ a.plans \o decided(x) \in Seq(Plan)
        /\ a.demand \cup Demand(plans(x)) \in SUBSET Row
        /\ a.deferred \cup held(x) \in SUBSET Row /\ a.blocked \cup more(x) \in SUBSET Lane
    <3>1. a.calls + 1 \in 0..ChatCalls
      <4> HIDE DEF b, c, d, e
      <4>1. a.calls \in 0..ChatCalls
        BY <1>3 DEF PassRecord
      <4>2. ~(a.calls >= ChatCalls)
        BY <1>1, <1>3 DEF NoCalls
      <4>3. QED BY <4>1, <4>2, Numbers
    <3>2. a.plans \in Seq(Plan) /\ a.demand \in SUBSET Row /\ a.deferred \in SUBSET Row
          /\ a.blocked \in SUBSET Lane
      BY <1>3 DEF PassRecord
    <3>3. decided(x) \in Seq(Plan)
      <4>1. {p \in About(batch.rows) : p.act # "wait"} \subseteq Plan
        BY DEF About
      <4>2. QED BY <4>1, <1>9, SeqMonotonic
    <3>4. a.plans \o decided(x) \in Seq(Plan)
      BY <3>2, <3>3, ConcatProperties
    <3>5. QED BY <3>1, <3>2, <3>4, <1>4, <1>8, <1>10
  <2>2. pass' = [e EXCEPT !.blocked = a.blocked \cup more(x)]
    BY <1>2, <1>3 DEF PassRecord
  <2> DEFINE kept(p) == /\ p \in PassRecord /\ p.todo = a.todo /\ p.asked = a.asked
                        /\ p.top = a.top /\ p.snap = a.snap /\ p.second = a.second
                        /\ p.done = a.done /\ p.failed = a.failed
  <2>3. kept(b) /\ b.plans = a.plans /\ b.demand = a.demand /\ b.deferred = a.deferred
    BY <1>3, <2>1 DEF PassRecord
  <2> HIDE DEF b, more
  <2>4. kept(c) /\ c.plans = a.plans \o decided(x) /\ c.demand = a.demand
        /\ c.deferred = a.deferred
    BY <2>1, <2>3 DEF PassRecord
  <2> HIDE DEF c
  <2>5. kept(d) /\ d.plans = a.plans \o decided(x)
        /\ d.demand = a.demand \cup Demand(plans(x)) /\ d.deferred = a.deferred
    BY <2>1, <2>4 DEF PassRecord
  <2> HIDE DEF d
  <2>6. kept(e) /\ e.plans = a.plans \o decided(x)
        /\ e.demand = a.demand \cup Demand(plans(x)) /\ e.deferred = a.deferred \cup held(x)
    BY <2>1, <2>5 DEF PassRecord
  <2> HIDE DEF e
  <2>7. kept(pass') /\ pass'.plans = a.plans \o decided(x)
        /\ pass'.demand = a.demand \cup Demand(plans(x))
        /\ pass'.deferred = a.deferred \cup held(x)
    BY <2>1, <2>2, <2>6 DEF PassRecord
  <2>8. QED BY <1>3, <2>7 DEF Answered, SamePage
<1>13. Judged(decided(x), held(x))
  BY <1>2, <1>8, <1>9, <1>12 DEF Judged
<1>14. QED BY <1>2, <1>3, <1>8, <1>11, <1>12, <1>13

LEMMA HeadTail ==
    ASSUME NEW T, NEW s \in Seq(T), s # <<>>
    PROVE  /\ Head(s) \in T /\ Tail(s) \in Seq(T) /\ Head(s) \in ToSet(s)
           /\ ToSet(s) = {Head(s)} \cup ToSet(Tail(s))
<1>1. /\ Head(s) \in T /\ Tail(s) \in Seq(T) /\ Len(Tail(s)) = Len(s) - 1
      /\ \A i \in 1..Len(Tail(s)) : Tail(s)[i] = s[i + 1]
  BY HeadTailProperties
<1>2. /\ Len(s) \in Nat /\ Len(s) # 0 /\ ToSet(s) = {s[i] : i \in 1..Len(s)}
  BY Elements, EmptySeq
<1>3. ToSet(Tail(s)) = {Tail(s)[i] : i \in 1..Len(Tail(s))}
  BY <1>1, Elements
<1>4. Head(s) = s[1] /\ 1 \in 1..Len(s)
  BY <1>2
<1>5. ASSUME NEW x \in ToSet(s) PROVE x \in {Head(s)} \cup ToSet(Tail(s))
  <2>1. PICK i \in 1..Len(s) : x = s[i]
    BY <1>2
  <2>2. CASE i = 1
    BY <2>1, <2>2, <1>4
  <2>3. CASE i # 1
    <3>1. i - 1 \in 1..Len(Tail(s)) /\ i - 1 + 1 = i
      BY <2>1, <2>3, <1>1, <1>2
    <3>2. Tail(s)[i - 1] = x
      BY <3>1, <2>1, <1>1
    <3>3. QED BY <3>1, <3>2, <1>3
  <2>4. QED BY <2>2, <2>3
<1>6. ASSUME NEW x \in ToSet(Tail(s)) PROVE x \in ToSet(s)
  <2>1. PICK i \in 1..Len(Tail(s)) : x = Tail(s)[i]
    BY <1>3
  <2>2. i + 1 \in 1..Len(s)
    BY <1>1, <1>2
  <2>3. QED BY <2>1, <2>2, <1>1, <1>2
<1>7. Head(s) \in ToSet(s)
  BY <1>2, <1>4
<1>8. QED BY <1>1, <1>5, <1>6, <1>7

\* The plan at the head is done with: applied, parked or missed.
SameScene == /\ pass'.todo = pass.todo /\ pass'.asked = pass.asked /\ pass'.top = pass.top
             /\ pass'.snap = pass.snap /\ pass'.demand = pass.demand
Popped ==
    /\ pass' \in PassRecord /\ SameScene /\ pass'.second = pass.second
    /\ pass'.done = pass.done /\ pass'.plans = Tail(pass.plans)
    /\ pass'.deferred \in {pass.deferred, pass.deferred \cup {plan.row}}
    /\ pass'.failed \in {pass.failed, pass.failed \cup {plan.row}}

LEMMA PopOK ==
    ASSUME CycleTypes, pass.plans # <<>>, pass' \in {Pop, Park, Missed}
    PROVE  /\ Popped
           /\ pass' = Park => plan.row \in pass'.deferred
           /\ pass' = Missed => plan.row \in pass'.failed
<1>1. pass \in PassRecord /\ pass.plans \in Seq(Plan)
  BY DEF CycleTypes, PassRecord
<1>2. plan \in Plan /\ Tail(pass.plans) \in Seq(Plan) /\ plan.row \in Row
  <2>1. plan \in Plan /\ Tail(pass.plans) \in Seq(Plan)
    BY <1>1, HeadTail DEF plan
  <2>2. QED BY <2>1 DEF Plan
<1>3. /\ Pop \in PassRecord /\ Pop.plans = Tail(pass.plans)
      /\ Pop.todo = pass.todo /\ Pop.asked = pass.asked /\ Pop.top = pass.top
      /\ Pop.snap = pass.snap /\ Pop.second = pass.second /\ Pop.done = pass.done
      /\ Pop.demand = pass.demand
      /\ Pop.deferred = pass.deferred /\ Pop.failed = pass.failed
  BY <1>1, <1>2 DEF Pop, PassRecord
<1>4. Park = [Pop EXCEPT !.deferred = pass.deferred \cup {plan.row}]
  BY <1>3 DEF Park
<1>5. Missed = [Pop EXCEPT !.failed = pass.failed \cup {plan.row}]
  BY <1>3 DEF Missed
<1>6. pass.deferred \cup {plan.row} \in SUBSET Row /\ pass.failed \cup {plan.row} \in SUBSET Row
  BY <1>1, <1>2 DEF PassRecord
<1>7. /\ Park \in PassRecord /\ Park.plans = Pop.plans
      /\ Park.todo = Pop.todo /\ Park.asked = Pop.asked /\ Park.top = Pop.top
      /\ Park.snap = Pop.snap /\ Park.second = Pop.second /\ Park.done = Pop.done
      /\ Park.demand = Pop.demand
      /\ Park.deferred = pass.deferred \cup {plan.row} /\ Park.failed = Pop.failed
  BY <1>3, <1>4, <1>6 DEF PassRecord
<1>8. /\ Missed \in PassRecord /\ Missed.plans = Pop.plans
      /\ Missed.todo = Pop.todo /\ Missed.asked = Pop.asked /\ Missed.top = Pop.top
      /\ Missed.snap = Pop.snap /\ Missed.second = Pop.second /\ Missed.done = Pop.done
      /\ Missed.demand = Pop.demand
      /\ Missed.deferred = Pop.deferred /\ Missed.failed = pass.failed \cup {plan.row}
  BY <1>3, <1>5, <1>6 DEF PassRecord
<1>9. CASE pass' = Pop
  BY <1>3, <1>7, <1>8, <1>9 DEF Popped, SameScene
<1>10. CASE pass' = Park
  BY <1>3, <1>7, <1>8, <1>10 DEF Popped, SameScene
<1>11. CASE pass' = Missed
  BY <1>3, <1>7, <1>8, <1>11 DEF Popped, SameScene
<1>12. QED BY <1>9, <1>10, <1>11

LEMMA ActiveClosed == ASSUME NEW T, Closed(T) PROVE Closed(Active(T))
<1>1. \A p \in T : Noted(p) => Companion(p) \in Active(T)
  <2>1. ASSUME NEW p \in T, Noted(p) PROVE Companion(p) \in Active(T)
    <3>1. Companion(p) \in T /\ p \in Plan
      BY <2>1 DEF Closed
    <3>2. Companion(p).act = NoteOf(p)
      BY <3>1 DEF Companion, Plan
    <3>3. QED BY <3>1, <3>2 DEF NoteOf, Active
  <2>2. QED BY <2>1
<1>2. \A p \in Plan : /\ [p EXCEPT !.act = "delegate"].act = "delegate"
                      /\ [p EXCEPT !.act = "reply"].act = "reply"
                      /\ [p EXCEPT !.act = "reply", !.text = "short"].act = "reply"
  BY DEF Plan
<1>3. \A p \in T : p.act = "reply" => [p EXCEPT !.act = "delegate"] \in Active(T)
  BY <1>2 DEF Closed, Active
<1>4. \A p \in T : p.act \in {"reply", "delegate"} =>
         /\ p.text = "short" => [p EXCEPT !.act = "reply"] \in Active(T)
         /\ [p EXCEPT !.act = "reply", !.text = "short"] \in Active(T)
  BY <1>2 DEF Closed, Active
<1>5. Active(T) \subseteq T
  BY DEF Active
<1>6. QED BY <1>1, <1>3, <1>4, <1>5 DEF Closed

\* What is given up is due no more.
LEMMA GiveUpDoes ==
    ASSUME CycleTypes, NEW A, NEW why \in GivenUp, GiveUp(A, why)
    PROVE  /\ owed' \subseteq Row \X (Kind \cup {"wait"} \cup GivenUp)
           /\ Due' \subseteq Due \ A
<1>1. owed' = (owed \ A) \cup {<<a[1], why>> : a \in owed \cap A}
  BY DEF GiveUp
<1>2. owed \subseteq Row \X (Kind \cup {"wait"} \cup GivenUp)
  BY DEF CycleTypes
<1>3. ASSUME NEW o \in owed' PROVE o \in owed \ A \/ (o[1] \in Row /\ o = <<o[1], why>>)
  <2>1. CASE o \in owed \ A
    BY <2>1
  <2>2. CASE o \in {<<a[1], why>> : a \in owed \cap A}
    <3>1. PICK a \in owed \cap A : o = <<a[1], why>>
      BY <2>2
    <3>2. a[1] \in Row
      BY <1>2
    <3>3. QED BY <3>1, <3>2
  <2>3. QED BY <1>1, <1>3, <2>1, <2>2
<1>4. owed' \subseteq Row \X (Kind \cup {"wait"} \cup GivenUp)
  BY <1>2, <1>3
<1>5. ASSUME NEW o \in owed', o[2] \notin GivenUp PROVE o \in owed \ A
  <2>1. CASE o = <<o[1], why>>
    <3>1. o[2] = why
      BY <2>1
    <3>2. QED BY <3>1, <1>5
  <2>2. QED BY <1>3, <1>5, <2>1
<1>6. QED BY <1>4, <1>5 DEF Due

\* Validation keeps to the messages of the plans, and to lanes that did not change;
\* each plan goes on, or its message is deferred, or it is given up.
LEMMA ValidatedDoes ==
    ASSUME CycleTypes, NEW failing, NEW lanes, Validated(failing, lanes),
           NEW R \in SUBSET Row, \A p \in ToSet(pass.plans) : p.row \in R
    PROVE  /\ pass' \in PassRecord /\ SameScene /\ pass'.second = arrived
           /\ pass'.done = pass.done /\ pass'.failed = pass.failed
           /\ pass.deferred \subseteq pass'.deferred
           /\ pass'.plans \in Seq(Applicable)
           /\ Once(pass.plans) => Once(pass'.plans)
           /\ owed' \subseteq Row \X (Kind \cup {"wait"} \cup GivenUp) /\ Due' \subseteq Due
           /\ \A p \in ToSet(pass'.plans) : p.row \in R /\ LaneOf(p.row) \notin lanes
           /\ \A q \in ToSet(pass.plans) : q.act \notin {"ignore", "wait"} =>
                 \/ q.row \in pass'.deferred \/ KeyOf(q) \notin Due'
                 \/ \E p \in ToSet(pass'.plans) : p.row = q.row /\ KindOf(p) = KindOf(q)
<1> DEFINE T == About(R)
           admitted == Admit(pass.plans, pass.demand)
           plans == Composed(admitted.out, failing)
           new == Revalidated(plans, lanes)
           deferred == pass.deferred \cup (admitted.deferred \cup Undrafted(admitted.out, failing)
                                                             \cup Stale(plans, lanes))
           places == {i \in DOMAIN plans : LaneOf(plans[i].row) \notin lanes}
<1>1. pass \in PassRecord /\ pass.plans \in Seq(Plan) /\ arrived \in 0..Rows
  BY ScriptFacts DEF CycleTypes, PassRecord
<1>2. pass.plans \in Seq(T) /\ Closed(T)
  <2>1. ToSet(pass.plans) \subseteq T
    BY <1>1, Elements DEF About
  <2>2. QED BY <2>1, <1>1, SeqOfSome, AboutClosed
<1>3. pass' = [pass EXCEPT !.plans = new, !.second = arrived, !.deferred = deferred]
  <2>1. pass' = [pass EXCEPT !.plans = new, !.second = arrived,
                             !.deferred = @ \cup admitted.deferred
                                            \cup Undrafted(admitted.out, failing)
                                            \cup Stale(plans, lanes)]
    BY DEF Validated
  <2>2. QED BY <2>1
<1> HIDE DEF T
<1>4. /\ admitted \in Acc(Active(T), R)
      /\ \A p \in ToSet(pass.plans) : Handled(p, admitted)
      /\ Once(pass.plans) => Once(admitted.out)
  <2>1. \A p \in ToSet(pass.plans) : p.row \in R
    OBVIOUS
  <2>2. QED BY <1>2, <2>1, AdmitKeeps
<1> DEFINE refused == admitted.refused \X {"reply"}
<1>20. /\ owed' \subseteq Row \X (Kind \cup {"wait"} \cup GivenUp)
       /\ Due' \subseteq Due \ refused
  <2>1. GiveUp(refused, "unfit") /\ "unfit" \in GivenUp
    BY DEF Validated, GivenUp
  <2> HIDE DEF refused
  <2>2. QED BY <2>1, GiveUpDoes
<1> HIDE DEF admitted
<1>5. admitted.out \in Seq(Active(T)) /\ admitted.deferred \in SUBSET R
  BY <1>4 DEF Acc
<1>6. Closed(Active(T))
  BY <1>2, ActiveClosed
<1>7. /\ plans \in Seq({p \in Active(T) : p.act # "delegate"})
      /\ \A q \in ToSet(admitted.out) : q.row \in Undrafted(admitted.out, failing)
            \/ \E p \in ToSet(plans) : p.row = q.row /\ KindOf(p) = KindOf(q)
      /\ \A r \in Undrafted(admitted.out, failing) : \E q \in ToSet(admitted.out) : r = q.row
  BY <1>5, <1>6, ComposedKeeps
<1>21. Once(pass.plans) => Once(plans)
  BY <1>4, <1>5, <1>6, ComposedOnce
<1> HIDE DEF plans
<1>8. {p \in Active(T) : p.act # "delegate"} \subseteq Applicable
      /\ Active(T) \subseteq T /\ \A p \in T : p.row \in R
  BY DEF Active, Applicable, T, About, Plan, Action, Outward, Kind
<1>9. plans \in Seq(Applicable)
  BY <1>7, <1>8, SeqMonotonic
<1>10. /\ \A p \in ToSet(plans) : p.row \in R
       /\ ToSet(plans) = {plans[i] : i \in 1..Len(plans)} /\ DOMAIN plans = 1..Len(plans)
  BY <1>7, <1>8, Elements
<1>11. places \in SUBSET (1..Len(plans))
  BY <1>10
<1>12. new \in Seq(Applicable) /\ ToSet(new) = {plans[i] : i \in places}
  BY <1>9, <1>11, TakenFrom DEF Revalidated
<1>22. Once(pass.plans) => Once(new)
  BY <1>9, <1>11, <1>21, TakenOnce DEF Revalidated
<1>13. deferred \in SUBSET Row
  <2>1. Undrafted(admitted.out, failing) \in SUBSET R
    <3>1. \A q \in ToSet(admitted.out) : q.row \in R
      BY <1>5, <1>8, Elements
    <3>2. QED BY <3>1, <1>7
  <2>2. Stale(plans, lanes) \in SUBSET R
    BY <1>10 DEF Stale
  <2>3. pass.deferred \in SUBSET Row
    BY <1>1 DEF PassRecord
  <2>4. QED BY <2>1, <2>2, <2>3, <1>5
<1>14. \A p \in ToSet(plans) : p \in ToSet(new) \/ p.row \in Stale(plans, lanes)
  <2>1. ASSUME NEW p \in ToSet(plans), p.row \notin Stale(plans, lanes) PROVE p \in ToSet(new)
    <3>1. PICK i \in 1..Len(plans) : p = plans[i]
      BY <1>10
    <3>2. LaneOf(p.row) \notin lanes
      BY <2>1 DEF Stale
    <3>3. i \in places
      BY <3>1, <3>2, <1>10
    <3>4. QED BY <3>1, <3>3, <1>12
  <2>2. QED BY <2>1
<1>15. \A p \in ToSet(new) : p \in ToSet(plans) /\ LaneOf(p.row) \notin lanes
  BY <1>10, <1>12
<1> HIDE DEF new, deferred, places
<1>16. /\ pass' \in PassRecord /\ SameScene /\ pass'.second = arrived
       /\ pass'.done = pass.done /\ pass'.failed = pass.failed
       /\ pass'.plans = new /\ pass'.deferred = deferred
  <2> DEFINE a == [pass EXCEPT !.plans = new]
             b == [a EXCEPT !.second = arrived]
  <2>1. new \in Seq(Plan)
    <3>1. Applicable \subseteq Plan
      BY DEF Applicable
    <3>2. QED BY <3>1, <1>12, SeqMonotonic
  <2>2. pass' = [b EXCEPT !.deferred = deferred]
    BY <1>3
  <2> DEFINE kept(p) == /\ p \in PassRecord /\ p.plans = new
                        /\ p.todo = pass.todo /\ p.asked = pass.asked /\ p.top = pass.top
                        /\ p.snap = pass.snap /\ p.demand = pass.demand
                        /\ p.done = pass.done /\ p.failed = pass.failed
  <2>3. kept(a)
    BY <1>1, <2>1 DEF PassRecord
  <2> HIDE DEF a
  <2>4. kept(b) /\ b.second = arrived
    BY <1>1, <2>3 DEF PassRecord
  <2> HIDE DEF b
  <2>5. kept(pass') /\ pass'.second = arrived /\ pass'.deferred = deferred
    BY <1>13, <2>2, <2>4 DEF PassRecord
  <2>6. QED BY <2>5 DEF SameScene
<1>17. pass.deferred \subseteq deferred
  BY DEF deferred
<1>18. ASSUME NEW q \in ToSet(pass.plans), q.act \notin {"ignore", "wait"},
              KeyOf(q) \in Due'
       PROVE  \/ q.row \in deferred
              \/ \E p \in ToSet(new) : p.row = q.row /\ KindOf(p) = KindOf(q)
  <2>0. KeyOf(q) \notin refused
    BY <1>18, <1>20
  <2>1. q.row \in admitted.deferred
        \/ \E o \in ToSet(admitted.out) : o.row = q.row /\ KindOf(o) = KindOf(q)
    <3>1. q.row \in admitted.deferred \/ \E o \in ToSet(admitted.out) : KeyOf(o) = KeyOf(q)
      BY <1>4, <1>18, <2>0 DEF Handled
    <3>2. \A o : KeyOf(o) = KeyOf(q) => o.row = q.row /\ KindOf(o) = KindOf(q)
      BY DEF KeyOf
    <3>3. QED BY <3>1, <3>2
  <2>2. CASE q.row \in admitted.deferred
    BY <2>2 DEF deferred
  <2>3. CASE \E o \in ToSet(admitted.out) : o.row = q.row /\ KindOf(o) = KindOf(q)
    <3>1. PICK o \in ToSet(admitted.out) : o.row = q.row /\ KindOf(o) = KindOf(q)
      BY <2>3
    <3>2. o.row \in Undrafted(admitted.out, failing)
          \/ \E p \in ToSet(plans) : p.row = o.row /\ KindOf(p) = KindOf(o)
      BY <3>1, <1>7
    <3>3. QED BY <3>1, <3>2, <1>14 DEF deferred
  <2>4. QED BY <2>1, <2>2, <2>3
<1>19. QED BY <1>10, <1>12, <1>15, <1>16, <1>17, <1>18, <1>20, <1>22

LEMMA ChatFacts ==
    ASSUME CycleTypes, cycle.queue # <<>>
    PROVE  chat \in Chat /\ [cycle EXCEPT !.queue = Tail(@)] \in CycleRecord
<1>1. cycle \in CycleRecord /\ cycle.queue \in Seq(Chat)
  BY DEF CycleTypes, CycleRecord
<1>2. chat \in Chat /\ Tail(cycle.queue) \in Seq(Chat)
  BY <1>1, HeadTail DEF chat
<1>3. QED BY <1>1, <1>2 DEF CycleRecord

LEMMA NoPassOK == NoPass \in PassRecord
<1>1. <<>> \in Seq(Plan)
  BY EmptySeq
<1>2. QED BY <1>1, Numbers DEF NoPass, PassRecord

LEMMA NoCycleOK == NoCycle \in CycleRecord
<1>1. <<>> \in Seq(Chat)
  BY EmptySeq
<1>2. QED BY <1>1, Numbers DEF NoCycle, CycleRecord

LEMMA FetchDoes ==
    ASSUME CycleTypes, Fetch
    PROVE  /\ chat \in Chat /\ pass' \in PassRecord /\ pass'.todo = Batches(Fresh) /\ pass'.asked = {}
           /\ pass'.plans = <<>> /\ pass'.deferred = {} /\ pass'.failed = {}
           /\ \/ pass'.done = log /\ spent' = spent
              \/ Spend("read")
           /\ pass'.snap = arrived /\ pass'.top \in Page(led.chat[chat].cursor)
           /\ \A r \in Page(led.chat[chat].cursor) : r =< pass'.top
           /\ Fresh \in SUBSET Row /\ Batches(Fresh) \in SUBSET Batch
           /\ \A r \in Fresh : LaneOf(r) \in Lane
<1> DEFINE page == Page(led.chat[chat].cursor)
           top == Max(page)
<1>0. PICK done \in SUBSET log : pass' = PassWith(done)
                                 /\ (\/ done = log /\ spent' = spent
                                     \/ Spend("read"))
  BY DEF Fetch, Completed
<1>1. /\ cycle.queue # <<>> /\ Fresh # {}
      /\ pass' = [NoPass EXCEPT !.top = top, !.snap = arrived, !.todo = Batches(Fresh),
                               !.done = done]
  BY <1>0 DEF Fetch, PassWith
<1>2. chat \in Chat
  BY <1>1, ChatFacts
<1>3. page \subseteq 1..arrived /\ Fresh \subseteq page
  BY <1>2, FreshFacts
<1>4. arrived \in 0..Rows /\ \A r \in 1..arrived : r \in Row /\ LaneOf(r) \in Lane
  BY ScriptFacts
<1>5. Fresh \in SUBSET Row /\ \A r \in Fresh : LaneOf(r) \in Lane
  BY <1>3, <1>4
<1>6. Batches(Fresh) \in SUBSET Batch
  BY <1>5, BatchFacts
<1>7. top \in page /\ \A r \in page : r =< top
  <2>1. page \in SUBSET (Unset..Rows) /\ page # {}
    BY <1>1, <1>3, <1>4, Numbers DEF Unset
  <2> HIDE DEF page
  <2>2. QED BY <2>1, MaxRow
<1>8. top \in 0..Rows
  BY <1>3, <1>4, <1>7, Numbers
<1>9. done \subseteq Key
  BY DEF CycleTypes
<1> HIDE DEF top
<1>10. /\ pass' \in PassRecord /\ pass'.todo = Batches(Fresh) /\ pass'.asked = {}
       /\ pass'.plans = <<>> /\ pass'.deferred = {} /\ pass'.failed = {}
       /\ pass'.done = done /\ pass'.snap = arrived /\ pass'.top = top
  <2> DEFINE a == [NoPass EXCEPT !.top = top]
             b == [a EXCEPT !.snap = arrived]
             c == [b EXCEPT !.todo = Batches(Fresh)]
             empty(p) == /\ p \in PassRecord /\ p.asked = {} /\ p.plans = <<>>
                         /\ p.deferred = {} /\ p.failed = {}
  <2>1. pass' = [c EXCEPT !.done = done]
    BY <1>1
  <2>2. empty(NoPass)
    BY NoPassOK DEF NoPass
  <2>3. empty(a) /\ a.top = top
    BY <1>8, <2>2 DEF PassRecord
  <2> HIDE DEF a
  <2>4. empty(b) /\ b.top = top /\ b.snap = arrived
    BY <1>4, <2>3 DEF PassRecord
  <2> HIDE DEF b
  <2>5. empty(c) /\ c.top = top /\ c.snap = arrived /\ c.todo = Batches(Fresh)
    BY <1>6, <2>4 DEF PassRecord
  <2> HIDE DEF c
  <2>6. empty(pass') /\ pass'.top = top /\ pass'.snap = arrived /\ pass'.todo = Batches(Fresh)
        /\ pass'.done = done
    BY <1>9, <2>1, <2>5 DEF PassRecord
  <2>7. QED BY <2>6
<1>11. QED BY <1>0, <1>2, <1>5, <1>6, <1>7, <1>10

-------------------------------------------------------------------------------
(* The types and the shape of a pass are invariant.                        *)

LEMMA NextChatKeeps ==
    ASSUME CycleTypes, cycle.queue # <<>>, NEW l \in Ledger, NextChat(l),
           spent' \in [Fault -> Nat], \A f \in Fault : spent'[f] =< script.faults[f]
    PROVE  CycleInv'
<1>1. led' \in Ledger /\ pass' \in PassRecord /\ cycle' \in CycleRecord
  BY NoPassOK, ChatFacts DEF NextChat
<1>2. CycleTypes'
  BY <1>1 DEF NextChat, CycleTypes, history
<1>3. PassShape'
  BY DEF NextChat, PassShape
<1>4. QED BY <1>2, <1>3 DEF CycleInv

LEMMA SpendKeeps ==
    ASSUME CycleTypes, NEW f \in Fault, Spend(f)
    PROVE  /\ spent' \in [Fault -> Nat] /\ \A g \in Fault : spent'[g] =< script.faults[g]
           /\ \A g \in Fault : spent'[g] = IF g = f THEN spent[g] + 1 ELSE spent[g]
<1>1. spent \in [Fault -> Nat] /\ script.faults \in [Fault -> Nat]
      /\ \A g \in Fault : spent[g] =< script.faults[g]
  BY ScriptFacts DEF CycleTypes
<1>2. spent' = [spent EXCEPT ![f] = spent[f] + 1] /\ spent[f] < script.faults[f]
  BY DEF Spend
<1>3. \A g \in Fault : spent'[g] = IF g = f THEN spent[g] + 1 ELSE spent[g]
  BY <1>1, <1>2
<1>4. spent' \in [Fault -> Nat]
  BY <1>1, <1>2
<1>5. \A n, m \in Nat : n < m => n + 1 =< m
  OBVIOUS
<1>6. spent[f] + 1 =< script.faults[f]
  BY <1>1, <1>2, <1>5
<1>7. QED BY <1>1, <1>3, <1>4, <1>6

LEMMA InitHolds == Init => CycleInv
<1> SUFFICES ASSUME Init PROVE CycleInv
  OBVIOUS
<1>1. script \in Scripts /\ arrived = 0 /\ saved = NewLedger /\ led = NewLedger /\ pc = "idle"
      /\ cycle = NoCycle /\ pass = NoPass
  BY DEF Init
<1>2. Len(script.floor) \in Nat /\ script.faults \in [Fault -> Nat]
  <2>1. script \in Script
    BY <1>1, CycleAssumption
  <2>2. script.floor \in Seq(Lane) /\ script.faults \in [Fault -> Nat]
    BY <2>1 DEF Script
  <2>3. QED BY <2>2, Elements
<1>3. outbox \in [Key -> OutboxEntry]
      /\ \A a \in Key : outbox[a].state \in {"none", "queued"} => outbox[a].tries < MaxAttempts
  <2>1. outbox = [a \in Key |-> [state |-> "none", tries |-> 0]]
    BY DEF Init
  <2>2. [state |-> "none", tries |-> 0] \in OutboxEntry /\ 0 < MaxAttempts
    BY Numbers DEF OutboxEntry
  <2>3. QED BY <2>1, <2>2
<1>4. /\ log \subseteq Key /\ owed \subseteq Row \X (Kind \cup {"wait"} \cup GivenUp)
      /\ fate \in [Row -> {"unread", "judged", "quarantined"}]
      /\ told \in [Key -> Nat]
      /\ posted \subseteq Row \X Class \X (1..MaxAttempts) /\ doubted \subseteq posted
      /\ spent \in [Fault -> Nat] /\ \A f \in Fault : spent[f] =< script.faults[f]
  BY <1>2 DEF Init
<1>5. CycleTypes
  BY <1>1, <1>2, <1>3, <1>4, NewLedgerOK, NoPassOK, NoCycleOK DEF CycleTypes
<1>6. PassShape
  BY <1>1 DEF PassShape
<1>7. QED BY <1>5, <1>6 DEF CycleInv

\* Steps that stay in a pass keep its scene.
LEMMA SceneFrame ==
    ASSUME CycleTypes, script' = script, arrived' \in {arrived, arrived + 1},
           cycle'.queue = cycle.queue, pass'.top = pass.top
    PROVE  /\ \A b : InScene(b) => InScene(b)'
           /\ chat' = chat /\ 1..arrived \subseteq 1..arrived'
           /\ \A r : LaneOf(r)' = LaneOf(r) /\ ChatOf(r)' = ChatOf(r)
<1>1. /\ chat' = chat /\ \A r : LaneOf(r)' = LaneOf(r) /\ ChatOf(r)' = ChatOf(r)
  BY DEF chat, LaneOf, ChatOf
<1>2. 1..arrived \subseteq 1..arrived'
  <2>1. arrived \in Nat
    BY ScriptFacts
  <2>2. 1..arrived \subseteq 1..arrived + 1
    BY <2>1
  <2>3. QED BY <2>2
<1>3. QED BY <1>1, <1>2 DEF InScene

LEMMA PlansFrame ==
    ASSUME CycleTypes, script' = script, arrived' \in {arrived, arrived + 1},
           cycle'.queue = cycle.queue, pass'.top = pass.top, PlansInScene,
           pass'.plans = pass.plans, pc' \in {"apply", "log"} => pc \in {"apply", "log"}
    PROVE  PlansInScene'
BY SceneFrame DEF PlansInScene

LEMMA ArriveKeeps == ASSUME CycleInv, Arrive PROVE CycleInv'
<1>1. arrived < Len(script.floor) /\ arrived' = arrived + 1
      /\ UNCHANGED <<script, saved, led, work, outbox, log, history, spent>>
  BY DEF Arrive
<1>2. CycleTypes'
  <2>1. script.floor \in Seq(Lane)
    BY CycleAssumption DEF CycleInv, CycleTypes, Script
  <2>2. Len(script.floor) \in Nat
    BY <2>1, Elements
  <2>3. arrived' \in 0..Len(script.floor)
    BY <1>1, <2>2 DEF CycleInv, CycleTypes
  <2>4. QED BY <1>1, <2>3 DEF CycleInv, CycleTypes, work, history
<1>3. PassShape'
  <2>1. /\ pc' = pc /\ cycle' = cycle /\ pass' = pass /\ led' = led /\ saved' = saved
        /\ script' = script /\ key' = key
    BY <1>1 DEF work, key, plan
  <2>2. \A b : InScene(b) => InScene(b)'
    BY <1>1, <2>1, SceneFrame DEF CycleInv
  <2>3. PlansInScene => PlansInScene'
    BY <1>1, <2>1, PlansFrame DEF CycleInv
  <2>4. QED BY <2>1, <2>2, <2>3 DEF CycleInv, PassShape
<1>4. QED BY <1>2, <1>3 DEF CycleInv

LEMMA IdleKeeps ==
    ASSUME CycleInv, pc = "idle", UNCHANGED <<script, arrived, work, log, spent>>,
           saved' \in Ledger, led' = saved', outbox' \in [Key -> OutboxEntry],
           \A a \in Key : outbox'[a].state \in {"none", "queued"} => outbox'[a].tries < MaxAttempts,
           fate' = fate, owed' = owed, told' = told,
           posted' \subseteq posted, doubted' \subseteq posted'
    PROVE  CycleInv'
<1>1. CycleTypes'
  BY DEF CycleInv, CycleTypes, work
<1>2. PassShape'
  BY DEF CycleInv, PassShape, work
<1>3. QED BY <1>1, <1>2 DEF CycleInv

LEMMA WorldKeeps ==
    ASSUME CycleInv, TimePasses \/ NextDay \/ \E a \in Key : Drain(a)
    PROVE  CycleInv'
<1>1. /\ saved \in Ledger /\ led \in Ledger /\ outbox \in [Key -> OutboxEntry]
      /\ \A a \in Key : outbox[a].state \in {"none", "queued"} => outbox[a].tries < MaxAttempts
      /\ pc = "idle" => led = saved
      /\ doubted \subseteq posted
  BY DEF CycleInv, CycleTypes, PassShape
<1>2. CASE TimePasses
  BY <1>1, <1>2, IdleKeeps, RestedOK DEF TimePasses, history
<1>3. CASE NextDay
  <2>1. [saved EXCEPT !.today = FALSE] \in Ledger
    BY <1>1 DEF Ledger
  <2>2. QED BY <1>1, <1>3, <2>1, IdleKeeps DEF NextDay
<1>4. CASE \E a \in Key : Drain(a)
  <2>1. PICK a \in Key : Drain(a)
    BY <1>4
  <2>2. /\ outbox' = [outbox EXCEPT ![a].state = "acked"] /\ outbox[a] \in OutboxEntry
    BY <1>1, <2>1 DEF Drain
  <2>3. [outbox[a] EXCEPT !.state = "acked"] \in OutboxEntry
        /\ [outbox[a] EXCEPT !.state = "acked"].state = "acked"
    BY <2>2 DEF OutboxEntry
  <2>4. outbox' \in [Key -> OutboxEntry]
        /\ \A d \in Key : d # a => outbox'[d] = outbox[d]
    BY <1>1, <2>2, <2>3
  <2>5. outbox'[a].state = "acked"
    BY <1>1, <2>2, <2>3
  <2>6. \A d \in Key : outbox'[d].state \in {"none", "queued"} => outbox'[d].tries < MaxAttempts
    BY <1>1, <2>4, <2>5
  <2>7. QED BY <1>1, <2>1, <2>4, <2>6, IdleKeeps DEF Drain, history
<1>5. QED BY <1>2, <1>3, <1>4

LEMMA BeginKeeps == ASSUME CycleInv, Begin PROVE CycleInv'
<1>1. PICK proactive \in script.gate :
         cycle' = [queue |-> Chats, calls |-> CycleCalls, proactive |-> proactive]
  BY DEF Begin
<1>2. cycle' \in CycleRecord
  <2>1. proactive \in BOOLEAN
    BY ScriptFacts DEF CycleInv
  <2>2. QED BY <1>1, <2>1, CycleAssumption, Numbers DEF CycleRecord
<1>3. led' \in Ledger
  BY DayRolledOK DEF Begin, CycleInv, CycleTypes
<1>4. CycleTypes'
  BY <1>2, <1>3 DEF Begin, CycleInv, CycleTypes, history
<1>5. PassShape'
  BY DEF Begin, CycleInv, PassShape
<1>6. QED BY <1>4, <1>5 DEF CycleInv

\* The end of a pass as a ledger.
LEMMA FinishLedger ==
    ASSUME CycleInv, Finish
    PROVE  LET after == [led EXCEPT !.lane = [l \in Lane |-> AfterPass(l)]]
               top == IF Pending THEN 0 ELSE pass.top
           IN  /\ cycle.queue # <<>> /\ chat \in Chat /\ top \in 0..Rows
               /\ after \in Ledger /\ after.chat = led.chat /\ after.today = led.today
               /\ \A l \in Lane : after.lane[l] = AfterPass(l)
               /\ NextChat(ChatAdvanced(after, top)) /\ spent' = spent
               /\ ChatAdvanced(after, top) \in Ledger
<1> DEFINE after == [led EXCEPT !.lane = [l \in Lane |-> AfterPass(l)]]
           top == IF Pending THEN 0 ELSE pass.top
<1>1. cycle.queue # <<>> /\ \A b \in pass.asked : b.rows \subseteq 1..arrived
  BY DEF CycleInv, PassShape, Finish, InScene
<1>2. chat \in Chat
  BY <1>1, ChatFacts DEF CycleInv
<1>3. /\ after \in Ledger /\ after.chat = led.chat /\ after.today = led.today
      /\ \A l \in Lane : after.lane[l] = AfterPass(l)
  BY <1>1, LanesAfterPass DEF CycleInv
<1>4. top \in 0..Rows
  BY Numbers DEF CycleInv, CycleTypes, PassRecord
<1>5. NextChat(ChatAdvanced(after, top)) /\ spent' = spent
  BY DEF Finish
<1> HIDE DEF after, top
<1>6. ChatAdvanced(after, top) \in Ledger
  BY <1>2, <1>3, <1>4, ChatAdvancedOK
<1>7. QED BY <1>1, <1>2, <1>3, <1>4, <1>5, <1>6 DEF after, top

LEMMA NothingNewLedger ==
    ASSUME CycleTypes, NothingNew
    PROVE  LET top == Max(Page(led.chat[chat].cursor) \cup {0})
           IN  /\ cycle.queue # <<>> /\ chat \in Chat /\ top \in 0..Rows
               /\ top = 0 \/ top \in Page(led.chat[chat].cursor)
               /\ \A r \in Page(led.chat[chat].cursor) : r =< top
               /\ NextChat(ChatAdvanced(Seeded, top)) /\ spent' = spent
               /\ ChatAdvanced(Seeded, top) \in Ledger
<1> DEFINE page == Page(led.chat[chat].cursor)
           top == Max(page \cup {0})
<1>1. cycle.queue # <<>> /\ NextChat(ChatAdvanced(Seeded, top)) /\ spent' = spent
  BY DEF NothingNew
<1>2. chat \in Chat
  BY <1>1, ChatFacts
<1>3. page \subseteq 1..arrived /\ arrived \in 0..Rows
  BY <1>2, FreshFacts, ScriptFacts
<1> HIDE DEF page
<1>4. page \cup {0} \in SUBSET (0..Rows) /\ page \cup {0} \in SUBSET (Unset..Rows)
  BY <1>3, Numbers DEF Unset
<1>5. top \in page \cup {0} /\ \A r \in page \cup {0} : r =< top
  BY <1>4, MaxRow
<1>6. top \in 0..Rows
  BY <1>4, <1>5
<1> HIDE DEF top
<1>7. ChatAdvanced(Seeded, top) \in Ledger
  BY <1>2, <1>6, SeededOK, ChatAdvancedOK
<1>8. QED BY <1>1, <1>2, <1>5, <1>6, <1>7 DEF page, top

\* A refusal of the chat: it rests, and its pass ends.
LEMMA RestsOK ==
    ASSUME NEW l \in Ledger, chat \in Chat
    PROVE  /\ [l EXCEPT !.chat[chat].resting = TRUE] \in Ledger
           /\ [l EXCEPT !.chat[chat].resting = TRUE].lane = l.lane
           /\ [l EXCEPT !.chat[chat].resting = TRUE].today = l.today
           /\ \A c \in Chat :
                /\ [l EXCEPT !.chat[chat].resting = TRUE].chat[c].cursor = l.chat[c].cursor
                /\ [l EXCEPT !.chat[chat].resting = TRUE].chat[c].count = l.chat[c].count
<1> DEFINE e == [l.chat[chat] EXCEPT !.resting = TRUE]
           cs == [l.chat EXCEPT ![chat] = e]
           new == [l EXCEPT !.chat[chat].resting = TRUE]
<1>1. l.chat \in [Chat -> ChatEntry] /\ l.chat[chat] \in ChatEntry
  BY LedgerParts
<1>2. e \in ChatEntry /\ e.cursor = l.chat[chat].cursor /\ e.count = l.chat[chat].count
  BY <1>1 DEF ChatEntry
<1>3. new = [l EXCEPT !.chat = cs]
  OBVIOUS
<1> HIDE DEF e, new
<1>4. cs \in [Chat -> ChatEntry] /\ \A c \in Chat : cs[c] = IF c = chat THEN e ELSE l.chat[c]
  BY <1>1, <1>2
<1> HIDE DEF cs
<1>5. new \in Ledger /\ new.lane = l.lane /\ new.today = l.today /\ new.chat = cs
  BY <1>3, <1>4 DEF Ledger
<1>6. QED BY <1>2, <1>4, <1>5 DEF new

LEMMA ServedKeeps ==
    ASSUME CycleInv, SkipResting \/ FetchFails \/ NothingNew \/ PassRaises \/ Finish
    PROVE  CycleInv'
<1>1. /\ CycleTypes /\ led \in Ledger /\ "other" \in Fault
      /\ spent \in [Fault -> Nat] /\ \A f \in Fault : spent[f] =< script.faults[f]
  BY DEF CycleInv, CycleTypes, Fault
<1>2. CASE SkipResting
  BY <1>1, <1>2, NextChatKeeps DEF SkipResting
<1>3. CASE FetchFails
  BY <1>1, <1>3, NextChatKeeps, SpendKeeps DEF FetchFails
<1>4. CASE NothingNew
  BY <1>1, <1>4, NextChatKeeps, NothingNewLedger
<1>5. CASE PassRaises
  <2>1. cycle.queue # <<>>
    BY <1>5 DEF PassRaises, CycleInv, PassShape
  <2>2. [led EXCEPT !.chat[chat].resting = TRUE] \in Ledger
    BY <1>1, <2>1, RestsOK, ChatFacts
  <2>3. QED BY <1>1, <1>5, <2>1, <2>2, NextChatKeeps, SpendKeeps DEF PassRaises
<1>6. CASE Finish
  BY <1>1, <1>6, NextChatKeeps, FinishLedger
<1>7. QED BY <1>2, <1>3, <1>4, <1>5, <1>6

LEMMA FetchKeeps == ASSUME CycleInv, Fetch PROVE CycleInv'
<1>1. CycleTypes /\ chat \in Chat /\ pass' \in PassRecord /\ led' \in Ledger
  BY FetchDoes, SeededOK DEF CycleInv, Fetch
<1>5. spent' \in [Fault -> Nat] /\ \A f \in Fault : spent'[f] =< script.faults[f]
  <2>1. spent' = spent \/ Spend("read")
    BY <1>1, FetchDoes
  <2>2. "read" \in Fault
    BY DEF Fault
  <2>3. QED BY <1>1, <2>1, <2>2, SpendKeeps DEF CycleTypes
<1>2. CycleTypes'
  BY <1>1, <1>5 DEF CycleInv, CycleTypes, Fetch, history
<1>3. PassShape'
  <2>1. /\ pc' = "decide" /\ cycle' = cycle /\ cycle.queue # <<>> /\ arrived' = arrived
        /\ script' = script /\ pass'.asked = {} /\ pass'.plans = <<>>
        /\ pass'.todo = Batches(Fresh)
    BY <1>1, FetchDoes DEF Fetch
  <2>2. /\ Fresh \in SUBSET Row /\ \A r \in Fresh : LaneOf(r) \in Lane
        /\ \A r \in Page(led.chat[chat].cursor) : r =< pass'.top
    BY <1>1, FetchDoes
  <2>3. /\ Fresh \subseteq Page(led.chat[chat].cursor)
        /\ Page(led.chat[chat].cursor) \subseteq 1..arrived
        /\ \A r \in Fresh : r \notin Command /\ ChatOf(r) = chat
    BY <1>1, FreshFacts
  <2>4. \A b \in Batches(Fresh) : /\ b.rows # {} /\ b.rows \subseteq Fresh
                                  /\ \A r \in b.rows : LaneOf(r) = b.lane
    BY <2>2, BatchFacts
  <2>5. \A b \in Batches(Fresh) : InScene(b)'
    <3>1. /\ chat' = chat /\ \A r : LaneOf(r)' = LaneOf(r) /\ ChatOf(r)' = ChatOf(r)
      BY <2>1 DEF chat, LaneOf, ChatOf
    <3>2. QED BY <2>1, <2>2, <2>3, <2>4, <3>1 DEF InScene
  <2>6. ToSet(pass'.plans) = {}
    BY <2>1 DEF ToSet
  <2>7. PlansInScene'
    BY <2>1, <2>6 DEF PlansInScene
  <2>8. \A b \in pass'.todo \cup pass'.asked : InScene(b)'
    BY <2>1, <2>5
  <2>9. QED BY <2>1, <2>7, <2>8 DEF PassShape
<1>4. QED BY <1>2, <1>3 DEF CycleInv

\* A batch that was asked about stays in the scene.
LEMMA AnsweredScene ==
    ASSUME CycleInv, pc = "decide", batch \in pass.todo,
           NEW status \in {"open", "invalid", "quarantined", "valid"}, Answered(status),
           script' = script, arrived' = arrived, cycle'.queue = cycle.queue
    PROVE  /\ \A b \in pass'.todo \cup pass'.asked : InScene(b)'
           /\ InScene(batch) /\ cycle.queue # <<>> /\ PlansInScene
<1>1. /\ \A b \in pass.todo \cup pass.asked : InScene(b)
      /\ cycle.queue # <<>> /\ PlansInScene
  BY DEF CycleInv, PassShape
<1>2. /\ pass'.todo = pass.todo \ {batch} /\ pass'.asked = pass.asked \cup {AskedAs(status)}
      /\ pass'.top = pass.top
  BY DEF Answered, SamePage
<1>3. InScene(AskedAs(status)) /\ InScene(batch)
  BY <1>1 DEF InScene, AskedAs
<1>4. \A b \in pass'.todo \cup pass'.asked : InScene(b)
  BY <1>1, <1>2, <1>3
<1>5. \A b : InScene(b) => InScene(b)'
  BY <1>2, SceneFrame DEF CycleInv
<1>6. QED BY <1>1, <1>3, <1>4, <1>5

LEMMA PassOverKeeps == ASSUME CycleInv, PassOver PROVE CycleInv'
<1>1. /\ Answered("open") /\ batch \in pass.todo /\ pass'.plans = pass.plans
      /\ pass' \in PassRecord /\ CycleTypes
  BY PassOverDoes DEF CycleInv, Answered
<1>2. /\ pc = "decide" /\ pc' = "decide" /\ script' = script /\ arrived' = arrived
      /\ cycle' = cycle
  BY DEF PassOver
<1>3. CycleTypes'
  BY <1>1 DEF CycleInv, CycleTypes, PassOver, history
<1>4. /\ \A b \in pass'.todo \cup pass'.asked : InScene(b)'
      /\ cycle.queue # <<>> /\ PlansInScene
  BY <1>1, <1>2, AnsweredScene
<1>5. PlansInScene'
  BY <1>1, <1>2, <1>4, PlansFrame DEF Answered, SamePage
<1>6. PassShape'
  BY <1>2, <1>4, <1>5 DEF PassShape
<1>7. QED BY <1>3, <1>6 DEF CycleInv

LEMMA AskDoes ==
    ASSUME CycleTypes, Ask
    PROVE  cycle' \in CycleRecord /\ cycle'.queue = cycle.queue
<1>1. cycle \in CycleRecord /\ cycle.calls # 0
  BY DEF Ask, NoCalls, CycleTypes
<1>2. cycle.calls - 1 \in 0..CycleCalls
  BY <1>1, Numbers DEF CycleRecord
<1>3. cycle' = [cycle EXCEPT !.calls = cycle.calls - 1]
  BY DEF Ask
<1>4. QED BY <1>1, <1>2, <1>3 DEF CycleRecord

LEMMA AskInvalidKeeps == ASSUME CycleInv, AskInvalid PROVE CycleInv'
<1>0. CycleTypes
  BY DEF CycleInv
<1>1. PICK status \in {"invalid", "quarantined"} :
         /\ Answered(status)
         /\ fate' = IF status = "quarantined"
                    THEN [r \in Row |-> IF r \in batch.rows THEN "quarantined" ELSE fate[r]]
                    ELSE fate
  BY <1>0, AskInvalidDoes
<1>2. /\ batch \in pass.todo /\ pass'.plans = pass.plans /\ pass' \in PassRecord
      /\ led' \in Ledger
  BY <1>0, <1>1, AskInvalidDoes DEF Answered, LaneAnswered
<1>3. /\ pc = "decide" /\ pc' = "decide" /\ script' = script /\ arrived' = arrived
      /\ cycle' \in CycleRecord /\ cycle'.queue = cycle.queue
  BY <1>0, AskDoes DEF AskInvalid, Ask
<1>4. fate' \in [Row -> {"unread", "judged", "quarantined"}]
  BY <1>0, <1>1 DEF CycleTypes
<1>5. CycleTypes'
  BY <1>2, <1>3, <1>4 DEF CycleInv, CycleTypes, AskInvalid, Ask
<1>6. /\ \A b \in pass'.todo \cup pass'.asked : InScene(b)'
      /\ cycle.queue # <<>> /\ PlansInScene
  BY <1>1, <1>2, <1>3, AnsweredScene
<1>7. PlansInScene'
  BY <1>0, <1>1, <1>2, <1>3, <1>6, PlansFrame DEF Answered, SamePage
<1>8. PassShape'
  BY <1>3, <1>6, <1>7 DEF PassShape
<1>9. QED BY <1>5, <1>8 DEF CycleInv

\* Two lists of plans as one.
LEMMA Joined ==
    ASSUME NEW T, NEW s \in Seq(T), NEW t \in Seq(T)
    PROVE  s \o t \in Seq(T) /\ ToSet(s \o t) = ToSet(s) \cup ToSet(t)
<1>1. /\ s \o t \in Seq(T) /\ Len(s \o t) = Len(s) + Len(t)
      /\ \A i \in 1..Len(s) + Len(t) : (s \o t)[i] = IF i <= Len(s) THEN s[i] ELSE t[i - Len(s)]
  BY ConcatProperties
<1>2. /\ Len(s) \in Nat /\ Len(t) \in Nat
      /\ ToSet(s) = {s[i] : i \in 1..Len(s)} /\ ToSet(t) = {t[i] : i \in 1..Len(t)}
      /\ ToSet(s \o t) = {(s \o t)[i] : i \in 1..Len(s) + Len(t)}
  BY <1>1, Elements
<1>3. ASSUME NEW x \in ToSet(s \o t) PROVE x \in ToSet(s) \cup ToSet(t)
  <2>1. PICK i \in 1..Len(s) + Len(t) : x = (s \o t)[i]
    BY <1>2
  <2>2. CASE i <= Len(s)
    <3>1. i \in 1..Len(s) /\ x = s[i]
      BY <2>1, <2>2, <1>1, <1>2
    <3>2. QED BY <3>1, <1>2
  <2>3. CASE ~(i <= Len(s))
    <3>1. i - Len(s) \in 1..Len(t) /\ x = t[i - Len(s)]
      BY <2>1, <2>3, <1>1, <1>2
    <3>2. QED BY <3>1, <1>2
  <2>4. QED BY <2>2, <2>3
<1>4. ASSUME NEW x \in ToSet(s) PROVE x \in ToSet(s \o t)
  <2>1. PICK i \in 1..Len(s) : x = s[i]
    BY <1>2
  <2>2. i \in 1..Len(s) + Len(t) /\ i <= Len(s)
    BY <1>2
  <2>3. QED BY <2>1, <2>2, <1>1, <1>2
<1>5. ASSUME NEW x \in ToSet(t) PROVE x \in ToSet(s \o t)
  <2>1. PICK i \in 1..Len(t) : x = t[i]
    BY <1>2
  <2>2. /\ i + Len(s) \in 1..Len(s) + Len(t) /\ ~(i + Len(s) <= Len(s))
        /\ i + Len(s) - Len(s) = i
    BY <1>2
  <2>3. QED BY <2>1, <2>2, <1>1, <1>2
<1>6. QED BY <1>1, <1>3, <1>4, <1>5

LEMMA JudgedPlans ==
    ASSUME CycleTypes, batch \in Batch, NEW decided, NEW held, Judged(decided, held)
    PROVE  /\ ToSet(pass'.plans) = ToSet(pass.plans) \cup ToSet(decided)
           /\ \A p \in ToSet(decided) : p \in Plan /\ p.row \in batch.rows /\ p.act # "wait"
           /\ Wanted(decided, held) \subseteq batch.rows \X (Kind \cup {"wait"})
           /\ \A o \in Wanted(decided, held) :
                 o[1] \in held \/ \E p \in ToSet(decided) : p.row = o[1] /\ KindOf(p) = o[2]
<1>1. /\ decided \in Seq({p \in About(batch.rows) : p.act # "wait"})
      /\ held \in SUBSET batch.rows /\ pass'.plans = pass.plans \o decided
  BY DEF Judged
<1>2. {p \in About(batch.rows) : p.act # "wait"} \subseteq Plan
  BY DEF About
<1>3. decided \in Seq(Plan) /\ pass.plans \in Seq(Plan)
  BY <1>1, <1>2, SeqMonotonic DEF CycleTypes, PassRecord
<1>4. ToSet(pass'.plans) = ToSet(pass.plans) \cup ToSet(decided)
  BY <1>1, <1>3, Joined
<1>5. \A p \in ToSet(decided) : p \in Plan /\ p.row \in batch.rows /\ p.act # "wait"
  BY <1>1, Elements DEF About
<1>6. batch.rows \in SUBSET Row
  BY DEF Batch
<1>7. QED BY <1>1, <1>4, <1>5, <1>6, WantedOK

LEMMA AskValidKeeps == ASSUME CycleInv, AskValid PROVE CycleInv'
<1>0. CycleTypes /\ pc = "decide"
  BY DEF CycleInv, AskValid, Ask
<1>1. \A b \in pass.todo : b.rows # {} /\ b.rows \subseteq 1..arrived
  BY <1>0 DEF CycleInv, PassShape, InScene
<1>2. /\ batch \in pass.todo /\ batch \in Batch /\ Answered("valid") /\ pass' \in PassRecord
      /\ fate' = [r \in Row |-> IF r \in batch.rows THEN "judged" ELSE fate[r]]
      /\ led' \in Ledger
  BY <1>0, <1>1, AskValidDoes DEF Answered, LaneAnswered
<1>3. PICK decided, held : Judged(decided, held)
  BY <1>0, <1>1, AskValidDoes
<1>4. /\ pc' = "decide" /\ script' = script /\ arrived' = arrived
      /\ cycle' \in CycleRecord /\ cycle'.queue = cycle.queue
  BY <1>0, AskDoes DEF AskValid, Ask
<1>5. /\ ToSet(pass'.plans) = ToSet(pass.plans) \cup ToSet(decided)
      /\ \A p \in ToSet(decided) : p \in Plan /\ p.row \in batch.rows /\ p.act # "wait"
      /\ Wanted(decided, held) \subseteq batch.rows \X (Kind \cup {"wait"})
  BY <1>0, <1>2, <1>3, JudgedPlans
<1>6. fate' \in [Row -> {"unread", "judged", "quarantined"}]
  BY <1>0, <1>2 DEF CycleTypes
<1>7. owed' \subseteq Row \X (Kind \cup {"wait"} \cup GivenUp)
  <2>1. batch.rows \in SUBSET Row
    BY <1>2 DEF Batch
  <2>2. Wanted(decided, held) \subseteq Row \X (Kind \cup {"wait"})
    BY <1>5, <2>1
  <2>3. QED BY <1>0, <1>3, <2>2 DEF Judged, CycleTypes
<1>8. CycleTypes'
  BY <1>0, <1>2, <1>4, <1>6, <1>7 DEF CycleTypes, AskValid, Ask
<1>9. /\ \A b \in pass'.todo \cup pass'.asked : InScene(b)'
      /\ InScene(batch) /\ cycle.queue # <<>> /\ PlansInScene
  BY <1>0, <1>2, <1>4, AnsweredScene
<1>10. PlansInScene'
  <2>1. /\ chat' = chat /\ 1..arrived \subseteq 1..arrived'
        /\ \A r : LaneOf(r)' = LaneOf(r) /\ ChatOf(r)' = ChatOf(r)
    BY <1>0, <1>2, <1>4, SceneFrame DEF Answered, SamePage
  <2>2. \A r \in batch.rows : r \in 1..arrived /\ ChatOf(r) = chat
    BY <1>9 DEF InScene
  <2>3. QED BY <1>4, <1>5, <1>9, <2>1, <2>2 DEF PlansInScene
<1>11. PassShape'
  BY <1>4, <1>9, <1>10 DEF PassShape
<1>12. QED BY <1>8, <1>11 DEF CycleInv

LEMMA AllAskedKeeps == ASSUME CycleInv, AllAsked PROVE CycleInv'
<1>1. CycleTypes'
  BY DEF CycleInv, CycleTypes, AllAsked, history
<1>2. /\ pc = "decide" /\ pc' = "validate" /\ pass.todo = {} /\ script' = script
      /\ arrived' = arrived /\ cycle' = cycle /\ pass' = pass
  BY DEF AllAsked
<1>3. PassShape'
  <2>1. \A b : InScene(b) => InScene(b)'
    BY <1>2, SceneFrame DEF CycleInv
  <2>2. PlansInScene => PlansInScene'
    BY <1>2, PlansFrame DEF CycleInv
  <2>3. QED BY <1>2, <2>1, <2>2 DEF CycleInv, PassShape
<1>4. QED BY <1>1, <1>3 DEF CycleInv

\* The second look at the scene: plans go on, or their messages are deferred, or the
\* texts of replies are unfit.
LEMMA ValidateDoes ==
    ASSUME CycleInv, Validate
    PROVE  /\ pc = "validate" /\ pc' = "apply" /\ cycle.queue # <<>> /\ pass.todo = {}
           /\ UNCHANGED <<script, arrived, saved, led, cycle, outbox, log,
                          fate, told, posted, doubted>>
           /\ spent' = spent \/ Spend("other")
           /\ spent' \in [Fault -> Nat] /\ \A f \in Fault : spent'[f] =< script.faults[f]
           /\ pass' \in PassRecord /\ SameScene /\ pass'.second = arrived
           /\ pass'.done = pass.done /\ pass'.failed = pass.failed
           /\ pass.deferred \subseteq pass'.deferred
           /\ pass'.plans \in Seq(Applicable) /\ (Once(pass.plans) => Once(pass'.plans))
           /\ \A p \in ToSet(pass'.plans) : \E q \in ToSet(pass.plans) : p.row = q.row
           /\ \E lanes : /\ lanes = Changed(Page(pass.snap)) \/ lanes = Lane
                         /\ \A p \in ToSet(pass'.plans) : LaneOf(p.row) \notin lanes
           /\ owed' \subseteq Row \X (Kind \cup {"wait"} \cup GivenUp) /\ Due' \subseteq Due
           /\ \A q \in ToSet(pass.plans) : q.act \notin {"ignore", "wait"} =>
                 \/ q.row \in pass'.deferred \/ KeyOf(q) \notin Due'
                 \/ \E p \in ToSet(pass'.plans) : p.row = q.row /\ KindOf(p) = KindOf(q)
<1>1. CycleTypes /\ spent \in [Fault -> Nat] /\ \A f \in Fault : spent[f] =< script.faults[f]
  BY DEF CycleInv, CycleTypes
<1>2. pc = "validate" /\ cycle.queue # <<>> /\ pass.todo = {} /\ PlansInScene
  BY DEF Validate, CycleInv, PassShape
<1>3. spent' = spent \/ Spend("other")
  BY DEF Validate
<1>4. spent' \in [Fault -> Nat] /\ \A f \in Fault : spent'[f] =< script.faults[f]
  <2>1. "other" \in Fault
    BY DEF Fault
  <2>2. QED BY <1>1, <1>3, <2>1, SpendKeeps
<1>5. PICK failing, lanes :
          /\ Validated(failing, lanes)
          /\ lanes = Changed(Page(pass.snap)) \/ lanes = Lane
  BY DEF Validate
<1> DEFINE R == {q.row : q \in ToSet(pass.plans)}
<1>6. R \in SUBSET Row /\ \A q \in ToSet(pass.plans) : q.row \in R
  BY <1>1, <1>2, ScriptFacts DEF PlansInScene
<1>7. \A r \in R : \E q \in ToSet(pass.plans) : r = q.row
  OBVIOUS
<1> HIDE DEF R
<1>8. /\ pass' \in PassRecord /\ SameScene /\ pass'.second = arrived
      /\ pass'.done = pass.done /\ pass'.failed = pass.failed
      /\ pass.deferred \subseteq pass'.deferred
      /\ pass'.plans \in Seq(Applicable)
      /\ Once(pass.plans) => Once(pass'.plans)
      /\ owed' \subseteq Row \X (Kind \cup {"wait"} \cup GivenUp) /\ Due' \subseteq Due
      /\ \A p \in ToSet(pass'.plans) : p.row \in R /\ LaneOf(p.row) \notin lanes
      /\ \A q \in ToSet(pass.plans) : q.act \notin {"ignore", "wait"} =>
            \/ q.row \in pass'.deferred \/ KeyOf(q) \notin Due'
            \/ \E p \in ToSet(pass'.plans) : p.row = q.row /\ KindOf(p) = KindOf(q)
  BY <1>1, <1>5, <1>6, ValidatedDoes
<1>9. /\ pc' = "apply"
      /\ UNCHANGED <<script, arrived, saved, led, cycle, outbox, log,
                     fate, told, posted, doubted>>
  BY <1>5 DEF Validated
<1>10. \A p \in ToSet(pass'.plans) : \E q \in ToSet(pass.plans) : p.row = q.row
  BY <1>7, <1>8
<1>11. \E l : /\ l = Changed(Page(pass.snap)) \/ l = Lane
             /\ \A p \in ToSet(pass'.plans) : LaneOf(p.row) \notin l
  BY <1>5, <1>8
<1>12. QED BY <1>2, <1>3, <1>4, <1>8, <1>9, <1>10, <1>11

LEMMA ValidateKeeps == ASSUME CycleInv, Validate PROVE CycleInv'
<1>0. /\ CycleTypes /\ PlansInScene /\ pass.todo = {} /\ cycle.queue # <<>>
      /\ \A b \in pass.todo \cup pass.asked : InScene(b)
  BY ValidateDoes DEF CycleInv, PassShape
<1>2. /\ pc = "validate" /\ pc' = "apply"
      /\ UNCHANGED <<script, arrived, saved, led, cycle, outbox, log,
                     fate, told, posted, doubted>>
      /\ spent' \in [Fault -> Nat] /\ \A f \in Fault : spent'[f] =< script.faults[f]
  BY ValidateDoes
<1>4. /\ pass' \in PassRecord /\ SameScene /\ pass'.plans \in Seq(Applicable)
      /\ \A p \in ToSet(pass'.plans) : p.row \in 1..arrived /\ ChatOf(p.row) = chat
      /\ owed' \subseteq Row \X (Kind \cup {"wait"} \cup GivenUp)
  <2>1. \A p \in ToSet(pass'.plans) : \E q \in ToSet(pass.plans) : p.row = q.row
    BY ValidateDoes
  <2>2. \A p \in ToSet(pass'.plans) : p.row \in 1..arrived /\ ChatOf(p.row) = chat
    BY <1>0, <2>1 DEF PlansInScene
  <2>3. QED BY <2>2, ValidateDoes
<1>5. CycleTypes'
  BY <1>0, <1>2, <1>4 DEF CycleTypes
<1>6. \A b : InScene(b) => InScene(b)'
  BY <1>0, <1>2, <1>4, SceneFrame DEF SameScene
<1>7. \A p \in ToSet(pass'.plans) : p.act # "wait"
  BY <1>4, Elements DEF Applicable, Kind, Memory
<1>8. PlansInScene'
  <2>1. chat' = chat /\ \A r : ChatOf(r)' = ChatOf(r)
    BY <1>0, <1>2, <1>4, SceneFrame DEF SameScene
  <2>2. QED BY <1>2, <1>4, <1>7, <2>1 DEF PlansInScene
<1>9. PassShape'
  BY <1>0, <1>2, <1>4, <1>6, <1>8 DEF PassShape, SameScene
<1>10. QED BY <1>5, <1>9 DEF CycleInv

\* The plan at hand.
LEMMA PlanAtHand ==
    ASSUME CycleInv, pc \in {"apply", "log"}, pass.plans # <<>>
    PROVE  /\ plan \in Applicable /\ plan \in ToSet(pass.plans) /\ key \in Key
           /\ KindOf(plan) = plan.act /\ class \in Class
           /\ plan.row \in Row /\ plan.row \in 1..arrived /\ ChatOf(plan.row) = chat
           /\ chat \in Chat /\ cycle.queue # <<>>
           /\ ToSet(pass.plans) = {plan} \cup ToSet(Tail(pass.plans))
           /\ Tail(pass.plans) \in Seq(Applicable)
<1>1. /\ pass.plans \in Seq(Applicable) /\ PlansInScene /\ cycle.queue # <<>> /\ CycleTypes
  BY DEF CycleInv, PassShape, PlansInScene
<1>2. /\ plan \in Applicable /\ plan \in ToSet(pass.plans)
      /\ ToSet(pass.plans) = {plan} \cup ToSet(Tail(pass.plans))
      /\ Tail(pass.plans) \in Seq(Applicable)
  BY <1>1, HeadTail DEF plan
<1>3. plan.row \in Row /\ plan.act \in Kind
  BY <1>2 DEF Applicable, Plan
<1>4. KindOf(plan) = plan.act
  BY <1>3 DEF KindOf, Kind, Memory
<1>5. QED BY <1>1, <1>2, <1>3, <1>4, ChatFacts DEF key, Key, class, Class, PlansInScene

LEMMA PoppedShape ==
    ASSUME CycleInv, pc \in {"apply", "log"}, pass.plans # <<>>, Popped, pc' = "apply",
           script' = script, arrived' = arrived, cycle' = cycle
    PROVE  PassShape'
<1>1. /\ \A b \in pass.todo \cup pass.asked : InScene(b)
      /\ pass.todo = {} /\ cycle.queue # <<>> /\ PlansInScene
  BY DEF CycleInv, PassShape
<1>2. /\ pass'.todo = pass.todo /\ pass'.asked = pass.asked /\ pass'.top = pass.top
      /\ pass'.plans = Tail(pass.plans)
  BY DEF Popped, SameScene
<1>3. \A b : InScene(b) => InScene(b)'
  BY <1>2, SceneFrame DEF CycleInv
<1>4. /\ chat' = chat /\ \A r : ChatOf(r)' = ChatOf(r)
  BY <1>2, SceneFrame DEF CycleInv
<1>5. pass'.plans \in Seq(Applicable) /\ ToSet(pass'.plans) \subseteq ToSet(pass.plans)
  BY <1>2, PlanAtHand
<1>6. PlansInScene'
  BY <1>1, <1>4, <1>5 DEF PlansInScene
<1>7. QED BY <1>1, <1>2, <1>3, <1>6 DEF PassShape

LEMMA SendingOK ==
    ASSUME CycleInv, pc = "apply", pass.plans # <<>>, outbox[key].state \in {"none", "queued"}
    PROVE  sending \in Row \X Class \X (1..MaxAttempts)
<1>1. key \in Key /\ plan.row \in Row /\ class \in Class
  BY PlanAtHand
<1>2. outbox[key] \in OutboxEntry /\ outbox[key].tries < MaxAttempts
  BY <1>1 DEF CycleInv, CycleTypes
<1>3. outbox[key].tries + 1 \in 1..MaxAttempts
  <2>1. outbox[key].tries \in Nat /\ MaxAttempts \in Nat
    BY <1>2, Numbers DEF OutboxEntry
  <2>2. QED BY <1>2, <2>1
<1>4. QED BY <1>1, <1>3 DEF sending

\* The steps that take a plan off the list.
Taking == \/ ApplyDeferred \/ ApplyNothing \/ DeliveryFails \/ NotDue \/ DeadLettered
          \/ NoteLost \/ NotifyRaises \/ LogAction
LEMMA TakingDoes ==
    ASSUME CycleInv, Taking
    PROVE  /\ pc \in {"apply", "log"} /\ pc' = "apply" /\ pass.plans # <<>> /\ Popped
           /\ UNCHANGED <<script, arrived, saved, led, cycle, fate>>
           /\ pc = "apply" \/ LogAction
           /\ owed' \subseteq Row \X (Kind \cup {"wait"} \cup GivenUp) /\ Due' \subseteq Due
           /\ told' \in [Key -> Nat] /\ \A a \in Key \ {key} : told'[a] = told[a]
           /\ posted' \subseteq Row \X Class \X (1..MaxAttempts) /\ doubted' \subseteq posted'
           /\ Known' \subseteq Known
<1>1. CycleTypes
  BY DEF CycleInv
<1>2. /\ pc \in {"apply", "log"} /\ pc' = "apply" /\ pass.plans # <<>>
      /\ pass' \in {Pop, Park, Missed}
      /\ UNCHANGED <<script, arrived, saved, led, cycle, fate>>
      /\ pc = "apply" \/ LogAction
  <2>1. CASE ApplyDeferred
    BY <2>1 DEF ApplyDeferred, Applying
  <2>2. CASE ApplyNothing
    BY <2>2 DEF ApplyNothing, Applying
  <2>3. CASE DeliveryFails
    BY <2>3 DEF DeliveryFails, Deliverable, Applying
  <2>4. CASE NotDue
    BY <2>4 DEF NotDue, Deliverable, Applying
  <2>5. CASE DeadLettered
    BY <2>5 DEF DeadLettered, Deliverable, Applying
  <2>6. CASE NoteLost
    BY <2>6 DEF NoteLost, SideEffect, Applying
  <2>9. CASE NotifyRaises
    BY <2>9 DEF NotifyRaises, SideEffect, Applying
  <2>7. CASE LogAction
    <3>1. pc = "log" /\ pass.plans # <<>>
      BY <2>7 DEF LogAction, CycleInv, PassShape
    <3>2. QED BY <2>7, <3>1 DEF LogAction, history
  <2>8. QED BY <2>1, <2>2, <2>3, <2>4, <2>5, <2>6, <2>7, <2>9 DEF Taking
<1>3. key \in Key
  BY <1>2, PlanAtHand
<1>4. owed' \subseteq Row \X (Kind \cup {"wait"} \cup GivenUp) /\ Due' \subseteq Due
  <2>1. CASE NoteLost
    <3>1. GiveUp({key}, "unwritten") /\ "unwritten" \in GivenUp
      BY <2>1 DEF NoteLost, GivenUp
    <3>2. QED BY <1>1, <3>1, GiveUpDoes
  <2>2. CASE ~NoteLost
    <3>1. owed' \subseteq owed
      BY <2>2 DEF Taking, ApplyDeferred, ApplyNothing, DeliveryFails, NotDue, DeadLettered,
             NotifyRaises, LogAction, history
    <3>2. QED BY <1>1, <3>1 DEF Due, CycleTypes
  <2>3. QED BY <2>1, <2>2
<1>5. told' \in [Key -> Nat] /\ \A a \in Key \ {key} : told'[a] = told[a]
  <2>1. told \in [Key -> Nat]
    BY <1>1 DEF CycleTypes
  <2>2. told' = told \/ \E once \in 0..1 : told' = [told EXCEPT ![key] = @ + once]
    BY DEF Taking, ApplyDeferred, ApplyNothing, DeliveryFails, NotDue, DeadLettered,
           NoteLost, NotifyRaises, LogAction, history, Tell
  <2>3. QED BY <1>3, <2>1, <2>2
<1>6. /\ posted' \subseteq Row \X Class \X (1..MaxAttempts) /\ doubted' \subseteq posted'
      /\ Known' \subseteq Known
  <2>1. posted \subseteq Row \X Class \X (1..MaxAttempts) /\ doubted \subseteq posted
    BY <1>1 DEF CycleTypes
  <2>2. CASE posted' = posted /\ doubted' = doubted
    BY <2>1, <2>2 DEF Known
  <2>3. CASE /\ DeliveryFails
             /\ posted' = posted \cup {sending} /\ doubted' = doubted \cup {sending}
    <3>1. sending \in Row \X Class \X (1..MaxAttempts)
      BY <2>3, SendingOK DEF DeliveryFails, Deliverable, Applying
    <3>2. QED BY <2>1, <2>3, <3>1 DEF Known
  <2>4. (posted' = posted /\ doubted' = doubted)
        \/ (DeliveryFails /\ posted' = posted \cup {sending} /\ doubted' = doubted \cup {sending})
    BY DEF Taking, ApplyDeferred, ApplyNothing, DeliveryFails, NotDue, DeadLettered,
           NoteLost, NotifyRaises, LogAction, history
  <2>5. QED BY <2>2, <2>3, <2>4
<1>7. QED BY <1>1, <1>2, <1>4, <1>5, <1>6, PopOK

LEMMA TakingKeeps == ASSUME CycleInv, Taking PROVE CycleInv'
<1>1. /\ pc \in {"apply", "log"} /\ pc' = "apply" /\ pass.plans # <<>> /\ Popped
      /\ UNCHANGED <<script, arrived, saved, led, cycle, fate>>
      /\ owed' \subseteq Row \X (Kind \cup {"wait"} \cup GivenUp) /\ told' \in [Key -> Nat]
      /\ posted' \subseteq Row \X Class \X (1..MaxAttempts) /\ doubted' \subseteq posted'
  BY TakingDoes
<1>2. CycleTypes /\ key \in Key /\ "other" \in Fault /\ "log" \in Fault /\ "notify" \in Fault
  BY <1>1, PlanAtHand DEF CycleInv, Fault
<1>3. spent' \in [Fault -> Nat] /\ \A f \in Fault : spent'[f] =< script.faults[f]
  <2>1. spent' = spent \/ Spend("other") \/ Spend("log") \/ Spend("notify")
    BY DEF Taking, ApplyDeferred, ApplyNothing, DeliveryFails, NotDue, DeadLettered,
           NoteLost, NotifyRaises, LogAction
  <2>2. spent \in [Fault -> Nat] /\ \A f \in Fault : spent[f] =< script.faults[f]
    BY <1>2 DEF CycleTypes
  <2>3. QED BY <1>2, <2>1, <2>2, SpendKeeps
<1>4. log' \subseteq Key
  <2>1. log \subseteq Key
    BY <1>2 DEF CycleTypes
  <2>2. log' = log \/ log' = log \cup {key}
    BY DEF Taking, ApplyDeferred, ApplyNothing, DeliveryFails, NotDue, DeadLettered,
           NoteLost, NotifyRaises, LogAction
  <2>3. QED BY <1>2, <2>1, <2>2
<1>5. /\ outbox' \in [Key -> OutboxEntry]
      /\ \A a \in Key : outbox'[a].state \in {"none", "queued"} => outbox'[a].tries < MaxAttempts
  <2>1. /\ outbox \in [Key -> OutboxEntry]
        /\ \A a \in Key : outbox[a].state \in {"none", "queued"} => outbox[a].tries < MaxAttempts
    BY <1>2 DEF CycleTypes
  <2>2. CASE DeliveryFails
    <3> DEFINE n == outbox[key].tries + 1
               e == IF n < MaxAttempts THEN [state |-> "queued", tries |-> n]
                    ELSE [state |-> "dead", tries |-> n]
    <3>1. outbox' = [outbox EXCEPT ![key] = e] /\ outbox[key].state \in {"none", "queued"}
      BY <2>2 DEF DeliveryFails
    <3>2. outbox[key] \in OutboxEntry /\ outbox[key].tries < MaxAttempts
      BY <1>2, <2>1, <3>1
    <3>3. n \in 0..MaxAttempts
      BY <3>2, Numbers DEF OutboxEntry
    <3> HIDE DEF n
    <3>4. e \in OutboxEntry /\ (e.state \in {"none", "queued"} => e.tries < MaxAttempts)
      BY <3>3 DEF OutboxEntry
    <3> HIDE DEF e
    <3>5. QED BY <1>2, <2>1, <3>1, <3>4
  <2>3. CASE ~DeliveryFails
    <3>1. outbox' = outbox
      BY <2>3 DEF Taking, ApplyDeferred, ApplyNothing, NotDue, DeadLettered,
                  NoteLost, NotifyRaises, LogAction
    <3>2. QED BY <2>1, <3>1
  <2>4. QED BY <2>2, <2>3
<1>6. CycleTypes'
  BY <1>1, <1>2, <1>3, <1>4, <1>5 DEF CycleTypes, Popped
<1>7. QED BY <1>1, <1>6, PoppedShape DEF CycleInv

\* The caps as they bind an action that is taken.
LEMMA RoomLeft ==
    ASSUME CycleInv, pc = "apply", pass.plans # <<>>, ~OverCap
    PROVE  /\ plan.act = "reply" => /\ led.chat[chat].count[class] < ChatCap
                                    /\ ~(Total(class) >= GlobalCap)
           /\ plan.act = "react" => led.reacts < ReactCap
<1>1. chat \in Chat /\ class \in Class /\ led \in Ledger
  BY PlanAtHand DEF CycleInv, CycleTypes
<1>2. /\ led.chat[chat].count[class] \in 0..ChatCap /\ led.reacts \in 0..ReactCap
      /\ ChatCap \in Nat /\ ReactCap \in Nat
  BY <1>1, LedgerParts, Numbers
<1>3. CASE plan.act = "reply"
  <2>1. ~(led.chat[chat].count[class] >= ChatCap) /\ ~(Total(class) >= GlobalCap)
    BY <1>3 DEF OverCap
  <2>2. QED BY <2>1, <1>2, <1>3
<1>4. CASE plan.act = "react"
  <2>1. ~(led.reacts >= ReactCap)
    BY <1>4 DEF OverCap
  <2>2. QED BY <2>1, <1>2, <1>4
<1>5. QED BY <1>3, <1>4

\* The steps that do an action.
Doing == Delivered \/ SideEffectDone
LEMMA DoingDoes ==
    ASSUME CycleInv, Doing
    PROVE  /\ pc = "apply" /\ pc' = "log" /\ pass.plans # <<>> /\ key \notin pass.done
           /\ pass' \in PassRecord /\ SameScene /\ pass'.second = pass.second
           /\ pass'.plans = pass.plans /\ pass'.deferred = pass.deferred
           /\ pass'.failed = pass.failed /\ pass'.done = pass.done \cup {key}
           /\ owed' = owed \ {key} /\ ~OverCap
           /\ UNCHANGED <<script, arrived, saved, cycle, log, fate, doubted, spent>>
           /\ plan' = plan /\ key' = key
<1>1. /\ pc = "apply" /\ pc' = "log" /\ pass.plans # <<>> /\ key \notin pass.done
      /\ pass' = [pass EXCEPT !.done = @ \cup {key}]
      /\ owed' = owed \ {key} /\ ~OverCap
      /\ UNCHANGED <<script, arrived, saved, cycle, log, fate, doubted, spent>>
  BY DEF Doing, Delivered, SideEffectDone, Deliverable, SideEffect, Applying
<1>2. pass \in PassRecord /\ key \in Key
  BY <1>1, PlanAtHand DEF CycleInv, CycleTypes
<1>3. pass.done \cup {key} \in SUBSET Key
  BY <1>2 DEF PassRecord
<1>4. /\ pass' \in PassRecord /\ SameScene /\ pass'.second = pass.second
      /\ pass'.plans = pass.plans /\ pass'.deferred = pass.deferred
      /\ pass'.failed = pass.failed /\ pass'.done = pass.done \cup {key}
  BY <1>1, <1>2, <1>3 DEF PassRecord, SameScene
<1>5. plan' = plan /\ key' = key
  BY <1>4 DEF plan, key
<1>6. QED BY <1>1, <1>4, <1>5

LEMMA DoingKeeps == ASSUME CycleInv, Doing PROVE CycleInv'
<1>1. /\ pc = "apply" /\ pc' = "log" /\ pass.plans # <<>>
      /\ pass' \in PassRecord /\ SameScene /\ pass'.plans = pass.plans
      /\ pass'.done = pass.done \cup {key} /\ owed' = owed \ {key} /\ ~OverCap /\ key' = key
      /\ UNCHANGED <<script, arrived, saved, cycle, log, fate, doubted, spent>>
  BY DoingDoes
<1>2. /\ CycleTypes /\ led \in Ledger /\ key \in Key /\ plan.row \in Row /\ class \in Class
      /\ chat \in Chat /\ plan.act \in Kind
  BY <1>1, PlanAtHand DEF CycleInv, CycleTypes, Applicable
<1>3. led' \in Ledger
  <2>1. CASE Delivered
    <3>1. led' = Counted(led) /\ plan.act \in {"reply", "react"}
      BY <2>1 DEF Delivered, Deliverable
    <3>2. QED BY <1>1, <1>2, <3>1, RoomLeft, CountedOK
  <2>2. CASE SideEffectDone
    BY <1>2, <2>2 DEF SideEffectDone
  <2>3. QED BY <2>1, <2>2 DEF Doing
<1>4. /\ outbox' \in [Key -> OutboxEntry]
      /\ \A a \in Key : outbox'[a].state \in {"none", "queued"} => outbox'[a].tries < MaxAttempts
  <2>1. /\ outbox \in [Key -> OutboxEntry]
        /\ \A a \in Key : outbox[a].state \in {"none", "queued"} => outbox[a].tries < MaxAttempts
    BY <1>2 DEF CycleTypes
  <2>2. CASE Delivered
    <3> DEFINE e == [state |-> "acked", tries |-> 0]
    <3>1. outbox' = [outbox EXCEPT ![key] = e]
      BY <2>2 DEF Delivered
    <3>2. e \in OutboxEntry /\ e.state = "acked"
      BY Numbers DEF OutboxEntry
    <3> HIDE DEF e
    <3>3. QED BY <1>2, <2>1, <3>1, <3>2
  <2>3. CASE SideEffectDone
    BY <2>1, <2>3 DEF SideEffectDone
  <2>4. QED BY <2>2, <2>3 DEF Doing
<1>5. /\ told' \in [Key -> Nat] /\ posted' \subseteq Row \X Class \X (1..MaxAttempts)
      /\ doubted' \subseteq posted'
  <2>1. /\ told \in [Key -> Nat] /\ posted \subseteq Row \X Class \X (1..MaxAttempts)
        /\ doubted \subseteq posted
    BY <1>2 DEF CycleTypes
  <2>2. told' = told \/ \E n \in 0..1 : told' = [told EXCEPT ![key] = @ + n]
    BY DEF Doing, Delivered, SideEffectDone, Tell
  <2>3. told' \in [Key -> Nat]
    BY <1>2, <2>1, <2>2
  <2>4. CASE posted' = posted
    BY <1>1, <2>1, <2>3, <2>4
  <2>5. CASE posted' # posted
    <3>1. posted' = posted \cup {sending} /\ outbox[key].state \notin {"acked", "dead"}
      BY <2>5 DEF Doing, Delivered, SideEffectDone
    <3>2. outbox[key].state \in {"none", "queued"}
      BY <1>2, <3>1 DEF CycleTypes, OutboxEntry
    <3>3. QED BY <1>1, <2>1, <2>3, <3>1, <3>2, SendingOK
  <2>6. QED BY <2>4, <2>5
<1>6. CycleTypes'
  BY <1>1, <1>2, <1>3, <1>4, <1>5 DEF CycleTypes
<1>7. PassShape'
  <2>1. /\ \A b \in pass.todo \cup pass.asked : InScene(b)
        /\ pass.todo = {} /\ cycle.queue # <<>> /\ PlansInScene
    BY <1>1 DEF CycleInv, PassShape
  <2>2. /\ \A b : InScene(b) => InScene(b)'
        /\ PlansInScene'
    BY <1>1, <1>2, <2>1, SceneFrame, PlansFrame DEF SameScene
  <2>3. QED BY <1>1, <2>1, <2>2 DEF PassShape, SameScene
<1>8. QED BY <1>6, <1>7 DEF CycleInv

LEMMA SaveKeeps == ASSUME CycleInv, Save PROVE CycleInv'
<1>1. CycleTypes'
  BY NoCycleOK DEF CycleInv, CycleTypes, Save, history
<1>2. PassShape'
  BY DEF CycleInv, PassShape, Save
<1>3. QED BY <1>1, <1>2 DEF CycleInv

LEMMA ForgetKeeps == ASSUME CycleInv, SaveFails \/ Crash PROVE CycleInv'
<1>1. Forget /\ (Spend("save") \/ Spend("crash")) /\ {"save", "crash"} \subseteq Fault
  BY DEF SaveFails, Crash, Fault
<1>2. spent' \in [Fault -> Nat] /\ \A f \in Fault : spent'[f] =< script.faults[f]
  BY <1>1, SpendKeeps DEF CycleInv
<1>3. CycleTypes'
  BY <1>1, <1>2, NoCycleOK, NoPassOK DEF CycleInv, CycleTypes, Forget, history
<1>4. PassShape'
  BY <1>1 DEF PassShape, Forget
<1>5. QED BY <1>3, <1>4 DEF CycleInv

\* A step, by what it does.
Served == SkipResting \/ FetchFails \/ NothingNew \/ PassRaises \/ Finish
World == TimePasses \/ NextDay \/ \E a \in Key : Drain(a)
LEMMA Steps ==
    ASSUME Next
    PROVE  \/ Begin \/ Served \/ Fetch \/ PassOver \/ AskInvalid \/ AskValid \/ AllAsked
           \/ Validate \/ Taking \/ Doing \/ Save \/ SaveFails \/ Crash \/ Arrive \/ World
BY DEF Next, Run, Misfortune, Served, World, Taking, Doing

LEMMA StepKeeps == ASSUME CycleInv, [Next]_vars PROVE CycleInv'
<1>1. CASE Next
  BY <1>1, Steps, BeginKeeps, ServedKeeps, FetchKeeps, PassOverKeeps, AskInvalidKeeps,
     AskValidKeeps, AllAskedKeeps, ValidateKeeps, TakingKeeps, DoingKeeps, SaveKeeps,
     ForgetKeeps, ArriveKeeps, WorldKeeps DEF Served, World
<1>2. CASE UNCHANGED vars
  <2>1. CycleTypes'
    BY <1>2 DEF CycleInv, CycleTypes, vars, work, history
  <2>2. PassShape'
    <3>1. /\ pc' = pc /\ cycle' = cycle /\ pass' = pass /\ led' = led /\ saved' = saved
          /\ script' = script /\ arrived' = arrived /\ key' = key
      BY <1>2 DEF vars, work, key, plan
    <3>2. \A b : InScene(b) => InScene(b)'
      BY <3>1, SceneFrame DEF CycleInv
    <3>3. PlansInScene => PlansInScene'
      BY <3>1, PlansFrame DEF CycleInv
    <3>4. QED BY <3>1, <3>2, <3>3 DEF CycleInv, PassShape
  <2>3. QED BY <2>1, <2>2 DEF CycleInv
<1>3. QED BY <1>1, <1>2

LEMMA Invariant == Spec => []CycleInv
<1>1. QED BY InitHolds, StepKeeps, PTL DEF Spec

\* The types of the cycle: among them, that a day's counters never exceed their caps,
\* that lanes stop waiting at the limit, and that a dead action has used its attempts.
THEOREM CycleTyped == Spec => []TypeOK
<1>1. CycleInv => TypeOK
  <2> SUFFICES ASSUME CycleInv PROVE TypeOK
    OBVIOUS
  <2>1. CycleTypes
    BY DEF CycleInv
  <2>2. LedgerOK(saved) /\ LedgerOK(led)
    BY <2>1, LedgerParts DEF CycleTypes, LedgerOK, ChatEntry, LaneEntry
  <2>3. /\ cycle.queue \in Seq(Chat) /\ cycle.calls \in 0..CycleCalls
        /\ cycle.proactive \in BOOLEAN
    BY <2>1 DEF CycleTypes, CycleRecord
  <2>4. /\ {pass.top, pass.snap, pass.second} \subseteq 0..Rows /\ pass.calls \in 0..ChatCalls
        /\ pass.todo \subseteq Batch /\ pass.asked \subseteq Asked /\ pass.plans \in Seq(Plan)
        /\ pass.blocked \subseteq Lane /\ pass.done \subseteq Key
        /\ pass.demand \cup pass.deferred \cup pass.failed \subseteq Row
    BY <2>1 DEF CycleTypes, PassRecord
  <2>5. \A f \in Fault : spent[f] \in 0..script.faults[f]
    <3>1. script.faults \in [Fault -> Nat]
      BY <2>1, ScriptFacts
    <3>2. QED BY <2>1, <3>1 DEF CycleTypes
  <2>6. QED BY <2>1, <2>2, <2>3, <2>4, <2>5 DEF CycleTypes, TypeOK, OutboxEntry
<1>2. QED BY <1>1, Invariant, PTL

-------------------------------------------------------------------------------
(* What steps leave alone.                                                  *)

\* The steps of the decider, of the end of a pass, and of the world, as they matter to
\* what a pass does not touch.
Asking == PassOver \/ AskInvalid \/ AskValid
LEMMA AskingDoes ==
    ASSUME CycleInv, Asking
    PROVE  /\ \E status \in {"open", "invalid", "quarantined", "valid"} : Answered(status)
           /\ SamePage /\ pc = "decide" /\ pc' = "decide" /\ cycle'.queue = cycle.queue
           /\ UNCHANGED <<script, arrived, saved, outbox, log, told, posted, doubted, spent>>
<1>0. CycleTypes /\ (pc = "decide" => \A b \in pass.todo : b.rows # {} /\ b.rows \subseteq 1..arrived)
  BY DEF CycleInv, PassShape, InScene
<1>1. CASE PassOver
  <2>1. Answered("open")
    BY <1>0, <1>1, PassOverDoes
  <2>2. QED BY <1>1, <2>1 DEF PassOver, Answered, history
<1>2. CASE AskInvalid
  <2>1. \E status \in {"invalid", "quarantined"} : Answered(status)
    BY <1>0, <1>2, AskInvalidDoes
  <2>2. cycle'.queue = cycle.queue
    BY <1>0, <1>2, AskDoes DEF AskInvalid
  <2>3. QED BY <1>2, <2>1, <2>2 DEF AskInvalid, Ask, Answered
<1>3. CASE AskValid
  <2>0. pc = "decide"
    BY <1>3 DEF AskValid, Ask
  <2>1. Answered("valid")
    BY <1>0, <1>3, <2>0, AskValidDoes
  <2>2. cycle'.queue = cycle.queue
    BY <1>0, <1>3, AskDoes DEF AskValid
  <2>3. QED BY <1>3, <2>1, <2>2 DEF AskValid, Ask, Answered
<1>4. QED BY <1>1, <1>2, <1>3 DEF Asking

LEMMA ServedDoes ==
    ASSUME CycleInv, Served
    PROVE  /\ pc \in {"chat", "validate", "apply"} /\ pc' = "chat" /\ pass' = NoPass
           /\ UNCHANGED <<script, arrived, saved, outbox, log, history>>
           /\ spent' = spent \/ Spend("other")
           /\ cycle.queue # <<>> /\ chat \in Chat
<1>1. /\ pc \in {"chat", "validate", "apply"} /\ \E l : NextChat(l)
      /\ spent' = spent \/ Spend("other")
  BY DEF Served, SkipResting, FetchFails, NothingNew, PassRaises, Finish
<1>2. cycle.queue # <<>>
  BY DEF CycleInv, PassShape, Served, SkipResting, FetchFails, NothingNew, PassRaises, Finish
<1>3. QED BY <1>1, <1>2, ChatFacts DEF NextChat, CycleInv

LEMMA WorldDoes ==
    ASSUME World
    PROVE  /\ pc = "idle" /\ UNCHANGED <<script, arrived, pc, cycle, pass, log, fate, owed, told, spent>>
BY DEF World, TimePasses, NextDay, Drain, work, history

-------------------------------------------------------------------------------
(* A lane is quarantined for invalid answers.                               *)

\* What the end of a pass leaves of the ledger: the day and its counters, and one more
\* failure of each lane with a failed message.
LEMMA ServedLedger ==
    ASSUME CycleInv, Served
    PROVE  /\ led' \in Ledger /\ led'.today = led.today
           /\ \A c \in Chat : led'.chat[c].count = led.chat[c].count
           /\ \A x \in Lane :
                 \/ led'.lane[x].failures = 0
                 \/ /\ led'.lane[x].invalid = led.lane[x].invalid
                    /\ led'.lane[x].failures =< led.lane[x].failures
                         + IF pc = "apply" /\ x \in FailedLanes THEN 1 ELSE 0
<1> DEFINE one(x) == IF pc = "apply" /\ x \in FailedLanes THEN 1 ELSE 0
<1>1. CycleTypes /\ led \in Ledger /\ cycle.queue # <<>> /\ chat \in Chat
  BY ServedDoes DEF CycleInv, CycleTypes
<1>2. \A n \in Nat : \A x : n =< n + one(x)
  OBVIOUS
<1>3. \A x \in Lane : /\ led.lane[x].failures \in Nat
                      /\ led.lane[x].failures =< led.lane[x].failures + one(x)
  <2>1. \A x \in Lane : led.lane[x].failures \in Nat
    BY <1>1, LedgerParts, Numbers
  <2> HIDE DEF one
  <2>2. QED BY <1>2, <2>1
<1>4. CASE SkipResting \/ FetchFails
  <2>1. led' = led
    BY <1>4 DEF SkipResting, FetchFails, NextChat
  <2>2. QED BY <1>1, <1>3, <2>1, LedgerParts
<1>5. CASE PassRaises
  <2> DEFINE l == [led EXCEPT !.chat[chat].resting = TRUE]
  <2>1. led' = l
    BY <1>5 DEF PassRaises, NextChat
  <2>2. /\ l \in Ledger /\ l.lane = led.lane /\ l.today = led.today
        /\ \A c \in Chat : l.chat[c].count = led.chat[c].count
    BY <1>1, RestsOK
  <2> HIDE DEF l
  <2>3. QED BY <1>3, <2>1, <2>2
<1>6. CASE NothingNew
  <2> DEFINE top == Max(Page(led.chat[chat].cursor) \cup {0})
  <2>1. top \in 0..Rows /\ led' = ChatAdvanced(Seeded, top)
    BY <1>1, <1>6, NothingNewLedger DEF NextChat
  <2> HIDE DEF top
  <2>2. /\ Seeded \in Ledger /\ Seeded.chat = led.chat /\ Seeded.today = led.today
        /\ \A x \in Lane : /\ Seeded.lane[x].failures = led.lane[x].failures
                           /\ Seeded.lane[x].invalid = led.lane[x].invalid
    BY <1>1, SeededOK
  <2>3. /\ led' \in Ledger /\ led'.lane = Seeded.lane /\ led'.today = Seeded.today
        /\ \A c \in Chat : led'.chat[c].count = Seeded.chat[c].count
    BY <1>1, <2>1, <2>2, ChatAdvancedOK
  <2>4. QED BY <1>3, <2>2, <2>3
<1>7. CASE Finish
  <2> DEFINE after == [led EXCEPT !.lane = [l \in Lane |-> AfterPass(l)]]
             top == IF Pending THEN 0 ELSE pass.top
  <2>1. /\ top \in 0..Rows /\ after \in Ledger /\ after.chat = led.chat
        /\ after.today = led.today /\ \A l \in Lane : after.lane[l] = AfterPass(l)
        /\ led' = ChatAdvanced(after, top)
    BY <1>7, FinishLedger DEF NextChat
  <2> HIDE DEF after, top
  <2>2. /\ led' \in Ledger /\ led'.lane = after.lane /\ led'.today = after.today
        /\ \A c \in Chat : led'.chat[c].count = after.chat[c].count
    BY <1>1, <2>1, ChatAdvancedOK
  <2>3. pc = "apply" /\ \A b \in pass.asked : b.rows \subseteq 1..arrived
    BY <1>7 DEF Finish, CycleInv, PassShape, InScene
  <2>4. \A x \in Lane :
           \/ AfterPass(x).failures = 0
           \/ /\ AfterPass(x).invalid = led.lane[x].invalid
              /\ AfterPass(x).failures =< led.lane[x].failures + IF x \in FailedLanes THEN 1 ELSE 0
    BY <1>1, <2>3, AfterPassOK
  <2>5. QED BY <2>1, <2>2, <2>3, <2>4
<1>8. QED BY <1>4, <1>5, <1>6, <1>7 DEF Served

\* The messages the pass may yet fail, and lanes whose counters stand.
AtRisk == pass.failed \cup {p.row : p \in ToSet(pass.plans)}
SameFailures(l, m) == \A x \in Lane : /\ m.lane[x].failures = l.lane[x].failures
                                      /\ m.lane[x].invalid = l.lane[x].invalid
LEMMA EarnedAgain ==
    ASSUME CycleTypes, CycleTypes', EarnedInv, SameFailures(led, led'),
           saved' \in {saved, led}, script' = script, 1..arrived \subseteq 1..arrived',
           \/ pc' \in {"idle", "chat"}
           \/ pc \notin {"idle", "chat"} /\ AtRisk' \subseteq AtRisk
           \/ AtRisk' = {}
    PROVE  EarnedInv'
<1>1. \A l \in Lane : Earned(led, l) /\ Earned(saved, l)
  BY DEF EarnedInv
<1>2. \A l \in Lane : Earned(led', l) /\ Earned(saved', l)
  BY <1>1 DEF SameFailures, Earned
<1>3. ASSUME pc' \notin {"idle", "chat"}, NEW r \in AtRisk'
      PROVE  r \in 1..arrived' /\ HeardLane(LaneOf(r))'
  <2>1. pc \notin {"idle", "chat"} /\ r \in AtRisk
    BY <1>3
  <2>2. r \in 1..arrived /\ HeardLane(LaneOf(r))
    BY <2>1 DEF EarnedInv, AtRisk
  <2>3. LaneOf(r) \in Lane /\ LaneOf(r)' = LaneOf(r)
    BY <2>2, ScriptFacts DEF LaneOf
  <2>4. QED BY <2>2, <2>3 DEF HeardLane, Level, SameFailures
<1>4. (\A l \in Lane : Earned(led, l) /\ Earned(saved, l))'
  BY <1>2 DEF Earned
<1>5. (pc \notin {"idle", "chat"} => \A r \in AtRisk : r \in 1..arrived /\ HeardLane(LaneOf(r)))'
  BY <1>3
<1>6. QED BY <1>4, <1>5 DEF EarnedInv, AtRisk

\* An answer, valid or not, leaves the counters of its lane within one of each other,
\* and level if they were.
LEMMA EarnedAsking ==
    ASSUME CycleInv, CycleInv', EarnedInv, Asking
    PROVE  EarnedInv'
<1>0. CycleTypes /\ CycleTypes' /\ led \in Ledger /\ led' \in Ledger
  BY DEF CycleInv, CycleTypes
<1>1. /\ pc = "decide" /\ pc' = "decide" /\ pass'.failed = pass.failed
      /\ UNCHANGED <<script, arrived, saved>>
  BY AskingDoes DEF SamePage
<1>2. \A l \in Lane : Earned(led, l) /\ Earned(saved, l)
  BY DEF EarnedInv
<1>3. \A r \in AtRisk : r \in 1..arrived /\ HeardLane(LaneOf(r)) /\ LaneOf(r) \in Lane
  BY <1>0, <1>1, ScriptFacts DEF EarnedInv, AtRisk
<1>4. \A b \in pass.todo : b.rows # {} /\ b.rows \subseteq 1..arrived
  BY <1>1 DEF CycleInv, PassShape, InScene
<1>5. \A r : LaneOf(r)' = LaneOf(r)
  BY <1>1 DEF LaneOf
<1>6. CASE PassOver
  <2>1. pass'.plans = pass.plans /\ led' = led
    BY <1>0, <1>6, PassOverDoes DEF PassOver
  <2>2. AtRisk' = AtRisk
    BY <1>1, <2>1 DEF AtRisk
  <2>3. QED BY <1>0, <1>1, <2>1, <2>2, EarnedAgain DEF SameFailures
<1>7. CASE AskInvalid
  <2>1. /\ batch \in Batch /\ LaneAnswered /\ pass'.plans = pass.plans
        /\ led'.lane[batch.lane].failures =< led.lane[batch.lane].failures + 1
        /\ led'.lane[batch.lane].failures =< MaxInvalid
        /\ led'.lane[batch.lane].invalid
             = IF MaxInvalid =< led.lane[batch.lane].invalid + 1 THEN MaxInvalid
               ELSE led.lane[batch.lane].invalid + 1
    BY <1>0, <1>7, AskInvalidDoes
  <2>2. AtRisk' = AtRisk
    BY <1>1, <2>1 DEF AtRisk
  <2>3. batch.lane \in Lane
    BY <2>1 DEF Batch
  <2>4. PICK f \in Nat, g \in Nat, i \in Nat, j \in Nat :
           /\ led.lane[batch.lane].failures = f /\ led'.lane[batch.lane].failures = g
           /\ led.lane[batch.lane].invalid = i /\ led'.lane[batch.lane].invalid = j
    <3>1. /\ led.lane[batch.lane].failures \in 0..MaxInvalid /\ led.lane[batch.lane].invalid \in Nat
          /\ led'.lane[batch.lane].failures \in 0..MaxInvalid /\ led'.lane[batch.lane].invalid \in Nat
      BY <1>0, <2>3, LedgerParts
    <3>2. QED BY <3>1, Numbers
  <2>5. g =< f + 1 /\ g =< MaxInvalid /\ j = IF MaxInvalid =< i + 1 THEN MaxInvalid ELSE i + 1
    BY <2>1, <2>4
  <2>6. (f =< i => g =< j) /\ (f =< i + 1 => g =< j + 1)
    BY <2>4, <2>5, Numbers
  <2>7. \A l \in Lane : Earned(led', l) /\ (HeardLane(l) => HeardLane(l)')
    <3>1. /\ Earned(led', batch.lane)
          /\ led.lane[batch.lane].failures =< led.lane[batch.lane].invalid =>
               led'.lane[batch.lane].failures =< led'.lane[batch.lane].invalid
      BY <1>2, <2>3, <2>4, <2>6 DEF Earned
    <3>2. \A l \in Lane : l # batch.lane =>
             /\ led'.lane[l].failures = led.lane[l].failures
             /\ led'.lane[l].invalid = led.lane[l].invalid
      BY <2>1 DEF LaneAnswered
    <3>3. QED BY <1>2, <3>1, <3>2 DEF HeardLane, Level, Earned
  <2>8. QED BY <1>1, <1>2, <1>3, <1>5, <2>2, <2>7 DEF EarnedInv, AtRisk, HeardLane, Earned
<1>8. CASE AskValid
  <2>1. /\ batch \in pass.todo /\ batch \in Batch /\ LaneAnswered
        /\ led'.lane[batch.lane].failures = 0 /\ led'.lane[batch.lane].invalid = 0
    BY <1>0, <1>4, <1>8, AskValidDoes
  <2>2. PICK decided, held : Judged(decided, held)
    BY <1>0, <1>4, <1>8, AskValidDoes
  <2>3. /\ ToSet(pass'.plans) = ToSet(pass.plans) \cup ToSet(decided)
        /\ \A p \in ToSet(decided) : p.row \in batch.rows
    BY <1>0, <2>1, <2>2, JudgedPlans
  <2>4. \A r \in batch.rows : r \in 1..arrived /\ LaneOf(r) = batch.lane
    BY <1>1, <2>1 DEF CycleInv, PassShape, InScene
  <2>5. \A r \in AtRisk' : r \in AtRisk \/ r \in batch.rows
    BY <1>1, <2>3 DEF AtRisk
  <2>6. 0 =< 0 /\ 0 =< 0 + 1
    OBVIOUS
  <2>7. \A l \in Lane : Earned(led', l) /\ (Level(led, l) \/ l = batch.lane => Level(led', l))
    <3>1. Earned(led', batch.lane) /\ Level(led', batch.lane)
      BY <2>1, <2>6 DEF Earned, Level
    <3>2. \A l \in Lane : l # batch.lane =>
             /\ led'.lane[l].failures = led.lane[l].failures
             /\ led'.lane[l].invalid = led.lane[l].invalid
      BY <2>1 DEF LaneAnswered
    <3>3. QED BY <1>2, <3>1, <3>2 DEF Level, Earned
  <2>8. \A r \in AtRisk' : r \in 1..arrived /\ Level(led', LaneOf(r))
    BY <1>3, <2>4, <2>5, <2>7, <2>1 DEF Batch, HeardLane
  <2>9. QED BY <1>1, <1>2, <1>5, <2>7, <2>8 DEF EarnedInv, AtRisk, HeardLane, Earned
<1>9. QED BY <1>6, <1>7, <1>8 DEF Asking

LEMMA EarnedParts ==
    ASSUME CycleInv, CycleInv', EarnedInv, [Next]_vars
    PROVE  EarnedInv'
<1>0. CycleTypes /\ CycleTypes' /\ led \in Ledger /\ saved \in Ledger
  BY DEF CycleInv, CycleTypes
<1>1. \A l \in Lane : Earned(led, l) /\ Earned(saved, l)
  BY DEF EarnedInv
<1>2. arrived \in Nat /\ 1..arrived \subseteq 1..arrived + 1
  BY <1>0, ScriptFacts
<1>3. ASSUME UNCHANGED vars \/ Arrive PROVE EarnedInv'
  <2>1. /\ pc' = pc /\ pass' = pass /\ led' = led /\ saved' = saved /\ script' = script
        /\ arrived' \in {arrived, arrived + 1}
    BY <1>3 DEF Arrive, vars, work
  <2>2. AtRisk' = AtRisk
    BY <2>1 DEF AtRisk
  <2>3. AtRisk' = {} \/ pc' \in {"idle", "chat"} \/ pc \notin {"idle", "chat"}
    BY <2>1
  <2>4. 1..arrived \subseteq 1..arrived'
    BY <1>2, <2>1
  <2>5. QED BY <1>0, <2>1, <2>2, <2>3, <2>4, EarnedAgain DEF SameFailures
<1>4. ASSUME pc' \in {"idle", "chat"}, \A l \in Lane : Earned(led', l) /\ Earned(saved', l)
      PROVE  EarnedInv'
  BY <1>4 DEF EarnedInv, Earned
<1>5. CASE Begin
  <2>1. led' = DayRolled(saved) /\ saved' = saved /\ pc' = "chat"
    BY <1>5 DEF Begin
  <2>2. led'.lane = saved.lane
    BY <1>0, <2>1, DayRolledOK
  <2>3. QED BY <1>1, <1>4, <2>1, <2>2 DEF Earned
<1>6. CASE Save \/ SaveFails \/ Crash
  <2>1. pc' = "idle" /\ led' \in {led, saved} /\ saved' \in {led, saved}
    BY <1>6 DEF Save, SaveFails, Crash, Forget
  <2>2. QED BY <1>1, <1>4, <2>1
<1>7. CASE World
  <2>1. pc = "idle" /\ pc' = "idle" /\ led = saved
    BY <1>7, WorldDoes DEF CycleInv, PassShape
  <2>2. SameFailures(saved, saved') /\ SameFailures(led, led')
    <3>1. CASE TimePasses
      BY <1>0, <2>1, <3>1, RestedOK DEF TimePasses, SameFailures
    <3>2. CASE NextDay
      <4>1. saved' = [saved EXCEPT !.today = FALSE] /\ led' = saved'
        BY <3>2 DEF NextDay
      <4>2. saved'.lane = saved.lane /\ led'.lane = led.lane
        BY <1>0, <2>1, <4>1 DEF Ledger
      <4>3. QED BY <4>2 DEF SameFailures
    <3>3. CASE \E a \in Key : Drain(a)
      BY <3>3 DEF Drain, SameFailures
    <3>4. QED BY <1>7, <3>1, <3>2, <3>3 DEF World
  <2>3. \A l \in Lane : Earned(led', l) /\ Earned(saved', l)
    BY <1>1, <2>2 DEF Earned, SameFailures
  <2>4. QED BY <1>4, <2>1, <2>3
<1>8. CASE Served
  <2>1. pc' = "chat" /\ saved' = saved
    BY <1>8, ServedDoes
  <2>2. ASSUME NEW x \in Lane PROVE Earned(led', x)
    <3>1. led' \in Ledger
      BY <1>8, ServedLedger
    <3>2. PICK f \in Nat, g \in Nat, i \in Nat, j \in Nat :
             /\ led.lane[x].failures = f /\ led'.lane[x].failures = g
             /\ led.lane[x].invalid = i /\ led'.lane[x].invalid = j
      <4>1. /\ led.lane[x].failures \in 0..MaxInvalid /\ led.lane[x].invalid \in Nat
            /\ led'.lane[x].failures \in 0..MaxInvalid /\ led'.lane[x].invalid \in Nat
        BY <1>0, <3>1, LedgerParts
      <4>2. /\ led.lane[x].failures \in Nat /\ led.lane[x].invalid \in Nat
            /\ led'.lane[x].failures \in Nat /\ led'.lane[x].invalid \in Nat
        BY <4>1
      <4>3. QED BY <4>2
    <3> DEFINE risk == pc = "apply" /\ x \in FailedLanes
    <3>3. g = 0 \/ (j = i /\ g =< f + IF risk THEN 1 ELSE 0)
      BY <1>8, <3>2, ServedLedger
    <3>4. risk => f =< i
      <4>1. ASSUME risk PROVE HeardLane(x)
        <5>1. pc = "apply" /\ \E r \in pass.failed : x = LaneOf(r)
          BY <4>1 DEF FailedLanes
        <5>2. QED BY <5>1 DEF EarnedInv
      <4>2. QED BY <3>2, <4>1 DEF HeardLane, Level
    <3>5. f =< i + 1
      BY <1>1, <3>2 DEF Earned
    <3> HIDE DEF risk
    <3>6. g =< j + 1
      BY <3>2, <3>3, <3>4, <3>5
    <3>7. QED BY <3>2, <3>6 DEF Earned
  <2>3. QED BY <1>1, <1>4, <2>1, <2>2
<1>9. CASE Fetch
  <2>1. /\ chat \in Chat /\ pass'.plans = <<>> /\ pass'.failed = {} /\ led' = Seeded /\ saved' = saved
        /\ script' = script /\ arrived' = arrived
    BY <1>0, <1>9, FetchDoes DEF Fetch
  <2>2. AtRisk' = {}
    BY <2>1 DEF AtRisk, ToSet
  <2>3. SameFailures(led, led')
    BY <1>0, <2>1, SeededOK DEF SameFailures
  <2>4. QED BY <1>0, <2>1, <2>2, <2>3, EarnedAgain
<1>10. CASE Asking
  BY <1>10, EarnedAsking
<1>11. CASE AllAsked
  <2>1. /\ pc = "decide" /\ pass' = pass /\ led' = led /\ saved' = saved /\ script' = script
        /\ arrived' = arrived
    BY <1>11 DEF AllAsked
  <2>2. AtRisk' = AtRisk
    BY <2>1 DEF AtRisk
  <2>3. QED BY <1>0, <2>1, <2>2, EarnedAgain DEF SameFailures
<1>12. CASE Validate
  <2>2. /\ pc = "validate" /\ led' = led /\ saved' = saved /\ script' = script /\ arrived' = arrived
    BY <1>12, ValidateDoes
  <2>4. /\ pass'.failed = pass.failed
        /\ \A p \in ToSet(pass'.plans) : \E q \in ToSet(pass.plans) : p.row = q.row
    BY <1>12, ValidateDoes
  <2>5. AtRisk' \subseteq AtRisk
    BY <2>4 DEF AtRisk
  <2>6. QED BY <1>0, <2>2, <2>5, EarnedAgain DEF SameFailures
<1>13. CASE Taking
  <2>1. /\ pc \in {"apply", "log"} /\ pass.plans # <<>> /\ Popped
        /\ UNCHANGED <<script, arrived, saved, led>>
    BY <1>13, TakingDoes
  <2>2. /\ plan \in ToSet(pass.plans) /\ ToSet(pass.plans) = {plan} \cup ToSet(Tail(pass.plans))
    BY <2>1, PlanAtHand
  <2>3. AtRisk' \subseteq AtRisk
    BY <2>1, <2>2 DEF AtRisk, Popped
  <2>4. QED BY <1>0, <2>1, <2>3, EarnedAgain DEF SameFailures
<1>14. CASE Doing
  <2>1. /\ pc = "apply" /\ pass.plans # <<>> /\ pass'.plans = pass.plans /\ pass'.failed = pass.failed
        /\ script' = script /\ arrived' = arrived /\ saved' = saved /\ ~OverCap
    BY <1>14, DoingDoes
  <2>2. AtRisk' = AtRisk
    BY <2>1 DEF AtRisk
  <2>3. SameFailures(led, led')
    <3>1. CASE Delivered
      <4>1. led' = Counted(led) /\ plan.act \in {"reply", "react"} /\ chat \in Chat
        BY <2>1, <3>1, PlanAtHand DEF Delivered, Deliverable
      <4>2. led'.lane = led.lane
        BY <1>0, <2>1, <4>1, RoomLeft, CountedOK
      <4>3. QED BY <4>2 DEF SameFailures
    <3>2. CASE SideEffectDone
      BY <3>2 DEF SideEffectDone, SameFailures
    <3>3. QED BY <1>14, <3>1, <3>2 DEF Doing
  <2>4. QED BY <1>0, <2>1, <2>2, <2>3, EarnedAgain
<1>15. QED BY <1>3, <1>5, <1>6, <1>7, <1>8, <1>9, <1>10, <1>11, <1>12, <1>13, <1>14, Steps
          DEF Asking

\* A lane's messages are given up only for answers of the decider that were invalid, but
\* for one failure: failed deliveries, which share the counter, may stand in for one.
THEOREM GivenUpForInvalid == Spec => []QuarantineEarned
<1>1. Init => EarnedInv
  <2> SUFFICES ASSUME Init PROVE EarnedInv
    OBVIOUS
  <2>1. pc = "idle" /\ led = NewLedger /\ saved = NewLedger
    BY DEF Init
  <2>2. 0 =< 0 + 1
    OBVIOUS
  <2>3. \A l \in Lane : Earned(NewLedger, l)
    BY <2>2 DEF Earned, NewLedger, NewLane
  <2>4. QED BY <2>1, <2>3 DEF EarnedInv
<1>2. CycleInv /\ CycleInv' /\ EarnedInv /\ [Next]_vars => EarnedInv'
  BY EarnedParts
<1>3. EarnedInv => QuarantineEarned
  BY DEF EarnedInv, Earned, QuarantineEarned
<1>4. QED BY <1>1, <1>2, <1>3, Invariant, PTL DEF Spec

-------------------------------------------------------------------------------
(* No action is taken on a scene that has moved.                            *)

LEMMA SceneParts ==
    ASSUME CycleInv, CycleInv', SceneInv, [Next]_vars
    PROVE  SceneInv'
<1>0. CycleTypes
  BY DEF CycleInv
<1>1. ASSUME script' = script, cycle'.queue = cycle.queue, pass'.snap = pass.snap
      PROVE  \A r : /\ LaneOf(r)' = LaneOf(r) /\ chat' = chat
                    /\ Moved(r)' <=> Moved(r)
  <2>1. chat' = chat /\ \A r : LaneOf(r)' = LaneOf(r) /\ ChatOf(r)' = ChatOf(r)
    BY <1>1 DEF chat, LaneOf, ChatOf
  <2>2. \A r : {s \in pass.snap + 1..r : ChatOf(s) = chat}'
                 = {s \in pass.snap + 1..r : ChatOf(s) = chat}
    BY <1>1, <2>1
  <2>3. QED BY <2>1, <2>2 DEF Moved
<1>2. ASSUME script' = script, cycle'.queue = cycle.queue, pass'.snap = pass.snap,
             pass'.second = pass.second, pc \in {"apply", "log"} \/ pc' \notin {"apply", "log"},
             ToSet(pass'.plans) \subseteq ToSet(pass.plans)
      PROVE  SceneInv'
  BY <1>1, <1>2 DEF SceneInv
<1>3. ASSUME UNCHANGED vars \/ Arrive PROVE SceneInv'
  <2>1. pc' = pc /\ pass' = pass /\ cycle' = cycle /\ script' = script
    BY <1>3 DEF Arrive, vars, work
  <2>2. QED BY <1>2, <2>1
<1>4. CASE Begin \/ Served \/ Fetch \/ Asking \/ AllAsked \/ Save \/ SaveFails \/ Crash \/ World
  <2>1. pc' \notin {"apply", "log"}
    <3>1. CASE Begin \/ Fetch \/ AllAsked \/ Save \/ SaveFails \/ Crash
      BY <3>1 DEF Begin, Fetch, AllAsked, Save, SaveFails, Crash, Forget
    <3>2. CASE Served
      BY <3>2, ServedDoes
    <3>3. CASE Asking
      BY <3>3, AskingDoes
    <3>4. CASE World
      BY <3>4, WorldDoes
    <3>5. QED BY <1>4, <3>1, <3>2, <3>3, <3>4
  <2>2. QED BY <2>1 DEF SceneInv
<1>5. CASE Validate
  <2>1. PICK lanes : /\ lanes = Changed(Page(pass.snap)) \/ lanes = Lane
                     /\ \A p \in ToSet(pass'.plans) : LaneOf(p.row) \notin lanes
    BY <1>5, ValidateDoes
  <2>2. script' = script /\ cycle' = cycle /\ arrived' = arrived /\ cycle.queue # <<>> /\ PlansInScene
    BY <1>5, ValidateDoes DEF CycleInv, PassShape
  <2>3. \A p \in ToSet(pass'.plans) : \E q \in ToSet(pass.plans) : p.row = q.row
    BY <1>5, ValidateDoes
  <2>4. SameScene /\ pass'.second = arrived
    BY <1>5, ValidateDoes
  <2>5. pass'.snap = pass.snap /\ pass.snap \in Nat
    BY <1>0, <2>4, Numbers DEF SameScene, CycleTypes, PassRecord
  <2>6. ASSUME NEW p \in ToSet(pass'.plans), NEW r \in pass.snap + 1..arrived,
               LaneOf(r) = LaneOf(p.row), Moved(r)
        PROVE  FALSE
    <3>1. /\ p.row \in 1..arrived /\ ChatOf(p.row) = chat /\ LaneOf(p.row) \notin lanes
      BY <2>1, <2>2, <2>3, <2>6 DEF PlansInScene
    <3>2. LaneOf(p.row) \in Lane
      BY <1>0, <3>1, ScriptFacts
    <3>3. lanes = Changed(Page(pass.snap))
      BY <2>1, <3>1, <3>2
    <3>4. ChatOf(r) = chat
      BY <2>6, <3>1 DEF ChatOf
    <3>5. r \in Page(pass.snap)
      BY <1>0, <2>5, <2>6, <3>4, PageFacts DEF Moved
    <3>6. LaneOf(r) \in lanes
      BY <2>6, <3>3, <3>5 DEF Changed, Moved
    <3>7. QED BY <2>6, <3>1, <3>6
  <2>7. QED BY <1>1, <2>2, <2>4, <2>5, <2>6 DEF SceneInv
<1>6. CASE Taking
  <2>1. /\ pc \in {"apply", "log"} /\ pass.plans # <<>> /\ Popped /\ script' = script /\ cycle' = cycle
    BY <1>6, TakingDoes
  <2>2. ToSet(pass.plans) = {plan} \cup ToSet(Tail(pass.plans))
    BY <2>1, PlanAtHand
  <2>3. QED BY <1>2, <2>1, <2>2 DEF Popped, SameScene
<1>7. CASE Doing
  BY <1>2, <1>7, DoingDoes DEF SameScene
<1>8. QED BY <1>3, <1>4, <1>5, <1>6, <1>7, Steps DEF Asking

\* Of the steps only those that do an action go from applying to logging.
LEMMA DoingOnly ==
    ASSUME CycleInv, Next, pc = "apply", pc' = "log"
    PROVE  Doing
<1>1. ~(Begin \/ Fetch \/ AllAsked \/ Save \/ SaveFails \/ Crash \/ Arrive)
  BY DEF Begin, Fetch, AllAsked, Save, SaveFails, Crash, Forget, Arrive, work
<1>2. ~(Served \/ Asking \/ World \/ Validate \/ Taking)
  BY ServedDoes, AskingDoes, WorldDoes, ValidateDoes, TakingDoes
<1>3. QED BY <1>1, <1>2, Steps DEF Asking

\* An action takes effect only while its scene stands: no message came to its lane
\* between the page it was decided on and the second look, as far as that look reads.
THEOREM NothingOnAMovedScene == Spec => SceneStillOpen
<1>1. Init => SceneInv
  BY DEF Init, SceneInv
<1>2. CycleInv /\ CycleInv' /\ SceneInv /\ [Next]_vars => SceneInv'
  BY SceneParts
<1> DEFINE Still == pc = "apply" /\ pc' = "log" =>
                      \A r \in pass.snap + 1..pass.second :
                         \/ LaneOf(r) # LaneOf(plan.row) \/ r \in Command
                         \/ Cardinality({s \in pass.snap + 1..r : ChatOf(s) = chat}) > PageLimit
<1>3. CycleInv /\ SceneInv /\ [Next]_vars => [Still]_vars
  <2> SUFFICES ASSUME CycleInv, SceneInv, Next, pc = "apply", pc' = "log",
                      NEW r \in pass.snap + 1..pass.second,
                      LaneOf(r) = LaneOf(plan.row), r \notin Command
               PROVE  Cardinality({s \in pass.snap + 1..r : ChatOf(s) = chat}) > PageLimit
    OBVIOUS
  <2>1. pass.plans # <<>>
    BY DoingOnly, DoingDoes
  <2>2. plan \in ToSet(pass.plans)
    BY <2>1, PlanAtHand
  <2>3. ~Moved(r)
    BY <2>2 DEF SceneInv
  <2> DEFINE between == {s \in pass.snap + 1..r : ChatOf(s) = chat}
  <2>4. Cardinality(between) \in Nat
    <3>1. pass.snap \in 0..Rows /\ pass.second \in 0..Rows
      BY DEF CycleInv, CycleTypes, PassRecord
    <3>2. between \in SUBSET Row
      BY <3>1, Numbers DEF Row
    <3> HIDE DEF between
    <3>3. QED BY <3>2, RowsFinite
  <2>5. ~(Cardinality(between) =< PageLimit)
    BY <2>3 DEF Moved
  <2> HIDE DEF between
  <2>6. Cardinality(between) > PageLimit
    BY <2>4, <2>5, Numbers
  <2>7. QED BY <2>6 DEF between
<1>4. QED BY <1>1, <1>2, <1>3, Invariant, PTL DEF Spec, SceneStillOpen

-------------------------------------------------------------------------------
(* The caps hold but for lost ledgers.                                      *)

\* Crashes and failed saves are numbers.
LEMMA CrashTypes ==
    ASSUME CycleTypes
    PROVE  spent["crash"] \in Nat /\ spent["save"] \in Nat
BY DEF CycleTypes, Fault

\* The sets that are counted are finite.
LEMMA CountedSets ==
    ASSUME CycleTypes, NEW k \in Class
    PROVE  /\ \A l : IsFiniteSet(Units(l, k)) /\ Cardinality(Units(l, k)) \in Nat
           /\ \A c : IsFiniteSet(Posted(c, k)) /\ Cardinality(Posted(c, k)) \in Nat
           /\ IsFiniteSet({p \in Known : p[2] = k}) /\ Cardinality({p \in Known : p[2] = k}) \in Nat
           /\ IsFiniteSet(posted) /\ Lost \in Nat
<1>1. IsFiniteSet(Chat)
  <2>1. Chats \in [1..Len(Chats) -> Chat] /\ Len(Chats) \in Nat /\ Chat = {Chats[i] : i \in 1..Len(Chats)}
    <3>1. Chats \in Seq(Chat)
      BY CycleAssumption
    <3>2. QED BY <3>1, Elements DEF Chat
  <2>2. Chats \in Surjection(1..Len(Chats), Chat)
    BY <2>1 DEF Surjection
  <2>3. IsFiniteSet(1..Len(Chats))
    <3>1. Len(Chats) \in Int
      BY <2>1
    <3>2. QED BY <3>1, FS_Interval
  <2>4. QED BY <2>2, <2>3, FS_Surjection
<1>2. IsFiniteSet(1..ChatCap)
  <2>1. ChatCap \in Int
    BY Numbers
  <2>2. QED BY <2>1, FS_Interval
<1>3. IsFiniteSet(Chat \X (1..ChatCap))
  BY <1>1, <1>2, FS_Product
<1>4. \A l : Units(l, k) \in SUBSET (Chat \X (1..ChatCap))
  BY DEF Units
<1>5. IsFiniteSet(posted)
  <2>1. IsFiniteSet(Row) /\ Row \in SUBSET Row
    BY RowsFinite
  <2>2. IsFiniteSet({"addressed", "other"})
    <3>1. {"addressed", "other"} = {"addressed"} \cup {"other"} /\ IsFiniteSet({"addressed"})
      BY FS_Singleton
    <3>2. QED BY <3>1, FS_AddElement
  <2>3. IsFiniteSet(1..MaxAttempts)
    <3>1. MaxAttempts \in Int
      BY Numbers
    <3>2. QED BY <3>1, FS_Interval
  <2> DEFINE pairs == (Row \X Class) \X (1..MaxAttempts)
             sends == Row \X Class \X (1..MaxAttempts)
             f == [x \in pairs |-> <<x[1][1], x[1][2], x[2]>>]
  <2>4. IsFiniteSet(pairs)
    <3>1. IsFiniteSet(Row \X Class)
      BY <2>1, <2>2, FS_Product DEF Class
    <3>2. QED BY <2>3, <3>1, FS_Product
  <2>5. f \in Surjection(pairs, sends)
    <3>1. f \in [pairs -> sends]
      OBVIOUS
    <3>2. ASSUME NEW t \in sends PROVE \E x \in pairs : f[x] = t
      <4>1. <<<<t[1], t[2]>>, t[3]>> \in pairs /\ t = <<t[1], t[2], t[3]>>
        OBVIOUS
      <4>2. f[<<<<t[1], t[2]>>, t[3]>>] = t
        BY <4>1
      <4>3. QED BY <4>1, <4>2
    <3>3. QED BY <3>1, <3>2 DEF Surjection
  <2>6. IsFiniteSet(sends)
    BY <2>4, <2>5, FS_Surjection
  <2>7. posted \in SUBSET sends
    BY DEF CycleTypes
  <2>8. QED BY <2>6, <2>7, FS_Subset
<1>6. /\ \A c : Posted(c, k) \in SUBSET posted
      /\ {p \in Known : p[2] = k} \in SUBSET posted
  BY DEF Posted, Known
<1>7. /\ \A l : IsFiniteSet(Units(l, k))
      /\ \A c : IsFiniteSet(Posted(c, k))
      /\ IsFiniteSet({p \in Known : p[2] = k})
  BY <1>3, <1>4, <1>5, <1>6, FS_Subset
<1>8. Lost \in Nat
  <2>1. spent["crash"] \in Nat /\ spent["save"] \in Nat
    BY CrashTypes
  <2>2. \A a, b \in Nat : a + b \in Nat
    OBVIOUS
  <2>3. QED BY <2>1, <2>2 DEF Lost
<1>9. QED BY <1>5, <1>7, <1>8, FS_CardinalityType

\* What is in either of two sets is not more than in both together.
LEMMA AtMostBoth ==
    ASSUME NEW A, IsFiniteSet(A), NEW B, IsFiniteSet(B), NEW S \in SUBSET (A \cup B)
    PROVE  /\ Cardinality(S) \in Nat /\ Cardinality(A) \in Nat /\ Cardinality(B) \in Nat
           /\ Cardinality(S) =< Cardinality(A) + Cardinality(B)
<1>1. /\ IsFiniteSet(A \cup B) /\ Cardinality(A \cap B) \in Nat
      /\ Cardinality(A \cup B) = Cardinality(A) + Cardinality(B) - Cardinality(A \cap B)
  BY FS_Union, FS_Intersection, FS_CardinalityType
<1>2. IsFiniteSet(S) /\ Cardinality(S) =< Cardinality(A \cup B)
  BY <1>1, FS_Subset
<1>3. Cardinality(S) \in Nat /\ Cardinality(A) \in Nat /\ Cardinality(B) \in Nat
  BY <1>2, FS_CardinalityType
<1>4. QED BY <1>1, <1>2, <1>3

LEMMA MoreLost ==
    ASSUME NEW n \in Nat, NEW day \in Nat, NEW cap \in Nat, NEW lost \in Nat
    PROVE  /\ Within(n, day, cap, lost) /\ day =< cap => Within(n, 0, cap, lost + 1)
           /\ Within(n, day, cap, lost) /\ day =< cap => n =< cap * (1 + lost)
           /\ \A d \in Nat : Within(n, day, cap, lost) /\ day =< d => Within(n, d, cap, lost)
           /\ Within(n, day, cap, lost) => Within(n + 1, day + 1, cap, lost)
           /\ \A m \in Nat : Within(n, day, cap, lost) /\ m =< n => Within(m, day, cap, lost)
<1>1. PICK m \in Nat : m = cap * lost
  OBVIOUS
<1>2. cap * (lost + 1) = m + cap /\ cap * (1 + lost) = m + cap
  BY <1>1
<1>3. QED BY <1>1, <1>2 DEF Within

\* A ledger with the same day and counters as another bounds what the other bounds.
CountsAs(l, m) == \A c \in Chat, k \in Class : m.chat[c].count[k] = l.chat[c].count[k]
SameCounts(l, m) == m.today = l.today /\ CountsAs(l, m)
LEMMA CapsAgain ==
    ASSUME CycleTypes, CapsInv, script' = script, Known' \subseteq Known,
           spent'["crash"] = spent["crash"], spent'["save"] = spent["save"],
           \/ SameCounts(led, led')
           \/ Known' = {} /\ CountsAs(led, led'),
           saved' = saved \/ saved' = led \/ CountsAs(saved, saved'),
           pc' # "idle" => led'.today
    PROVE  CapsInv'
<1>1. ASSUME NEW k \in Class
      PROVE  /\ Units(led', k) = Units(led, k)
             /\ Units(saved', k) \in {Units(saved, k), Units(led, k)}
  BY DEF Units, SameCounts, CountsAs
<1>2. Lost' = Lost
  BY DEF Lost
<1>3. \A k, c : Posted(c, k)' = {p \in Known' : ChatOf(p[1]) = c /\ p[2] = k}
  BY DEF Posted, ChatOf, LaneOf
<1> HIDE DEF Known
<1>4. ASSUME NEW k \in Class
      PROVE  /\ \A c \in Chat : Within(Cardinality(Posted(c, k)'),
                                  Today(led', led'.chat[c].count[k]), ChatCap, Lost)
             /\ Within(Cardinality({p \in Known' : p[2] = k}),
                       Today(led', Cardinality(Units(led', k))), GlobalCap, Lost)
  <2>1. CASE SameCounts(led, led')
    <3> DEFINE all == {p \in Known : p[2] = k}
               now == {p \in Known' : p[2] = k}
    <3>1. /\ led'.today = led.today /\ \A c \in Chat : led'.chat[c].count[k] = led.chat[c].count[k]
      BY <2>1 DEF SameCounts, CountsAs
    <3>2. (\A c : Posted(c, k)' \in SUBSET Posted(c, k)) /\ now \in SUBSET all
      BY <1>3 DEF Posted
    <3>3. /\ \A c : IsFiniteSet(Posted(c, k)) /\ Cardinality(Posted(c, k)) \in Nat
          /\ IsFiniteSet(all) /\ Cardinality(all) \in Nat
          /\ Cardinality(Units(led, k)) \in Nat /\ Lost \in Nat
          /\ ChatCap \in Nat /\ GlobalCap \in Nat
      BY CountedSets, Numbers
    <3>4. /\ \A c \in Chat : Within(Cardinality(Posted(c, k)),
                                   Today(led, led.chat[c].count[k]), ChatCap, Lost)
          /\ Within(Cardinality(all), Today(led, Cardinality(Units(led, k))), GlobalCap, Lost)
      BY DEF CapsInv
    <3> HIDE DEF all, now
    <3>5. ASSUME NEW S, NEW T \in SUBSET S, IsFiniteSet(S), NEW day \in Nat, NEW cap \in Nat,
                 Within(Cardinality(S), day, cap, Lost)
          PROVE  Within(Cardinality(T), day, cap, Lost)
      <4>1. IsFiniteSet(T) /\ Cardinality(T) =< Cardinality(S)
        BY <3>5, FS_Subset
      <4>2. Cardinality(T) \in Nat /\ Cardinality(S) \in Nat
        BY <3>5, <4>1, FS_CardinalityType
      <4>3. QED BY <3>3, <3>5, <4>1, <4>2, MoreLost
    <3>6. \A c \in Chat : Today(led, led.chat[c].count[k]) \in Nat
      <4>1. led \in Ledger /\ \A c \in Chat : led.chat[c].count[k] \in 0..ChatCap
        BY LedgerParts DEF CycleTypes
      <4>2. QED BY <4>1 DEF Today
    <3>7. Today(led, Cardinality(Units(led, k))) \in Nat
      BY <3>3 DEF Today
    <3>8. \A c \in Chat : Within(Cardinality(Posted(c, k)'),
                                Today(led, led.chat[c].count[k]), ChatCap, Lost)
      BY <3>2, <3>3, <3>4, <3>5, <3>6
    <3>9. Within(Cardinality(now), Today(led, Cardinality(Units(led, k))), GlobalCap, Lost)
      BY <3>2, <3>3, <3>4, <3>5, <3>7
    <3>10. QED BY <1>1, <3>1, <3>8, <3>9 DEF Today, now
  <2>2. CASE Known' = {}
    <3>1. (\A c : Posted(c, k)' = {}) /\ {p \in Known' : p[2] = k} = {}
      BY <1>3, <2>2
    <3>2. Cardinality({}) = 0
      BY FS_EmptySet
    <3>3. /\ \A c \in Chat : Today(led', led'.chat[c].count[k]) \in Nat
          /\ Today(led', Cardinality(Units(led', k))) \in Nat
      <4>1. led \in Ledger /\ \A c \in Chat : led'.chat[c].count[k] = led.chat[c].count[k]
        BY DEF CycleTypes, SameCounts, CountsAs
      <4>2. \A c \in Chat : led.chat[c].count[k] \in 0..ChatCap
        BY <4>1, LedgerParts
      <4>3. Cardinality(Units(led', k)) \in Nat
        BY CountedSets
      <4>4. QED BY <4>1, <4>2, <4>3 DEF Today
    <3>4. \A n \in Nat, c \in Nat : Within(0, n, c, Lost)
      <4>1. Lost \in Nat
        BY CountedSets
      <4>2. ASSUME NEW n \in Nat, NEW c \in Nat PROVE Within(0, n, c, Lost)
        <5>1. Within(0, 0, c, Lost)
          BY <4>1 DEF Within
        <5>2. 0 =< n
          OBVIOUS
        <5>3. QED BY <4>1, <5>1, <5>2, MoreLost
      <4>3. QED BY <4>2
    <3>5. QED BY <3>1, <3>2, <3>3, <3>4, Numbers
  <2>3. QED BY <2>1, <2>2
<1>5. \A k \in Class : Cardinality(Units(led', k)) =< GlobalCap /\ Cardinality(Units(saved', k)) =< GlobalCap
  BY <1>1 DEF CapsInv
<1>6. \A k \in Class : /\ (Cardinality(Units(led, k)))' = Cardinality(Units(led', k))
                       /\ (Cardinality(Units(saved, k)))' = Cardinality(Units(saved', k))
  BY DEF Units
<1>7. QED BY <1>2, <1>4, <1>5, <1>6 DEF CapsInv

\* A ledger of another day starts counting anew; the replies of that day are gone.
LEMMA CapsBegin ==
    ASSUME CycleInv, CapsInv, Begin
    PROVE  CapsInv'
<1>1. /\ led' = DayRolled(saved) /\ led = saved /\ saved' = saved /\ Known' = Known
      /\ spent' = spent /\ script' = script
  BY DEF Begin, CycleInv, PassShape, history, Known
<1>2. CycleTypes /\ saved \in Ledger
  BY DEF CycleInv, CycleTypes
<1>3. /\ DayRolled(saved).today /\ (saved.today => DayRolled(saved) = saved)
      /\ ~saved.today => \A c \in Chat, k \in Class : DayRolled(saved).chat[c].count[k] = 0
  BY <1>2, DayRolledOK
<1>4. CASE saved.today
  <2>1. SameCounts(led, led') /\ led'.today
    BY <1>1, <1>3, <1>4 DEF SameCounts, CountsAs
  <2>2. QED BY <1>1, <1>2, <2>1, CapsAgain
<1>5. CASE ~saved.today
  <2>1. ASSUME NEW k \in Class
        PROVE  /\ Units(led', k) = {} /\ Units(saved', k) = Units(saved, k)
               /\ \A c \in Chat : led'.chat[c].count[k] = 0
    <3>1. \A c \in Chat : led'.chat[c].count[k] = 0
      BY <1>1, <1>3, <1>5
    <3>2. \A n \in 1..ChatCap : ~(n =< 0)
      BY Numbers
    <3>3. QED BY <1>1, <3>1, <3>2 DEF Units
  <2>2. Cardinality({}) = 0 /\ 0 =< GlobalCap
    BY FS_EmptySet, Numbers
  <2>3. /\ \A k, c : Posted(c, k)' = Posted(c, k)
        /\ Lost' = Lost
    BY <1>1 DEF Posted, ChatOf, LaneOf, Lost
  <2>4. ASSUME NEW k \in Class
        PROVE  /\ \A c \in Chat : Within(Cardinality(Posted(c, k)),
                                    Today(led', led'.chat[c].count[k]), ChatCap, Lost)
               /\ Within(Cardinality({p \in Known : p[2] = k}),
                         Today(led', Cardinality(Units(led', k))), GlobalCap, Lost)
    BY <1>1, <1>3, <1>5, <2>1, <2>2 DEF CapsInv, Today
  <2>5. \A k \in Class : /\ (Cardinality(Units(led, k)))' = Cardinality(Units(led', k))
                         /\ (Cardinality(Units(saved, k)))' = Cardinality(Units(saved', k))
    BY DEF Units
  <2>6. \A k \in Class : Cardinality(Units(led', k)) =< GlobalCap /\ Cardinality(Units(saved', k)) =< GlobalCap
    BY <2>1, <2>2 DEF CapsInv
  <2>7. QED BY <1>1, <1>3, <2>3, <2>4, <2>5, <2>6 DEF CapsInv
<1>6. QED BY <1>4, <1>5

\* A lost ledger costs each counter at most its cap.
LEMMA CapsForget ==
    ASSUME CycleInv, CapsInv, SaveFails \/ Crash
    PROVE  CapsInv'
<1>1. /\ Forget /\ (Spend("save") \/ Spend("crash"))
      /\ led' = saved /\ saved' = saved /\ Known' = Known /\ script' = script /\ pc' = "idle"
  BY DEF SaveFails, Crash, Forget, history, Known
<1>2. CycleTypes /\ led \in Ledger /\ saved \in Ledger /\ Lost \in Nat
  BY CountedSets DEF CycleInv, CycleTypes, Class
<1>3. Lost' = Lost + 1
  <2>1. {"crash", "save"} \subseteq Fault
    BY DEF Fault
  <2>2. \/ spent'["save"] = spent["save"] + 1 /\ spent'["crash"] = spent["crash"]
        \/ spent'["save"] = spent["save"] /\ spent'["crash"] = spent["crash"] + 1
    BY <1>1, <1>2, <2>1, SpendKeeps
  <2>3. PICK a \in Nat, b \in Nat : a = spent["crash"] /\ b = spent["save"]
    BY <1>2, CrashTypes
  <2>4. \A m, n \in Nat : m + (n + 1) = m + n + 1 /\ m + 1 + n = m + n + 1
    OBVIOUS
  <2>5. QED BY <2>2, <2>3, <2>4 DEF Lost
<1>4. \A k, c : Posted(c, k)' = Posted(c, k)
  BY <1>1 DEF Posted, ChatOf, LaneOf
<1>5. ASSUME NEW k \in Class
      PROVE  /\ \A c \in Chat : Within(Cardinality(Posted(c, k)),
                                  Today(saved, saved.chat[c].count[k]), ChatCap, Lost + 1)
             /\ Within(Cardinality({p \in Known : p[2] = k}),
                       Today(saved, Cardinality(Units(saved, k))), GlobalCap, Lost + 1)
  <2>1. ASSUME NEW n \in Nat, NEW day \in Nat, NEW cap \in Nat, NEW d \in Nat,
               day =< cap, Within(n, Today(led, day), cap, Lost)
        PROVE  Within(n, Today(saved, d), cap, Lost + 1)
    <3>1. Today(led, day) \in Nat /\ Today(led, day) =< cap /\ Today(saved, d) \in Nat
          /\ 0 =< Today(saved, d) /\ Lost + 1 \in Nat
      BY <1>2, <2>1 DEF Today
    <3>2. Within(n, 0, cap, Lost + 1)
      BY <1>2, <2>1, <3>1, MoreLost
    <3>3. QED BY <3>1, <3>2, MoreLost
  <2>2. /\ \A c \in Chat : /\ led.chat[c].count[k] \in 0..ChatCap
                           /\ saved.chat[c].count[k] \in 0..ChatCap
        /\ ChatCap \in Nat /\ GlobalCap \in Nat
    BY <1>2, LedgerParts, Numbers
  <2>3. /\ \A c \in Chat : /\ led.chat[c].count[k] \in Nat /\ led.chat[c].count[k] =< ChatCap
                           /\ saved.chat[c].count[k] \in Nat
        /\ ChatCap \in Nat /\ GlobalCap \in Nat
    BY <2>2
  <2>4. /\ \A l : Cardinality(Units(l, k)) \in Nat
        /\ \A c : Cardinality(Posted(c, k)) \in Nat
        /\ Cardinality({p \in Known : p[2] = k}) \in Nat
    BY <1>2, CountedSets
  <2>5. QED BY <2>1, <2>3, <2>4 DEF CapsInv
<1>6. \A k \in Class : /\ (Cardinality(Units(led, k)))' = Cardinality(Units(saved, k))
                       /\ (Cardinality(Units(saved, k)))' = Cardinality(Units(saved, k))
  BY <1>1 DEF Units
<1>7. \A k \in Class : Cardinality(Units(saved, k)) =< GlobalCap
  BY DEF CapsInv
<1>8. QED BY <1>1, <1>3, <1>4, <1>5, <1>6, <1>7 DEF CapsInv

\* An accepted reply takes one unit of its chat's counter, which had one left.
LEMMA CapsDelivered ==
    ASSUME CycleInv, CapsInv, Delivered
    PROVE  CapsInv'
<1>1. /\ pc = "apply" /\ pc' = "log" /\ pass.plans # <<>> /\ ~OverCap
      /\ UNCHANGED <<script, saved, spent>>
  BY DoingDoes DEF Doing
<1>2. /\ led' = Counted(led) /\ plan.act \in {"reply", "react"}
      /\ Known \subseteq Known' /\ Known' \subseteq Known \cup {sending}
      /\ plan.act = "reply" \/ Known' = Known
  BY DEF Delivered, Deliverable, Known
<1>3. /\ CycleTypes /\ led \in Ledger /\ chat \in Chat /\ class \in Class /\ ChatOf(plan.row) = chat
      /\ led.today /\ Lost \in Nat
  BY <1>1, PlanAtHand, CountedSets DEF CycleInv, CycleTypes, CapsInv
<1>4. /\ plan.act = "reply" => led.chat[chat].count[class] < ChatCap /\ ~(Total(class) >= GlobalCap)
      /\ plan.act = "react" => led.reacts < ReactCap
  BY <1>1, RoomLeft
<1>5. /\ led'.today = led.today
      /\ \A c \in Chat, k \in Class : led'.chat[c].count[k] =
           IF plan.act = "reply" /\ c = chat /\ k = class
           THEN led.chat[c].count[k] + 1 ELSE led.chat[c].count[k]
  BY <1>2, <1>3, <1>4, CountedOK
<1>6. CASE plan.act = "react"
  <2>1. SameCounts(led, led') /\ Known' = Known
    BY <1>2, <1>5, <1>6 DEF SameCounts, CountsAs
  <2>2. led'.today
    BY <1>3, <1>5
  <2>3. QED BY <1>1, <1>3, <2>1, <2>2, CapsAgain
<1>7. CASE plan.act = "reply"
  <2> DEFINE n == led.chat[chat].count[class]
             unit == <<chat, n + 1>>
             mine == sending
             all(k) == {p \in Known : p[2] = k}
             after(k) == {p \in Known' : p[2] = k}
  <2>1. n \in Nat /\ n + 1 \in 1..ChatCap
    <3>1. n \in 0..ChatCap /\ n < ChatCap
      BY <1>3, <1>4, <1>7, LedgerParts
    <3>2. QED BY <3>1, Numbers
  <2>2. \A k, c : Posted(c, k)' = {p \in Known' : ChatOf(p[1]) = c /\ p[2] = k}
    BY <1>1 DEF Posted, ChatOf, LaneOf
  <2>14. mine[1] = plan.row /\ mine[2] = class
    BY DEF sending
  <2>3. Units(led', class) = Units(led, class) \cup {unit}
    <3>1. ASSUME NEW u \in Units(led', class) PROVE u \in Units(led, class) \cup {unit}
      <4>1. u \in Chat \X (1..ChatCap) /\ u[2] =< led'.chat[u[1]].count[class]
        BY <3>1 DEF Units
      <4>2. CASE u[1] = chat
        <5>1. PICK m \in 1..ChatCap : u[2] = m /\ u = <<chat, m>>
          BY <4>1, <4>2
        <5>2. m =< n + 1
          BY <1>3, <1>5, <1>7, <4>1, <4>2, <5>1
        <5>3. m =< n \/ m = n + 1
          BY <2>1, <5>1, <5>2, Numbers
        <5>4. QED BY <4>1, <4>2, <5>1, <5>3 DEF Units
      <4>3. CASE u[1] # chat
        <5>1. u[2] =< led.chat[u[1]].count[class]
          BY <1>3, <1>5, <4>1, <4>3
        <5>2. QED BY <4>1, <5>1 DEF Units
      <4>4. QED BY <4>2, <4>3
    <3>2. ASSUME NEW u \in Units(led, class) \cup {unit} PROVE u \in Units(led', class)
      <4>1. CASE u = unit
        <5>1. led'.chat[chat].count[class] = n + 1
          BY <1>3, <1>5, <1>7
        <5>2. n + 1 =< n + 1
          BY <2>1
        <5>3. u \in Chat \X (1..ChatCap) /\ u[1] = chat /\ u[2] = n + 1
          BY <1>3, <2>1, <4>1
        <5>4. QED BY <5>1, <5>2, <5>3 DEF Units
      <4>2. CASE u \in Units(led, class)
        <5>1. u \in Chat \X (1..ChatCap) /\ u[2] =< led.chat[u[1]].count[class] /\ u[1] \in Chat
          BY <4>2 DEF Units
        <5>2. CASE u[1] = chat
          <6>1. u[2] \in Nat /\ u[2] =< n
            BY <5>1, <5>2, Numbers
          <6>2. u[2] =< n + 1
            BY <2>1, <6>1
          <6>3. led'.chat[u[1]].count[class] = n + 1
            BY <1>3, <1>5, <1>7, <5>2
          <6>4. QED BY <5>1, <6>2, <6>3 DEF Units
        <5>3. CASE u[1] # chat
          BY <1>3, <1>5, <5>1, <5>3 DEF Units
        <5>4. QED BY <5>2, <5>3
      <4>3. QED BY <3>2, <4>1, <4>2
    <3>3. QED BY <3>1, <3>2
  <2>4. unit \notin Units(led, class)
    <3>1. ~(n + 1 =< n)
      BY <2>1
    <3>2. QED BY <3>1 DEF Units
  <2>5. Cardinality(Units(led', class)) = Cardinality(Units(led, class)) + 1
    <3>1. IsFiniteSet(Units(led, class))
      BY <1>3, CountedSets
    <3> HIDE DEF unit
    <3>2. QED BY <2>3, <2>4, <3>1, FS_AddElement
  <2>6. \A k \in Class : k # class => Units(led', k) = Units(led, k)
    BY <1>5 DEF Units
  <2>7. \A k \in Class : Cardinality(Units(led', k)) =< GlobalCap
    <3>1. ~(Cardinality(Units(led, class)) >= GlobalCap)
      BY <1>4, <1>7 DEF Total, Units
    <3>2. Cardinality(Units(led, class)) \in Nat /\ GlobalCap \in Nat
      BY <1>3, CountedSets, Numbers
    <3>3. Cardinality(Units(led, class)) + 1 =< GlobalCap
      BY <3>1, <3>2
    <3>4. QED BY <2>5, <2>6, <3>3 DEF CapsInv
  <2>8. Known' \subseteq Known \cup {mine}
    BY <1>2
  <2>9. ASSUME NEW S, NEW T, IsFiniteSet(S), T \subseteq S \cup {mine}
        PROVE  Cardinality(T) =< Cardinality(S) + 1 /\ Cardinality(T) \in Nat /\ Cardinality(S) \in Nat
    <3> HIDE DEF mine
    <3>1. IsFiniteSet(S \cup {mine}) /\ Cardinality(S) \in Nat
          /\ Cardinality(S \cup {mine}) = IF mine \in S THEN Cardinality(S) ELSE Cardinality(S) + 1
      BY <2>9, FS_AddElement, FS_CardinalityType
    <3>2. IsFiniteSet(T) /\ Cardinality(T) =< Cardinality(S \cup {mine})
      BY <2>9, <3>1, FS_Subset
    <3>3. Cardinality(T) \in Nat /\ Cardinality(S \cup {mine}) \in Nat
      BY <3>1, <3>2, FS_CardinalityType
    <3>4. QED BY <3>1, <3>2, <3>3
  <2>10. ASSUME NEW k \in Class
         PROVE  /\ \A c \in Chat : Within(Cardinality(Posted(c, k)'),
                                     Today(led', led'.chat[c].count[k]), ChatCap, Lost)
                /\ Within(Cardinality(after(k)), Today(led', Cardinality(Units(led', k))), GlobalCap, Lost)
    <3>1. /\ \A l : Cardinality(Units(l, k)) \in Nat
          /\ \A c : IsFiniteSet(Posted(c, k)) /\ Cardinality(Posted(c, k)) \in Nat
          /\ IsFiniteSet(all(k)) /\ Cardinality(all(k)) \in Nat
          /\ \A c \in Chat : led.chat[c].count[k] \in 0..ChatCap
      BY <1>3, CountedSets, LedgerParts
    <3>2. /\ \A c \in Chat : /\ led.chat[c].count[k] \in Nat
                             /\ Within(Cardinality(Posted(c, k)), led.chat[c].count[k], ChatCap, Lost)
          /\ Within(Cardinality(all(k)), Cardinality(Units(led, k)), GlobalCap, Lost)
      BY <1>3, <3>1 DEF CapsInv, Today
    <3>3. ASSUME NEW S, NEW T, IsFiniteSet(S), T \subseteq S \cup {mine}, NEW d \in Nat, NEW cap \in Nat,
                 Within(Cardinality(S), d, cap, Lost)
          PROVE  Within(Cardinality(T), d + 1, cap, Lost)
      <4>1. Cardinality(T) =< Cardinality(S) + 1 /\ Cardinality(T) \in Nat /\ Cardinality(S) \in Nat
        BY <2>9, <3>3
      <4>2. Within(Cardinality(S) + 1, d + 1, cap, Lost)
        BY <1>3, <3>3, <4>1, MoreLost
      <4>3. PICK b \in Nat : b = d + 1 + cap * Lost
        BY <1>3, <3>3
      <4>4. QED BY <4>1, <4>2, <4>3 DEF Within
    <3>4. ASSUME NEW c \in Chat
          PROVE  Within(Cardinality(Posted(c, k)'), led'.chat[c].count[k], ChatCap, Lost)
      <4>1. CASE c = chat /\ k = class
        <5>1. Posted(c, k)' \subseteq Posted(c, k) \cup {mine}
          BY <2>2, <2>8 DEF Posted
        <5>2. led'.chat[c].count[k] = led.chat[c].count[k] + 1
          BY <1>5, <1>7, <4>1
        <5>3. QED BY <3>1, <3>2, <3>3, <5>1, <5>2, Numbers
      <4>2. CASE ~(c = chat /\ k = class)
        <5>1. Posted(c, k)' = Posted(c, k)
          <6>1. ~(ChatOf(mine[1]) = c /\ mine[2] = k)
            BY <1>3, <2>14, <4>2
          <6>2. Known \subseteq Known'
            BY <1>2
          <6>3. QED BY <2>2, <2>8, <6>1, <6>2 DEF Posted
        <5>2. led'.chat[c].count[k] = led.chat[c].count[k]
          BY <1>5, <1>7, <4>2
        <5>3. QED BY <3>2, <5>1, <5>2
      <4>3. QED BY <4>1, <4>2
    <3>5. Within(Cardinality(after(k)), Cardinality(Units(led', k)), GlobalCap, Lost)
      <4>1. CASE k = class
        <5>1. after(k) \subseteq all(k) \cup {mine}
          BY <2>8
        <5>2. QED BY <2>5, <3>1, <3>2, <3>3, <4>1, <5>1, Numbers
      <4>2. CASE k # class
        <5>1. after(k) = all(k)
          <6>1. ~(mine[2] = k)
            BY <2>14, <4>2
          <6>2. Known \subseteq Known'
            BY <1>2
          <6>3. QED BY <2>8, <6>1, <6>2
        <5>2. QED BY <2>6, <3>2, <4>2, <5>1
      <4>3. QED BY <4>1, <4>2
    <3>6. QED BY <1>3, <1>5, <3>4, <3>5 DEF Today
  <2>11. /\ Lost' = Lost
         /\ \A k \in Class : /\ (Cardinality(Units(led, k)))' = Cardinality(Units(led', k))
                             /\ (Cardinality(Units(saved, k)))' = Cardinality(Units(saved, k))
    BY <1>1 DEF Lost, Units
  <2>12. \A k \in Class : Cardinality(Units(saved, k)) =< GlobalCap
    BY DEF CapsInv
  <2>13. QED BY <1>1, <1>3, <1>5, <2>7, <2>10, <2>11, <2>12 DEF CapsInv
<1>8. QED BY <1>2, <1>6, <1>7

LEMMA CapsParts ==
    ASSUME CycleInv, CycleInv', CapsInv, [Next]_vars
    PROVE  CapsInv'
<1>0. CycleTypes /\ led \in Ledger /\ saved \in Ledger /\ (pc # "idle" => led.today)
  BY DEF CycleInv, CycleTypes, CapsInv
<1>1. Fault = {"crash", "save", "log", "read", "notify", "other"}
  BY DEF Fault
<1>2. ASSUME spent' = spent \/ \E f \in Fault \ {"crash", "save"} : Spend(f)
      PROVE  spent'["crash"] = spent["crash"] /\ spent'["save"] = spent["save"]
  BY <1>0, <1>1, <1>2, SpendKeeps
\* Steps that touch no counter and no reply that is known to be sent.
<1>3. ASSUME script' = script, Known' \subseteq Known, SameCounts(led, led'),
             spent' = spent \/ \E f \in Fault \ {"crash", "save"} : Spend(f),
             saved' = saved \/ saved' = led, pc # "idle" \/ pc' = "idle"
      PROVE  CapsInv'
  <2>1. pc' # "idle" => led'.today
    BY <1>0, <1>3 DEF SameCounts
  <2>2. QED BY <1>0, <1>2, <1>3, <2>1, CapsAgain
<1>4. SameCounts(led, led)
  BY DEF SameCounts, CountsAs
<1>5. CASE UNCHANGED vars \/ Arrive
  <2>1. /\ script' = script /\ Known' = Known /\ led' = led /\ spent' = spent /\ saved' = saved
        /\ pc' = pc
    BY <1>5 DEF Arrive, vars, work, history, Known
  <2>2. QED BY <1>3, <1>4, <2>1
<1>6. CASE Begin
  BY <1>6, CapsBegin
<1>7. CASE SaveFails \/ Crash
  BY <1>7, CapsForget
<1>8. CASE Save
  <2>1. /\ script' = script /\ Known' = Known /\ led' = led /\ spent' = spent /\ saved' = led
        /\ pc # "idle"
    BY <1>8 DEF Save, history, Known
  <2>2. QED BY <1>3, <1>4, <2>1
<1>9. CASE Served
  <2>1. SameCounts(led, led')
    BY <1>9, ServedLedger DEF SameCounts, CountsAs
  <2>2. /\ script' = script /\ Known' = Known /\ saved' = saved /\ pc # "idle"
        /\ (spent' = spent \/ Spend("other"))
    BY <1>9, ServedDoes DEF history, Known
  <2>3. QED BY <1>1, <1>3, <2>1, <2>2
<1>10. CASE World
  <2>1. /\ pc = "idle" /\ pc' = "idle" /\ script' = script /\ spent' = spent /\ led = saved
    BY <1>10, WorldDoes DEF CycleInv, PassShape
  <2>2. CASE TimePasses
    <3>1. /\ led' = Rested(saved) /\ saved' = Rested(saved) /\ Known' = Known
      BY <2>2 DEF TimePasses, history, Known
    <3>2. SameCounts(led, led') /\ CountsAs(saved, saved')
      BY <1>0, <2>1, <3>1, RestedOK DEF SameCounts, CountsAs
    <3>3. QED BY <1>0, <2>1, <3>1, <3>2, CapsAgain
  <2>3. CASE NextDay
    <3>1. saved' = [saved EXCEPT !.today = FALSE] /\ led' = saved' /\ Known' = {}
      BY <2>3 DEF NextDay, Known
    <3>2. saved'.chat = saved.chat
      BY <1>0, <3>1 DEF Ledger
    <3>3. CountsAs(led, led') /\ CountsAs(saved, saved')
      BY <2>1, <3>1, <3>2 DEF CountsAs
    <3>4. QED BY <1>0, <2>1, <3>1, <3>3, CapsAgain
  <2>4. CASE \E a \in Key : Drain(a)
    <3>1. led' = led /\ saved' = saved /\ Known' = Known
      BY <2>4 DEF Drain, history, Known
    <3>2. QED BY <1>3, <1>4, <2>1, <3>1
  <2>5. QED BY <1>10, <2>2, <2>3, <2>4 DEF World
<1>11. CASE Fetch
  <2>1. /\ pc = "chat" /\ led' = Seeded /\ saved' = saved /\ Known' = Known
        /\ script' = script /\ (spent' = spent \/ Spend("read"))
    BY <1>0, <1>11, FetchDoes DEF Fetch, history, Known
  <2>2. SameCounts(led, led')
    BY <1>0, <1>11, <2>1, FetchDoes, SeededOK DEF SameCounts, CountsAs
  <2>3. QED BY <1>1, <1>3, <2>1, <2>2
<1>12. CASE Asking
  <2>1. SameCounts(led, led')
    <3>1. \A b \in pass.todo : b.rows # {} /\ b.rows \subseteq 1..arrived
      BY <1>12, AskingDoes DEF CycleInv, PassShape, InScene
    <3>2. led' = led \/ LaneAnswered
      BY <1>0, <1>12, <3>1, AskInvalidDoes, AskValidDoes DEF Asking, PassOver
    <3>3. QED BY <3>2 DEF LaneAnswered, SameCounts, CountsAs
  <2>2. /\ script' = script /\ Known' = Known /\ saved' = saved /\ pc # "idle" /\ spent' = spent
    BY <1>12, AskingDoes DEF Known
  <2>3. QED BY <1>3, <2>1, <2>2
<1>13. CASE AllAsked
  <2>1. /\ pc = "decide" /\ led' = led /\ saved' = saved /\ spent' = spent /\ Known' = Known
        /\ script' = script
    BY <1>13 DEF AllAsked, history, Known
  <2>2. QED BY <1>3, <1>4, <2>1
<1>14. CASE Validate
  <2>1. /\ pc = "validate" /\ led' = led /\ saved' = saved /\ Known' = Known /\ script' = script
        /\ spent' = spent \/ Spend("other")
    BY <1>14, ValidateDoes DEF Known
  <2>2. QED BY <1>1, <1>3, <1>4, <2>1
<1>15. CASE Taking
  <2>1. /\ pc \in {"apply", "log"} /\ led' = led /\ saved' = saved /\ Known' \subseteq Known
        /\ script' = script
    BY <1>15, TakingDoes
  <2>2. spent' = spent \/ Spend("other") \/ Spend("log") \/ Spend("notify")
    BY <1>15 DEF Taking, ApplyDeferred, ApplyNothing, DeliveryFails, NotDue, DeadLettered,
                 NoteLost, NotifyRaises, LogAction
  <2>3. QED BY <1>1, <1>3, <1>4, <2>1, <2>2
<1>16. CASE Doing
  <2>1. CASE Delivered
    BY <2>1, CapsDelivered
  <2>2. CASE SideEffectDone
    <3>1. pc = "apply" /\ led' = led /\ Known' = Known /\ script' = script /\ saved' = saved /\ spent' = spent
      BY <1>16, <2>2, DoingDoes DEF SideEffectDone, Known
    <3>2. QED BY <1>3, <1>4, <3>1
  <2>3. QED BY <1>16, <2>1, <2>2 DEF Doing
<1>17. QED BY <1>5, <1>6, <1>7, <1>8, <1>9, <1>10, <1>11, <1>12, <1>13, <1>14, <1>15, <1>16, Steps
          DEF Asking

\* No more replies are accepted in a day than the caps allow, per chat and class and
\* over all chats: each ledger lost to a crash or a failed save costs a cap at most once,
\* and a send that failed for the cycle although Telegram accepted it counts as one more.
THEOREM CapsHoldAlways == Spec => []CapsHold
<1>1. Init => CapsInv
  <2> SUFFICES ASSUME Init PROVE CapsInv
    OBVIOUS
  <2>1. /\ pc = "idle" /\ led = NewLedger /\ saved = NewLedger /\ Known = {}
        /\ spent = [f \in Fault |-> 0]
    BY DEF Init, Known
  <2>2. NewLedger.today = TRUE /\ \A c \in Chat, k \in Class : NewLedger.chat[c].count[k] = 0
    BY DEF NewLedger, NewChat
  <2>3. \A k \in Class : Units(NewLedger, k) = {}
    <3>1. \A n \in 1..ChatCap : ~(n =< 0)
      BY Numbers
    <3>2. QED BY <2>2, <3>1 DEF Units
  <2>4. (\A k, c : Posted(c, k) = {}) /\ \A k : {p \in Known : p[2] = k} = {}
    BY <2>1 DEF Posted
  <2>5. Cardinality({}) = 0
    BY FS_EmptySet
  <2>6. Lost = 0
    BY <2>1 DEF Lost, Fault
  <2>7. \A c \in Nat : Within(0, 0, c, 0) /\ 0 =< c
    BY DEF Within
  <2>8. QED BY <2>1, <2>2, <2>3, <2>4, <2>5, <2>6, <2>7, Numbers DEF CapsInv, Today
<1>2. CycleInv /\ CycleInv' /\ CapsInv /\ [Next]_vars => CapsInv'
  BY CapsParts
<1>3. CycleInv /\ CapsInv => CapsHold
  <2> SUFFICES ASSUME CycleInv, CapsInv PROVE CapsHold
    OBVIOUS
  <2> DEFINE all(k) == {p \in Known : p[2] = k}
             of(sends, c, k) == {p \in sends : ChatOf(p[1]) = c /\ p[2] = k}
             any(sends, k) == UNION {of(sends, c, k) : c \in Chat}
  <2>1. CycleTypes /\ led \in Ledger /\ doubted \in SUBSET posted
    BY DEF CycleInv, CycleTypes
  <2>2. ASSUME NEW k \in Class
        PROVE  /\ \A c \in Chat : Cardinality(Posted(c, k)) =< ChatCap * (1 + Lost)
               /\ Cardinality(all(k)) =< GlobalCap * (1 + Lost)
    <3>1. /\ \A l : Cardinality(Units(l, k)) \in Nat
          /\ \A c : Cardinality(Posted(c, k)) \in Nat
          /\ Cardinality(all(k)) \in Nat /\ Lost \in Nat
          /\ ChatCap \in Nat /\ GlobalCap \in Nat
      BY <2>1, CountedSets, Numbers
    <3>2. \A c \in Chat : led.chat[c].count[k] \in Nat /\ led.chat[c].count[k] =< ChatCap
      <4>1. \A c \in Chat : led.chat[c].count[k] \in 0..ChatCap
        BY <2>1, LedgerParts
      <4>2. QED BY <3>1, <4>1
    <3>3. ASSUME NEW n \in Nat, NEW day \in Nat, NEW cap \in Nat, day =< cap,
                 Within(n, Today(led, day), cap, Lost)
          PROVE  n =< cap * (1 + Lost)
      <4>1. Today(led, day) \in Nat /\ Today(led, day) =< cap
        BY <3>3 DEF Today
      <4>2. QED BY <3>1, <3>3, <4>1, MoreLost
    <3>4. \A c \in Chat : Cardinality(Posted(c, k)) =< ChatCap * (1 + Lost)
      BY <3>1, <3>2, <3>3 DEF CapsInv
    <3>5. Cardinality(all(k)) =< GlobalCap * (1 + Lost)
      BY <3>1, <3>3 DEF CapsInv
    <3>6. QED BY <3>4, <3>5
  \* Each set of sends holds the known ones and those in doubt.
  <2>3. ASSUME NEW cap \in Nat, NEW A, IsFiniteSet(A), Cardinality(A) =< cap * (1 + Lost),
               NEW B, IsFiniteSet(B), NEW S \in SUBSET (A \cup B)
        PROVE  Cardinality(S) =< cap * (1 + Lost) + Cardinality(B)
    <3>1. /\ Cardinality(S) \in Nat /\ Cardinality(A) \in Nat /\ Cardinality(B) \in Nat
          /\ Cardinality(S) =< Cardinality(A) + Cardinality(B)
      BY <2>3, AtMostBoth
    <3>2. Lost \in Nat
      BY <2>1, CountedSets DEF Class
    <3>3. PICK m \in Nat : m = cap * (1 + Lost)
      BY <3>2
    <3>4. QED BY <2>3, <3>1, <3>3
  <2>4. ASSUME NEW k \in Class
        PROVE  /\ \A c \in Chat : Cardinality(of(posted, c, k))
                                    =< ChatCap * (1 + Lost) + Cardinality(of(doubted, c, k))
               /\ Cardinality(any(posted, k)) =< GlobalCap * (1 + Lost) + Cardinality(any(doubted, k))
    <3>1. /\ \A c : IsFiniteSet(Posted(c, k))
          /\ IsFiniteSet(all(k)) /\ IsFiniteSet(posted) /\ ChatCap \in Nat /\ GlobalCap \in Nat
      BY <2>1, CountedSets, Numbers
    <3>2. /\ \A c : of(doubted, c, k) \in SUBSET posted
          /\ any(doubted, k) \in SUBSET posted
      BY <2>1
    <3>3. (\A c : IsFiniteSet(of(doubted, c, k))) /\ IsFiniteSet(any(doubted, k))
      <4> HIDE DEF of, any
      <4>1. QED BY <3>1, <3>2, FS_Subset
    <3>4. \A c : of(posted, c, k) \in SUBSET (Posted(c, k) \cup of(doubted, c, k))
      BY DEF Posted, Known
    <3>5. any(posted, k) \in SUBSET (all(k) \cup any(doubted, k))
      BY DEF Known
    <3> HIDE DEF of, any, all
    <3>6. QED BY <2>2, <2>3, <3>1, <3>3, <3>4, <3>5
  <2>5. QED BY <2>4 DEF CapsHold, Lost
<1>4. QED BY <1>1, <1>2, <1>3, Invariant, PTL DEF Spec

-------------------------------------------------------------------------------
(* What the cursors pass was read, and owes nothing.                        *)

LEMMA BehindFrame ==
    ASSUME script' = script
    PROVE  /\ \A r : (BehindIn(led, r)' <=> BehindIn(led', r)) /\ (BehindIn(saved, r)' <=> BehindIn(saved', r))
           /\ \A r : LaneOf(r)' = LaneOf(r) /\ ChatOf(r)' = ChatOf(r)
BY DEF BehindIn, LaneOf, ChatOf

\* Ledgers with the same cursors have the same messages behind them.
CursorsAs(l, m) == /\ \A c \in Chat : m.chat[c].cursor = l.chat[c].cursor
                   /\ \A x \in Lane : m.lane[x].cursor = l.lane[x].cursor
LEMMA SameBehind ==
    ASSUME CycleTypes, NEW l, NEW m, CursorsAs(l, m)
    PROVE  /\ \A r \in 1..arrived : BehindIn(m, r) <=> BehindIn(l, r)
           /\ Bounded(l) => Bounded(m)
<1>1. \A r \in 1..arrived : LaneOf(r) \in Lane /\ ChatOf(r) \in Chat
  BY ScriptFacts
<1>2. QED BY <1>1 DEF BehindIn, Bounded, CursorsAs

\* The first cursor of a lane is the chat's: nothing new is behind it.
LEMMA SeededBehind ==
    ASSUME CycleTypes, chat \in Chat, Bounded(led)
    PROVE  /\ Bounded(Seeded) /\ \A r \in 1..arrived : BehindIn(Seeded, r) <=> BehindIn(led, r)
<1>1. /\ Seeded \in Ledger /\ Seeded.chat = led.chat
      /\ \A x \in Lane :
            \/ Seeded.lane[x].cursor = led.lane[x].cursor
            \/ /\ led.lane[x].cursor = Unset /\ Home[x] = chat
               /\ Seeded.lane[x].cursor = led.chat[chat].cursor
  BY SeededOK
<1>2. ASSUME NEW r \in 1..arrived PROVE BehindIn(Seeded, r) <=> BehindIn(led, r)
  <2>1. LaneOf(r) \in Lane /\ ChatOf(r) = Home[LaneOf(r)]
    BY ScriptFacts DEF ChatOf
  <2>2. ~(r =< Unset)
    BY DEF Unset
  <2>3. QED BY <1>1, <2>1, <2>2 DEF BehindIn
<1>3. Bounded(Seeded)
  BY <1>1 DEF Bounded
<1>4. QED BY <1>2, <1>3

\* A chat's new cursor is behind nothing but its own messages, up to the page's last.
LEMMA AdvancedBehind ==
    ASSUME CycleTypes, chat \in Chat, NEW l \in Ledger, NEW top \in 0..Rows, Bounded(l), top =< arrived
    PROVE  LET m == ChatAdvanced(l, top)
           IN  /\ Bounded(m)
               /\ \A r \in 1..arrived : BehindIn(l, r) => BehindIn(m, r)
               /\ \A r \in 1..arrived : BehindIn(m, r) =>
                     BehindIn(l, r) \/ (ChatOf(r) = chat /\ r =< top)
<1> DEFINE m == ChatAdvanced(l, top)
<1>1. /\ m \in Ledger /\ m.lane = l.lane
      /\ \A c \in Chat : c # chat => m.chat[c].cursor = l.chat[c].cursor
      /\ m.chat[chat].cursor = IF top =< l.chat[chat].cursor THEN l.chat[chat].cursor ELSE top
  BY ChatAdvancedOK
<1> HIDE DEF m
<1>2. Bounded(m)
  BY <1>1 DEF Bounded
<1>3. ASSUME NEW r \in 1..arrived
      PROVE  /\ BehindIn(l, r) => BehindIn(m, r)
             /\ BehindIn(m, r) => BehindIn(l, r) \/ (ChatOf(r) = chat /\ r =< top)
  <2>1. LaneOf(r) \in Lane /\ ChatOf(r) \in Chat /\ r \in Nat
    BY ScriptFacts
  <2>2. CASE ChatOf(r) # chat
    BY <1>1, <2>1, <2>2 DEF BehindIn
  <2>3. CASE ChatOf(r) = chat
    <3>1. PICK n \in Nat : n = l.chat[chat].cursor
      BY LedgerParts, Numbers
    <3>2. top \in Nat
      BY Numbers
    <3>3. m.chat[chat].cursor = IF top =< n THEN n ELSE top
      BY <1>1, <3>1
    <3>4. r =< n => r =< m.chat[chat].cursor
      BY <2>1, <3>2, <3>3
    <3>5. QED BY <1>1, <2>3, <3>1, <3>3, <3>4 DEF BehindIn
  <2>4. QED BY <2>2, <2>3
<1>4. QED BY <1>2, <1>3 DEF m

\* A message that the end of a pass puts behind a cursor was in a settled batch.
InSettled(r) == \E b \in pass.asked : r \in b.rows /\ Settled(b)
LEMMA FinishBehind ==
    ASSUME CycleInv, CursorInv, Finish
    PROVE  /\ Bounded(led') /\ pass.plans = <<>>
           /\ \A r \in 1..arrived : BehindIn(led, r) => BehindIn(led', r)
           /\ \A r \in 1..arrived \ Command : BehindIn(led', r) => BehindIn(led, r) \/ InSettled(r)
<1> DEFINE after == [led EXCEPT !.lane = [l \in Lane |-> AfterPass(l)]]
           top == IF Pending THEN 0 ELSE pass.top
<1>1. /\ chat \in Chat /\ top \in 0..Rows /\ after \in Ledger /\ after.chat = led.chat
      /\ \A l \in Lane : after.lane[l] = AfterPass(l)
      /\ led' = ChatAdvanced(after, top)
  BY FinishLedger DEF NextChat
<1>2. /\ pc = "apply" /\ pass.plans = <<>> /\ pass.todo = {} /\ CycleTypes /\ DealtInv
      /\ \A b \in pass.asked : InScene(b)
  BY DEF Finish, CycleInv, PassShape, CursorInv
<1>3. /\ \A b \in pass.asked : b.rows \subseteq 1..arrived
      /\ top =< arrived /\ Dealt = pass.asked
  <2>1. 0 =< arrived
    BY <1>2, ScriptFacts
  <2>2. QED BY <1>2, <2>1 DEF InScene, DealtInv, Dealt
<1> HIDE DEF after, top
<1>4. \A x \in Lane : /\ Passed(x) \subseteq 1..arrived
                      /\ led.lane[x].cursor =< after.lane[x].cursor
                      /\ \/ after.lane[x].cursor = led.lane[x].cursor
                         \/ after.lane[x].cursor \in Passed(x)
  BY <1>1, <1>2, <1>3, AfterPassOK
<1>5. Bounded(after)
  <2>1. \A x \in Lane : led.lane[x].cursor =< arrived
    BY DEF CursorInv, Bounded
  <2>2. \A n \in 1..arrived : n =< arrived
    BY <1>2, ScriptFacts
  <2>3. QED BY <1>1, <1>4, <2>1, <2>2 DEF Bounded, CursorInv
<1>6. \A r \in 1..arrived : BehindIn(led, r) => BehindIn(after, r)
  <2> SUFFICES ASSUME NEW r \in 1..arrived, r =< led.lane[LaneOf(r)].cursor
               PROVE  r =< after.lane[LaneOf(r)].cursor
    BY <1>1 DEF BehindIn
  <2>1. LaneOf(r) \in Lane
    BY <1>2, ScriptFacts
  <2>2. PICK a \in Int, b \in Int : a = led.lane[LaneOf(r)].cursor /\ b = after.lane[LaneOf(r)].cursor
    <3>1. led.lane[LaneOf(r)].cursor \in Unset..Rows /\ after.lane[LaneOf(r)].cursor \in Unset..Rows
      BY <1>1, <1>2, <2>1, LedgerParts DEF CycleTypes
    <3>2. QED BY <3>1
  <2>3. a =< b /\ r =< a
    BY <1>4, <2>1, <2>2
  <2>4. QED BY <2>2, <2>3
<1>7. ASSUME NEW r \in 1..arrived \ Command, BehindIn(after, r)
      PROVE  BehindIn(led, r) \/ InSettled(r)
  <2>1. LaneOf(r) \in Lane /\ ChatOf(r) = Home[LaneOf(r)] /\ r \in Nat
    BY <1>2, ScriptFacts DEF ChatOf
  <2>2. CASE after.lane[LaneOf(r)].cursor = led.lane[LaneOf(r)].cursor \/ r =< led.chat[ChatOf(r)].cursor
    BY <1>1, <1>7, <2>2 DEF BehindIn
  <2>3. CASE /\ after.lane[LaneOf(r)].cursor \in Passed(LaneOf(r))
             /\ r =< after.lane[LaneOf(r)].cursor
    <3>1. PICK m \in Passed(LaneOf(r)) : r =< m
      BY <2>3
    <3>2. PICK c \in pass.asked :
             /\ m \in c.rows /\ c.lane = LaneOf(r)
             /\ \A d \in pass.asked : d.lane = LaneOf(r) /\ d.round =< c.round => Settled(d)
      BY <3>1 DEF Passed
    <3>3. LaneOf(m) = LaneOf(r) /\ ChatOf(m) = chat /\ m =< pass.top /\ m \in 1..arrived
      BY <1>2, <3>2 DEF InScene
    <3>4. ChatOf(r) = chat /\ r =< pass.top
      <4>1. ChatOf(r) = chat
        BY <2>1, <3>3 DEF ChatOf
      <4>2. pass.top \in Nat /\ m \in Nat
        <5>1. pass.top \in 0..Rows
          BY <1>2 DEF CycleTypes, PassRecord
        <5>2. QED BY <3>3, <5>1, Numbers
      <4>3. QED BY <2>1, <3>1, <3>3, <4>1, <4>2
    <3>5. CASE \E b \in pass.asked : r \in b.rows
      <4>1. PICK b \in pass.asked : r \in b.rows
        BY <3>5
      <4>2. b.lane = c.lane
        BY <1>2, <3>2, <4>1 DEF InScene
      <4>3. b.round =< c.round
        BY <1>2, <1>3, <3>1, <3>2, <4>1, <4>2 DEF DealtInv
      <4>4. Settled(b)
        BY <3>2, <4>1, <4>2, <4>3
      <4>5. QED BY <4>1, <4>4 DEF InSettled
    <3>6. CASE ~ \E b \in pass.asked : r \in b.rows
      BY <1>2, <1>3, <1>7, <3>4, <3>6 DEF DealtInv
    <3>7. QED BY <3>5, <3>6
  <2>4. QED BY <1>1, <1>4, <1>7, <2>1, <2>2, <2>3 DEF BehindIn
<1>8. /\ Bounded(led')
      /\ \A r \in 1..arrived : BehindIn(after, r) => BehindIn(led', r)
      /\ \A r \in 1..arrived : BehindIn(led', r) =>
            BehindIn(after, r) \/ (ChatOf(r) = chat /\ r =< top)
  BY <1>1, <1>2, <1>3, <1>5, AdvancedBehind
<1>9. ASSUME NEW r \in 1..arrived \ Command, ChatOf(r) = chat, r =< top
      PROVE  BehindIn(led, r) \/ InSettled(r)
  <2>1. ~Pending /\ top = pass.top
    <3>1. ~(r =< 0)
      OBVIOUS
    <3>2. QED BY <1>9, <3>1 DEF top
  <2>2. CASE \E b \in pass.asked : r \in b.rows
    BY <2>1, <2>2 DEF Pending, InSettled
  <2>3. CASE ~ \E b \in pass.asked : r \in b.rows
    BY <1>2, <1>3, <1>9, <2>1, <2>3 DEF DealtInv
  <2>4. QED BY <2>2, <2>3
<1>10. QED BY <1>2, <1>6, <1>7, <1>8, <1>9

\* The end of a pass puts behind the cursors what was there and what its batches settled.
LEMMA ServedBehind ==
    ASSUME CycleInv, CursorInv, Served
    PROVE  /\ Bounded(led')
           /\ \A r \in 1..arrived : BehindIn(led, r) => BehindIn(led', r)
           /\ \A r \in 1..arrived \ Command : BehindIn(led', r) =>
                 \/ BehindIn(led, r)
                 \/ pc = "apply" /\ pass.plans = <<>> /\ InSettled(r)
<1>1. CycleTypes /\ led \in Ledger /\ chat \in Chat /\ Bounded(led)
  BY ServedDoes DEF CycleInv, CycleTypes, CursorInv
<1>2. ASSUME CursorsAs(led, led')
      PROVE  Bounded(led') /\ \A r \in 1..arrived : BehindIn(led', r) <=> BehindIn(led, r)
  BY <1>1, <1>2, SameBehind
<1>3. CASE SkipResting \/ FetchFails
  <2>1. led' = led
    BY <1>3 DEF SkipResting, FetchFails, NextChat
  <2>2. QED BY <1>1, <2>1
<1>4. CASE PassRaises
  <2>1. led' = [led EXCEPT !.chat[chat].resting = TRUE]
    BY <1>4 DEF PassRaises, NextChat
  <2>2. CursorsAs(led, led')
    BY <1>1, <2>1, RestsOK DEF CursorsAs
  <2>3. QED BY <1>2, <2>2
<1>5. CASE NothingNew
  <2> DEFINE page == Page(led.chat[chat].cursor)
             top == Max(page \cup {0})
  <2>1. /\ top \in 0..Rows /\ (top = 0 \/ top \in page) /\ led' = ChatAdvanced(Seeded, top)
    BY <1>1, <1>5, NothingNewLedger DEF NextChat
  <2>2. /\ page \subseteq 1..arrived /\ Fresh = {}
        /\ \A r \in page \ Command : r \in Fresh \/ r =< Seeded.lane[LaneOf(r)].cursor
    BY <1>1, <1>5, FreshFacts DEF NothingNew
  <2>3. top =< arrived
    <3>1. arrived \in Nat /\ \A n \in 1..arrived : n =< arrived
      BY <1>1, ScriptFacts
    <3>2. 0 =< arrived
      BY <3>1
    <3>3. QED BY <2>1, <2>2, <3>1, <3>2
  <2>4. Bounded(Seeded) /\ \A r \in 1..arrived : BehindIn(Seeded, r) <=> BehindIn(led, r)
    BY <1>1, SeededBehind
  <2>5. Seeded \in Ledger
    BY <1>1, SeededOK
  <2>6. led.chat[chat].cursor \in Nat
    BY <1>1, LedgerParts
  <2>7. ASSUME NEW r \in 1..arrived \ Command, ChatOf(r) = chat, r =< top
        PROVE  BehindIn(led, r)
    <3>1. CASE r =< led.chat[chat].cursor
      BY <2>7, <3>1 DEF BehindIn
    <3>2. CASE ~(r =< led.chat[chat].cursor)
      <4>1. r \in led.chat[chat].cursor + 1..arrived
        BY <2>6, <3>2
      <4>2. top # 0
        BY <2>7
      <4>3. r \in page
        BY <1>1, <2>1, <2>6, <2>7, <4>1, <4>2, PageFacts
      <4>4. BehindIn(Seeded, r)
        BY <2>2, <2>7, <4>3 DEF BehindIn
      <4>5. QED BY <2>4, <4>4
    <3>3. QED BY <3>1, <3>2
  <2> HIDE DEF top, page
  <2>8. /\ Bounded(led')
        /\ \A r \in 1..arrived : BehindIn(Seeded, r) => BehindIn(led', r)
        /\ \A r \in 1..arrived : BehindIn(led', r) =>
              BehindIn(Seeded, r) \/ (ChatOf(r) = chat /\ r =< top)
    BY <1>1, <2>1, <2>3, <2>4, <2>5, AdvancedBehind
  <2>9. QED BY <2>4, <2>7, <2>8
<1>6. CASE Finish
  <2>1. pc = "apply"
    BY <1>6 DEF Finish
  <2>2. QED BY <1>6, <2>1, FinishBehind
<1>7. QED BY <1>3, <1>4, <1>5, <1>6 DEF Served

\* Steps that leave the cursors and the batches of the pass as they are.
LEMMA CursorAgain ==
    ASSUME CycleInv, CursorInv, script' = script, arrived' = arrived,
           CursorsAs(led, led'), CursorsAs(saved, saved'),
           \/ pc' \in {"idle", "chat"}
           \/ /\ pc \notin {"idle", "chat"} /\ cycle'.queue = cycle.queue
              /\ pass'.todo = pass.todo /\ pass'.asked = pass.asked /\ pass'.top = pass.top
    PROVE  CursorInv'
<1>1. CycleTypes
  BY DEF CycleInv
<1>2. /\ \A r \in 1..arrived : (BehindIn(led', r) <=> BehindIn(led, r)) /\ (BehindIn(saved', r) <=> BehindIn(saved, r))
      /\ Bounded(led') /\ Bounded(saved')
  BY <1>1, SameBehind DEF CursorInv
<1>3. \A r \in 1..arrived : (BehindIn(led, r)' <=> BehindIn(led, r)) /\ (BehindIn(saved, r)' <=> BehindIn(saved, r))
  BY <1>2, BehindFrame
<1>5. Bounded(led)' /\ Bounded(saved)'
  BY <1>2 DEF Bounded
<1>6. ASSUME pc' \notin {"idle", "chat"} PROVE DealtInv'
  <2>0. chat' = chat /\ Dealt' = Dealt /\ Apart' = Apart /\ pass'.top = pass.top
    BY <1>6 DEF chat, Dealt, Apart
  <2>1. DealtInv
    BY <1>6 DEF CursorInv
  <2>2. \A b \in Dealt : \A r \in b.rows : r \in 1..arrived
    BY <1>6 DEF CycleInv, PassShape, InScene, Dealt
  <2>3. \A b \in Dealt : \A r \in b.rows : ~BehindIn(led, r)'
    BY <1>3, <2>1, <2>2 DEF DealtInv
  <2>4. \A r : ChatOf(r)' = ChatOf(r)
    BY BehindFrame
  <2>5. \A r \in 1..arrived' \ Command :
           ChatOf(r)' = chat' /\ r =< pass'.top => BehindIn(led, r)' \/ \E b \in Dealt' : r \in b.rows
    BY <1>3, <2>0, <2>1, <2>4 DEF DealtInv
  <2>6. QED BY <2>0, <2>1, <2>3, <2>5 DEF DealtInv
<1>7. QED BY <1>3, <1>5, <1>6 DEF CursorInv

LEMMA ArrivalAhead ==
    ASSUME CycleInv, CursorInv, Arrive
    PROVE  /\ ~BehindIn(led, arrived + 1) /\ ~BehindIn(saved, arrived + 1)
           /\ 1..arrived' = 1..arrived \cup {arrived + 1} /\ arrived \in Nat
<1>1. arrived \in Nat /\ arrived < Len(script.floor) /\ arrived' = arrived + 1
  BY ScriptFacts DEF CycleInv, Arrive
<1>2. script.floor \in Seq(Lane)
  BY CycleAssumption DEF CycleInv, CycleTypes, Script
<1>3. arrived + 1 \in 1..Len(script.floor)
  <2>1. Len(script.floor) \in Nat
    BY <1>2, Elements
  <2>2. QED BY <1>1, <2>1
<1>4. script.floor[arrived + 1] \in Lane
  BY <1>2, <1>3
<1>5. LaneOf(arrived + 1) \in Lane /\ ChatOf(arrived + 1) \in Chat
  BY <1>4, CycleAssumption DEF LaneOf, ChatOf
<1>6. ASSUME NEW l \in Ledger, Bounded(l) PROVE ~BehindIn(l, arrived + 1)
  <2>1. PICK a \in Int, b \in Int : /\ a = l.chat[ChatOf(arrived + 1)].cursor
                                    /\ b = l.lane[LaneOf(arrived + 1)].cursor
    <3>1. /\ l.chat[ChatOf(arrived + 1)].cursor \in 0..Rows
          /\ l.lane[LaneOf(arrived + 1)].cursor \in Unset..Rows
      BY <1>5, LedgerParts
    <3>2. QED BY <3>1
  <2>2. a =< arrived /\ b =< arrived
    BY <1>5, <1>6, <2>1 DEF Bounded
  <2>3. ~(arrived + 1 =< a) /\ ~(arrived + 1 =< b)
    BY <1>1, <2>1, <2>2
  <2>4. QED BY <2>1, <2>3 DEF BehindIn
<1>7. 1..arrived' = 1..arrived \cup {arrived + 1}
  BY <1>1
<1>8. QED BY <1>1, <1>6, <1>7 DEF CycleInv, CycleTypes, CursorInv

\* A message that arrives is ahead of every cursor and beyond the page.
LEMMA CursorArrive == ASSUME CycleInv, CursorInv, Arrive PROVE CursorInv'
<1>1. /\ script' = script /\ cycle' = cycle /\ pass' = pass /\ led' = led /\ saved' = saved
      /\ pc' = pc /\ arrived' = arrived + 1
  BY DEF Arrive, work
<1>2. /\ ~BehindIn(led, arrived + 1) /\ ~BehindIn(saved, arrived + 1)
      /\ 1..arrived' = 1..arrived \cup {arrived + 1} /\ arrived \in Nat
  BY ArrivalAhead
<1>3. \A r : (BehindIn(led, r)' <=> BehindIn(led, r)) /\ (BehindIn(saved, r)' <=> BehindIn(saved, r))
             /\ ChatOf(r)' = ChatOf(r)
  BY <1>1 DEF BehindIn, ChatOf, LaneOf
<1>4. led \in Ledger /\ saved \in Ledger /\ pass.top \in Nat
  <2>1. led \in Ledger /\ saved \in Ledger /\ pass.top \in 0..Rows
    BY DEF CycleInv, CycleTypes, PassRecord
  <2>2. QED BY <2>1
<1>5. \A n \in Int : n =< arrived => n =< arrived + 1
  BY <1>2
<1>6. ASSUME NEW l \in Ledger, Bounded(l)
      PROVE  /\ \A c \in Chat : l.chat[c].cursor =< arrived + 1
             /\ \A x \in Lane : l.lane[x].cursor =< arrived + 1
  <2>1. /\ \A c \in Chat : l.chat[c].cursor \in Int
        /\ \A x \in Lane : l.lane[x].cursor \in Int
    <3>1. /\ \A c \in Chat : l.chat[c].cursor \in 0..Rows
          /\ \A x \in Lane : l.lane[x].cursor \in Unset..Rows
      BY LedgerParts
    <3>2. QED BY <3>1
  <2>2. QED BY <1>5, <1>6, <2>1 DEF Bounded
<1>7. Bounded(led)' /\ Bounded(saved)'
  BY <1>1, <1>4, <1>6 DEF Bounded, CursorInv
<1>8. chat' = chat /\ Dealt' = Dealt /\ Apart' = Apart
  BY <1>1 DEF chat, Dealt, Apart
<1>9. ASSUME pc' \notin {"idle", "chat"} PROVE DealtInv'
  <2>1. DealtInv
    BY <1>1, <1>9 DEF CursorInv
  <2>2. pass.top =< arrived /\ pass'.top =< arrived' /\ ~(arrived + 1 =< pass.top)
    <3>1. pass.top =< arrived
      BY <2>1 DEF DealtInv
    <3>2. QED BY <1>1, <1>2, <1>4, <3>1
  <2>3. \A r \in 1..arrived' \ Command :
           ChatOf(r)' = chat' /\ r =< pass'.top => BehindIn(led, r)' \/ \E b \in Dealt' : r \in b.rows
    BY <1>1, <1>2, <1>3, <1>8, <2>1, <2>2 DEF DealtInv
  <2>4. QED BY <1>3, <1>8, <2>1, <2>2, <2>3 DEF DealtInv
<1>10. QED BY <1>1, <1>2, <1>3, <1>7, <1>9 DEF CursorInv

\* A page's messages are dealt, or were consumed before.
LEMMA CursorFetch == ASSUME CycleInv, CursorInv, Fetch PROVE CursorInv'
<1>1. /\ CycleTypes /\ chat \in Chat /\ led' = Seeded /\ saved' = saved /\ pc' = "decide"
      /\ script' = script /\ arrived' = arrived /\ cycle' = cycle
      /\ pass'.todo = Batches(Fresh) /\ pass'.asked = {} /\ pass'.top \in Page(led.chat[chat].cursor)
  BY FetchDoes DEF Fetch, CycleInv
<1>2. Bounded(Seeded) /\ \A r \in 1..arrived : BehindIn(Seeded, r) <=> BehindIn(led, r)
  BY <1>1, SeededBehind DEF CursorInv
<1>3. /\ \A r : (BehindIn(led, r)' <=> BehindIn(Seeded, r)) /\ (BehindIn(saved, r)' <=> BehindIn(saved, r))
      /\ \A r : ChatOf(r)' = ChatOf(r)
  BY <1>1 DEF BehindIn, ChatOf, LaneOf
<1>4. Bounded(led)' /\ Bounded(saved)'
  BY <1>1, <1>2 DEF Bounded, CursorInv
<1>5. /\ Page(led.chat[chat].cursor) \subseteq 1..arrived
      /\ Fresh \in SUBSET Page(led.chat[chat].cursor)
      /\ \A r \in Fresh : ~(r =< led.chat[chat].cursor) /\ ChatOf(r) = chat
                          /\ ~(r =< Seeded.lane[LaneOf(r)].cursor)
      /\ \A r \in Page(led.chat[chat].cursor) \ Command :
            r \in Fresh \/ r =< Seeded.lane[LaneOf(r)].cursor
  BY <1>1, FreshFacts
<1>6. /\ \A r \in Fresh : \E b \in Batches(Fresh) : r \in b.rows
      /\ \A b \in Batches(Fresh) : b.rows \in SUBSET Fresh
      /\ \A b, c \in Batches(Fresh) : b.rows \cap c.rows # {} => b = c
      /\ \A b, c \in Batches(Fresh) : \A r \in b.rows, s \in c.rows :
            b.lane = c.lane /\ r =< s => b.round =< c.round
  BY <1>1, FetchDoes, BatchFacts
<1>7. Seeded.chat = led.chat /\ led.chat[chat].cursor \in Nat
  BY SMTT(30), <1>1, SeededOK, LedgerParts, Numbers DEF CycleTypes
<1>8. \A r \in Fresh : ~BehindIn(Seeded, r)
  BY <1>5, <1>7 DEF BehindIn
<1>9. pass'.top =< arrived'
  <2>1. \A n \in 1..arrived : n =< arrived
    BY <1>1, ScriptFacts
  <2>2. QED BY <1>1, <1>5, <2>1
<1>10. ASSUME NEW r \in 1..arrived \ Command, ChatOf(r) = chat, r =< pass'.top
       PROVE  BehindIn(Seeded, r) \/ r \in Fresh
  <2>1. CASE r =< led.chat[chat].cursor
    BY <1>7, <1>10, <2>1 DEF BehindIn
  <2>2. CASE ~(r =< led.chat[chat].cursor)
    <3>1. r \in led.chat[chat].cursor + 1..arrived
      BY <1>7, <2>2
    <3>2. r \in Page(led.chat[chat].cursor)
      BY <1>1, <1>7, <1>10, <3>1, PageFacts
    <3>3. QED BY <1>5, <1>10, <3>2 DEF BehindIn
  <2>3. QED BY <2>1, <2>2
<1>11. Dealt' = Batches(Fresh) /\ Apart' /\ chat' = chat
  BY <1>1, <1>6 DEF Dealt, Apart, chat
<1> DEFINE bs == Batches(Fresh)
<1>12. /\ \A b \in bs : \A r \in b.rows : ~BehindIn(led, r)'
       /\ \A r \in 1..arrived' \ Command :
             ChatOf(r)' = chat' /\ r =< pass'.top => BehindIn(led, r)' \/ \E b \in bs : r \in b.rows
  BY <1>1, <1>3, <1>6, <1>8, <1>10, <1>11
<1> HIDE DEF bs
<1>13. DealtInv'
  BY <1>6, <1>9, <1>11, <1>12 DEF DealtInv, bs
<1>14. \A r \in 1..arrived' : BehindIn(saved, r)' => BehindIn(led, r)'
  BY <1>1, <1>2, <1>3 DEF CursorInv
<1>15. QED BY <1>4, <1>13, <1>14 DEF CursorInv

\* An answer, or its lack, moves a batch and no cursor.
LEMMA CursorAsking == ASSUME CycleInv, CursorInv, Asking PROVE CursorInv'
<1>1. /\ CycleTypes /\ SamePage /\ pc = "decide" /\ pc' = "decide" /\ cycle'.queue = cycle.queue
      /\ script' = script /\ arrived' = arrived /\ saved' = saved
  BY AskingDoes DEF CycleInv
<1>2. PICK status \in {"open", "invalid", "quarantined", "valid"} : Answered(status)
  BY AskingDoes
<1>3. batch \in pass.todo
  BY <1>1, PassOverDoes, AskInvalidDoes, AskValidDoes DEF Asking, CycleInv, PassShape, InScene
<1>4. CursorsAs(led, led') /\ CursorsAs(saved, saved')
  <2>1. CASE PassOver
    BY <1>1, <2>1 DEF PassOver, CursorsAs
  <2>2. CASE AskInvalid
    BY <1>1, <2>2, AskInvalidDoes DEF LaneAnswered, CursorsAs
  <2>3. CASE AskValid
    <3>1. \A b \in pass.todo : b.rows # {} /\ b.rows \subseteq 1..arrived
      BY <1>1 DEF CycleInv, PassShape, InScene
    <3>2. LaneAnswered
      BY <1>1, <2>3, <3>1, AskValidDoes
    <3>3. QED BY <1>1, <3>2 DEF LaneAnswered, CursorsAs
  <2>4. QED BY <2>1, <2>2, <2>3 DEF Asking
<1>5. /\ \A r \in 1..arrived : (BehindIn(led', r) <=> BehindIn(led, r)) /\ (BehindIn(saved', r) <=> BehindIn(saved, r))
      /\ Bounded(led') /\ Bounded(saved')
  BY <1>1, <1>4, SameBehind DEF CursorInv
<1>6. /\ \A r \in 1..arrived : (BehindIn(led, r)' <=> BehindIn(led, r)) /\ (BehindIn(saved, r)' <=> BehindIn(saved, r))
      /\ \A r : ChatOf(r)' = ChatOf(r)
  BY <1>1, <1>5, BehindFrame
<1>7. Bounded(led)' /\ Bounded(saved)' /\ chat' = chat
  BY <1>1, <1>5 DEF Bounded, chat
<1>8. /\ pass'.todo = pass.todo \ {batch} /\ pass'.asked = pass.asked \cup {AskedAs(status)}
      /\ pass'.top = pass.top
  BY <1>1, <1>2 DEF Answered, SamePage
<1>9. /\ AskedAs(status).lane = batch.lane /\ AskedAs(status).rows = batch.rows
      /\ AskedAs(status).round = batch.round
  BY DEF AskedAs
<1>10. DealtInv /\ \A b \in Dealt : \A r \in b.rows : r \in 1..arrived
  BY <1>1 DEF CursorInv, CycleInv, PassShape, InScene, Dealt
<1> DEFINE now == AskedAs(status)
           bt == batch
           dealt == (pass.todo \ {bt}) \cup pass.asked \cup {now}
<1>11. Dealt' = dealt
  BY <1>8 DEF Dealt
<1> HIDE DEF now, bt
<1>12. /\ bt \in pass.todo /\ now.lane = bt.lane /\ now.rows = bt.rows /\ now.round = bt.round
       /\ pass'.todo = pass.todo \ {bt} /\ pass'.asked = pass.asked \cup {now}
  BY <1>3, <1>8, <1>9 DEF now, bt
<1>13. Apart'
  <2>1. Apart
    BY <1>10 DEF DealtInv
  <2>2. \A b, c \in pass'.todo : b.rows \cap c.rows # {} => b = c
    BY <1>12, <2>1 DEF Apart
  <2>3. \A b, c \in pass'.asked : b.rows \cap c.rows # {} => b = c
    BY <1>12, <2>1 DEF Apart
  <2>4. \A b \in pass'.todo, c \in pass'.asked : b.rows \cap c.rows = {}
    BY <1>12, <2>1 DEF Apart
  <2>5. QED BY <2>2, <2>3, <2>4 DEF Apart
<1>14. \A b \in dealt : \E c \in Dealt : b.lane = c.lane /\ b.rows = c.rows /\ b.round = c.round
  BY <1>12 DEF Dealt
<1>15. \A b \in Dealt : \E c \in dealt : b.rows = c.rows
  BY <1>12 DEF Dealt
<1> HIDE DEF dealt
<1>16. \A b \in dealt : \A r \in b.rows : ~BehindIn(led, r)'
  BY <1>6, <1>10, <1>14 DEF DealtInv
<1>17. \A b, c \in dealt : \A r \in b.rows, s \in c.rows :
          b.lane = c.lane /\ r =< s => b.round =< c.round
  BY <1>10, <1>14 DEF DealtInv
<1>18. \A r \in 1..arrived' \ Command :
          ChatOf(r)' = chat' /\ r =< pass'.top => BehindIn(led, r)' \/ \E b \in dealt : r \in b.rows
  BY <1>1, <1>6, <1>7, <1>8, <1>10, <1>15 DEF DealtInv
<1>19. DealtInv'
  BY <1>1, <1>8, <1>10, <1>11, <1>13, <1>16, <1>17, <1>18 DEF DealtInv
<1>20. \A r \in 1..arrived' : BehindIn(saved, r)' => BehindIn(led, r)'
  BY <1>1, <1>6 DEF CursorInv
<1>21. QED BY <1>7, <1>19, <1>20 DEF CursorInv


\* Steps that leave the cursors, the batches of the pass and what was read as they are.
Quiet == Begin \/ World \/ AllAsked \/ Validate \/ Taking \/ Doing
LEMMA QuietDoes ==
    ASSUME CycleInv, Quiet \/ UNCHANGED vars
    PROVE  /\ script' = script /\ arrived' = arrived /\ fate' = fate
           /\ CursorsAs(led, led') /\ CursorsAs(saved, saved')
           /\ \/ pc' \in {"idle", "chat"}
              \/ /\ pc \notin {"idle", "chat"} /\ cycle'.queue = cycle.queue
                 /\ pass'.top = pass.top /\ pass'.todo = pass.todo
           /\ pass'.asked = pass.asked
<1>1. /\ CycleTypes /\ CursorsAs(led, led) /\ CursorsAs(saved, saved)
      /\ (pc = "idle" => led = saved)
  BY DEF CursorsAs, CycleInv, PassShape
<1>2. CASE UNCHANGED vars
  BY <1>1, <1>2 DEF vars, work, history
<1>3. CASE Begin
  <2>1. /\ script' = script /\ arrived' = arrived /\ fate' = fate /\ saved' = saved
        /\ led' = DayRolled(saved) /\ pc = "idle" /\ pc' = "chat" /\ pass' = pass
    BY <1>3 DEF Begin, history
  <2>2. CursorsAs(led, led')
    BY <1>1, <2>1, DayRolledOK DEF CursorsAs, CycleTypes
  <2>3. QED BY <1>1, <2>1, <2>2
<1>4. CASE World
  <2>1. /\ script' = script /\ arrived' = arrived /\ fate' = fate /\ pass' = pass
        /\ pc = "idle" /\ pc' = "idle"
    BY <1>4, WorldDoes
  <2>2. CASE TimePasses
    <3>1. led' = Rested(saved) /\ saved' = Rested(saved)
      BY <2>2 DEF TimePasses
    <3>2. CursorsAs(led, led') /\ CursorsAs(saved, saved')
      BY <1>1, <2>1, <3>1, RestedOK DEF CursorsAs, CycleTypes
    <3>3. QED BY <2>1, <3>2
  <2>3. CASE NextDay
    <3>1. saved' = [saved EXCEPT !.today = FALSE] /\ led' = saved' /\ saved \in Ledger
      BY <1>1, <2>3 DEF NextDay, CycleTypes
    <3>2. saved'.chat = saved.chat /\ saved'.lane = saved.lane
      BY <3>1 DEF Ledger
    <3>3. CursorsAs(led, led') /\ CursorsAs(saved, saved')
      BY <1>1, <2>1, <3>1, <3>2 DEF CursorsAs
    <3>4. QED BY <2>1, <3>3
  <2>4. CASE \E a \in Key : Drain(a)
    <3>1. led' = led /\ saved' = saved
      BY <2>4 DEF Drain
    <3>2. QED BY <1>1, <2>1, <3>1
  <2>5. QED BY <1>4, <2>2, <2>3, <2>4 DEF World
<1>5. CASE AllAsked
  BY <1>1, <1>5 DEF AllAsked, history
<1>6. CASE Validate
  <2>1. /\ script' = script /\ arrived' = arrived /\ led' = led /\ saved' = saved /\ fate' = fate
        /\ pc = "validate" /\ cycle' = cycle /\ SameScene
    BY <1>6, ValidateDoes
  <2>2. QED BY <1>1, <2>1 DEF SameScene
<1>7. CASE Taking
  <2>1. /\ script' = script /\ arrived' = arrived /\ led' = led /\ saved' = saved /\ fate' = fate
        /\ pc \in {"apply", "log"} /\ cycle' = cycle /\ SameScene
    BY <1>7, TakingDoes DEF Popped
  <2>2. QED BY <1>1, <2>1 DEF SameScene
<1>8. CASE Doing
  <2>1. /\ script' = script /\ arrived' = arrived /\ saved' = saved /\ fate' = fate
        /\ pc = "apply" /\ cycle' = cycle /\ SameScene /\ pass.plans # <<>>
    BY <1>8, DoingDoes
  <2>2. CursorsAs(led, led')
    <3>1. CASE Delivered
      <4>1. /\ led' = Counted(led) /\ ~OverCap /\ plan.act \in {"reply", "react"} /\ chat \in Chat
        BY <2>1, <3>1, PlanAtHand DEF Delivered, Deliverable
      <4>2. /\ plan.act = "reply" => led.chat[chat].count[class] < ChatCap
            /\ plan.act = "react" => led.reacts < ReactCap
        BY <2>1, <4>1, RoomLeft
      <4>3. led \in Ledger
        BY <1>1 DEF CycleTypes
      <4>4. QED BY <4>1, <4>2, <4>3, CountedOK DEF CursorsAs
    <3>2. CASE SideEffectDone
      BY <1>1, <3>2 DEF SideEffectDone
    <3>3. QED BY <1>8, <3>1, <3>2 DEF Doing
  <2>3. QED BY <1>1, <2>1, <2>2 DEF SameScene
<1>9. QED BY <1>2, <1>3, <1>4, <1>5, <1>6, <1>7, <1>8 DEF Quiet

\* No step lets a cursor of the state get ahead of the cycle's, or leaves a message out.
LEMMA CursorParts ==
    ASSUME CycleInv, CursorInv, [Next]_vars
    PROVE  CursorInv'
\* Between passes only the cursors matter.
<1>1. ASSUME script' = script, arrived' = arrived, pc' \in {"idle", "chat"},
             Bounded(led'), Bounded(saved'),
             \A r \in 1..arrived : BehindIn(saved', r) => BehindIn(led', r)
      PROVE  CursorInv'
  BY <1>1, BehindFrame DEF CursorInv, Bounded
<1>2. CASE Quiet \/ UNCHANGED vars
  BY <1>2, QuietDoes, CursorAgain
<1>3. CASE Arrive \/ Fetch \/ Asking
  BY <1>3, CursorArrive, CursorFetch, CursorAsking
<1>4. CASE Served
  <2>1. script' = script /\ arrived' = arrived /\ saved' = saved /\ pc' = "chat"
    BY <1>4, ServedDoes
  <2>2. /\ Bounded(led') /\ Bounded(saved')
        /\ \A r \in 1..arrived : BehindIn(saved', r) => BehindIn(led', r)
    BY <1>4, <2>1, ServedBehind DEF CursorInv
  <2>3. QED BY <1>1, <2>1, <2>2
<1>5. CASE Save
  <2>1. script' = script /\ arrived' = arrived /\ saved' = led /\ led' = led /\ pc' = "idle"
    BY <1>5 DEF Save
  <2>2. QED BY <1>1, <2>1 DEF CursorInv
<1>6. CASE SaveFails \/ Crash
  <2>1. script' = script /\ arrived' = arrived /\ saved' = saved /\ led' = saved /\ pc' = "idle"
    BY <1>6 DEF SaveFails, Crash, Forget
  <2>2. QED BY <1>1, <2>1 DEF CursorInv
<1>7. QED BY <1>2, <1>3, <1>4, <1>5, <1>6, Steps DEF Asking, Quiet

\* No step puts behind a cursor of the cycle a message that was not read.
LEMMA ReadParts ==
    ASSUME CycleInv, CursorInv, ReadInv, [Next]_vars
    PROVE  ReadInv'
<1>1. CycleTypes
  BY DEF CycleInv
\* Steps that put nothing behind a cursor.
<1>2. ASSUME script' = script, arrived' = arrived, fate' = fate, pass'.asked \in {pass.asked, {}},
             \A r \in 1..arrived : BehindIn(led', r) => BehindIn(led, r)
      PROVE  ReadInv'
  <2>1. \A r \in 1..arrived' \ Command : BehindIn(led, r)' => fate'[r] # "unread"
    BY <1>2, BehindFrame DEF ReadInv
  <2>2. QED BY <1>2, <2>1 DEF ReadInv
<1>3. CASE Quiet \/ UNCHANGED vars
  BY <1>1, <1>2, <1>3, QuietDoes, SameBehind
<1>4. CASE Fetch
  <2>1. /\ script' = script /\ arrived' = arrived /\ fate' = fate /\ pass'.asked = {} /\ led' = Seeded
        /\ chat \in Chat
    BY <1>1, <1>4, FetchDoes DEF Fetch, history
  <2>2. \A r \in 1..arrived : BehindIn(led', r) => BehindIn(led, r)
    BY <1>1, <2>1, SeededBehind DEF CursorInv
  <2>3. QED BY <1>2, <2>1, <2>2
<1>5. CASE Save \/ SaveFails \/ Crash
  <2>1. /\ script' = script /\ arrived' = arrived /\ fate' = fate /\ led' \in {led, saved}
        /\ pass'.asked \in {pass.asked, {}}
    BY <1>5 DEF Save, SaveFails, Crash, Forget, history, NoPass
  <2>2. QED BY <1>2, <2>1 DEF CursorInv
<1>6. CASE Arrive
  <2>1. /\ script' = script /\ fate' = fate /\ led' = led /\ pass' = pass
        /\ ~BehindIn(led, arrived + 1) /\ 1..arrived' = 1..arrived \cup {arrived + 1}
    BY <1>6, ArrivalAhead DEF Arrive, work, history
  <2>2. QED BY <2>1, BehindFrame DEF ReadInv
<1>7. CASE Served
  <2>1. /\ script' = script /\ arrived' = arrived /\ fate' = fate /\ pass'.asked = {}
    BY <1>7, ServedDoes DEF NoPass, history
  <2>2. ASSUME NEW r \in 1..arrived \ Command, BehindIn(led', r)
        PROVE  fate[r] # "unread"
    <3>1. CASE BehindIn(led, r)
      BY <3>1 DEF ReadInv
    <3>2. CASE InSettled(r)
      BY <3>2 DEF InSettled, Settled, ReadInv
    <3>3. QED BY <1>7, <2>2, <3>1, <3>2, ServedBehind
  <2>3. QED BY <2>1, <2>2, BehindFrame DEF ReadInv
<1>8. CASE Asking
  <2>1. /\ pc = "decide" /\ script' = script /\ arrived' = arrived
        /\ \A b \in pass.todo : b.rows # {} /\ b.rows \subseteq 1..arrived
        /\ \A b \in Dealt : b.rows \subseteq 1..arrived
    BY <1>8, AskingDoes DEF CycleInv, PassShape, InScene, Dealt
  <2>2. \E status \in {"open", "invalid", "quarantined", "valid"} :
           /\ Answered(status)
           /\ CASE status = "valid" -> fate' = [r \in Row |-> IF r \in batch.rows THEN "judged" ELSE fate[r]]
                [] status = "quarantined" ->
                     fate' = [r \in Row |-> IF r \in batch.rows THEN "quarantined" ELSE fate[r]]
                [] OTHER -> fate' = fate
    <3>1. CASE PassOver
      BY <1>1, <3>1, PassOverDoes DEF PassOver, history
    <3>2. CASE AskInvalid
      BY <1>1, <3>2, AskInvalidDoes
    <3>3. CASE AskValid
      BY <1>1, <2>1, <3>3, AskValidDoes
    <3>4. QED BY <1>8, <3>1, <3>2, <3>3 DEF Asking
  <2>3. PICK status \in {"open", "invalid", "quarantined", "valid"} :
           /\ Answered(status)
           /\ CASE status = "valid" -> fate' = [r \in Row |-> IF r \in batch.rows THEN "judged" ELSE fate[r]]
                [] status = "quarantined" ->
                     fate' = [r \in Row |-> IF r \in batch.rows THEN "quarantined" ELSE fate[r]]
                [] OTHER -> fate' = fate
    BY <2>2
  <2>4. batch \in pass.todo
    BY <1>1, <1>8, <2>1, PassOverDoes, AskInvalidDoes, AskValidDoes DEF Asking
  <2>5. /\ \A r \in batch.rows : r \in Row
        /\ \A b \in pass.asked : \A r \in b.rows : r \in Row /\ r \notin batch.rows
    <3>1. \A b \in pass.asked : b.rows \cap batch.rows = {}
      BY <2>1, <2>4 DEF CursorInv, DealtInv, Apart
    <3>2. QED BY <1>1, <2>1, <2>4, <3>1, ScriptFacts DEF Dealt
  <2>6. \A r \in Row : fate'[r] = IF r \in batch.rows /\ status = "valid" THEN "judged"
                                  ELSE IF r \in batch.rows /\ status = "quarantined" THEN "quarantined"
                                  ELSE fate[r]
    BY <2>3
  <2>7. \A r \in 1..arrived : BehindIn(led', r) => BehindIn(led, r)
    <3>1. CursorsAs(led, led')
      BY <1>1, <1>8, <2>1, AskInvalidDoes, AskValidDoes DEF Asking, PassOver, LaneAnswered, CursorsAs
    <3>2. QED BY <1>1, <3>1, SameBehind
  <2>8. \A r \in 1..arrived' \ Command : BehindIn(led, r)' => fate'[r] # "unread"
    BY <1>1, <2>1, <2>6, <2>7, BehindFrame, ScriptFacts DEF ReadInv
  <2>9. pass'.asked = pass.asked \cup {AskedAs(status)}
    BY <2>3 DEF Answered
  <2>10. AskedAs(status).rows = batch.rows /\ AskedAs(status).status = status
    BY DEF AskedAs
  <2>11. ASSUME NEW b \in pass'.asked, NEW r \in b.rows
         PROVE  /\ b.status = "valid" => fate'[r] = "judged"
                /\ b.status = "quarantined" => fate'[r] = "quarantined"
    <3>1. CASE b \in pass.asked
      BY <2>5, <2>6, <2>11, <3>1 DEF ReadInv
    <3>2. CASE b = AskedAs(status)
      BY <2>5, <2>6, <2>10, <2>11, <3>2
    <3>3. QED BY <2>9, <2>11, <3>1, <3>2
  <2>12. QED BY <2>8, <2>11 DEF ReadInv
<1>9. QED BY <1>3, <1>4, <1>5, <1>6, <1>7, <1>8, Steps DEF Asking, Quiet

\* No cursor of the state passes a message that nobody assessed, whatever is seeded
\* behind a new lane's cursor, left out of a page or a batch, or waits in a resting lane.
THEOREM NothingUnreadBehind == Spec => []NothingUnread
<1>1. Init => CursorInv /\ ReadInv
  <2> SUFFICES ASSUME Init PROVE CursorInv /\ ReadInv
    OBVIOUS
  <2>1. pc = "idle" /\ led = NewLedger /\ saved = NewLedger /\ pass.asked = {} /\ arrived = 0
    BY DEF Init, NoPass
  <2>2. 1..0 = {}
    OBVIOUS
  <2>3. Bounded(NewLedger)
    BY <2>1 DEF Bounded, NewLedger, NewChat, NewLane, Unset
  <2>4. QED BY <2>1, <2>2, <2>3 DEF CursorInv, ReadInv
<1>2. CycleInv /\ CursorInv /\ ReadInv /\ [Next]_vars => CursorInv' /\ ReadInv'
  BY CursorParts, ReadParts
<1>3. CursorInv /\ ReadInv => NothingUnread
  BY DEF CursorInv, ReadInv, NothingUnread, Behind, BehindIn
<1>4. QED BY <1>1, <1>2, <1>3, Invariant, PTL DEF Spec

-------------------------------------------------------------------------------
(* What the cursors pass owes nothing.                                      *)

\* What is due is an action, or to wait.
LEMMA DueTypes ==
    ASSUME CycleTypes
    PROVE  Due \subseteq Row \X (Kind \cup {"wait"})
BY DEF CycleTypes, Due

\* What a step of the decider leaves open: nothing of other batches is lost.
LEMMA OwedAsking ==
    ASSUME CycleInv, CursorInv, OwedInv, Asking
    PROVE  OwedInv'
<1>1. /\ CycleTypes /\ pc = "decide" /\ pc' = "decide" /\ script' = script /\ arrived' = arrived
      /\ pass'.failed = pass.failed
      /\ \A b \in pass.todo : b.rows # {} /\ b.rows \subseteq 1..arrived \ Command
      /\ \A b \in pass.asked : b.rows \subseteq 1..arrived
  BY AskingDoes DEF SamePage, CycleInv, PassShape, InScene
<1>2. Due \subseteq Row \X (Kind \cup {"wait"})
  BY <1>1, DueTypes
<1>3. batch \in pass.todo /\ batch \in Batch
  BY <1>1, PassOverDoes, AskInvalidDoes, AskValidDoes DEF Asking
<1>4. /\ \A b \in pass.asked : b.rows \cap batch.rows = {}
      /\ \A r \in batch.rows : ~BehindIn(led, r)
  BY <1>1, <1>3 DEF CursorInv, DealtInv, Apart, Dealt
<1>5. \A r \in 1..arrived : BehindIn(led, r)' <=> BehindIn(led, r)
  <2>1. CursorsAs(led, led')
    BY <1>1, AskInvalidDoes, AskValidDoes DEF Asking, PassOver, LaneAnswered, CursorsAs
  <2>2. QED BY <1>1, <2>1, SameBehind, BehindFrame
<1>6. ASSUME pass.deferred \subseteq pass'.deferred, ToSet(pass.plans) \subseteq ToSet(pass'.plans),
             NEW o, Accounted(o)
      PROVE  Accounted(o)'
  BY <1>1, <1>6 DEF Accounted, unsettled, Does
<1>7. ASSUME NEW status \in {"open", "invalid", "quarantined"}, Answered(status),
             Due' = Due, pass'.plans = pass.plans, pass'.deferred = pass.deferred,
             \A r \in Row : fate'[r] = fate[r] \/ fate'[r] = "quarantined"
      PROVE  OwedInv'
  <2>1. pass'.asked = pass.asked \cup {AskedAs(status)} /\ AskedAs(status).status # "valid"
    BY <1>7 DEF Answered, AskedAs
  <2>2. \A b \in pass'.asked : b.status = "valid" => b \in pass.asked
    BY <2>1
  <2>3. \A b \in pass'.asked : b.status = "valid" =>
           \A o \in Due' : o[1] \in b.rows => (Accounted(o)' /\ (pc' = "log" => o # key'))
    BY <1>1, <1>6, <1>7, <2>2 DEF OwedInv
  <2>4. \A o \in Due' : o[1] \in 1..arrived' \ Command
    BY <1>1, <1>7 DEF OwedInv
  <2>5. \A o \in Due' : BehindIn(led, o[1])' => fate'[o[1]] = "quarantined"
    <3>1. \A o \in Due : o[1] \in Row
      BY <1>2
    <3>2. QED BY <1>1, <1>5, <1>7, <2>4, <3>1 DEF OwedInv
  <2>6. QED BY <2>3, <2>4, <2>5 DEF OwedInv
<1>8. CASE PassOver
  <2>1. Due' = Due /\ fate' = fate
    BY <1>8 DEF PassOver, history, Due
  <2>2. QED BY <1>1, <1>7, <1>8, <2>1, PassOverDoes
<1>9. CASE AskInvalid
  <2>1. Due' = Due /\ fate \in [Row -> {"unread", "judged", "quarantined"}]
    BY <1>1, <1>9 DEF AskInvalid, CycleTypes, Due
  <2>2. PICK status \in {"invalid", "quarantined"} :
           /\ Answered(status)
           /\ fate' = IF status = "quarantined"
                      THEN [r \in Row |-> IF r \in batch.rows THEN "quarantined" ELSE fate[r]]
                      ELSE fate
    BY <1>1, <1>9, AskInvalidDoes
  <2>3. \A r \in Row : fate'[r] = fate[r] \/ fate'[r] = "quarantined"
    BY <2>2
  <2>4. QED BY <1>1, <1>7, <1>9, <2>1, <2>2, <2>3, AskInvalidDoes
<1>10. CASE AskValid
  <2>1. /\ Answered("valid")
        /\ fate' = [r \in Row |-> IF r \in batch.rows THEN "judged" ELSE fate[r]]
    BY <1>1, <1>10, AskValidDoes
  <2>2. PICK decided, held : Judged(decided, held)
    BY <1>1, <1>10, AskValidDoes
  <2>3. /\ owed' = {o \in owed : o[1] \notin batch.rows} \cup Wanted(decided, held)
        /\ pass'.deferred = pass.deferred \cup held
    BY <2>2 DEF Judged
  <2>4. /\ ToSet(pass'.plans) = ToSet(pass.plans) \cup ToSet(decided)
        /\ Wanted(decided, held) \subseteq batch.rows \X (Kind \cup {"wait"})
        /\ \A o \in Wanted(decided, held) :
              o[1] \in held \/ \E p \in ToSet(decided) : p.row = o[1] /\ KindOf(p) = o[2]
    BY <1>1, <1>3, <2>2, JudgedPlans
  <2>5. Due' \subseteq {o \in Due : o[1] \notin batch.rows} \cup Wanted(decided, held)
    BY <2>3 DEF Due
  <2>6. \A o \in Wanted(decided, held) : /\ o[1] \in batch.rows /\ o[1] \in 1..arrived \ Command
                                         /\ Accounted(o)'
    BY <1>1, <1>3, <2>3, <2>4 DEF Accounted, unsettled, Does
  <2>7. \A o \in Due' : o[1] \in 1..arrived' \ Command
    BY <1>1, <2>5, <2>6 DEF OwedInv
  <2>8. ASSUME NEW o \in Due', BehindIn(led, o[1])' PROVE fate'[o[1]] = "quarantined"
    <3>1. o[1] \in 1..arrived /\ BehindIn(led, o[1])
      BY <1>1, <1>5, <2>7, <2>8
    <3>2. o[1] \notin batch.rows /\ o \in Due
      BY <1>4, <2>5, <2>6, <3>1
    <3>3. fate[o[1]] = "quarantined" /\ o[1] \in Row
      BY <1>2, <3>1, <3>2 DEF OwedInv
    <3>4. QED BY <2>1, <3>2, <3>3
  <2>9. ASSUME NEW b \in pass'.asked, b.status = "valid", NEW o \in Due', o[1] \in b.rows
        PROVE  Accounted(o)'
    <3>1. CASE o \in Wanted(decided, held)
      BY <2>6, <3>1
    <3>2. CASE o \in Due /\ o[1] \notin batch.rows
      <4>1. AskedAs("valid").rows = batch.rows /\ pass'.asked = pass.asked \cup {AskedAs("valid")}
        BY <2>1 DEF Answered, AskedAs
      <4>2. b \in pass.asked
        BY <2>9, <3>2, <4>1
      <4>3. Accounted(o)
        BY <2>9, <3>2, <4>2 DEF OwedInv
      <4>4. QED BY <1>6, <2>3, <2>4, <4>3
    <3>3. QED BY <2>5, <2>9, <3>1, <3>2
  <2>10. QED BY <1>1, <2>7, <2>8, <2>9 DEF OwedInv
<1>11. QED BY <1>8, <1>9, <1>10 DEF Asking

\* A pass that applies its plans takes each for done, or leaves its message unsettled.
LEMMA OwedApplying ==
    ASSUME CycleInv, OwedInv, Validate \/ Taking \/ Doing
    PROVE  OwedInv'
<1>1. /\ CycleTypes /\ Quiet /\ Due \subseteq Row \X (Kind \cup {"wait"})
      /\ pc \in {"validate", "apply", "log"} /\ pc' \in {"apply", "log"}
  BY ValidateDoes, TakingDoes, DoingDoes, DueTypes DEF CycleInv, Quiet
<1>2. /\ script' = script /\ arrived' = arrived /\ fate' = fate /\ pass'.asked = pass.asked
      /\ \A r \in 1..arrived : BehindIn(led, r)' <=> BehindIn(led, r)
  BY <1>1, QuietDoes, SameBehind, BehindFrame
<1>3. ASSUME Due' \subseteq Due,
             \A o \in Due' : (Accounted(o) /\ (pc = "log" => o # key))
                                 => (Accounted(o)' /\ (pc' = "log" => o # key'))
      PROVE  OwedInv'
  <2>1. \A o \in Due' : o[1] \in 1..arrived' \ Command
    BY <1>2, <1>3 DEF OwedInv
  <2>2. \A o \in Due' : BehindIn(led, o[1])' => fate'[o[1]] = "quarantined"
    BY <1>2, <1>3, <2>1 DEF OwedInv
  <2>3. \A b \in pass'.asked : b.status = "valid" =>
           \A o \in Due' : o[1] \in b.rows => (Accounted(o)' /\ (pc' = "log" => o # key'))
    BY <1>2, <1>3 DEF OwedInv
  <2>4. QED BY <1>1, <2>1, <2>2, <2>3 DEF OwedInv
<1>4. CASE Validate
  <2>1. /\ pc = "validate" /\ pc' = "apply" /\ PlansInScene /\ Due' \subseteq Due
        /\ pass.deferred \subseteq pass'.deferred /\ pass'.failed = pass.failed
        /\ \A q \in ToSet(pass.plans) : q.act \notin {"ignore", "wait"} =>
              \/ q.row \in pass'.deferred \/ KeyOf(q) \notin Due'
              \/ \E p \in ToSet(pass'.plans) : p.row = q.row /\ KindOf(p) = KindOf(q)
    BY <1>4, ValidateDoes DEF CycleInv, PassShape
  <2>2. ASSUME NEW o \in Due', Accounted(o) PROVE Accounted(o)'
    <3>1. CASE o[1] \in unsettled
      BY <2>1, <3>1 DEF Accounted, unsettled
    <3>2. CASE \E q \in ToSet(pass.plans) : Does(q, o)
      <4>1. PICK q \in ToSet(pass.plans) : q.row = o[1] /\ KindOf(q) = o[2]
        BY <3>2 DEF Does
      <4>2. o[2] \in Kind \cup {"wait"} /\ o = <<o[1], o[2]>>
        BY <1>1, <2>1
      <4>3. q.act # "ignore" /\ q.act # "wait"
        BY <2>1, <4>1, <4>2 DEF KindOf, Kind, Memory, PlansInScene
      <4>4. KeyOf(q) = o
        BY <4>1, <4>2 DEF KeyOf
      <4>5. QED BY <2>1, <4>1, <4>3, <4>4 DEF Accounted, unsettled, Does
    <3>3. QED BY <2>2, <3>1, <3>2 DEF Accounted
  <2>3. QED BY <1>3, <2>1, <2>2
<1>5. CASE Taking
  <2>1. /\ pc \in {"apply", "log"} /\ pc' = "apply" /\ pass.plans # <<>> /\ Popped
        /\ pc = "apply" \/ LogAction
        /\ Due' \subseteq Due
    BY <1>5, TakingDoes
  <2>2. /\ pass'.plans = Tail(pass.plans) /\ unsettled \subseteq unsettled'
    BY <2>1 DEF Popped, unsettled
  <2>3. /\ ToSet(pass.plans) = {plan} \cup ToSet(Tail(pass.plans)) /\ KindOf(plan) = plan.act
    BY <2>1, PlanAtHand
  <2>4. key \in Due' => plan.row \in unsettled' \/ pc = "log"
    <3>1. CASE ApplyDeferred \/ DeliveryFails \/ NotDue \/ NotifyRaises
      <4>1. pass' \in {Park, Missed}
        BY <3>1 DEF ApplyDeferred, DeliveryFails, NotDue, NotifyRaises
      <4>2. QED BY <1>1, <2>1, <4>1, PopOK DEF unsettled
    <3>2. CASE ApplyNothing \/ DeadLettered
      <4>1. owed' = owed \ {key}
        BY <3>2 DEF ApplyNothing, DeadLettered
      <4>2. QED BY <4>1 DEF Due
    <3>3. CASE NoteLost
      <4>1. GiveUp({key}, "unwritten") /\ "unwritten" \in GivenUp
        BY <3>3 DEF NoteLost, GivenUp
      <4>2. QED BY <1>1, <4>1, GiveUpDoes
    <3>4. CASE LogAction
      BY <3>4 DEF LogAction
    <3>5. QED BY <1>5, <3>1, <3>2, <3>3, <3>4 DEF Taking
  <2>5. ASSUME NEW o \in Due', Accounted(o), pc = "log" => o # key PROVE Accounted(o)'
    <3>1. CASE o[1] \in unsettled
      BY <2>2, <3>1 DEF Accounted
    <3>2. CASE \E p \in ToSet(Tail(pass.plans)) : Does(p, o)
      BY <2>2, <3>2 DEF Accounted, Does
    <3>3. CASE Does(plan, o)
      <4>1. o[1] = plan.row /\ o[2] = plan.act /\ o = <<o[1], o[2]>>
        BY <1>1, <2>1, <2>3, <3>3 DEF Does
      <4>2. o = key
        BY <4>1 DEF key
      <4>3. o[1] \in unsettled'
        BY <2>4, <2>5, <4>1, <4>2
      <4>4. QED BY <4>3 DEF Accounted
    <3>4. QED BY <2>3, <2>5, <3>1, <3>2, <3>3 DEF Accounted
  <2>6. QED BY <1>3, <2>1, <2>5
<1>6. CASE Doing
  <2>1. /\ Due' = Due \ {key} /\ key' = key /\ pass'.plans = pass.plans
        /\ pass'.deferred = pass.deferred /\ pass'.failed = pass.failed
    BY <1>6, DoingDoes DEF Due
  <2>2. \A o : Accounted(o)' <=> Accounted(o)
    BY <2>1 DEF Accounted, unsettled, Does
  <2>3. QED BY <1>3, <2>1, <2>2
<1>7. QED BY <1>4, <1>5, <1>6

\* No step loses what is owed.
LEMMA OwedParts ==
    ASSUME CycleInv, CursorInv, ReadInv, OwedInv, [Next]_vars
    PROVE  OwedInv'
<1>1. CycleTypes
  BY DEF CycleInv
\* Between passes only the cursors matter.
<1>2. ASSUME script' = script, arrived' = arrived, Due' = Due, fate' = fate,
             pass'.asked = {}, pass'.plans = <<>>,
             \A o \in Due : BehindIn(led', o[1]) => fate[o[1]] = "quarantined"
      PROVE  OwedInv'
  <2>1. ToSet(<<>>) = {}
    BY DEF ToSet
  <2>2. QED BY <1>2, <2>1, BehindFrame DEF OwedInv
<1>3. CASE UNCHANGED vars \/ AllAsked
  <2>1. /\ pass' = pass /\ Due' = Due /\ fate' = fate /\ script' = script /\ arrived' = arrived
        /\ led' = led
        /\ pc' = pc \/ (pc = "decide" /\ pc' = "validate")
    BY <1>3 DEF AllAsked, vars, work, history, Due
  <2>2. /\ \A o : Accounted(o)' <=> Accounted(o)
        /\ key' = key
    BY <2>1 DEF Accounted, unsettled, Does, key, plan
  <2>3. QED BY <2>1, <2>2, BehindFrame DEF OwedInv
<1>4. CASE Arrive
  <2>1. /\ pass' = pass /\ Due' = Due /\ fate' = fate /\ script' = script
        /\ led' = led /\ pc' = pc /\ 1..arrived' = 1..arrived \cup {arrived + 1}
    BY <1>4, ArrivalAhead DEF Arrive, work, history, Due
  <2>2. /\ \A o : Accounted(o)' <=> Accounted(o)
        /\ key' = key
    BY <2>1 DEF Accounted, unsettled, Does, key, plan
  <2>3. QED BY <2>1, <2>2, BehindFrame DEF OwedInv
<1>5. CASE Begin \/ World
  <2>1. /\ script' = script /\ arrived' = arrived /\ Due' = Due /\ fate' = fate
        /\ pass' = pass /\ pc = "idle"
    BY <1>5, WorldDoes DEF Begin, history, Due
  <2>2. pass'.asked = {} /\ pass'.plans = <<>>
    BY <2>1 DEF CycleInv, PassShape, NoPass
  <2>3. \A r \in 1..arrived : BehindIn(led', r) => BehindIn(led, r)
    BY <1>1, <1>5, QuietDoes, SameBehind DEF Quiet
  <2>4. QED BY <1>2, <2>1, <2>2, <2>3 DEF OwedInv
<1>6. CASE Fetch
  <2>1. /\ script' = script /\ arrived' = arrived /\ Due' = Due /\ fate' = fate /\ led' = Seeded
        /\ pass'.asked = {} /\ pass'.plans = <<>> /\ chat \in Chat
    BY <1>1, <1>6, FetchDoes DEF Fetch, history, Due
  <2>2. \A r \in 1..arrived : BehindIn(led', r) => BehindIn(led, r)
    BY <1>1, <2>1, SeededBehind DEF CursorInv
  <2>3. QED BY <1>2, <2>1, <2>2 DEF OwedInv
<1>7. CASE Save \/ SaveFails \/ Crash
  <2>1. /\ script' = script /\ arrived' = arrived /\ Due' = Due /\ fate' = fate
        /\ led' \in {led, saved} /\ pass' = NoPass
    BY <1>7 DEF Save, SaveFails, Crash, Forget, history, CycleInv, PassShape, Due
  <2>2. \A r \in 1..arrived : BehindIn(led', r) => BehindIn(led, r)
    BY <2>1 DEF CursorInv
  <2>3. QED BY <1>2, <2>1, <2>2 DEF OwedInv, NoPass
<1>8. CASE Served
  <2>1. /\ script' = script /\ arrived' = arrived /\ Due' = Due /\ fate' = fate /\ pass' = NoPass
    BY <1>8, ServedDoes DEF history, Due
  <2>2. ASSUME NEW o \in Due, BehindIn(led', o[1])
        PROVE  fate[o[1]] = "quarantined"
    <3>1. o[1] \in 1..arrived \ Command
      BY DEF OwedInv
    <3>2. CASE BehindIn(led, o[1])
      BY <3>2 DEF OwedInv
    <3>3. CASE pass.plans = <<>> /\ InSettled(o[1])
      <4>1. PICK b \in pass.asked : o[1] \in b.rows /\ Settled(b)
        BY <3>3 DEF InSettled
      <4>2. ~Accounted(o)
        <5>1. ToSet(<<>>) = {}
          BY DEF ToSet
        <5>2. QED BY <3>3, <4>1, <5>1 DEF Accounted, Settled
      <4>3. b.status # "valid"
        BY <4>1, <4>2 DEF OwedInv
      <4>4. QED BY <4>1, <4>3 DEF Settled, ReadInv
    <3>4. QED BY <1>8, <2>2, <3>1, <3>2, <3>3, ServedBehind
  <2>3. QED BY <1>2, <2>1, <2>2 DEF NoPass
<1>9. CASE Asking
  BY <1>9, OwedAsking
<1>10. CASE Validate \/ Taking \/ Doing
  BY <1>10, OwedApplying
<1>11. QED BY <1>3, <1>4, <1>5, <1>6, <1>7, <1>8, <1>9, <1>10, Steps DEF Asking

\* Over-cap, undelivered and outdated work is deferred: no cursor of the state passes a
\* message whose latest assessment left something to do or to wait for, unless it was
\* quarantined, or the pass gave it up for good: a reply whose text is empty or too long
\* once it is sanitized, a note the roster could not write.
THEOREM NothingOwedIsPassed == Spec => []NothingOwedBehind
<1>1. Init => CursorInv /\ ReadInv /\ OwedInv
  <2> SUFFICES ASSUME Init PROVE CursorInv /\ ReadInv /\ OwedInv
    OBVIOUS
  <2>1. /\ pc = "idle" /\ led = NewLedger /\ saved = NewLedger /\ pass.asked = {} /\ arrived = 0
        /\ Due = {}
    BY DEF Init, NoPass, Due
  <2>2. 1..0 = {}
    OBVIOUS
  <2>3. Bounded(NewLedger)
    BY <2>1 DEF Bounded, NewLedger, NewChat, NewLane, Unset
  <2>4. QED BY <2>1, <2>2, <2>3 DEF CursorInv, ReadInv, OwedInv
<1>2. CycleInv /\ CursorInv /\ ReadInv /\ OwedInv /\ [Next]_vars => CursorInv' /\ ReadInv' /\ OwedInv'
  BY CursorParts, ReadParts, OwedParts
<1>3. CursorInv /\ OwedInv => NothingOwedBehind
  BY DEF CursorInv, OwedInv, Due, NothingOwedBehind, Behind, BehindIn
<1>4. QED BY <1>1, <1>2, <1>3, Invariant, PTL DEF Spec

-------------------------------------------------------------------------------
(* No action is taken twice in a pass.                                      *)

LEMMA OnceJoined ==
    ASSUME NEW T, NEW s \in Seq(T), NEW t \in Seq(T), Once(s), Once(t),
           \A p \in ToSet(s), q \in ToSet(t) : KeyOf(p) # KeyOf(q)
    PROVE  Once(s \o t)
<1>1. /\ Len(s \o t) = Len(s) + Len(t) /\ Len(s) \in Nat /\ Len(t) \in Nat
      /\ \A i \in 1..Len(s) + Len(t) : (s \o t)[i] = IF i <= Len(s) THEN s[i] ELSE t[i - Len(s)]
  BY ConcatProperties, LenProperties
<1> DEFINE m == Len(s)
           n == Len(t)
           k == s \o t
<1>2. /\ \A i \in 1..m : s[i] \in ToSet(s)
      /\ \A i \in 1..n : t[i] \in ToSet(t)
  BY Elements
<1>3. /\ m \in Nat /\ n \in Nat /\ Len(k) = m + n
      /\ \A i \in 1..m + n : k[i] = IF i <= m THEN s[i] ELSE t[i - m]
      /\ \A i, j \in 1..m : KeyOf(s[i]) = KeyOf(s[j]) => i = j
      /\ \A i, j \in 1..n : KeyOf(t[i]) = KeyOf(t[j]) => i = j
  BY <1>1 DEF Once
<1> HIDE DEF m, n, k
<1>4. ASSUME NEW i \in 1..m + n
      PROVE  \/ i \in 1..m /\ k[i] = s[i]
             \/ ~(i <= m) /\ i - m \in 1..n /\ k[i] = t[i - m]
  BY <1>3
<1>5. ASSUME NEW i \in 1..m + n, NEW j \in 1..m + n, KeyOf(k[i]) = KeyOf(k[j])
      PROVE  i = j
  <2>1. CASE i \in 1..m /\ k[i] = s[i] /\ j \in 1..m /\ k[j] = s[j]
    BY <1>3, <1>5, <2>1
  <2>2. CASE i - m \in 1..n /\ k[i] = t[i - m] /\ j - m \in 1..n /\ k[j] = t[j - m]
    <3>1. i - m = j - m
      BY <1>3, <1>5, <2>2
    <3>2. QED BY <1>3, <3>1
  <2>3. CASE i \in 1..m /\ k[i] = s[i] /\ j - m \in 1..n /\ k[j] = t[j - m]
    BY <1>2, <1>5, <2>3
  <2>4. CASE i - m \in 1..n /\ k[i] = t[i - m] /\ j \in 1..m /\ k[j] = s[j]
    BY <1>2, <1>5, <2>4
  <2>5. QED BY <1>4, <2>1, <2>2, <2>3, <2>4
<1>6. QED BY <1>3, <1>5 DEF Once, k

LEMMA OnceParts ==
    ASSUME CycleInv, CursorInv, OnceInv, [Next]_vars
    PROVE  OnceInv'
<1>1. CycleTypes
  BY DEF CycleInv
<1>2. CASE Begin \/ World \/ Served \/ Save \/ SaveFails \/ Crash
  <2>1. pc' \in {"idle", "chat"}
    BY <1>2, ServedDoes, WorldDoes DEF Begin, Save, SaveFails, Crash, Forget
  <2>2. QED BY <2>1 DEF OnceInv
<1>3. CASE UNCHANGED vars \/ Arrive \/ AllAsked
  <2>1. /\ pass' = pass
        /\ pc' = pc \/ (pc = "decide" /\ pc' = "validate")
    BY <1>3 DEF Arrive, AllAsked, vars, work
  <2>2. QED BY <2>1 DEF OnceInv
<1>4. CASE Fetch
  <2>1. pass'.plans = <<>>
    BY <1>1, <1>4, FetchDoes
  <2> DEFINE none == pass'.plans
  <2>2. Len(none) = 0 /\ 1..0 = {} /\ ToSet(none) = {}
    BY <2>1 DEF ToSet
  <2> HIDE DEF none
  <2>3. Once(none)
    BY <2>2 DEF Once
  <2>4. QED BY <2>2, <2>3 DEF OnceInv, none
<1>5. CASE Asking
  <2>1. /\ pc = "decide" /\ pc' = "decide"
        /\ \A b \in pass.todo : b.rows # {} /\ b.rows \subseteq 1..arrived
    BY <1>5, AskingDoes DEF CycleInv, PassShape, InScene
  <2>2. Once(pass.plans) /\ \A p \in ToSet(pass.plans) : \E b \in pass.asked : p.row \in b.rows
    BY <2>1 DEF OnceInv
  <2>3. PICK status \in {"open", "invalid", "quarantined", "valid"} : Answered(status)
    BY <1>5, AskingDoes
  <2>4. pass'.asked = pass.asked \cup {AskedAs(status)} /\ AskedAs(status).rows = batch.rows
    BY <2>3 DEF Answered, AskedAs
  <2>5. CASE PassOver \/ AskInvalid
    <3>1. pass'.plans = pass.plans
      BY <1>1, <2>5, PassOverDoes, AskInvalidDoes
    <3>2. QED BY <2>2, <2>4, <3>1 DEF OnceInv
  <2>6. CASE AskValid
    <3>1. batch \in pass.todo /\ batch \in Batch
      BY <1>1, <2>1, <2>6, AskValidDoes
    <3>2. PICK decided, held : Judged(decided, held)
      BY <1>1, <2>1, <2>6, AskValidDoes
    <3>3. /\ ToSet(pass'.plans) = ToSet(pass.plans) \cup ToSet(decided)
          /\ \A p \in ToSet(decided) : p.row \in batch.rows
      BY <1>1, <3>1, <3>2, JudgedPlans
    <3>4. /\ decided \in Seq({p \in About(batch.rows) : p.act # "wait"}) /\ Once(decided)
          /\ pass'.plans = pass.plans \o decided
      BY <3>2 DEF Judged
    <3>5. {p \in About(batch.rows) : p.act # "wait"} \subseteq Plan
      BY DEF About
    <3>6. decided \in Seq(Plan) /\ pass.plans \in Seq(Plan)
      BY <1>1, <3>4, <3>5, SeqMonotonic DEF CycleTypes, PassRecord
    <3>7. \A b \in pass.asked : b.rows \cap batch.rows = {}
      BY <2>1, <3>1 DEF CursorInv, DealtInv, Apart
    <3>8. \A p \in ToSet(pass.plans), q \in ToSet(decided) : KeyOf(p) # KeyOf(q)
      BY <2>2, <3>3, <3>7 DEF KeyOf
    <3>9. Once(pass'.plans)
      BY <2>2, <3>4, <3>6, <3>8, OnceJoined
    <3>10. \A p \in ToSet(pass'.plans) : \E b \in pass'.asked : p.row \in b.rows
      BY <2>2, <2>4, <3>3
    <3>11. QED BY <3>9, <3>10 DEF OnceInv
  <2>7. QED BY <1>5, <2>5, <2>6 DEF Asking
<1>6. CASE Validate
  <2>1. pc = "validate" /\ pc' = "apply" /\ (Once(pass.plans) => Once(pass'.plans))
    BY <1>6, ValidateDoes
  <2>2. QED BY <2>1 DEF OnceInv
<1>7. CASE Taking
  <2>1. /\ pc \in {"apply", "log"} /\ pc' = "apply" /\ pass.plans # <<>>
        /\ pass'.plans = Tail(pass.plans)
    BY <1>7, TakingDoes DEF Popped
  <2>2. pass.plans \in Seq(Plan) /\ Once(pass.plans)
    BY <1>1, <2>1 DEF OnceInv, CycleTypes, PassRecord
  <2>3. Once(pass'.plans)
    BY <2>1, <2>2, TailOnce
  <2>4. QED BY <2>1, <2>3 DEF OnceInv
<1>8. CASE Doing
  <2>1. pc = "apply" /\ pc' = "log" /\ pass'.plans = pass.plans
    BY <1>8, DoingDoes
  <2>2. QED BY <2>1 DEF OnceInv
<1>9. QED BY <1>2, <1>3, <1>4, <1>5, <1>6, <1>7, <1>8, Steps DEF Asking

-------------------------------------------------------------------------------
(* The owner is told once.                                                  *)

\* What may have the owner told again: crashes, rows and reads of the log that failed,
\* notifications that raised.
LEMMA SlipsGrow ==
    ASSUME CycleTypes
    PROVE  /\ Slips \in Nat
           /\ spent' = spent => Slips' = Slips
           /\ \A f \in {"save", "other"} : Spend(f) => Slips' = Slips
           /\ \A f \in {"crash", "log", "read", "notify"} : Spend(f) => Slips' = Slips + 1
<1>1. Fault = {"crash", "save", "log", "read", "notify", "other"}
  BY DEF Fault
<1>2. PICK c \in Nat, l \in Nat, r \in Nat, n \in Nat :
         spent["crash"] = c /\ spent["log"] = l /\ spent["read"] = r /\ spent["notify"] = n
  BY <1>1 DEF CycleTypes
<1>3. Slips = c + l + r + n
  BY <1>2 DEF Slips
<1>4. ASSUME NEW f \in Fault, Spend(f)
      PROVE  /\ spent'["crash"] = IF f = "crash" THEN c + 1 ELSE c
             /\ spent'["log"] = IF f = "log" THEN l + 1 ELSE l
             /\ spent'["read"] = IF f = "read" THEN r + 1 ELSE r
             /\ spent'["notify"] = IF f = "notify" THEN n + 1 ELSE n
  <2>1. \A g \in Fault : spent'[g] = IF g = f THEN spent[g] + 1 ELSE spent[g]
    BY <1>4, SpendKeeps
  <2>2. QED BY <1>1, <1>2, <2>1
<1>5. Slips' = spent'["crash"] + spent'["log"] + spent'["read"] + spent'["notify"]
  BY DEF Slips
<1>6. ASSUME NEW f \in {"save", "other"}, Spend(f) PROVE Slips' = Slips
  <2>1. spent'["crash"] = c /\ spent'["log"] = l /\ spent'["read"] = r /\ spent'["notify"] = n
    BY <1>1, <1>4, <1>6
  <2>2. QED BY <1>3, <1>5, <2>1
<1>7. Spend("crash") => Slips' = Slips + 1
  BY <1>1, <1>3, <1>4, <1>5
<1>8. Spend("log") => Slips' = Slips + 1
  BY <1>1, <1>3, <1>4, <1>5
<1>9. Spend("read") => Slips' = Slips + 1
  BY <1>1, <1>3, <1>4, <1>5
<1>10. Spend("notify") => Slips' = Slips + 1
  BY <1>1, <1>3, <1>4, <1>5
<1>11. spent' = spent => Slips' = Slips
  BY DEF Slips
<1>12. Slips \in Nat
  BY <1>3
<1>13. QED BY <1>6, <1>7, <1>8, <1>9, <1>10, <1>11, <1>12

LEMMA PlanKeys ==
    ASSUME NEW plans \in Seq(Applicable)
    PROVE  \A p \in ToSet(plans) : KeyOf(p) \in Key
<1>1. ASSUME NEW p \in ToSet(plans) PROVE KeyOf(p) \in Key
  <2>1. p \in Plan /\ p.act \in Kind
    BY Elements DEF Applicable
  <2>2. p.row \in Row /\ p.act # "delegate"
    BY <2>1 DEF Plan, Kind, Memory
  <2>3. QED BY <2>1, <2>2 DEF KeyOf, KindOf, Key
<1>2. QED BY <1>1

\* A slip makes up for an action told once more.
LEMMA ToldSlipped ==
    ASSUME CycleTypes, Slips' = Slips + 1, \A a \in Key : told'[a] =< Slips + 1,
           \A a \in Key : told'[a] \in Nat,
           pc' \in {"apply", "log"} => pass'.plans \in Seq(Applicable)
    PROVE  ToldInv'
<1>1. PICK s \in Nat : Slips = s
  BY SlipsGrow
<1>2. Slips' = s + 1 /\ \A a \in Key : told'[a] =< s + 1
  BY <1>1
<1>3. ASSUME NEW a \in Key PROVE told'[a] =< Slips' /\ told'[a] =< Slips' + 1
  <2>1. PICK t \in Nat : told'[a] = t
    OBVIOUS
  <2>2. t =< s + 1 /\ t =< s + 1 + 1
    BY <1>2, <2>1
  <2>3. QED BY <1>2, <2>1, <2>2
<1>4. pc' \in {"apply", "log"} => \A p \in ToSet(pass'.plans) : KeyOf(p) \in Key
  BY PlanKeys
<1>5. QED BY <1>3, <1>4 DEF ToldInv

\* Without one, an action told once more is about to be logged, or is logged.
LEMMA ToldAgain ==
    ASSUME CycleTypes, Slips' = Slips,
           \A a \in Key : told'[a] =< Slips + 1,
           \A a \in Key : a \notin log' /\ ~(pc' = "log" /\ key' = a) => told'[a] =< Slips,
           pc' \in {"decide", "validate"} => \A a \in Key \ pass'.done : told'[a] =< Slips,
           pc' \in {"apply", "log"} => \A p \in ToSet(pass'.plans) :
                                          KeyOf(p) \notin pass'.done => told'[KeyOf(p)] =< Slips
    PROVE  ToldInv'
BY DEF ToldInv

\* The action at hand: the owner was told of it as often as there were slips at most.
LEMMA ToldAtHand ==
    ASSUME CycleInv, ToldInv, pc = "apply", pass.plans # <<>>, key \notin pass.done
    PROVE  /\ told[key] =< Slips /\ told[key] + 1 =< Slips + 1 /\ key \in Key
           /\ told \in [Key -> Nat] /\ Slips \in Nat
<1>1. plan \in ToSet(pass.plans) /\ KindOf(plan) = plan.act /\ key \in Key
  BY PlanAtHand
<1>2. KeyOf(plan) = key
  BY <1>1 DEF KeyOf, key
<1>3. told[key] =< Slips
  BY <1>1, <1>2 DEF ToldInv
<1>4. told \in [Key -> Nat] /\ Slips \in Nat
  BY SlipsGrow DEF CycleInv, CycleTypes
<1>5. PICK t \in Nat, n \in Nat : told[key] = t /\ Slips = n
  BY <1>1, <1>4
<1>6. t + 1 =< n + 1
  BY <1>3, <1>5
<1>7. QED BY <1>1, <1>3, <1>4, <1>5, <1>6

\* An action taken: the notification is a mark in the pass until it is logged.
LEMMA ToldDoing == ASSUME CycleInv, ToldInv, Doing PROVE ToldInv'
<1>1. /\ pc = "apply" /\ pc' = "log" /\ pass.plans # <<>> /\ key \notin pass.done
      /\ pass'.plans = pass.plans /\ pass'.done = pass.done \cup {key}
      /\ log' = log /\ spent' = spent /\ key' = key /\ CycleTypes
  BY DoingDoes DEF CycleInv
<1>2. /\ told[key] =< Slips /\ told[key] + 1 =< Slips + 1 /\ key \in Key
      /\ told \in [Key -> Nat] /\ Slips \in Nat
  BY <1>1, ToldAtHand
<1>3. told' = told \/ told' = [told EXCEPT ![key] = @ + 1] \/ told' = [told EXCEPT ![key] = @ + 0]
  BY DEF Doing, Delivered, SideEffectDone, Tell
<1>4. /\ \A a \in Key \ {key} : told'[a] = told[a]
      /\ told'[key] =< Slips + 1
  <2>1. told[key] =< Slips + 1
    BY <1>2 DEF ToldInv
  <2>2. told[key] + 0 = told[key]
    BY <1>2
  <2>3. QED BY <1>2, <1>3, <2>1, <2>2
<1>5. /\ Slips' = Slips
      /\ \A a \in Key : told[a] =< Slips + 1
      /\ \A a \in Key : a \notin log => told[a] =< Slips
      /\ \A p \in ToSet(pass.plans) : KeyOf(p) \notin pass.done => told[KeyOf(p)] =< Slips
  BY <1>1, SlipsGrow DEF ToldInv
<1>6. \A p \in ToSet(pass.plans) : KeyOf(p) \in Key
  BY <1>1, PlanKeys DEF CycleInv, PassShape, PlansInScene
<1>7. \A a \in Key : told'[a] =< Slips + 1
  BY <1>4, <1>5
<1>8. \A a \in Key : a \notin log' /\ ~(pc' = "log" /\ key' = a) => told'[a] =< Slips
  BY <1>1, <1>4, <1>5
<1>9. \A p \in ToSet(pass'.plans) : KeyOf(p) \notin pass'.done => told'[KeyOf(p)] =< Slips
  BY <1>1, <1>4, <1>5, <1>6
<1>10. QED BY <1>1, <1>5, <1>7, <1>8, <1>9, ToldAgain

\* An action that is done with, in the pass and perhaps in the log.
LEMMA ToldTaking == ASSUME CycleInv, CycleInv', OnceInv, ToldInv, Taking PROVE ToldInv'
<1>1. /\ pc \in {"apply", "log"} /\ pc' = "apply" /\ pass.plans # <<>> /\ Popped
      /\ pc = "apply" \/ LogAction
      /\ told' \in [Key -> Nat] /\ \A a \in Key \ {key} : told'[a] = told[a]
      /\ CycleTypes /\ told \in [Key -> Nat] /\ Slips \in Nat
  BY TakingDoes, SlipsGrow DEF CycleInv, CycleTypes
<1>2. /\ pass'.done = pass.done /\ pass'.plans = Tail(pass.plans)
      /\ pass'.plans \in Seq(Applicable) /\ pass.plans \in Seq(Applicable)
      /\ ToSet(pass.plans) = {plan} \cup ToSet(Tail(pass.plans)) /\ key \in Key
  BY <1>1, PlanAtHand DEF Popped, CycleInv, PassShape, PlansInScene
<1>3. /\ \A a \in Key : told[a] =< Slips + 1
      /\ \A a \in Key : a \notin log /\ ~(pc = "log" /\ key = a) => told[a] =< Slips
      /\ \A p \in ToSet(pass.plans) : KeyOf(p) \notin pass.done => told[KeyOf(p)] =< Slips
  BY <1>1 DEF ToldInv
<1>4. /\ \A p \in ToSet(pass'.plans) : p \in ToSet(pass.plans) /\ KeyOf(p) \in Key
      /\ \A p \in ToSet(pass'.plans) : KeyOf(p) # key
  <2>1. \A p \in ToSet(pass'.plans) : p \in ToSet(pass.plans) /\ KeyOf(p) \in Key
    BY <1>2, PlanKeys
  <2>2. Once(pass.plans) /\ KeyOf(plan) = key
    BY <1>1, PlanAtHand DEF OnceInv, KeyOf, key
  <2>3. \A p \in ToSet(Tail(pass.plans)) : KeyOf(p) # KeyOf(Head(pass.plans))
    BY <1>1, <1>2, <2>2, TailOnce
  <2>4. QED BY <1>2, <2>1, <2>2, <2>3 DEF plan
<1>5. \A a \in Key : told'[a] \in Nat
  BY <1>1
\* Steps that tell nothing, and log nothing but what was done.
<1>6. ASSUME told' = told, Slips' = Slips,
             (log' = log /\ pc = "apply") \/ log' = log \cup {key}
      PROVE  ToldInv'
  <2>1. \A a \in Key : a \notin log' /\ ~(pc' = "log" /\ key' = a) => told'[a] =< Slips
    BY <1>1, <1>3, <1>6
  <2>2. \A p \in ToSet(pass'.plans) : KeyOf(p) \notin pass'.done => told'[KeyOf(p)] =< Slips
    BY <1>2, <1>3, <1>4, <1>6
  <2>3. QED BY <1>1, <1>3, <1>6, <2>1, <2>2, ToldAgain
<1>7. CASE ApplyDeferred \/ ApplyNothing \/ DeliveryFails \/ NotDue \/ NoteLost
  <2>1. told' = told /\ log' = log /\ (spent' = spent \/ Spend("other"))
    BY <1>7 DEF ApplyDeferred, ApplyNothing, DeliveryFails, NotDue, NoteLost
  <2>2. pc = "apply"
    BY <1>7 DEF ApplyDeferred, ApplyNothing, DeliveryFails, NotDue, NoteLost, Deliverable,
                SideEffect, Applying
  <2>3. Slips' = Slips
    BY <1>1, <2>1, SlipsGrow
  <2>4. QED BY <1>6, <2>1, <2>2, <2>3
<1>8. CASE LogAction
  <2>1. told' = told /\ ((log' = log \cup {key} /\ spent' = spent) \/ Spend("log"))
    BY <1>8 DEF LogAction, history
  <2>2. CASE log' = log \cup {key} /\ spent' = spent
    BY <1>1, <1>6, <2>1, <2>2, SlipsGrow
  <2>3. CASE Spend("log")
    <3>1. Slips' = Slips + 1
      BY <1>1, <2>3, SlipsGrow
    <3>2. \A a \in Key : told'[a] =< Slips + 1
      BY <1>3, <2>1
    <3>3. QED BY <1>1, <1>2, <1>5, <3>1, <3>2, ToldSlipped
  <2>4. QED BY <2>1, <2>2, <2>3
<1>9. CASE DeadLettered \/ NotifyRaises
  <2>1. pc = "apply" /\ key \notin pass.done
    BY <1>9 DEF DeadLettered, NotifyRaises, Deliverable, SideEffect, Applying
  <2>2. told[key] =< Slips /\ told[key] + 1 =< Slips + 1
    BY <1>1, <2>1, ToldAtHand
  <2>3. told'[key] =< Slips + 1
    <3>1. PICK once \in 0..1 : told' = [told EXCEPT ![key] = @ + once]
      BY <1>9 DEF DeadLettered, NotifyRaises, Tell
    <3>2. told'[key] = told[key] + once
      BY <1>1, <1>2, <3>1
    <3>3. once = 0 \/ once = 1
      OBVIOUS
    <3>4. told[key] + 0 = told[key] /\ told[key] =< Slips + 1
      BY <1>1, <1>2, <1>3
    <3>5. QED BY <2>2, <3>2, <3>3, <3>4
  <2>4. \A a \in Key : told'[a] =< Slips + 1
    BY <1>1, <1>3, <2>3
  <2>5. CASE Spend("log") \/ Spend("notify")
    <3>1. Slips' = Slips + 1
      BY <1>1, <2>5, SlipsGrow
    <3>2. QED BY <1>1, <1>2, <1>5, <2>4, <3>1, ToldSlipped
  <2>6. CASE log' = log \cup {key} /\ spent' = spent
    <3>1. Slips' = Slips
      BY <1>1, <2>6, SlipsGrow
    <3>2. \A a \in Key : a \notin log' => told'[a] =< Slips
      BY <1>1, <1>3, <2>1, <2>6
    <3>3. \A p \in ToSet(pass'.plans) : KeyOf(p) \notin pass'.done => told'[KeyOf(p)] =< Slips
      BY <1>1, <1>2, <1>3, <1>4
    <3>4. QED BY <1>1, <2>4, <3>1, <3>2, <3>3, ToldAgain
  <2>7. QED BY <1>9, <2>5, <2>6 DEF DeadLettered, NotifyRaises
<1>10. QED BY <1>7, <1>8, <1>9 DEF Taking

LEMMA ToldParts ==
    ASSUME CycleInv, CycleInv', OnceInv, ToldInv, [Next]_vars
    PROVE  ToldInv'
<1>1. /\ CycleTypes /\ told \in [Key -> Nat] /\ Slips \in Nat
      /\ \A a \in Key : told[a] =< Slips + 1
      /\ \A a \in Key : a \notin log /\ ~(pc = "log" /\ key = a) => told[a] =< Slips
  BY SlipsGrow DEF CycleInv, CycleTypes, ToldInv
<1>2. CASE UNCHANGED vars \/ Arrive
  <2>1. /\ pc' = pc /\ pass' = pass /\ log' = log /\ told' = told /\ spent' = spent
        /\ key' = key
    BY <1>2 DEF Arrive, vars, work, history, key, plan
  <2>2. Slips' = Slips
    BY <1>1, <2>1, SlipsGrow
  <2>3. QED BY <2>1, <2>2 DEF ToldInv
\* Steps that leave the pass: what the log lacks was told only as often as there were slips.
<1>3. CASE Begin \/ Served \/ World \/ Save \/ SaveFails
  <2>1. /\ pc # "log" /\ pc' \in {"idle", "chat"} /\ told' = told /\ log' = log
        /\ (Spend("other") \/ Spend("save") \/ spent' = spent)
    <3>1. CASE Begin
      BY <3>1 DEF Begin, history
    <3>2. CASE Served
      BY <3>2, ServedDoes DEF history
    <3>3. CASE World
      BY <3>3, WorldDoes
    <3>4. CASE Save \/ SaveFails
      BY <3>4 DEF Save, SaveFails, Forget, history
    <3>5. QED BY <1>3, <3>1, <3>2, <3>3, <3>4
  <2>2. Slips' = Slips
    BY <1>1, <2>1, SlipsGrow
  <2>3. QED BY <1>1, <2>1, <2>2, ToldAgain
<1>4. CASE Crash
  <2>1. Spend("crash") /\ pc' = "idle" /\ told' = told
    BY <1>4 DEF Crash, Forget, history
  <2>2. Slips' = Slips + 1
    BY <1>1, <2>1, SlipsGrow
  <2>3. QED BY <1>1, <2>1, <2>2, ToldSlipped
<1>5. CASE Fetch
  <2>1. /\ pc = "chat" /\ pc' = "decide" /\ told' = told /\ log' = log
        /\ \/ pass'.done = log /\ spent' = spent
           \/ Spend("read")
    BY <1>1, <1>5, FetchDoes DEF Fetch, history
  <2>2. CASE pass'.done = log /\ spent' = spent
    <3>1. Slips' = Slips
      BY <1>1, <2>2, SlipsGrow
    <3>2. \A a \in Key \ pass'.done : told'[a] =< Slips
      BY <1>1, <2>1, <2>2
    <3>3. QED BY <1>1, <2>1, <3>1, <3>2, ToldAgain
  <2>3. CASE Spend("read")
    <3>1. Slips' = Slips + 1
      BY <1>1, <2>3, SlipsGrow
    <3>2. QED BY <1>1, <2>1, <3>1, ToldSlipped
  <2>4. QED BY <2>1, <2>2, <2>3
<1>6. CASE Asking \/ AllAsked \/ Validate
  <2>1. /\ pc \in {"decide", "validate"} /\ told' = told /\ log' = log /\ pass'.done = pass.done
        /\ pc' \in {"decide", "validate", "apply"}
        /\ pc' = "apply" => pass'.plans \in Seq(Applicable)
        /\ spent' = spent \/ Spend("other")
    <3>1. CASE Asking
      BY <3>1, AskingDoes DEF SamePage
    <3>2. CASE AllAsked
      BY <3>2 DEF AllAsked, history
    <3>3. CASE Validate
      BY <3>3, ValidateDoes
    <3>4. QED BY <1>6, <3>1, <3>2, <3>3
  <2>2. Slips' = Slips
    BY <1>1, <2>1, SlipsGrow
  <2>3. \A a \in Key \ pass.done : told[a] =< Slips
    BY <2>1 DEF ToldInv
  <2>4. pc' = "apply" => \A p \in ToSet(pass'.plans) : KeyOf(p) \in Key
    BY <2>1, PlanKeys
  <2>5. pc' \in {"apply", "log"} => \A p \in ToSet(pass'.plans) :
                                      KeyOf(p) \notin pass'.done => told'[KeyOf(p)] =< Slips
    BY <2>1, <2>3, <2>4
  <2>6. QED BY <1>1, <2>1, <2>2, <2>3, <2>5, ToldAgain
<1>7. CASE Doing
  BY <1>7, ToldDoing
<1>8. CASE Taking
  BY <1>8, ToldTaking
<1>9. QED BY <1>2, <1>3, <1>4, <1>5, <1>6, <1>7, <1>8, Steps DEF Asking

\* The owner is told of an action once, be it the notification or the alert that a reply
\* or a reaction is dead: again only after a crash, a row that the log lost, a read of the
\* log that failed, or a notification that raised although it was sent.  A ledger that is
\* lost repeats nothing, nor does a later pass over the same messages.
THEOREM OwnerToldOnce == Spec => []ToldOnce
<1>1. Init => CursorInv /\ OnceInv /\ ToldInv
  <2> SUFFICES ASSUME Init PROVE CursorInv /\ OnceInv /\ ToldInv
    OBVIOUS
  <2>1. /\ pc = "idle" /\ led = NewLedger /\ saved = NewLedger /\ arrived = 0
        /\ log = {} /\ (\A a \in Key : told[a] = 0) /\ spent = [f \in Fault |-> 0]
    BY DEF Init
  <2>2. 1..0 = {}
    OBVIOUS
  <2>3. Bounded(NewLedger)
    BY <2>1 DEF Bounded, NewLedger, NewChat, NewLane, Unset
  <2>4. Slips = 0
    BY <2>1 DEF Slips, Fault
  <2>5. QED BY <2>1, <2>2, <2>3, <2>4 DEF CursorInv, OnceInv, ToldInv
<1>2. /\ CycleInv /\ CycleInv' /\ CursorInv /\ OnceInv /\ ToldInv /\ [Next]_vars
           => CursorInv' /\ OnceInv' /\ ToldInv'
  BY CursorParts, OnceParts, ToldParts
<1>3. CycleInv /\ ToldInv => ToldOnce
  <2> SUFFICES ASSUME CycleInv, ToldInv, NEW a \in Key
               PROVE  told[a] =< 1 + spent["crash"] + spent["log"] + spent["read"] + spent["notify"]
    BY DEF ToldOnce
  <2>1. PICK c \in Nat, l \in Nat, r \in Nat, n \in Nat, t \in Nat :
           /\ spent["crash"] = c /\ spent["log"] = l /\ spent["read"] = r /\ spent["notify"] = n
           /\ told[a] = t
    BY DEF CycleInv, CycleTypes, Fault
  <2>2. t =< c + l + r + n + 1
    BY <2>1 DEF ToldInv, Slips
  <2>3. QED BY <2>1, <2>2
<1>4. QED BY <1>1, <1>2, <1>3, Invariant, PTL DEF Spec

===============================================================================
