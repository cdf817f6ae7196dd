------------------------------ MODULE RosterProofs ------------------------------
(***************************************************************************)
(* Proofs about the roster.                                                *)
(***************************************************************************)
EXTENDS Roster, SequenceTheorems, NumberLemmas

\* The maps in memory and file stay within their bounds...
Bounded == {p \in Person : Len(p.notes) =< MaxNotes}
Rosters == [people: {s \in Seq(Bounded) : Len(s) =< MaxPeople},
            things: {s \in Seq(Thing) : Len(s) =< MaxEntities}]

\* ... nobody in them was seen after the latest call ...
SeenBy(map, now) == \A i \in 1..Len(map.people) : map.people[i].seen =< now

\* ... and the file knows nobody memory has forgotten, unless memory is full: it stays so.
Who(map) == {p.who : p \in ToSet(map.people)}
KeepsAll ==
    loaded /\ trouble["load"] = 0 =>
       Who(file) \subseteq Who(cache) \/ Len(cache.people) = MaxPeople

RosterTypes ==
    /\ cache \in Rosters /\ file \in Rosters
    /\ loaded \in BOOLEAN /\ dirty \in BOOLEAN /\ flushed \in BOOLEAN
    /\ calls \in 0..MaxCalls /\ trouble \in [{"flush", "load", "crash"} -> 0..MaxTrouble]
    /\ SeenBy(cache, calls) /\ SeenBy(file, calls)

RosterInv == RosterTypes /\ KeepsAll /\ LagIsDirty /\ NotesDurable

-------------------------------------------------------------------------------
(* Lemmas about the operators.                                             *)

\* Where an entry is found it names the one looked for.
LEMMA LeastIn ==
    ASSUME NEW I \in SUBSET Nat, I # {}
    PROVE  Min(I) \in I
<1>1. PICK m \in I : \A n \in I : m =< n
  BY LeastNumber
<1>2. QED BY <1>1, Zenon DEF Min

LEMMA Found ==
    ASSUME NEW S, NEW entries \in Seq(S), NEW who
    PROVE  /\ At(entries, who) \in 0..Len(entries)
           /\ At(entries, who) # 0 => entries[At(entries, who)].who = who
<1> DEFINE I == {i \in 1..Len(entries) : entries[i].who = who}
<1>1. At(entries, who) = IF I # {} THEN Min(I) ELSE 0
  BY Zenon DEF At, SelectInSeq
<1>2. I # {} => Min(I) \in I
  <2>1. I \in SUBSET Nat
    OBVIOUS
  <2>2. QED BY <2>1, LeastIn
<1>3. QED BY <1>1, <1>2

LEMMA CalledOne ==
    ASSUME NEW S, NEW entries \in Seq(S), NEW handle
    PROVE  Called(entries, handle) \in 0..Len(entries)
<1> DEFINE I == {i \in 1..Len(entries) : entries[i].handle = handle}
<1>1. Called(entries, handle) = IF I # {} THEN Min(I) ELSE 0
  BY Zenon DEF Called, SelectInSeq
<1>2. I # {} => Min(I) \in I
  <2>1. I \in SUBSET Nat
    OBVIOUS
  <2>2. QED BY <2>1, LeastIn
<1>3. QED BY <1>1, <1>2

\* Eviction removes one entry at most, and never the one seen last.
LEMMA KeptShape ==
    ASSUME NEW S, \A e \in S : e.seen \in Nat, NEW entries \in Seq(S),
           NEW max \in Nat \ {0}, Len(entries) =< max + 1
    PROVE  /\ Kept(entries, max) \in Seq(S)
           /\ Len(Kept(entries, max)) =< max
           /\ Len(entries) =< max => Kept(entries, max) = entries
           /\ Len(entries) >= max => Len(Kept(entries, max)) = max
           /\ \A k \in 1..Len(entries) :
                (\A j \in 1..Len(entries) \ {k} : entries[j].seen < entries[k].seen) =>
                   entries[k] \in ToSet(Kept(entries, max))
<1>len. Len(entries) \in Nat /\ DOMAIN entries = 1..Len(entries)
        /\ \A i \in 1..Len(entries) : entries[i] \in S /\ entries[i].seen \in Nat
  BY LenProperties, ElementOfSeq
<1>1. CASE Len(entries) =< max
  <2>1. Kept(entries, max) = entries
    BY <1>1 DEF Kept
  <2>2. QED BY <2>1, <1>1, <1>len DEF ToSet
<1>2. CASE Len(entries) = max + 1
  <2> DEFINE out == Stalest(entries)
  <2>1. out \in 1..Len(entries) /\ \A j \in 1..Len(entries) : entries[out].seen =< entries[j].seen
    <3>1. PICK m \in {entries[i].seen : i \in 1..Len(entries)} :
                 \A n \in {entries[i].seen : i \in 1..Len(entries)} : m =< n
      <4>1. {entries[i].seen : i \in 1..Len(entries)} \in SUBSET Nat
        BY <1>len
      <4>2. entries[1].seen \in {entries[i].seen : i \in 1..Len(entries)}
        BY <1>2, <1>len
      <4>3. QED BY <4>1, <4>2, LeastNumber
    <3>2. PICK i \in 1..Len(entries) : m = entries[i].seen
      BY <3>1
    <3>3. \A j \in 1..Len(entries) : entries[i].seen =< entries[j].seen
      BY <3>1, <3>2
    <3>4. QED BY <3>3, <1>len, Zenon DEF Stalest
  <2> DEFINE left == SubSeq(entries, 1, out - 1)
             right == SubSeq(entries, out + 1, Len(entries))
  <2>2. Kept(entries, max) = left \o right
    <3>1. ~(Len(entries) =< max)
      BY <1>2, <1>len
    <3>2. QED BY <3>1 DEF Kept, RemoveAt
  <2> HIDE DEF out
  <2>3. /\ left \in Seq(S) /\ Len(left) = out - 1
        /\ \A i \in 1..out - 1 : left[i] = entries[i]
    <3>1. out - 1 \in Int /\ \A i \in 1..out - 1 : entries[i] \in S
      BY <2>1, <1>len
    <3>2. /\ left \in Seq(S) /\ Len(left) = IF 1 =< out - 1 THEN out - 1 - 1 + 1 ELSE 0
          /\ \A i \in 1..out - 1 - 1 + 1 : left[i] = entries[1 + i - 1]
      BY <3>1, SubSeqProperties
    <3> HIDE DEF left
    <3>3. QED BY <3>2, <2>1, <1>len
  <2>4. /\ right \in Seq(S) /\ Len(right) = Len(entries) - out
        /\ \A i \in 1..Len(entries) - out : right[i] = entries[out + i]
    <3>1. out + 1 \in Int /\ Len(entries) \in Int
          /\ \A i \in out + 1..Len(entries) : entries[i] \in S
      BY <2>1, <1>len
    <3>2. /\ right \in Seq(S)
          /\ Len(right) = IF out + 1 =< Len(entries) THEN Len(entries) - (out + 1) + 1 ELSE 0
          /\ \A i \in 1..Len(entries) - (out + 1) + 1 : right[i] = entries[out + 1 + i - 1]
      BY <3>1, SubSeqProperties
    <3> HIDE DEF right
    <3>3. /\ Len(entries) - (out + 1) + 1 = Len(entries) - out
          /\ \A i \in 1..Len(entries) - out : out + 1 + i - 1 = out + i
      BY <2>1, <1>len
    <3>4. Len(right) = Len(entries) - out
      <4>1. \A n, o \in Int : o =< n =>
               (IF o + 1 =< n THEN n - (o + 1) + 1 ELSE 0) = n - o
        OBVIOUS
      <4>2. Len(entries) \in Int /\ out \in Int /\ out =< Len(entries)
        BY <2>1, <1>len
      <4>3. QED BY <3>2, <4>1, <4>2
    <3>5. \A i \in 1..Len(entries) - out : right[i] = entries[out + i]
      BY <3>2, <3>3
    <3>6. QED BY <3>2, <3>4, <3>5
  <2> HIDE DEF left, right
  <2>5. /\ left \o right \in Seq(S) /\ Len(left \o right) = Len(left) + Len(right)
        /\ \A i \in 1..Len(left) + Len(right) :
             (left \o right)[i] = IF i <= Len(left) THEN left[i] ELSE right[i - Len(left)]
    BY <2>3, <2>4, ConcatProperties
  <2> DEFINE new == left \o right
  <2> HIDE DEF new
  <2>6. /\ new \in Seq(S) /\ Len(new) = max /\ DOMAIN new = 1..max
        /\ \A i \in 1..max : new[i] = IF i < out THEN entries[i] ELSE entries[i + 1]
    <3>1. new \in Seq(S) /\ Len(new) = max
      BY <2>5, <2>3, <2>4, <2>1, <1>2, <1>len DEF new
    <3>2. DOMAIN new = 1..max
      BY <3>1, LenProperties
    <3>3. ASSUME NEW i \in 1..max
          PROVE  new[i] = IF i < out THEN entries[i] ELSE entries[i + 1]
      <4>1. new[i] = IF i <= Len(left) THEN left[i] ELSE right[i - Len(left)]
        BY <2>5, <2>3, <2>4, <2>1, <1>2, <1>len DEF new
      <4>2. i <= Len(left) <=> i < out
        BY <2>3, <2>1
      <4>3. i < out => left[i] = entries[i]
        BY <2>3, <2>1
      <4>4. ~(i < out) => i - Len(left) \in 1..Len(entries) - out /\ out + (i - Len(left)) = i + 1
        BY <2>3, <2>1, <1>2
      <4>5. ~(i < out) => right[i - Len(left)] = entries[i + 1]
        BY <4>4, <2>4
      <4>6. QED BY <4>1, <4>2, <4>3, <4>5
    <3>4. QED BY <3>1, <3>2, <3>3
  <2>7. ASSUME NEW k \in 1..Len(entries),
               \A j \in 1..Len(entries) \ {k} : entries[j].seen < entries[k].seen
        PROVE  entries[k] \in ToSet(new)
    <3>1. k # out
      <4>1. SUFFICES ASSUME k = out PROVE FALSE
        OBVIOUS
      <4>2. PICK j \in 1..Len(entries) : j # k
        BY SMTT(30), <1>2
      <4>3. QED BY <4>1, <4>2, <2>1, <2>7, <1>len
    <3>2. CASE k < out
      <4>1. k \in 1..max /\ new[k] = entries[k]
        BY <3>2, <2>1, <2>6, <1>2
      <4>2. QED BY <4>1, <2>6 DEF ToSet
    <3>3. CASE k > out
      <4>1. k - 1 \in 1..max /\ ~(k - 1 < out) /\ k - 1 + 1 = k
        BY <3>3, <2>1, <1>2
      <4>2. new[k - 1] = entries[k]
        BY <4>1, <2>6
      <4>3. QED BY <4>1, <4>2, <2>6 DEF ToSet
    <3>4. QED BY <3>1, <3>2, <3>3, <2>1
  <2>8. Kept(entries, max) = new
    BY <2>2 DEF new
  <2>9. QED BY <2>6, <2>7, <2>8, <1>2
<1>3. Len(entries) =< max \/ Len(entries) = max + 1
  <2>1. \A n, m \in Nat : n =< m + 1 => n =< m \/ n = m + 1
    OBVIOUS
  <2>2. Len(entries) \in Nat /\ max \in Nat
    BY <1>len
  <2>3. QED BY <2>1, <2>2
<1>4. QED BY <1>1, <1>2, <1>3

\* What eviction leaves was there.
LEMMA KeptFrom ==
    ASSUME NEW S, \A e \in S : e.seen \in Nat, NEW entries \in Seq(S),
           NEW max \in Nat \ {0}, Len(entries) =< max + 1
    PROVE  ToSet(Kept(entries, max)) \subseteq ToSet(entries)
<1> DEFINE T == ToSet(entries)
<1>1. \A e \in T : e \in S /\ e.seen \in Nat
  <2>1. DOMAIN entries = 1..Len(entries)
    BY LenProperties
  <2>2. QED BY <2>1, ElementOfSeq DEF ToSet
<1>2. entries \in Seq(T)
  <2>1. Len(entries) \in Nat /\ entries \in [1..Len(entries) -> S] /\ DOMAIN entries = 1..Len(entries)
    BY LenProperties
  <2>2. entries \in [1..Len(entries) -> T]
    BY <2>1 DEF ToSet
  <2>3. QED BY <2>1, <2>2, SeqDef
<1> HIDE DEF T
<1>3. Kept(entries, max) \in Seq(T)
  BY <1>1, <1>2, KeptShape
<1>4. \A i \in DOMAIN Kept(entries, max) : Kept(entries, max)[i] \in T
  BY <1>3, LenProperties, ElementOfSeq
<1>5. QED BY <1>4 DEF T, ToSet

\* A message changes or appends the one entry of its sender, and no name or note of another.
OneSeen(people, who, after) ==
    /\ after \in Seq(Bounded)
    /\ Len(after) = IF At(people, who) = 0 THEN Len(people) + 1 ELSE Len(people)
    /\ \E k \in 1..Len(after) :
         /\ after[k].who = who /\ after[k].seen = calls + 1
         /\ \A j \in 1..Len(after) \ {k} : j \in 1..Len(people) /\ after[j] = people[j]
    /\ \A i \in 1..Len(people) : after[i].who = people[i].who
                                 /\ after[i].notes = people[i].notes

LEMMA SenderSeen ==
    ASSUME calls \in Nat, MaxCalls \in Nat, calls < MaxCalls,
           NEW people \in Seq(Bounded), NEW who \in People, NEW handle \in Handle \cup {Anonymous}
    PROVE  OneSeen(people, who, WithSender(people, who, handle))
<1> DEFINE after == WithSender(people, who, handle)
           i == At(people, who)
           fresh == [who |-> who, handle |-> handle, seen |-> calls + 1, notes |-> <<>>]
<1>now. calls + 1 \in 1..MaxCalls
  OBVIOUS
<1>len. Len(people) \in Nat /\ \A j \in 1..Len(people) : people[j] \in Bounded
  BY LenProperties, ElementOfSeq
<1>i. i \in 0..Len(people) /\ (i # 0 => people[i].who = who)
  BY Found
<1>1. CASE i = 0
  <2>1. after = Append(people, fresh)
    BY <1>1 DEF WithSender
  <2>2. fresh \in Bounded
    <3>1. <<>> \in Seq(Note) /\ Len(<<>>) = 0
      BY EmptySeq
    <3>2. MaxNotes \in Nat \ {0}
      BY RosterAssumption
    <3>3. fresh \in Person
      BY <3>1, <1>now DEF Person
    <3>4. QED BY <3>1, <3>2, <3>3 DEF Bounded
  <2>3. /\ after \in Seq(Bounded) /\ Len(after) = Len(people) + 1
        /\ \A j \in 1..Len(people) : after[j] = people[j]
        /\ after[Len(people) + 1] = fresh
    BY <2>1, <2>2, AppendProperties
  <2> HIDE DEF after
  <2>4. /\ Len(people) + 1 \in 1..Len(after)
        /\ \A j \in 1..Len(after) \ {Len(people) + 1} : j \in 1..Len(people)
    BY <2>3, <1>len
  <2>5. /\ after[Len(people) + 1].who = who /\ after[Len(people) + 1].seen = calls + 1
        /\ \A j \in 1..Len(after) \ {Len(people) + 1} :
             j \in 1..Len(people) /\ after[j] = people[j]
    BY <2>3, <2>4
  <2>6. \E k \in 1..Len(after) :
          /\ after[k].who = who /\ after[k].seen = calls + 1
          /\ \A j \in 1..Len(after) \ {k} : j \in 1..Len(people) /\ after[j] = people[j]
    BY <2>4, <2>5
  <2>7. QED BY <2>3, <2>6, <1>1 DEF after, OneSeen
<1>2. CASE i # 0
  <2> DEFINE e == people[i]
             known == [e EXCEPT !.seen = calls + 1,
                                !.handle = IF handle = Anonymous THEN @ ELSE handle]
  <2>1. i \in 1..Len(people) /\ e \in Bounded /\ e.who = who
    BY <1>2, <1>i, <1>len
  <2>2. after = [people EXCEPT ![i] = known]
    BY <1>2 DEF WithSender
  <2>3. /\ known \in Bounded /\ known.who = e.who /\ known.notes = e.notes
        /\ known.seen = calls + 1
    <3> HIDE DEF e
    <3>1. e \in Person /\ Len(e.notes) =< MaxNotes
      BY <2>1 DEF Bounded
    <3>2. known \in Person /\ known.who = e.who /\ known.notes = e.notes /\ known.seen = calls + 1
      BY <3>1, <1>now DEF Person
    <3>3. QED BY <3>1, <3>2 DEF Bounded
  <2> HIDE DEF known
  <2>4. /\ after \in Seq(Bounded) /\ Len(after) = Len(people)
        /\ \A j \in 1..Len(people) : after[j] = IF j = i THEN known ELSE people[j]
    BY <2>1, <2>2, <2>3, ExceptSeq
  <2> HIDE DEF after, i
  <2>5. \A j \in 1..Len(people) : after[j].who = people[j].who /\ after[j].notes = people[j].notes
    BY <2>4, <2>3
  <2>6. /\ i \in 1..Len(after) /\ after[i].who = who /\ after[i].seen = calls + 1
        /\ \A j \in 1..Len(after) \ {i} : j \in 1..Len(people) /\ after[j] = people[j]
    BY <2>4, <2>3, <2>1
  <2>7. \E k \in 1..Len(after) :
          /\ after[k].who = who /\ after[k].seen = calls + 1
          /\ \A j \in 1..Len(after) \ {k} : j \in 1..Len(people) /\ after[j] = people[j]
    BY <2>6
  <2>8. QED BY <2>4, <2>5, <2>7, <1>2 DEF after, i, OneSeen
<1>3. QED BY <1>1, <1>2

\* Another note stays within the bound.
LEMMA NotesBounded ==
    ASSUME NEW notes \in Seq(Note), NEW note \in Note, MaxNotes \in Nat \ {0}
    PROVE  /\ WithNote(notes, note) \in Seq(Note)
           /\ Len(WithNote(notes, note)) =< MaxNotes
<1> DEFINE all == IF note \in ToSet(notes) THEN notes ELSE Append(notes, note)
           first == Max({1, Len(all) - MaxNotes + 1})
<1>1. all \in Seq(Note)
  BY AppendProperties
<1>2. Len(all) \in Nat /\ \A j \in 1..Len(all) : all[j] \in Note
  BY <1>1, LenProperties, ElementOfSeq
<1> HIDE DEF all
<1>3. first \in Int /\ first >= 1 /\ first >= Len(all) - MaxNotes + 1
  <2>1. \A n \in Int : LET T == {1, n} IN \E x \in T : \A y \in T : x >= y
    OBVIOUS
  <2>2. Len(all) - MaxNotes + 1 \in Int
    BY <1>2
  <2>3. PICK x \in {1, Len(all) - MaxNotes + 1} : \A y \in {1, Len(all) - MaxNotes + 1} : x >= y
    BY <2>1, <2>2
  <2>4. /\ first \in {1, Len(all) - MaxNotes + 1}
        /\ \A y \in {1, Len(all) - MaxNotes + 1} : first >= y
    BY <2>3, Zenon DEF Max
  <2>5. QED BY <2>4, <2>2
<1>4. WithNote(notes, note) = SubSeq(all, first, Len(all))
  BY DEF WithNote, all
<1> HIDE DEF first
<1>5. \A j \in first..Len(all) : all[j] \in Note
  BY <1>2, <1>3
<1>6. /\ SubSeq(all, first, Len(all)) \in Seq(Note)
      /\ Len(SubSeq(all, first, Len(all)))
           = IF first =< Len(all) THEN Len(all) - first + 1 ELSE 0
  BY <1>2, <1>3, <1>5, SubSeqProperties
<1>7. (IF first =< Len(all) THEN Len(all) - first + 1 ELSE 0) =< MaxNotes
  BY <1>2, <1>3
<1>8. QED BY <1>4, <1>6, <1>7
-------------------------------------------------------------------------------
(* What the calls make of the map.                                         *)

\* The map a call starts from is one of the two.
LEMMA LoadedMap ==
    ASSUME RosterInv
    PROVE  /\ Loaded \in Rosters /\ SeenBy(Loaded, calls)
           /\ Loaded.people \in Seq(Bounded) /\ Len(Loaded.people) =< MaxPeople
           /\ Loaded.things \in Seq(Thing) /\ Len(Loaded.things) =< MaxEntities
           /\ Len(Loaded.people) \in Nat
           /\ trouble["load"] = 0 => Who(file) \subseteq Who(Loaded)
                                     \/ Len(Loaded.people) = MaxPeople
           /\ trouble["flush"] = 0 /\ trouble["load"] = 0 =>
                Notes(Loaded) = Notes(file) /\ Loaded.things = file.things
<1>1. Loaded \in Rosters /\ SeenBy(Loaded, calls)
  BY DEF Loaded, RosterInv, RosterTypes
<1>2. Loaded.people \in Seq(Bounded) /\ Len(Loaded.people) =< MaxPeople
      /\ Loaded.things \in Seq(Thing) /\ Len(Loaded.things) =< MaxEntities
  BY <1>1 DEF Rosters
<1>3. Len(Loaded.people) \in Nat
  BY <1>2, LenProperties
<1>4. QED BY <1>1, <1>2, <1>3 DEF Loaded, RosterInv, KeepsAll, NotesDurable

\* A call changes memory to map: what it must keep for the invariant to survive.
GoodChange(map, force) ==
    /\ map \in Rosters /\ SeenBy(map, calls + 1)
    /\ ~force => Notes(map) = Notes(Loaded) /\ map.things = Loaded.things
    /\ Who(Loaded) \subseteq Who(map) \/ Len(map.people) = MaxPeople
    /\ Len(Loaded.people) = MaxPeople => Len(map.people) = MaxPeople

\* A sender's message is such a change, and the sender is in the map after it.
LEMMA ObservedMap ==
    ASSUME RosterInv, calls < MaxCalls,
           NEW who \in People, NEW handle \in Handle \cup {Anonymous},
           NEW map, map = [Loaded EXCEPT !.people = Kept(WithSender(@, who, handle), MaxPeople)]
    PROVE  /\ GoodChange(map, At(Loaded.people, who) = 0)
           /\ who \in Who(map)
<1> DEFINE people == Loaded.people
           after == WithSender(people, who, handle)
           kept == Kept(after, MaxPeople)
<1>const. calls \in Nat /\ MaxCalls \in Nat /\ MaxPeople \in Nat \ {0}
  BY RosterAssumption DEF RosterInv, RosterTypes
<1>old. /\ Loaded \in Rosters /\ people \in Seq(Bounded) /\ Len(people) =< MaxPeople
        /\ Len(people) \in Nat /\ \A j \in 1..Len(people) : people[j].seen =< calls
        /\ Loaded.things \in Seq(Thing) /\ Len(Loaded.things) =< MaxEntities
  BY LoadedMap DEF SeenBy
<1>1. /\ after \in Seq(Bounded)
      /\ Len(after) = IF At(people, who) = 0 THEN Len(people) + 1 ELSE Len(people)
      /\ \E k \in 1..Len(after) :
           /\ after[k].who = who /\ after[k].seen = calls + 1
           /\ \A j \in 1..Len(after) \ {k} : j \in 1..Len(people) /\ after[j] = people[j]
      /\ \A j \in 1..Len(people) : after[j].who = people[j].who
                                   /\ after[j].notes = people[j].notes
  <2> HIDE DEF people
  <2>1. OneSeen(people, who, after)
    BY <1>const, <1>old, SenderSeen
  <2>2. QED BY <2>1, Zenon DEF OneSeen
<1> HIDE DEF people, after
<1>2. PICK k \in 1..Len(after) :
           /\ after[k].who = who /\ after[k].seen = calls + 1
           /\ \A j \in 1..Len(after) \ {k} : j \in 1..Len(people) /\ after[j] = people[j]
  BY <1>1
<1>3. \A e \in Bounded : e.seen \in Nat /\ e.seen \in Int
  BY <1>const DEF Bounded, Person
<1>4. Len(after) =< MaxPeople + 1 /\ Len(after) >= Len(people) /\ Len(after) \in Nat
  BY <1>1, <1>old, <1>const
<1>5. /\ kept \in Seq(Bounded) /\ Len(kept) =< MaxPeople
      /\ Len(after) =< MaxPeople => kept = after
      /\ Len(after) >= MaxPeople => Len(kept) = MaxPeople
      /\ \A n \in 1..Len(after) :
           (\A j \in 1..Len(after) \ {n} : after[j].seen < after[n].seen) =>
              after[n] \in ToSet(kept)
  BY <1>const, <1>1, <1>3, <1>4, KeptShape
<1>6. \A j \in 1..Len(after) \ {k} : after[j].seen < after[k].seen
  <2>1. ASSUME NEW j \in 1..Len(after) \ {k} PROVE after[j].seen < after[k].seen
    <3>1. after[j].seen =< calls /\ after[j].seen \in Int
      <4>1. j \in 1..Len(people) /\ after[j] = people[j]
        BY <1>2
      <4>2. people[j] \in Bounded
        BY <4>1, <1>old, ElementOfSeq
      <4>3. QED BY <4>1, <4>2, <1>old, <1>3
    <3>2. QED BY <3>1, <1>2, <1>const
  <2>2. QED BY <2>1
<1> HIDE DEF kept
<1>7. after[k] \in ToSet(kept)
  BY <1>5, <1>6
<1>8. map.people = kept /\ map.things = Loaded.things /\ map \in Rosters
  BY <1>old, <1>5 DEF Rosters, kept, after, people
<1>9. who \in Who(map)
  BY <1>7, <1>8, <1>2 DEF Who
<1>10. SeenBy(map, calls + 1)
  <2>1. \A e \in ToSet(kept) : e.seen =< calls + 1
    <3>1. ASSUME NEW j \in 1..Len(after) PROVE after[j].seen =< calls + 1
      <4>1. after[j] \in Bounded /\ after[k] \in Bounded
        BY <1>1, ElementOfSeq
      <4>2. CASE j = k
        BY <4>2, <1>2, <1>const
      <4>3. CASE j # k
        <5>1. after[j].seen < after[k].seen
          BY <4>3, <1>6
        <5>2. QED BY <5>1, <4>1, <1>3, <1>2, <1>const
      <4>4. QED BY <4>2, <4>3
    <3>2. ToSet(kept) \subseteq ToSet(after)
      BY <1>const, <1>1, <1>3, <1>4, KeptFrom DEF kept
    <3>3. DOMAIN after = 1..Len(after)
      BY <1>1, LenProperties
    <3>4. QED BY <3>1, <3>2, <3>3 DEF ToSet
  <2>2. DOMAIN kept = 1..Len(kept)
    BY <1>5, LenProperties
  <2>3. QED BY <2>1, <2>2, <1>8 DEF SeenBy, ToSet
<1>dom. DOMAIN people = 1..Len(people) /\ DOMAIN after = 1..Len(after)
  BY <1>old, <1>1, LenProperties
<1>11. ASSUME At(people, who) # 0
       PROVE  Notes(map) = Notes(Loaded)
  <2>1. Len(after) = Len(people) /\ kept = after
    BY <1>11, <1>1, <1>5, <1>old
  <2>2. Notes(map) = {<<after[j].who, after[j].notes>> : j \in 1..Len(after)}
    BY <2>1, <1>8, <1>dom DEF Notes, ToSet
  <2>3. Notes(Loaded) = {<<people[j].who, people[j].notes>> : j \in 1..Len(people)}
    BY <1>dom DEF Notes, ToSet, people
  <2>4. \A j \in 1..Len(people) :
           <<after[j].who, after[j].notes>> = <<people[j].who, people[j].notes>>
    BY <1>1
  <2>5. \A x : x \in Notes(map) <=> x \in Notes(Loaded)
    BY <2>1, <2>2, <2>3, <2>4
  <2>6. QED BY <2>5
<1>12. ASSUME Len(after) =< MaxPeople
       PROVE  Who(Loaded) \subseteq Who(map)
  <2>1. kept = after
    BY <1>12, <1>5
  <2>2. Who(map) = {after[j].who : j \in 1..Len(after)}
    BY <2>1, <1>8, <1>dom DEF Who, ToSet
  <2>3. Who(Loaded) = {people[j].who : j \in 1..Len(people)}
    BY <1>dom DEF Who, ToSet, people
  <2>4. 1..Len(people) \subseteq 1..Len(after)
    BY <1>4, <1>old
  <2>5. QED BY <2>2, <2>3, <2>4, <1>1
<1>13. Who(Loaded) \subseteq Who(map) \/ Len(map.people) = MaxPeople
  <2>1. Len(after) =< MaxPeople \/ Len(after) >= MaxPeople
    BY <1>4, <1>const
  <2>2. QED BY <2>1, <1>12, <1>5, <1>8
<1>14. Len(people) = MaxPeople => Len(map.people) = MaxPeople
  <2>1. Len(people) = MaxPeople => Len(after) >= MaxPeople
    BY <1>4, <1>const
  <2>2. QED BY <2>1, <1>5, <1>8
<1>15. QED BY <1>8, <1>9, <1>10, <1>11, <1>13, <1>14 DEF GoodChange, people

\* So is a note: it changes the notes of one entry.
LEMMA NotedMap ==
    ASSUME RosterInv, NEW handle, NEW note \in Note, Called(Loaded.people, handle) # 0,
           NEW map, map = [Loaded EXCEPT !.people[Called(Loaded.people, handle)].notes
                                           = WithNote(@, note)]
    PROVE  GoodChange(map, TRUE)
<1> DEFINE people == Loaded.people
           i == Called(people, handle)
           e == people[i]
           known == [e EXCEPT !.notes = WithNote(@, note)]
           after == [people EXCEPT ![i] = known]
<1>const. calls \in Nat /\ MaxNotes \in Nat \ {0} /\ MaxPeople \in Nat \ {0}
  BY RosterAssumption DEF RosterInv, RosterTypes
<1>old. /\ Loaded \in Rosters /\ people \in Seq(Bounded) /\ Len(people) =< MaxPeople
        /\ Len(people) \in Nat /\ \A j \in 1..Len(people) : people[j].seen =< calls
        /\ Loaded.things \in Seq(Thing) /\ Len(Loaded.things) =< MaxEntities
  BY LoadedMap DEF SeenBy
<1>1. i \in 1..Len(people)
  BY <1>old, CalledOne
<1>2. map.people = after /\ map.things = Loaded.things
      /\ map = [Loaded EXCEPT !.people = after]
  BY <1>old DEF Rosters
<1>3. e \in Bounded
  BY <1>1, <1>old, ElementOfSeq
<1> HIDE DEF people, i, e
<1>4. known \in Bounded /\ known.who = e.who /\ known.seen = e.seen
  <2>1. e \in Person /\ e.notes \in Seq(Note)
    BY <1>3 DEF Bounded, Person
  <2>2. WithNote(e.notes, note) \in Seq(Note) /\ Len(WithNote(e.notes, note)) =< MaxNotes
    BY <2>1, <1>const, NotesBounded
  <2>3. known \in Person /\ known.who = e.who /\ known.seen = e.seen
        /\ known.notes = WithNote(e.notes, note)
    BY <2>1, <2>2 DEF Person
  <2>4. QED BY <2>2, <2>3 DEF Bounded
<1> HIDE DEF known
<1>5. /\ after \in Seq(Bounded) /\ Len(after) = Len(people)
      /\ \A j \in 1..Len(people) : after[j] = IF j = i THEN known ELSE people[j]
  BY <1>old, <1>1, <1>4, ExceptSeq
<1> HIDE DEF after
<1>6. \A j \in 1..Len(people) : after[j].who = people[j].who /\ after[j].seen = people[j].seen
  BY <1>5, <1>4 DEF e
<1>7. map \in Rosters
  BY <1>2, <1>5, <1>old DEF Rosters
<1>8. SeenBy(map, calls + 1)
  <2>1. \A j \in 1..Len(people) : people[j].seen \in Int
    <3>1. \A j \in 1..Len(people) : people[j] \in Bounded
      BY <1>old, ElementOfSeq
    <3>2. MaxCalls \in Nat
      BY RosterAssumption
    <3>3. QED BY <3>1, <3>2 DEF Bounded, Person
  <2>2. \A j \in 1..Len(people) : after[j].seen =< calls + 1
    <3>1. ASSUME NEW j \in 1..Len(people) PROVE after[j].seen =< calls + 1
      <4>1. after[j].seen = people[j].seen
        BY <1>6
      <4>2. people[j].seen =< calls /\ people[j].seen \in Int
        BY <2>1, <1>old
      <4>3. QED BY <4>1, <4>2, <1>const
    <3>2. QED BY <3>1
  <2>3. QED BY <2>2, <1>2, <1>5 DEF SeenBy
<1>9. Who(Loaded) \subseteq Who(map)
  <2>1. DOMAIN people = 1..Len(people) /\ DOMAIN after = 1..Len(after)
    BY <1>old, <1>5, LenProperties
  <2>2. Who(map) = {after[j].who : j \in 1..Len(after)}
    BY <2>1, <1>2 DEF Who, ToSet
  <2>3. Who(Loaded) = {people[j].who : j \in 1..Len(people)}
    BY <2>1 DEF Who, ToSet, people
  <2>4. QED BY <2>2, <2>3, <1>5, <1>6
<1>10. QED BY <1>2, <1>5, <1>7, <1>8, <1>9 DEF GoodChange, people

\* And an entity, which touches no participant.
LEMMA EntityMap ==
    ASSUME RosterInv, calls < MaxCalls, NEW name \in Entity, NEW note \in Note,
           NEW map, map = [Loaded EXCEPT !.things = Kept(WithEntity(@, name, note), MaxEntities)]
    PROVE  GoodChange(map, TRUE)
<1> DEFINE things == Loaded.things
           i == At(things, name)
           entry == [who |-> name, note |-> note, seen |-> calls + 1]
           after == WithEntity(things, name, note)
           kept == Kept(after, MaxEntities)
<1>const. calls \in Nat /\ MaxCalls \in Nat /\ MaxEntities \in Nat \ {0}
  BY RosterAssumption DEF RosterInv, RosterTypes
<1>old. /\ Loaded \in Rosters /\ SeenBy(Loaded, calls) /\ Loaded.people \in Seq(Bounded)
        /\ Len(Loaded.people) =< MaxPeople
        /\ things \in Seq(Thing) /\ Len(things) =< MaxEntities
  BY LoadedMap
<1>1. entry \in Thing
  BY <1>const DEF Thing
<1>2. /\ after \in Seq(Thing) /\ Len(after) =< MaxEntities + 1
  <2>0. Len(things) \in Nat
    BY <1>old, LenProperties
  <2>1. i \in 0..Len(things)
    BY <1>old, Found
  <2>2. CASE i = 0
    <3>1. after = Append(things, entry)
      BY <2>2 DEF WithEntity
    <3>2. QED BY <3>1, <1>1, <1>old, <1>const, <2>0, AppendProperties
  <2>3. CASE i # 0
    <3>1. after = [things EXCEPT ![i] = entry] /\ i \in 1..Len(things)
      BY <2>3, <2>1 DEF WithEntity
    <3>2. QED BY <3>1, <1>1, <1>old, <1>const, <2>0, ExceptSeq
  <2>4. QED BY <2>2, <2>3
<1> HIDE DEF things, after
<1>3. \A x \in Thing : x.seen \in Nat
  BY <1>const DEF Thing
<1>4. kept \in Seq(Thing) /\ Len(kept) =< MaxEntities
  BY <1>const, <1>2, <1>3, KeptShape
<1> HIDE DEF kept
<1>5. map.people = Loaded.people /\ map \in Rosters
  BY <1>old, <1>4 DEF Rosters, kept, after, things
<1>6. SeenBy(map, calls + 1)
  <2>1. \A j \in 1..Len(Loaded.people) : Loaded.people[j].seen \in Int
    <3>1. \A j \in 1..Len(Loaded.people) : Loaded.people[j] \in Bounded
      BY <1>old, ElementOfSeq
    <3>2. QED BY <3>1, <1>const DEF Bounded, Person
  <2>2. QED BY <2>1, <1>5, <1>old, <1>const DEF SeenBy
<1>7. QED BY <1>5, <1>6 DEF GoodChange, Who
-------------------------------------------------------------------------------
(* The invariant.                                                          *)

\* What a call that changes memory leaves of memory and file.
LEMMA ChangeWrites ==
    ASSUME NEW map, NEW force, Change(map, force)
    PROVE  /\ cache' = map /\ loaded' = TRUE /\ calls < MaxCalls /\ calls' = calls + 1
           /\ \/ file' = map /\ dirty' = FALSE /\ flushed' = TRUE /\ trouble' = trouble
              \/ /\ file' = file /\ dirty' = TRUE /\ flushed' = flushed
                 /\ ~force /\ trouble' = trouble
              \/ /\ file' = file /\ dirty' = TRUE /\ flushed' = flushed
                 /\ trouble["flush"] < MaxTrouble
                 /\ trouble' = [trouble EXCEPT !["flush"] = @ + 1]
BY DEF Change, Flushed, Trouble

LEMMA ChangeKeeps ==
    ASSUME RosterInv, NEW map, NEW force \in BOOLEAN, Change(map, force), GoodChange(map, force)
    PROVE  RosterInv'
<1> USE DEF RosterInv, RosterTypes
<1>1. /\ cache' = map /\ loaded' = TRUE /\ calls < MaxCalls /\ calls' = calls + 1
      /\ \/ file' = map /\ dirty' = FALSE /\ flushed' = TRUE /\ trouble' = trouble
         \/ /\ file' = file /\ dirty' = TRUE /\ flushed' = flushed
            /\ ~force /\ trouble' = trouble
         \/ /\ file' = file /\ dirty' = TRUE /\ flushed' = flushed
            /\ trouble["flush"] < MaxTrouble
            /\ trouble' = [trouble EXCEPT !["flush"] = @ + 1]
  BY ChangeWrites, Zenon
<1>const. calls \in Nat /\ MaxCalls \in Nat /\ MaxTrouble \in Nat
  BY RosterAssumption
<1>num. \A n \in 0..MaxTrouble : n < MaxTrouble => n + 1 \in 0..MaxTrouble /\ n + 1 # 0
  BY <1>const
<1>2. trouble' \in [{"flush", "load", "crash"} -> 0..MaxTrouble]
  BY <1>1, <1>num
<1>3. calls' \in 0..MaxCalls
  BY <1>1, <1>const
<1>4. SeenBy(cache', calls') /\ SeenBy(file', calls')
  <2>1. SeenBy(map, calls')
    BY <1>1 DEF GoodChange
  <2>2. SeenBy(file, calls')
    <3>1. \A j \in 1..Len(file.people) : file.people[j].seen \in Int
      <4>1. file.people \in Seq(Bounded)
        BY DEF Rosters
      <4>2. \A j \in 1..Len(file.people) : file.people[j] \in Bounded
        BY <4>1, ElementOfSeq
      <4>3. QED BY <4>2, <1>const DEF Bounded, Person
    <3>2. QED BY <3>1, <1>1, <1>const DEF SeenBy
  <2>3. QED BY <2>1, <2>2, <1>1
<1>5. cache' \in Rosters /\ file' \in Rosters
  BY <1>1 DEF GoodChange
<1>6. RosterTypes'
  BY <1>1, <1>2, <1>3, <1>4, <1>5 DEF SeenBy
<1>7. trouble'["load"] = trouble["load"]
  BY <1>1
<1>8. LagIsDirty'
  BY <1>1 DEF LagIsDirty
<1>9. KeepsAll'
  <2>1. trouble["load"] = 0 => Who(file) \subseteq Who(Loaded)
                               \/ Len(Loaded.people) = MaxPeople
    BY LoadedMap
  <2>2. \/ Who(Loaded) \subseteq Who(map)
        \/ Len(map.people) = MaxPeople
    BY DEF GoodChange
  <2>3. Len(Loaded.people) = MaxPeople => Len(map.people) = MaxPeople
    BY DEF GoodChange
  <2>4. trouble'["load"] = 0 => Who(file) \subseteq Who(map) \/ Len(map.people) = MaxPeople
    BY <2>1, <2>2, <2>3, <1>7
  <2>5. Who(file)' = Who(file') /\ Who(cache)' = Who(map)
    BY <1>1 DEF Who
  <2>6. Who(file') = Who(map) \/ Who(file') = Who(file)
    BY <1>1 DEF Who
  <2>7. QED BY <2>4, <2>5, <2>6, <1>1 DEF KeepsAll
<1>10. NotesDurable'
  <2>1. CASE file' = map
    BY <2>1, <1>1 DEF NotesDurable, Notes
  <2>2. CASE file' = file /\ ~force /\ trouble' = trouble
    <3>1. trouble["flush"] = 0 /\ trouble["load"] = 0 =>
            Notes(Loaded) = Notes(file) /\ Loaded.things = file.things
      BY LoadedMap
    <3>2. Notes(map) = Notes(Loaded) /\ map.things = Loaded.things
      BY <2>2 DEF GoodChange
    <3>3. Notes(cache)' = Notes(map) /\ Notes(file)' = Notes(file)
      BY <1>1, <2>2 DEF Notes
    <3>4. QED BY <3>1, <3>2, <3>3, <2>2, <1>1 DEF NotesDurable
  <2>3. CASE trouble["flush"] < MaxTrouble /\ trouble' = [trouble EXCEPT !["flush"] = @ + 1]
    <3>1. trouble'["flush"] # 0
      BY <2>3, <1>num
    <3>2. QED BY <3>1 DEF NotesDurable
  <2>4. QED BY <2>1, <2>2, <2>3, <1>1
<1>11. QED BY <1>6, <1>8, <1>9, <1>10

\* The three calls, as changes.
LEMMA ObserveChanges ==
    ASSUME RosterInv, NEW who \in People, NEW handle \in Handle \cup {Anonymous},
           Observe(who, handle)
    PROVE  \E map : /\ Change(map, At(Loaded.people, who) = 0)
                    /\ GoodChange(map, At(Loaded.people, who) = 0)
                    /\ who \in Who(map)
<1> DEFINE map == [Loaded EXCEPT !.people = Kept(WithSender(@, who, handle), MaxPeople)]
<1>1. Change(map, At(Loaded.people, who) = 0)
  BY DEF Observe
<1>2. calls < MaxCalls
  BY <1>1 DEF Change
<1>3. GoodChange(map, At(Loaded.people, who) = 0) /\ who \in Who(map)
  BY <1>2, ObservedMap
<1> HIDE DEF map
<1>4. QED BY <1>1, <1>3

LEMMA RememberChanges ==
    ASSUME RosterInv, NEW name \in Entity, NEW note \in Note, RememberEntity(name, note)
    PROVE  \E map : Change(map, TRUE) /\ GoodChange(map, TRUE)
<1> DEFINE map == [Loaded EXCEPT !.things = Kept(WithEntity(@, name, note), MaxEntities)]
<1>1. Change(map, TRUE)
  BY DEF RememberEntity
<1>2. calls < MaxCalls
  BY <1>1 DEF Change
<1>3. GoodChange(map, TRUE)
  BY <1>2, EntityMap
<1> HIDE DEF map
<1>4. QED BY <1>1, <1>3

LEMMA NoteChanges ==
    ASSUME RosterInv, NEW handle, NEW note \in Note, SetNote(handle, note),
           Called(Loaded.people, handle) # 0
    PROVE  \E map : Change(map, TRUE) /\ GoodChange(map, TRUE)
<1> DEFINE map == [Loaded EXCEPT !.people[Called(Loaded.people, handle)].notes
                                   = WithNote(@, note)]
<1>1. Change(map, TRUE)
  BY DEF SetNote
<1>2. GoodChange(map, TRUE)
  BY NotedMap
<1> HIDE DEF map
<1>3. QED BY <1>1, <1>2

\* Without a change: what memory holds is what it held, or what the file holds.
LEMMA RestKeeps ==
    ASSUME RosterInv, file' = file, dirty' = dirty,
           \/ cache' = cache /\ loaded' = loaded
           \/ cache' = Loaded /\ loaded' = TRUE
           \/ cache' = Empty /\ loaded' = FALSE
           \/ cache' = Empty /\ loaded' = TRUE /\ trouble'["load"] # 0,
           trouble["load"] # 0 => trouble'["load"] # 0,
           trouble["flush"] # 0 => trouble'["flush"] # 0
    PROVE  KeepsAll' /\ LagIsDirty' /\ NotesDurable'
<1> USE DEF RosterInv, KeepsAll, LagIsDirty, NotesDurable
<1>1. CASE cache' = cache /\ loaded' = loaded
  BY <1>1 DEF Who, Notes
<1>2. CASE cache' = Loaded /\ loaded' = TRUE
  <2>1. CASE loaded
    BY <2>1, <1>2 DEF Who, Notes, Loaded
  <2>2. CASE ~loaded
    <3>1. cache' = file'
      BY <2>2, <1>2 DEF Loaded
    <3>2. QED BY <3>1 DEF Who, Notes
  <2>3. QED BY <2>1, <2>2
<1>3. CASE loaded' = FALSE
  BY <1>3
<1>4. CASE trouble'["load"] # 0
  BY <1>4
<1>5. QED BY <1>1, <1>2, <1>3, <1>4

LEMMA EmptyMap == Empty \in Rosters /\ \A n : SeenBy(Empty, n)
<1>1. /\ <<>> \in Seq(Bounded) /\ <<>> \in Seq(Thing) /\ Len(<<>>) = 0
  BY EmptySeq
<1>2. MaxPeople \in Nat \ {0} /\ MaxEntities \in Nat \ {0}
  BY RosterAssumption
<1>3. QED BY <1>1, <1>2 DEF Empty, Rosters, SeenBy

LEMMA RosterInvInit == RosterInit => RosterInv
<1> SUFFICES ASSUME RosterInit PROVE RosterInv
  OBVIOUS
<1> USE DEF RosterInit
<1>1. RosterTypes
  <2>1. 0 \in 0..MaxCalls /\ 0 \in 0..MaxTrouble
    BY RosterAssumption
  <2>2. cache \in Rosters /\ file \in Rosters /\ SeenBy(cache, calls) /\ SeenBy(file, calls)
    BY EmptyMap
  <2>3. QED BY <2>1, <2>2 DEF RosterTypes
<1>2. KeepsAll /\ LagIsDirty /\ NotesDurable
  BY DEF KeepsAll, LagIsDirty, NotesDurable
<1>3. QED BY <1>1, <1>2 DEF RosterInv

LEMMA RosterInvStep == RosterInv /\ [RosterNext]_rosterVars => RosterInv'
<1> SUFFICES ASSUME RosterInv, [RosterNext]_rosterVars PROVE RosterInv'
  OBVIOUS
<1>types. RosterTypes
  BY DEF RosterInv
<1>num. MaxTrouble \in Nat /\ MaxCalls \in Nat
        /\ \A n \in 0..MaxTrouble : n < MaxTrouble => n + 1 \in 0..MaxTrouble /\ n + 1 # 0
  BY RosterAssumption
<1>1. ASSUME NEW who \in People, NEW handle \in Handle \cup {Anonymous}, Observe(who, handle)
      PROVE  RosterInv'
  <2>1. PICK map : /\ Change(map, At(Loaded.people, who) = 0)
                   /\ GoodChange(map, At(Loaded.people, who) = 0)
    BY <1>1, ObserveChanges
  <2>2. (At(Loaded.people, who) = 0) \in BOOLEAN
    OBVIOUS
  <2>3. QED BY <2>1, <2>2, ChangeKeeps
<1>2. ASSUME NEW handle \in Handle, NEW note \in Note, SetNote(handle, note)
      PROVE  RosterInv'
  <2>1. CASE Called(Loaded.people, handle) # 0
    BY <2>1, <1>2, NoteChanges, ChangeKeeps
  <2>2. CASE Called(Loaded.people, handle) = 0
    <3>1. /\ calls < MaxCalls /\ calls' = calls + 1 /\ cache' = Loaded /\ loaded' = TRUE
          /\ UNCHANGED <<file, dirty, flushed, trouble>>
      BY <1>2, <2>2, Zenon DEF SetNote
    <3>2. KeepsAll' /\ LagIsDirty' /\ NotesDurable'
      BY <3>1, RestKeeps
    <3>3. Loaded \in Rosters /\ SeenBy(Loaded, calls) /\ SeenBy(file, calls) /\ file \in Rosters
      BY <1>types, LoadedMap DEF RosterTypes
    <3>4. \A m \in Rosters : SeenBy(m, calls) => SeenBy(m, calls')
      <4>1. ASSUME NEW m \in Rosters, SeenBy(m, calls) PROVE SeenBy(m, calls')
        <5>1. \A j \in 1..Len(m.people) : m.people[j].seen \in Int
          <6>1. m.people \in Seq(Bounded)
            BY DEF Rosters
          <6>2. \A j \in 1..Len(m.people) : m.people[j] \in Bounded
            BY <6>1, ElementOfSeq
          <6>3. QED BY <6>2, <1>num DEF Bounded, Person
        <5>2. calls \in Int
          BY <1>types DEF RosterTypes
        <5>3. QED BY <4>1, <5>1, <5>2, <3>1 DEF SeenBy
      <4>2. QED BY <4>1
    <3>5. SeenBy(cache, calls)' /\ SeenBy(file, calls)'
      <4>1. SeenBy(Loaded, calls') /\ SeenBy(file, calls')
        BY <3>3, <3>4
      <4>2. QED BY <4>1, <3>1 DEF SeenBy
    <3>6. RosterTypes'
      BY <3>1, <3>3, <3>5, <1>types, <1>num DEF RosterTypes
    <3>7. QED BY <3>2, <3>6 DEF RosterInv
  <2>3. QED BY <2>1, <2>2
<1>3. ASSUME NEW name \in Entity, NEW note \in Note, RememberEntity(name, note)
      PROVE  RosterInv'
  BY <1>3, RememberChanges, ChangeKeeps
<1>4. CASE LoadFails
  <2>1. /\ cache' = Empty /\ loaded' = TRUE /\ UNCHANGED <<file, dirty, flushed, calls>>
        /\ trouble["load"] < MaxTrouble /\ trouble' = [trouble EXCEPT !["load"] = @ + 1]
    BY <1>4 DEF LoadFails, Trouble
  <2>2. trouble' \in [{"flush", "load", "crash"} -> 0..MaxTrouble] /\ trouble'["load"] # 0
        /\ trouble'["flush"] = trouble["flush"]
    BY <2>1, <1>types, <1>num DEF RosterTypes
  <2>3. RosterTypes'
    BY <2>1, <2>2, <1>types, EmptyMap DEF RosterTypes, SeenBy
  <2>4. QED BY <2>1, <2>2, <2>3, RestKeeps DEF RosterInv
<1>5. CASE TimePassed
  <2>1. flushed' = FALSE /\ UNCHANGED <<cache, file, loaded, dirty, calls, trouble>>
    BY <1>5 DEF TimePassed
  <2>2. RosterTypes'
    BY <2>1, <1>types DEF RosterTypes, SeenBy
  <2>3. QED BY <2>1, <2>2, RestKeeps DEF RosterInv
<1>6. CASE ProcessDies
  <2>1. /\ cache' = Empty /\ loaded' = FALSE /\ dirty' = FALSE /\ flushed' = FALSE
        /\ UNCHANGED <<file, calls>>
        /\ trouble["crash"] < MaxTrouble /\ trouble' = [trouble EXCEPT !["crash"] = @ + 1]
    BY <1>6 DEF ProcessDies, Trouble
  <2>2. trouble' \in [{"flush", "load", "crash"} -> 0..MaxTrouble]
    BY <2>1, <1>types, <1>num DEF RosterTypes
  <2>3. RosterTypes'
    BY <2>1, <2>2, <1>types, EmptyMap DEF RosterTypes, SeenBy
  <2>4. KeepsAll' /\ LagIsDirty' /\ NotesDurable'
    BY <2>1 DEF KeepsAll, LagIsDirty, NotesDurable
  <2>5. QED BY <2>3, <2>4 DEF RosterInv
<1>7. CASE UNCHANGED rosterVars
  BY <1>7 DEF RosterInv, RosterTypes, KeepsAll, LagIsDirty, NotesDurable, SeenBy, Who, Notes,
              rosterVars
<1>8. QED BY <1>1, <1>2, <1>3, <1>4, <1>5, <1>6, <1>7, Zenon DEF RosterNext

LEMMA RosterInvariant == RosterSpec => []RosterInv
BY RosterInvInit, RosterInvStep, PTL DEF RosterSpec
-------------------------------------------------------------------------------
(* The theorems.                                                           *)

\* The roster's variables keep their types: a chat's participants, entities and notes
\* stay within their bounds in memory and in the file.
THEOREM RosterTyped == RosterSpec => []RosterTypeOK
<1>1. RosterInv => RosterTypeOK
  <2> SUFFICES ASSUME RosterInv PROVE RosterTypeOK
    OBVIOUS
  <2>1. ASSUME NEW m \in {cache, file}
        PROVE  /\ m \in Map /\ Len(m.people) =< MaxPeople /\ Len(m.things) =< MaxEntities
               /\ \A p \in ToSet(m.people) : Len(p.notes) =< MaxNotes
    <3>1. m \in Rosters
      BY <2>1 DEF RosterInv, RosterTypes
    <3>2. /\ m.people \in Seq(Bounded) /\ m.things \in Seq(Thing)
          /\ Len(m.people) =< MaxPeople /\ Len(m.things) =< MaxEntities
          /\ m = [people |-> m.people, things |-> m.things]
      BY <3>1 DEF Rosters
    <3>3. m.people \in Seq(Person)
      <4>1. Bounded \subseteq Person
        BY DEF Bounded
      <4>2. QED BY <3>2, <4>1, SeqMonotonic
    <3>4. \A p \in ToSet(m.people) : Len(p.notes) =< MaxNotes
      <4>1. DOMAIN m.people = 1..Len(m.people)
        BY <3>2, LenProperties
      <4>2. \A j \in 1..Len(m.people) : m.people[j] \in Bounded
        BY <3>2, ElementOfSeq
      <4>3. QED BY <4>1, <4>2 DEF ToSet, Bounded
    <3>5. m \in Map
      BY <3>2, <3>3 DEF Map
    <3>6. QED BY <3>2, <3>4, <3>5
  <2>2. QED BY <2>1 DEF RosterTypeOK, RosterInv, RosterTypes
<1>2. QED BY <1>1, RosterInvariant, PTL

\* Whatever flushes fail and whenever the process restarts, memory that differs from the
\* file is dirty, so that the next flush makes up for it, unless the file was unreadable.
THEOREM FailedFlushRetried == RosterSpec => []LagIsDirty
<1>1. RosterInv => LagIsDirty
  BY DEF RosterInv
<1>2. QED BY <1>1, RosterInvariant, PTL

\* The throttle delays no note, no entity and no newcomer: without a failed flush or an
\* unreadable file they are in the file when the call returns.
THEOREM NotesSurvive == RosterSpec => []NotesDurable
<1>1. RosterInv => NotesDurable
  BY DEF RosterInv
<1>2. QED BY <1>1, RosterInvariant, PTL

\* A participant leaves the file only to make room for another, across restarts and
\* failed flushes.
THEOREM FileForgetsNobody == RosterSpec => NobodyForgotten
<1> DEFINE Safe == trouble["load"] = 0 /\ Len(file'.people) < MaxPeople =>
                     {p.who : p \in ToSet(file.people)} \subseteq
                       {p.who : p \in ToSet(file'.people)}
<1>1. RosterInv /\ [RosterNext]_rosterVars => [Safe]_rosterVars
  <2> SUFFICES ASSUME RosterInv, [RosterNext]_rosterVars PROVE Safe
    OBVIOUS
  <2>1. ASSUME NEW map, NEW force, Change(map, force), GoodChange(map, force) PROVE Safe
    <3>1. CASE file' = file
      BY <3>1
    <3>2. CASE file' = map
      <4> SUFFICES ASSUME trouble["load"] = 0, Len(map.people) < MaxPeople
                   PROVE  Who(file) \subseteq Who(map)
        BY <3>2 DEF Who
      <4>1. Len(map.people) # MaxPeople
        <5>1. MaxPeople \in Int
          BY RosterAssumption
        <5>2. QED BY <5>1
      <4>2. Who(Loaded) \subseteq Who(map) /\ Len(Loaded.people) # MaxPeople
        BY <4>1, <2>1 DEF GoodChange
      <4>3. Who(file) \subseteq Who(Loaded)
        BY <4>2, LoadedMap
      <4>4. QED BY <4>2, <4>3
    <3>3. QED BY <3>1, <3>2, <2>1, ChangeWrites
  <2>2. CASE file' = file
    BY <2>2
  <2>3. ASSUME NEW who \in People, NEW handle \in Handle \cup {Anonymous}, Observe(who, handle)
        PROVE  Safe
    BY <2>1, <2>3, ObserveChanges
  <2>4. ASSUME NEW handle \in Handle, NEW note \in Note, SetNote(handle, note) PROVE Safe
    <3>1. CASE Called(Loaded.people, handle) = 0
      BY <3>1, <2>4, <2>2 DEF SetNote
    <3>2. CASE Called(Loaded.people, handle) # 0
      BY <3>2, <2>1, <2>4, NoteChanges
    <3>3. QED BY <3>1, <3>2
  <2>5. ASSUME NEW name \in Entity, NEW note \in Note, RememberEntity(name, note) PROVE Safe
    BY <2>1, <2>5, RememberChanges
  <2>6. (LoadFails \/ TimePassed \/ ProcessDies \/ UNCHANGED rosterVars) => file' = file
    BY DEF LoadFails, TimePassed, ProcessDies, rosterVars
  <2> HIDE DEF Safe
  <2>7. QED BY <2>2, <2>3, <2>4, <2>5, <2>6, Zenon DEF RosterNext
<1>2. QED BY <1>1, RosterInvariant, PTL DEF RosterSpec, NobodyForgotten

\* However full the roster, the sender of the message at hand is in it afterwards.
THEOREM NewcomerStays == RosterSpec => NewcomerKept
<1> DEFINE Stays == \A who \in People :
                      (\E handle \in Handle \cup {Anonymous} : Observe(who, handle)) =>
                         who \in {p.who : p \in ToSet(cache'.people)}
<1>1. RosterInv => Stays
  <2> SUFFICES ASSUME RosterInv, NEW who \in People, NEW handle \in Handle \cup {Anonymous},
                      Observe(who, handle)
               PROVE  who \in {p.who : p \in ToSet(cache'.people)}
    OBVIOUS
  <2>1. PICK map : Change(map, At(Loaded.people, who) = 0) /\ who \in Who(map)
    BY ObserveChanges
  <2>2. cache' = map
    BY <2>1, ChangeWrites
  <2>3. QED BY <2>1, <2>2 DEF Who
<1>2. QED BY <1>1, RosterInvariant, PTL DEF RosterSpec, NewcomerKept
===============================================================================
