---------------------------- MODULE GroupInboxProofs ----------------------------
(***************************************************************************)
(* Proofs about GroupInbox: type correctness, and the safety invariants of *)
(* the spool, for any number of processes, chats and updates and any       *)
(* bounds of the file.                                                     *)
(***************************************************************************)
EXTENDS GroupInbox, NumberLemmas, SequenceTheorems

\* The last line ends a row; only the last one may not.
Sealed(lines) == lines = <<>> \/ Ended(Last(lines))
OpenAtEnd(lines) == \A i \in 1..Len(lines) - 1 : Ended(lines[i])

\* What the rows say: a message and its number.
Marks(lines) == {<<row.msg, row.seq>> : row \in Rows(lines)}

Ordered(lines) == \A i, j \in DOMAIN lines :
    i < j /\ Readable(lines[i]) /\ Readable(lines[j]) =>
      lines[i].seq < lines[j].seq /\ lines[i].msg # lines[j].msg

\* Whoever writes finds the file repaired and the message not in it; whoever has
\* written finds the row there.
AppendsInStep == \A p \in Process :
    /\ pc[p] = "write" => Sealed(spool) /\ Head(todo[p]) \notin Stored(spool)
    /\ pc[p] \in {"sync", "syncdir"} => Head(todo[p]) \in Stored(spool)
    /\ pc[p] = "syncdir" => synced = Len(spool)

FileInv == NothingGarbled /\ OpenAtEnd(spool) /\ AppendsInStep

\* The next number is above every row's, and above every cursor.
NumbersAhead ==
    /\ seqno # 0 => \A m \in Marks(spool) : m[2] =< seqno
    /\ \A p \in Process : pc[p] = "write" =>
         reserved[p] = seqno /\ seqno # 0 /\ \A m \in Marks(spool) : m[2] < seqno

CursorsBehind ==
    \A c \in Chat : cursor[c] # 0 => \E m \in Marks(spool) : cursor[c] =< m[2]

Kept == Stored(spool) \cup dropped

SeenKept == \A p \in Process : \A i \in DOMAIN seen[p] : seen[p][i] \in Kept

\* The poller has its updates in a row, and those before the first one are kept.
PolledInOrder ==
    LET polled == todo[Poller]
    IN polled # <<>> => /\ \A i \in DOMAIN polled : polled[i] = polled[1] + (i - 1)
                        /\ 1..polled[1] - 1 \subseteq Kept

\* Until something fails, every line is whole, and no reader meets a torn one.
WholeLines(lines) == \A i \in 1..Len(lines) : lines[i].text = "whole"

WholeInv == spent.loss = 0 /\ spent.failure = 0 =>
    WholeLines(spool) /\ torn = NoneTorn /\ skipped = {}

NoLossInv == spent.loss = 0 =>
    /\ Ordered(spool) /\ NumbersAhead /\ CursorsBehind /\ CursorSafe
    /\ SeenKept /\ PolledInOrder /\ OffsetSafe /\ WholeInv
-------------------------------------------------------------------------------
(* The operators on files.                                                 *)

LEMMA NumbersType ==
    /\ PollLimit \in Nat /\ ReadLimit \in Nat /\ ReadLimit >= 1 /\ Updates \in Nat
    /\ SpoolRows \in Nat /\ SpoolRows > 1 /\ RetainRows \in Nat /\ RetainRows >= 1
    /\ SeenIds \in Nat /\ SeenIds >= 1
    /\ ChatOf \in [Update -> Chat] /\ Poller \in Process /\ None \notin Process
<1>1. {Updates, PollLimit, ReadLimit, RetainRows, SeenIds} \subseteq Nat \ {0}
  BY InboxAssumption
<1>2. \A n \in Nat \ {0} : n \in Nat /\ n >= 1
  OBVIOUS
<1>3. QED BY <1>1, <1>2, InboxAssumption

LEMMA MinOfTwo ==
    ASSUME NEW a \in Int, NEW b \in Int
    PROVE  Min({a, b}) = IF a =< b THEN a ELSE b
<1>1. \E x \in {a, b} : \A y \in {a, b} : x =< y
  OBVIOUS
<1>2. Min({a, b}) \in {a, b} /\ \A y \in {a, b} : Min({a, b}) =< y
  BY <1>1 DEF Min
<1>3. QED BY <1>2

LEMMA MaxOfTwo ==
    ASSUME NEW a \in Int, NEW b \in Int
    PROVE  Max({a, b}) = IF a >= b THEN a ELSE b
<1>1. \E x \in {a, b} : \A y \in {a, b} : x >= y
  OBVIOUS
<1>2. Max({a, b}) \in {a, b} /\ \A y \in {a, b} : Max({a, b}) >= y
  BY <1>1 DEF Max
<1>3. QED BY <1>2

LEMMA MaxOfNumbers ==
    ASSUME NEW T \in SUBSET Nat, IsFiniteSet(T), T # {}
    PROVE  Max(T) \in T /\ \A n \in T : n =< Max(T)
<1>1. \E x \in T : \A y \in T : x >= y
  BY GreatestNumber
<1>2. QED BY <1>1 DEF Max

LEMMA NewestEffect ==
    ASSUME NEW S, NEW s \in Seq(S), NEW n \in Nat
    PROVE  /\ Newest(s, n) \in Seq(S)
           /\ Len(Newest(s, n)) = IF Len(s) =< n THEN Len(s) ELSE n
           /\ \A i \in 1..Len(Newest(s, n)) :
                 /\ Newest(s, n)[i] = s[i + (Len(s) - Len(Newest(s, n)))]
                 /\ i + (Len(s) - Len(Newest(s, n))) \in 1..Len(s)
<1> DEFINE m == IF Len(s) =< n THEN Len(s) ELSE n
<1>1. Len(s) \in Nat /\ m \in Nat /\ m =< Len(s)
  OBVIOUS
<1>2. Newest(s, n) = SubSeq(s, Len(s) - m + 1, Len(s))
  <2>1. Min({Len(s), n}) = m
    BY <1>1, MinOfTwo
  <2>2. QED BY <2>1 DEF Newest
<1> HIDE DEF m
<1>3. /\ Newest(s, n) \in Seq(S) /\ Len(Newest(s, n)) = m
      /\ \A i \in 1..m : Newest(s, n)[i] = s[(Len(s) - m + 1) + i - 1]
  BY <1>1, <1>2, SubSeqProperties
<1>4. \A i \in 1..m : /\ (Len(s) - m + 1) + i - 1 = i + (Len(s) - m)
                       /\ i + (Len(s) - m) \in 1..Len(s)
  BY <1>1
<1>5. QED BY <1>1, <1>3, <1>4 DEF m
Mark(line) == <<line.msg, line.seq>>

LEMMA LineType ==
    ASSUME NEW lines \in Seq(Line), NEW i \in 1..Len(lines)
    PROVE  /\ lines[i] \in Line /\ lines[i].msg \in Update /\ lines[i].seq \in Nat
           /\ lines[i].text \in Text
<1>1. lines[i] \in Line
  OBVIOUS
<1>2. QED BY <1>1 DEF Line

LEMMA RowsMeaning ==
    ASSUME NEW lines \in Seq(Line)
    PROVE  /\ Rows(lines) = {line \in {lines[i] : i \in 1..Len(lines)} : Readable(line)}
           /\ \A m : m \in Marks(lines) <=>
                \E i \in 1..Len(lines) : Readable(lines[i]) /\ m = Mark(lines[i])
           /\ \A u : u \in Stored(lines) <=>
                \E i \in 1..Len(lines) : Readable(lines[i]) /\ u = lines[i].msg
<1>1. DOMAIN lines = 1..Len(lines)
  OBVIOUS
<1>2. Rows(lines) = {line \in {lines[i] : i \in 1..Len(lines)} : Readable(line)}
  BY <1>1 DEF Rows, ToSet
<1>3. QED BY <1>2 DEF Marks, Stored, Mark

\* Everything that is said of the rows follows from their marks.
LEMMA MarksDecide ==
    ASSUME NEW lines \in Seq(Line)
    PROVE  /\ Stored(lines) = {m[1] : m \in Marks(lines)}
           /\ {row.seq : row \in Rows(lines)} = {m[2] : m \in Marks(lines)}
           /\ Marks(lines) \subseteq Update \X Nat
<1>1. \A row \in Rows(lines) : row.msg \in Update /\ row.seq \in Nat
  BY RowsMeaning, LineType
<1>2. \A m : m \in Marks(lines) <=> \E row \in Rows(lines) : m = <<row.msg, row.seq>>
  BY DEF Marks
<1>3. Marks(lines) \subseteq Update \X Nat
  BY <1>1, <1>2
<1>4. Stored(lines) = {m[1] : m \in Marks(lines)}
  <2>1. \A row \in Rows(lines) : /\ <<row.msg, row.seq>> \in Marks(lines)
                                 /\ <<row.msg, row.seq>>[1] = row.msg
    BY <1>2
  <2>2. \A m \in Marks(lines) : \E row \in Rows(lines) : m[1] = row.msg
    BY <1>2
  <2>3. QED BY <2>1, <2>2 DEF Stored
<1>5. {row.seq : row \in Rows(lines)} = {m[2] : m \in Marks(lines)}
  <2>1. \A row \in Rows(lines) : /\ <<row.msg, row.seq>> \in Marks(lines)
                                 /\ <<row.msg, row.seq>>[2] = row.seq
    BY <1>2
  <2>2. \A m \in Marks(lines) : \E row \in Rows(lines) : m[2] = row.seq
    BY <1>2
  <2>3. QED BY <2>1, <2>2
<1>6. QED BY <1>3, <1>4, <1>5

LEMMA MarksFinite ==
    ASSUME NEW lines \in Seq(Line)
    PROVE  IsFiniteSet({m[2] : m \in Marks(lines)})
<1> DEFINE places == {i \in 1..Len(lines) : Readable(lines[i])}
           f == [i \in places |-> lines[i].seq]
<1>1. IsFiniteSet(places)
  <2>1. IsFiniteSet(1..Len(lines))
    BY FS_Interval
  <2>2. QED BY <2>1, FS_Subset
<1>2. {m[2] : m \in Marks(lines)} = {f[i] : i \in places}
  <2>1. \A i \in 1..Len(lines) : Mark(lines[i])[2] = lines[i].seq
    BY DEF Mark
  <2>2. QED BY <2>1, RowsMeaning
<1>3. f \in Surjection(places, {f[i] : i \in places})
  BY DEF Surjection
<1> HIDE DEF f, places
<1>4. IsFiniteSet({f[i] : i \in places})
  BY <1>1, <1>3, FS_Surjection
<1>5. QED BY <1>2, <1>4

\* The highest number is no lower than any row's, and it is a row's or 0.
LEMMA HighestMeaning ==
    ASSUME NEW lines \in Seq(Line)
    PROVE  /\ Highest(lines) \in Nat
           /\ \A m \in Marks(lines) : m[2] =< Highest(lines)
<1> DEFINE T == {0} \cup {m[2] : m \in Marks(lines)}
<1>1. T \in SUBSET Nat /\ T # {}
  BY MarksDecide
<1>2. IsFiniteSet(T)
  <2>1. IsFiniteSet({0})
    BY FS_Singleton
  <2>2. QED BY <2>1, MarksFinite, FS_Union
<1>3. Highest(lines) = Max(T)
  BY MarksDecide DEF Highest
<1>4. QED
  <2>1. \A m \in Marks(lines) : m[2] \in T
    OBVIOUS
  <2> HIDE DEF T
  <2>2. QED BY <1>1, <1>2, <1>3, <2>1, MaxOfNumbers
LEMMA SameMarks ==
    ASSUME NEW a \in Seq(Line), NEW b \in Seq(Line),
           \A i \in 1..Len(a) : Readable(a[i]) =>
              \E j \in 1..Len(b) : Readable(b[j]) /\ Mark(a[i]) = Mark(b[j])
    PROVE  Marks(a) \subseteq Marks(b)
<1>1. SUFFICES ASSUME NEW m \in Marks(a) PROVE m \in Marks(b)
  OBVIOUS
<1>2. PICK i \in 1..Len(a) : Readable(a[i]) /\ m = Mark(a[i])
  BY RowsMeaning
<1>3. PICK j \in 1..Len(b) : Readable(b[j]) /\ m = Mark(b[j])
  BY <1>2
<1>4. QED BY <1>3, RowsMeaning

LEMMA LastLine ==
    ASSUME NEW lines \in Seq(Line), lines # <<>>
    PROVE  /\ Len(lines) \in Nat /\ Len(lines) >= 1 /\ Last(lines) = lines[Len(lines)]
           /\ Len(lines) \in 1..Len(lines)
BY DEF Last

LEMMA FrontEffect ==
    ASSUME NEW lines \in Seq(Line), lines # <<>>
    PROVE  /\ Front(lines) \in Seq(Line) /\ Len(Front(lines)) = Len(lines) - 1
           /\ \A i \in 1..Len(lines) - 1 : Front(lines)[i] = lines[i]
<1>1. Len(lines) \in Nat /\ Len(lines) >= 1
  BY LastLine
<1>2. \A i \in 1..Len(lines) - 1 : lines[i] \in Line
  BY <1>1
<1> DEFINE m == Len(lines) - 1
           rest == SubSeq(lines, 1, m)
<1>3. /\ rest \in Seq(Line) /\ Len(rest) = IF 1 =< m THEN m - 1 + 1 ELSE 0
      /\ \A i \in 1..m - 1 + 1 : rest[i] = lines[1 + i - 1]
  BY <1>1, <1>2, SubSeqProperties
<1>4. m \in Nat /\ rest = Front(lines)
  BY <1>1 DEF Front
<1> HIDE DEF rest, m
<1>5. \A i \in 1..m : 1 + i - 1 = i /\ i \in 1..m - 1 + 1
  BY <1>4
<1>6. Len(rest) = m /\ \A i \in 1..m : rest[i] = lines[i]
  BY <1>3, <1>4, <1>5
<1>7. QED BY <1>3, <1>4, <1>6 DEF m

\* The repair loses no row, keeps the order, and leaves a file to which rows can be added.
LEMMA RepairedEffect ==
    ASSUME NEW lines \in Seq(Line), OpenAtEnd(lines)
    PROVE  /\ Repaired(lines) \in Seq(Line)
           /\ Sealed(Repaired(lines)) /\ OpenAtEnd(Repaired(lines))
           /\ Marks(Repaired(lines)) = Marks(lines)
           /\ Ordered(lines) => Ordered(Repaired(lines))
           /\ (\A i \in 1..Len(lines) : lines[i].text # "garbled") =>
                \A i \in 1..Len(Repaired(lines)) : Repaired(lines)[i].text # "garbled"
<1> DEFINE new == Repaired(lines)
<1>1. CASE lines = <<>> \/ Ended(Last(lines))
  BY <1>1 DEF Repaired, Sealed
<1>2. CASE lines # <<>> /\ ~Ended(Last(lines))
  <2> DEFINE n == Len(lines)
             w == [lines[n] EXCEPT !.text = "whole"]
  <2>1. /\ n \in Nat /\ n >= 1 /\ Last(lines) = lines[n] /\ lines[n] \in Line
        /\ Front(lines) \in Seq(Line) /\ Len(Front(lines)) = n - 1
        /\ \A i \in 1..n - 1 : Front(lines)[i] = lines[i]
    BY <1>2, LastLine, FrontEffect, LineType
  <2>2. \A i \in 1..n - 1 : Ended(lines[i])
    BY DEF OpenAtEnd
  <2>3. \A i \in 1..n : i \in 1..n - 1 \/ i = n
    BY <2>1
  <2>4. CASE ~Readable(lines[n])
    <3>1. new = Front(lines)
      BY <1>2, <2>1, <2>4 DEF Repaired
    <3>2. /\ new \in Seq(Line) /\ Len(new) = n - 1 /\ \A i \in 1..n - 1 : new[i] = lines[i]
      BY <2>1, <3>1
    <3>3. Sealed(new) /\ OpenAtEnd(new)
      BY <2>1, <2>2, <3>2, LastLine DEF Sealed, OpenAtEnd
    <3>4. Marks(new) = Marks(lines)
      <4>1. \A i \in 1..n - 1 : i \in 1..n /\ new[i] = lines[i]
        BY <2>1, <3>2
      <4> HIDE DEF new
      <4>2. Marks(new) \subseteq Marks(lines)
        BY <3>2, <4>1, SameMarks
      <4>3. Marks(lines) \subseteq Marks(new)
        BY <2>3, <2>4, <3>2, SameMarks
      <4>4. QED BY <4>2, <4>3
    <3>5. QED BY SMTT(30), <2>1, <3>2, <3>3, <3>4 DEF Ordered
  <2>5. CASE Readable(lines[n])
    <3>1. w \in Line /\ Readable(w) /\ Ended(w) /\ Mark(w) = Mark(lines[n])
          /\ w.seq = lines[n].seq /\ w.msg = lines[n].msg /\ w.text = "whole"
      BY <2>1 DEF Line, Text, Readable, Ended, Mark
    <3> HIDE DEF w
    <3>2. new = Append(Front(lines), w)
      BY <1>2, <2>1, <2>5 DEF Repaired, w
    <3>3. /\ new \in Seq(Line) /\ Len(new) = n /\ new[n] = w
          /\ \A i \in 1..n - 1 : new[i] = lines[i]
      BY <2>1, <3>1, <3>2, AppendProperties
    <3>4. Sealed(new) /\ OpenAtEnd(new)
      BY <2>1, <2>2, <3>1, <3>3, LastLine DEF Sealed, OpenAtEnd
    <3>5. Marks(new) = Marks(lines)
      <4>1. \A i \in 1..n : /\ Readable(new[i]) <=> Readable(lines[i])
                            /\ Readable(lines[i]) => Mark(new[i]) = Mark(lines[i])
        BY <2>3, <2>5, <3>1, <3>3
      <4> HIDE DEF new
      <4>2. ASSUME NEW i \in 1..n
            PROVE  /\ Readable(new[i]) => \E j \in 1..n : Readable(lines[j])
                                                         /\ Mark(new[i]) = Mark(lines[j])
                   /\ Readable(lines[i]) => \E j \in 1..n : Readable(new[j])
                                                         /\ Mark(lines[i]) = Mark(new[j])
        BY <4>1
      <4>3. Marks(new) \subseteq Marks(lines)
        BY <3>3, <4>2, SameMarks
      <4>4. Marks(lines) \subseteq Marks(new)
        BY <3>3, <4>2, SameMarks
      <4>5. QED BY <4>3, <4>4
    <3>6. ASSUME Ordered(lines) PROVE Ordered(new)
      <4>1. \A i \in 1..n : new[i].seq = lines[i].seq /\ new[i].msg = lines[i].msg
                             /\ (Readable(new[i]) => Readable(lines[i]))
        BY <2>3, <2>5, <3>1, <3>3
      <4>2. DOMAIN new = 1..n /\ DOMAIN lines = 1..n
        BY <3>3
      <4>3. QED BY <3>6, <4>1, <4>2 DEF Ordered
    <3>7. (\A i \in 1..n : lines[i].text # "garbled") =>
            \A i \in 1..n : new[i].text # "garbled"
      BY <2>3, <3>1, <3>3
    <3>8. QED BY <3>3, <3>4, <3>5, <3>6, <3>7
  <2>6. QED BY <2>4, <2>5
<1>3. QED BY <1>1, <1>2
\* Rotation keeps the newest rows, the last of them among these.
LEMMA RoomEffect ==
    ASSUME NEW lines \in Seq(Line)
    PROVE  /\ Room(lines) \in Seq(Line)
           /\ Marks(Room(lines)) \subseteq Marks(lines)
           /\ OpenAtEnd(lines) => OpenAtEnd(Room(lines))
           /\ Sealed(lines) => Sealed(Room(lines))
           /\ Ordered(lines) => Ordered(Room(lines))
           /\ lines # <<>> => Room(lines) # <<>> /\ Last(Room(lines)) = Last(lines)
           /\ (\A i \in 1..Len(lines) : lines[i].text # "garbled") =>
                \A i \in 1..Len(Room(lines)) : Room(lines)[i].text # "garbled"
           /\ Len(lines) < SpoolRows => Room(lines) = lines
<1>1. CASE Len(lines) < SpoolRows
  BY <1>1 DEF Room
<1>2. CASE ~(Len(lines) < SpoolRows)
  <2> DEFINE k == Min({RetainRows, SpoolRows - 1})
             new == Room(lines)
             d == Len(lines) - Len(new)
  <2>1. k \in Nat /\ k >= 1
    BY NumbersType, MinOfTwo
  <2>2. new = Newest(lines, k)
    BY <1>2 DEF Room
  <2> HIDE DEF k, new
  <2>3. /\ new \in Seq(Line) /\ Len(new) = IF Len(lines) =< k THEN Len(lines) ELSE k
        /\ \A i \in 1..Len(new) : new[i] = lines[i + d] /\ i + d \in 1..Len(lines)
    BY <2>1, <2>2, NewestEffect
  <2>4. /\ Len(lines) \in Nat /\ Len(new) \in Nat /\ d \in Nat
        /\ Len(lines) >= 1 => Len(new) >= 1 /\ Len(new) + d = Len(lines)
    BY <2>1, <2>3
  <2>5. Len(lines) >= 1
    BY <1>2, <2>4, NumbersType
  <2>6. lines # <<>> /\ new # <<>> /\ Last(new) = Last(lines)
    <3>1. Len(new) \in 1..Len(new) /\ Len(new) + d = Len(lines)
      BY <2>4, <2>5
    <3>2. new[Len(new)] = lines[Len(lines)]
      BY <2>3, <3>1
    <3>3. lines # <<>> /\ new # <<>>
      BY <2>4, <2>5
    <3>4. QED BY <3>2, <3>3 DEF Last
  <2>7. Marks(new) \subseteq Marks(lines)
    <3>1. \A i \in 1..Len(new) : Readable(new[i]) =>
             \E j \in 1..Len(lines) : Readable(lines[j]) /\ Mark(new[i]) = Mark(lines[j])
      BY <2>3
    <3>2. QED BY <2>3, <3>1, SameMarks
  <2>8. OpenAtEnd(lines) => OpenAtEnd(new)
    <3>1. \A i \in 1..Len(new) - 1 : /\ new[i] = lines[i + d] /\ i + d \in 1..Len(lines) - 1
      BY <2>3, <2>4
    <3>2. QED BY <3>1 DEF OpenAtEnd
  <2>9. Ordered(lines) => Ordered(new)
    <3>1. DOMAIN lines = 1..Len(lines) /\ DOMAIN new = 1..Len(new)
      BY <2>3
    <3>2. SUFFICES ASSUME Ordered(lines), NEW i \in 1..Len(new), NEW j \in 1..Len(new),
                          i < j, Readable(new[i]), Readable(new[j])
                   PROVE  new[i].seq < new[j].seq /\ new[i].msg # new[j].msg
      BY <3>1 DEF Ordered
    <3>3. i + d < j + d /\ i + d \in DOMAIN lines /\ j + d \in DOMAIN lines
      BY <2>3, <2>4, <3>1, <3>2
    <3>4. new[i] = lines[i + d] /\ new[j] = lines[j + d]
      BY <2>3
    <3>5. QED BY <3>2, <3>3, <3>4 DEF Ordered
  <2>10. (\A i \in 1..Len(lines) : lines[i].text # "garbled") =>
           \A i \in 1..Len(new) : new[i].text # "garbled"
    BY <2>3
  <2>11. QED BY <1>2, <2>3, <2>6, <2>7, <2>8, <2>9, <2>10 DEF Sealed, new
<1>3. QED BY <1>1, <1>2

LEMMA AppendEffect ==
    ASSUME NEW lines \in Seq(Line), NEW line \in Line, Sealed(lines)
    PROVE  /\ Extended(lines, line) = Append(lines, line)
           /\ Append(lines, line) \in Seq(Line) /\ Append(lines, line) # <<>>
           /\ Len(Append(lines, line)) = Len(lines) + 1
           /\ OpenAtEnd(lines) => OpenAtEnd(Append(lines, line))
           /\ Marks(lines) \subseteq Marks(Append(lines, line))
           /\ Marks(Append(lines, line)) \subseteq Marks(lines) \cup {Mark(line)}
           /\ Readable(line) => Mark(line) \in Marks(Append(lines, line))
           /\ ~Readable(line) => Marks(Append(lines, line)) = Marks(lines)
           /\ /\ Ordered(lines)
              /\ \A m \in Marks(lines) : m[2] < line.seq /\ m[1] # line.msg
              => Ordered(Append(lines, line))
           /\ (\A i \in 1..Len(lines) : lines[i].text # "garbled") /\ line.text # "garbled" =>
                \A i \in 1..Len(Append(lines, line)) :
                   Append(lines, line)[i].text # "garbled"
<1> DEFINE new == Append(lines, line)
           n == Len(lines)
<1>1. Extended(lines, line) = new
  BY DEF Extended, Sealed
<1>2. /\ new \in Seq(Line) /\ new # <<>> /\ Len(new) = n + 1 /\ n \in Nat
      /\ \A i \in 1..n : new[i] = lines[i]
      /\ new[n + 1] = line
  BY AppendProperties
<1> HIDE DEF new
<1>3. /\ \A i \in 1..n + 1 : i \in 1..n \/ i = n + 1
      /\ \A i \in 1..n : i \in 1..n + 1
      /\ n + 1 \in 1..n + 1
  BY <1>2
<1>4. OpenAtEnd(lines) => OpenAtEnd(new)
  <2>1. SUFFICES ASSUME OpenAtEnd(lines), NEW i \in 1..n PROVE Ended(new[i])
    BY <1>2 DEF OpenAtEnd
  <2>2. CASE i = n
    BY <1>2, <2>2 DEF Sealed, Last
  <2>3. CASE i # n
    BY <1>2, <2>1, <2>3 DEF OpenAtEnd
  <2>4. QED BY <2>2, <2>3
<1>5. Marks(lines) \subseteq Marks(new)
  <2>1. \A i \in 1..Len(lines) : Readable(lines[i]) =>
           \E j \in 1..Len(new) : Readable(new[j]) /\ Mark(lines[i]) = Mark(new[j])
    BY <1>2, <1>3
  <2>2. QED BY <1>2, <2>1, SameMarks
<1>6. Readable(line) => Mark(line) \in Marks(new)
  BY <1>2, <1>3, RowsMeaning
<1>7. ASSUME NEW m \in Marks(new) PROVE m \in Marks(lines) \/ (m = Mark(line) /\ Readable(line))
  <2>1. PICK i \in 1..n + 1 : Readable(new[i]) /\ m = Mark(new[i])
    BY <1>2, RowsMeaning
  <2>2. CASE i \in 1..n
    BY <1>2, <2>1, <2>2, RowsMeaning
  <2>3. QED BY <1>2, <1>3, <2>1, <2>2
<1>8. ASSUME Ordered(lines), \A m \in Marks(lines) : m[2] < line.seq /\ m[1] # line.msg
      PROVE  Ordered(new)
  <2>1. DOMAIN lines = 1..n /\ DOMAIN new = 1..n + 1
    BY <1>2
  <2>2. SUFFICES ASSUME NEW i \in 1..n + 1, NEW j \in 1..n + 1, i < j,
                        Readable(new[i]), Readable(new[j])
                 PROVE  new[i].seq < new[j].seq /\ new[i].msg # new[j].msg
    BY <2>1 DEF Ordered
  <2>3. i \in 1..n
    BY <1>2, <2>2
  <2>4. CASE j \in 1..n
    BY <1>2, <1>8, <2>1, <2>2, <2>3, <2>4 DEF Ordered
  <2>5. CASE j = n + 1
    <3>1. Mark(lines[i]) \in Marks(lines)
      BY <1>2, <2>2, <2>3, RowsMeaning
    <3>2. lines[i].seq < line.seq /\ lines[i].msg # line.msg
      BY <1>8, <3>1 DEF Mark
    <3>3. QED BY <1>2, <2>3, <2>5, <3>2
  <2>6. QED BY <1>3, <2>4, <2>5
<1>9. (\A i \in 1..n : lines[i].text # "garbled") /\ line.text # "garbled" =>
         \A i \in 1..n + 1 : new[i].text # "garbled"
  BY <1>2, <1>3
<1>10. QED BY <1>1, <1>2, <1>4, <1>5, <1>6, <1>7, <1>8, <1>9 DEF new
-------------------------------------------------------------------------------
(* What a step does to the file: nothing, the repair, a row, a power loss. *)

Mended == /\ lock = None /\ spool' = Repaired(spool)
          /\ synced' = IF spool' = spool THEN synced ELSE Len(spool')
          /\ linked' \in {linked, TRUE} /\ dropped' = dropped

Grown(p) == /\ pc[p] = "write" /\ Rotate
            /\ \/ spool' = Room(spool)
               \/ \E text \in {"whole", "torn", "cut", "bare"} :
                    spool' = Extended(Room(spool), RowOf(p, text))

FileKept == spool' = spool /\ synced' \in {synced, Len(spool)} /\ dropped' = dropped
            /\ linked' \in {linked, TRUE}

LEMMA FileMoves ==
    ASSUME [Next]_vars
    PROVE  FileKept \/ Mended \/ (\E p \in Process : Grown(p)) \/ PowerLoss
<1>1. CASE UNCHANGED vars \/ Arrive \/ Poll \/ PollLost \/ (\E c \in Chat : ReadTorn(c) \/ Read(c))
  BY <1>1 DEF vars, file, Arrive, Poll, PollLost, ReadTorn, Read, FileKept
<1>2. ASSUME NEW p \in Process,
             Start(p) \/ Ingest(p) \/ StorageFailure(p) \/ Crash(p)
               \/ \E m \in Update : Event(p, m)
      PROVE  FileKept \/ Mended \/ Grown(p)
  <2>1. CASE Start(p) \/ CheckSeen(p) \/ (\E m \in Update : Event(p, m))
    BY <2>1 DEF Start, CheckSeen, Event, file, FileKept
  <2>2. CASE FoundStored(p) \/ Reserve(p)
    BY <2>2 DEF FoundStored, Reserve, Repair, SyncDirectory, Mended
  <2>3. CASE SyncRow(p) \/ SyncDir(p)
    BY <2>3 DEF SyncRow, SyncDir, SyncDirectory, FileKept
  <2>4. CASE WriteRow(p)
    BY <2>4 DEF WriteRow, Grown
  <2>5. CASE StorageFailure(p) \/ Crash(p)
    BY <2>5 DEF StorageFailure, Crash, CutShort, Grown, FileKept, file
  <2>6. QED BY <1>2, <2>1, <2>2, <2>3, <2>4, <2>5 DEF Ingest
<1>3. QED BY <1>1, <1>2 DEF Next

-------------------------------------------------------------------------------
(* Type correctness.  Updates are polled only behind what was confirmed.   *)

TypeInv == /\ TypeOK /\ {offset, confirmed} \subseteq 0..arrived
           /\ todo \in [Process -> Seq(1..arrived)]

Filed == spool \in Seq(Line) /\ synced \in 0..Len(spool) /\ linked \in BOOLEAN
         /\ dropped \subseteq Update

Working == /\ lock \in Process \cup {None} /\ pc \in [Process -> PC]
           /\ todo \in [Process -> Seq(1..arrived)]
           /\ \A p \in Process : /\ pc[p] \notin {"down", "idle"} => todo[p] # <<>>
                                 /\ pc[p] \in Holding <=> lock = p

Informed == /\ seen \in [Process -> Seq(Update)]
            /\ \A p \in Process : Len(seen[p]) =< SeenIds

Counted == /\ seqno \in Nat /\ seqSynced \in Nat /\ reserved \in [Process -> Nat]
           /\ arrived \in 0..Updates /\ {offset, confirmed} \subseteq 0..arrived

Noted == /\ torn \in [Chat -> Nat] /\ cursor \in [Chat -> Nat]
         /\ read \subseteq Update \X Nat /\ skipped \subseteq Update \X Nat
         /\ written \subseteq Update
         /\ spent \in [{"event", "failure", "loss"} -> Nat]

LEMMA TypeParts ==
    TypeInv <=> Filed /\ Working /\ Informed /\ Counted /\ Noted
<1>1. ASSUME TypeInv PROVE Filed /\ Working /\ Informed /\ Counted /\ Noted
  BY <1>1 DEF TypeInv, TypeOK, Filed, Working, Informed, Counted, Noted
<1>2. ASSUME Filed, Working, Informed, Counted, Noted PROVE TypeInv
  <2>1. Updates \in Nat /\ arrived \in 0..Updates
    BY <1>2, NumbersType DEF Counted
  <2>2. 0..arrived \subseteq 0..Updates /\ 1..arrived \subseteq Update
    BY <2>1 DEF Update
  <2>3. todo \in [Process -> Seq(Update)]
    <3>1. \A p \in Process : todo[p] \in Seq(Update)
      BY <1>2, <2>2, SeqMonotonic DEF Working
    <3>2. QED BY <1>2, <3>1 DEF Working
  <2>4. {offset, confirmed, arrived} \subseteq 0..Updates
    BY <1>2, <2>1, <2>2 DEF Counted
  <2>5. QED
    BY <1>2, <2>3, <2>4 DEF TypeInv, TypeOK, Filed, Working, Informed, Counted, Noted
<1>3. QED BY <1>1, <1>2

LEMMA InitType == Init => TypeInv
<1> SUFFICES ASSUME Init PROVE TypeInv
  OBVIOUS
<1>1. Filed
  <2>1. spool \in Seq(Line) /\ Len(spool) = 0
    BY EmptySeq DEF Init
  <2>2. synced \in 0..Len(spool)
    BY <2>1 DEF Init
  <2>3. QED BY <2>1, <2>2 DEF Init, Filed
<1>2. Working
  BY NumbersType DEF Init, Working, PC, Holding
<1>3. Informed /\ Counted
  BY NumbersType DEF Init, Informed, Counted
<1>4. Noted
  BY DEF Init, Noted
<1>5. QED BY <1>1, <1>2, <1>3, <1>4, TypeParts

\* What the first update of a process at work is.
LEMMA TodoType ==
    ASSUME TypeInv, NEW p \in Process, pc[p] \notin {"down", "idle"}
    PROVE  /\ Head(todo[p]) \in 1..arrived /\ Head(todo[p]) \in Update
           /\ Tail(todo[p]) \in Seq(1..arrived) /\ Head(todo[p]) = todo[p][1]
           /\ Len(Tail(todo[p])) = Len(todo[p]) - 1 /\ Len(todo[p]) \in Nat
           /\ \A i \in 1..Len(todo[p]) - 1 : Tail(todo[p])[i] = todo[p][i + 1]
<1>1. todo[p] \in Seq(1..arrived) /\ todo[p] # <<>> /\ todo[p] \in Seq(Update)
  BY DEF TypeInv, TypeOK
<1> DEFINE s == todo[p]
<1> HIDE DEF s
<1>2. s \in Seq(1..arrived) /\ s # <<>> /\ s \in Seq(Update)
  BY <1>1 DEF s
<1>3. /\ Head(s) \in 1..arrived /\ Tail(s) \in Seq(1..arrived) /\ Head(s) = s[1]
      /\ Len(s) \in Nat /\ Len(Tail(s)) = Len(s) - 1
      /\ \A i \in 1..Len(s) - 1 : Tail(s)[i] = s[i + 1]
  <2>1. /\ Head(s) \in 1..arrived /\ Tail(s) \in Seq(1..arrived)
        /\ Len(Tail(s)) = Len(s) - 1 /\ \A i \in 1..Len(Tail(s)) : Tail(s)[i] = s[i + 1]
    BY <1>2, HeadTailProperties
  <2>2. Head(s) = s[1] /\ Len(s) \in Nat
    BY <1>2
  <2>3. QED BY <2>1, <2>2
<1>4. Head(s) \in Update
  BY <1>2, HeadTailProperties
<1>5. QED BY <1>3, <1>4 DEF s

LEMMA RowType ==
    ASSUME TypeInv, NEW p \in Process, pc[p] \notin {"down", "idle"},
           NEW text \in {"whole", "torn", "cut", "bare"}
    PROVE  /\ RowOf(p, text) \in Line /\ RowOf(p, text).text # "garbled"
           /\ Mark(RowOf(p, text)) = <<Head(todo[p]), reserved[p]>>
           /\ Readable(RowOf(p, text)) <=> text \in {"whole", "bare"}
           /\ RowOf(p, text).seq = reserved[p] /\ RowOf(p, text).msg = Head(todo[p])
<1>1. Head(todo[p]) \in Update /\ reserved[p] \in Nat
  BY TodoType DEF TypeInv, TypeOK
<1> DEFINE u == Head(todo[p])
<1> HIDE DEF u
<1>2. RowOf(p, text) = [msg |-> u, seq |-> reserved[p], text |-> text]
  BY DEF RowOf, u
<1>3. QED BY <1>1, <1>2 DEF Line, Text, Mark, Readable, u

LEMMA Ungarbled ==
    ASSUME spool \in Seq(Line)
    PROVE  NothingGarbled <=> \A i \in 1..Len(spool) : spool[i].text # "garbled"
BY DEF NothingGarbled, ToSet

\* A file of whole rows, the last one perhaps excepted.
Sound(lines) == /\ lines \in Seq(Line) /\ OpenAtEnd(lines)
                /\ \A i \in 1..Len(lines) : lines[i].text # "garbled"

LEMMA SoundFile ==
    ASSUME spool \in Seq(Line), FileInv PROVE Sound(spool)
BY Ungarbled DEF FileInv, Sound

\* A write adds its row behind the newest ones.
LEMMA GrownEffect ==
    ASSUME TypeInv, FileInv, NEW p \in Process, Grown(p)
    PROVE  /\ Sound(spool') /\ Sound(Room(spool)) /\ Len(Room(spool)) \in Nat
           /\ \/ spool' = Room(spool)
              \/ \E text \in {"whole", "torn", "cut", "bare"} :
                   spool' = Append(Room(spool), RowOf(p, text))
           /\ Len(spool') >= Len(Room(spool)) /\ Len(spool') \in Nat
           /\ \A i \in 1..Len(Room(spool)) : spool'[i] = Room(spool)[i]
<1> DEFINE room == Room(spool)
<1>1. Sound(spool) /\ Sealed(spool) /\ spool \in Seq(Line)
  BY SoundFile DEF Grown, FileInv, AppendsInStep, TypeInv, TypeOK
<1>2. Sound(room) /\ Sealed(room) /\ room \in Seq(Line) /\ Len(room) \in Nat
  <2>1. /\ room \in Seq(Line) /\ OpenAtEnd(room) /\ Sealed(room)
        /\ \A i \in 1..Len(room) : room[i].text # "garbled"
    BY <1>1, RoomEffect DEF Sound
  <2> HIDE DEF room
  <2>2. Len(room) \in Nat
    BY <2>1
  <2>3. QED BY <2>1, <2>2 DEF Sound
<1>3. CASE spool' = room
  BY <1>2, <1>3
<1>4. ASSUME NEW text \in {"whole", "torn", "cut", "bare"},
             spool' = Extended(room, RowOf(p, text))
      PROVE  /\ spool' = Append(room, RowOf(p, text)) /\ Sound(spool')
             /\ Len(spool') >= Len(room) /\ Len(spool') \in Nat
             /\ \A i \in 1..Len(room) : spool'[i] = room[i]
  <2> DEFINE line == RowOf(p, text)
  <2>1. line \in Line /\ line.text # "garbled"
    BY RowType DEF Grown
  <2> HIDE DEF line, room
  <2>2. spool' = Append(room, line) /\ Sound(spool') /\ Len(spool') = Len(room) + 1
    BY <1>2, <1>4, <2>1, AppendEffect DEF Sound, line
  <2>3. \A i \in 1..Len(room) : spool'[i] = room[i]
    BY <1>2, <2>1, <2>2
  <2>4. QED BY <1>2, <2>2, <2>3 DEF line
<1>5. QED BY <1>2, <1>3, <1>4 DEF Grown

\* A loss of power keeps what was synced, if the name of the file was.
LEMMA LossEffect ==
    ASSUME TypeInv, FileInv, PowerLoss
    PROVE  /\ Sound(spool') /\ synced' = Len(spool') /\ Len(spool') \in Nat
           /\ linked => Len(spool') >= synced
           /\ Len(spool') >= synced => \A i \in 1..synced : spool'[i] = spool[i]
<1>1. /\ spool \in Seq(Line) /\ synced \in 0..Len(spool) /\ Len(spool) \in Nat
      /\ linked \in BOOLEAN /\ Sound(spool)
  BY SoundFile DEF TypeInv, TypeOK
<1>2. PICK kept \in 0..Len(spool) :
        /\ linked => kept >= synced
        /\ \/ spool' = SubSeq(spool, 1, kept)
           \/ /\ kept > synced
              /\ \E text \in {"torn", "cut"} :
                   spool' = [SubSeq(spool, 1, kept) EXCEPT ![kept].text = text]
  BY <1>1 DEF PowerLoss
<1> DEFINE part == SubSeq(spool, 1, kept)
<1>3. part \in Seq(Line) /\ Len(part) = kept /\ \A i \in 1..kept : part[i] = spool[i]
  <2>1. \A i \in 1..kept : spool[i] \in Line
    BY <1>1
  <2>2. /\ part \in Seq(Line) /\ Len(part) = IF 1 =< kept THEN kept - 1 + 1 ELSE 0
        /\ \A i \in 1..kept - 1 + 1 : part[i] = spool[1 + i - 1]
    BY <1>1, <2>1, SubSeqProperties
  <2> HIDE DEF part
  <2>3. QED BY <1>1, <2>2
<1> HIDE DEF part
<1>4. \A i \in 1..kept : i \in 1..Len(spool) /\ (i \in 1..kept - 1 => i \in 1..Len(spool) - 1)
  BY <1>1
<1>5. ASSUME spool' = part
      PROVE  /\ Sound(spool') /\ Len(spool') = kept
             /\ kept >= synced => \A i \in 1..synced : spool'[i] = spool[i]
  <2>1. \A i \in 1..kept - 1 : Ended(part[i])
    <3>1. \A i \in 1..kept - 1 : i \in 1..kept
      BY <1>1
    <3>2. QED BY <1>1, <1>3, <1>4, <3>1 DEF Sound, OpenAtEnd
  <2>2. \A i \in 1..kept : part[i].text # "garbled"
    BY <1>1, <1>3, <1>4 DEF Sound
  <2>3. kept >= synced => \A i \in 1..synced : i \in 1..kept
    BY <1>1
  <2>4. QED BY <1>3, <1>5, <2>1, <2>2, <2>3 DEF Sound, OpenAtEnd
<1>6. ASSUME kept > synced, NEW text \in {"torn", "cut"},
             spool' = [part EXCEPT ![kept].text = text]
      PROVE  /\ Sound(spool') /\ Len(spool') = kept
             /\ \A i \in 1..synced : spool'[i] = spool[i]
  <2>1. kept \in 1..Len(part) /\ part[kept] \in Line
    BY <1>1, <1>3, <1>6
  <2> DEFINE line == [part[kept] EXCEPT !.text = text]
  <2>2. line \in Line /\ line.text = text
    BY <2>1 DEF Line, Text
  <2> HIDE DEF line
  <2>3. spool' = [part EXCEPT ![kept] = line]
    BY <1>6 DEF line
  <2>4. /\ spool' \in Seq(Line) /\ Len(spool') = kept /\ spool'[kept] = line
        /\ \A i \in 1..kept : i # kept => spool'[i] = part[i]
    BY <1>3, <2>1, <2>2, <2>3
  <2>5. \A i \in 1..kept - 1 : i \in 1..kept /\ i # kept
    BY <1>1
  <2>6. \A i \in 1..synced : i \in 1..kept /\ i # kept
    BY <1>1, <1>6
  <2>7. QED BY <1>1, <1>3, <1>4, <2>2, <2>4, <2>5, <2>6 DEF Sound, OpenAtEnd
<1>7. QED BY <1>1, <1>2, <1>5, <1>6 DEF PowerLoss, part

LEMMA MendedEffect ==
    ASSUME TypeInv, FileInv, Mended
    PROVE  /\ Sound(spool') /\ Sealed(spool') /\ Marks(spool') = Marks(spool)
           /\ Ordered(spool) => Ordered(spool')
           /\ Len(spool') \in Nat /\ (spool' # spool => synced' = Len(spool'))
<1> DEFINE new == Repaired(spool)
<1>1. Sound(spool) /\ spool \in Seq(Line) /\ OpenAtEnd(spool)
  BY SoundFile DEF TypeInv, TypeOK, Sound
<1>2. /\ Sound(new) /\ Sealed(new) /\ Marks(new) = Marks(spool) /\ new \in Seq(Line)
      /\ Ordered(spool) => Ordered(new)
  BY <1>1, RepairedEffect DEF Sound
<1>3. spool' = new
  BY DEF Mended
<1> HIDE DEF new
<1>4. Len(spool') \in Nat
  BY <1>2, <1>3
<1>5. QED BY <1>2, <1>3, <1>4 DEF Mended

LEMMA FileType ==
    ASSUME TypeInv, FileInv, [Next]_vars
    PROVE  Filed' /\ Sound(spool')
<1>1. /\ spool \in Seq(Line) /\ synced \in 0..Len(spool) /\ linked \in BOOLEAN
      /\ dropped \subseteq Update /\ Len(spool) \in Nat /\ Sound(spool)
  BY SoundFile DEF TypeInv, TypeOK
<1>2. CASE FileKept
  <2>1. spool' = spool /\ synced' \in 0..Len(spool) /\ linked' \in BOOLEAN
        /\ dropped' \subseteq Update
    <3>1. synced' = synced \/ synced' = Len(spool)
      BY <1>2 DEF FileKept
    <3>2. synced' \in 0..Len(spool)
      BY <1>1, <3>1
    <3>3. linked' \in BOOLEAN /\ spool' = spool /\ dropped' = dropped
      BY <1>1, <1>2 DEF FileKept
    <3>4. QED BY <1>1, <3>2, <3>3
  <2>2. QED BY <1>1, <2>1 DEF Filed
<1>3. CASE Mended
  <2>1. Sound(spool') /\ Len(spool') \in Nat /\ (spool' # spool => synced' = Len(spool'))
        /\ (spool' = spool => synced' = synced) /\ linked' \in BOOLEAN
        /\ dropped' = dropped
    BY <1>1, <1>3, MendedEffect DEF Mended
  <2>2. spool' \in Seq(Line)
    BY <2>1 DEF Sound
  <2>3. synced' \in 0..Len(spool')
    BY <1>1, <2>1
  <2>4. QED BY <1>1, <2>1, <2>2, <2>3 DEF Filed
<1>4. ASSUME NEW p \in Process, Grown(p) PROVE Filed' /\ Sound(spool')
  <2>1. /\ Sound(spool') /\ Len(Room(spool)) \in Nat /\ Len(spool') >= Len(Room(spool))
        /\ Len(spool') \in Nat /\ spool' \in Seq(Line)
    BY <1>4, GrownEffect DEF Sound
  <2>2. dropped' \subseteq Update
    <3>1. Stored(spool) \subseteq Update
      BY <1>1, RowsMeaning, LineType
    <3>2. QED BY <1>1, <1>4, <3>1 DEF Grown, Rotate
  <2>3. CASE Len(spool) >= SpoolRows
    <3>1. synced' = Len(Room(spool)) /\ linked' = TRUE
      BY <1>4, <2>3 DEF Grown, Rotate
    <3>2. synced' \in 0..Len(spool')
      BY <2>1, <3>1
    <3>3. QED BY <2>1, <2>2, <3>1, <3>2 DEF Filed
  <2>4. CASE ~(Len(spool) >= SpoolRows)
    <3>1. Room(spool) = spool
      BY <1>1, <2>4, RoomEffect, NumbersType
    <3>2. synced' = synced /\ linked' = linked
      BY <1>1, <1>4, <2>4 DEF Grown, Rotate
    <3>3. synced' \in 0..Len(spool')
      BY <1>1, <2>1, <3>1, <3>2
    <3>4. QED BY <1>1, <2>1, <2>2, <3>2, <3>3 DEF Filed
  <2>5. QED BY <2>1, <2>3, <2>4
<1>5. CASE PowerLoss
  <2>1. Sound(spool') /\ synced' = Len(spool') /\ Len(spool') \in Nat
    BY <1>5, LossEffect
  <2>2. linked' \in BOOLEAN /\ dropped' = dropped
    BY <1>1, <1>5 DEF PowerLoss
  <2>3. QED BY <1>1, <2>1, <2>2 DEF Filed, Sound
<1>6. QED BY <1>2, <1>3, <1>4, <1>5, FileMoves

\* The outcome is reported: the update leaves the batch, and the offset may pass it.
LEMMA SafeEffect ==
    ASSUME TypeInv, NEW p \in Process, pc[p] \notin {"down", "idle"}, Safe(p)
    PROVE  /\ todo' \in [Process -> Seq(1..arrived)] /\ pc' \in [Process -> PC]
           /\ \A q \in Process : q # p => pc'[q] = pc[q] /\ todo'[q] = todo[q]
           /\ todo'[p] = Tail(todo[p]) /\ pc'[p] \in {"idle", "check"}
           /\ pc'[p] = "check" => todo'[p] # <<>>
           /\ offset' \in 0..arrived /\ arrived \in Nat
           /\ p # Poller => offset' = offset
           /\ p = Poller => offset' = IF offset >= Head(todo[p]) THEN offset ELSE Head(todo[p])
<1>1. Head(todo[p]) \in 1..arrived /\ Tail(todo[p]) \in Seq(1..arrived)
  BY TodoType
<1>2. /\ todo \in [Process -> Seq(1..arrived)] /\ pc \in [Process -> PC]
      /\ offset \in 0..arrived /\ arrived \in Nat
  BY TypeParts, NumbersType DEF Working, Counted
<1>3. /\ todo' \in [Process -> Seq(1..arrived)] /\ todo'[p] = Tail(todo[p])
      /\ \A q \in Process : q # p => todo'[q] = todo[q]
  BY <1>1, <1>2 DEF Safe
<1>4. /\ pc' \in [Process -> PC] /\ \A q \in Process : q # p => pc'[q] = pc[q]
      /\ pc'[p] \in {"idle", "check"} /\ (pc'[p] = "check" => Tail(todo[p]) # <<>>)
  BY <1>2 DEF Safe, Goto, PC
<1> DEFINE u == Head(todo[p])
<1> HIDE DEF u
<1>5. offset' = IF p = Poller THEN Max({offset, u}) ELSE offset
  BY DEF Safe, u
<1>6. u \in 1..arrived
  BY <1>1 DEF u
<1>7. Max({offset, u}) = IF offset >= u THEN offset ELSE u
  <2>1. offset \in Int /\ u \in Int
    BY <1>2, <1>6
  <2>2. QED BY <2>1, MaxOfTwo
<1>8. /\ offset' \in 0..arrived /\ (p # Poller => offset' = offset)
      /\ p = Poller => offset' = IF offset >= u THEN offset ELSE u
  BY <1>2, <1>5, <1>6, <1>7
<1>9. QED BY <1>2, <1>3, <1>4, <1>8 DEF u

\* What a getUpdates call asks for and what it answers.
LEMMA PollEffect ==
    ASSUME TypeInv, confirmed' = Max({confirmed, offset})
    PROVE  /\ confirmed' \in 0..arrived /\ arrived \in Nat /\ confirmed \in Nat
           /\ offset \in Nat
           /\ confirmed' = IF confirmed >= offset THEN confirmed ELSE offset
           /\ Min({PollLimit, arrived - confirmed'}) \in 0..arrived - confirmed'
<1>1. arrived \in Nat /\ offset \in 0..arrived /\ confirmed \in 0..arrived
  BY TypeParts, NumbersType DEF Counted
<1>2. confirmed' = IF confirmed >= offset THEN confirmed ELSE offset
  BY <1>1, MaxOfTwo
<1>3. confirmed' \in 0..arrived
  BY <1>1, <1>2
<1>4. PICK d \in Nat : d = arrived - confirmed'
  BY <1>1, <1>3
<1>5. Min({PollLimit, d}) \in 0..d
  BY NumbersType, MinOfTwo
<1>6. Min({PollLimit, arrived - confirmed'}) \in 0..arrived - confirmed'
  BY <1>4, <1>5
<1>7. QED BY <1>1, <1>2, <1>3, <1>6

\* A process moves on its own.
LEMMA WorkStep ==
    ASSUME TypeInv, NEW p \in Process, arrived' = arrived,
           pc' \in [Process -> PC], todo' \in [Process -> Seq(1..arrived)],
           \A q \in Process : q # p => pc'[q] = pc[q] /\ todo'[q] = todo[q],
           pc'[p] \notin {"down", "idle"} => todo'[p] # <<>>,
           pc'[p] \in Holding => lock \in {p, None},
           lock' = IF pc'[p] \in Holding THEN p ELSE IF lock = p THEN None ELSE lock
    PROVE  Working'
<1>1. Working
  BY TypeParts
<1>2. lock' \in Process \cup {None}
  BY <1>1 DEF Working
<1>3. ASSUME NEW q \in Process
      PROVE  /\ pc'[q] \notin {"down", "idle"} => todo'[q] # <<>>
             /\ pc'[q] \in Holding <=> lock' = q
  <2>1. q # None
    BY NumbersType
  <2>2. QED BY <1>1, <2>1 DEF Working
<1>4. QED BY <1>2, <1>3 DEF Working

LEMMA WorkType ==
    ASSUME TypeInv, [Next]_vars
    PROVE  Working'
<1>1. /\ lock \in Process \cup {None} /\ pc \in [Process -> PC]
      /\ todo \in [Process -> Seq(1..arrived)] /\ arrived \in Nat /\ Working
  BY TypeParts, NumbersType DEF Working, Counted
<1>2. \A p \in Process : pc[p] \in Holding <=> lock = p
  BY <1>1 DEF Working
<1>3. CASE UNCHANGED vars \/ PollLost \/ \E c \in Chat : ReadTorn(c) \/ Read(c)
  <2>1. UNCHANGED <<lock, pc, todo, arrived>>
    BY <1>3 DEF vars, PollLost, ReadTorn, Read, memory
  <2>2. QED BY <1>1, <2>1 DEF Working
<1>4. CASE Arrive
  <2>1. UNCHANGED <<lock, pc, todo>> /\ arrived' = arrived + 1
    BY <1>4 DEF Arrive, memory
  <2>2. \A p \in Process : todo[p] \in Seq(1..arrived + 1)
    <3>1. 1..arrived \subseteq 1..arrived + 1
      BY <1>1
    <3>2. QED BY <1>1, <3>1, SeqMonotonic
  <2>3. todo \in [Process -> Seq(1..arrived + 1)]
    BY <1>1, <2>2
  <2>4. QED BY <1>1, <2>1, <2>3 DEF Working
<1>5. CASE Poll
  <2> DEFINE n == Min({PollLimit, arrived - confirmed'})
             answer == [i \in 1..n |-> confirmed' + i]
             label == IF n = 0 THEN "idle" ELSE "check"
  <2>1. n \in 0..arrived - confirmed' /\ confirmed' \in 0..arrived
    BY <1>5, PollEffect DEF Poll
  <2>2. /\ pc[Poller] = "idle" /\ todo' = [todo EXCEPT ![Poller] = answer]
        /\ pc' = [pc EXCEPT ![Poller] = label] /\ lock' = lock /\ arrived' = arrived
    BY <1>5 DEF Poll, Goto
  <2> HIDE DEF n
  <2>3. answer \in Seq(1..arrived) /\ (n # 0 => answer # <<>>)
    <3>1. n \in Nat /\ \A i \in 1..n : confirmed' + i \in 1..arrived
      <4>1. PICK c \in 0..arrived : c = confirmed'
        BY <2>1
      <4>2. n \in 0..arrived - c /\ arrived \in Nat
        BY <1>1, <2>1, <4>1
      <4>3. n \in Nat /\ \A i \in 1..n : c + i \in 1..arrived
        BY <4>2
      <4>4. QED BY <4>1, <4>3
    <3>2. answer \in [1..n -> 1..arrived]
      BY <3>1
    <3>3. answer \in Seq(1..arrived) /\ Len(answer) = n
      BY <3>1, <3>2
    <3>4. QED BY <3>1, <3>3
  <2> HIDE DEF answer
  <2>4. Poller \in Process /\ lock # Poller
    BY <1>2, <2>2, NumbersType DEF Holding
  <2>5. /\ pc' \in [Process -> PC] /\ todo' \in [Process -> Seq(1..arrived)]
        /\ pc'[Poller] = label /\ todo'[Poller] = answer
        /\ \A q \in Process : q # Poller => pc'[q] = pc[q] /\ todo'[q] = todo[q]
    BY <1>1, <2>2, <2>3, <2>4 DEF PC
  <2>6. label \notin Holding /\ label # "down" /\ (label # "idle" => n # 0)
    BY DEF Holding
  <2>7. QED BY <2>2, <2>3, <2>4, <2>5, <2>6, WorkStep
<1>6. CASE PowerLoss
  <2>1. /\ pc' = [p \in Process |-> "down"] /\ todo' = [p \in Process |-> <<>>]
        /\ lock' = IF lock \in Process THEN None ELSE lock
        /\ arrived' = arrived
    BY <1>6 DEF PowerLoss, Forget
  <2>2. lock' = None
    BY <1>1, <2>1
  <2>3. QED BY <2>1, <2>2, NumbersType DEF Working, PC, Holding
<1>7. ASSUME NEW p \in Process, Start(p) PROVE Working'
  <2>1. /\ pc[p] = "down" /\ pc' = [pc EXCEPT ![p] = "idle"]
        /\ UNCHANGED <<lock, todo, arrived>>
    BY <1>7 DEF Start, Goto
  <2>2. lock # p
    BY <1>2, <2>1 DEF Holding
  <2>3. pc' \in [Process -> PC] /\ pc'[p] = "idle" /\ \A q \in Process : q # p => pc'[q] = pc[q]
    BY <1>1, <2>1 DEF PC
  <2>4. QED BY <1>1, <2>1, <2>2, <2>3, WorkStep DEF Holding
<1>8. ASSUME NEW p \in Process, NEW m \in Update, Event(p, m) PROVE Working'
  <2>1. /\ pc[p] = "idle" /\ pc' = [pc EXCEPT ![p] = "check"] /\ m =< arrived
        /\ todo' = [todo EXCEPT ![p] = <<m>>] /\ UNCHANGED <<lock, arrived>>
    BY <1>8 DEF Event, Goto
  <2>2. <<m>> \in Seq(1..arrived) /\ <<m>> # <<>>
    BY <1>1, <2>1 DEF Update
  <2>3. lock # p
    BY <1>2, <2>1 DEF Holding
  <2>4. /\ pc' \in [Process -> PC] /\ todo' \in [Process -> Seq(1..arrived)]
        /\ pc'[p] = "check" /\ todo'[p] = <<m>>
        /\ \A q \in Process : q # p => pc'[q] = pc[q] /\ todo'[q] = todo[q]
    BY <1>1, <2>1, <2>2 DEF PC
  <2>5. QED BY <2>1, <2>2, <2>3, <2>4, WorkStep DEF Holding
<1>9. ASSUME NEW p \in Process, Ingest(p) PROVE Working'
  <2>1. /\ arrived' = arrived /\ pc[p] \notin {"down", "idle"} /\ todo[p] # <<>>
    BY <1>1, <1>9 DEF Working, Ingest, CheckSeen, FoundStored, Reserve, WriteRow, SyncRow,
       SyncDir
  <2>2. CASE Safe(p) /\ pc[p] \notin Holding /\ lock' = lock
    <3>1. lock # p /\ pc'[p] \notin Holding
      BY <1>2, <2>1, <2>2, SafeEffect DEF Holding
    <3>2. QED BY <2>1, <2>2, <3>1, SafeEffect, WorkStep
  <2>3. CASE SyncDir(p)
    <3>1. lock' = None /\ lock = p /\ Safe(p)
      BY <1>2, <2>3 DEF SyncDir, Holding
    <3>2. pc'[p] \notin Holding
      BY <2>1, <3>1, SafeEffect DEF Holding
    <3>3. QED BY <2>1, <3>1, <3>2, SafeEffect, WorkStep
  <2>4. ASSUME NEW label \in {"append", "write", "sync", "syncdir"},
               pc' = [pc EXCEPT ![p] = label], todo' = todo,
               label \in Holding => lock \in {p, None} /\ lock' = p,
               label \notin Holding => lock' = lock /\ lock # p
        PROVE  Working'
    <3>1. pc' \in [Process -> PC] /\ pc'[p] = label /\ \A q \in Process : q # p => pc'[q] = pc[q]
      BY <1>1, <2>4 DEF PC
    <3>2. lock' = IF label \in Holding THEN p ELSE IF lock = p THEN None ELSE lock
      BY <2>4
    <3>3. QED BY <1>1, <2>1, <2>4, <3>1, <3>2, WorkStep
  <2>5. CASE CheckSeen(p)
    <3>1. pc[p] = "check" /\ lock' = lock /\ lock # p
      BY <1>2, <2>5 DEF CheckSeen, Holding
    <3>2. Safe(p) \/ (pc' = [pc EXCEPT ![p] = "append"] /\ todo' = todo)
      BY <2>5 DEF CheckSeen, Goto
    <3>3. QED BY <2>2, <2>4, <3>1, <3>2 DEF Holding
  <2>6. CASE FoundStored(p)
    BY <2>2, <2>6 DEF FoundStored, Holding
  <2>7. CASE Reserve(p)
    BY <2>4, <2>7 DEF Reserve, Goto, Holding
  <2>8. CASE WriteRow(p)
    BY <1>2, <2>4, <2>8 DEF WriteRow, Goto, Holding, memory
  <2>9. CASE SyncRow(p)
    BY <1>2, <2>4, <2>9 DEF SyncRow, Goto, Holding, memory
  <2>10. QED BY <1>9, <2>3, <2>5, <2>6, <2>7, <2>8, <2>9 DEF Ingest
<1>10. ASSUME NEW p \in Process, StorageFailure(p) PROVE Working'
  <2>1. /\ pc' = [pc EXCEPT ![p] = "idle"] /\ todo' = [todo EXCEPT ![p] = <<>>]
        /\ lock' = (IF lock = p THEN None ELSE lock) /\ arrived' = arrived
    BY <1>10 DEF StorageFailure, Fail, Goto
  <2>2. <<>> \in Seq(1..arrived)
    BY EmptySeq
  <2>3. /\ pc' \in [Process -> PC] /\ todo' \in [Process -> Seq(1..arrived)]
        /\ pc'[p] = "idle" /\ \A q \in Process : q # p => pc'[q] = pc[q] /\ todo'[q] = todo[q]
    BY <1>1, <2>1, <2>2 DEF PC
  <2>4. QED BY <2>1, <2>3, WorkStep DEF Holding
<1>11. ASSUME NEW p \in Process, Crash(p) PROVE Working'
  <2>1. /\ pc' = [q \in Process |-> IF q \in {p} THEN "down" ELSE pc[q]]
        /\ todo' = [q \in Process |-> IF q \in {p} THEN <<>> ELSE todo[q]]
        /\ lock' = (IF lock \in {p} THEN None ELSE lock) /\ arrived' = arrived
    BY <1>11 DEF Crash, Forget
  <2>2. <<>> \in Seq(1..arrived)
    BY EmptySeq
  <2>3. /\ pc' \in [Process -> PC] /\ todo' \in [Process -> Seq(1..arrived)]
        /\ pc'[p] = "down" /\ \A q \in Process : q # p => pc'[q] = pc[q] /\ todo'[q] = todo[q]
    BY <1>1, <2>1, <2>2 DEF PC
  <2>4. QED BY <2>1, <2>3, WorkStep DEF Holding
<1>12. QED
  BY <1>3, <1>4, <1>5, <1>6, <1>7, <1>8, <1>9, <1>10, <1>11 DEF Next

\* What a process reads when it starts: ids of rows, no more than it keeps.
LEMMA StartEffect ==
    ASSUME TypeInv, NEW p \in Process, Start(p)
    PROVE  \E ids \in Seq(Update) :
             /\ seen' = [seen EXCEPT ![p] = ids] /\ Len(ids) =< SeenIds
             /\ \A i \in 1..Len(ids) : ids[i] \in Stored(spool)
<1> DEFINE tail == Newest(spool, SeenIds)
           rows == {i \in DOMAIN tail : Decodable(spool) /\ Readable(tail[i])}
           n == Cardinality(rows)
<1>1. spool \in Seq(Line) /\ SeenIds \in Nat
  BY NumbersType DEF TypeInv, TypeOK
<1>2. /\ tail \in Seq(Line) /\ Len(tail) =< SeenIds
      /\ \A i \in 1..Len(tail) : \E j \in 1..Len(spool) : tail[i] = spool[j]
  BY <1>1, NewestEffect
<1>3. PICK place \in [1..n -> rows] :
        seen' = [seen EXCEPT ![p] = [i \in 1..n |-> tail[place[i]].msg]]
  BY DEF Start
<1> HIDE DEF tail
<1>4. /\ rows \subseteq 1..Len(tail) /\ \A i \in rows : Readable(tail[i])
      /\ Len(tail) \in Nat
  BY <1>2
<1>5. n \in Nat /\ n =< Len(tail)
  <2>1. IsFiniteSet(1..Len(tail)) /\ Cardinality(1..Len(tail)) = Len(tail)
    <3>1. PICK l \in Nat : l = Len(tail)
      BY <1>4
    <3>2. IsFiniteSet(1..l) /\ Cardinality(1..l) = l
      BY FS_Interval
    <3>3. QED BY <3>1, <3>2
  <2>2. QED BY <1>4, <2>1, FS_Subset, FS_CardinalityType
<1> HIDE DEF n, rows
<1> DEFINE ids == [i \in 1..n |-> tail[place[i]].msg]
<1>6. \A i \in 1..n : tail[place[i]].msg \in Update /\ tail[place[i]].msg \in Stored(spool)
  <2>1. SUFFICES ASSUME NEW i \in 1..n
                 PROVE  tail[place[i]].msg \in Update /\ tail[place[i]].msg \in Stored(spool)
    OBVIOUS
  <2>2. place[i] \in 1..Len(tail) /\ Readable(tail[place[i]])
    BY <1>3, <1>4
  <2>3. PICK j \in 1..Len(spool) : tail[place[i]] = spool[j]
    BY <1>2, <2>2
  <2>4. QED BY <1>1, <2>2, <2>3, RowsMeaning, LineType
<1>7. ids \in Seq(Update) /\ Len(ids) = n
  <2>1. ids \in [1..n -> Update]
    BY <1>6
  <2>2. QED BY <1>5, <2>1
<1>8. \A i \in 1..n : ids[i] \in Stored(spool)
  BY <1>6
<1>9. seen' = [seen EXCEPT ![p] = ids]
  BY <1>3
<1> HIDE DEF ids
<1>10. Len(ids) =< SeenIds
  BY <1>1, <1>2, <1>4, <1>5, <1>7
<1>11. QED BY <1>7, <1>8, <1>9, <1>10

\* What a process remembers: the update it was at, and what it knew.
LEMMA RememberEffect ==
    ASSUME TypeInv, NEW p \in Process, pc[p] \notin {"down", "idle"}, Remember(p)
    PROVE  \E ids \in Seq(Update) :
             /\ seen' = [seen EXCEPT ![p] = ids] /\ Len(ids) =< SeenIds
             /\ \A i \in 1..Len(ids) :
                  \/ ids[i] = Head(todo[p])
                  \/ \E j \in 1..Len(seen[p]) : ids[i] = seen[p][j]
<1> DEFINE u == Head(todo[p])
           old == seen[p]
<1>1. u \in Update /\ old \in Seq(Update) /\ SeenIds \in Nat
  BY TodoType, NumbersType DEF TypeInv, TypeOK
<1>2. seen' = [seen EXCEPT ![p] = Newest(Append(seen[p], u), SeenIds)]
  BY DEF Remember
<1> HIDE DEF u, old
<1> DEFINE more == Append(old, u)
           ids == Newest(more, SeenIds)
<1>3. /\ more \in Seq(Update) /\ Len(more) = Len(old) + 1 /\ Len(old) \in Nat
      /\ \A i \in 1..Len(old) : more[i] = old[i]
      /\ more[Len(old) + 1] = u
  BY <1>1, AppendProperties
<1> HIDE DEF more
<1>4. /\ ids \in Seq(Update) /\ Len(ids) = IF Len(more) =< SeenIds THEN Len(more) ELSE SeenIds
      /\ \A i \in 1..Len(ids) : \E j \in 1..Len(more) : ids[i] = more[j]
  <2>1. /\ ids \in Seq(Update)
        /\ Len(ids) = IF Len(more) =< SeenIds THEN Len(more) ELSE SeenIds
        /\ \A i \in 1..Len(ids) : /\ ids[i] = more[i + (Len(more) - Len(ids))]
                                  /\ i + (Len(more) - Len(ids)) \in 1..Len(more)
    BY <1>1, <1>3, NewestEffect
  <2> HIDE DEF ids
  <2>2. QED BY <2>1
<1>5. seen' = [seen EXCEPT ![p] = ids]
  BY <1>2 DEF more, old
<1> HIDE DEF ids
<1>6. Len(ids) =< SeenIds
  BY <1>1, <1>3, <1>4
<1>7. \A j \in 1..Len(more) : more[j] = u \/ \E k \in 1..Len(old) : more[j] = old[k]
  <2>1. \A j \in 1..Len(old) + 1 : j \in 1..Len(old) \/ j = Len(old) + 1
    BY <1>3
  <2>2. QED BY <1>3, <2>1
<1>8. \A i \in 1..Len(ids) : ids[i] = u \/ \E k \in 1..Len(old) : ids[i] = old[k]
  BY SMTT(30), <1>4, <1>7
<1>9. QED BY <1>4, <1>5, <1>6, <1>8 DEF u, old

LEMMA SeenType ==
    ASSUME TypeInv, [Next]_vars
    PROVE  Informed'
<1>1. Informed
  BY TypeParts
<1>2. ASSUME NEW p \in Process, NEW ids \in Seq(Update), Len(ids) =< SeenIds,
             seen' = [seen EXCEPT ![p] = ids]
      PROVE  Informed'
  BY <1>1, <1>2 DEF Informed
<1>3. CASE seen' = seen
  BY <1>1, <1>3 DEF Informed
<1>4. ASSUME NEW P, Forget(P) PROVE Informed'
  <2>1. <<>> \in Seq(Update) /\ Len(<<>>) = 0
    BY EmptySeq
  <2>2. seen' = [p \in Process |-> IF p \in P THEN <<>> ELSE seen[p]]
    BY <1>4 DEF Forget
  <2>3. QED BY <1>1, <2>1, <2>2, NumbersType DEF Informed
<1>5. CASE UNCHANGED vars \/ Arrive \/ Poll \/ PollLost \/ \E c \in Chat : ReadTorn(c) \/ Read(c)
  BY <1>3, <1>5 DEF vars, Arrive, Poll, PollLost, ReadTorn, Read, memory
<1>6. CASE PowerLoss
  BY <1>4, <1>6 DEF PowerLoss
<1>7. ASSUME NEW p \in Process, Start(p) \/ Ingest(p) \/ StorageFailure(p) \/ Crash(p)
                                  \/ \E m \in Update : Event(p, m)
      PROVE  Informed'
  <2>1. CASE Start(p)
    BY <1>2, <2>1, StartEffect
  <2>2. CASE CheckSeen(p) \/ Reserve(p) \/ WriteRow(p) \/ SyncRow(p) \/ StorageFailure(p)
             \/ \E m \in Update : Event(p, m)
    BY <1>3, <2>2 DEF CheckSeen, Reserve, WriteRow, SyncRow, StorageFailure, Event, memory
  <2>3. CASE FoundStored(p) \/ SyncDir(p)
    <3>1. Remember(p) /\ pc[p] \notin {"down", "idle"}
      BY <2>3 DEF FoundStored, SyncDir
    <3>2. QED BY <1>2, <3>1, RememberEffect
  <2>4. CASE Crash(p)
    BY <1>4, <2>4 DEF Crash
  <2>5. QED BY <1>7, <2>1, <2>2, <2>3, <2>4 DEF Ingest
<1>8. QED BY <1>5, <1>6, <1>7 DEF Next

\* What a reader is given: the first rows of those it sees.
LEMMA BatchEffect ==
    ASSUME spool \in Seq(Line), NEW places \in SUBSET (1..Len(spool)), Batch(places) # {}
    PROVE  /\ Batch(places) \subseteq places
           /\ \A i \in places \ Batch(places) : \A j \in Batch(places) : j < i
           /\ LET numbers == {spool[i].seq : i \in Batch(places)}
              IN  /\ Max(numbers) \in numbers /\ Max(numbers) \in Nat
                  /\ \A n \in numbers : n \in Nat /\ n =< Max(numbers)
<1> DEFINE U == places
           upTo(i) == {j \in U : j =< i}
           B == Batch(places)
           numbers == {spool[i].seq : i \in B}
<1>1. Len(spool) \in Nat /\ U \subseteq 1..Len(spool) /\ B # {}
  OBVIOUS
<1>2. B = {i \in U : Cardinality(upTo(i)) =< ReadLimit}
  BY DEF Batch
<1> HIDE DEF U, B
<1>3. IsFiniteSet(U)
  <2>1. IsFiniteSet(1..Len(spool))
    BY <1>1, FS_Interval
  <2>2. QED BY <1>1, <2>1, FS_Subset
<1>4. \A i \in U : IsFiniteSet(upTo(i)) /\ Cardinality(upTo(i)) \in Nat
  <2>1. \A i \in U : upTo(i) \subseteq U
    OBVIOUS
  <2> HIDE DEF upTo
  <2>2. QED BY <1>3, <2>1, FS_Subset, FS_CardinalityType
<1>5. \A i \in U, j \in U : i =< j => upTo(i) \subseteq upTo(j)
  <2>1. \A i \in Nat, j \in Nat, k \in Nat : k =< i /\ i =< j => k =< j
    OBVIOUS
  <2>2. \A k \in U : k \in Nat
    BY <1>1
  <2>3. SUFFICES ASSUME NEW i \in U, NEW j \in U, i =< j, NEW k \in U, k =< i PROVE k =< j
    OBVIOUS
  <2>4. QED BY <2>1, <2>2, <2>3
<1>6. \A i \in U \ B : \A j \in B : j < i
  <2>1. SUFFICES ASSUME NEW i \in U \ B, NEW j \in B, i =< j PROVE FALSE
    BY <1>1, <1>2
  <2>2. upTo(i) \subseteq upTo(j) /\ Cardinality(upTo(j)) =< ReadLimit /\ i \in U /\ j \in U
    BY <1>2, <1>5, <2>1
  <2> HIDE DEF upTo
  <2>3. Cardinality(upTo(i)) =< Cardinality(upTo(j))
    BY <1>4, <2>2, FS_Subset
  <2>4. Cardinality(upTo(i)) \in Nat /\ Cardinality(upTo(j)) \in Nat
    BY <1>4, <2>2
  <2>5. Cardinality(upTo(i)) =< ReadLimit
    BY <2>2, <2>3, <2>4, NumbersType
  <2>6. QED BY <1>2, <2>1, <2>5
<1>8. IsFiniteSet(numbers)
  <2> DEFINE f == [i \in B |-> spool[i].seq]
  <2>1. IsFiniteSet(B)
    BY <1>2, <1>3, FS_Subset
  <2>2. f \in Surjection(B, {f[i] : i \in B})
    BY DEF Surjection
  <2>3. {f[i] : i \in B} = numbers
    OBVIOUS
  <2> HIDE DEF f
  <2>4. QED BY <2>1, <2>2, <2>3, FS_Surjection
<1>9. \A i \in B : spool[i].seq \in Nat
  BY <1>1, <1>2, LineType
<1>10. numbers \in SUBSET Nat /\ numbers # {}
  BY <1>1, <1>9
<1> HIDE DEF numbers
<1>11. /\ Max(numbers) \in numbers /\ Max(numbers) \in Nat
       /\ \A n \in numbers : n \in Nat /\ n =< Max(numbers)
  BY <1>8, <1>10, MaxOfNumbers
<1>12. QED BY <1>1, <1>2, <1>6, <1>11 DEF numbers, U, B

\* The number of the next row.
LEMMA NumberType ==
    ASSUME TypeInv
    PROVE  LastSeq \in Nat /\ Highest(spool) \in Nat
<1>1. spool \in Seq(Line) /\ seqno \in Nat
  BY DEF TypeInv, TypeOK
<1>2. QED BY <1>1, HighestMeaning DEF LastSeq

LEMMA CountType ==
    ASSUME TypeInv, [Next]_vars
    PROVE  Counted'
<1>1. Counted /\ Updates \in Nat
  BY TypeParts, NumbersType
<1>2. /\ seqno \in Nat /\ seqSynced \in Nat /\ reserved \in [Process -> Nat]
      /\ arrived \in 0..Updates /\ arrived \in Nat
      /\ offset \in 0..arrived /\ confirmed \in 0..arrived
  BY <1>1 DEF Counted
<1>3. CASE UNCHANGED vars \/ \E c \in Chat : ReadTorn(c) \/ Read(c)
  <2>1. UNCHANGED <<seqno, seqSynced, reserved, arrived, offset, confirmed>>
    BY <1>3 DEF vars, ReadTorn, Read, memory, sidecar
  <2>2. QED BY <1>1, <2>1 DEF Counted
<1>4. CASE Arrive
  <2>1. UNCHANGED <<seqno, seqSynced, reserved, offset, confirmed>>
        /\ arrived < Updates /\ arrived' = arrived + 1
    BY <1>4 DEF Arrive, memory, sidecar
  <2>2. arrived' \in 0..Updates /\ offset \in 0..arrived' /\ confirmed \in 0..arrived'
    BY <1>1, <1>2, <2>1
  <2>3. QED BY <1>2, <2>1, <2>2 DEF Counted
<1>5. CASE Poll \/ PollLost
  <2>1. UNCHANGED <<seqno, seqSynced, reserved, arrived, offset>>
        /\ confirmed' = Max({confirmed, offset})
    BY <1>5 DEF Poll, PollLost, memory, sidecar
  <2>2. confirmed' \in 0..arrived
    BY <2>1, PollEffect
  <2>3. QED BY <1>2, <2>1, <2>2 DEF Counted
<1>6. CASE PowerLoss
  <2>1. /\ seqno' \in {seqSynced, seqno} /\ seqSynced' = seqno' /\ UNCHANGED <<arrived, confirmed>>
        /\ reserved' = [p \in Process |-> 0] /\ offset' = 0
    BY <1>6, NumbersType DEF PowerLoss, Forget
  <2>2. QED BY <1>2, <2>1 DEF Counted
<1>7. ASSUME NEW p \in Process,
             Start(p) \/ (\E m \in Update : Event(p, m)) \/ SyncRow(p)
      PROVE  Counted'
  <2>1. UNCHANGED <<seqno, seqSynced, reserved, arrived, offset, confirmed>>
    BY <1>7 DEF Start, Event, SyncRow, memory, sidecar
  <2>2. QED BY <1>1, <2>1 DEF Counted
<1>8. ASSUME NEW p \in Process, CheckSeen(p) \/ FoundStored(p) \/ SyncDir(p)
      PROVE  Counted'
  <2>1. /\ UNCHANGED <<seqno, reserved, arrived, confirmed>> /\ seqSynced' \in {seqSynced, seqno}
        /\ offset' = offset \/ Safe(p)
        /\ pc[p] \notin {"down", "idle"}
    BY <1>8 DEF CheckSeen, FoundStored, SyncDir, SyncDirectory, sidecar
  <2>2. offset' \in 0..arrived
    BY <1>2, <2>1, SafeEffect
  <2>3. QED BY <1>2, <2>1, <2>2 DEF Counted
<1>9. ASSUME NEW p \in Process, Reserve(p) PROVE Counted'
  <2>1. /\ seqno' \in {LastSeq + 1, Highest(spool) + 1}
        /\ reserved' = [reserved EXCEPT ![p] = seqno']
        /\ UNCHANGED <<seqSynced, arrived, confirmed, offset>>
    BY <1>9 DEF Reserve
  <2>2. seqno' \in Nat
    BY <2>1, NumberType
  <2>3. QED BY <1>2, <2>1, <2>2 DEF Counted
<1>10. ASSUME NEW p \in Process, WriteRow(p) \/ StorageFailure(p)
       PROVE  Counted'
  <2>1. /\ UNCHANGED <<seqno, reserved, arrived, confirmed, offset>>
        /\ seqSynced' \in {seqSynced, seqno}
    BY <1>10 DEF WriteRow, StorageFailure, Fail, Rotate, memory, sidecar
  <2>2. QED BY <1>2, <2>1 DEF Counted
<1>11. ASSUME NEW p \in Process, Crash(p) PROVE Counted'
  <2>1. /\ UNCHANGED <<seqno, arrived, confirmed>> /\ seqSynced' \in {seqSynced, seqno}
        /\ offset' \in {0, offset}
        /\ reserved' = [q \in Process |-> IF q \in {p} THEN 0 ELSE reserved[q]]
    BY <1>11 DEF Crash, Forget, Rotate, sidecar
  <2>2. QED BY <1>2, <2>1 DEF Counted
<1>12. QED
  BY <1>3, <1>4, <1>5, <1>6, <1>7, <1>8, <1>9, <1>10, <1>11 DEF Next, Ingest

LEMMA NoteType ==
    ASSUME TypeInv, [Next]_vars
    PROVE  Noted'
<1>1. Noted /\ spool \in Seq(Line)
  BY TypeParts DEF Filed
<1>2. ASSUME NEW kind \in {"event", "failure", "loss"}, NEW bound, Spend(kind, bound)
      PROVE  spent' \in [{"event", "failure", "loss"} -> Nat]
  <2>1. spent[kind] + 1 \in Nat
    BY <1>1 DEF Noted
  <2>2. spent' = [spent EXCEPT ![kind] = spent[kind] + 1]
    BY <1>2 DEF Spend
  <2>3. QED BY <1>1, <2>1, <2>2 DEF Noted
<1>3. ASSUME UNCHANGED <<cursor, read, skipped>>, written' = written,
             torn' \in {torn, NoneTorn},
             spent' \in [{"event", "failure", "loss"} -> Nat]
      PROVE  Noted'
  <2>1. NoneTorn \in [Chat -> Nat]
    BY DEF NoneTorn
  <2>2. QED BY <1>1, <1>3, <2>1 DEF Noted
<1>4. CASE UNCHANGED vars \/ Arrive \/ Poll \/ PollLost
  BY <1>1, <1>3, <1>4 DEF vars, Arrive, Poll, PollLost, reader, file, Noted
<1>5. CASE PowerLoss
  BY <1>2, <1>3, <1>5 DEF PowerLoss, reader
<1>6. ASSUME NEW p \in Process,
             Start(p) \/ CheckSeen(p) \/ FoundStored(p) \/ WriteRow(p) \/ SyncRow(p)
      PROVE  Noted'
  BY <1>1, <1>3, <1>6
     DEF Start, CheckSeen, FoundStored, WriteRow, SyncRow, Rotate, reader, file, Noted
<1>7. ASSUME NEW p \in Process, NEW m \in Update, Event(p, m) PROVE Noted'
  BY <1>2, <1>3, <1>7 DEF Event, reader, file
<1>8. ASSUME NEW p \in Process, Reserve(p) PROVE Noted'
  <2>1. UNCHANGED <<cursor, read, skipped, written, torn>>
    BY <1>8 DEF Reserve, reader
  <2>2. spent' = spent \/ Spend("failure", MaxFailures)
    BY <1>8 DEF Reserve
  <2>3. QED BY <1>1, <1>2, <1>3, <2>1, <2>2 DEF Noted
<1>9. ASSUME NEW p \in Process, StorageFailure(p) \/ Crash(p) PROVE Noted'
  BY <1>2, <1>3, <1>9 DEF StorageFailure, Crash, Rotate, reader, file
<1>10. ASSUME NEW p \in Process, SyncDir(p) PROVE Noted'
  <2>1. UNCHANGED <<cursor, read, skipped, torn, spent>> /\ pc[p] = "syncdir"
        /\ written' = written \cup {Head(todo[p])}
    BY <1>10 DEF SyncDir, reader
  <2>2. Head(todo[p]) \in Update
    BY <2>1, TodoType
  <2>3. QED BY <1>1, <2>1, <2>2 DEF Noted
<1>11. ASSUME NEW c \in Chat, ReadTorn(c) PROVE Noted'
  <2>1. UNCHANGED <<cursor, read, skipped, written, spent>>
        /\ torn' = [torn EXCEPT ![c] = Len(spool)]
    BY <1>11 DEF ReadTorn, reader
  <2>2. Len(spool) \in Nat
    BY <1>1
  <2>3. QED BY <1>1, <2>1, <2>2 DEF Noted
<1>12. ASSUME NEW c \in Chat, Read(c) PROVE Noted'
  <2>1. PICK unseen \in Unseen(c) :
          /\ UNCHANGED <<written, spent>> /\ Batch(Unread(c) \ unseen) # {}
          /\ cursor' = [cursor EXCEPT ![c] =
                          Max({spool[i].seq : i \in Batch(Unread(c) \ unseen)})]
          /\ read' = read \cup RowsAt(Batch(Unread(c) \ unseen))
          /\ skipped' = skipped \cup RowsAt({i \in Unread(c) \cap unseen :
                                               spool[i].seq =< cursor'[c]})
          /\ torn' = [torn EXCEPT ![c] = 0]
    BY <1>12 DEF Read
  <2> DEFINE batch == Batch(Unread(c) \ unseen)
             behind == {i \in Unread(c) \cap unseen : spool[i].seq =< cursor'[c]}
             numbers == {spool[i].seq : i \in batch}
  <2>2. Unread(c) \subseteq 1..Len(spool)
    BY <1>1 DEF Unread
  <2>3. batch \subseteq 1..Len(spool) /\ Max(numbers) \in Nat
    BY <1>1, <2>1, <2>2, BatchEffect
  <2>4. behind \subseteq 1..Len(spool)
    BY <2>2
  <2>5. ASSUME NEW places \in SUBSET (1..Len(spool)) PROVE RowsAt(places) \subseteq Update \X Nat
    <3>1. \A i \in places : spool[i].msg \in Update /\ spool[i].seq \in Nat
      BY <1>1, LineType
    <3>2. QED BY <3>1 DEF RowsAt
  <2>6. /\ cursor' = [cursor EXCEPT ![c] = Max(numbers)] /\ read' = read \cup RowsAt(batch)
        /\ skipped' = skipped \cup RowsAt(behind)
    BY <2>1
  <2> HIDE DEF numbers, batch, behind
  <2>7. cursor' \in [Chat -> Nat] /\ torn' \in [Chat -> Nat]
    BY <1>1, <2>1, <2>3, <2>6 DEF Noted
  <2>8. read' \subseteq Update \X Nat /\ skipped' \subseteq Update \X Nat
    BY <1>1, <2>3, <2>4, <2>5, <2>6 DEF Noted
  <2>9. QED BY <1>1, <2>1, <2>7, <2>8 DEF Noted
<1>13. QED
  BY <1>4, <1>5, <1>6, <1>7, <1>8, <1>9, <1>10, <1>11, <1>12 DEF Next, Ingest

-------------------------------------------------------------------------------
(* The file: what an append finds and what it leaves.                      *)

LEMMA SameStored ==
    ASSUME NEW a \in Seq(Line), NEW b \in Seq(Line), Marks(a) \subseteq Marks(b)
    PROVE  Stored(a) \subseteq Stored(b)
BY MarksDecide

\* Who holds the lock is alone inside the append.
LEMMA HolderAlone ==
    ASSUME TypeInv, NEW p \in Process, lock \in {p, None}, NEW q \in Process, q # p
    PROVE  pc[q] \notin Holding
BY NumbersType DEF TypeInv, TypeOK

LEMMA AppendsStay ==
    ASSUME TypeInv, FileInv, [Next]_vars
    PROVE  AppendsInStep'
<1>1. /\ pc \in [Process -> PC] /\ todo \in [Process -> Seq(1..arrived)]
      /\ spool \in Seq(Line) /\ AppendsInStep
      /\ \A p \in Process : pc[p] \in Holding <=> lock = p
  BY TypeParts DEF Working, Filed, FileInv
<1>2. ASSUME spool' = spool, synced' = synced,
             \A q \in Process : pc'[q] \in Holding => pc'[q] = pc[q] /\ todo'[q] = todo[q]
      PROVE  AppendsInStep'
  BY <1>1, <1>2 DEF AppendsInStep, Holding
<1>3. ASSUME NEW p \in Process, \A q \in Process : q # p => pc'[q] \notin Holding,
             pc'[p] = "write" => Sealed(spool') /\ Head(todo'[p]) \notin Stored(spool'),
             pc'[p] \in {"sync", "syncdir"} => Head(todo'[p]) \in Stored(spool'),
             pc'[p] = "syncdir" => synced' = Len(spool')
      PROVE  AppendsInStep'
  BY <1>3 DEF AppendsInStep, Holding
<1>4. ASSUME NEW p \in Process, pc[p] \notin {"down", "idle"}, Safe(p)
      PROVE  pc'[p] \notin Holding /\ \A q \in Process : q # p => pc'[q] = pc[q]
  BY <1>4, SafeEffect DEF Holding
<1>5. CASE UNCHANGED vars \/ Arrive \/ PollLost \/ \E c \in Chat : ReadTorn(c) \/ Read(c)
  <2>1. UNCHANGED <<spool, synced, pc, todo>>
    BY <1>5 DEF vars, Arrive, PollLost, ReadTorn, Read, file, memory
  <2>2. QED BY <1>2, <2>1
<1>6. CASE Poll
  <2>1. /\ spool' = spool /\ synced' = synced /\ pc'[Poller] \in {"idle", "check"}
        /\ \A q \in Process : q # Poller => pc'[q] = pc[q] /\ todo'[q] = todo[q]
    BY <1>1, <1>6, NumbersType DEF Poll, Goto, file
  <2>2. QED BY <1>2, <2>1 DEF Holding
<1>7. CASE PowerLoss
  BY <1>7 DEF PowerLoss, Forget, AppendsInStep
<1>8. ASSUME NEW p \in Process, Start(p) \/ CheckSeen(p) \/ \E m \in Update : Event(p, m)
      PROVE  AppendsInStep'
  <2>1. spool' = spool /\ synced' = synced
    BY <1>8 DEF Start, CheckSeen, Event, file
  <2>2. /\ pc'[p] \notin Holding
        /\ \A q \in Process : q # p => pc'[q] = pc[q] /\ todo'[q] = todo[q]
    <3>1. CASE Start(p) \/ \E m \in Update : Event(p, m)
      BY <1>1, <3>1 DEF Start, Event, Goto, Holding
    <3>2. CASE CheckSeen(p)
      <4>1. pc[p] \notin {"down", "idle"}
        BY <3>2 DEF CheckSeen
      <4>2. CASE Safe(p)
        BY <4>1, <4>2, SafeEffect DEF Holding
      <4>3. CASE Goto(p, "append") /\ UNCHANGED todo
        BY <1>1, <4>3 DEF Goto, Holding
      <4>4. QED BY <3>2, <4>2, <4>3 DEF CheckSeen
    <3>3. QED BY <1>8, <3>1, <3>2
  <2>3. QED BY <1>2, <2>1, <2>2
<1>9. ASSUME NEW p \in Process, FoundStored(p) PROVE AppendsInStep'
  <2>1. lock = None /\ Safe(p) /\ pc[p] = "append"
    BY <1>9 DEF FoundStored
  <2>2. QED BY <1>3, <1>4, <2>1, HolderAlone DEF Holding
<1>10. ASSUME NEW p \in Process, Reserve(p) PROVE AppendsInStep'
  <2>1. /\ lock = None /\ Mended /\ pc' = [pc EXCEPT ![p] = "write"] /\ todo' = todo
        /\ Head(todo[p]) \notin Stored(spool)
    BY <1>10 DEF Reserve, Repair, Mended, Goto
  <2>2. Sealed(spool') /\ Stored(spool') = Stored(spool)
    <3>1. Sealed(spool') /\ spool' \in Seq(Line) /\ Marks(spool') = Marks(spool)
      BY <2>1, MendedEffect DEF Sound
    <3>2. QED BY ZenonT(60), <1>1, <3>1, SameStored
  <2>3. pc'[p] = "write" /\ \A q \in Process : q # p => pc'[q] = pc[q]
    BY <1>1, <2>1
  <2>4. QED BY <1>3, <2>1, <2>2, <2>3, HolderAlone
<1>11. ASSUME NEW p \in Process, WriteRow(p) PROVE AppendsInStep'
  <2>1. /\ pc[p] = "write" /\ lock = p /\ pc' = [pc EXCEPT ![p] = "sync"] /\ todo' = todo
        /\ spool' = Extended(Room(spool), RowOf(p, "whole"))
    BY <1>1, <1>11 DEF WriteRow, Goto, memory, Holding
  <2> DEFINE room == Room(spool)
             line == RowOf(p, "whole")
  <2>2. Sealed(room) /\ room \in Seq(Line)
    BY <1>1, <2>1, RoomEffect DEF AppendsInStep
  <2>3. /\ line \in Line /\ Readable(line) /\ Mark(line) = <<Head(todo[p]), reserved[p]>>
    BY <2>1, RowType
  <2> HIDE DEF room, line
  <2>4. spool' \in Seq(Line) /\ Mark(line) \in Marks(spool')
    <3>1. /\ Extended(room, line) = Append(room, line) /\ Append(room, line) \in Seq(Line)
          /\ Mark(line) \in Marks(Append(room, line))
      BY <2>2, <2>3, AppendEffect
    <3>2. spool' = Extended(room, line)
      BY <2>1 DEF room, line
    <3>3. QED BY <3>1, <3>2
  <2>5. Head(todo[p]) \in Stored(spool')
    BY <2>3, <2>4, MarksDecide
  <2>6. pc'[p] = "sync" /\ \A q \in Process : q # p => pc'[q] = pc[q]
    BY <1>1, <2>1
  <2>7. QED BY <1>3, <2>1, <2>5, <2>6, HolderAlone
<1>12. ASSUME NEW p \in Process, SyncRow(p) PROVE AppendsInStep'
  <2>1. /\ pc[p] = "sync" /\ lock = p /\ pc' = [pc EXCEPT ![p] = "syncdir"] /\ todo' = todo
        /\ spool' = spool /\ synced' = Len(spool)
    BY <1>1, <1>12 DEF SyncRow, Goto, memory, Holding
  <2>2. Head(todo[p]) \in Stored(spool)
    BY <1>1, <2>1 DEF AppendsInStep
  <2>3. pc'[p] = "syncdir" /\ \A q \in Process : q # p => pc'[q] = pc[q]
    BY <1>1, <2>1
  <2>4. QED BY <1>3, <2>1, <2>2, <2>3, HolderAlone
<1>13. ASSUME NEW p \in Process, SyncDir(p) PROVE AppendsInStep'
  <2>1. lock = p /\ Safe(p) /\ pc[p] = "syncdir"
    BY <1>1, <1>13 DEF SyncDir, Holding
  <2>2. QED BY <1>3, <1>4, <2>1, HolderAlone DEF Holding
<1>14. ASSUME NEW p \in Process, StorageFailure(p) \/ Crash(p) PROVE AppendsInStep'
  <2>1. /\ pc'[p] \notin Holding
        /\ \A q \in Process : q # p => pc'[q] = pc[q] /\ todo'[q] = todo[q]
    BY <1>1, <1>14 DEF StorageFailure, Fail, Goto, Crash, Forget, Holding
  <2>2. (spool' = spool /\ synced' = synced) \/ pc[p] = "write"
    BY <1>14 DEF StorageFailure, Crash, file
  <2>3. CASE spool' = spool /\ synced' = synced
    BY <1>2, <2>1, <2>3
  <2>4. CASE pc[p] = "write"
    BY <1>1, <1>3, <2>1, <2>4, HolderAlone DEF Holding
  <2>5. QED BY <2>2, <2>3, <2>4
<1>15. QED
  BY <1>5, <1>6, <1>7, <1>8, <1>9, <1>10, <1>11, <1>12, <1>13, <1>14 DEF Next, Ingest

LEMMA InitFile == Init => FileInv
<1> SUFFICES ASSUME Init PROVE FileInv
  OBVIOUS
<1>1. spool = <<>> /\ Len(spool) = 0 /\ spool \in Seq(Line)
  BY EmptySeq DEF Init
<1>2. NothingGarbled /\ OpenAtEnd(spool)
  BY <1>1, Ungarbled DEF OpenAtEnd
<1>3. AppendsInStep
  BY DEF Init, AppendsInStep
<1>4. QED BY <1>2, <1>3 DEF FileInv

LEMMA StepType ==
    ASSUME TypeInv, FileInv, [Next]_vars
    PROVE  TypeInv' /\ FileInv'
<1>1. Filed' /\ Working' /\ Informed' /\ Counted' /\ Noted' /\ Sound(spool')
  BY FileType, WorkType, SeenType, CountType, NoteType
<1>2. TypeInv'
  <2>1. TypeInv <=> Filed /\ Working /\ Informed /\ Counted /\ Noted
    BY TypeParts
  <2>2. QED BY <1>1, <2>1, TypeParts, PTL
<1>3. AppendsInStep'
  BY AppendsStay
<1>4. (NothingGarbled /\ OpenAtEnd(spool))'
  BY <1>1 DEF Sound, NothingGarbled, ToSet
<1>5. QED BY <1>2, <1>3, <1>4 DEF FileInv

\* Every variable keeps its type: whoever writes holds the lock, and no cache outgrows its bound.
THEOREM TypeCorrect == Spec => []TypeOK
<1>1. Init => TypeInv /\ FileInv
  BY InitType, InitFile
<1>2. TypeInv /\ FileInv /\ [Next]_vars => TypeInv' /\ FileInv'
  BY StepType
<1>3. TypeInv => TypeOK
  BY DEF TypeInv
<1>4. QED BY <1>1, <1>2, <1>3, PTL DEF Spec

\* However an append failed or was cut off, no row is written behind the rest of another one.
THEOREM NothingGarbledEver == Spec => []NothingGarbled
<1>1. Init => TypeInv /\ FileInv
  BY InitType, InitFile
<1>2. TypeInv /\ FileInv /\ [Next]_vars => TypeInv' /\ FileInv'
  BY StepType
<1>3. FileInv => NothingGarbled
  BY DEF FileInv
<1>4. QED BY <1>1, <1>2, <1>3, PTL DEF Spec

-------------------------------------------------------------------------------
(* What was reported as written is on the disk.                            *)

LEMMA Prefix ==
    ASSUME NEW lines \in Seq(Line), NEW n \in 0..Len(lines)
    PROVE  /\ SubSeq(lines, 1, n) \in Seq(Line) /\ Len(SubSeq(lines, 1, n)) = n
           /\ \A i \in 1..n : SubSeq(lines, 1, n)[i] = lines[i] /\ i \in 1..Len(lines)
           /\ Stored(SubSeq(lines, 1, n)) \subseteq Stored(lines)
           /\ n = Len(lines) => Stored(SubSeq(lines, 1, n)) = Stored(lines)
<1> DEFINE part == SubSeq(lines, 1, n)
<1>1. Len(lines) \in Nat /\ n \in Nat /\ \A i \in 1..n : lines[i] \in Line /\ i \in 1..Len(lines)
  OBVIOUS
<1>2. /\ part \in Seq(Line) /\ Len(part) = IF 1 =< n THEN n - 1 + 1 ELSE 0
      /\ \A i \in 1..n - 1 + 1 : part[i] = lines[1 + i - 1]
  BY <1>1, SubSeqProperties
<1> HIDE DEF part
<1>3. Len(part) = n /\ \A i \in 1..n : part[i] = lines[i]
  BY <1>1, <1>2
<1>4. \A u \in Stored(part) : u \in Stored(lines)
  BY <1>1, <1>2, <1>3, RowsMeaning
<1>5. n = Len(lines) => \A u \in Stored(lines) : u \in Stored(part)
  BY <1>1, <1>2, <1>3, RowsMeaning
<1>6. QED BY <1>1, <1>2, <1>3, <1>4, <1>5 DEF part

LEMMA PrefixStored ==
    ASSUME NEW a \in Seq(Line), NEW b \in Seq(Line), NEW m \in 0..Len(a), NEW n \in 0..Len(b),
           m =< n, \A i \in 1..m : b[i] = a[i]
    PROVE  Stored(SubSeq(a, 1, m)) \subseteq Stored(SubSeq(b, 1, n))
<1> DEFINE x == SubSeq(a, 1, m)
           y == SubSeq(b, 1, n)
<1>1. /\ x \in Seq(Line) /\ Len(x) = m /\ \A i \in 1..m : x[i] = a[i]
      /\ y \in Seq(Line) /\ Len(y) = n /\ \A i \in 1..n : y[i] = b[i]
  BY Prefix
<1>2. \A i \in 1..m : i \in 1..n
  OBVIOUS
<1> HIDE DEF x, y
<1>3. \A u \in Stored(x) : u \in Stored(y)
  BY <1>1, <1>2, RowsMeaning
<1>4. QED BY <1>3 DEF x, y

Durable == Stored(SubSeq(spool, 1, synced)) \cup dropped

\* What is durable stays so, unless the machine loses a file whose name is not durable.
LEMMA DurableStays ==
    ASSUME TypeInv, FileInv, [Next]_vars, linked \/ ~PowerLoss
    PROVE  Durable \subseteq Durable' /\ (linked => linked')
<1>1. /\ spool \in Seq(Line) /\ synced \in 0..Len(spool) /\ Len(spool) \in Nat
      /\ linked \in BOOLEAN
      /\ spool' \in Seq(Line) /\ synced' \in 0..Len(spool') /\ Len(spool') \in Nat
  BY FileType DEF TypeInv, TypeOK, Filed
<1>2. ASSUME dropped \subseteq dropped', synced =< synced',
             \A i \in 1..synced : spool'[i] = spool[i]
      PROVE  Durable \subseteq Durable'
  BY <1>1, <1>2, PrefixStored DEF Durable
<1>3. CASE FileKept
  <2>1. spool' = spool /\ dropped' = dropped /\ (synced' = synced \/ synced' = Len(spool))
    BY <1>3 DEF FileKept
  <2>2. linked' = linked \/ linked' = TRUE
    BY <1>3 DEF FileKept
  <2>3. synced =< synced'
    BY <1>1, <2>1
  <2>4. QED BY <1>2, <2>1, <2>2, <2>3
<1>4. CASE Mended
  <2>1. dropped' = dropped /\ (spool' = spool => synced' = synced)
        /\ (spool' # spool => synced' = Len(spool')) /\ Marks(spool') = Marks(spool)
    BY <1>4, MendedEffect DEF Mended
  <2>2. linked => linked'
    <3>1. linked' = linked \/ linked' = TRUE
      BY <1>4 DEF Mended
    <3>2. QED BY <3>1
  <2>3. CASE spool' = spool
    <3>1. synced =< synced'
      BY <1>1, <2>1, <2>3
    <3>2. QED BY <1>2, <2>1, <2>2, <2>3, <3>1
  <2>4. CASE spool' # spool
    <3>1. Stored(spool) = Stored(spool')
      BY <1>1, <2>1, SameStored
    <3>2. /\ Stored(SubSeq(spool, 1, synced)) \subseteq Stored(spool)
          /\ Stored(SubSeq(spool', 1, synced')) = Stored(spool')
      BY <1>1, <2>1, <2>4, Prefix
    <3>3. QED BY <2>1, <2>2, <3>1, <3>2 DEF Durable
  <2>5. QED BY <2>2, <2>3, <2>4
<1>5. ASSUME NEW p \in Process, Grown(p)
      PROVE  Durable \subseteq Durable' /\ (linked => linked')
  <2> DEFINE room == Room(spool)
  <2>1. /\ room \in Seq(Line) /\ Len(room) \in Nat /\ Len(spool') >= Len(room)
        /\ \A i \in 1..Len(room) : spool'[i] = room[i]
    BY <1>5, GrownEffect DEF Sound
  <2>2. dropped' = dropped \cup (Stored(spool) \ Stored(room)) /\ (linked => linked')
    BY <1>5 DEF Grown, Rotate
  <2>3. CASE Len(spool) >= SpoolRows
    <3>1. synced' = Len(room)
      BY <1>5, <2>3 DEF Grown, Rotate
    <3>2. Stored(SubSeq(room, 1, Len(room))) \subseteq Stored(SubSeq(spool', 1, synced'))
      <4> HIDE DEF room
      <4>1. Len(room) \in 0..Len(room) /\ Len(room) =< synced'
        BY <2>1, <3>1
      <4>2. QED BY <1>1, <2>1, <4>1, PrefixStored
    <3>3. /\ Stored(SubSeq(spool, 1, synced)) \subseteq Stored(spool)
          /\ Stored(SubSeq(room, 1, Len(room))) = Stored(room)
      <4> HIDE DEF room
      <4>1. Len(room) \in 0..Len(room)
        BY <2>1
      <4>2. QED BY <1>1, <2>1, <4>1, Prefix
    <3> HIDE DEF room
    <3>4. QED BY <2>2, <3>2, <3>3 DEF Durable
  <2>4. CASE ~(Len(spool) >= SpoolRows)
    <3>1. room = spool /\ synced' = synced
      BY <1>1, <1>5, <2>4, RoomEffect, NumbersType DEF Grown, Rotate
    <3>2. synced =< synced' /\ \A i \in 1..synced : spool'[i] = spool[i]
      BY <1>1, <2>1, <3>1
    <3>3. QED BY <1>2, <2>2, <3>2
  <2>5. QED BY <2>3, <2>4
<1>6. CASE PowerLoss
  <2>1. /\ synced' = Len(spool') /\ Len(spool') >= synced /\ dropped' = dropped
        /\ \A i \in 1..synced : spool'[i] = spool[i]
        /\ linked' = (linked \/ spool' # <<>>)
    BY <1>6, LossEffect DEF PowerLoss
  <2>2. synced =< synced'
    BY <1>1, <2>1
  <2>3. QED BY <1>2, <2>1, <2>2
<1>7. QED BY <1>3, <1>4, <1>5, <1>6, FileMoves

\* Only the sync of the directory reports an update as written.
LEMMA WrittenMoves ==
    ASSUME [Next]_vars
    PROVE  written' = written \/ \E p \in Process : SyncDir(p)
<1>1. CASE UNCHANGED vars \/ Arrive \/ Poll \/ PollLost \/ PowerLoss \/ \E c \in Chat : ReadTorn(c) \/ Read(c)
  BY <1>1 DEF vars, Arrive, Poll, PollLost, PowerLoss, ReadTorn, Read
<1>2. ASSUME NEW p \in Process, Start(p) \/ Ingest(p) \/ StorageFailure(p) \/ Crash(p)
                                  \/ \E m \in Update : Event(p, m)
      PROVE  written' = written \/ SyncDir(p)
  BY <1>2 DEF Start, Ingest, CheckSeen, FoundStored, Reserve, WriteRow, SyncRow,
     StorageFailure, Crash, Event
<1>3. QED BY <1>1, <1>2 DEF Next

LEMMA WrittenStays ==
    ASSUME TypeInv, FileInv, WrittenDurable, [Next]_vars
    PROVE  WrittenDurable'
<1>1. written \subseteq Durable /\ (written # {} => linked)
  BY DEF WrittenDurable, Durable
<1>2. CASE written' = written
  <2>1. CASE PowerLoss /\ ~linked
    BY <1>1, <1>2, <2>1 DEF WrittenDurable
  <2>2. CASE ~(PowerLoss /\ ~linked)
    <3>1. Durable \subseteq Durable' /\ (linked => linked')
      BY <2>2, DurableStays
    <3>2. QED BY <1>1, <1>2, <3>1 DEF WrittenDurable, Durable
  <2>3. QED BY <2>1, <2>2
<1>3. ASSUME NEW p \in Process, SyncDir(p) PROVE WrittenDurable'
  <2>1. /\ pc[p] = "syncdir" /\ linked' = TRUE /\ spool' = spool /\ synced' = synced
        /\ dropped' = dropped /\ written' = written \cup {Head(todo[p])}
    BY <1>3 DEF SyncDir, SyncDirectory
  <2>2. /\ Head(todo[p]) \in Stored(spool) /\ synced = Len(spool)
    BY <2>1 DEF FileInv, AppendsInStep
  <2>3. Stored(SubSeq(spool, 1, synced)) = Stored(spool)
    BY <2>2, Prefix DEF TypeInv, TypeOK
  <2>4. QED BY <1>1, <2>1, <2>2, <2>3 DEF WrittenDurable, Durable
<1>4. QED BY <1>2, <1>3, WrittenMoves

\* An update reported as written is in the synced part of a file whose name is durable, or
\* rotation has dropped it: no failure, crash or loss of power takes it.
THEOREM WrittenSurvives == Spec => []WrittenDurable
<1>1. Init => TypeInv /\ FileInv /\ WrittenDurable
  <2>1. Init => WrittenDurable
    BY DEF Init, WrittenDurable
  <2>2. QED BY <2>1, InitType, InitFile
<1>2. TypeInv /\ FileInv /\ WrittenDurable /\ [Next]_vars
        => TypeInv' /\ FileInv' /\ WrittenDurable'
  BY StepType, WrittenStays
<1>3. QED BY <1>1, <1>2, PTL DEF Spec

-------------------------------------------------------------------------------
(* The numbers and the readers, as long as no power is lost.               *)

LEMMA NoLossStep ==
    ASSUME TypeInv, [Next]_vars, spent'.loss = 0
    PROVE  spent.loss = 0 /\ ~PowerLoss
<1>1. spent \in [{"event", "failure", "loss"} -> Nat]
  BY DEF TypeInv, TypeOK
<1>2. ASSUME NEW kind \in {"event", "failure", "loss"}, NEW bound, Spend(kind, bound)
      PROVE  spent'.loss = IF kind = "loss" THEN spent.loss + 1 ELSE spent.loss
  BY <1>1, <1>2 DEF Spend
<1>3. spent.loss \in Nat
  BY <1>1
<1>4. ~PowerLoss
  BY <1>2, <1>3 DEF PowerLoss
<1>5. CASE spent' = spent
  BY <1>4, <1>5
<1>6. CASE UNCHANGED vars \/ Arrive \/ Poll \/ PollLost \/ \E c \in Chat : ReadTorn(c) \/ Read(c)
  BY <1>5, <1>6 DEF vars, Arrive, Poll, PollLost, ReadTorn, Read
<1>7. ASSUME NEW p \in Process, Start(p) \/ Ingest(p) \/ StorageFailure(p) \/ Crash(p)
                                  \/ \E m \in Update : Event(p, m)
      PROVE  spent' = spent \/ Spend("failure", MaxFailures) \/ Spend("event", MaxEvents)
  BY <1>7 DEF Start, Ingest, CheckSeen, FoundStored, Reserve, WriteRow, SyncRow, SyncDir,
     StorageFailure, Crash, Event
<1>8. CASE Spend("failure", MaxFailures) \/ Spend("event", MaxEvents)
  BY <1>2, <1>4, <1>8
<1>9. QED BY <1>4, <1>5, <1>6, <1>7, <1>8 DEF Next

\* The rows after a write: some of those before it, and the new one behind them perhaps.
LEMMA GrownMarks ==
    ASSUME TypeInv, FileInv, NEW p \in Process, Grown(p)
    PROVE  /\ Marks(spool') \subseteq Marks(spool) \cup {<<Head(todo[p]), reserved[p]>>}
           /\ Marks(Room(spool)) \subseteq Marks(spool')
           /\ /\ Ordered(spool)
              /\ \A m \in Marks(spool) : m[2] < reserved[p]
              => Ordered(spool')
<1> DEFINE room == Room(spool)
<1>1. /\ spool \in Seq(Line) /\ Sealed(spool) /\ pc[p] = "write"
      /\ Head(todo[p]) \notin Stored(spool)
  BY DEF TypeInv, TypeOK, Grown, FileInv, AppendsInStep
<1>2. /\ room \in Seq(Line) /\ Sealed(room) /\ Marks(room) \subseteq Marks(spool)
      /\ Ordered(spool) => Ordered(room)
  BY <1>1, RoomEffect
<1>3. \A m \in Marks(spool) : m[1] # Head(todo[p])
  BY <1>1, MarksDecide
<1>4. CASE spool' = room
  BY <1>2, <1>4
<1>5. ASSUME NEW text \in {"whole", "torn", "cut", "bare"},
             spool' = Extended(room, RowOf(p, text))
      PROVE  /\ Marks(spool') \subseteq Marks(room) \cup {<<Head(todo[p]), reserved[p]>>}
             /\ Marks(room) \subseteq Marks(spool')
             /\ /\ Ordered(room)
                /\ \A m \in Marks(room) : m[2] < reserved[p]
                => Ordered(spool')
  <2> DEFINE line == RowOf(p, text)
  <2>1. /\ line \in Line /\ Mark(line) = <<Head(todo[p]), reserved[p]>>
        /\ line.seq = reserved[p] /\ line.msg = Head(todo[p])
    BY <1>1, RowType
  <2> HIDE DEF line, room
  <2>2. spool' = Extended(room, line)
    BY <1>5 DEF line
  <2>3. \A m \in Marks(room) : m[1] # line.msg
    BY <1>2, <1>3, <2>1
  <2>4. /\ Extended(room, line) = Append(room, line)
        /\ Marks(room) \subseteq Marks(Append(room, line))
        /\ Marks(Append(room, line)) \subseteq Marks(room) \cup {Mark(line)}
        /\ /\ Ordered(room)
           /\ \A m \in Marks(room) : m[2] < line.seq /\ m[1] # line.msg
           => Ordered(Append(room, line))
    BY <1>2, <2>1, AppendEffect
  <2>5. QED BY <2>1, <2>2, <2>3, <2>4
<1>6. spool' = room \/ \E text \in {"whole", "torn", "cut", "bare"} :
                         spool' = Extended(room, RowOf(p, text))
  BY DEF Grown
<1> HIDE DEF room
<1>7. QED BY <1>2, <1>4, <1>5, <1>6 DEF room

LEMMA KeptStays ==
    ASSUME TypeInv, FileInv, [Next]_vars, ~PowerLoss
    PROVE  Kept \subseteq Kept'
<1>1. spool \in Seq(Line) /\ spool' \in Seq(Line)
  BY FileType DEF TypeInv, TypeOK, Filed
<1>2. CASE FileKept
  BY <1>2 DEF FileKept, Kept
<1>3. CASE Mended
  <2>1. Marks(spool') = Marks(spool) /\ dropped' = dropped
    BY <1>3, MendedEffect DEF Mended
  <2>2. QED BY <1>1, <2>1, SameStored DEF Kept
<1>4. ASSUME NEW p \in Process, Grown(p) PROVE Kept \subseteq Kept'
  <2>1. Marks(Room(spool)) \subseteq Marks(spool') /\ Room(spool) \in Seq(Line)
    BY <1>1, <1>4, GrownMarks, RoomEffect
  <2>2. Stored(Room(spool)) \subseteq Stored(spool')
    BY <1>1, <2>1, SameStored
  <2>3. dropped' = dropped \cup (Stored(spool) \ Stored(Room(spool)))
    BY <1>4 DEF Grown, Rotate
  <2>4. QED BY <2>2, <2>3 DEF Kept
<1>5. QED BY <1>2, <1>3, <1>4, FileMoves

\* Where the number is reserved, and who goes on with it.
LEMMA WriteMoves ==
    ASSUME TypeInv, FileInv, [Next]_vars, ~PowerLoss
    PROVE  \/ \E p \in Process : Reserve(p)
           \/ /\ seqno' = seqno
              /\ \A q \in Process : pc'[q] = "write" =>
                   pc[q] = "write" /\ reserved'[q] = reserved[q] /\ spool' = spool
<1>1. /\ pc \in [Process -> PC] /\ reserved \in [Process -> Nat]
      /\ \A p \in Process : pc[p] \in Holding <=> lock = p
  BY DEF TypeInv, TypeOK
<1> DEFINE Goes == /\ seqno' = seqno
                   /\ \A q \in Process : pc'[q] = "write" =>
                        pc[q] = "write" /\ reserved'[q] = reserved[q] /\ spool' = spool
<1>2. CASE UNCHANGED vars \/ Arrive \/ PollLost \/ \E c \in Chat : ReadTorn(c) \/ Read(c)
  BY <1>2 DEF vars, Arrive, PollLost, ReadTorn, Read, file, memory, sidecar
<1>3. CASE Poll
  BY <1>1, <1>3, NumbersType DEF Poll, Goto, file, sidecar
<1>4. ASSUME NEW p \in Process, pc[p] \notin {"down", "idle"}, Safe(p)
      PROVE  pc'[p] # "write" /\ \A q \in Process : q # p => pc'[q] = pc[q]
  BY <1>4, SafeEffect
<1>5. ASSUME NEW p \in Process, Start(p) \/ \E m \in Update : Event(p, m) PROVE Goes
  BY <1>1, <1>5 DEF Start, Event, Goto, file, sidecar
<1>6. ASSUME NEW p \in Process, CheckSeen(p) PROVE Goes
  <2>1. spool' = spool /\ seqno' = seqno /\ reserved' = reserved /\ pc[p] = "check"
        /\ (Safe(p) \/ pc' = [pc EXCEPT ![p] = "append"])
    BY <1>6 DEF CheckSeen, Goto, file, sidecar
  <2>2. pc'[p] # "write" /\ \A q \in Process : q # p => pc'[q] = pc[q]
    BY <1>1, <1>4, <2>1
  <2>3. QED BY <2>1, <2>2
<1>7. ASSUME NEW p \in Process, FoundStored(p) \/ SyncDir(p) PROVE Goes
  <2>1. seqno' = seqno /\ lock \in {p, None} /\ Safe(p) /\ pc[p] \notin {"down", "idle"}
    BY <1>1, <1>7 DEF FoundStored, SyncDir, Holding
  <2>2. pc'[p] # "write" /\ \A q \in Process : q # p => pc'[q] = pc[q]
    BY <1>4, <2>1
  <2>3. QED BY <2>1, <2>2, HolderAlone DEF Holding
<1>8. ASSUME NEW p \in Process, WriteRow(p) \/ SyncRow(p) PROVE Goes
  <2>1. seqno' = seqno /\ lock = p /\ \E label \in {"sync", "syncdir"} : pc' = [pc EXCEPT ![p] = label]
    BY <1>1, <1>8 DEF WriteRow, SyncRow, Goto, Holding, sidecar
  <2>2. pc'[p] # "write" /\ \A q \in Process : q # p => pc'[q] = pc[q]
    BY <1>1, <2>1
  <2>3. QED BY <2>1, <2>2, HolderAlone DEF Holding
<1>9. ASSUME NEW p \in Process, StorageFailure(p) \/ Crash(p) PROVE Goes
  <2>1. /\ seqno' = seqno /\ pc'[p] # "write"
        /\ \A q \in Process : q # p => pc'[q] = pc[q] /\ reserved'[q] = reserved[q]
    BY <1>1, <1>9 DEF StorageFailure, Fail, Goto, Crash, Forget, sidecar
  <2>2. spool' = spool \/ pc[p] = "write"
    BY <1>9 DEF StorageFailure, Crash, file
  <2>3. CASE spool' = spool
    BY <2>1, <2>3
  <2>4. CASE pc[p] = "write"
    BY <1>1, <2>1, <2>4, HolderAlone DEF Holding
  <2>5. QED BY <2>2, <2>3, <2>4
<1>10. QED
  BY <1>2, <1>3, <1>5, <1>6, <1>7, <1>8, <1>9 DEF Next, Ingest

LEMMA OrderStays ==
    ASSUME TypeInv, FileInv, [Next]_vars, ~PowerLoss, Ordered(spool), NumbersAhead
    PROVE  Ordered(spool') /\ NumbersAhead'
<1>1. /\ spool \in Seq(Line) /\ seqno \in Nat /\ reserved \in [Process -> Nat]
      /\ pc \in [Process -> PC]
      /\ \A m \in Marks(spool) : m[2] \in Nat
  BY MarksDecide DEF TypeInv, TypeOK
<1>2. ASSUME NEW p \in Process, pc[p] = "write"
      PROVE  reserved[p] = seqno /\ seqno # 0 /\ \A m \in Marks(spool) : m[2] < seqno
  BY <1>2 DEF NumbersAhead
<1>3. Ordered(spool')
  <2>1. CASE FileKept
    BY <2>1 DEF FileKept
  <2>2. CASE Mended
    BY <2>2, MendedEffect
  <2>3. ASSUME NEW p \in Process, Grown(p) PROVE Ordered(spool')
    <3>1. pc[p] = "write"
      BY <2>3 DEF Grown
    <3>2. QED BY <1>2, <2>3, <3>1, GrownMarks
  <2>4. QED BY <2>1, <2>2, <2>3, FileMoves
<1>4. \A m \in Marks(spool') : \/ m \in Marks(spool)
                               \/ \E p \in Process : pc[p] = "write" /\ m[2] = reserved[p]
  <2>1. CASE FileKept
    BY <2>1 DEF FileKept
  <2>2. CASE Mended
    BY <2>2, MendedEffect
  <2>3. ASSUME NEW p \in Process, Grown(p), NEW m \in Marks(spool')
        PROVE  m \in Marks(spool) \/ (pc[p] = "write" /\ m[2] = reserved[p])
    <3>1. pc[p] = "write" /\ (m \in Marks(spool) \/ m = <<Head(todo[p]), reserved[p]>>)
      BY <2>3, GrownMarks DEF Grown
    <3>2. QED BY <3>1
  <2>4. QED BY <2>1, <2>2, <2>3, FileMoves
<1>5. ASSUME NEW p \in Process, Reserve(p) PROVE NumbersAhead'
  <2>1. /\ Mended /\ lock = None /\ pc' = [pc EXCEPT ![p] = "write"]
        /\ reserved' = [reserved EXCEPT ![p] = seqno']
        /\ seqno' \in {LastSeq + 1, Highest(spool) + 1}
    BY <1>5 DEF Reserve, Repair, Mended, Goto
  <2>2. /\ Highest(spool) \in Nat /\ LastSeq \in Nat
        /\ \A m \in Marks(spool) : m[2] =< Highest(spool) /\ m[2] =< LastSeq
    BY <1>1, HighestMeaning, NumberType DEF LastSeq, NumbersAhead
  <2>3. PICK n \in Nat : n = seqno' /\ n # 0 /\ \A m \in Marks(spool) : m[2] < n
    BY <1>1, <2>1, <2>2
  <2>4. Marks(spool') = Marks(spool)
    BY <2>1, MendedEffect
  <2>5. \A q \in Process : pc'[q] = "write" => q = p
    BY <1>1, <2>1, HolderAlone DEF Holding
  <2>6. reserved'[p] = seqno'
    BY <1>1, <2>1
  <2>7. \A m \in Marks(spool) : m[2] =< n
    BY <1>1, <2>3
  <2>8. QED BY <2>3, <2>4, <2>5, <2>6, <2>7 DEF NumbersAhead
<1>6. ASSUME seqno' = seqno,
             \A q \in Process : pc'[q] = "write" =>
                pc[q] = "write" /\ reserved'[q] = reserved[q] /\ spool' = spool
      PROVE  NumbersAhead'
  <2>1. ASSUME seqno # 0, NEW m \in Marks(spool') PROVE m[2] =< seqno
    <3>1. CASE m \in Marks(spool)
      BY <2>1, <3>1 DEF NumbersAhead
    <3>2. ASSUME NEW p \in Process, pc[p] = "write", m[2] = reserved[p] PROVE m[2] =< seqno
      BY <1>1, <1>2, <3>2
    <3>3. QED BY <1>4, <3>1, <3>2
  <2>2. ASSUME NEW q \in Process, pc'[q] = "write"
        PROVE  reserved'[q] = seqno /\ seqno # 0 /\ \A m \in Marks(spool') : m[2] < seqno
    <3>1. pc[q] = "write" /\ reserved'[q] = reserved[q] /\ spool' = spool
      BY <1>6, <2>2
    <3>2. QED BY <1>2, <3>1
  <2>3. QED BY <1>6, <2>1, <2>2 DEF NumbersAhead
<1>7. QED BY <1>3, <1>5, <1>6, WriteMoves

\* What the reader's promises say of the rows' marks.
LEMMA CursorMeaning ==
    ASSUME spool \in Seq(Line)
    PROVE  (\A row \in Rows(spool) :
              \/ <<row.msg, row.seq>> \in read \cup skipped
              \/ row.seq > cursor[ChatOf[row.msg]])
           <=> \A m \in Marks(spool) : m \in read \cup skipped \/ m[2] > cursor[ChatOf[m[1]]]
<1>1. \A row \in Rows(spool) : <<row.msg, row.seq>> \in Marks(spool)
  BY DEF Marks
<1>2. \A m \in Marks(spool) : \E row \in Rows(spool) : m = <<row.msg, row.seq>>
  BY DEF Marks
<1>3. QED BY <1>1, <1>2

Ahead == \A m \in Marks(spool) : m \in read \cup skipped \/ m[2] > cursor[ChatOf[m[1]]]

\* The last row of a file that a write finds has the highest number.
LEMMA LastRowHighest ==
    ASSUME spool \in Seq(Line), Sealed(spool), NothingGarbled, Ordered(spool),
           spool # <<>>
    PROVE  /\ Mark(Last(spool)) \in Marks(spool)
           /\ \A m \in Marks(spool) : m[2] =< Last(spool).seq
           /\ Readable(Last(spool))
<1> DEFINE n == Len(spool)
<1>1. n \in 1..n /\ Last(spool) = spool[n] /\ n \in Nat
  BY LastLine
<1>2. Readable(spool[n])
  BY <1>1, Ungarbled DEF Sealed, Ended, Readable
<1>3. Mark(spool[n]) \in Marks(spool)
  BY <1>1, <1>2, RowsMeaning
<1>4. ASSUME NEW m \in Marks(spool) PROVE m[2] =< spool[n].seq
  <2>1. PICK i \in 1..n : Readable(spool[i]) /\ m = Mark(spool[i])
    BY RowsMeaning
  <2>2. m[2] = spool[i].seq /\ spool[i].seq \in Nat /\ spool[n].seq \in Nat
    BY <1>1, <2>1, LineType DEF Mark
  <2>3. CASE i = n
    BY <2>2, <2>3
  <2>4. CASE i # n
    <3>1. i < n /\ DOMAIN spool = 1..n
      BY <1>1, <2>4
    <3>2. spool[i].seq < spool[n].seq
      BY <1>1, <1>2, <2>1, <3>1 DEF Ordered
    <3>3. QED BY <2>2, <3>2
  <2>5. QED BY <2>3, <2>4
<1>5. QED BY <1>1, <1>2, <1>3, <1>4

\* Only its reader moves a cursor.
LEMMA CursorMoves ==
    ASSUME [Next]_vars
    PROVE  UNCHANGED <<cursor, read, skipped>> \/ \E c \in Chat : Read(c)
<1>1. CASE UNCHANGED vars \/ Arrive \/ Poll \/ PollLost \/ PowerLoss
  BY <1>1 DEF vars, Arrive, Poll, PollLost, PowerLoss, reader
<1>2. ASSUME NEW p \in Process, Start(p) \/ Ingest(p) \/ StorageFailure(p) \/ Crash(p)
                                  \/ \E m \in Update : Event(p, m)
      PROVE  UNCHANGED <<cursor, read, skipped>>
  BY <1>2 DEF Start, Ingest, CheckSeen, FoundStored, Reserve, WriteRow, SyncRow, SyncDir,
     StorageFailure, Crash, Event, reader
<1>3. ASSUME NEW c \in Chat, ReadTorn(c) PROVE UNCHANGED <<cursor, read, skipped>>
  BY <1>3 DEF ReadTorn, reader
<1>4. QED BY <1>1, <1>2, <1>3 DEF Next

LEMMA CursorsStay ==
    ASSUME TypeInv, FileInv, [Next]_vars, ~PowerLoss, Ordered(spool), NumbersAhead,
           CursorsBehind, Ahead
    PROVE  CursorsBehind' /\ Ahead'
<1>1. /\ spool \in Seq(Line) /\ spool' \in Seq(Line) /\ cursor \in [Chat -> Nat]
      /\ seqno \in Nat /\ reserved \in [Process -> Nat]
      /\ \A m \in Marks(spool) : m[1] \in Update /\ m[2] \in Nat
  BY FileType, MarksDecide DEF TypeInv, TypeOK, Filed
<1>2. ASSUME UNCHANGED <<cursor, read, skipped>>, Marks(spool') = Marks(spool)
      PROVE  CursorsBehind' /\ Ahead'
  BY <1>2 DEF CursorsBehind, Ahead
<1>3. ASSUME NEW p \in Process, Grown(p), UNCHANGED <<cursor, read, skipped>>
      PROVE  CursorsBehind' /\ Ahead'
  <2> DEFINE row == <<Head(todo[p]), reserved[p]>>
  <2>1. /\ pc[p] = "write" /\ Marks(spool') \subseteq Marks(spool) \cup {row}
        /\ Marks(Room(spool)) \subseteq Marks(spool') /\ Sealed(spool) /\ NothingGarbled
    BY <1>3, GrownMarks DEF Grown, FileInv, AppendsInStep
  <2>2. reserved[p] = seqno /\ seqno # 0 /\ \A m \in Marks(spool) : m[2] < seqno
    BY <2>1 DEF NumbersAhead
  <2>3. ASSUME NEW c \in Chat, cursor[c] # 0
        PROVE  \E m \in Marks(spool') : cursor[c] =< m[2]
    <3>1. PICK m \in Marks(spool) : cursor[c] =< m[2]
      BY <2>3 DEF CursorsBehind
    <3>2. PICK i \in 1..Len(spool) : m = Mark(spool[i])
      BY <1>1, RowsMeaning
    <3>3. spool # <<>>
      BY <1>1, <3>2
    <3>4. /\ m[2] =< Last(spool).seq /\ Mark(Last(spool)) \in Marks(spool)
          /\ Readable(Last(spool))
      BY <1>1, <2>1, <3>3, LastRowHighest
    <3>5. Last(Room(spool)) = Last(spool) /\ Room(spool) # <<>> /\ Room(spool) \in Seq(Line)
      BY <1>1, <3>3, RoomEffect
    <3>6. Mark(Last(spool)) \in Marks(Room(spool))
      BY <3>4, <3>5, LastLine, RowsMeaning
    <3>7. Mark(Last(spool))[2] = Last(spool).seq /\ Last(spool).seq \in Nat
      BY <1>1, <3>4 DEF Mark
    <3>8. cursor[c] =< Last(spool).seq
      BY <1>1, <3>1, <3>4, <3>7
    <3>9. QED BY <2>1, <3>6, <3>7, <3>8
  <2>4. \A c \in Chat : cursor[c] < seqno
    <3>1. SUFFICES ASSUME NEW c \in Chat PROVE cursor[c] < seqno
      OBVIOUS
    <3>2. CASE cursor[c] = 0
      BY <1>1, <2>2, <3>2
    <3>3. CASE cursor[c] # 0
      <4>1. PICK m \in Marks(spool) : cursor[c] =< m[2]
        BY <3>3 DEF CursorsBehind
      <4>2. m[2] < seqno /\ m[2] \in Nat /\ cursor[c] \in Nat
        BY <1>1, <2>2
      <4>3. QED BY <1>1, <4>1, <4>2
    <3>4. QED BY <3>2, <3>3
  <2>5. ASSUME NEW m \in Marks(spool')
        PROVE  m \in read \cup skipped \/ m[2] > cursor[ChatOf[m[1]]]
    <3>1. CASE m \in Marks(spool)
      BY <3>1 DEF Ahead
    <3>2. CASE m = row
      <4>1. Head(todo[p]) \in Update
        BY <2>1, TodoType
      <4>2. ChatOf[Head(todo[p])] \in Chat
        BY <4>1, NumbersType
      <4>3. m[1] = Head(todo[p]) /\ m[2] = seqno
        BY <2>2, <3>2
      <4>4. cursor[ChatOf[m[1]]] \in Nat /\ cursor[ChatOf[m[1]]] < seqno
        BY <1>1, <2>4, <4>2, <4>3
      <4>5. QED BY <1>1, <4>3, <4>4
    <3>3. QED BY <2>1, <3>1, <3>2
  <2>6. QED BY <1>3, <2>3, <2>5 DEF CursorsBehind, Ahead
<1>4. ASSUME NEW c \in Chat, Read(c) PROVE CursorsBehind' /\ Ahead'
  <2>1. PICK unseen \in Unseen(c) :
          /\ Batch(Unread(c) \ unseen) # {} /\ spool' = spool
          /\ cursor' = [cursor EXCEPT ![c] =
                          Max({spool[i].seq : i \in Batch(Unread(c) \ unseen)})]
          /\ read' = read \cup RowsAt(Batch(Unread(c) \ unseen))
          /\ skipped' = skipped \cup RowsAt({i \in Unread(c) \cap unseen :
                                               spool[i].seq =< cursor'[c]})
    BY <1>4 DEF Read
  <2> DEFINE places == Unread(c) \ unseen
             batch == Batch(places)
             behind == {i \in Unread(c) \cap unseen : spool[i].seq =< cursor'[c]}
             numbers == {spool[i].seq : i \in batch}
             top == Max(numbers)
  <2>2. Unread(c) \subseteq 1..Len(spool)
    BY <1>1 DEF Unread
  <2>3. /\ batch \subseteq places /\ top \in numbers /\ top \in Nat
        /\ \A i \in places \ batch : \A j \in batch : j < i
    BY <1>1, <2>1, <2>2, BatchEffect
  <2>4. PICK b \in batch : top = spool[b].seq
    BY <2>3
  <2>5. /\ cursor' = [cursor EXCEPT ![c] = top] /\ read' = read \cup RowsAt(batch)
        /\ skipped' = skipped \cup RowsAt(behind)
    BY <2>1
  <2>6. cursor'[c] = top
    BY <1>1, <2>5
  <2> HIDE DEF top, numbers, batch
  <2>7. b \in 1..Len(spool) /\ Readable(spool[b]) /\ Decodable(spool) /\ spool[b].seq \in Nat
    BY <1>1, <2>2, <2>3, LineType DEF Unread
  <2>8. Mark(spool[b]) \in Marks(spool) /\ Mark(spool[b])[2] = top
    BY <1>1, <2>4, <2>7, RowsMeaning DEF Mark
  <2>9. CursorsBehind'
    <3>1. ASSUME NEW d \in Chat, cursor'[d] # 0
          PROVE  \E m \in Marks(spool) : cursor'[d] =< m[2]
      <4>1. CASE d = c
        BY <2>3, <2>6, <2>8, <4>1
      <4>2. CASE d # c
        BY <1>1, <2>5, <3>1, <4>2 DEF CursorsBehind
      <4>3. QED BY <4>1, <4>2
    <3>2. QED BY <2>1, <3>1 DEF CursorsBehind
  <2>10. ASSUME NEW m \in Marks(spool)
         PROVE  m \in read' \cup skipped' \/ m[2] > cursor'[ChatOf[m[1]]]
    <3>1. PICK i \in 1..Len(spool) : Readable(spool[i]) /\ m = Mark(spool[i])
      BY <1>1, RowsMeaning
    <3>2. /\ m = <<spool[i].msg, spool[i].seq>> /\ m[1] = spool[i].msg /\ m[2] = spool[i].seq
          /\ spool[i].seq \in Nat
      BY <1>1, <3>1, LineType DEF Mark
    <3>3. m \in read \cup skipped \/ m[2] > cursor[ChatOf[m[1]]]
      BY DEF Ahead
    <3>4. CASE m \in read \cup skipped \/ i \in batch \/ i \in behind
      BY <2>5, <3>2, <3>4 DEF RowsAt
    <3>5. CASE m \notin read \cup skipped /\ ChatOf[m[1]] # c
      <4>1. ChatOf[m[1]] \in Chat
        BY <1>1, NumbersType
      <4>2. QED BY <1>1, <2>5, <3>3, <3>5, <4>1
    <3>6. CASE m \notin read \cup skipped /\ i \notin batch /\ i \notin behind
               /\ ChatOf[m[1]] = c
      <4>1. i \in Unread(c)
        BY <1>1, <2>7, <3>1, <3>2, <3>3, <3>6 DEF Unread
      <4>2. CASE i \in unseen
        BY <2>3, <2>6, <3>2, <3>6, <4>1, <4>2
      <4>3. CASE i \notin unseen
        <5>1. b < i
          BY <2>3, <3>6, <4>1, <4>3
        <5>2. spool[b].seq < spool[i].seq
          BY <1>1, <2>7, <3>1, <5>1 DEF Ordered
        <5>3. QED BY <2>4, <2>6, <2>7, <3>2, <3>6, <5>2
      <4>4. QED BY <4>2, <4>3
    <3>7. QED BY <3>4, <3>5, <3>6
  <2>11. Ahead'
    BY <2>1, <2>10 DEF Ahead
  <2>12. QED BY <2>9, <2>11
<1>5. CASE UNCHANGED <<cursor, read, skipped>>
  <2>1. CASE FileKept
    BY <1>2, <1>5, <2>1 DEF FileKept
  <2>2. CASE Mended
    BY <1>2, <1>5, <2>2, MendedEffect
  <2>3. QED BY <1>3, <1>5, <2>1, <2>2, FileMoves
<1>6. QED BY <1>4, <1>5, CursorMoves

-------------------------------------------------------------------------------
(* Without a failure, no line is torn and no reader loses its place.       *)

LEMMA WholeRoom ==
    ASSUME NEW lines \in Seq(Line), WholeLines(lines)
    PROVE  WholeLines(Room(lines)) /\ Room(lines) \in Seq(Line)
<1>1. CASE Len(lines) < SpoolRows
  BY <1>1 DEF Room
<1>2. CASE ~(Len(lines) < SpoolRows)
  <2> DEFINE k == Min({RetainRows, SpoolRows - 1})
             new == Room(lines)
  <2>1. k \in Nat /\ k >= 1
    BY NumbersType, MinOfTwo
  <2>2. new = Newest(lines, k)
    BY <1>2 DEF Room
  <2> HIDE DEF k, new
  <2>3. /\ new \in Seq(Line)
        /\ \A i \in 1..Len(new) : \E j \in 1..Len(lines) : new[i] = lines[j]
    BY <2>1, <2>2, NewestEffect
  <2>4. QED BY <2>3 DEF WholeLines, new
<1>3. QED BY <1>1, <1>2

\* A step of a run in which nothing has failed.
LEMMA UnfailedStep ==
    ASSUME TypeInv, [Next]_vars, ~PowerLoss, spent'.failure = 0
    PROVE  /\ spent.failure = 0
           /\ \/ spool' = spool
              \/ spool' = Repaired(spool)
              \/ \E p \in Process : WriteRow(p)
           /\ \/ torn' \in {torn, NoneTorn} /\ skipped' = skipped
              \/ \E c \in Chat : ReadTorn(c) \/ Read(c)
<1>1. spent \in [{"event", "failure", "loss"} -> Nat] /\ spent.failure \in Nat
  BY DEF TypeInv, TypeOK
<1>2. ASSUME NEW kind \in {"event", "failure"}, NEW bound, Spend(kind, bound)
      PROVE  kind = "event" /\ spent.failure = 0
  BY <1>1, <1>2 DEF Spend
<1>3. CASE UNCHANGED vars \/ Arrive \/ Poll \/ PollLost
  BY <1>3 DEF vars, file, reader, Arrive, Poll, PollLost
<1>4. ASSUME NEW c \in Chat, ReadTorn(c) \/ Read(c)
      PROVE  spent' = spent /\ spool' = spool
  BY <1>4 DEF ReadTorn, Read
<1>5. ASSUME NEW p \in Process, StorageFailure(p) \/ Crash(p) PROVE FALSE
  BY <1>2, <1>5 DEF StorageFailure, Crash
<1>6. ASSUME NEW p \in Process, NEW m \in Update, Event(p, m)
      PROVE  spent.failure = 0 /\ UNCHANGED <<spool, torn, skipped>>
  BY <1>2, <1>6 DEF Event, file, reader
<1>7. ASSUME NEW p \in Process, Start(p) \/ CheckSeen(p) \/ SyncRow(p) \/ SyncDir(p)
      PROVE  UNCHANGED <<spent, spool, torn, skipped>>
  BY <1>7 DEF Start, CheckSeen, SyncRow, SyncDir, file, reader
<1>8. ASSUME NEW p \in Process, FoundStored(p) \/ Reserve(p)
      PROVE  spent.failure = 0 /\ spool' = Repaired(spool) /\ UNCHANGED <<torn, skipped>>
  BY <1>2, <1>8 DEF FoundStored, Reserve, Repair, reader
<1>9. ASSUME NEW p \in Process, WriteRow(p)
      PROVE  spent' = spent /\ torn' \in {torn, NoneTorn} /\ skipped' = skipped
  BY <1>9 DEF WriteRow, Rotate, reader
<1>10. QED BY <1>3, <1>4, <1>5, <1>6, <1>7, <1>8, <1>9 DEF Next, Ingest

LEMMA WholeStays ==
    ASSUME TypeInv, FileInv, [Next]_vars, ~PowerLoss, spent.loss = 0, WholeInv
    PROVE  WholeInv'
<1>1. SUFFICES ASSUME spent'.failure = 0
               PROVE  WholeLines(spool') /\ torn' = NoneTorn /\ skipped' = {}
  BY DEF WholeInv
<1>2. /\ WholeLines(spool) /\ torn = NoneTorn /\ skipped = {} /\ spool \in Seq(Line)
  BY <1>1, UnfailedStep DEF WholeInv, TypeInv, TypeOK
<1>3. \A i \in 1..Len(spool) : Ended(spool[i])
  BY <1>2 DEF WholeLines, Ended
<1>4. spool = <<>> \/ Ended(Last(spool))
  BY <1>2, <1>3, LastLine
<1>5. WholeLines(spool')
  <2>1. CASE spool' = spool
    BY <1>2, <2>1
  <2>2. CASE spool' = Repaired(spool)
    BY <1>2, <1>4, <2>2 DEF Repaired
  <2>3. ASSUME NEW p \in Process, WriteRow(p) PROVE WholeLines(spool')
    <3> DEFINE room == Room(spool)
               row == RowOf(p, "whole")
    <3>1. pc[p] = "write" /\ spool' = Extended(room, row)
      BY <2>3 DEF WriteRow
    <3>2. room \in Seq(Line) /\ WholeLines(room)
      BY <1>2, WholeRoom
    <3>3. row.text = "whole" /\ row \in Line
      BY <3>1, RowType DEF RowOf
    <3> HIDE DEF room, row
    <3>4. room = <<>> \/ Ended(Last(room))
      BY <3>2, LastLine DEF WholeLines, Ended
    <3>5. spool' = Append(room, row)
      BY <3>1, <3>4 DEF Extended
    <3>6. /\ Len(spool') = Len(room) + 1 /\ spool'[Len(room) + 1] = row /\ Len(room) \in Nat
          /\ \A i \in 1..Len(room) : spool'[i] = room[i]
      BY <3>2, <3>3, <3>5
    <3>7. \A i \in 1..Len(room) + 1 : i \in 1..Len(room) \/ i = Len(room) + 1
      BY <3>6
    <3>8. QED BY <3>2, <3>3, <3>6, <3>7 DEF WholeLines
  <2>4. QED BY <1>1, <2>1, <2>2, <2>3, UnfailedStep
<1>6. ASSUME NEW c \in Chat, ReadTorn(c) PROVE FALSE
  BY <1>4, <1>6 DEF ReadTorn
<1>7. ASSUME NEW c \in Chat, Read(c) PROVE torn' = NoneTorn /\ skipped' = {}
  <2>1. Unseen(c) = {{}}
    BY <1>2 DEF Unseen, NoneTorn
  <2>2. /\ torn' = [torn EXCEPT ![c] = 0]
        /\ \E unseen \in Unseen(c) :
             skipped' = skipped \cup RowsAt({i \in Unread(c) \cap unseen :
                                               spool[i].seq =< cursor'[c]})
    BY <1>7 DEF Read
  <2>3. skipped' = skipped \cup RowsAt({i \in Unread(c) \cap {} : spool[i].seq =< cursor'[c]})
    BY <2>1, <2>2
  <2>4. skipped' = skipped
    BY <2>3 DEF RowsAt
  <2>5. torn' = torn
    BY <1>2, <2>2 DEF NoneTorn
  <2>6. QED BY <1>2, <2>4, <2>5
<1>8. torn' = NoneTorn /\ skipped' = {}
  BY <1>1, <1>2, <1>6, <1>7, UnfailedStep
<1>9. QED BY <1>5, <1>8

-------------------------------------------------------------------------------
(* The caches and the offset, as long as no power is lost.                 *)

\* An update that a process drops from its batch as ingested is kept.
LEMMA HeadKept ==
    ASSUME TypeInv, FileInv, NEW p \in Process, Safe(p), SeenKept, Kept \subseteq Kept',
           \/ CheckSeen(p) /\ Head(todo[p]) \in ToSet(seen[p])
           \/ FoundStored(p)
           \/ SyncDir(p)
    PROVE  Head(todo[p]) \in Kept
<1>1. CASE Head(todo[p]) \in ToSet(seen[p])
  BY <1>1 DEF SeenKept, ToSet
<1>2. CASE FoundStored(p)
  BY <1>2 DEF FoundStored, Kept
<1>3. CASE SyncDir(p)
  BY <1>3 DEF SyncDir, FileInv, AppendsInStep, Kept
<1>4. QED BY <1>1, <1>2, <1>3

LEMMA SeenStays ==
    ASSUME TypeInv, FileInv, [Next]_vars, ~PowerLoss, SeenKept
    PROVE  SeenKept'
<1>1. Kept \subseteq Kept' /\ seen \in [Process -> Seq(Update)]
      /\ spool \in Seq(Line)
  BY KeptStays DEF TypeInv, TypeOK
<1>2. ASSUME NEW p \in Process, NEW ids \in Seq(Update),
             seen' = [seen EXCEPT ![p] = ids],
             \A i \in 1..Len(ids) : ids[i] \in Kept
      PROVE  SeenKept'
  <2>1. seen'[p] = ids /\ \A q \in Process : q # p => seen'[q] = seen[q]
    BY <1>1, <1>2
  <2>2. \A q \in Process : \A i \in DOMAIN seen'[q] : seen'[q][i] \in Kept
    <3>1. DOMAIN ids = 1..Len(ids)
      OBVIOUS
    <3>2. QED BY <1>2, <2>1, <3>1 DEF SeenKept
  <2>3. QED BY <1>1, <2>2 DEF SeenKept
<1>3. CASE seen' = seen
  BY <1>1, <1>3 DEF SeenKept
<1>4. CASE UNCHANGED vars \/ Arrive \/ Poll \/ PollLost \/ \E c \in Chat : ReadTorn(c) \/ Read(c)
  BY <1>3, <1>4 DEF vars, Arrive, Poll, PollLost, ReadTorn, Read, memory
<1>5. ASSUME NEW p \in Process,
             CheckSeen(p) \/ Reserve(p) \/ WriteRow(p) \/ SyncRow(p) \/ StorageFailure(p)
               \/ \E m \in Update : Event(p, m)
      PROVE  SeenKept'
  BY <1>3, <1>5 DEF CheckSeen, Reserve, WriteRow, SyncRow, StorageFailure, Event, memory
<1>6. ASSUME NEW p \in Process, Start(p) PROVE SeenKept'
  <2>1. PICK ids \in Seq(Update) :
          /\ seen' = [seen EXCEPT ![p] = ids]
          /\ \A i \in 1..Len(ids) : ids[i] \in Stored(spool)
    BY <1>6, StartEffect
  <2>2. QED BY <1>2, <2>1 DEF Kept
<1>7. ASSUME NEW p \in Process, FoundStored(p) \/ SyncDir(p) PROVE SeenKept'
  <2>1. Remember(p) /\ Safe(p) /\ pc[p] \notin {"down", "idle"}
    BY <1>7 DEF FoundStored, SyncDir
  <2>2. Head(todo[p]) \in Kept
    BY <1>1, <1>7, <2>1, HeadKept
  <2>3. PICK ids \in Seq(Update) :
          /\ seen' = [seen EXCEPT ![p] = ids]
          /\ \A i \in 1..Len(ids) :
               ids[i] = Head(todo[p]) \/ \E j \in 1..Len(seen[p]) : ids[i] = seen[p][j]
    BY <2>1, RememberEffect
  <2>4. \A j \in 1..Len(seen[p]) : seen[p][j] \in Kept
    BY <1>1 DEF SeenKept
  <2>5. QED BY <1>2, <2>2, <2>3, <2>4
<1>8. ASSUME NEW p \in Process, Crash(p) PROVE SeenKept'
  <2>1. seen' = [q \in Process |-> IF q \in {p} THEN <<>> ELSE seen[q]]
    BY <1>8 DEF Crash, Forget
  <2>2. \A q \in Process : \A i \in DOMAIN seen'[q] : seen'[q][i] \in Kept
    BY <2>1 DEF SeenKept
  <2>3. QED BY <1>1, <2>2 DEF SeenKept
<1>9. QED BY <1>4, <1>5, <1>6, <1>7, <1>8 DEF Next, Ingest

Passed == 1..offset \subseteq Kept /\ 1..confirmed \subseteq Kept

LEMMA PassedMeaning ==
    ASSUME TypeInv
    PROVE  Passed <=> 1..Max({offset, confirmed}) \subseteq Stored(spool) \cup dropped
<1>1. offset \in Nat /\ confirmed \in Nat
  BY TypeParts, NumbersType DEF Counted
<1>2. Max({offset, confirmed}) = IF offset >= confirmed THEN offset ELSE confirmed
  BY <1>1, MaxOfTwo
<1>3. CASE offset >= confirmed
  <2>1. 1..confirmed \subseteq 1..offset
    BY <1>1, <1>3
  <2>2. QED BY <1>2, <1>3, <2>1 DEF Passed, Kept
<1>4. CASE ~(offset >= confirmed)
  <2>1. 1..offset \subseteq 1..confirmed
    BY <1>1, <1>4
  <2>2. QED BY <1>2, <1>4, <2>1 DEF Passed, Kept
<1>5. QED BY <1>3, <1>4

\* The poller's batch loses its first update, which is kept.
LEMMA PollerGoesOn ==
    ASSUME TypeInv, pc[Poller] \notin {"down", "idle"}, Safe(Poller), PolledInOrder,
           Passed, Kept \subseteq Kept', Head(todo[Poller]) \in Kept, UNCHANGED confirmed
    PROVE  PolledInOrder' /\ Passed'
<1> DEFINE polled == todo[Poller]
           u == polled[1]
<1>1. /\ Head(polled) = u /\ u \in 1..arrived /\ polled # <<>>
      /\ Len(polled) \in Nat /\ arrived \in Nat /\ offset \in Nat
      /\ Tail(polled) \in Seq(1..arrived) /\ Len(Tail(polled)) = Len(polled) - 1
      /\ \A i \in 1..Len(polled) - 1 : Tail(polled)[i] = polled[i + 1]
  <2>1. Poller \in Process
    BY NumbersType
  <2>2. arrived \in Nat /\ offset \in Nat /\ polled # <<>>
    BY <2>1, NumbersType, TypeParts DEF Counted, Working
  <2>3. QED BY <2>1, <2>2, TodoType
<1>2. /\ todo'[Poller] = Tail(polled)
      /\ offset' = IF offset >= u THEN offset ELSE u
  BY <1>1, NumbersType, SafeEffect
<1>3. /\ \A i \in DOMAIN polled : polled[i] = u + (i - 1)
      /\ 1..u - 1 \subseteq Kept /\ DOMAIN polled = 1..Len(polled)
  BY <1>1, TypeParts, NumbersType DEF PolledInOrder, Working
<1> HIDE DEF polled, u
<1>4. 1..u \subseteq Kept
  <2>1. \A n \in 1..u : n \in 1..u - 1 \/ n = u
    BY <1>1
  <2>2. u \in Kept
    BY <1>1 DEF polled
  <2>3. QED BY <1>3, <2>1, <2>2
<1>5. 1..offset' \subseteq Kept
  BY <1>2, <1>4 DEF Passed
<1>6. Passed'
  BY <1>5 DEF Passed
<1>7. PolledInOrder'
  <2> DEFINE rest == Tail(polled)
  <2>1. SUFFICES ASSUME rest # <<>>
                 PROVE  /\ \A i \in DOMAIN rest : rest[i] = rest[1] + (i - 1)
                        /\ 1..rest[1] - 1 \subseteq Kept
    BY <1>2 DEF PolledInOrder
  <2>2. /\ Len(rest) = Len(polled) - 1 /\ DOMAIN rest = 1..Len(rest) /\ Len(rest) \in Nat
        /\ Len(rest) # 0 /\ \A i \in 1..Len(rest) : rest[i] = polled[i + 1]
    BY <1>1, <2>1
  <2> HIDE DEF rest
  <2>3. \A i \in 1..Len(rest) : /\ i + 1 \in 1..Len(polled) /\ (i + 1) - 1 = i
                                /\ 1 \in 1..Len(rest)
    BY <1>1, <2>2
  <2>4. \A i \in 1..Len(rest) : rest[i] = u + i
    BY <1>3, <2>2, <2>3
  <2>5. rest[1] = u + 1 /\ (u + 1) - 1 = u
    BY <1>1, <2>2, <2>3, <2>4
  <2>6. \A i \in 1..Len(rest) : u + i = (u + 1) + (i - 1)
    BY <1>1
  <2>7. QED BY <1>4, <2>2, <2>4, <2>5, <2>6
<1>8. QED BY <1>6, <1>7

LEMMA OffsetStays ==
    ASSUME TypeInv, FileInv, [Next]_vars, ~PowerLoss, SeenKept, PolledInOrder, Passed
    PROVE  PolledInOrder' /\ Passed'
<1>1. /\ Kept \subseteq Kept' /\ Poller \in Process
      /\ todo \in [Process -> Seq(1..arrived)] /\ pc \in [Process -> PC]
      /\ offset \in Nat /\ confirmed \in Nat /\ arrived \in Nat
  BY KeptStays, TypeParts, NumbersType DEF Working, Counted
<1>2. ASSUME todo'[Poller] = todo[Poller] PROVE PolledInOrder'
  BY <1>1, <1>2 DEF PolledInOrder
<1>3. ASSUME todo'[Poller] = <<>> PROVE PolledInOrder'
  BY <1>3 DEF PolledInOrder
<1>4. ASSUME offset' \in {0, offset}, confirmed' = confirmed PROVE Passed'
  BY <1>1, <1>4 DEF Passed
<1>5. CASE UNCHANGED vars \/ Arrive \/ \E c \in Chat : ReadTorn(c) \/ Read(c)
  <2>1. UNCHANGED <<todo, offset, confirmed>>
    BY <1>5 DEF vars, Arrive, ReadTorn, Read, memory
  <2>2. QED BY <1>2, <1>4, <2>1
<1>6. ASSUME confirmed' = Max({confirmed, offset}), offset' = offset
      PROVE  Passed' /\ 1..confirmed' \subseteq Kept
  <2>1. confirmed' = IF confirmed >= offset THEN confirmed ELSE offset
    BY <1>6, PollEffect
  <2>2. QED BY <1>1, <1>6, <2>1 DEF Passed
<1>7. CASE PollLost
  <2>1. todo' = todo /\ offset' = offset /\ confirmed' = Max({confirmed, offset})
    BY <1>7 DEF PollLost, memory
  <2>2. QED BY <1>2, <1>6, <2>1
<1>8. CASE Poll
  <2> DEFINE n == Min({PollLimit, arrived - confirmed'})
             answer == [i \in 1..n |-> confirmed' + i]
  <2>1. /\ todo' = [todo EXCEPT ![Poller] = answer] /\ offset' = offset
        /\ confirmed' = Max({confirmed, offset})
    BY <1>8 DEF Poll
  <2>2. PICK c \in Nat : c = confirmed'
    BY <2>1, PollEffect
  <2> HIDE DEF n
  <2>3. ASSUME answer # <<>>
        PROVE  /\ \A i \in DOMAIN answer : answer[i] = answer[1] + (i - 1)
               /\ 1..answer[1] - 1 \subseteq Kept
    <3>1. n \in 0..arrived - c /\ n \in Nat
      BY <1>1, <2>1, <2>2, PollEffect DEF n
    <3>2. DOMAIN answer = 1..n /\ n # 0 /\ \A i \in 1..n : answer[i] = c + i
      BY <2>2, <2>3, <3>1
    <3> HIDE DEF answer
    <3>3. answer[1] = c + 1
      BY <3>1, <3>2
    <3>4. (c + 1) - 1 = c /\ \A i \in 1..n : c + i = (c + 1) + (i - 1)
      BY <3>1
    <3>5. 1..c \subseteq Kept
      BY <1>6, <2>1, <2>2
    <3>6. QED BY <3>2, <3>3, <3>4, <3>5
  <2>4. todo'[Poller] = answer
    BY <1>1, <2>1
  <2> HIDE DEF answer
  <2>5. PolledInOrder'
    BY <1>1, <2>3, <2>4 DEF PolledInOrder
  <2>6. QED BY <1>6, <2>1, <2>5
<1>9. ASSUME NEW p \in Process, Start(p) \/ Reserve(p) \/ WriteRow(p) \/ SyncRow(p)
      PROVE  PolledInOrder' /\ Passed'
  <2>1. UNCHANGED <<todo, offset, confirmed>>
    BY <1>9 DEF Start, Reserve, WriteRow, SyncRow, memory
  <2>2. QED BY <1>2, <1>4, <2>1
<1>10. ASSUME NEW p \in Process, NEW m \in Update, Event(p, m)
       PROVE  PolledInOrder' /\ Passed'
  <2>1. p # Poller /\ todo' = [todo EXCEPT ![p] = <<m>>] /\ UNCHANGED <<offset, confirmed>>
    BY <1>10 DEF Event
  <2>2. QED BY <1>1, <1>2, <1>4, <2>1
<1>11. ASSUME NEW p \in Process, CheckSeen(p) \/ FoundStored(p) \/ SyncDir(p)
       PROVE  PolledInOrder' /\ Passed'
  <2>1. pc[p] \notin {"down", "idle"} /\ confirmed' = confirmed
    BY <1>11 DEF CheckSeen, FoundStored, SyncDir
  <2>2. CASE UNCHANGED <<todo, offset>>
    BY <1>2, <1>4, <2>1, <2>2
  <2>3. CASE /\ Safe(p)
             /\ \/ CheckSeen(p) /\ Head(todo[p]) \in ToSet(seen[p])
                \/ FoundStored(p)
                \/ SyncDir(p)
    <3>1. Head(todo[p]) \in Kept
      BY <1>1, <2>3, HeadKept
    <3>2. CASE p = Poller
      BY <1>1, <2>1, <2>3, <3>1, <3>2, PollerGoesOn
    <3>3. CASE p # Poller
      <4>1. todo'[Poller] = todo[Poller] /\ offset' = offset
        BY <1>1, <2>1, <2>3, <3>3, SafeEffect
      <4>2. QED BY <1>2, <1>4, <2>1, <4>1
    <3>4. QED BY <3>2, <3>3
  <2>4. QED BY <1>11, <2>2, <2>3 DEF CheckSeen, FoundStored, SyncDir
<1>12. ASSUME NEW p \in Process, StorageFailure(p) \/ Crash(p)
       PROVE  PolledInOrder' /\ Passed'
  <2>1. /\ offset' \in {0, offset} /\ confirmed' = confirmed
        /\ todo'[Poller] \in {<<>>, todo[Poller]}
    BY <1>1, <1>12 DEF StorageFailure, Fail, Crash, Forget
  <2>2. QED BY <1>2, <1>3, <1>4, <2>1
<1>13. QED
  BY <1>5, <1>7, <1>8, <1>9, <1>10, <1>11, <1>12 DEF Next, Ingest
-------------------------------------------------------------------------------
LEMMA InitNoLoss == Init => NoLossInv
<1> SUFFICES ASSUME Init PROVE NoLossInv
  OBVIOUS
<1>1. spool = <<>> /\ Len(spool) = 0 /\ spool \in Seq(Line) /\ DOMAIN spool = {}
  BY EmptySeq DEF Init
<1>2. Marks(spool) = {} /\ Rows(spool) = {}
  <2>1. 1..Len(spool) = {}
    BY <1>1
  <2>2. QED BY ZenonT(60), <1>1, <2>1, RowsMeaning DEF Marks
<1>3. Ordered(spool) /\ CursorSafe /\ WholeInv
  BY <1>1, <1>2 DEF Init, Ordered, CursorSafe, WholeInv, WholeLines, NoneTorn
<1>4. NumbersAhead /\ CursorsBehind /\ SeenKept /\ PolledInOrder
  BY NumbersType DEF Init, NumbersAhead, CursorsBehind, SeenKept, PolledInOrder
<1>5. OffsetSafe
  <2>1. Max({0, 0}) = 0
    BY MaxOfTwo
  <2>2. 1..Max({offset, confirmed}) = {}
    BY <2>1 DEF Init
  <2>3. QED BY <2>2 DEF OffsetSafe
<1>6. QED BY <1>3, <1>4, <1>5 DEF NoLossInv

LEMMA StepNoLoss ==
    ASSUME TypeInv, FileInv, NoLossInv, [Next]_vars
    PROVE  NoLossInv'
<1>1. SUFFICES ASSUME spent'.loss = 0
               PROVE  (/\ Ordered(spool) /\ NumbersAhead /\ CursorsBehind /\ CursorSafe
                       /\ SeenKept /\ PolledInOrder /\ OffsetSafe /\ WholeInv)'
  BY DEF NoLossInv
<1>2. spent.loss = 0 /\ ~PowerLoss
  BY <1>1, NoLossStep
<1>3. /\ Ordered(spool) /\ NumbersAhead /\ CursorsBehind /\ CursorSafe
      /\ SeenKept /\ PolledInOrder /\ OffsetSafe /\ WholeInv
  BY <1>2 DEF NoLossInv
<1>4. TypeInv' /\ spool' \in Seq(Line) /\ spool \in Seq(Line)
  BY StepType DEF TypeInv, TypeOK
<1>5. Ahead
  BY <1>2, <1>3, <1>4, CursorMeaning DEF Ahead, CursorSafe
<1>6. Ahead' /\ WholeInv' => CursorSafe'
  <2>1. \A row \in Rows(spool') : <<row.msg, row.seq>> \in Marks(spool')
    BY DEF Marks
  <2>2. Ahead' => \A row \in Rows(spool') : \/ <<row.msg, row.seq>> \in read' \cup skipped'
                                             \/ row.seq > cursor'[ChatOf[row.msg]]
    BY <2>1 DEF Ahead
  <2>3. QED BY <2>2 DEF CursorSafe, WholeInv
<1>7. Passed
  BY <1>2, <1>3, PassedMeaning DEF OffsetSafe
<1>8. Passed' => OffsetSafe'
  BY <1>4, PassedMeaning, PTL DEF OffsetSafe
<1>9. QED
  BY <1>2, <1>3, <1>5, <1>6, <1>7, <1>8, OrderStays, CursorsStay, SeenStays, OffsetStays,
     WholeStays

\* The rows stand in the order of their numbers, and no message has two, until power is lost.
THEOREM SpoolInOrder == Spec => []SpoolOrdered
<1>1. Init => TypeInv /\ FileInv /\ NoLossInv
  BY InitType, InitFile, InitNoLoss
<1>2. TypeInv /\ FileInv /\ NoLossInv /\ [Next]_vars => TypeInv' /\ FileInv' /\ NoLossInv'
  BY StepType, StepNoLoss
<1>3. NoLossInv => SpoolOrdered
  BY DEF NoLossInv, SpoolOrdered, Ordered
<1>4. QED BY <1>1, <1>2, <1>3, PTL DEF Spec

\* Until power is lost, a row lies behind its reader's cursor only if the reader was given
\* it, or was in the middle of a torn line where it was written; until something fails, the
\* latter has not happened to any row.
THEOREM CursorSkipsNothing == Spec => []CursorSafe
<1>1. Init => TypeInv /\ FileInv /\ NoLossInv
  BY InitType, InitFile, InitNoLoss
<1>2. TypeInv /\ FileInv /\ NoLossInv /\ [Next]_vars => TypeInv' /\ FileInv' /\ NoLossInv'
  BY StepType, StepNoLoss
<1>3. NoLossInv => CursorSafe
  BY DEF NoLossInv, CursorSafe
<1>4. QED BY <1>1, <1>2, <1>3, PTL DEF Spec

\* Every update the offset has passed has its row or was rotated out, until power is lost.
THEOREM OffsetPassesStored == Spec => []OffsetSafe
<1>1. Init => TypeInv /\ FileInv /\ NoLossInv
  BY InitType, InitFile, InitNoLoss
<1>2. TypeInv /\ FileInv /\ NoLossInv /\ [Next]_vars => TypeInv' /\ FileInv' /\ NoLossInv'
  BY StepType, StepNoLoss
<1>3. NoLossInv => OffsetSafe
  BY DEF NoLossInv, OffsetSafe
<1>4. QED BY <1>1, <1>2, <1>3, PTL DEF Spec
===============================================================================
