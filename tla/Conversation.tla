------------------------------ MODULE Conversation ------------------------------
(***************************************************************************)
(* What the engagement cycle makes of the messages of one chat before it   *)
(* asks the decider: coalesce_candidates (engage.py) merges the bursts of  *)
(* a sender into candidates, build_threads (thread.py) collects the scene  *)
(* of each.  Both are pure; what is hard is how their results change while *)
(* messages keep coming, so the spool grows here by one message at a time, *)
(* not always in the order Telegram numbered them nor of one clock.        *)
(***************************************************************************)
EXTENDS Integers, SequencesExt

CONSTANTS
    Sender,     \* who writes
    Nobody,     \* the sender of an anonymous message
    Main,       \* the topic_id of a message outside any forum topic
    Saying,     \* bound: what may be said, see Message
    MaxSpool,   \* bound: messages, numbered 1..MaxSpool by Telegram
    MaxGap,     \* COALESCE_MAX_GAP_SECONDS
    MaxJoin,    \* COALESCE_MAX_JOIN
    MaxTurns,   \* THREAD_MAX_TURNS
    ChainCap    \* CHAIN_DEPTH_CAP

Id == 1..MaxSpool
\* What a message says to whom: nothing, the agent's name, its handle, a reply to it,
\* the handle of somebody else; or it is a slash command.
Cue == {"none", "name", "mention", "reply", "other", "command"}
\* gap is the clock's advance since the previous row, negative if the clocks of two
\* readers disagree; parent the message replied to, 0 for none.
Message == [id: Id, sender: Sender \cup {Nobody}, topic: Id \cup {Main}, parent: 0..MaxSpool,
            cue: Cue, ts: Int]
SayingOK(s) == /\ s.sender \in Sender \cup {Nobody} /\ s.topic \in Id \cup {Main}
               /\ s.cue \in Cue /\ s.reply \in BOOLEAN /\ s.gap \in Int

ASSUME ConversationAssumption ==
    /\ MaxSpool \in Nat /\ Nobody \notin Sender /\ Main \notin Id
    /\ {MaxGap, MaxJoin, MaxTurns, ChainCap} \subseteq Nat \ {0}
    /\ \A s \in Saying : SayingOK(s)

VARIABLE spool      \* the rows of the chat; a row's spool_seq is its index

Start == 1000       \* an arbitrary first timestamp
SpoolSeq(r) == CHOOSE i \in DOMAIN spool : spool[i] = r
Earlier(r, s) == r.ts < s.ts \/ (r.ts = s.ts /\ r.id < s.id)
Sorted(rows) ==
    [k \in 1..Cardinality(rows) |->
        CHOOSE r \in rows : Cardinality({s \in rows : Earlier(s, r)}) = k - 1]
Newest(rows, n) == {r \in rows : Cardinality({s \in rows : Earlier(r, s)}) < n}
-------------------------------------------------------------------------------
(* Bursts.                                                                  *)

Rank(r) == CASE r.cue = "reply" -> 3 [] r.cue = "mention" -> 2 [] r.cue = "name" -> 1
             [] OTHER -> 0

\* Whom a message is aimed at, as far as its structure tells: <<>> if it does not.
Target(r) == CASE r.cue \in {"reply", "mention"} -> <<"self">>
               [] r.cue = "other"                -> <<"handles">>
               [] r.parent # 0                   -> <<"reply", r.parent>>
               [] OTHER                          -> <<>>

SameFloor(r, s) == Target(r) = <<>> \/ Target(s) = <<>> \/ Target(r) = Target(s)

Joins(burst, r) ==
    LET last == Last(burst)
    IN  /\ r.sender # Nobody /\ last.sender = r.sender /\ last.topic = r.topic
        /\ SameFloor(last, r) /\ Len(burst) < MaxJoin /\ r.ts - last.ts =< MaxGap

\* A mutant of WithNext: a message joins the last burst of its sender.
WithNextBySender(bursts, r) ==
    LET open == {i \in DOMAIN bursts : Joins(bursts[i], r)}
    IN  IF open # {} THEN [bursts EXCEPT ![Max(open)] = Append(@, r)] ELSE Append(bursts, <<r>>)

\* The next message in the order of time joins the last burst or starts one.
WithNext(bursts, r) ==
    IF bursts # <<>> /\ Joins(Last(bursts), r)
    THEN [bursts EXCEPT ![Len(bursts)] = Append(@, r)]
    ELSE Append(bursts, <<r>>)

\* The candidates, each the sequence of its fragments; commands are none.
Bursts(sorted) ==
    LET upto[n \in 0..Len(sorted)] == IF n = 0 THEN <<>> ELSE WithNext(upto[n - 1], sorted[n])
    IN  upto[Len(sorted)]
Coalesced(rows) == Bursts(Sorted({r \in ToSet(rows) : r.cue # "command"}))

\* The first of the strongest cues, or the last fragment when nothing is addressed.
AnchorLast(burst) == Last(burst)    \* a mutant of Anchor
Anchor(burst) ==
    LET strongest == {i \in DOMAIN burst : \A j \in DOMAIN burst : Rank(burst[j]) =< Rank(burst[i])}
        first == burst[Min(strongest)]
    IN  IF Rank(first) > 0 THEN first ELSE Last(burst)
-------------------------------------------------------------------------------
(* The scene of a candidate: rows of its topic, the reply path first.        *)

ForumRoots(rows) == {r.topic : r \in rows} \ {Main}

\* A mutant of InTopic: every row without a topic belongs to the main floor.
InTopicAll(rows, topic, r) == IF topic = Main THEN r.topic = Main
                              ELSE r.topic = topic \/ r.id = topic

\* A forum root carries no topic and belongs to the floor it opens.
InTopic(rows, topic, r) == IF topic = Main THEN r.topic = Main /\ r.id \notin ForumRoots(rows)
                           ELSE r.topic = topic \/ r.id = topic

\* A mutant of BeforeCandidate: message ids stand for time.
BeforeById(r, burst) == r.id < Last(burst).id

\* A candidate carries the time of its last fragment and the id of its anchor.
BeforeCandidate(r, burst) ==
    \/ r.ts < Last(burst).ts
    \/ r.ts = Last(burst).ts /\ r.id < Anchor(burst).id

Parents(floor, rows) == {r \in floor : \E s \in rows : s.parent = r.id}
Ancestry(floor, row) ==
    LET up[n \in 0..ChainCap] == IF n = 0 THEN floor \cap {row} ELSE Parents(floor, up[n - 1])
    IN  UNION {up[n] : n \in 1..ChainCap}

\* What the sender said before, and the last turns of everybody.
Nearby(floor, burst) ==
    LET before == {r \in floor : BeforeCandidate(r, burst)}
    IN  {r \in before : r.sender = Last(burst).sender /\ r.sender # Nobody}
          \cup Newest(before, MaxTurns)

\* A mutant of Collected: the reply path competes with its neighborhood.
CollectedTogether(path, context) == Newest(path \cup context, MaxTurns)

\* The reply path has its turns reserved; context takes the rest.
Collected(path, context) ==
    LET chain == Newest(path, MaxTurns)
    IN  chain \cup Newest(context \ path, MaxTurns - Cardinality(chain))

Scene(rows, burst) ==
    LET floor == {r \in rows : InTopic(rows, Last(burst).topic, r)}
    IN  Collected(Ancestry(floor, Anchor(burst)), Nearby(floor, burst) \ {Anchor(burst)})
-------------------------------------------------------------------------------
Posted == {r.id : r \in ToSet(spool)}
Clock == IF spool = <<>> THEN Start ELSE Last(spool).ts

Topics == {s.topic : s \in Saying} \ {Main}

\* A reader spools a message: one of the two oldest it has not seen (readers overtake
\* each other), a reply to any older message, one of a topic after the topic's root.
\* A topic is named after its root, which lies in no topic and replies to nothing.
Post ==
    \E s \in Saying, m \in Id \ Posted :
    \E parent \in IF s.reply THEN 1..m - 1 ELSE {0} :
       /\ Cardinality({i \in Id \ Posted : i < m}) < 2
       /\ s.topic = Main \/ s.topic < m
       /\ m \in Topics => s.topic = Main /\ ~s.reply
       /\ spool' = Append(spool, [id |-> m, sender |-> s.sender, topic |-> s.topic,
                                  parent |-> parent, cue |-> s.cue, ts |-> Clock + s.gap])

ConversationInit == spool = <<>>
ConversationNext == Post
ConversationSpec == ConversationInit /\ [][ConversationNext]_spool
-------------------------------------------------------------------------------
(* Properties.                                                              *)

\* The rows lie in the spool in the order of their times.
ClockAgrees(rows) == \A i, j \in DOMAIN rows : i < j => Earlier(rows[i], rows[j])

\* Every message but a command is a fragment of one candidate, whatever the clocks say.
\* A lane's cursor is the spool_seq of a candidate: while the spool is in the order of
\* time no fragment of another candidate of its lane lies among its fragments, so a
\* cursor never stands in the middle of a candidate, which would lose its beginning.
FragmentsTogether ==
    LET of(c) == {SpoolSeq(r) : r \in ToSet(c)}
        all == Coalesced(spool)
    IN  /\ \A r \in ToSet(spool) : r.cue # "command" =>
             \E i \in DOMAIN all : \A j \in DOMAIN all : r \in ToSet(all[j]) <=> j = i
        /\ ClockAgrees(spool) =>
             \A i, j \in DOMAIN all :
                i # j /\ Last(all[i]).topic = Last(all[j]).topic =>
                  ~\E n \in of(all[j]) : Min(of(all[i])) < n /\ n < Max(of(all[i]))

\* The ledger knows a candidate by its anchor: a message that comes in the order of time
\* changes no candidate but the last, may extend that one, and takes over the anchor of
\* an addressed one only with a stronger cue.
BurstGrows ==
    [][LET old == Coalesced(spool)
           new == Coalesced(spool')
           n == Len(old)
       IN  ClockAgrees(spool') /\ n > 0 =>
             /\ SubSeq(new, 1, n - 1) = Front(old)
             /\ IsPrefix(old[n], new[n])
             /\ Rank(Anchor(old[n])) > 0 /\ Anchor(new[n]) # Anchor(old[n]) =>
                  Rank(Anchor(new[n])) > Rank(Anchor(old[n]))]_spool

\* "A burst in a neighboring floor must never evict the parent": the message an anchor
\* replies to, when it lies on its floor and no reader overtook another, is in the
\* scene however busy the floor is, and no scene is above its budget of turns.
ParentInScene ==
    LET rows == ToSet(spool)
        all == ToSet(Coalesced(spool))
    IN  /\ \A c \in all : Cardinality(Scene(rows, c)) =< MaxTurns
        /\ ClockAgrees(spool) /\ (\A i, j \in DOMAIN spool : i < j => spool[i].id < spool[j].id) =>
             \A c \in all : \A r \in rows :
                r.id = Anchor(c).parent /\ InTopic(rows, Last(c).topic, r) =>
                  r \in Scene(rows, c)

\* "Never leak later group messages into an earlier decision scene": a message newer than
\* a candidate enters its scene only as an ancestor.
NoLaterTurns ==
    LET rows == ToSet(spool)
    IN  \A c \in ToSet(Coalesced(spool)) : \A r \in Scene(rows, c) :
          r.ts > Last(c).ts =>
             r \in Ancestry({s \in rows : InTopic(rows, Last(c).topic, s)}, Anchor(c))

\* A forum topic is a hard boundary: no row is evidence on two floors, not even the
\* root that opens one.
FloorsApart ==
    LET rows == ToSet(spool)
        all == ToSet(Coalesced(spool))
    IN  \A c, d \in all : Last(c).topic # Last(d).topic => Scene(rows, c) \cap Scene(rows, d) = {}
===============================================================================
