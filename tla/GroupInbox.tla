------------------------------- MODULE GroupInbox -------------------------------
(***************************************************************************)
(* telegram_presence/inbox.py and the polling loop that feeds it           *)
(* (transports/bot_api.py, poll_updates; transports/telethon.py,           *)
(* on_group_message): a bounded jsonl spool with a sequence sidecar, shared *)
(* by processes under a file lock.  The steps of one append that reach the *)
(* disk are steps of the model; readers do not take the lock.              *)
(***************************************************************************)
EXTENDS Integers, SequencesExt

CONSTANTS
    Process,        \* processes that ingest
    Poller,         \* the one that polls the Bot API; the others get events
    Chat,           \* allowed chats
    ChatOf,         \* the chat of each update
    Updates,        \* bound: how many updates arrive; an update is its number
    PollLimit,      \* the limit of one getUpdates call
    ReadLimit,      \* the limit of one read of pending rows
    SpoolRows,      \* MAX_SPOOL_BYTES, in rows; a row never takes it all
    RetainRows,     \* MAX_SPOOL_RETAIN_ROWS
    SeenIds,        \* MAX_SEEN_IDS
    MaxEvents,      \* bound: events of the client, replays included
    MaxFailures,    \* bound: failing disk operations and process crashes
    MaxPowerLosses, \* bound: power losses
    MaxFaults,      \* bound: failures, crashes and power losses together
    None            \* nobody holds the storage lock

Update == 1..Updates

\* A line of the spool: complete, complete but for its newline, torn, torn in the
\* middle of a character, or made of a row written behind an incomplete line.
Text == {"whole", "bare", "torn", "cut", "garbled"}
Line == [msg: Update, seq: Nat, text: Text]

ASSUME InboxAssumption ==
    /\ Poller \in Process /\ None \notin Process
    /\ {Updates, PollLimit, ReadLimit, RetainRows, SeenIds} \subseteq Nat \ {0}
    /\ SpoolRows \in Nat /\ SpoolRows > 1
    /\ ChatOf \in [Update -> Chat]
    /\ {MaxEvents, MaxFailures, MaxPowerLosses, MaxFaults} \subseteq Nat

VARIABLES
    spool,      \* the lines of the file
    synced,     \* how many of them an fsync has made durable
    linked,     \* an fsync of the directory has made the file's name durable
    seqno,      \* the number in the sidecar; 0: there is no sidecar
    seqSynced,  \* the number a power loss may bring back
    lock,       \* the holder of the storage lock
    pc,         \* where each process is
    todo,       \* the updates it still has to ingest, the current one first
    reserved,   \* the sequence number it reserved
    seen,       \* its cache of known message ids, the oldest first
    offset,     \* the update up to which nothing need be delivered (in memory)
    confirmed,  \* the same, as Telegram was told
    arrived,    \* the latest update
    torn,       \* the place where each chat's reader has a torn line in its buffer, or 0
    cursor,     \* the highest spool_seq each chat's reader has consumed
    read,       \* history: the rows given to the reader
    skipped,    \* history: the rows it took for the rest of a torn line, and passed
    written,    \* history: updates ingested with the outcome "written"
    dropped,    \* history: updates whose lines were rotated out
    spent       \* the bounds used up

file == <<spool, synced, linked, dropped, torn>>
sidecar == <<seqno, seqSynced>>
memory == <<todo, reserved, seen, offset>>
reader == <<cursor, read, skipped>>
vars == <<file, sidecar, lock, pc, memory, confirmed, arrived, reader, written, spent>>

PC == {"down", "idle", "check", "append", "write", "sync", "syncdir"}
Holding == {"write", "sync", "syncdir"}

\* The variables' types; a process at work has an update, and whoever is inside
\* the append holds the lock.
TypeOK ==
    /\ spool \in Seq(Line)
    /\ synced \in 0..Len(spool) /\ linked \in BOOLEAN
    /\ seqno \in Nat /\ seqSynced \in Nat /\ reserved \in [Process -> Nat]
    /\ lock \in Process \cup {None}
    /\ pc \in [Process -> PC]
    /\ todo \in [Process -> Seq(Update)] /\ seen \in [Process -> Seq(Update)]
    /\ \A p \in Process : /\ pc[p] \notin {"down", "idle"} => todo[p] # <<>>
                          /\ pc[p] \in Holding <=> lock = p
                          /\ Len(seen[p]) =< SeenIds
    /\ {offset, confirmed, arrived} \subseteq 0..Updates
    /\ torn \in [Chat -> Nat] /\ cursor \in [Chat -> Nat]
    /\ read \cup skipped \subseteq Update \X Nat
    /\ written \subseteq Update /\ dropped \subseteq Update
    /\ spent \in [{"event", "failure", "loss"} -> Nat]

Init ==
    /\ spool = <<>> /\ synced = 0 /\ linked = FALSE /\ seqno = 0 /\ seqSynced = 0
    /\ lock = None
    /\ pc = [p \in Process |-> "down"]
    /\ todo = [p \in Process |-> <<>>] /\ seen = [p \in Process |-> <<>>]
    /\ reserved = [p \in Process |-> 0]
    /\ offset = 0 /\ confirmed = 0 /\ arrived = 0
    /\ torn = [c \in Chat |-> 0] /\ cursor = [c \in Chat |-> 0]
    /\ read = {} /\ skipped = {} /\ written = {} /\ dropped = {}
    /\ spent = [event |-> 0, failure |-> 0, loss |-> 0]

Goto(p, label) == pc' = [pc EXCEPT ![p] = label]

Spend(kind, bound) ==
    /\ spent[kind] < bound
    /\ kind = "event" \/ spent.failure + spent.loss < MaxFaults
    /\ spent' = [spent EXCEPT ![kind] = @ + 1]

Readable(line) == line.text \in {"whole", "bare"}
Ended(line) == line.text \in {"whole", "garbled"}
Rows(lines) == {line \in ToSet(lines) : Readable(line)}
Stored(lines) == {row.msg : row \in Rows(lines)}

\* No reader gets through a file that ends in the middle of a character.
Decodable(lines) == \A line \in ToSet(lines) : line.text # "cut"

Newest(s, n) == SubSeq(s, Len(s) - Min({Len(s), n}) + 1, Len(s))
-------------------------------------------------------------------------------
(* Processes and updates.                                                  *)

\* A new update exists, in some allowed chat.
Arrive ==
    /\ arrived < Updates
    /\ arrived' = arrived + 1
    /\ UNCHANGED <<file, sidecar, lock, pc, memory, confirmed, reader, written, spent>>

\* The constructor reads the ids of the last lines, without the lock.
Start(p) ==
    /\ pc[p] = "down"
    /\ LET tail == Newest(spool, SeenIds)
           rows == {i \in DOMAIN tail : Decodable(spool) /\ Readable(tail[i])}
           n == Cardinality(rows)
       IN \E place \in [1..n -> rows] :
            /\ \A i, j \in 1..n : i < j => place[i] < place[j]
            /\ seen' = [seen EXCEPT ![p] = [i \in 1..n |-> tail[place[i]].msg]]
    /\ Goto(p, "idle")
    /\ UNCHANGED <<file, sidecar, lock, todo, reserved, offset, confirmed, arrived,
                   reader, written, spent>>

\* getUpdates: the offset tells Telegram what it need not keep, and the answer
\* holds the updates behind it.
Poll ==
    /\ pc[Poller] = "idle"
    /\ confirmed' = Max({confirmed, offset})
    /\ LET n == Min({PollLimit, arrived - confirmed'})
       IN /\ todo' = [todo EXCEPT ![Poller] = [i \in 1..n |-> confirmed' + i]]
          /\ Goto(Poller, IF n = 0 THEN "idle" ELSE "check")
    /\ UNCHANGED <<file, sidecar, lock, reserved, seen, offset, arrived, reader,
                   written, spent>>

\* The answer to getUpdates is lost.
PollLost ==
    /\ pc[Poller] = "idle"
    /\ confirmed' = Max({confirmed, offset})
    /\ UNCHANGED <<file, sidecar, lock, pc, memory, arrived, reader, written, spent>>

\* A NewMessage handler; the client may replay an event.
Event(p, m) ==
    /\ pc[p] = "idle" /\ p # Poller /\ m =< arrived
    /\ todo' = [todo EXCEPT ![p] = <<m>>]
    /\ Goto(p, "check")
    /\ Spend("event", MaxEvents)
    /\ UNCHANGED <<file, sidecar, lock, reserved, seen, offset, confirmed, arrived,
                   reader, written>>
-------------------------------------------------------------------------------
(* ingest_message: the steps of one append.                                *)

\* The outcome is safe to ACK: the poller's offset passes the update.
Safe(p) ==
    /\ offset' = IF p = Poller THEN Max({offset, Head(todo[p])}) ELSE offset
    /\ todo' = [todo EXCEPT ![p] = Tail(@)]
    /\ Goto(p, IF Tail(todo[p]) = <<>> THEN "idle" ELSE "check")

\* A mutant of Fail: the batch goes on behind a storage failure.
FailOnwards(p) ==
    /\ todo' = [todo EXCEPT ![p] = Tail(@)]
    /\ Goto(p, IF Tail(todo[p]) = <<>> THEN "idle" ELSE "check")
    /\ UNCHANGED offset

\* A storage failure ends the batch and leaves the offset.
Fail(p) ==
    /\ todo' = [todo EXCEPT ![p] = <<>>]
    /\ Goto(p, "idle")
    /\ UNCHANGED offset

\* A mutant of Remember: the cache grows.
RememberAll(p) == seen' = [seen EXCEPT ![p] = Append(@, Head(todo[p]))]

Remember(p) == seen' = [seen EXCEPT ![p] = Newest(Append(@, Head(todo[p])), SeenIds)]

\* A message in the cache is a duplicate.
CheckSeen(p) ==
    /\ pc[p] = "check"
    /\ \/ Head(todo[p]) \in ToSet(seen[p]) /\ Safe(p)
       \/ /\ Head(todo[p]) \notin ToSet(seen[p])
          /\ Goto(p, "append")
          /\ UNCHANGED <<todo, offset>>
    /\ UNCHANGED <<file, sidecar, lock, reserved, seen, confirmed, arrived, reader,
                   written, spent>>

\* A mutant of Repaired: the tail is left as it is.
RepairedNot(lines) == lines

\* A torn last line is cut off; a row that lacks only its newline is completed.
Repaired(lines) ==
    IF lines = <<>> \/ Ended(Last(lines)) THEN lines
    ELSE LET rest == Front(lines)
         IN IF Readable(Last(lines))
            THEN Append(rest, [Last(lines) EXCEPT !.text = "whole"])
            ELSE rest

Highest(lines) == Max({0} \cup {row.seq : row \in Rows(lines)})

SyncDirectory == linked' = TRUE /\ seqSynced' = seqno

\* The repair, which ends in an fsync, comes before the lookup.
Repair == /\ spool' = Repaired(spool)
          /\ synced' = IF spool' = spool THEN synced ELSE Len(spool')

\* A message found in the file is a duplicate, for which the directory is synced.
FoundStored(p) ==
    /\ pc[p] = "append" /\ lock = None
    /\ Head(todo[p]) \in Stored(spool)
    /\ Repair /\ SyncDirectory
    /\ Remember(p) /\ Safe(p)
    /\ UNCHANGED <<seqno, dropped, torn, lock, reserved, confirmed, arrived, reader,
                   written, spent>>

\* The sidecar's number; the spool's highest one if there is no sidecar.
LastSeq == IF seqno = 0 THEN Highest(spool) ELSE seqno

\* A mutant of Reserve: the storage lock is not taken.
ReserveUnlocked(p) ==
    /\ pc[p] = "append"
    /\ Head(todo[p]) \notin Stored(spool)
    /\ Repair
    /\ seqno' = LastSeq + 1
    /\ reserved' = [reserved EXCEPT ![p] = seqno']
    /\ Goto(p, "write")
    /\ UNCHANGED <<linked, dropped, torn, seqSynced, lock, todo, seen, offset, confirmed,
                   arrived, reader, written, spent>>

\* The next number goes to the sidecar; its new name is not yet durable.
Reserve(p) ==
    /\ pc[p] = "append" /\ lock = None
    /\ Head(todo[p]) \notin Stored(spool)
    /\ Repair
    /\ \/ seqno' = LastSeq + 1 /\ UNCHANGED spent
       \/ seqno' = Highest(spool) + 1 /\ Spend("failure", MaxFailures)   \* unreadable
    /\ reserved' = [reserved EXCEPT ![p] = seqno']
    /\ lock' = p /\ Goto(p, "write")
    /\ UNCHANGED <<linked, dropped, torn, seqSynced, todo, seen, offset, confirmed,
                   arrived, reader, written>>

\* A full file is replaced by its newest rows.
Room(lines) ==
    IF Len(lines) < SpoolRows THEN lines
    ELSE Newest(lines, Min({RetainRows, SpoolRows - 1}))

\* No reader has a torn line of the current file in its buffer.
NoneTorn == [c \in Chat |-> 0]

\* The replacement is durable, and so is the directory with it.  A reader of the file
\* it replaces has read what Read gives it in one step before the rotation.
Rotate ==
    LET full == Len(spool) >= SpoolRows
    IN /\ synced' = IF full THEN Len(Room(spool)) ELSE synced
       /\ linked' = (full \/ linked)
       /\ seqSynced' = IF full THEN seqno ELSE seqSynced
       /\ dropped' = dropped \cup (Stored(spool) \ Stored(Room(spool)))
       /\ torn' = IF full THEN NoneTorn ELSE torn

\* Bytes that follow an incomplete line join it, and neither can be read.
Extended(lines, line) ==
    IF lines = <<>> \/ Ended(Last(lines)) THEN Append(lines, line)
    ELSE [lines EXCEPT ![Len(lines)].text = IF Ended(line) THEN "garbled" ELSE line.text]

RowOf(p, text) == [msg |-> Head(todo[p]), seq |-> reserved[p], text |-> text]

\* Rotation, then the row in one write.
WriteRow(p) ==
    /\ pc[p] = "write"
    /\ Rotate
    /\ spool' = Extended(Room(spool), RowOf(p, "whole"))
    /\ Goto(p, "sync")
    /\ UNCHANGED <<seqno, lock, memory, confirmed, arrived, reader, written, spent>>

\* A mutant of SyncRow: the file is not synced.
SyncRowLater(p) ==
    /\ pc[p] = "sync"
    /\ Goto(p, "syncdir")
    /\ UNCHANGED <<file, sidecar, lock, memory, confirmed, arrived, reader, written,
                   spent>>

SyncRow(p) ==
    /\ pc[p] = "sync"
    /\ synced' = Len(spool)
    /\ Goto(p, "syncdir")
    /\ UNCHANGED <<spool, linked, dropped, torn, sidecar, lock, memory, confirmed, arrived,
                   reader, written, spent>>

\* The outcome is "written".
SyncDir(p) ==
    /\ pc[p] = "syncdir"
    /\ SyncDirectory
    /\ lock' = None
    /\ Remember(p) /\ Safe(p)
    /\ written' = written \cup {Head(todo[p])}
    /\ UNCHANGED <<spool, synced, dropped, torn, seqno, reserved, confirmed, arrived,
                   reader, spent>>

\* What a write that is cut short leaves in the file.
CutShort(p) == {Extended(Room(spool), RowOf(p, text)) : text \in {"torn", "cut", "bare"}}

\* An exception inside the append: a full disk, an I/O error.
StorageFailure(p) ==
    /\ pc[p] \in Holding \cup {"append"}
    /\ Spend("failure", MaxFailures)
    /\ \/ UNCHANGED <<file, sidecar>>
       \/ /\ pc[p] = "write" /\ Rotate
          /\ spool' \in {Room(spool)} \cup CutShort(p)
          /\ UNCHANGED seqno
    /\ lock' = IF lock = p THEN None ELSE lock
    /\ Fail(p)
    /\ UNCHANGED <<reserved, seen, confirmed, arrived, reader, written>>
-------------------------------------------------------------------------------
(* The reader of one chat: pending(after_seq, chat, limit, oldest_first),  *)
(* and the cursor moved to the highest number it returned.  The file is    *)
(* read in chunks, without the lock.  Complete lines stay as they are, so  *)
(* that chunks show what one step shows, but for a torn last line: while   *)
(* a reader has it in its buffer, an append may cut it off and put rows in *)
(* its place, and the reader goes on in the middle of one of them.         *)

\* The lines that a reader of the chat has not consumed, by their place in the file.
Unread(c) == {i \in DOMAIN spool : /\ Decodable(spool) /\ Readable(spool[i])
                                  /\ spool[i].seq > cursor[c]
                                  /\ ChatOf[spool[i].msg] = c}

\* A chunk ends with the torn last line.
ReadTorn(c) ==
    /\ spool # <<>> /\ ~Ended(Last(spool)) /\ ~Readable(Last(spool))
    /\ torn' = [torn EXCEPT ![c] = Len(spool)]
    /\ UNCHANGED <<spool, synced, linked, dropped, sidecar, lock, pc, memory, confirmed,
                   arrived, reader, written, spent>>

\* The places that a reader does not see: none if it starts now, else the lines from
\* the torn one's place to the one in which its next chunk begins.
Unseen(c) ==
    {{}} \cup (IF torn[c] = 0 THEN {} ELSE {torn[c]..last : last \in torn[c]..Len(spool)})

\* A mutant of Batch: the newest rows.
BatchNewest(places) ==
    {i \in places : Cardinality({j \in places : j >= i}) =< ReadLimit}

Batch(places) == {i \in places : Cardinality({j \in places : j =< i}) =< ReadLimit}

RowsAt(places) == {<<spool[i].msg, spool[i].seq>> : i \in places}

Read(c) ==
    \E unseen \in Unseen(c) :
      LET batch == Batch(Unread(c) \ unseen)
      IN  /\ batch # {}
          /\ cursor' = [cursor EXCEPT ![c] = Max({spool[i].seq : i \in batch})]
          /\ read' = read \cup RowsAt(batch)
          /\ skipped' = skipped \cup RowsAt({i \in Unread(c) \cap unseen :
                                               spool[i].seq =< cursor'[c]})
          /\ torn' = [torn EXCEPT ![c] = 0]
          /\ UNCHANGED <<spool, synced, linked, dropped, sidecar, lock, pc, memory,
                         confirmed, arrived, written, spent>>
-------------------------------------------------------------------------------
(* Failures.                                                               *)

Forget(P) ==
    /\ pc' = [p \in Process |-> IF p \in P THEN "down" ELSE pc[p]]
    /\ todo' = [p \in Process |-> IF p \in P THEN <<>> ELSE todo[p]]
    /\ seen' = [p \in Process |-> IF p \in P THEN <<>> ELSE seen[p]]
    /\ reserved' = [p \in Process |-> IF p \in P THEN 0 ELSE reserved[p]]
    /\ offset' = IF Poller \in P THEN 0 ELSE offset
    /\ lock' = IF lock \in P THEN None ELSE lock

\* A process dies, in the middle of a write perhaps; the system drops its lock.
Crash(p) ==
    /\ pc[p] # "down" /\ Spend("failure", MaxFailures)
    /\ \/ UNCHANGED <<file, sidecar>>
       \/ /\ pc[p] = "write" /\ Rotate
          /\ spool' \in {Room(spool)} \cup CutShort(p)
          /\ UNCHANGED seqno
    /\ Forget({p})
    /\ UNCHANGED <<confirmed, arrived, reader, written>>

\* The machine loses power: of what was not synced, any prefix of the lines may
\* be left, the last one torn, and the rename of the sidecar may be undone.
PowerLoss ==
    /\ Spend("loss", MaxPowerLosses)
    /\ \E kept \in (IF linked THEN {} ELSE {0}) \cup synced..Len(spool) :
         \/ spool' = SubSeq(spool, 1, kept)
         \/ /\ kept > synced
            /\ \E text \in {"torn", "cut"} :
                 spool' = [SubSeq(spool, 1, kept) EXCEPT ![kept].text = text]
    /\ synced' = Len(spool') /\ linked' = (linked \/ spool' # <<>>)
    /\ seqno' \in {seqSynced, seqno} /\ seqSynced' = seqno'
    /\ Forget(Process)
    /\ torn' = NoneTorn
    /\ UNCHANGED <<dropped, confirmed, arrived, reader, written>>

Ingest(p) == \/ CheckSeen(p) \/ FoundStored(p) \/ Reserve(p)
             \/ WriteRow(p) \/ SyncRow(p) \/ SyncDir(p)

Next ==
    \/ Arrive \/ Poll \/ PollLost \/ PowerLoss
    \/ \E p \in Process : \/ Start(p) \/ Ingest(p) \/ StorageFailure(p) \/ Crash(p)
                          \/ \E m \in Update : Event(p, m)
    \/ \E c \in Chat : ReadTorn(c) \/ Read(c)

Spec == Init /\ [][Next]_vars

(* The host restarts its processes and goes on polling and reading; an     *)
(* append runs to its end.  Nothing is assumed of who gets the lock.       *)
Fairness ==
    /\ WF_vars(Poll)
    /\ \A p \in Process : WF_vars(Start(p)) /\ WF_vars(Ingest(p))
    /\ \A c \in Chat : WF_vars(Read(c))

FairSpec == Spec /\ Fairness
-------------------------------------------------------------------------------
(* Properties.                                                             *)

\* "A monotonic spool_seq cursor written under the storage lock": the rows stand
\* in the order of their numbers, which differ, and a message has one row; unless power
\* was lost, which may undo the rename of the sidecar and keep the row it numbered.
SpoolOrdered ==
    spent.loss = 0 => \A i, j \in DOMAIN spool :
        i < j /\ Readable(spool[i]) /\ Readable(spool[j]) =>
          spool[i].seq < spool[j].seq /\ spool[i].msg # spool[j].msg

\* "Advancing their cursor cannot skip backlog" (pending): a row in the spool that
\* its chat's reader has not been given is ahead of the reader's cursor, unless the
\* reader was in the middle of a torn line where the row was written, which takes a
\* write that failed or was cut off; or a loss of power made the numbers start again.
CursorSafe ==
    spent.loss = 0 =>
      /\ spent.failure = 0 => skipped = {}
      /\ \A row \in Rows(spool) : \/ <<row.msg, row.seq>> \in read \cup skipped
                                   \/ row.seq > cursor[ChatOf[row.msg]]

\* "A storage failure is the only outcome that must leave the cursor in place":
\* every update the offset has passed has its row, unless rotation took it or, for a
\* row that was never synced (see OffsetDurable), a loss of power.
OffsetSafe ==
    spent.loss = 0 => 1..Max({offset, confirmed}) \subseteq Stored(spool) \cup dropped

\* "A row is only ACKable upstream after it has been flushed and fsynced": what
\* was reported as written survives a loss of power.
WrittenDurable ==
    /\ written \subseteq Stored(SubSeq(spool, 1, synced)) \cup dropped
    /\ written # {} => linked

\* "A torn final line is repaired before the next append": whatever failed or was
\* cut off before, no row is written behind the rest of another one.
NothingGarbled == \A line \in ToSet(spool) : line.text # "garbled"

\* Every update reaches its reader, unless rotation drops it first or the reader is in
\* the middle of a torn line where it is written; all rows wait, however, while the
\* file ends in the middle of a character, until the next append.
UpdatesRead ==
    \A m \in Update : m =< arrived ~>
        \/ m \in {row[1] : row \in read \cup skipped} \cup dropped
        \/ ~Decodable(spool)

\* "Advances its in-memory Telegram offset only after GroupInbox has fsynced the
\* row, recognized a durable duplicate, ..." (README.md): no update is passed
\* whose row a loss of power could still take.
OffsetDurable ==
    /\ 1..offset \subseteq Stored(SubSeq(spool, 1, synced)) \cup dropped
    /\ offset > 0 => linked
===============================================================================
