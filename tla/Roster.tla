--------------------------------- MODULE Roster ---------------------------------
(***************************************************************************)
(* The participant memory of one chat (roster.py): a map held in memory by *)
(* the process and written to one file, at once when it matters and at     *)
(* most every FLUSH_MIN_INTERVAL_SEC otherwise.  Readers observe the       *)
(* senders, the cycle records notes and entities.  A flush may fail, the   *)
(* file may be unreadable, the process may die at any moment.              *)
(***************************************************************************)
EXTENDS Integers, SequencesExt

CONSTANTS
    People,         \* the senders of the chat
    Handle,         \* their usernames
    Anonymous,      \* a sender that has none
    Note,           \* the notes the decider may write
    Entity,         \* names of third parties
    MaxPeople,      \* MAX_PARTICIPANTS_PER_CHAT
    MaxNotes,       \* NOTES_MAX_PER_PARTICIPANT
    MaxEntities,    \* MAX_ENTITIES_PER_CHAT
    MaxCalls,       \* bound: calls of the roster; also its clock
    MaxTrouble      \* bound: failed flushes, unreadable files and crashes, of each

ASSUME RosterAssumption ==
    /\ Anonymous \notin Handle
    /\ {MaxPeople, MaxNotes, MaxEntities} \subseteq Nat \ {0}
    /\ {MaxCalls, MaxTrouble} \subseteq Nat

VARIABLES
    cache,      \* the map in memory: participants and entities, in the order of insertion
    file,       \* the map in the file
    loaded,     \* the process has read the file
    dirty,      \* memory was changed since the last flush that succeeded
    flushed,    \* the last flush is less than FLUSH_MIN_INTERVAL_SEC ago
    calls,      \* calls so far
    trouble     \* flushes that failed, files that could not be read, crashes

rosterVars == <<cache, file, loaded, dirty, flushed, calls, trouble>>

Person == [who: People, handle: Handle \cup {Anonymous}, seen: 1..MaxCalls, notes: Seq(Note)]
Thing == [who: Entity, note: Note, seen: 1..MaxCalls]
Map == [people: Seq(Person), things: Seq(Thing)]
Empty == [people |-> <<>>, things |-> <<>>]

\* The variables' types; a chat's maps stay within their bounds, and a participant's
\* notes too.
RosterTypeOK ==
    /\ \A m \in {cache, file} :
         /\ m \in Map /\ Len(m.people) =< MaxPeople /\ Len(m.things) =< MaxEntities
         /\ \A p \in ToSet(m.people) : Len(p.notes) =< MaxNotes
    /\ {loaded, dirty, flushed} \subseteq BOOLEAN /\ calls \in 0..MaxCalls
    /\ trouble \in [{"flush", "load", "crash"} -> 0..MaxTrouble]

RosterInit ==
    /\ cache = Empty /\ file = Empty
    /\ loaded = FALSE /\ dirty = FALSE /\ flushed = FALSE
    /\ calls = 0 /\ trouble = [t \in {"flush", "load", "crash"} |-> 0]

Trouble(what) == trouble[what] < MaxTrouble /\ trouble' = [trouble EXCEPT ![what] = @ + 1]
-------------------------------------------------------------------------------
(* Loading and flushing.                                                    *)

\* What memory holds once the roster is loaded.
LoadedAlways == Empty   \* a mutant of Loaded: memory starts empty
Loaded == IF loaded THEN cache ELSE file

\* A mutant of Flushed: nothing forces a flush.
FlushedLazily(map, force, ok) ==
    /\ cache' = map /\ loaded' = TRUE
    /\ IF ok /\ ~flushed
       THEN file' = map /\ dirty' = FALSE /\ flushed' = TRUE
       ELSE dirty' = TRUE /\ UNCHANGED <<file, flushed>>

\* A mutant of Flushed: memory counts as clean once a flush was tried.
FlushedClean(map, force, ok) ==
    /\ cache' = map /\ loaded' = TRUE /\ dirty' = FALSE
    /\ flushed' = (flushed \/ ok) /\ file' = IF ok /\ (force \/ ~flushed) THEN map ELSE file

\* Memory becomes map, and is flushed at once if that is forced or the last flush is
\* long ago; the new file replaces the old one in one step, or stays away.
Flushed(map, force, ok) ==
    /\ cache' = map /\ loaded' = TRUE
    /\ IF ok /\ (force \/ ~flushed)
       THEN file' = map /\ dirty' = FALSE /\ flushed' = TRUE
       ELSE dirty' = TRUE /\ UNCHANGED <<file, flushed>>

\* A call that changes memory to map.
Change(map, force) ==
    /\ calls < MaxCalls /\ calls' = calls + 1
    /\ \/ Flushed(map, force, TRUE) /\ UNCHANGED trouble
       \/ (force \/ ~flushed) /\ Flushed(map, force, FALSE) /\ Trouble("flush")

\* A file that cannot be read is an empty roster from then on.
LoadFails ==
    /\ ~loaded /\ file # Empty /\ Trouble("load")
    /\ loaded' = TRUE /\ cache' = Empty
    /\ UNCHANGED <<file, dirty, flushed, calls>>

TimePassed ==
    /\ flushed /\ flushed' = FALSE
    /\ UNCHANGED <<cache, file, loaded, dirty, calls, trouble>>

ProcessDies ==
    /\ loaded /\ Trouble("crash")
    /\ cache' = Empty /\ loaded' = FALSE /\ dirty' = FALSE /\ flushed' = FALSE
    /\ UNCHANGED <<file, calls>>
-------------------------------------------------------------------------------
(* The calls.                                                               *)

\* Where a sender or an entity is in a sequence of entries, 0 if it is not.
At(entries, who) == SelectInSeq(entries, LAMBDA e : e.who = who)

\* A mutant of Kept: the newest entry goes.
KeptStalest(entries, max) ==
    IF Len(entries) =< max THEN entries ELSE RemoveAt(entries, Len(entries))

\* The least recently seen entry above the bound is evicted: a call adds one at most.
Stalest(entries) ==
    CHOOSE i \in DOMAIN entries : \A j \in DOMAIN entries : entries[i].seen =< entries[j].seen
Kept(entries, max) ==
    IF Len(entries) =< max THEN entries ELSE RemoveAt(entries, Stalest(entries))

\* The sender's facts; a handle is only ever replaced by another one.
WithSender(people, who, handle) ==
    LET i == At(people, who)
        fresh == [who |-> who, handle |-> handle, seen |-> calls + 1, notes |-> <<>>]
        known == [people[i] EXCEPT !.seen = calls + 1,
                                   !.handle = IF handle = Anonymous THEN @ ELSE handle]
    IN  IF i = 0 THEN Append(people, fresh) ELSE [people EXCEPT ![i] = known]

\* observe_message: a sender seen for the first time forces the flush.
Observe(who, handle) ==
    Change([Loaded EXCEPT !.people = Kept(WithSender(@, who, handle), MaxPeople)],
           At(Loaded.people, who) = 0)

\* A mutant of WithNote: notes accumulate.
WithNoteAll(notes, note) == IF note \in ToSet(notes) THEN notes ELSE Append(notes, note)

\* A new note goes to the end, the oldest ones leave.
WithNote(notes, note) ==
    LET all == IF note \in ToSet(notes) THEN notes ELSE Append(notes, note)
    IN  SubSeq(all, Max({1, Len(all) - MaxNotes + 1}), Len(all))

\* set_note: the first participant who goes by the handle; nothing if nobody does.
Called(people, handle) == SelectInSeq(people, LAMBDA p : p.handle = handle)

SetNote(handle, note) ==
    LET i == Called(Loaded.people, handle)
    IN  IF i = 0
        THEN /\ calls < MaxCalls /\ calls' = calls + 1
             /\ cache' = Loaded /\ loaded' = TRUE
             /\ UNCHANGED <<file, dirty, flushed, trouble>>
        ELSE Change([Loaded EXCEPT !.people[i].notes = WithNote(@, note)], TRUE)

\* remember_entity: the entity's note is replaced.
WithEntity(things, name, note) ==
    LET i == At(things, name)
        entry == [who |-> name, note |-> note, seen |-> calls + 1]
    IN  IF i = 0 THEN Append(things, entry) ELSE [things EXCEPT ![i] = entry]

RememberEntity(name, note) ==
    Change([Loaded EXCEPT !.things = Kept(WithEntity(@, name, note), MaxEntities)], TRUE)

RosterNext ==
    \/ \E who \in People, handle \in Handle \cup {Anonymous} : Observe(who, handle)
    \/ \E handle \in Handle, note \in Note : SetNote(handle, note)
    \/ \E name \in Entity, note \in Note : RememberEntity(name, note)
    \/ LoadFails \/ TimePassed \/ ProcessDies

RosterSpec == RosterInit /\ [][RosterNext]_rosterVars
-------------------------------------------------------------------------------
(* Properties.                                                              *)

\* A failed flush is made up for: memory that differs from the file is dirty, so the
\* next flush writes it; but for an unreadable file, which memory has replaced.
LagIsDirty == loaded /\ cache # file /\ trouble["load"] = 0 => dirty

Notes(map) == {<<p.who, p.notes>> : p \in ToSet(map.people)}

\* The throttle delays facts alone, never who is known nor what is noted: unless a flush
\* failed or the file could not be read, participants, notes and entities are in the
\* file when the call returns (the action log then counts the note as done).
NotesDurable ==
    loaded /\ trouble["flush"] = 0 /\ trouble["load"] = 0 =>
       Notes(cache) = Notes(file) /\ cache.things = file.things

\* Restarts lose nobody: a participant leaves the file only to make room, unless the
\* file could not be read.
NobodyForgotten ==
    [][trouble["load"] = 0 /\ Len(file'.people) < MaxPeople =>
         {p.who : p \in ToSet(file.people)} \subseteq {p.who : p \in ToSet(file'.people)}]_rosterVars

\* The sender of the latest message is never the one evicted, whatever the file still
\* says of the others.
NewcomerKept ==
    [][\A who \in People : (\E handle \in Handle \cup {Anonymous} : Observe(who, handle)) =>
         who \in {p.who : p \in ToSet(cache'.people)}]_rosterVars
===============================================================================
