----------------------------- MODULE GroupDelivery -----------------------------
(***************************************************************************)
(* telegram_presence/group_delivery.py: the SQLite outbox of the engage    *)
(* cycle's replies and reactions.  Every call constructs the outbox again, *)
(* and the constructor recovers rows whose sender seems gone, migrates a   *)
(* database of an older schema and prunes.  Each transaction is one step;  *)
(* the transport call and the reads between transactions are steps of      *)
(* their own.  Processes share the database.                               *)
(***************************************************************************)
EXTENDS Integers, FiniteSets, Sequences

CONSTANTS
    Intent,             \* natural keys (chat, msg_id, action, intent_key)
    Row,                \* action_id values, numbers standing for their order
    IntentOf,           \* the natural key of each row
    Canonical,          \* the action_id that enqueue derives from a natural key
    Process,            \* processes (or threads) that use the database
    MaxAttempts,        \* max_attempts, the same for every row
    BaseBackoff,        \* base_backoff_sec, in ticks
    MaxBackoff,         \* the 300 s cap, in ticks
    SendingLease,       \* GROUP_ACTION_SENDING_LEASE_SECONDS, in ticks
    Retention,          \* GROUP_ACTION_TERMINAL_RETENTION_SECONDS, in ticks
    MaxTerminal,        \* GROUP_ACTION_TERMINAL_MAX_ROWS
    PruneInterval,      \* GROUP_ACTION_PRUNE_INTERVAL_SECONDS, in ticks
    DrainLimit,         \* the limit of drain_group_actions
    Databases,          \* the databases found at first: empty or of an old schema
    LeaseCoversSend,    \* no call outlasts the sending lease
    MaxCrashes,         \* bound: process crashes
    MaxGenerations,     \* bound: times one intent is inserted
    None,               \* no prune yet
    NoRow               \* the row does not exist

Status == {"pending", "sending", "retry", "acked", "dead", "superseded"}
Terminal == {"acked", "dead", "superseded"}

\* A mutant of Waiting: due() looks for rows to retry only.
WaitingAgain == {"retry"}

Waiting == {"pending", "retry"}

RowRecord == [status: Status, attempts: Nat, next: Nat, created: Nat, updated: Nat]

ASSUME GroupAssumption ==
    /\ Row \subseteq Nat
    /\ IntentOf \in [Row -> Intent]
    /\ Canonical \in [Intent -> Row] /\ \A k \in Intent : IntentOf[Canonical[k]] = k
    /\ {MaxAttempts, SendingLease, DrainLimit} \subseteq Nat \ {0}
    /\ {BaseBackoff, MaxBackoff, Retention, MaxTerminal, PruneInterval,
        MaxCrashes, MaxGenerations} \subseteq Nat
    /\ LeaseCoversSend \in BOOLEAN
    /\ Databases \subseteq [Row -> RowRecord \cup {NoRow}]
    /\ \A db \in Databases : IsFiniteSet({r \in Row : db[r] # NoRow})
    /\ None \notin Nat /\ NoRow \notin RowRecord

VARIABLES
    row,        \* the table group_actions
    indexed,    \* the unique index on live natural keys exists
    lastPrune,  \* last_terminal_prune_at in group_action_meta
    clock,      \* the wall clock
    pc,         \* where each process is
    work,       \* its rows still to deliver, and what it knows of the first
    accepted,   \* history: intents the remote accepted since their insertion
    gens,       \* history: insertions of each intent
    crashes     \* spent bound

vars == <<row, indexed, lastPrune, clock, pc, work, accepted, gens, crashes>>
table == <<row, indexed, lastPrune>>
history == <<accepted, gens, crashes>>

PC == {"idle", "ready", "claim", "send", "readback", "fail", "ack"}
InFlight(p) == pc[p] \in {"send", "readback", "fail", "ack"}
NoWork == [todo |-> <<>>, now |-> 0, attempts |-> 0]

Exists(r) == row[r] # NoRow
InStatus(r, S) == Exists(r) /\ row[r].status \in S
RowsOf(k) == {r \in Row : IntentOf[r] = k}
Live(r) == InStatus(r, Status \ {"superseded"})
LiveRows(k) == {r \in RowsOf(k) : Live(r)}
Target(p) == Head(work[p].todo)

\* The variables' types.
TypeOK ==
    /\ row \in [Row -> RowRecord \cup {NoRow}]
    /\ indexed \in BOOLEAN /\ lastPrune \in Nat \cup {None} /\ clock \in Nat
    /\ pc \in [Process -> PC]
    /\ work \in [Process -> [todo: Seq(Row), now: Nat, attempts: Nat]]
    /\ \A p \in Process : pc[p] \notin {"idle", "ready"} => work[p].todo # <<>>
    /\ accepted \subseteq Intent
    /\ gens \in [Intent -> Nat] /\ crashes \in Nat

Init ==
    /\ row \in Databases
    /\ indexed = FALSE /\ lastPrune = None /\ clock = 0
    /\ pc = [p \in Process |-> "idle"] /\ work = [p \in Process |-> NoWork]
    /\ accepted = {k \in Intent : \E r \in RowsOf(k) : InStatus(r, {"acked"})}
    /\ gens = [k \in Intent |-> IF \E r \in RowsOf(k) : Exists(r) THEN 1 ELSE 0]
    /\ crashes = 0

Goto(p, label) == pc' = [pc EXCEPT ![p] = label]
-------------------------------------------------------------------------------
(* The constructor: one transaction.                                       *)

\* A mutant of Recover: a row in "sending" is recovered whatever its age.
RecoverEach(db) ==
    [r \in Row |-> IF db[r] # NoRow /\ db[r].status = "sending"
                   THEN [db[r] EXCEPT !.status = "retry", !.next = clock,
                                      !.updated = clock]
                   ELSE db[r]]

\* Rows left in "sending" for the whole lease go back to the queue.
Recover(db) ==
    [r \in Row |-> IF db[r] # NoRow /\ db[r].status = "sending"
                      /\ db[r].updated + SendingLease =< clock
                   THEN [db[r] EXCEPT !.status = "retry", !.next = clock,
                                      !.updated = clock]
                   ELSE db[r]]

\* ORDER BY CASE status ..., created_at, action_id.
Rank == [pending |-> 1, retry |-> 2, sending |-> 3, acked |-> 0, dead |-> 4,
         superseded |-> 5]

\* A mutant of Beats: the oldest row wins, whatever its status.
BeatsByAge(db, a, b) ==
    LET x == <<db[a].created, a>>
        y == <<db[b].created, b>>
    IN \E i \in 1..2 : x[i] < y[i] /\ \A j \in 1..(i - 1) : x[j] = y[j]

Beats(db, a, b) ==
    LET x == <<Rank[db[a].status], db[a].created, a>>
        y == <<Rank[db[b].status], db[b].created, b>>
    IN \E i \in 1..3 : x[i] < y[i] /\ \A j \in 1..(i - 1) : x[j] = y[j]

\* A mutant of Migrate: dead rows are left as they are.
MigrateUnfinished(db) ==
    [r \in Row |->
        IF db[r] # NoRow /\ db[r].status \notin {"superseded", "dead"}
           /\ \E s \in RowsOf(IntentOf[r]) \ {r} : db[s] # NoRow /\ Beats(db, s, r)
        THEN [db[r] EXCEPT !.status = "superseded", !.updated = clock]
        ELSE db[r]]

\* Of several live rows of one natural key in an old schema, one stays live.
Migrate(db) ==
    [r \in Row |->
        IF db[r] # NoRow /\ db[r].status # "superseded"
           /\ \E s \in RowsOf(IntentOf[r]) \ {r} : db[s] # NoRow /\ Beats(db, s, r)
        THEN [db[r] EXCEPT !.status = "superseded", !.updated = clock]
        ELSE db[r]]

Ended(db) == {r \in Row : db[r] # NoRow /\ db[r].status \in Terminal}

\* What may stay of the terminal rows: those of the retention period, at most
\* MaxTerminal of them, the latest first (rows of one time in any order).
Retained(db) ==
    LET fresh == {r \in Ended(db) : db[r].updated >= clock - Retention}
        newer(a, b) == \/ db[a].updated > db[b].updated
                       \/ db[a].updated = db[b].updated /\ db[a].created > db[b].created
    IN {kept \in SUBSET fresh :
          /\ Cardinality(kept) = IF Cardinality(fresh) =< MaxTerminal
                                 THEN Cardinality(fresh) ELSE MaxTerminal
          /\ \A a \in kept, b \in fresh \ kept : ~newer(b, a)}

PruneDue == lastPrune # None => clock - lastPrune \notin 0..(PruneInterval - 1)

Construct(p) ==
    /\ pc[p] = "idle"
    /\ LET recovered == Recover(row)
           migrated == IF indexed THEN recovered ELSE Migrate(recovered)
       IN \/ /\ PruneDue
             /\ \E kept \in Retained(migrated) :
                  row' = [r \in Row |-> IF r \in Ended(migrated) \ kept THEN NoRow
                                        ELSE migrated[r]]
             /\ lastPrune' = clock
          \/ ~PruneDue /\ row' = migrated /\ UNCHANGED lastPrune
    /\ indexed' = TRUE
    /\ Goto(p, "ready")
    /\ UNCHANGED <<clock, work, history>>

-------------------------------------------------------------------------------
(* What the caller does with the outbox it constructed.                    *)

\* A mutant of Begin: a drain of nothing goes on to claim.
BeginBlindly(p, todo) ==
    /\ work' = [work EXCEPT ![p].todo = todo]
    /\ Goto(p, "claim")

Begin(p, todo) ==
    /\ work' = [work EXCEPT ![p].todo = todo]
    /\ Goto(p, IF todo = <<>> THEN "idle" ELSE "claim")

\* A live row of the natural key is the intent; else the derived action_id is
\* inserted, unless a superseded row has it.
Enqueue(p, k) ==
    /\ pc[p] = "ready"
    /\ \/ /\ \E r \in LiveRows(k) : Begin(p, <<r>>)
          /\ UNCHANGED <<row, accepted, gens>>
       \/ /\ LiveRows(k) = {} /\ Exists(Canonical[k])
          /\ Begin(p, <<Canonical[k]>>)
          /\ UNCHANGED <<row, accepted, gens>>
       \/ /\ LiveRows(k) = {} /\ ~Exists(Canonical[k])
          /\ gens[k] < MaxGenerations
          /\ row' = [row EXCEPT ![Canonical[k]] =
                       [status |-> "pending", attempts |-> 0, next |-> clock,
                        created |-> clock, updated |-> clock]]
          /\ gens' = [gens EXCEPT ![k] = @ + 1]
          /\ accepted' = accepted \ {k}
          /\ Begin(p, <<Canonical[k]>>)
    /\ UNCHANGED <<indexed, lastPrune, clock, crashes>>

\* deliver_group_action with the action_id of a row that was queued earlier.
Resume(p, r) ==
    /\ pc[p] = "ready" /\ Exists(r)
    /\ Begin(p, <<r>>)
    /\ UNCHANGED <<table, clock, history>>

\* drain_group_actions: the oldest due rows, as due() read them.
Drain(p) ==
    /\ pc[p] = "ready"
    /\ LET due == {r \in Row : InStatus(r, Waiting) /\ row[r].next =< clock}
           n == IF Cardinality(due) =< DrainLimit THEN Cardinality(due) ELSE DrainLimit
       IN \E todo \in [1..n -> due] :
            /\ \A i, j \in 1..n : i < j => /\ todo[i] # todo[j]
                                           /\ row[todo[i]].created =< row[todo[j]].created
            /\ \A r \in due : \/ \E i \in 1..n : todo[i] = r
                              \/ \A i \in 1..n : row[todo[i]].created =< row[r].created
            /\ Begin(p, todo)
    /\ UNCHANGED <<table, clock, history>>

-------------------------------------------------------------------------------
(* deliver: claim, call the transport, record the outcome.                 *)

\* The unique index refuses to bring a superseded row back beside a live one.
Refused(r) == InStatus(r, {"superseded"}) /\ LiveRows(IntentOf[r]) # {}

\* A mutant of Claimable: a row being sent may be claimed once more.
ClaimableSending(r) == InStatus(r, Waiting \cup {"sending"}) /\ row[r].next =< clock

Claimable(r) == /\ InStatus(r, {"pending", "retry", "superseded"})
                /\ row[r].next =< clock
                /\ ~Refused(r)

\* The current row is done with: the drain goes on to its next one.
Finish(p) == /\ work' = [work EXCEPT ![p] = [NoWork EXCEPT !.todo = Tail(work[p].todo)]]
             /\ Goto(p, IF Tail(work[p].todo) = <<>> THEN "idle" ELSE "claim")

\* An acked row returns at once; a dead, missing, busy or deferred one raises.
ClaimRefused(p) ==
    /\ pc[p] = "claim" /\ ~Claimable(Target(p))
    /\ Finish(p)
    /\ UNCHANGED <<table, clock, history>>

Claim(p) ==
    LET r == Target(p)
    IN /\ pc[p] = "claim" /\ Claimable(r)
       /\ row' = [row EXCEPT ![r].status = "sending", ![r].attempts = @ + 1,
                             ![r].updated = clock]
       /\ work' = [work EXCEPT ![p].now = clock, ![p].attempts = row[r].attempts + 1]
       /\ Goto(p, "send")
       /\ UNCHANGED <<indexed, lastPrune, clock, history>>

\* The sender returns an ACK or raises; the remote may have accepted the message
\* even then (a timeout, a lost answer).
Send(p) ==
    /\ pc[p] = "send"
    /\ \/ /\ Goto(p, "ack")
          /\ accepted' = accepted \cup {IntentOf[Target(p)]}
       \/ /\ Goto(p, "readback")
          /\ accepted' \in {accepted, accepted \cup {IntentOf[Target(p)]}}
    /\ UNCHANGED <<table, clock, work, gens, crashes>>

\* "current = self.get(action_id) or current" in the exception handler.
ReadBack(p) ==
    /\ pc[p] = "readback"
    /\ work' = [work EXCEPT ![p].attempts = IF Exists(Target(p))
                                            THEN row[Target(p)].attempts ELSE @]
    /\ Goto(p, "fail")
    /\ UNCHANGED <<table, clock, history>>

\* An UPDATE by action_id, whatever the row is by now.
Update(r, new) ==
    row' = IF Exists(r) /\ ~Refused(r) THEN [row EXCEPT ![r] = new] ELSE row

Backoff(attempts) ==
    LET fits == {n \in 1..MaxBackoff : n = BaseBackoff * 2^(attempts - 1)}
    IN IF fits = {} THEN MaxBackoff ELSE CHOOSE n \in fits : TRUE

\* The row after a failure; times are those of the claim.
Failed(p, old) ==
    [status |-> IF work[p].attempts >= MaxAttempts THEN "dead" ELSE "retry",
     attempts |-> old.attempts,
     next |-> work[p].now + IF work[p].attempts >= MaxAttempts THEN 0
                            ELSE Backoff(work[p].attempts),
     created |-> old.created, updated |-> work[p].now]

RecordFailure(p) ==
    /\ pc[p] = "fail"
    /\ Update(Target(p), Failed(p, row[Target(p)]))
    /\ Finish(p)
    /\ UNCHANGED <<indexed, lastPrune, clock, history>>

RecordAck(p) ==
    LET old == row[Target(p)]
    IN /\ pc[p] = "ack"
       /\ Update(Target(p), [old EXCEPT !.status = "acked", !.updated = clock])
       /\ Finish(p)
       /\ UNCHANGED <<indexed, lastPrune, clock, history>>
-------------------------------------------------------------------------------
\* The process dies; what its transport call did stays done, and a restarted
\* process knows only the table.
Crash(p) ==
    /\ pc[p] # "idle" /\ crashes < MaxCrashes
    /\ \/ UNCHANGED accepted
       \/ pc[p] = "send" /\ accepted' = accepted \cup {IntentOf[Target(p)]}
    /\ Goto(p, "idle")
    /\ work' = [work EXCEPT ![p] = NoWork]
    /\ crashes' = crashes + 1
    /\ UNCHANGED <<table, clock, gens>>

\* A retry, a lease expiry, or the end of a retention lies ahead.
DeadlineAhead ==
    \E r \in Row : \/ InStatus(r, Waiting) /\ row[r].next > clock
                   \/ InStatus(r, {"sending"}) /\ row[r].updated + SendingLease > clock
                   \/ InStatus(r, Terminal) /\ row[r].updated + Retention >= clock

Tick ==
    /\ DeadlineAhead
    /\ LeaseCoversSend => \A p \in Process :
                            InFlight(p) => clock + 1 < work[p].now + SendingLease
    /\ clock' = clock + 1
    /\ UNCHANGED <<table, pc, work, history>>

ProcessStep(p) ==
    \/ Construct(p) \/ Drain(p)
    \/ ClaimRefused(p) \/ Claim(p) \/ Send(p) \/ ReadBack(p)
    \/ RecordFailure(p) \/ RecordAck(p) \/ Crash(p)
    \/ (\E k \in Intent : Enqueue(p, k)) \/ (\E r \in Row : Resume(p, r))

Next == Tick \/ \E p \in Process : ProcessStep(p)

Spec == Init /\ [][Next]_vars

(* Processes keep constructing the outbox and draining it, whatever else   *)
(* they do with it; a call that started runs to its end; time passes.      *)
Fairness ==
    /\ WF_clock(Tick)
    /\ \A p \in Process :
         /\ WF_vars(Construct(p)) /\ SF_vars(Drain(p))
         /\ WF_vars(Claim(p) \/ ClaimRefused(p)) /\ WF_vars(Send(p))
         /\ WF_vars(ReadBack(p)) /\ WF_vars(RecordFailure(p) \/ RecordAck(p))

FairSpec == Spec /\ Fairness

-------------------------------------------------------------------------------
(* The table as a reader sees it: DeliveryContract for each natural key.   *)

StatusName == [pending |-> "queued", retry |-> "queued", sending |-> "queued",
               acked |-> "acked", dead |-> "dead"]

\* The row that speaks for an intent.
Speaker(k) == CHOOSE r \in LiveRows(k) : \A s \in LiveRows(k) \ {r} : Beats(row, r, s)

Reported(k) == IF LiveRows(k) = {} THEN "absent" ELSE StatusName[row[Speaker(k)].status]
Tries(k) == IF LiveRows(k) = {} THEN 0 ELSE row[Speaker(k)].attempts

Contract == INSTANCE DeliveryContract WITH
    Delivery <- Intent, MaxAttempts <- MaxAttempts + MaxCrashes,
    Forgettable <- {"acked", "dead"},
    status <- [k \in Intent |-> Reported(k)],
    tries <- [k \in Intent |-> Tries(k)],
    accepted <- [k \in Intent |-> k \in accepted]

\* "Durable group intent keys make the retry safe from a second send after an
\* ACK" and "ACK means transport success": from an empty database, with no call
\* longer than the lease, each intent keeps the delivery contract through races
\* of processes, drains of stale snapshots, pruning and crashes; each crash may
\* cost one call above max_attempts.
KeepsContract == Contract!ContractSpec

\* Only a process that died in a call makes the outbox exceed max_attempts, and
\* only by the call it lost.
AttemptsNearLimit == \A r \in Row : Exists(r) => row[r].attempts =< MaxAttempts + crashes

\* Every intent that is queued reaches a final outcome, although drains take
\* only the oldest rows and failed rows come back.
IntentsSettle == \A k \in Intent : Reported(k) = "queued" ~> Reported(k) # "queued"

\* After the migration of any older database one live row stands for an intent:
\* the index could not be created otherwise, and no constructor would succeed.
OneLiveRow == indexed => \A k \in Intent : Cardinality(LiveRows(k)) =< 1

AckOnRecord(k) == \E r \in RowsOf(k) : InStatus(r, {"acked"})

\* "Already ACKed group intents remain deduplicated" (README.md): the ACK of an
\* intent leaves the table only when pruning deletes its row; neither the migration
\* nor the late outcome of another call turns it into something to send.
AckStands == [][\A k \in Intent :
                  AckOnRecord(k) => \/ AckOnRecord(k)'
                                    \/ \E r \in RowsOf(k) : /\ InStatus(r, {"acked"})
                                                            /\ ~Exists(r)']_vars

\* "Exhausted intents become dead-letter rows ... instead of retrying forever"
\* (group_delivery.py): no intent is sent more often than max_attempts.
AttemptsBounded == \A r \in Row : Exists(r) => row[r].attempts =< MaxAttempts
===============================================================================
