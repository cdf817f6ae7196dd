# A verification project for telegram-presence

TLA+ models of `src/telegram_presence`, TLC configurations that check them on
small instances, and TLAPS proofs of what holds for every instance. All paths
below are relative to `src/`; `PROJECT.json` maps every definition to the lines
it stands for.

## 1. The system

`telegram-presence` lets an agent take part in Telegram groups. Updates come in
over the Bot API or Telethon, are spooled to disk, are judged in "engage" cycles
by a language model, and the resulting replies and reactions go out through
durable outboxes. Several processes (poller, scheduler, operator commands) may
share one state directory. Only files hold shared state.

    Telegram -> transports -> GroupInbox (spool) -> engage cycle -> decider (LLM)
                                                        |
    Telegram <- transports <- GroupActionOutbox <-------+
    Telegram <- transports <- DurableOutbox <- host (typed envelopes)

### Inventory

| Component | State | Operations | What is hard |
|---|---|---|---|
| `outbox.py` `DurableOutbox`, `delivery.py` | one JSON file per delivery: state, attempts, times, lease | construct, enqueue, dispatch_due / dispatch_one (claim, send, settle), recover_inflight, requeue_dead_letter, purge_acked | a lease recovered while its call still runs, crashes between the acceptance and the ACK or half-way through a directory pass, a clock that steps back, processes with different limits |
| `group_delivery.py` `GroupActionOutbox` | an SQLite table of intents with a natural key | constructor (lease recovery, migration of older schemas, pruning), enqueue, due, deliver in separate transactions | races of the transactions, late failures, migration picking the right row, pruning and starvation |
| `inbox.py` `GroupInbox` | jsonl spool, sequence sidecar, storage lock; cache of known ids per process | ingest_message, pending, snapshot_seq | steps of one append against crashes, failing disks and power loss; unlocked readers; rotation |
| `transports/bot_api.py`, `transports/telethon.py` | the poll offset in memory | poll_updates, on_group_message, send_envelope, do_reply, do_react | offset against durability, replayed updates, a timeout racing an acceptance |
| `engage.py` cycle | ledger saved by the host: caps, chat cursors, topic lanes, retries, backoff | run_telegram_engage_cycle, _run_chat_pass | cursors that must not pass unhandled work, quarantine, budgets, a crash between sending and saving |
| `engage.py` policies | none (pure) | coalesce_candidates, apply_*_policy, validate_actions, parse_action_plan | caps that must defer work instead of dropping it |
| `roster.py`, `thread.py`, `delegate.py`, `content.py` | roster file with throttled flushes; the others none | observe, notes, thread reconstruction, drafts, semantic chunks | eviction of notes; chunk bounds |
| `liveness.py`, `policy.py`, `hooks.py` | none | configuration checks, one authorisation predicate, host hooks | nothing concurrent |

What makes each correct: an outbox reports "acked" only what the remote
accepted, tries each intent a bounded number of times, forgets nothing that is
still queued, lets no two workers send one delivery while a lease is held, and
settles everything in the end. The inbox keeps one row per message in order of
its sequence numbers, never garbles a row, never lets the poll offset pass an
update that is not stored, and shows every row to its reader. The cycle must not
move a cursor past work that was neither done, nor refused, nor deferred, and
must respect its caps over crashes and retries.

## 2. Modules

| Module | Role |
|---|---|
| `DeliveryContract` | the abstract specification: what either outbox promises about one intent, and a theorem about it |
| `DurableOutbox`, `MCDurableOutbox` | `outbox.py` with the record type of `delivery.py` |
| `GroupDelivery`, `MCGroupDelivery` | `group_delivery.py` |
| `GroupInbox`, `MCGroupInbox` | `inbox.py` with `poll_updates` and `on_group_message` as its writers and an engage cursor as its reader |
| `EngagePolicies` | the pure policies of `engage.py` between the decider's answer and the actions of a pass, with the delegate's outcome |
| `EngageCycle`, `MCEngageCycle` | `run_telegram_engage_cycle` and `_run_chat_pass`: ledger, lanes, budgets, delivery, log, crashes |
| `Conversation` | `coalesce_candidates` and the scenes of `thread.py` while a spool grows |
| `Roster` | `roster.py`: throttled flushes, eviction, notes, entities, restarts |
| `Sending` | `semantic_chunks` of `content.py` and `do_reply` of both transports |
| `MCHelpers` | an instance of the last three side by side |
| `DurableOutboxProofs`, `GroupDeliveryProofs`, `GroupInboxProofs`, `EngageCycleProofs`, `RosterProofs` | theorems about the module each is named for |
| `ReplyProofs` | theorems about what a reply is made from, `Conversation`, and what becomes of it, `Sending` |
| `NumberLemmas` | least and greatest members of sets of numbers, induction through sets, ranks; used by the proofs |

**DeliveryContract.** Each intent is `absent`, `queued`, `acked` or `dead`. The
moves are Request, Attempt (bounded), Accept (by the remote, perhaps late or
twice), Acknowledge (only after an acceptance), GiveUp (only after a try),
Requeue (operator) and Forget (retention, of the statuses in `Forgettable`).
Both outboxes are shown to implement it under a refinement mapping
(`Implements`, `KeepsContract`): the file's or row's state is the status, its
`attempts` the tries, and the history `accepted` tells what the remote did.

**DurableOutbox.** `rec` is the directory. Each operation runs under an
exclusive file lock, so a critical section is one step; the transport call
(`Send`) is outside and a step of its own. A constructor is three steps (Start,
RecoverInflight, EnforceAttemptLimits) because it takes the lock anew for each
pass, and a dispatch repeats recovery before it claims. `Crash` may come in the
middle of a pass over several files and leaves any subset of them rewritten. The
clock ticks while a deadline lies ahead, and may be set back. A process is
started with one of `Limits` as its max_attempts.

**GroupDelivery.** `row` is the table, and one SQLite transaction is one step:
the constructor (Recover, Migrate, prune), Enqueue, the select of Drain, Claim,
the transport call, ReadBack of the attempts in the exception handler, and the
UPDATE with the outcome, which names only the row's id. Init is any table of an
older schema in `Databases`, with several rows of one natural key. Rows of equal
times are taken in any order where the code leaves the order open.

**GroupInbox.** The spool is a sequence of lines, `synced` of them durable; a line
may be whole, bare (no newline), torn, cut in the middle of a character, or
garbled. An append is CheckSeen (the in-memory cache), then under the storage
lock FoundStored or Reserve (repair, lookup, the next number to the sidecar),
WriteRow (rotation, then the write), SyncRow, SyncDir. Reader and constructor do
not take the lock. `seqSynced` is the number to which the sidecar may fall back,
because its rename is made durable by a later directory fsync only. A storage
failure or a crash may cut the write short; PowerLoss keeps any prefix of the
unsynced lines. A reader takes the file in chunks, and complete lines never change
in place, so its chunks show what one step at the last of them shows, but for a
torn last line: while the reader has it in its buffer (`ReadTorn`), an append may
cut it off and put rows in its place; the reader goes on in the middle of one of
them, and does not see the rows from there to the next whole line (`Unseen`).
The reader is a caller of pending(after_seq, chat, limit,
oldest_first) that moves its cursor to the highest number returned, as the engage
cycle does with the host's packet. A row is named by its place in the file and a
page by the places it takes, so that nothing here is recursive.

**EngagePolicies** is a library of operators. A plan is a record with what the
policies tell apart (action, desire, length of the text, depth, memory, whether
the agent is the addressee), an answer a sequence of plans. The contract judges
the text as the decider wrote it (`Legal`), a plan holds what the sanitizer of the
host leaves of it (`PlanOf`): nothing of a text that is all thinking header, too
much of one whose masked secrets make it longer. `Decided` is the
pipeline over one valid answer in the code's order (autonomy boundary, wait,
memory companions, depth); `Admit` runs validate_actions over the plans of a
pass with its accumulators, as a recursive function, and records which replies it
refused for their text; `Composed` is
_resolve_delegate_plans. A filter of the code is `Taken`: the elements of a
sequence at a set of places, in their order (`Ascending` lists a set of numbers).

**EngageCycle.** `saved` is the ledger in the host's state, `led` the copy a cycle
works on, `pass` the local variables of _run_chat_pass, `outbox` and `log` what
survives a crash. A message is its spool_seq, after coalescing. The actions
follow the code: Begin (the day roll), then per chat SkipResting, FetchFails,
NothingNew or Fetch; per batch PassOver, AskInvalid or AskValid; Validate
(ceilings, composer, second look at the scene); per plan ApplyDeferred,
ApplyNothing, Delivered, DeliveryFails, NotDue, DeadLettered, or a side effect
(SideEffectDone, NoteLost, NotifyRaises), and LogAction; a batch is a record of its lane, its rows and its round, and the pass
keeps the sets of those to do and those asked; Finish moves the cursors of lanes
and chat, Save writes the ledger once. Messages arrive between any two steps, and
a crash may follow each. What the outside did is a history: a send that failed for
the cycle may be in `posted` all the same (and in `doubted`), a notification or an
alert that raised may have been `told`. The log of completed actions may be read
in part only (Fetch). `owed` keeps what the latest valid assessment wants done; an
action that the pass neither took nor deferred stays there, marked with how it was
given up: the text of a reply was unfit, a note was not written.

**Conversation.** `spool` grows by one row at a time; two readers may spool
messages out of the order of their ids, and their clocks may differ. `Coalesced`
and `Scene` are evaluated over every spool that results. `Coalesced` sorts the
rows by time, each at the place that as many rows precede, and lets one after the
other join the last burst or start one (`WithNext`), as the code's loop does.

**Roster.** `cache` and `file` are the maps in memory and on disk; every call
changes the cache, and flushes at once or not, as the code's force and throttle
say. A flush may fail, the file may be unreadable, the process may die. A call
adds one entry at most, so eviction removes one: the least recently seen.

**Sending.** A text is a sequence of words with lengths and separators. `Chunks`
reads it word by word: a word is cut into pieces (`Cut`), the pieces are packed
into the parts of a sentence and, where the sentence ends, its parts into chunks,
both by the same greedy `Pack`. A try sends chunk after chunk; a failed request
may be accepted all the same, later. With Telethon, the worker may give up while
the coroutine goes on until it is cancelled.

## 3. Runs

| Run | Shows | Bounds |
|---|---|---|
| `outbox_slow` | TypeOK, RecordValid, CallsBounded, Implements when calls may outlast the timeout | one delivery, two workers, three leases, limits 1 and 2, one crash, one step back, two lives of the delivery |
| `outbox_patient` | LiveLeaseHeld, QueuedSettles when the timeout covers the call | two deliveries on two transports, one crash |
| `group_lease` | TypeOK, AttemptsNearLimit, KeepsContract | one intent, two processes, two crashes, two lives, pruning on every construction |
| `group_legacy` | OneLiveRow, AckStands, IntentsSettle | every older table with two rows of one intent, a second intent, drains of one row |
| `group_late` | **violated**: AckStands | a call longer than the lease |
| `group_crash` | **violated**: AttemptsBounded | one crash |
| `inbox_spool` | TypeOK, SpoolOrdered, CursorSafe, OffsetSafe, WrittenDurable, NothingGarbled | two writers, three updates of one chat, a spool of two rows, one event, at most one failing disk operation or crash and one loss of power |
| `inbox_read` | UpdatesRead | one poller, two chats, two failures or crashes |
| `inbox_ack` | **violated**: OffsetDurable | one failure or crash |
| `engage_cycle` | TypeOK, NothingOwedBehind, NothingUnread, CapsHold, ToldOnce, QuarantineEarned, SceneStillOpen, RowsSettle | two chats, three lanes, up to four messages, thirteen scripts |
| `delegate_draft` | **violated**: NothingDropped | two messages of one lane |
| `engage_helpers` | the properties of Conversation, Roster and Sending | spools of four messages, four roster calls, replies of three words sent twice |

Why the bounds are enough to be interesting. Two workers and a timeout of one
tick make every theft of a lease possible; the third lease lets a stolen lease be
lent again while the first holder still runs; max_attempts 2 separates the last
permitted attempt from the others; two lives of an intent let a late call of the
first meet the second. Two rows of one natural key are the fewest the migration
must choose between. A spool of two rows rotates at the third update, and a cache
of two ids forgets the first, so a replay meets a row that is known, rotated out
or only on disk. One chat is enough there, because the reader of a chat takes no notice of
another's rows; `inbox_read` has two. The proofs of section 5 remove the bounds for most of these properties.

In `engage_cycle` a script fixes, for one behaviour, the lane of each message,
what the decider may say of it, the gate and the faults; the run is the sum of
thirteen scripts, each about one hazard, because their product is out of reach.
The decider may always answer nothing valid, and a call may always fail. A page
of two messages, batches of one and two calls per cycle make every bound of the
code bite: a message behind the page, a lane of several batches, a chat that gets
no call, a cap reached in the other chat. Three failures quarantine a lane, two
waits expire, an action is tried twice. In `engage_helpers` a burst of two
closes, a scene of one turn overflows, the roster holds two of three people, and
words are half a chunk or longer than one.

**Fairness.** Safety runs assume none. The liveness runs assume what a host
provides: a dead process is restarted; the scheduler goes on calling
dispatch_due, drain_group_actions, poll_updates and the reader (strong fairness
where another call of the same process may come between); a call that was begun
ends; time passes (`Tick` is weakly fair). Operators' commands, crashes and faults
are never forced. Faults are finite in number, as "in the end" needs. In
`engage_cycle` the host runs one cycle after the other and what a cycle calls
returns: its own state keeps changing (`FairSpec`), which is weak fairness of the
cycle's steps. That a step is always there to take is what the check for deadlock
shows: inside a cycle nothing else is enabled but a message or a fault, both
finite in number. Days change again and again, and retry deadlines pass between
cycles (strong fairness, since a cycle may come first).

**Deadlock** is checked in every run but `engage_helpers`, whose machines stop when
their messages, calls or tries are used up.

**Pure operators** were also evaluated next to the Python functions they stand
for, with the constants of an instance: `Coalesced`, `Anchor` and `Scene` on every
spool of four messages of `engage_helpers`, `Chunks` on every text of up to four
words of three lengths, and `Decided`, `Admit`, `Composed`, `Held` and
`AfterWait` on several thousand random answers. The results were equal.

## 4. Where code and documentation differ

1. `group_late`. The failure UPDATE in `deliver` is not guarded by the row's
   status or lease. A call that outlasts the 120 s lease and then fails turns the
   ACK another process recorded back to `retry`; the message is sent again,
   although "already ACKed group intents remain deduplicated".
2. `group_crash`. The constructor returns a stale `sending` row to `retry`
   without comparing its attempts with max_attempts, so each crash in the last
   permitted call adds one (`AttemptsNearLimit` is what does hold).
3. `inbox_ack`. A row found in the file is a "duplicate" and its update is ACKed
   although no fsync of the row ever succeeded (a failing fsync, or a crash
   between write and fsync): it may still be lost with the power.
4. `delegate_draft`. Above DELEGATE_PER_CYCLE a delegate falls back to the
   decider's draft. A draft longer than ENGAGE_MAX_REPLY_CHARS is refused by
   `_admit_reply` without being deferred, and not being empty it is not deferred
   by the caller either: nothing is sent and the cursor passes the message,
   although "over-cap work is deferred, not dropped" (`NothingDropped`).

What else the models had to take in, without a run of its own:

- The sequence sidecar's rename is not followed by a directory fsync before the
  row is written (`inbox.py:595`), as the rotation's is. Where the rename may be
  lost with the power and the row kept, the next row repeats its number:
  `SpoolOrdered`, `CursorSafe` and `OffsetSafe` are stated for behaviours without
  a loss of power.
- A write cut in the middle of a UTF-8 character makes the whole spool
  undecodable, so `pending` returns no row of any chat (and no id is hydrated)
  until the next append repairs the tail. `UpdatesRead` states this exception.
- `pending` reads without the lock. A reader that has a torn last line in its
  buffer when an append repairs it goes on in the middle of the new row, drops it
  as unparsable, and may return the row behind it: the cursor then passes a row
  that nobody read, although `pending`'s docstring says that for queue consumers
  "advancing their cursor cannot skip backlog" (`inbox.py:400-401`). It takes a
  write that failed or was interrupted. `CursorSafe` and `UpdatesRead` allow rows
  skipped in this way (`skipped`) and no others.
- A reply is valid by its raw text and sent by its sanitized one. Where the
  sanitizer leaves nothing, or its masks make the text too long, `_admit_reply`
  refuses it and nothing defers the message: the cursor passes it unanswered.
- `set_note` and `remember_entity` swallow a failure and answer False; the cycle
  then neither logs nor defers the note. `NothingOwedBehind` states this exception
  and the one before, and no others.
- A send that fails for the cycle may have been accepted (a timeout). No counter
  counts it, so the chat may see more replies than its cap: `CapsHold` allows one
  for each such send, besides what lost ledgers allow.
- A notification that raises may have reached the owner, and is repeated. So is
  one whose row of the log is lost, or not read: `_completed_action_keys` returns
  what it has when the log cannot be read to its end. A row that was torn in the
  middle of a UTF-8 character makes every later read stop there, and a row
  appended to a torn one is lost with it. `ToldOnce` counts each of these cases.
- A lane's failed deliveries and invalid answers share one counter, which a valid
  answer resets. A delivery follows a valid answer, so one failed delivery can
  stand in for an invalid answer (`QuarantineEarned`), and the notice "after 3
  invalid decider responses" may be about two.
- A parked first batch that is answered validly each cycle resets the lane's
  counters, so invalid answers for a later batch of the lane do not reach the
  quarantine until the first one drains.
- `notify_owner` without a configured owner defers its message for ever, and the
  chat's cursor with it: `RowsSettle` is checked with an owner.
- Parked batches are asked again in every cycle from the same budget of calls;
  until the day's caps roll over they may take all of it. `RowsSettle` needs the
  days to change.
- A reply left in the outbox by a failed delivery may be drained later, after a
  new assessment of the message decided against it, and a drained reply is
  counted against no cap: `CapsHold` counts what the cycle sends.
- A ledger lost to a crash or a failed save loses the day's counts: caps are
  exceeded by as much for each loss.
- Bursts are merged in the order of the readers' clocks. When these disagree with
  the order of the spool, another candidate's message can lie between the parts
  of a burst, and a cursor that stands on it loses the burst's beginning:
  `FragmentsTogether` is stated for agreeing clocks. An unaddressed burst that
  grows changes its anchor, hence the key under which its action is known.
- A message without a target joins a burst between two messages with different
  targets, so a burst may be aimed at two people.
- `semantic_chunks` packs units greedily: a paragraph that would fit into a chunk
  of its own may be split, though its docstring prefers paragraphs.
- `set_note` answers True although its forced flush failed; a crash then loses a
  note that the action log counts as done. A roster file that cannot be read is
  replaced by what is observed from then on. A handle that moved to another person
  still leads to the older entry.

## 5. Proofs

`DeliveryContract`
- `ContractHonest`: every behaviour of the contract acknowledges accepted intents
  only and stays within MaxAttempts. With a refinement, an implementation inherits
  it.

`DurableOutboxProofs`, for any number of deliveries, workers, leases, limits,
crashes and clock steps, from `OutboxAssumption` only:
- `TypeCorrect`: `TypeOK` is inductive by itself.
- `RecordsStayValid`: `RecordValid`, with TypeOK. Each of the record-building
  operators has a lemma that it returns a valid record from a valid one.
- `CallsStayBounded`: `CallsBounded` is not inductive. The strengthening
  `AttemptsLeft` says that the calls begun plus the attempts a record still has
  are at most MaxLimit for each life; every step is first shown to be, for each
  delivery, one of the moves of `RecordMove`.
- `OutboxKeepsContract`: `Implements`. Every step maps, delivery by delivery, to a
  move of the contract or to none. The invariant needed besides the types is
  `HonestResults`: a worker that holds a live lease and reports success has had
  its message accepted in this life of the record.
- `LiveLeasesStayHeld`: `LiveLeaseHeld`, from `SafeLeases`: a process in its
  forced recovery is alone, no two workers carry one lease, and the call of each
  engaged worker is younger than the timeout.

`GroupDeliveryProofs`, for any processes, rows, intents, limits and times:
- `TypeCorrect`: `TypeInv`, that is TypeOK and that the table has finitely many
  rows (pruning and draining count them).
- `OneLiveRowAlways`: `OneLiveRow`, for every table of an older schema. The proof
  shows that migration leaves one live row per key, and that Enqueue inserts only
  where there is none.
- `AcksStand`, assuming `LeaseCoversSend`: `SafeCalls` says that the row of a
  process in a transport call is still the one it claimed, its lease unexpired,
  and that no two such processes have one row. Without the assumption the property
  is false (`group_late`).
- `AttemptsStayNearLimit`, assuming `LeaseCoversSend` and `TriesLeftIn` for the
  databases found at first: a row that may still be sent has a try left or a crash
  that pays for it (`TriesLeft`). An older database whose unfinished rows have
  used up their tries would exceed the bound by what it brought along; one with
  several rows of a key is outside this theorem.
- `GroupKeepsContract`, assuming `LeaseCoversSend` and `FromScratch`: every step
  is, intent by intent, a move of DeliveryContract or none. A database that exists
  already has a history the contract's initial state ("absent") cannot tell.
  `HonestAck` (a call that ended well was accepted) and `TriedBeforeSending` are
  the invariants needed besides.

`GroupInboxProofs`, for any writers, updates, chats, bounds and faults:
- `TypeCorrect` and `NothingGarbledEver`, from `TypeInv` (TypeOK; offsets and the
  updates in hand have arrived) and `FileInv`: only the last line may be
  unfinished, a writer about to write has repaired it and its message is in no
  row, and a writer that has written finds its row there.
- `WrittenSurvives`: `WrittenDurable`, from these; the steps that need an argument
  are the rotation, which drops whole rows, and PowerLoss.
- `SpoolInOrder`, `CursorSkipsNothing` and `OffsetPassesStored`, from `NoLossInv`,
  which holds until power is lost: rows are in order; the sidecar's number, unless
  it is missing, is no lower than any row's, and the one a writer has reserved is
  higher; a cursor is no higher than some row; a row at or below a chat's cursor
  was read, or skipped behind a torn line, and no line is torn unless a write failed
  (`WholeInv`); the ids a process remembers are stored or rotated out; the poller's
  updates are consecutive and those before them are stored or rotated out.

`ReplyProofs` about Conversation, for any people, topics, sayings, bounds and
clocks, from `SpoolInv`: each row is a message with a number of its own, a reply is
to an older one, and a topic's root lies in no topic and replies to nothing.
- `CursorsBetweenCandidates`: `FragmentsTogether`. `BurstsSplit` says, by induction
  over the sorted messages, that they are split into bursts: each message is in
  one, a burst has one sender and one topic, and all of it is later than all of the
  burst before. With agreeing clocks, later means a higher number in the spool.
- `CandidatesOnlyGrow`: `BurstGrows`. A message that comes last in the spool is the
  last in the sorted list, so that the bursts are those there were and one
  application of `WithNext` (`CoalescedGrows`); `AnchorTakenOver` compares the
  first of the strongest cues before and after.
- `ParentNeverEvicted`: `ParentInScene`. On the floor of its anchor everything the
  reply path holds is older than the parent, so the parent is its newest row and
  the last that the budget drops. `SceneFits` adds the two parts of the budget.
- `ScenesLookBack` and `TopicsAreBoundaries`: `NoLaterTurns` and `FloorsApart`.
  Every row of a scene lies on its floor (`SceneRows`), and a row lies on one
  floor, where the root of a topic is the case that needs `SpoolInv`.

`ReplyProofs` about Sending, for every text, either transport and any number of
tries:
- `EveryTryLeavesPrefix` and `SuccessMeansWhole`, from `SendingInv`: a request is
  made only after those of the chunks before it were accepted, and a try has made
  none beyond the chunk it awaits. How `Chunks` cuts a text plays no part.
- `NothingTruncated`: `TextSplit`. Units that lead from one place of the text to
  another (`Runs`) still do so when a unit that comes next is packed with them;
  a cut word leads from its first character to the next word; so, by induction
  over the words, the chunks and the parts of the current sentence lead from the
  first character of the text to the word that comes next (`ReadUpTo`). A unit
  never is longer than a chunk nor shorter than its characters with a separator
  between any two pieces.

`RosterProofs`, for any people, handles, notes, bounds and faults:
- `RosterTyped`, `FailedFlushRetried`, `NotesSurvive`, `FileForgetsNobody` and
  `NewcomerStays`, from `RosterInv`: the bounds, nobody was seen after the latest
  call, and the file knows nobody whom memory has forgotten, unless memory is full
  (it stays so, and then the file has no room either).

`EngageCycleProofs`, for any chats, lanes, scripts, ceilings, caps and faults:
- `CycleTyped`: `CycleInv`, i.e. the types and `PassShape`, what a cycle holds at
  each place: the copy of the ledger equals the saved one between cycles, batches
  hold messages of one lane of the page, plans are about messages of the chat,
  none of them waits, and none is left to the composer once it was validated.
- `OwnerToldOnce` from `ToldInv`: what the owner was told of an action beyond the
  first time is matched by a slip (a crash, a row of the log that was not written, a
  read that failed, a notification that raised), and so is the first time unless
  the log has the action or the pass knows it as done. An alert needs a dead
  action in hand, which the pass has once only: `OnceInv` says that no two plans of
  a pass are for one action.
- `GivenUpForInvalid` from `EarnedInv`: the bound for the saved ledger too, and a
  tighter one for the lanes of a pass's plans, which were heard in it: this leaves
  room for the failure Finish may count.
- `NothingOnAMovedScene` from `SceneInv`: the plans that survive the second look
  belong to lanes without a newer message on the page it read.
- `CapsHoldAlways` from `CapsInv`: for each chat and class the replies posted
  today and known to the cycle (`Known`, those that did not fail for it) are at
  most the counter of the ledger plus one cap for each lost ledger. Replies the
  cycle counted and lost are the reason for the factor; `doubted` has the others.
- `NothingUnreadBehind` from `CursorInv` and `ReadInv`. `CursorInv` relates the
  page to the cursors: the batches share no message, are ahead of the cursors,
  follow each other in rounds, and leave out of the page only commands and what is
  behind a lane's cursor. `ReadInv` says that what lies behind a cursor, of the
  saved ledger or of the copy, or belongs to a batch that was answered or given
  up, is not unread; it is applied to AfterPass, where a lane moves over its
  settled batches up to the first other.
- `NothingOwedIsPassed` from `OwedInv`: what is due (`Due`: owed and not given up)
  for a message behind a cursor belongs to a quarantined one, and what is due for a
  batch of the pass is in the plans still to come, deferred or failed. That a
  ceiling, the composer and the second look lose no plan is proved for `Admit`,
  `Composed` and `Revalidated`: each plan stays, or its message is deferred, or its
  text was refused and the action is given up. Drafts may have any length: the case
  of section 4.4 is one of an unfit text, which `NothingDropped` forbids.

Each of these inductive invariants was checked by TLC in the states of the
component's run before it was proved. `NumberLemmas` and the lemmas about the
operators (`Ascending` and `Sorted` list a finite set in order, `Taken` keeps
elements and order, batches cover a page and have disjoint rows, `Page` takes the first
messages) are proved as well.

The assumptions on constants are those of the modules (`OutboxAssumption`,
`GroupAssumption`, `InboxAssumption`, `ConversationAssumption`, `RosterAssumption`,
`SendingAssumption`, `PolicyAssumption`, `CycleAssumption`); TLC evaluates them
in every run. The hypotheses of single theorems are stated in them by name, and
are met by instances of the runs: `LeaseCoversSend` and `FromScratch` by
`group_lease`, `TriesLeftIn` by an empty database too.

The recursive functions of the models (`Bursts`, `PackAll`, `Chunks`, `Chars`, and
`up` of `Ancestry`) run over numbers. That each is defined, and takes the steps it
says, is a lemma proved by induction through a set of numbers (`NumberInduction`),
since the library's induction theorems cannot be instantiated here.

Only model-checked, of the properties that the passing runs check:
- The liveness properties `QueuedSettles`, `IntentsSettle`, `UpdatesRead` and
  `RowsSettle`: liveness under fairness is outside the proof system used.

The runs that expect a violation state properties that are false.

## 6. Abstractions

- Message texts, envelopes, ids and digests are opaque; whether an envelope
  equals another is not modelled. Number of ticks stands for seconds.
- A transport call ends with success, or with an error after which the remote
  may or may not have accepted the message. Telethon's timeout and Bot API
  connection errors are instances of it.
- GroupDelivery leaves out the addition of columns to old tables, and takes one
  transaction as atomic, as SQLite guarantees.
- GroupInbox takes rows of one size, so the byte bounds of rotation are counts;
  a row never needs the whole file. A rotation is durable or fails before the
  replacement. Rows without `spool_seq` from an older release, which get their
  position as a number, are not modelled. Threads of one process are serialised
  by its lock and count as one process. A `write()` of a row is atomic to readers
  unless it is cut short, hydration of the cache is one step, and a reader that has
  the file a rotation replaces is taken to have read before it. Updates the poller ignores (private
  chats, malformed ones) only move the offset and are left out.

- EngageCycle: a decider lists its items in the order of the batch. Retry
  deadlines are flags that time clears between cycles; the day changes and the
  outbox is drained between cycles only. A cycle whose gate is closed, or a chat
  that is paused, changes no cursor and is a cycle that does not run. The gate's
  proactive half is any of the script's values. Global counters are the sums of
  the chats' (they are incremented together). The ledger's `invalid` field is a
  history of a lane's invalid answers, which the code does not keep. A failed or
  torn row of the action log is a missing row, and so is one written behind it.
  The pause of a chat is looked at once, at the start of its pass: `validate_actions`
  looks it up by a plan's `chat_id`, which is empty in the cycle. No crash falls
  between a send and its outcome; a drain only acknowledges. Alerts of a
  quarantine are about no action and are not counted. Legacy spellings, timestamps as
  cursors, and hosts that cannot tell a snapshot's number are left out, as is the
  context of later messages in the prompt. Sends are one step; DurableOutbox,
  GroupDelivery and Sending have their inner steps.
- Conversation: a scene is taken from the whole spool, where the host bounds the
  history; one foreign handle stands for all; self handles are known. Telegram names
  a topic after its root, a message that lies in no topic and replies to nothing.
  Roster: one chat and one process, whose lock serialises the calls. Sending:
  whitespace between words is normalised, so that a sentence or a text that fits is
  one part or chunk by packing, without the code's shortcut, and a cancelled
  coroutine of one try has ended before that of the next begins, as the client's
  loop runs them in order.
- `engage_helpers` composes three machines that share nothing; one of them moves
  in a behaviour.

## 7. Not modelled, and what is left

Left to model, if it is worth it: the merge of legacy spellings in the ledger
(`_normalize_per_chat_ledger`), media descriptors and the rendering of scenes,
all of them pure and straightforward to test.

Left out for good: `delegate.py`, `hooks.py`, `policy.py` and `liveness.py` keep no
state and run nothing concurrently; HTTP and asyncio plumbing is I/O; prompts and
the language model are the environment.
