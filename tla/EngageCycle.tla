------------------------------ MODULE EngageCycle ------------------------------
(***************************************************************************)
(* The engagement cycle of telegram_presence/engage.py over the spool of   *)
(* the inbox and the durable group outbox: for each chat it fetches a page *)
(* of messages, has the decider assess them in batches of one topic lane,  *)
(* takes a second look at the scene, applies the actions that survived the *)
(* policies, and moves the cursors of lanes and chat; the ledger is saved  *)
(* once, at the end.  The decider answers whatever the contract allows or  *)
(* nothing valid, messages arrive at any moment, any step may crash.       *)
(***************************************************************************)
EXTENDS EngagePolicies

CONSTANTS
    Chats,          \* the allowed chats, in the order they are served
    Lane,           \* forum topics; the main floor of a chat is one of them
    Home,           \* the chat of each lane
    Command,        \* messages the agent wrote itself, and slash commands
    Scripts,        \* bound: what the world may do, of which a behaviour picks one
    PageLimit,      \* how many messages the host fetches at once
    BatchSize,      \* ENGAGE_DECIDER_CANDIDATES_PER_CALL
    ChatCalls,      \* ENGAGE_DECIDER_CALLS_PER_CHAT
    CycleCalls,     \* ENGAGE_DECIDER_CALLS_PER_CYCLE
    MaxInvalid,     \* ENGAGE_TOPIC_INVALID_MAX_ATTEMPTS
    ChatCap,        \* replies per chat and day, of each class
    GlobalCap,      \* replies per day, of each class
    ReactCap,       \* ENGAGE_REACT_DAILY_CAP
    Owner,          \* the host has an owner to notify
    MaxAttempts     \* sends of one action before the outbox gives it up

Chat == ToSet(Chats)
Class == {"addressed", "other"}
Kind == {"reply", "react", "notify_owner"} \cup Memory
Key == Row \X Kind
Fault == {"crash", "save", "log", "read", "notify", "other"}

\* Why a pass gave up an action that it neither took nor deferred: the text of the
\* reply, or a note that was not written.
GivenUp == {"unfit", "unwritten"}

\* The lane each message is posted to, in their order; what the decider may say of
\* it, if its answer is valid; what the proactive gate may be; how many faults of
\* each kind there may be.
Script == [floor: Seq(Lane), says: Seq(SUBSET Shape), gate: SUBSET BOOLEAN,
           faults: [Fault -> Nat]]

ASSUME CycleAssumption ==
    /\ Chats \in Seq(Chat) /\ Home \in [Lane -> Chat]
    /\ Command \subseteq Row /\ Owner \in BOOLEAN
    /\ Scripts \subseteq Script
    /\ \A x \in Scripts : /\ Len(x.floor) =< Rows /\ Len(x.says) = Len(x.floor)
                          /\ \A s \in UNION ToSet(x.says) : Legal(s)
    /\ {PageLimit, BatchSize, ChatCalls, CycleCalls, MaxInvalid, MaxAttempts} \subseteq Nat \ {0}
    /\ {ChatCap, GlobalCap, ReactCap} \subseteq Nat

VARIABLES
    script,     \* the script of this behaviour
    arrived,    \* the spool holds the messages 1..arrived
    saved,      \* the ledger in the host's state
    led,        \* the copy the running cycle works on
    pc,         \* where the cycle is
    cycle,      \* the chats it has left, its decider calls, its proactive gate
    pass,       \* the pass over the current chat
    outbox,     \* the group outbox: the state and the tries of each action
    log,        \* the action log: the actions it records as done
    fate,       \* history: what became of each message
    owed,       \* history: what the latest valid answers want done and is not
    told,       \* history: how often the owner was told of each action
    posted,     \* history: sends of replies by the cycle that Telegram accepted today
    doubted,    \* history: those of them that failed for the cycle all the same
    spent       \* the faults so far

work == <<pc, cycle, pass>>
history == <<fate, owed, told, posted, doubted>>
vars == <<script, arrived, saved, led, work, outbox, log, history, spent>>

Unset == -1
NewChat == [cursor |-> 0, resting |-> FALSE, count |-> [k \in Class |-> 0]]
NewLane == [cursor |-> Unset, failures |-> 0, invalid |-> 0, resting |-> FALSE,
            anchor |-> 0, waits |-> 0]
NewLedger == [today |-> TRUE, chat |-> [c \in Chat |-> NewChat],
              lane |-> [l \in Lane |-> NewLane], reacts |-> 0]
LaneOf(r) == script.floor[r]
ChatOf(r) == Home[LaneOf(r)]
NoCycle == [queue |-> <<>>, calls |-> 0, proactive |-> FALSE]
NoPass == [top |-> 0, snap |-> 0, second |-> 0, todo |-> {}, asked |-> {}, calls |-> 0,
           blocked |-> {}, plans |-> <<>>, demand |-> {}, done |-> {}, deferred |-> {},
           failed |-> {}]

Batch == [lane: Lane, rows: SUBSET Row, round: Nat, first: Nat]
Asked == [lane: Lane, rows: SUBSET Row, round: Nat,
          status: {"open", "invalid", "quarantined", "valid"}]

LedgerOK(l) ==
    /\ l.today \in BOOLEAN /\ l.reacts \in 0..ReactCap
    /\ l.chat \in [Chat -> [cursor: 0..Rows, resting: BOOLEAN, count: [Class -> 0..ChatCap]]]
    /\ l.lane \in [Lane -> [cursor: Unset..Rows, failures: 0..MaxInvalid, invalid: Nat,
                            resting: BOOLEAN, anchor: 0..Rows, waits: 0..MaxWaits]]

\* The variables' types; the daily counters stay within their caps.
TypeOK ==
    /\ script \in Scripts /\ arrived \in 0..Len(script.floor) /\ LedgerOK(saved) /\ LedgerOK(led)
    /\ pc \in {"idle", "chat", "decide", "validate", "apply", "log"}
    /\ cycle.queue \in Seq(Chat) /\ cycle.calls \in 0..CycleCalls
    /\ cycle.proactive \in BOOLEAN
    /\ {pass.top, pass.snap, pass.second} \subseteq 0..Rows /\ pass.calls \in 0..ChatCalls
    /\ pass.todo \subseteq Batch /\ pass.asked \subseteq Asked /\ pass.plans \in Seq(Plan)
    /\ pass.blocked \subseteq Lane /\ pass.done \subseteq Key
    /\ pass.demand \cup pass.deferred \cup pass.failed \subseteq Row
    /\ outbox \in [Key -> [state: {"none", "queued", "acked", "dead"}, tries: 0..MaxAttempts]]
    /\ log \subseteq Key /\ owed \subseteq Row \X (Kind \cup {"wait"} \cup GivenUp)
    /\ fate \in [Row -> {"unread", "judged", "quarantined"}]
    /\ told \in [Key -> Nat]
    /\ posted \subseteq Row \X Class \X (1..MaxAttempts) /\ doubted \subseteq posted
    /\ \A f \in Fault : spent[f] \in 0..script.faults[f]

Init ==
    /\ script \in Scripts /\ arrived = 0 /\ saved = NewLedger /\ led = NewLedger
    /\ pc = "idle" /\ cycle = NoCycle /\ pass = NoPass
    /\ outbox = [a \in Key |-> [state |-> "none", tries |-> 0]] /\ log = {}
    /\ fate = [r \in Row |-> "unread"] /\ owed = {}
    /\ told = [a \in Key |-> 0] /\ posted = {} /\ doubted = {}
    /\ spent = [f \in Fault |-> 0]

Spend(fault) ==
    /\ spent[fault] < script.faults[fault]
    /\ spent' = [spent EXCEPT ![fault] = @ + 1]
-------------------------------------------------------------------------------
(* The host and the world around the cycle.                                *)

Arrive ==
    /\ arrived < Len(script.floor)
    /\ arrived' = arrived + 1
    /\ UNCHANGED <<script, saved, led, work, outbox, log, history, spent>>

\* Between two cycles every retry deadline may pass...
Rested(l) == [l EXCEPT !.chat = [c \in Chat |-> [@[c] EXCEPT !.resting = FALSE]],
                       !.lane = [x \in Lane |-> [@[x] EXCEPT !.resting = FALSE]]]
TimePasses ==
    /\ pc = "idle" /\ saved # Rested(saved)
    /\ saved' = Rested(saved) /\ led' = Rested(saved)
    /\ UNCHANGED <<script, arrived, work, outbox, log, history, spent>>

\* ... the day may change ...
NextDay ==
    /\ pc = "idle" /\ saved.today
    /\ saved' = [saved EXCEPT !.today = FALSE] /\ led' = saved'
    /\ posted' = {} /\ doubted' = {}
    /\ UNCHANGED <<script, arrived, work, outbox, log, fate, owed, told, spent>>

\* ... and the host may drain the outbox (drain_group_actions): nobody counts that.
Drain(a) ==
    /\ pc = "idle" /\ outbox[a].state = "queued"
    /\ outbox' = [outbox EXCEPT ![a].state = "acked"]
    /\ UNCHANGED <<script, arrived, saved, led, work, log, history, spent>>
-------------------------------------------------------------------------------
(* The cycle over the chats.                                               *)

\* A mutant of DayRolled: the counters are reset whatever the day.
DayRolledAlways(l) ==
    [l EXCEPT !.today = TRUE, !.reacts = 0,
              !.chat = [c \in Chat |-> [@[c] EXCEPT !.count = [k \in Class |-> 0]]]]

\* A new day resets the counters and keeps the cursors.
DayRolled(l) ==
    IF l.today THEN l
    ELSE [l EXCEPT !.today = TRUE, !.reacts = 0,
                   !.chat = [c \in Chat |-> [@[c] EXCEPT !.count = [k \in Class |-> 0]]]]

\* A cycle whose gate is open; one whose gate is closed changes no cursor.
Begin ==
    /\ pc = "idle"
    /\ \E proactive \in script.gate :
         cycle' = [queue |-> Chats, calls |-> CycleCalls, proactive |-> proactive]
    /\ led' = DayRolled(saved) /\ pc' = "chat"
    /\ UNCHANGED <<script, arrived, saved, pass, outbox, log, history, spent>>

chat == Head(cycle.queue)

\* The current chat is served; its ledger is now l.
NextChat(l) ==
    /\ led' = l /\ pc' = "chat" /\ pass' = NoPass
    /\ cycle' = [cycle EXCEPT !.queue = Tail(@)]
    /\ UNCHANGED <<script, arrived, saved, outbox, log, history>>

SkipResting ==
    /\ pc = "chat" /\ cycle.queue # <<>> /\ led.chat[chat].resting
    /\ NextChat(led) /\ UNCHANGED spent

\* The page cannot be read, or the host has paused the chat.
FetchFails ==
    /\ pc = "chat" /\ cycle.queue # <<>> /\ ~led.chat[chat].resting
    /\ Spend("other") /\ NextChat(led)

\* The oldest messages of the chat behind a cursor, a bounded page of them.
Page(after) ==
    LET pending == {r \in after + 1..arrived : ChatOf(r) = chat}
    IN  {r \in pending : Cardinality({s \in pending : s =< r}) =< PageLimit}

Talk == Page(led.chat[chat].cursor) \ Command

\* A lane seen for the first time starts at the chat's cursor.
Seeded ==
    LET new == {l \in {LaneOf(r) : r \in Talk} : led.lane[l].cursor = Unset}
    IN  [led EXCEPT !.lane = [l \in Lane |-> IF l \in new
                                THEN [@[l] EXCEPT !.cursor = led.chat[chat].cursor]
                                ELSE @[l]]]

\* A lane does not see again what it consumed while the chat's cursor was parked.
Fresh == {r \in Talk : r > Seeded.lane[LaneOf(r)].cursor}

ChatAdvanced(l, top) == [l EXCEPT !.chat[chat].cursor = Max({@, top}),
                                  !.chat[chat].resting = FALSE]

NothingNew ==
    /\ pc = "chat" /\ cycle.queue # <<>> /\ ~led.chat[chat].resting
    /\ Fresh = {}
    /\ NextChat(ChatAdvanced(Seeded, Max(Page(led.chat[chat].cursor) \cup {0})))
    /\ UNCHANGED spent

InLane(rows, l) == {r \in rows : LaneOf(r) = l}

\* Lanes with a demand come first, then the lane whose oldest message waits longest.
LaneOrder(rows, l) ==
    Min(InLane(rows, l)) + IF InLane(rows, l) \cap Direct = {} THEN Rows ELSE 0

\* Batches of one lane each: the lane's messages in their order, BatchSize in a round.
Round(rows, r) ==
    LET rank == Cardinality({s \in InLane(rows, LaneOf(r)) : s =< r})
    IN  Min({i \in Row : rank =< i * BatchSize})
BatchOf(rows, r) ==
    LET mates == {s \in InLane(rows, LaneOf(r)) : Round(rows, s) = Round(rows, r)}
    IN  [lane |-> LaneOf(r), rows |-> mates, round |-> Round(rows, r),
         first |-> LaneOrder(rows, LaneOf(r))]
Batches(rows) == {BatchOf(rows, r) : r \in rows}

\* A mutant of Completed: only what was sent to the group is read back.
CompletedSends == {a \in log : a[2] \in {"reply", "react"}}

\* The actions the log records as done or dead.
Completed == log

\* The pass over a page, which takes some actions for done.
PassWith(done) ==
    [NoPass EXCEPT !.top = Max(Page(led.chat[chat].cursor)), !.snap = arrived,
                   !.todo = Batches(Fresh), !.done = done]

\* A log that cannot be read to its end tells of some of its actions only.
Fetch ==
    /\ pc = "chat" /\ cycle.queue # <<>> /\ ~led.chat[chat].resting
    /\ Fresh # {}
    /\ led' = Seeded /\ pc' = "decide"
    /\ \/ pass' = PassWith(Completed) /\ UNCHANGED spent
       \/ \E known \in SUBSET Completed : pass' = PassWith(known) /\ Spend("read")
    /\ UNCHANGED <<script, arrived, saved, cycle, outbox, log, history>>
-------------------------------------------------------------------------------
(* The decider assesses one batch after the other.                         *)

\* Batches are dealt round by round over the lanes.
batch == CHOOSE b \in pass.todo :
            \A c \in pass.todo : b.round < c.round \/ (b.round = c.round /\ b.first =< c.first)
entry == led.lane[batch.lane]
Silent == batch.lane \in pass.blocked \/ entry.resting
NoCalls == pass.calls >= ChatCalls \/ cycle.calls = 0

Assessed(status) ==
    [pass EXCEPT !.todo = @ \ {batch},
                 !.asked = @ \cup {[lane |-> batch.lane, rows |-> batch.rows,
                                    round |-> batch.round, status |-> status]}]

\* A batch of a blocked or resting lane, or one beyond the budget, stays open.
PassOver ==
    /\ pc = "decide" /\ pass.todo # {} /\ (Silent \/ NoCalls)
    /\ pass' = [Assessed("open") EXCEPT !.blocked = @ \cup (IF Silent THEN {batch.lane} ELSE {})]
    /\ UNCHANGED <<script, arrived, saved, led, pc, cycle, outbox, log, history, spent>>

Ask ==
    /\ pc = "decide" /\ pass.todo # {} /\ ~Silent /\ ~NoCalls
    /\ cycle' = [cycle EXCEPT !.calls = @ - 1]
    /\ UNCHANGED <<script, arrived, saved, pc, outbox, log, told, posted, doubted, spent>>

\* One more failure of a lane: it rests, or it is quarantined at the limit.
NotedFailure(e) ==
    LET n == Min({MaxInvalid, e.failures + 1})
    IN  [e EXCEPT !.failures = n, !.resting = n < MaxInvalid]

AskInvalid ==
    /\ Ask
    /\ LET noted == [NotedFailure(entry) EXCEPT !.invalid = Min({MaxInvalid, @ + 1})]
           ends == noted.failures = MaxInvalid
       IN  /\ led' = [led EXCEPT !.lane[batch.lane] = noted]
           /\ pass' = [Assessed(IF ends THEN "quarantined" ELSE "invalid")
                         EXCEPT !.calls = @ + 1, !.blocked = @ \cup {batch.lane}]
           /\ fate' = IF ends THEN [r \in Row |-> IF r \in batch.rows
                                                  THEN "quarantined" ELSE fate[r]]
                      ELSE fate
    /\ UNCHANGED owed

\* A mutant of Heard: the failures before a valid answer are kept.
HeardAgain(e) == [e EXCEPT !.invalid = 0, !.resting = FALSE]

\* A valid answer forgives the lane's failures.
Heard(e) == [e EXCEPT !.failures = 0, !.invalid = 0, !.resting = FALSE]

KindOf(p) == IF p.act = "delegate" THEN "reply" ELSE p.act
\* Actions the log does not record as done.
Undone(plans, done) ==
    Taken(plans, {i \in DOMAIN plans : <<plans[i].row, KindOf(plans[i])>> \notin done})

\* What an answer leaves to do: its surviving actions, and messages held to wait.
Wanted(plans, held) ==
    {<<p.row, KindOf(p)>> : p \in {q \in ToSet(plans) : q.act # "ignore"}}
      \cup held \X {"wait"}

\* The answer for a batch: one item per message.
AnswersTo(rows) ==
    {x \in [rows -> UNION ToSet(script.says)] : \A r \in rows : x[r] \in script.says[r]}

\* As plans, in the order of the messages.
PlansOf(answer) ==
    LET inOrder == Ascending(DOMAIN answer)
    IN  [i \in DOMAIN inOrder |-> PlanOf(inOrder[i], answer[inOrder[i]])]

AskValid ==
    /\ Ask
    /\ \E answer \in AnswersTo(batch.rows) :
       LET plans == PlansOf(answer)
           quiet == Heard(entry)
           allowed == WithinAutonomy(plans, Demand(plans), cycle.proactive)
           held == Held(allowed, quiet, batch.rows)
           decided == Undone(Decided(plans, quiet, batch.rows, cycle.proactive), pass.done)
       IN  /\ led' = [led EXCEPT !.lane[batch.lane] = AfterWait(allowed, quiet, batch.rows)]
           /\ pass' = [Assessed("valid")
                         EXCEPT !.calls = @ + 1, !.plans = @ \o decided,
                                !.demand = @ \cup Demand(plans),
                                !.deferred = @ \cup held,
                                !.blocked = @ \cup (IF held = {} THEN {} ELSE {batch.lane})]
           /\ fate' = [r \in Row |-> IF r \in batch.rows THEN "judged" ELSE fate[r]]
           /\ owed' = {o \in owed : o[1] \notin batch.rows} \cup Wanted(decided, held)

AllAsked ==
    /\ pc = "decide" /\ pass.todo = {} /\ pc' = "validate"
    /\ UNCHANGED <<script, arrived, saved, led, cycle, pass, outbox, log, history, spent>>
-------------------------------------------------------------------------------
(* Ceilings, the composer, and the second look at the scene.               *)

\* validate_actions reads the host's state, which may raise: the chat rests.
PassRaises ==
    /\ pc = "validate" /\ Spend("other")
    /\ NextChat([led EXCEPT !.chat[chat].resting = TRUE])

\* A mutant of Changed: only a message to the agent changes the scene.
ChangedForAgent(newer) == {LaneOf(r) : r \in newer \cap Direct}

\* Nothing will be done about some actions any more, and nothing defers their messages.
GiveUp(actions, why) == owed' = (owed \ actions) \cup {<<a[1], why>> : a \in owed \cap actions}

\* Every action is about a scene: none is taken in a lane with newer messages.
Changed(newer) == {LaneOf(r) : r \in newer \ Command}

Revalidated(plans, lanes) ==
    Taken(plans, {i \in DOMAIN plans : LaneOf(plans[i].row) \notin lanes})
Stale(plans, lanes) == {p.row : p \in {q \in ToSet(plans) : LaneOf(q.row) \in lanes}}

Validated(failing, lanes) ==
    LET admitted == Admit(pass.plans, pass.demand)
        plans == Composed(admitted.out, failing)
    IN  /\ pass' = [pass EXCEPT !.plans = Revalidated(plans, lanes), !.second = arrived,
                                !.deferred = @ \cup admitted.deferred
                                               \cup Undrafted(admitted.out, failing)
                                               \cup Stale(plans, lanes)]
        /\ pc' = "apply" /\ GiveUp(admitted.refused \X {"reply"}, "unfit")
        /\ UNCHANGED <<script, arrived, saved, led, cycle, outbox, log,
                       fate, told, posted, doubted>>

\* The composer and the fetch may fail; without a fresh scene nothing is sent.
Validate ==
    /\ pc = "validate"
    /\ \/ Validated({}, Changed(Page(pass.snap))) /\ UNCHANGED spent
       \/ Validated(Row, Changed(Page(pass.snap))) /\ Spend("other")
       \/ Validated({}, Lane) /\ Spend("other")
-------------------------------------------------------------------------------
(* Actions are applied in order.                                           *)

plan == Head(pass.plans)
key == <<plan.row, plan.act>>
class == IF plan.row \in pass.demand THEN "addressed" ELSE "other"
Pop == [pass EXCEPT !.plans = Tail(@)]
Park == [Pop EXCEPT !.deferred = @ \cup {plan.row}]
Missed == [Pop EXCEPT !.failed = @ \cup {plan.row}]

\* The sum of the chats' counters.
Total(k) == Cardinality({u \in Chat \X (1..ChatCap) : u[2] =< led.chat[u[1]].count[k]})

\* A mutant of OverCap: one reply more than the caps.
OverCapLate ==
    CASE plan.act = "reply"        -> \/ led.chat[chat].count[class] > ChatCap
                                      \/ Total(class) > GlobalCap
      [] plan.act = "react"        -> led.reacts > ReactCap
      [] plan.act = "notify_owner" -> ~Owner
      [] OTHER                     -> FALSE

OverCap ==
    CASE plan.act = "reply"        -> \/ led.chat[chat].count[class] >= ChatCap
                                      \/ Total(class) >= GlobalCap
      [] plan.act = "react"        -> led.reacts >= ReactCap
      [] plan.act = "notify_owner" -> ~Owner
      [] OTHER                     -> FALSE

Applying == /\ pc = "apply" /\ pass.plans # <<>>
            /\ UNCHANGED <<script, arrived, saved, cycle, fate>>

\* A cap, or the lack of an owner, defers the plan.
ApplyDeferred ==
    /\ Applying /\ key \notin pass.done /\ OverCap
    /\ pass' = Park
    /\ UNCHANGED <<led, pc, outbox, log, owed, told, posted, doubted, spent>>

\* A note about somebody the roster does not know, or about the agent itself, is
\* dropped; so is what is done already.
ApplyNothing ==
    /\ Applying
    /\ \/ key \in pass.done \/ plan.act = "remember_entity"
       \/ plan.act = "remember" /\ plan.row \in Nameless
    /\ pass' = Pop /\ owed' = owed \ {key}
    /\ UNCHANGED <<led, pc, outbox, log, told, posted, doubted, spent>>

Deliverable == Applying /\ key \notin pass.done /\ ~OverCap /\ plan.act \in {"reply", "react"}

Counted(l) ==
    CASE plan.act = "reply" -> [l EXCEPT !.chat[chat].count[class] = @ + 1]
      [] plan.act = "react" -> [l EXCEPT !.reacts = @ + 1]

\* This send of the reply.
sending == <<plan.row, class, outbox[key].tries + 1>>

\* The outbox has or gets Telegram's acceptance.
Delivered ==
    /\ Deliverable /\ outbox[key].state # "dead"
    /\ outbox' = [outbox EXCEPT ![key] = [state |-> "acked", tries |-> 0]]
    /\ posted' = IF plan.act = "reply" /\ outbox[key].state # "acked"
                 THEN posted \cup {sending} ELSE posted
    /\ led' = Counted(led)
    /\ owed' = owed \ {key} /\ pc' = "log"
    /\ pass' = [pass EXCEPT !.done = @ \cup {key}]
    /\ UNCHANGED <<log, told, doubted, spent>>

\* The send fails; the action stays queued, or dies with its last attempt.  Telegram
\* may have accepted it all the same, which nobody counts.
DeliveryFails ==
    /\ Deliverable /\ outbox[key].state \in {"none", "queued"}
    /\ LET n == outbox[key].tries + 1
       IN  outbox' = [outbox EXCEPT ![key] = IF n < MaxAttempts
                                             THEN [state |-> "queued", tries |-> n]
                                             ELSE [state |-> "dead", tries |-> n]]
    /\ pass' = Missed
    /\ \/ UNCHANGED <<posted, doubted>>
       \/ /\ plan.act = "reply"
          /\ posted' = posted \cup {sending} /\ doubted' = doubted \cup {sending}
    /\ UNCHANGED <<led, pc, log, owed, told, spent>>

\* The outbox finds the action in flight, or its retry not due.
NotDue ==
    /\ Deliverable /\ outbox[key].state = "queued" /\ Spend("other")
    /\ pass' = Missed
    /\ UNCHANGED <<led, pc, outbox, log, owed, told, posted, doubted>>

\* The owner is told of the action, or is not.
Tell(once) == told' = [told EXCEPT ![key] = @ + once]

\* A dead action leaves a tombstone in the log, or only in the outbox, and the owner
\* is alerted; an alert that raises is swallowed.
DeadLettered ==
    /\ Deliverable /\ outbox[key].state = "dead"
    /\ \/ log' = log \cup {key} /\ UNCHANGED spent
       \/ Spend("log") /\ UNCHANGED log
    /\ pass' = Pop /\ owed' = owed \ {key}
    /\ \E once \in 0..1 : Tell(once)
    /\ UNCHANGED <<led, pc, outbox, posted, doubted>>

\* Owner notifications and notes are done at once.
SideEffect ==
    /\ Applying /\ key \notin pass.done /\ ~OverCap
    /\ plan.act \in {"notify_owner"} \cup Memory
    /\ ~(plan.act = "remember" /\ plan.row \in Nameless)

SideEffectDone ==
    /\ SideEffect
    /\ Tell(IF plan.act = "notify_owner" THEN 1 ELSE 0)
    /\ owed' = owed \ {key} /\ pc' = "log"
    /\ pass' = [pass EXCEPT !.done = @ \cup {key}]
    /\ UNCHANGED <<led, outbox, log, posted, doubted, spent>>

\* The roster swallows a failure to note something, and so the cycle forgets it.
NoteLost ==
    /\ SideEffect /\ plan.act \in Memory /\ Spend("other")
    /\ pass' = Pop /\ GiveUp({key}, "unwritten")
    /\ UNCHANGED <<led, pc, outbox, log, told, posted, doubted>>

\* A notification that raises, which may have reached the owner.
NotifyRaises ==
    /\ SideEffect /\ plan.act = "notify_owner" /\ Spend("notify")
    /\ pass' = Missed /\ \E once \in 0..1 : Tell(once)
    /\ UNCHANGED <<led, pc, outbox, log, owed, posted, doubted>>

\* The row of the action log; a failing write is swallowed.  (A row is lost also when
\* it is appended to one that a crash cut short: they are one line, which no reader
\* can parse.)
LogAction ==
    /\ pc = "log"
    /\ \/ log' = log \cup {key} /\ UNCHANGED spent
       \/ Spend("log") /\ UNCHANGED log
    /\ pc' = "apply" /\ pass' = Pop
    /\ UNCHANGED <<script, arrived, saved, led, cycle, outbox, history>>
-------------------------------------------------------------------------------
(* The end of a pass and of the cycle.                                     *)

unsettled == pass.deferred \cup pass.failed
FailedLanes == {LaneOf(r) : r \in pass.failed}
Failing == FailedLanes \cup {b.lane : b \in {a \in pass.asked : a.status = "invalid"}}

\* A mutant of Settled: a batch with deferred or failed messages is settled.
SettledByStatus(b) == b.status \in {"valid", "quarantined"}

Settled(b) == b.status \in {"valid", "quarantined"} /\ b.rows \cap unsettled = {}

\* A lane passes its batches up to the first one that is not settled.
Passed(l) ==
    UNION {b.rows : b \in {c \in pass.asked :
       /\ c.lane = l
       /\ \A d \in pass.asked : d.lane = l /\ d.round =< c.round => Settled(d)}}

\* A mutant of Pending: batches that were not asked leave nothing pending.
PendingDeferred == \E b \in pass.asked : b.rows \cap unsettled # {}

Pending == \E b \in pass.asked : ~Settled(b)

LaneAdvanced(e, l) ==
    IF Passed(l) = {} THEN e
    ELSE LET ahead == [e EXCEPT !.cursor = Max(Passed(l) \cup {@})]
         IN  IF l \in Failing THEN ahead
             ELSE Heard(ahead)

AfterPass(l) ==
    LET e == IF l \in FailedLanes THEN NotedFailure(led.lane[l]) ELSE led.lane[l]
    IN  LaneAdvanced(e, l)

Finish ==
    /\ pc = "apply" /\ pass.plans = <<>>
    /\ LET after == [led EXCEPT !.lane = [l \in Lane |-> AfterPass(l)]]
       IN  NextChat(ChatAdvanced(after, IF Pending THEN 0 ELSE pass.top))
    /\ UNCHANGED spent

Save ==
    /\ pc = "chat" /\ cycle.queue = <<>>
    /\ saved' = led /\ pc' = "idle" /\ cycle' = NoCycle
    /\ UNCHANGED <<script, arrived, led, pass, outbox, log, history, spent>>

\* A save that fails, or a crash anywhere: what the cycle knew is forgotten.
Forget == /\ led' = saved /\ pc' = "idle" /\ cycle' = NoCycle /\ pass' = NoPass
          /\ UNCHANGED <<script, arrived, saved, outbox, log, history>>

SaveFails == pc = "chat" /\ cycle.queue = <<>> /\ Spend("save") /\ Forget
Crash == pc # "idle" /\ Spend("crash") /\ Forget
-------------------------------------------------------------------------------
\* The cycle itself, and what may hit it.
Run == \/ Begin \/ SkipResting \/ NothingNew \/ Fetch
       \/ PassOver \/ AskInvalid \/ AskValid \/ AllAsked
       \/ Validate \/ ApplyDeferred \/ ApplyNothing \/ Delivered \/ DeliveryFails
       \/ DeadLettered \/ SideEffectDone \/ LogAction \/ Finish \/ Save
Misfortune == \/ FetchFails \/ PassRaises \/ NotDue
              \/ NoteLost \/ NotifyRaises \/ SaveFails \/ Crash

Next == Run \/ Misfortune \/ Arrive \/ TimePasses \/ NextDay \/ \E a \in Key : Drain(a)

Spec == Init /\ [][Next]_vars

\* The host runs cycle after cycle and deciders, composers and sends return, so the
\* cycle's own state keeps changing: this is weak fairness of Run.  (A step of Run is
\* always enabled: in the middle of a cycle nothing else but a message or a fault is,
\* both finite in number, so TLC would report a deadlock.)  Days change again and
\* again, and between cycles retry deadlines pass.
FairSpec == Spec /\ []<><<TRUE>>_work /\ []<><<NextDay>>_saved /\ SF_saved(TimePasses)
-------------------------------------------------------------------------------
(* Properties.                                                             *)

Behind(r) == r =< saved.chat[ChatOf(r)].cursor \/ r =< saved.lane[LaneOf(r)].cursor

\* No saved cursor is past a message whose latest valid assessment left an action
\* undone, or asked to wait, but for the two ways in which the code gives up an action
\* for good: the text of a reply is empty or too long once it is sanitized, the roster
\* failed to write a note.
NothingOwedBehind ==
    \A o \in owed : Behind(o[1]) => fate[o[1]] = "quarantined" \/ o[2] \in GivenUp

\* "Over-cap work is deferred, not dropped": an action that a ceiling or the validation
\* keeps from being taken is not given up.
NothingDropped ==
    \A o \in owed : Behind(o[1]) => fate[o[1]] = "quarantined" \/ o[2] = "unwritten"

\* A cursor passes no message that nobody assessed: a message seeded behind a new
\* lane's cursor, beyond a page or a batch, or of a resting lane is read later.
NothingUnread ==
    \A r \in 1..arrived \ Command : Behind(r) => fate[r] # "unread"

\* The replies a day shows exceed a cap only by lost ledgers, each at most by the cap
\* once more, and by sends that failed although Telegram accepted them, each by one.
CapsHold ==
    LET lost == spent["crash"] + spent["save"]
        of(sends, c, k) == {p \in sends : ChatOf(p[1]) = c /\ p[2] = k}
        all(sends, k) == UNION {of(sends, c, k) : c \in Chat}
    IN  \A k \in Class :
          /\ \A c \in Chat : Cardinality(of(posted, c, k))
                                =< ChatCap * (1 + lost) + Cardinality(of(doubted, c, k))
          /\ Cardinality(all(posted, k)) =< GlobalCap * (1 + lost) + Cardinality(all(doubted, k))

\* The owner is told once of an action, be it the notification itself or the alert that
\* a reply or a reaction is dead, but for a crash, a row the log lost, a read of the
\* log that failed, and a notification that raised after it was sent.  A ledger that
\* could not be saved repeats nothing.  (Alerts of a quarantine are about no action.)
ToldOnce ==
    \A a \in Key : told[a] =< 1 + spent["crash"] + spent["log"] + spent["read"] + spent["notify"]

\* A lane is quarantined only after two invalid answers since its last valid one:
\* failed deliveries share the counter and can take the place of one at most.
QuarantineEarned ==
    \A l \in Lane : led.lane[l].failures =< led.lane[l].invalid + 1

\* No action is taken on a scene that has moved: when an action takes effect no
\* message came to its lane between the page it was decided on and the second look
\* (which reads one page).
SceneStillOpen ==
    [][pc = "apply" /\ pc' = "log" =>
         \A r \in pass.snap + 1..pass.second :
            \/ LaneOf(r) # LaneOf(plan.row) \/ r \in Command
            \/ Cardinality({s \in pass.snap + 1..r : ChatOf(s) = chat}) > PageLimit]_vars

\* Whatever the decider answers, every message is settled in the end: again and again
\* the cursors are past all that has arrived.
RowsSettle == []<>(\A r \in 1..arrived : saved.chat[ChatOf(r)].cursor >= r)
===============================================================================
