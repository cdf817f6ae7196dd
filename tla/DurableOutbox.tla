----------------------------- MODULE DurableOutbox -----------------------------
(***************************************************************************)
(* telegram_presence/outbox.py: the filesystem outbox with leases, bounded *)
(* backoff and crash recovery.  One JSON file per delivery, replaced       *)
(* atomically (temporary file, fsync, rename, directory fsync); every      *)
(* operation runs under an exclusive file lock, so a critical section is   *)
(* one step, except that a crash inside a section that rewrites several    *)
(* files leaves a part of them rewritten.  Workers are processes that      *)
(* share the root directory.  The transport call is made outside the lock. *)
(***************************************************************************)
EXTENDS Integers, FiniteSets

CONSTANTS
    Delivery,           \* delivery ids, numbers standing for their sort order
    Worker,             \* processes dispatching from the same root
    Lease,              \* supply of lease ids (uuid4)
    Transport,          \* transport names
    TransportOf,        \* the transport each delivery's envelope names
    Routes,             \* the transports each worker has a sender for
    Limits,             \* the max_attempts values a process may be started with
    MaxLimit,           \* the largest of them
    BaseRetry,          \* base_retry_seconds, in ticks
    MaxRetry,           \* max_retry_seconds, in ticks
    SendingTimeout,     \* sending_timeout_seconds, in ticks
    TimeoutCoversSend,  \* the host set the timeout above the longest call
    MaxCrashes,         \* bound: process crashes
    MaxRollbacks,       \* bound: backward steps of the wall clock
    MaxGenerations,     \* bound: enqueues and requeues of one delivery
    None,               \* an absent timestamp or lease
    NoRecord            \* the file does not exist

State == {"pending", "sending", "acked", "failed", "dead_letter"}
Retryable == {"pending", "failed"}

Record == [state: State, attempts: Nat, next: Nat \cup {None},
           created: Nat, updated: Nat, started: Nat \cup {None},
           acked: Nat \cup {None}, lease: Lease \cup {None}]

ASSUME OutboxAssumption ==
    /\ Delivery \subseteq Nat
    /\ TransportOf \in [Delivery -> Transport]
    /\ Routes \in [Worker -> SUBSET Transport]
    /\ MaxLimit \in Limits /\ Limits \subseteq 1..MaxLimit /\ MaxLimit \in Nat
    /\ BaseRetry \in Nat \ {0} /\ MaxRetry \in Nat /\ BaseRetry =< MaxRetry
    /\ SendingTimeout \in Nat \ {0}
    /\ TimeoutCoversSend \in BOOLEAN
    /\ {MaxCrashes, MaxRollbacks, MaxGenerations} \subseteq Nat
    /\ None \notin Nat \cup Lease
    /\ NoRecord \notin Record

VARIABLES
    rec,        \* the record file of each delivery
    clock,      \* the wall clock
    pc,         \* where each worker process is
    work,       \* the delivery a worker claimed, and what its sender returned
    limit,      \* the max_attempts the process was constructed with
    accepted,   \* history: deliveries the remote accepted since their enqueue
    claims,     \* history: transport calls begun for each delivery
    gens,       \* history: enqueues and operator requeues of each delivery
    crashes, rollbacks   \* spent bounds

vars == <<rec, clock, pc, work, limit, accepted, claims, gens, crashes, rollbacks>>

PC == {"down", "recover", "enforce", "idle", "force", "sweep", "claim", "send",
       "settle"}
Result == {"none", "ok", "error"}
NoWork == [id |-> None, lease |-> None, result |-> "none"]

-------------------------------------------------------------------------------
Exists(d) == rec[d] # NoRecord
InState(d, S) == Exists(d) /\ rec[d].state \in S
Later(a, b) == IF a > b THEN a ELSE b

\* A worker inside its transport call or about to record the call's result.
Engaged(w) == pc[w] \in {"send", "settle"}

\* The variables' types; a worker inside a transport call knows its delivery.
TypeOK ==
    /\ rec \in [Delivery -> Record \cup {NoRecord}]
    /\ clock \in Nat
    /\ pc \in [Worker -> PC]
    /\ work \in [Worker -> [id: Delivery \cup {None}, lease: Lease \cup {None},
                            result: Result]]
    /\ \A w \in Worker : Engaged(w) => work[w].id \in Delivery /\ work[w].lease \in Lease
    /\ limit \in [Worker -> Limits]
    /\ accepted \subseteq Delivery
    /\ claims \in [Delivery -> Nat] /\ gens \in [Delivery -> Nat]
    /\ crashes \in Nat /\ rollbacks \in Nat

\* The exponential backoff, capped; an overflowing power is capped as well.
RetryDelay(attempts) ==
    LET fits == {n \in 1..MaxRetry : n = BaseRetry * 2^(attempts - 1)}
    IN IF fits = {} THEN MaxRetry ELSE CHOOSE n \in fits : TRUE

New(now) ==
    [state |-> "pending", attempts |-> 0, next |-> now, created |-> now,
     updated |-> now, started |-> None, acked |-> None, lease |-> None]

Claimed(r, now, lease) ==
    LET at == Later(now, r.updated)
    IN [state |-> "sending", attempts |-> r.attempts + 1, next |-> None,
        created |-> r.created, updated |-> at, started |-> at, acked |-> None,
        lease |-> lease]

DeadLettered(r, now) ==
    [state |-> "dead_letter", attempts |-> r.attempts, next |-> None,
     created |-> r.created, updated |-> Later(now, r.updated), started |-> None,
     acked |-> None, lease |-> None]

\* A mutant of Acked: no guard against a clock that stepped back.
AckedAtWallClock(r, now) ==
    [state |-> "acked", attempts |-> r.attempts, next |-> None,
     created |-> r.created, updated |-> now, started |-> None, acked |-> now,
     lease |-> None]

Acked(r, now) ==
    LET at == Later(now, r.updated)
    IN [state |-> "acked", attempts |-> r.attempts, next |-> None,
        created |-> r.created, updated |-> at, started |-> None, acked |-> at,
        lease |-> None]

\* A mutant of Failed: the delay is subtracted.
FailedEarly(r, now, delay) ==
    LET at == Later(now, r.updated)
    IN [state |-> "failed", attempts |-> r.attempts, next |-> at - delay,
        created |-> r.created, updated |-> at, started |-> None, acked |-> None,
        lease |-> None]

Failed(r, now, delay) ==
    LET at == Later(now, r.updated)
    IN [state |-> "failed", attempts |-> r.attempts, next |-> at + delay,
        created |-> r.created, updated |-> at, started |-> None, acked |-> None,
        lease |-> None]

-------------------------------------------------------------------------------
Init ==
    /\ rec = [d \in Delivery |-> NoRecord]
    /\ clock = 0
    /\ pc = [w \in Worker |-> "down"]
    /\ work = [w \in Worker |-> NoWork]
    /\ limit = [w \in Worker |-> MaxLimit]
    /\ accepted = {}
    /\ claims = [d \in Delivery |-> 0] /\ gens = [d \in Delivery |-> 0]
    /\ crashes = 0 /\ rollbacks = 0

history == <<accepted, claims, gens>>
bounds == <<crashes, rollbacks>>
Goto(w, label) == pc' = [pc EXCEPT ![w] = label]

\* An id no record and no worker holds: what uuid4 gives in practice.
FreshLeases == Lease \ ({rec[d].lease : d \in {e \in Delivery : Exists(e)}}
                        \cup {work[w].lease : w \in Worker})

-------------------------------------------------------------------------------
(* A process constructs the outbox; "recover" may be switched off.  A      *)
(* controlled restart, with no other process up until it is done, may take *)
(* every lease away (recover_inflight(force=True), as its docstring        *)
(* intends it).                                                            *)
Start(w) ==
    /\ pc[w] = "down" /\ \A v \in Worker : pc[v] # "force"
    /\ \E l \in Limits : limit' = [limit EXCEPT ![w] = l]
    /\ \/ \E label \in {"recover", "idle"} : Goto(w, label)
       \/ (\A v \in Worker : pc[v] = "down") /\ Goto(w, "force")
    /\ UNCHANGED <<rec, clock, work, history, bounds>>

\* Mutants of Stale: the age of the lease is not looked at; only a constructor
\* recovers leases.
StaleWhateverAge(w) == {d \in Delivery : InState(d, {"sending"})}

StaleAtStartOnly(w) ==
    {d \in Delivery : /\ InState(d, {"sending"}) /\ pc[w] # "sweep"
                      /\ rec[d].started + SendingTimeout =< clock}

\* Leases recover_inflight takes away: the abandoned ones, or all when forced.
Stale(w) ==
    {d \in Delivery : /\ InState(d, {"sending"})
                      /\ \/ pc[w] = "force"
                         \/ rec[d].started + SendingTimeout =< clock}

\* A mutant of Recovered: an interrupted attempt is not counted.
RecoveredUncounted(w, r) ==
    [Failed(r, clock, 0) EXCEPT !.attempts = r.attempts - 1]

Recovered(w, r) ==
    IF r.attempts >= limit[w] THEN DeadLettered(r, clock) ELSE Failed(r, clock, 0)

\* Retryable deliveries without an attempt left under this process's limit.
Exhausted(w) ==
    {d \in Delivery : /\ InState(d, Retryable)
                      /\ rec[d].attempts >= limit[w]
                      /\ \/ pc[w] = "enforce"
                         \/ TransportOf[d] \in Routes[w]}

Release(w, S) ==
    rec' = [d \in Delivery |-> IF d \in S THEN Recovered(w, rec[d]) ELSE rec[d]]

Bury(S) ==
    rec' = [d \in Delivery |-> IF d \in S THEN DeadLettered(rec[d], clock) ELSE rec[d]]

RecoverInflight(w) ==
    /\ pc[w] \in {"recover", "sweep", "force"}
    /\ Release(w, Stale(w))
    /\ Goto(w, CASE pc[w] = "recover" -> "enforce"
                 [] pc[w] = "sweep" -> "claim"
                 [] pc[w] = "force" -> "idle")
    /\ UNCHANGED <<clock, work, limit, history, bounds>>

EnforceAttemptLimits(w) ==
    /\ pc[w] = "enforce"
    /\ Bury(Exhausted(w))
    /\ Goto(w, "idle")
    /\ UNCHANGED <<clock, work, limit, history, bounds>>

-------------------------------------------------------------------------------
(* The host's operations on the outbox, from a process that is not busy.   *)

Enqueue(w, d) ==
    /\ pc[w] = "idle"
    /\ ~Exists(d)                \* a known key returns the record unchanged
    /\ gens[d] < MaxGenerations
    /\ rec' = [rec EXCEPT ![d] = New(clock)]
    /\ gens' = [gens EXCEPT ![d] = @ + 1]
    /\ accepted' = accepted \ {d}
    /\ UNCHANGED <<clock, pc, work, limit, claims, bounds>>

RequeueDeadLetter(w, d) ==
    /\ pc[w] = "idle"
    /\ InState(d, {"dead_letter"})
    /\ gens[d] < MaxGenerations
    /\ rec' = [rec EXCEPT ![d] = [Failed(rec[d], clock, 0) EXCEPT !.attempts = 0]]
    /\ gens' = [gens EXCEPT ![d] = @ + 1]
    /\ UNCHANGED <<clock, pc, work, limit, accepted, claims, bounds>>

\* purge_acked: its "before", and how far it came if the process died in it,
\* decide which of the ACKed files go.
PurgeAcked(w) ==
    /\ pc[w] = "idle"
    /\ \E S \in SUBSET {d \in Delivery : InState(d, {"acked"})} :
         /\ S # {}
         /\ rec' = [d \in Delivery |-> IF d \in S THEN NoRecord ELSE rec[d]]
    /\ UNCHANGED <<clock, pc, work, limit, history, bounds>>

\* dispatch_due or dispatch_one is called.
Dispatch(w) ==
    /\ pc[w] = "idle"
    /\ Goto(w, "sweep")
    /\ UNCHANGED <<rec, clock, work, limit, history, bounds>>

-------------------------------------------------------------------------------
(* One claim, send and settle of a dispatch.                               *)

Due(w) == {d \in Delivery : /\ InState(d, Retryable)
                            /\ TransportOf[d] \in Routes[w]
                            /\ rec[d].attempts < limit[w]
                            /\ rec[d].next =< clock}

\* The sort key (next_attempt_at, created_at, delivery_id).
Before(d, e) ==
    \/ rec[d].next < rec[e].next
    \/ rec[d].next = rec[e].next /\ rec[d].created < rec[e].created
    \/ rec[d].next = rec[e].next /\ rec[d].created = rec[e].created /\ d < e

Lend(w, d, lease) ==
    /\ work' = [work EXCEPT ![w] = [id |-> d, lease |-> lease, result |-> "none"]]
    /\ claims' = [claims EXCEPT ![d] = @ + 1]
    /\ Goto(w, "send")

ClaimDue(w) ==
    /\ pc[w] = "claim"
    /\ \E d \in Due(w), lease \in FreshLeases :
         /\ \A e \in Due(w) \ {d} : Before(d, e)
         /\ rec' = [e \in Delivery |->
                      IF e = d THEN Claimed(rec[d], clock, lease)
                      ELSE IF e \in Exhausted(w) THEN DeadLettered(rec[e], clock)
                      ELSE rec[e]]
         /\ Lend(w, d, lease)
    /\ UNCHANGED <<clock, limit, accepted, gens, bounds>>

NothingDue(w) ==
    /\ pc[w] = "claim"
    /\ Due(w) = {}
    /\ Bury(Exhausted(w))
    /\ Goto(w, "idle")
    /\ UNCHANGED <<clock, work, limit, history, bounds>>

\* dispatch_one names the delivery (the host passes the matching sender).
ClaimOne(w, d) ==
    /\ pc[w] = "claim"
    /\ \/ /\ d \in Due(w)
          /\ \E lease \in FreshLeases :
               /\ rec' = [rec EXCEPT ![d] = Claimed(rec[d], clock, lease)]
               /\ Lend(w, d, lease)
       \/ /\ d \in Exhausted(w)
          /\ rec' = [rec EXCEPT ![d] = DeadLettered(rec[d], clock)]
          /\ Goto(w, "idle")
          /\ UNCHANGED <<work, claims>>
       \/ /\ d \notin Due(w) \cup Exhausted(w)
          /\ Goto(w, "idle")
          /\ UNCHANGED <<rec, work, claims>>
    /\ UNCHANGED <<clock, limit, accepted, gens, bounds>>

\* The sender returns or raises.  An error may follow a remote acceptance (a
\* timeout, a lost answer); success is reported only for an accepted message.
Send(w) ==
    /\ pc[w] = "send"
    /\ \E result \in {"ok", "error"} :
         /\ work' = [work EXCEPT ![w].result = result]
         /\ \/ accepted' = accepted \cup {work[w].id}
            \/ result = "error" /\ UNCHANGED accepted
    /\ Goto(w, "settle")
    /\ UNCHANGED <<rec, clock, limit, claims, gens, bounds>>

\* A mutant of HoldsLease: the result is recorded whoever owns the record now.
HoldsRecord(w) == Exists(work[w].id)

HoldsLease(w) ==
    LET d == work[w].id
    IN InState(d, {"sending"}) /\ rec[d].lease = work[w].lease

\* The record as the settled attempt leaves it.
Settled(w, r) ==
    IF work[w].result = "ok" THEN Acked(r, clock)
    ELSE IF r.attempts >= limit[w] THEN DeadLettered(r, clock)
    ELSE Failed(r, clock, RetryDelay(r.attempts))

\* The dispatch ends or goes on to the next claim; a record that disappeared
\* ends it with OutboxCorruptionError; a lost lease leaves the record alone.
Settle(w) ==
    LET d == work[w].id
    IN /\ pc[w] = "settle"
       /\ rec' = IF HoldsLease(w) THEN [rec EXCEPT ![d] = Settled(w, rec[d])] ELSE rec
       /\ \E label \in IF Exists(d) THEN {"claim", "idle"} ELSE {"idle"} :
            Goto(w, label)
       /\ work' = [work EXCEPT ![w] = NoWork]
       /\ UNCHANGED <<clock, limit, history, bounds>>

-------------------------------------------------------------------------------
(* The process dies, inside a critical section with a part of its files    *)
(* rewritten, or anywhere else.  What the transport call did before the    *)
(* death stays done.                                                       *)
Crash(w) ==
    /\ pc[w] # "down" /\ crashes < MaxCrashes
    /\ \/ /\ pc[w] \in {"recover", "sweep", "force"}
          /\ \E S \in SUBSET Stale(w) : Release(w, S)
          /\ UNCHANGED accepted
       \/ /\ pc[w] \in {"enforce", "claim"}
          /\ \E S \in SUBSET Exhausted(w) : Bury(S)
          /\ UNCHANGED accepted
       \/ /\ pc[w] = "send" /\ UNCHANGED rec
          /\ accepted' \in {accepted, accepted \cup {work[w].id}}
       \/ pc[w] \in {"idle", "settle"} /\ UNCHANGED <<rec, accepted>>
    /\ Goto(w, "down")
    /\ work' = [work EXCEPT ![w] = NoWork]
    /\ limit' = [limit EXCEPT ![w] = MaxLimit]
    /\ crashes' = crashes + 1
    /\ UNCHANGED <<clock, claims, gens, rollbacks>>

\* A retry time or a lease expiry lies ahead: later times tell nothing apart.
DeadlineAhead ==
    \E d \in Delivery : \/ InState(d, Retryable) /\ rec[d].next > clock
                        \/ /\ InState(d, {"sending"})
                           /\ rec[d].started + SendingTimeout > clock

Tick ==
    /\ DeadlineAhead
    /\ \A w \in Worker :
         TimeoutCoversSend /\ Engaged(w) =>
            clock + 1 < rec[work[w].id].started + SendingTimeout
    /\ clock' = clock + 1
    /\ UNCHANGED <<rec, pc, work, limit, history, bounds>>

\* The wall clock is set back, or "now" was read before a long wait for the lock.
StepBack ==
    /\ rollbacks < MaxRollbacks
    /\ \E t \in 0..(clock - 1) : clock' = t
    /\ rollbacks' = rollbacks + 1
    /\ UNCHANGED <<rec, pc, work, limit, history, crashes>>

WorkerStep(w) ==
    \/ Start(w) \/ RecoverInflight(w) \/ EnforceAttemptLimits(w)
    \/ PurgeAcked(w) \/ Dispatch(w)
    \/ ClaimDue(w) \/ NothingDue(w) \/ Send(w) \/ Settle(w) \/ Crash(w)
    \/ \E d \in Delivery : Enqueue(w, d) \/ RequeueDeadLetter(w, d) \/ ClaimOne(w, d)

Next == Tick \/ StepBack \/ \E w \in Worker : WorkerStep(w)

Spec == Init /\ [][Next]_vars

(* A host restarts its processes and keeps calling dispatch_due from a     *)
(* scheduler, whatever else it does with the outbox; a call that started   *)
(* runs to its end; time passes.                                           *)
Fairness ==
    /\ WF_clock(Tick)
    /\ \A w \in Worker :
         /\ WF_vars(Start(w)) /\ SF_vars(Dispatch(w))
         /\ WF_vars(RecoverInflight(w)) /\ WF_vars(EnforceAttemptLimits(w))
         /\ SF_vars(ClaimDue(w) \/ NothingDue(w))
         /\ WF_vars(Send(w)) /\ WF_vars(Settle(w))

FairSpec == Spec /\ Fairness

-------------------------------------------------------------------------------
(* What a reader of the files sees: DeliveryContract, implemented.         *)
Reported(r) == IF r = NoRecord THEN "absent"
               ELSE IF r.state = "acked" THEN "acked"
               ELSE IF r.state = "dead_letter" THEN "dead" ELSE "queued"

Tries(r) == IF r = NoRecord THEN 0 ELSE r.attempts

Contract == INSTANCE DeliveryContract WITH
              MaxAttempts <- MaxLimit, Forgettable <- {"acked"},
              status <- [d \in Delivery |-> Reported(rec[d])],
              tries <- [d \in Delivery |-> Tries(rec[d])],
              accepted <- [d \in Delivery |-> d \in accepted]

\* The outbox keeps the delivery contract: an intent becomes "acked" only after
\* the remote accepted it in this life of the record, leaves "acked" only by a
\* purge, is never set aside untried, and is tried at most max_attempts times,
\* whatever stale workers, crashes inside a section and clock steps do.
Implements == Contract!ContractSpec

\* The consistency conditions of DeliveryRecord.__post_init__ (delivery.py).
Valid(r) ==
    /\ r.updated >= r.created
    /\ \/ /\ r.state = "sending" /\ r.attempts >= 1
          /\ r.started # None /\ r.lease # None /\ r.next = None /\ r.acked = None
       \/ /\ r.state = "acked" /\ r.attempts >= 1
          /\ r.acked # None /\ r.started = None /\ r.lease = None /\ r.next = None
       \/ /\ r.state = "failed"
          /\ r.next # None /\ r.started = None /\ r.acked = None /\ r.lease = None
       \/ /\ r.state = "dead_letter" /\ r.attempts >= 1
          /\ r.next = None /\ r.started = None /\ r.acked = None /\ r.lease = None
       \/ /\ r.state = "pending"
          /\ r.started = None /\ r.acked = None /\ r.lease = None

\* Every record an operation writes passes DeliveryRecord.__post_init__
\* (delivery.py): otherwise the operation raises half-way, and a file that was
\* written so would make every later scan of the directory raise.
RecordValid == \A d \in {e \in Delivery : Exists(e)} : Valid(rec[d])

\* "Attempt count is bounded": however workers, crashes and recoveries
\* interleave, one intent begins at most max_attempts transport calls for each
\* time it was enqueued or requeued by the operator.
CallsBounded == \A d \in Delivery : claims[d] =< MaxLimit * gens[d]

\* With the timeout above the longest transport call, as README.md asks, a live
\* worker keeps the lease of the delivery it is sending until it has recorded
\* the result: no second worker sends it meanwhile, its result is never thrown
\* away, and its record never disappears under it (OutboxCorruptionError).
LiveLeaseHeld == TimeoutCoversSend => \A w \in Worker : Engaged(w) => HoldsLease(w)

\* Every queued intent is delivered or set aside in the end, and one that is
\* never refused for good does not wait for ever behind the others.
QueuedSettles ==
    \A d \in Delivery : Reported(rec[d]) = "queued" ~> Reported(rec[d]) # "queued"
===============================================================================
