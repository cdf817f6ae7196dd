-------------------------- MODULE DurableOutboxProofs --------------------------
(* Theorems about DurableOutbox, for every set of deliveries, workers and  *)
(* leases, every routing, every delay and timeout, and every bound.        *)
EXTENDS DurableOutbox, TLAPS

-------------------------------------------------------------------------------
(* What the operators on one record return.                                *)

LEMMA LaterType ==
    ASSUME NEW a \in Nat, NEW b \in Nat
    PROVE  Later(a, b) \in Nat /\ Later(a, b) >= a /\ Later(a, b) >= b
BY DEF Later

LEMMA LimitRange ==
    MaxLimit \in Nat /\ \A n \in Limits : n \in Nat /\ n >= 1 /\ n =< MaxLimit
<1>1. MaxLimit \in Nat /\ Limits \subseteq 1..MaxLimit
  BY OutboxAssumption
<1>2. QED BY <1>1

LEMMA RetryDelayType == ASSUME NEW n \in Nat PROVE RetryDelay(n) \in Nat
<1> DEFINE fits == {k \in 1..MaxRetry : k = BaseRetry * 2^(n - 1)}
<1>1. CASE fits = {}
  BY <1>1, OutboxAssumption DEF RetryDelay
<1>2. CASE fits # {}
  <2>1. (CHOOSE k \in fits : TRUE) \in fits
    BY <1>2
  <2>2. QED BY <2>1, <1>2, OutboxAssumption DEF RetryDelay
<1>3. QED BY <1>1, <1>2

LEMMA NewRecord ==
    ASSUME NEW now \in Nat
    PROVE  /\ New(now) \in Record
           /\ New(now).state = "pending" /\ New(now).attempts = 0
           /\ New(now).lease = None /\ New(now).started = None
BY DEF New, Record, State

LEMMA ClaimedRecord ==
    ASSUME NEW r \in Record, NEW now \in Nat, NEW lease \in Lease
    PROVE  LET c == Claimed(r, now, lease)
           IN /\ c \in Record
              /\ c.state = "sending" /\ c.attempts = r.attempts + 1
              /\ c.lease = lease /\ c.started \in Nat /\ c.started >= now
<1> DEFINE at == Later(now, r.updated)
<1>1. r.updated \in Nat /\ r.attempts \in Nat /\ r.created \in Nat
  BY DEF Record
<1>2. at \in Nat /\ at >= now
  BY <1>1, LaterType
<1>3. QED BY <1>1, <1>2 DEF Claimed, Record, State

LEMMA DeadLetteredRecord ==
    ASSUME NEW r \in Record, NEW now \in Nat
    PROVE  LET c == DeadLettered(r, now)
           IN /\ c \in Record
              /\ c.state = "dead_letter" /\ c.attempts = r.attempts
BY LaterType DEF DeadLettered, Record, State

LEMMA AckedRecord ==
    ASSUME NEW r \in Record, NEW now \in Nat
    PROVE  LET c == Acked(r, now)
           IN c \in Record /\ c.state = "acked" /\ c.attempts = r.attempts
BY LaterType DEF Acked, Record, State

LEMMA FailedRecord ==
    ASSUME NEW r \in Record, NEW now \in Nat, NEW delay \in Nat
    PROVE  LET c == Failed(r, now, delay)
           IN c \in Record /\ c.state = "failed" /\ c.attempts = r.attempts
<1> DEFINE at == Later(now, r.updated)
<1>1. r.updated \in Nat /\ r.attempts \in Nat /\ r.created \in Nat
  BY DEF Record
<1>2. at \in Nat
  BY <1>1, LaterType
<1> HIDE DEF at
<1>3. at + delay \in Nat
  BY <1>2
<1>4. Failed(r, now, delay) =
        [state |-> "failed", attempts |-> r.attempts, next |-> at + delay,
         created |-> r.created, updated |-> at, started |-> None, acked |-> None,
         lease |-> None]
  BY DEF Failed, at
<1>5. QED BY <1>1, <1>2, <1>3, <1>4 DEF Record, State
-------------------------------------------------------------------------------
(* What the steps that rewrite several files do to each of them.           *)

LEMMA ExistingRecord ==
    ASSUME TypeOK, NEW d \in Delivery, Exists(d)
    PROVE  rec[d] \in Record
BY DEF TypeOK, Exists

LEMMA RecoveredRecord ==
    ASSUME TypeOK, NEW w \in Worker, NEW d \in Delivery, Exists(d)
    PROVE  LET c == Recovered(w, rec[d])
           IN /\ c \in Record /\ c.state \in {"failed", "dead_letter"}
              /\ c.attempts = rec[d].attempts
<1>1. rec[d] \in Record /\ clock \in Nat
  BY ExistingRecord DEF TypeOK
<1>2. CASE rec[d].attempts >= limit[w]
  BY <1>1, <1>2, DeadLetteredRecord DEF Recovered
<1>3. CASE ~(rec[d].attempts >= limit[w])
  BY <1>1, <1>3, FailedRecord DEF Recovered
<1>4. QED BY <1>2, <1>3

LEMMA ReleaseEffect ==
    ASSUME TypeOK, NEW w \in Worker, NEW S \in SUBSET Delivery,
           \A d \in S : Exists(d), Release(w, S)
    PROVE  /\ rec' \in [Delivery -> Record \cup {NoRecord}]
           /\ \A d \in Delivery \ S : rec'[d] = rec[d]
           /\ \A d \in S : /\ rec'[d] \in Record
                           /\ rec'[d].state \in {"failed", "dead_letter"}
                           /\ rec'[d].attempts = rec[d].attempts
<1>1. \A d \in Delivery \ S : rec'[d] = rec[d]
  BY DEF Release
<1>2. \A d \in S : /\ rec'[d] \in Record
                   /\ rec'[d].state \in {"failed", "dead_letter"}
                   /\ rec'[d].attempts = rec[d].attempts
  BY RecoveredRecord DEF Release
<1>3. QED BY <1>1, <1>2 DEF Release, TypeOK

LEMMA BuryEffect ==
    ASSUME TypeOK, NEW S \in SUBSET Delivery, \A d \in S : Exists(d), Bury(S)
    PROVE  /\ rec' \in [Delivery -> Record \cup {NoRecord}]
           /\ \A d \in Delivery \ S : rec'[d] = rec[d]
           /\ \A d \in S : /\ rec'[d] \in Record
                           /\ rec'[d].state = "dead_letter"
                           /\ rec'[d].attempts = rec[d].attempts
<1>1. \A d \in Delivery \ S : rec'[d] = rec[d]
  BY DEF Bury
<1>2. ASSUME NEW d \in S
      PROVE  /\ rec'[d] \in Record
             /\ rec'[d].state = "dead_letter"
             /\ rec'[d].attempts = rec[d].attempts
  <2>1. rec[d] \in Record /\ clock \in Nat
    BY ExistingRecord DEF TypeOK
  <2>2. rec'[d] = DeadLettered(rec[d], clock)
    BY DEF Bury
  <2>3. QED BY <2>1, <2>2, DeadLetteredRecord
<1>3. QED BY <1>1, <1>2 DEF Bury, TypeOK

LEMMA StaleExhaustedExist ==
    ASSUME NEW w \in Worker
    PROVE  /\ Stale(w) \in SUBSET Delivery /\ \A d \in Stale(w) : Exists(d)
           /\ Exhausted(w) \in SUBSET Delivery /\ \A d \in Exhausted(w) : Exists(d)
BY DEF Stale, Exhausted, InState
-------------------------------------------------------------------------------
(* Type correctness.                                                       *)

LEMMA InitType == Init => TypeOK
BY OutboxAssumption DEF Init, TypeOK, PC, Result, NoWork, Engaged

LEMMA SweepType ==
    ASSUME TypeOK, NEW w \in Worker,
           RecoverInflight(w) \/ EnforceAttemptLimits(w) \/ NothingDue(w)
    PROVE  TypeOK'
<1>1. rec' \in [Delivery -> Record \cup {NoRecord}]
  BY ReleaseEffect, BuryEffect, StaleExhaustedExist
     DEF RecoverInflight, EnforceAttemptLimits, NothingDue
<1>2. pc' \in [Worker -> PC] /\ \A v \in Worker : Engaged(v)' => Engaged(v)
  BY DEF RecoverInflight, EnforceAttemptLimits, NothingDue, Goto, TypeOK, PC, Engaged
<1>3. QED
  BY <1>1, <1>2
     DEF RecoverInflight, EnforceAttemptLimits, NothingDue, TypeOK, history, bounds

LEMMA HostType ==
    ASSUME TypeOK, NEW w \in Worker,
           \/ Start(w) \/ Dispatch(w) \/ PurgeAcked(w)
           \/ \E d \in Delivery : Enqueue(w, d) \/ RequeueDeadLetter(w, d)
    PROVE  TypeOK'
<1>1. CASE Start(w)
  BY <1>1 DEF Start, Goto, TypeOK, PC, Engaged, history, bounds
<1>2. CASE Dispatch(w)
  BY <1>2 DEF Dispatch, Goto, TypeOK, PC, Engaged, history, bounds
<1>3. CASE PurgeAcked(w)
  BY <1>3 DEF PurgeAcked, TypeOK, Engaged, history, bounds
<1>4. ASSUME NEW d \in Delivery, Enqueue(w, d) PROVE TypeOK'
  BY <1>4, NewRecord DEF Enqueue, TypeOK, Engaged, bounds
<1>5. ASSUME NEW d \in Delivery, RequeueDeadLetter(w, d) PROVE TypeOK'
  <2>1. rec[d] \in Record /\ clock \in Nat
    BY <1>5, ExistingRecord DEF TypeOK, RequeueDeadLetter, InState
  <2>2. Failed(rec[d], clock, 0) \in Record
    BY <2>1, FailedRecord
  <2>3. [Failed(rec[d], clock, 0) EXCEPT !.attempts = 0] \in Record
    BY <2>2 DEF Record
  <2>4. QED BY <1>5, <2>3 DEF RequeueDeadLetter, TypeOK, Engaged, bounds
<1>6. QED BY <1>1, <1>2, <1>3, <1>4, <1>5

LEMMA ClaimType ==
    ASSUME TypeOK, NEW w \in Worker,
           ClaimDue(w) \/ \E d \in Delivery : ClaimOne(w, d)
    PROVE  TypeOK'
<1>1. clock \in Nat
  BY DEF TypeOK
<1>2. ASSUME NEW d \in Delivery, Exists(d), NEW lease \in Lease
      PROVE  /\ Claimed(rec[d], clock, lease) \in Record
             /\ DeadLettered(rec[d], clock) \in Record
  BY <1>1, <1>2, ExistingRecord, ClaimedRecord, DeadLetteredRecord
<1>3. ASSUME NEW d \in Delivery, NEW lease \in Lease, Lend(w, d, lease)
      PROVE  /\ work' \in [Worker -> [id: Delivery \cup {None},
                                      lease: Lease \cup {None}, result: Result]]
             /\ claims' \in [Delivery -> Nat] /\ pc' \in [Worker -> PC]
             /\ \A v \in Worker :
                  Engaged(v)' => work'[v].id \in Delivery /\ work'[v].lease \in Lease
  BY <1>3 DEF Lend, Goto, TypeOK, PC, Result, Engaged
<1>4. CASE ClaimDue(w)
  <2>1. PICK d \in Due(w), lease \in FreshLeases :
          /\ rec' = [e \in Delivery |->
                       IF e = d THEN Claimed(rec[d], clock, lease)
                       ELSE IF e \in Exhausted(w) THEN DeadLettered(rec[e], clock)
                       ELSE rec[e]]
          /\ Lend(w, d, lease)
    BY <1>4 DEF ClaimDue
  <2>2. d \in Delivery /\ Exists(d) /\ lease \in Lease
    BY DEF Due, InState, FreshLeases
  <2>3. \A e \in Exhausted(w) : Exists(e)
    BY StaleExhaustedExist
  <2>4. rec' \in [Delivery -> Record \cup {NoRecord}]
    BY <1>2, <2>1, <2>2, <2>3 DEF TypeOK
  <2>5. QED
    BY <1>3, <1>4, <2>1, <2>2, <2>4 DEF ClaimDue, TypeOK, bounds
<1>5. ASSUME NEW d \in Delivery, ClaimOne(w, d) PROVE TypeOK'
  <2>1. CASE d \in Due(w) /\ \E lease \in FreshLeases :
               /\ rec' = [rec EXCEPT ![d] = Claimed(rec[d], clock, lease)]
               /\ Lend(w, d, lease)
    <3>1. PICK lease \in FreshLeases :
               /\ rec' = [rec EXCEPT ![d] = Claimed(rec[d], clock, lease)]
               /\ Lend(w, d, lease)
      BY <2>1
    <3>2. Exists(d) /\ lease \in Lease
      BY <2>1 DEF Due, InState, FreshLeases
    <3>3. QED
      BY <1>2, <1>3, <1>5, <3>1, <3>2 DEF ClaimOne, TypeOK, bounds
  <2>2. CASE /\ d \in Exhausted(w)
             /\ rec' = [rec EXCEPT ![d] = DeadLettered(rec[d], clock)]
             /\ Goto(w, "idle") /\ UNCHANGED <<work, claims>>
    <3>1. DeadLettered(rec[d], clock) \in Record
      BY <1>1, <2>2, ExistingRecord, DeadLetteredRecord, StaleExhaustedExist
    <3>2. QED
      BY <1>5, <2>2, <3>1 DEF ClaimOne, Goto, TypeOK, PC, Engaged, bounds
  <2>3. CASE Goto(w, "idle") /\ UNCHANGED <<rec, work, claims>>
    BY <1>5, <2>3 DEF ClaimOne, Goto, TypeOK, PC, Engaged, bounds
  <2>4. QED BY <1>5, <2>1, <2>2, <2>3 DEF ClaimOne
<1>6. QED BY <1>4, <1>5
LEMMA SettledRecord ==
    ASSUME TypeOK, NEW w \in Worker, NEW d \in Delivery, Exists(d)
    PROVE  LET c == Settled(w, rec[d])
           IN /\ c \in Record /\ c.attempts = rec[d].attempts
              /\ c.state = IF work[w].result = "ok" THEN "acked"
                           ELSE IF rec[d].attempts >= limit[w] THEN "dead_letter"
                           ELSE "failed"
<1>1. rec[d] \in Record /\ clock \in Nat /\ rec[d].attempts \in Nat
  BY ExistingRecord DEF TypeOK, Record
<1>2. RetryDelay(rec[d].attempts) \in Nat
  BY <1>1, RetryDelayType
<1>3. CASE work[w].result = "ok"
  BY <1>1, <1>3, AckedRecord DEF Settled
<1>4. CASE work[w].result # "ok" /\ rec[d].attempts >= limit[w]
  BY <1>1, <1>4, DeadLetteredRecord DEF Settled
<1>5. CASE work[w].result # "ok" /\ ~(rec[d].attempts >= limit[w])
  BY <1>1, <1>2, <1>5, FailedRecord DEF Settled
<1>6. QED BY <1>3, <1>4, <1>5

LEMMA CallType ==
    ASSUME TypeOK, NEW w \in Worker, Send(w) \/ Settle(w) \/ Crash(w)
    PROVE  TypeOK'
<1>1. CASE Send(w)
  <2>1. work[w].id \in Delivery /\ accepted' \subseteq Delivery
    BY <1>1 DEF Send, TypeOK, Engaged
  <2>2. QED
    BY <1>1, <2>1 DEF Send, Goto, TypeOK, PC, Result, Engaged, bounds
<1>2. CASE Settle(w)
  <2>1. work[w].id \in Delivery
    BY <1>2 DEF Settle, TypeOK, Engaged
  <2>2. HoldsLease(w) => Settled(w, rec[work[w].id]) \in Record
    BY <2>1, SettledRecord DEF HoldsLease, InState
  <2>3. rec' \in [Delivery -> Record \cup {NoRecord}]
    BY <1>2, <2>1, <2>2 DEF Settle, TypeOK
  <2>4. PICK label \in {"claim", "idle"} : Goto(w, label)
    BY <1>2 DEF Settle
  <2>5. QED
    BY <1>2, <2>3, <2>4
       DEF Settle, Goto, TypeOK, PC, Result, Engaged, NoWork, history, bounds
<1>3. CASE Crash(w)
  <2>1. /\ rec' \in [Delivery -> Record \cup {NoRecord}]
        /\ accepted' \subseteq Delivery
    <3>1. CASE \E S \in SUBSET Stale(w) : Release(w, S) /\ UNCHANGED accepted
      BY <3>1, ReleaseEffect, StaleExhaustedExist DEF TypeOK
    <3>2. CASE \E S \in SUBSET Exhausted(w) : Bury(S) /\ UNCHANGED accepted
      BY <3>2, BuryEffect, StaleExhaustedExist DEF TypeOK
    <3>3. CASE /\ pc[w] = "send" /\ UNCHANGED rec
               /\ accepted' \in {accepted, accepted \cup {work[w].id}}
      BY <3>3 DEF TypeOK, Engaged
    <3>4. CASE UNCHANGED <<rec, accepted>>
      BY <3>4 DEF TypeOK
    <3>5. QED BY <1>3, <3>1, <3>2, <3>3, <3>4 DEF Crash
  <2>2. QED
    BY <1>3, <2>1, OutboxAssumption DEF Crash, Goto, TypeOK, PC, Result, Engaged, NoWork
<1>4. QED BY <1>1, <1>2, <1>3

LEMMA ClockType ==
    ASSUME TypeOK, Tick \/ StepBack
    PROVE  TypeOK'
BY DEF Tick, StepBack, TypeOK, Engaged, history, bounds

\* Every variable keeps its type, and a worker inside a transport call knows
\* which delivery and which lease it works on (outbox.py, all operations).
THEOREM TypeCorrect == Spec => []TypeOK
<1>1. TypeOK /\ [Next]_vars => TypeOK'
  <2> SUFFICES ASSUME TypeOK, [Next]_vars PROVE TypeOK'
    OBVIOUS
  <2>1. CASE Tick \/ StepBack
    BY <2>1, ClockType
  <2>2. ASSUME NEW w \in Worker, WorkerStep(w) PROVE TypeOK'
    BY <2>2, SweepType, HostType, ClaimType, CallType DEF WorkerStep
  <2>3. CASE UNCHANGED vars
    BY <2>3 DEF vars, TypeOK, Engaged
  <2>4. QED BY <2>1, <2>2, <2>3 DEF Next
<1>2. QED BY <1>1, InitType, PTL DEF Spec
-------------------------------------------------------------------------------
(* What one step does to one delivery: it leaves the record alone, while   *)
(* the remote may accept the message, or makes one of seven moves.         *)

Keeps(d) == claims'[d] = claims[d] /\ gens'[d] = gens[d] /\ UNCHANGED accepted

Untouched(d) == /\ rec'[d] = rec[d] /\ claims'[d] = claims[d] /\ gens'[d] = gens[d]
                /\ d \in accepted => d \in accepted'

Created(d) == /\ ~Exists(d) /\ rec'[d] = New(clock) /\ d \notin accepted'
              /\ claims'[d] = claims[d] /\ gens'[d] = gens[d] + 1

Requeued(d) == /\ InState(d, {"dead_letter"}) /\ UNCHANGED accepted
               /\ rec'[d] = [Failed(rec[d], clock, 0) EXCEPT !.attempts = 0]
               /\ claims'[d] = claims[d] /\ gens'[d] = gens[d] + 1

Purged(d) == InState(d, {"acked"}) /\ rec'[d] = NoRecord /\ Keeps(d)

Lent(d) == /\ InState(d, Retryable) /\ UNCHANGED accepted
           /\ \E w \in Worker, lease \in FreshLeases :
                /\ rec[d].attempts < limit[w]
                /\ rec'[d] = Claimed(rec[d], clock, lease)
           /\ claims'[d] = claims[d] + 1 /\ gens'[d] = gens[d]

Released(d) == /\ InState(d, {"sending"}) /\ Keeps(d)
               /\ \E w \in Worker : d \in Stale(w) /\ rec'[d] = Recovered(w, rec[d])

Buried(d) == /\ InState(d, Retryable) /\ Keeps(d)
             /\ \E w \in Worker : rec[d].attempts >= limit[w]
             /\ rec'[d] = DeadLettered(rec[d], clock)

Concluded(d) == /\ InState(d, {"sending"}) /\ Keeps(d)
                /\ \E w \in Worker : /\ work[w].id = d /\ pc[w] = "settle"
                                     /\ HoldsLease(w) /\ ~Engaged(w)'
                                     /\ rec'[d] = Settled(w, rec[d])

RecordMove(d) == \/ Untouched(d) \/ Created(d) \/ Requeued(d) \/ Purged(d)
                 \/ Lent(d) \/ Released(d) \/ Buried(d) \/ Concluded(d)

LEMMA ReleaseMove ==
    ASSUME NEW w \in Worker, NEW S \in SUBSET Stale(w), Release(w, S),
           UNCHANGED history, NEW d \in Delivery
    PROVE  RecordMove(d)
<1>1. CASE d \in S
  BY <1>1 DEF Release, Stale, RecordMove, Released, Keeps, history
<1>2. CASE d \notin S
  BY <1>2 DEF Release, RecordMove, Untouched, history
<1>3. QED BY <1>1, <1>2

LEMMA BuryMove ==
    ASSUME NEW w \in Worker, NEW S \in SUBSET Exhausted(w), Bury(S),
           UNCHANGED history, NEW d \in Delivery
    PROVE  RecordMove(d)
<1>1. CASE d \in S
  BY <1>1 DEF Bury, Exhausted, RecordMove, Buried, Keeps, history
<1>2. CASE d \notin S
  BY <1>2 DEF Bury, RecordMove, Untouched, history
<1>3. QED BY <1>1, <1>2

LEMMA ClaimMove ==
    ASSUME TypeOK, NEW w \in Worker, NEW d \in Delivery,
           ClaimDue(w) \/ \E e \in Delivery : ClaimOne(w, e)
    PROVE  RecordMove(d)
<1>1. CASE ClaimDue(w)
  <2>1. PICK e \in Due(w), lease \in FreshLeases :
          /\ rec' = [f \in Delivery |->
                       IF f = e THEN Claimed(rec[e], clock, lease)
                       ELSE IF f \in Exhausted(w) THEN DeadLettered(rec[f], clock)
                       ELSE rec[f]]
          /\ Lend(w, e, lease)
    BY <1>1 DEF ClaimDue
  <2>2. claims' = [claims EXCEPT ![e] = @ + 1] /\ UNCHANGED <<gens, accepted>>
    BY <1>1, <2>1 DEF ClaimDue, Lend
  <2>3. CASE d = e
    BY <2>1, <2>2, <2>3 DEF TypeOK, Due, RecordMove, Lent
  <2>4. CASE d # e /\ d \in Exhausted(w)
    BY <2>1, <2>2, <2>4 DEF TypeOK, Exhausted, RecordMove, Buried, Keeps
  <2>5. CASE d # e /\ d \notin Exhausted(w)
    BY <2>1, <2>2, <2>5 DEF TypeOK, RecordMove, Untouched
  <2>6. QED BY <2>3, <2>4, <2>5
<1>2. ASSUME NEW e \in Delivery, ClaimOne(w, e) PROVE RecordMove(d)
  <2>1. CASE d # e
    BY <1>2, <2>1 DEF ClaimOne, Lend, TypeOK, RecordMove, Untouched
  <2>2. CASE /\ d = e /\ d \in Due(w)
             /\ \E lease \in FreshLeases :
                  /\ rec' = [rec EXCEPT ![d] = Claimed(rec[d], clock, lease)]
                  /\ Lend(w, d, lease)
    BY <1>2, <2>2 DEF ClaimOne, Lend, TypeOK, Due, RecordMove, Lent
  <2>3. CASE /\ d = e /\ d \in Exhausted(w)
             /\ rec' = [rec EXCEPT ![d] = DeadLettered(rec[d], clock)]
             /\ UNCHANGED claims
    BY <1>2, <2>3 DEF ClaimOne, TypeOK, Exhausted, RecordMove, Buried, Keeps
  <2>4. CASE UNCHANGED <<rec, claims>>
    BY <1>2, <2>4 DEF ClaimOne, RecordMove, Untouched
  <2>5. QED BY <1>2, <2>1, <2>2, <2>3, <2>4 DEF ClaimOne
<1>3. QED BY <1>1, <1>2

LEMMA StepMoves ==
    ASSUME TypeOK, [Next]_vars, NEW d \in Delivery
    PROVE  RecordMove(d)
<1>1. CASE UNCHANGED vars \/ Tick \/ StepBack
  BY <1>1 DEF vars, Tick, StepBack, history, RecordMove, Untouched
<1>2. ASSUME NEW w \in Worker, WorkerStep(w) PROVE RecordMove(d)
  <2>1. CASE Start(w) \/ Dispatch(w)
    BY <2>1 DEF Start, Dispatch, history, RecordMove, Untouched
  <2>2. CASE RecoverInflight(w)
    BY <2>2, ReleaseMove DEF RecoverInflight
  <2>3. CASE EnforceAttemptLimits(w) \/ NothingDue(w)
    BY <2>3, BuryMove DEF EnforceAttemptLimits, NothingDue
  <2>4. CASE PurgeAcked(w)
    BY <2>4 DEF PurgeAcked, history, RecordMove, Untouched, Purged, Keeps
  <2>5. ASSUME NEW e \in Delivery, Enqueue(w, e) PROVE RecordMove(d)
    BY <2>5 DEF Enqueue, TypeOK, RecordMove, Untouched, Created
  <2>6. ASSUME NEW e \in Delivery, RequeueDeadLetter(w, e) PROVE RecordMove(d)
    BY <2>6 DEF RequeueDeadLetter, TypeOK, RecordMove, Untouched, Requeued
  <2>7. CASE ClaimDue(w) \/ \E e \in Delivery : ClaimOne(w, e)
    BY <2>7, ClaimMove
  <2>8. CASE Send(w)
    BY <2>8 DEF Send, RecordMove, Untouched
  <2>9. CASE Settle(w)
    <3>1. CASE HoldsLease(w) /\ work[w].id = d
      <4>1. ~Engaged(w)'
        BY <2>9 DEF Settle, Goto, TypeOK, Engaged
      <4>2. QED
        BY <2>9, <3>1, <4>1
           DEF Settle, HoldsLease, TypeOK, history, RecordMove, Concluded, Keeps
    <3>2. CASE ~(HoldsLease(w) /\ work[w].id = d)
      BY <2>9, <3>2 DEF Settle, TypeOK, history, RecordMove, Untouched
    <3>3. QED BY <3>1, <3>2
  <2>10. CASE Crash(w)
    <3>1. CASE \E S \in SUBSET Stale(w) : Release(w, S) /\ UNCHANGED accepted
      BY <2>10, <3>1, ReleaseMove DEF Crash, history
    <3>2. CASE \E S \in SUBSET Exhausted(w) : Bury(S) /\ UNCHANGED accepted
      BY <2>10, <3>2, BuryMove DEF Crash, history
    <3>3. CASE UNCHANGED rec /\ accepted \subseteq accepted'
      BY <2>10, <3>3 DEF Crash, RecordMove, Untouched
    <3>4. QED BY <2>10, <3>1, <3>2, <3>3 DEF Crash
  <2>11. QED
    BY <1>2, <2>1, <2>2, <2>3, <2>4, <2>5, <2>6, <2>7, <2>8, <2>9, <2>10 DEF WorkerStep
<1>3. QED BY <1>1, <1>2 DEF Next
-------------------------------------------------------------------------------
(* The records on disk stay valid, and the calls made for an intent stay   *)
(* within its attempts.                                                    *)

\* Every record on disk satisfies DeliveryRecord.__post_init__ (delivery.py), so
\* no operation raises half-way and no later scan finds an unreadable file.
THEOREM RecordsStayValid == Spec => []RecordValid
<1>1. Init => RecordValid
  BY DEF Init, RecordValid, Exists
<1>2. TypeOK /\ RecordValid /\ [Next]_vars => RecordValid'
  <2> SUFFICES ASSUME TypeOK, RecordValid, [Next]_vars,
                      NEW d \in Delivery, rec'[d] # NoRecord
               PROVE  Valid(rec'[d])
    BY DEF RecordValid, Exists, Valid
  <2>1. RecordMove(d)
    BY StepMoves
  <2>2. clock \in Nat
    BY DEF TypeOK
  <2>3. Exists(d) => rec[d] \in Record /\ Valid(rec[d])
    BY ExistingRecord DEF RecordValid
  <2>4. \A r \in Record : /\ r.updated \in Nat /\ r.created \in Nat /\ r.attempts \in Nat
                          /\ Later(clock, r.updated) \in Nat
                          /\ Later(clock, r.updated) >= r.updated
    BY <2>2, LaterType DEF Record
  <2>5. None \notin Nat /\ None \notin Lease
    BY OutboxAssumption
  <2>6. \A w \in Worker : limit[w] \in Nat /\ limit[w] >= 1
    BY LimitRange DEF TypeOK
  <2>7. CASE Untouched(d)
    BY <2>3, <2>7 DEF Untouched, Exists
  <2>8. CASE Created(d)
    BY <2>2, <2>8 DEF Created, New, Valid
  <2>9. CASE Requeued(d)
    <3>1. rec[d] \in Record /\ Valid(rec[d])
      BY <2>3, <2>9 DEF Requeued, InState
    <3>2. Later(clock, rec[d].updated) >= rec[d].created
      BY <2>4, <3>1 DEF Valid
    <3>3. Later(clock, rec[d].updated) + 0 # None
      BY <2>4, <2>5, <3>1
    <3>4. QED BY <2>9, <3>1, <3>2, <3>3 DEF Requeued, Failed, Valid
  <2>10. CASE Lent(d)
    <3>1. rec[d] \in Record /\ Valid(rec[d])
      BY <2>3, <2>10 DEF Lent, InState
    <3>2. Later(clock, rec[d].updated) >= rec[d].created /\ rec[d].attempts + 1 >= 1
      BY <2>4, <3>1 DEF Valid
    <3>3. Later(clock, rec[d].updated) # None
      BY <2>4, <2>5, <3>1
    <3>4. FreshLeases \subseteq Lease
      BY DEF FreshLeases
    <3>5. QED BY <2>5, <2>10, <3>1, <3>2, <3>3, <3>4 DEF Lent, Claimed, Valid
  <2>11. CASE Released(d) \/ Concluded(d)
    <3>1. /\ rec[d] \in Record /\ Valid(rec[d]) /\ rec[d].state = "sending"
          /\ rec[d].attempts >= 1
      BY <2>3, <2>11 DEF Released, Concluded, InState, Valid
    <3>2. Later(clock, rec[d].updated) >= rec[d].created
      BY <2>4, <3>1 DEF Valid
    <3>3. \A delay \in Nat : Later(clock, rec[d].updated) + delay # None
      BY <2>4, <2>5, <3>1
    <3>4. Later(clock, rec[d].updated) # None
      BY <2>4, <2>5, <3>1
    <3>5. RetryDelay(rec[d].attempts) \in Nat /\ 0 \in Nat
      BY <3>1, RetryDelayType DEF Record
    <3>6. \A delay \in Nat : Valid(Failed(rec[d], clock, delay))
      BY <3>1, <3>2, <3>3 DEF Failed, Valid
    <3>7. Valid(DeadLettered(rec[d], clock))
      BY <3>1, <3>2 DEF DeadLettered, Valid
    <3>8. Valid(Acked(rec[d], clock))
      BY <3>1, <3>2, <3>4 DEF Acked, Valid
    <3>9. QED
      BY <2>11, <3>5, <3>6, <3>7, <3>8 DEF Released, Concluded, Recovered, Settled
  <2>12. CASE Buried(d)
    <3>1. /\ rec[d] \in Record /\ Valid(rec[d])
          /\ rec[d].attempts >= 1
      BY <2>3, <2>4, <2>6, <2>12 DEF Buried, InState
    <3>2. Later(clock, rec[d].updated) >= rec[d].created
      BY <2>4, <3>1 DEF Valid
    <3>3. QED BY <2>12, <3>1, <3>2 DEF Buried, DeadLettered, Valid
  <2>13. CASE Purged(d)
    BY <2>13 DEF Purged
  <2>14. QED
    BY <2>1, <2>7, <2>8, <2>9, <2>10, <2>11, <2>12, <2>13 DEF RecordMove
<1>3. QED BY <1>1, <1>2, TypeCorrect, PTL DEF Spec
LEMMA AttemptsKept ==
    ASSUME TypeOK, NEW d \in Delivery, Released(d) \/ Buried(d) \/ Concluded(d)
    PROVE  Exists(d) /\ rec'[d] \in Record /\ rec'[d].attempts = rec[d].attempts
<1>1. CASE Released(d)
  <2>1. Exists(d) /\ \E w \in Worker : rec'[d] = Recovered(w, rec[d])
    BY <1>1 DEF Released, InState
  <2>2. QED BY <2>1, RecoveredRecord
<1>2. CASE Buried(d)
  <2>1. Exists(d) /\ rec'[d] = DeadLettered(rec[d], clock) /\ clock \in Nat
    BY <1>2 DEF Buried, InState, TypeOK
  <2>2. QED BY <2>1, ExistingRecord, DeadLetteredRecord
<1>3. CASE Concluded(d)
  <2>1. Exists(d) /\ \E w \in Worker : rec'[d] = Settled(w, rec[d])
    BY <1>3 DEF Concluded, InState
  <2>2. QED BY <2>1, SettledRecord
<1>4. QED BY <1>1, <1>2, <1>3

\* The attempts left in a record are all that may still be spent for it.
AttemptsLeft == \A d \in Delivery :
    IF Exists(d) THEN /\ rec[d].attempts =< MaxLimit
                      /\ claims[d] + (MaxLimit - rec[d].attempts) =< MaxLimit * gens[d]
    ELSE claims[d] =< MaxLimit * gens[d]

LEMMA OneMoreGeneration ==
    ASSUME NEW g \in Nat
    PROVE  /\ MaxLimit * g \in Nat /\ MaxLimit * (g + 1) \in Nat
           /\ MaxLimit * (g + 1) = MaxLimit * g + MaxLimit
BY LimitRange

LEMMA AttemptsLeftInvariant == Spec => []AttemptsLeft
<1>1. Init => AttemptsLeft
  BY LimitRange DEF Init, AttemptsLeft, Exists
<1>2. TypeOK /\ AttemptsLeft /\ [Next]_vars => AttemptsLeft'
  <2> SUFFICES ASSUME TypeOK, AttemptsLeft, [Next]_vars, NEW d \in Delivery
               PROVE  IF rec'[d] # NoRecord
                      THEN /\ rec'[d].attempts =< MaxLimit
                           /\ claims'[d] + (MaxLimit - rec'[d].attempts)
                                =< MaxLimit * gens'[d]
                      ELSE claims'[d] =< MaxLimit * gens'[d]
    BY DEF AttemptsLeft, Exists
  <2>1. RecordMove(d)
    BY StepMoves
  <2>2. claims[d] \in Nat /\ gens[d] \in Nat /\ MaxLimit \in Nat /\ clock \in Nat
    BY LimitRange DEF TypeOK
  <2>3. Exists(d) => /\ rec[d] \in Record /\ rec[d].attempts \in Nat
                     /\ rec[d].attempts =< MaxLimit
                     /\ claims[d] + (MaxLimit - rec[d].attempts) =< MaxLimit * gens[d]
    BY ExistingRecord DEF AttemptsLeft, Record
  <2>4. ~Exists(d) => claims[d] =< MaxLimit * gens[d]
    BY DEF AttemptsLeft
  <2>5. /\ MaxLimit * gens[d] \in Nat /\ MaxLimit * (gens[d] + 1) \in Nat
        /\ MaxLimit * (gens[d] + 1) = MaxLimit * gens[d] + MaxLimit
    BY <2>2, OneMoreGeneration
  <2> DEFINE spent == MaxLimit * gens[d]
             more == MaxLimit * (gens[d] + 1)
  <2>6. spent \in Nat /\ more = spent + MaxLimit
    BY <2>5
  <2>7. CASE Untouched(d)
    BY <2>3, <2>4, <2>7 DEF Untouched, Exists
  <2>8. CASE Created(d)
    <3>1. claims[d] =< spent /\ New(clock).attempts = 0
      BY <2>2, <2>4, <2>8, NewRecord DEF Created
    <3> HIDE DEF spent, more
    <3>2. 0 =< MaxLimit /\ claims[d] + (MaxLimit - 0) =< more
      BY <2>2, <2>6, <3>1
    <3>3. QED BY <2>2, <2>8, <3>1, <3>2, OutboxAssumption, NewRecord DEF Created, more
  <2>9. CASE Requeued(d)
    <3>1. claims[d] + (MaxLimit - rec[d].attempts) =< spent /\ rec[d].attempts \in Nat
          /\ rec[d].attempts =< MaxLimit
      BY <2>3, <2>9 DEF Requeued, InState
    <3>2. rec'[d].attempts = 0
      BY <2>9 DEF Requeued, Failed
    <3> HIDE DEF spent, more
    <3>3. 0 =< MaxLimit /\ claims[d] + (MaxLimit - 0) =< more
      BY <2>2, <2>6, <3>1
    <3>4. QED
      BY <2>2, <2>6, <2>9, <3>2, <3>3 DEF Requeued, more
  <2>10. CASE Purged(d)
    BY <2>2, <2>3, <2>5, <2>10 DEF Purged, Keeps, InState
  <2>11. CASE Lent(d)
    <3>1. PICK w \in Worker, lease \in FreshLeases :
            rec[d].attempts < limit[w] /\ rec'[d] = Claimed(rec[d], clock, lease)
      BY <2>11 DEF Lent
    <3>2. limit[w] \in Nat /\ limit[w] =< MaxLimit
      BY LimitRange DEF TypeOK
    <3>3. /\ rec[d] \in Record /\ rec[d].attempts \in Nat
          /\ claims[d] + (MaxLimit - rec[d].attempts) =< spent
      BY <2>3, <2>11 DEF Lent, InState
    <3>4. rec'[d].attempts = rec[d].attempts + 1
      BY <3>1 DEF Claimed
    <3>5. claims'[d] = claims[d] + 1 /\ gens'[d] = gens[d]
      BY <2>11 DEF Lent
    <3>6. rec'[d] # NoRecord
      BY <2>2, <3>1, <3>3, ClaimedRecord, OutboxAssumption DEF FreshLeases
    <3> HIDE DEF spent
    <3>7. /\ rec'[d].attempts =< MaxLimit
          /\ (claims[d] + 1) + (MaxLimit - rec'[d].attempts) =< spent
      BY <2>2, <2>6, <3>1, <3>2, <3>3, <3>4
    <3>8. QED BY <3>5, <3>6, <3>7 DEF spent
  <2>12. CASE Released(d) \/ Buried(d) \/ Concluded(d)
    BY <2>3, <2>12, AttemptsKept, OutboxAssumption DEF Released, Buried, Concluded, Keeps
  <2>13. QED
    BY <2>1, <2>7, <2>8, <2>9, <2>10, <2>11, <2>12 DEF RecordMove
<1>3. QED BY <1>1, <1>2, TypeCorrect, PTL DEF Spec

\* "Attempt count is bounded": whatever workers, crashes and recoveries do, one
\* intent begins at most max_attempts transport calls per enqueue or requeue.
THEOREM CallsStayBounded == Spec => []CallsBounded
<1>1. TypeOK /\ AttemptsLeft => CallsBounded
  <2> SUFFICES ASSUME TypeOK, AttemptsLeft, NEW d \in Delivery
               PROVE  claims[d] =< MaxLimit * gens[d]
    BY DEF CallsBounded
  <2> DEFINE spent == MaxLimit * gens[d]
  <2>1. spent \in Nat /\ claims[d] \in Nat /\ MaxLimit \in Nat
    BY LimitRange, OneMoreGeneration DEF TypeOK
  <2>2. CASE Exists(d)
    <3>1. rec[d].attempts \in Nat
      BY <2>2, ExistingRecord DEF Record
    <3>2. rec[d].attempts =< MaxLimit /\ claims[d] + (MaxLimit - rec[d].attempts) =< spent
      BY <2>2 DEF AttemptsLeft
    <3> HIDE DEF spent
    <3>3. claims[d] =< spent
      BY <2>1, <3>1, <3>2
    <3>4. QED BY <3>3 DEF spent
  <2>3. QED BY <2>2 DEF AttemptsLeft
<1>2. QED BY <1>1, TypeCorrect, AttemptsLeftInvariant, PTL
-------------------------------------------------------------------------------
(* The outbox implements the delivery contract.                            *)

\* A success that will be recorded was reported for an accepted message.
HonestResults ==
    \A w \in Worker : /\ pc[w] = "settle" /\ work[w].result = "ok"
                      /\ HoldsLease(w)
                      => work[w].id \in accepted

LEMMA ResultOrigin ==
    ASSUME TypeOK, [Next]_vars, NEW w \in Worker,
           pc'[w] = "settle", work'[w].result = "ok"
    PROVE  \/ pc[w] = "settle" /\ work'[w] = work[w]
           \/ work'[w].id \in accepted'
<1>1. CASE UNCHANGED vars \/ Tick \/ StepBack
  BY <1>1 DEF vars, Tick, StepBack
<1>2. ASSUME NEW v \in Worker, WorkerStep(v)
      PROVE  \/ pc[w] = "settle" /\ work'[w] = work[w]
             \/ work'[w].id \in accepted'
  <2>1. CASE Start(v) \/ Dispatch(v) \/ RecoverInflight(v) \/ EnforceAttemptLimits(v)
             \/ NothingDue(v)
    BY <2>1 DEF Start, Dispatch, RecoverInflight, EnforceAttemptLimits, NothingDue, Goto,
                TypeOK
  <2>2. CASE PurgeAcked(v) \/ \E d \in Delivery : Enqueue(v, d) \/ RequeueDeadLetter(v, d)
    BY <2>2 DEF PurgeAcked, Enqueue, RequeueDeadLetter
  <2>3. CASE ClaimDue(v) \/ \E d \in Delivery : ClaimOne(v, d)
    BY <2>3 DEF ClaimDue, ClaimOne, Lend, Goto, TypeOK
  <2>4. CASE Send(v)
    BY <2>4 DEF Send, Goto, TypeOK
  <2>5. CASE Settle(v) \/ Crash(v)
    BY <2>5 DEF Settle, Crash, Goto, TypeOK, NoWork
  <2>6. QED BY <1>2, <2>1, <2>2, <2>3, <2>4, <2>5 DEF WorkerStep
<1>3. QED BY <1>1, <1>2 DEF Next

LEMMA MovedState ==
    ASSUME TypeOK, NEW d \in Delivery,
           \/ Created(d) \/ Requeued(d) \/ Purged(d) \/ Released(d) \/ Buried(d)
           \/ Concluded(d)
    PROVE  rec'[d] # NoRecord => rec'[d].state # "sending"
BY DEF Created, Requeued, Purged, Released, Buried, Concluded, New, Failed, Acked,
       DeadLettered, Recovered, Settled

LEMMA HonestResultsInvariant == Spec => []HonestResults
<1>1. Init => HonestResults
  BY DEF Init, HonestResults
<1>2. TypeOK /\ HonestResults /\ [Next]_vars => HonestResults'
  <2> SUFFICES ASSUME TypeOK, HonestResults, [Next]_vars, NEW w \in Worker,
                      pc'[w] = "settle", work'[w].result = "ok", HoldsLease(w)'
               PROVE  work'[w].id \in accepted'
    BY DEF HonestResults
  <2>1. CASE pc[w] = "settle" /\ work'[w] = work[w]
    <3> DEFINE d == work[w].id
    <3>1. d \in Delivery
      BY <2>1 DEF TypeOK, Engaged
    <3>2. rec'[d] # NoRecord /\ rec'[d].state = "sending" /\ rec'[d].lease = work[w].lease
      BY <2>1 DEF HoldsLease, InState, Exists
    <3>3. Untouched(d) \/ Lent(d)
      BY <3>1, <3>2, StepMoves, MovedState DEF RecordMove
    <3>4. CASE Untouched(d)
      BY <2>1, <3>2, <3>4 DEF Untouched, HonestResults, HoldsLease, InState, Exists
    <3>5. CASE Lent(d)
      <4>1. rec'[d].lease \in FreshLeases
        BY <3>5 DEF Lent, Claimed
      <4>2. QED BY <3>2, <4>1 DEF FreshLeases
    <3>6. QED BY <3>3, <3>4, <3>5
  <2>2. QED BY <2>1, ResultOrigin
<1>3. QED BY <1>1, <1>2, TypeCorrect, PTL DEF Spec

LEMMA ContractStep ==
    ASSUME TypeOK, RecordValid, AttemptsLeft, HonestResults, [Next]_vars,
           NEW d \in Delivery
    PROVE  \/ Contract!Move(d)
           \/ /\ Reported(rec'[d]) = Reported(rec[d]) /\ Tries(rec'[d]) = Tries(rec[d])
              /\ (d \in accepted') = (d \in accepted)
<1>1. RecordMove(d)
  BY StepMoves
<1>2. Exists(d) => /\ rec[d] \in Record /\ Valid(rec[d]) /\ rec[d].attempts \in Nat
                   /\ rec[d].attempts =< MaxLimit
  BY ExistingRecord DEF RecordValid, AttemptsLeft, Record
<1>3. clock \in Nat /\ NoRecord \notin Record /\ MaxLimit \in Nat
  BY LimitRange, OutboxAssumption DEF TypeOK
<1>4. \A w \in Worker : limit[w] \in Nat /\ limit[w] >= 1 /\ limit[w] =< MaxLimit
  BY LimitRange DEF TypeOK
<1>5. CASE Untouched(d)
  <2>1. CASE d \in accepted'
    BY <1>5, <2>1 DEF Untouched, Contract!Move, Contract!Accept
  <2>2. CASE d \notin accepted'
    <3>1. d \notin accepted /\ rec'[d] = rec[d]
      BY <1>5, <2>2 DEF Untouched
    <3>2. QED BY <2>2, <3>1
  <2>3. QED BY <2>1, <2>2
<1>6. CASE Created(d)
  <2>1. rec[d] = NoRecord /\ rec'[d] \in Record
        /\ rec'[d].state = "pending" /\ rec'[d].attempts = 0
    BY <1>3, <1>6, NewRecord DEF Created, Exists
  <2>2. Contract!Request(d)
    BY <1>3, <1>6, <2>1
       DEF Created, Contract!Request, Contract!Moves, Reported, Tries
  <2>3. QED BY <2>2 DEF Contract!Move
<1>7. CASE Requeued(d)
  <2>1. rec[d] \in Record /\ rec[d].state = "dead_letter" /\ UNCHANGED accepted
    BY <1>2, <1>7 DEF Requeued, InState
  <2>2. Failed(rec[d], clock, 0) \in Record /\ Failed(rec[d], clock, 0).state = "failed"
    BY <1>3, <2>1, FailedRecord
  <2>3. rec'[d] \in Record /\ rec'[d].state = "failed" /\ rec'[d].attempts = 0
    BY <1>7, <2>2 DEF Requeued, Record
  <2>4. Contract!Requeue(d)
    BY <1>3, <2>1, <2>3 DEF Contract!Requeue, Contract!Moves, Reported, Tries
  <2>5. QED BY <2>4 DEF Contract!Move
<1>8. CASE Purged(d)
  <2>1. rec[d] \in Record /\ rec[d].state = "acked" /\ rec'[d] = NoRecord
        /\ UNCHANGED accepted
    BY <1>2, <1>8 DEF Purged, Keeps, InState
  <2>2. Contract!Forget(d)
    BY <1>3, <2>1 DEF Contract!Forget, Contract!Moves, Reported, Tries
  <2>3. QED BY <2>2 DEF Contract!Move
<1>9. CASE Lent(d)
  <2>1. PICK w \in Worker, lease \in FreshLeases :
          rec[d].attempts < limit[w] /\ rec'[d] = Claimed(rec[d], clock, lease)
    BY <1>9 DEF Lent
  <2>2. /\ rec[d] \in Record /\ rec[d].state \in Retryable /\ UNCHANGED accepted
        /\ rec[d].attempts \in Nat /\ rec[d].attempts < MaxLimit
    BY <1>2, <1>3, <1>4, <1>9, <2>1 DEF Lent, InState
  <2>3. rec'[d] \in Record /\ rec'[d].state = "sending"
        /\ rec'[d].attempts = rec[d].attempts + 1
    <3>1. lease \in Lease
      BY DEF FreshLeases
    <3>2. rec'[d] \in Record
      BY <1>3, <2>1, <2>2, <3>1, ClaimedRecord
    <3>3. rec'[d].state = "sending" /\ rec'[d].attempts = rec[d].attempts + 1
      BY <2>1 DEF Claimed
    <3>4. QED BY <3>2, <3>3
  <2>4. Contract!Attempt(d)
    BY <1>3, <2>2, <2>3
       DEF Contract!Attempt, Contract!Moves, Reported, Tries, Retryable
  <2>5. QED BY <2>4 DEF Contract!Move
<1>10. CASE Released(d) \/ Buried(d) \/ Concluded(d)
  <2>1. /\ rec[d] \in Record /\ rec'[d] \in Record /\ UNCHANGED accepted
        /\ rec'[d].attempts = rec[d].attempts
        /\ rec[d].state \in {"sending", "pending", "failed"}
    BY <1>2, <1>10, AttemptsKept
       DEF Released, Buried, Concluded, Keeps, InState, Retryable
  <2>2. /\ rec'[d].state \in {"failed", "dead_letter", "acked"}
        /\ rec'[d].state = "acked" => d \in accepted
    <3>1. CASE Released(d)
      BY <1>2, <2>1, <3>1, RecoveredRecord DEF Released, InState
    <3>2. CASE Buried(d)
      BY <3>2 DEF Buried, DeadLettered
    <3>3. CASE Concluded(d)
      BY <3>3, SettledRecord DEF Concluded, InState, HonestResults
    <3>4. QED BY <1>10, <3>1, <3>2, <3>3
  <2>3. rec'[d].state = "dead_letter" => rec[d].attempts > 0
    <3>1. CASE rec[d].state = "sending"
      BY <1>2, <1>3, <2>1, <3>1 DEF Valid, Exists
    <3>2. CASE rec[d].state # "sending"
      BY <1>2, <1>3, <1>4, <1>10, <2>1, <3>2
         DEF Released, Buried, Concluded, InState, Exists
    <3>3. QED BY <3>1, <3>2
  <2>4. CASE rec'[d].state = "failed"
    BY <1>3, <2>1, <2>4 DEF Reported, Tries
  <2>5. CASE rec'[d].state = "dead_letter"
    <3>1. Contract!GiveUp(d)
      BY <1>2, <1>3, <2>1, <2>3, <2>5
         DEF Contract!GiveUp, Contract!Moves, Reported, Tries
    <3>2. QED BY <3>1 DEF Contract!Move
  <2>6. CASE rec'[d].state = "acked"
    <3>1. Contract!Acknowledge(d)
      BY <1>3, <2>1, <2>2, <2>6
         DEF Contract!Acknowledge, Contract!Moves, Reported, Tries
    <3>2. QED BY <3>1 DEF Contract!Move
  <2>7. QED BY <2>2, <2>4, <2>5, <2>6
<1>11. QED
  BY <1>1, <1>5, <1>6, <1>7, <1>8, <1>9, <1>10 DEF RecordMove

\* The outbox implements DeliveryContract: "acked" only after the remote side
\* accepted the message, no further than max_attempts calls, no dead letter that
\* was never tried, nothing forgotten but a delivered intent.
THEOREM OutboxKeepsContract == Spec => Implements
<1>1. Init => Contract!ContractInit
  <2> SUFFICES ASSUME Init PROVE Contract!ContractInit
    OBVIOUS
  <2>1. \A d \in Delivery : /\ Reported(rec[d]) = "absent" /\ Tries(rec[d]) = 0
                            /\ (d \in accepted) = FALSE
    BY DEF Init, Reported, Tries
  <2>2. QED BY <2>1 DEF Contract!ContractInit
<1>2. TypeOK /\ RecordValid /\ AttemptsLeft /\ HonestResults /\ [Next]_vars
      => Contract!ContractNext
  <2> SUFFICES ASSUME TypeOK, RecordValid, AttemptsLeft, HonestResults, [Next]_vars,
                      NEW d \in Delivery
               PROVE  Contract!Move(d) \/ UNCHANGED <<[e \in Delivery |-> Reported(rec[e])][d],
                                          [e \in Delivery |-> Tries(rec[e])][d],
                                          [e \in Delivery |-> e \in accepted][d]>>
    BY DEF Contract!ContractNext
  <2>1. QED BY ContractStep
<1>3. QED
  BY <1>1, <1>2, TypeCorrect, RecordsStayValid, AttemptsLeftInvariant,
     HonestResultsInvariant, PTL
     DEF Implements, Contract!ContractSpec, Spec
-------------------------------------------------------------------------------
(* A worker that is within its timeout keeps its lease.                    *)

\* A forced recovery runs while no other process is up.
ForceAlone == \A v, w \in Worker : v # w /\ pc[v] = "force" => pc[w] = "down"

\* Two transport calls never run under one lease.
LeasesApart == \A v, w \in Worker :
    v # w /\ Engaged(v) /\ Engaged(w) => work[v].lease # work[w].lease

\* A call holds its lease, and time is left on it.
Secure(w) == /\ HoldsLease(w)
             /\ rec[work[w].id].started \in Nat
             /\ clock < rec[work[w].id].started + SendingTimeout

CallsSecure == TimeoutCoversSend => \A w \in Worker : Engaged(w) => Secure(w)

SafeLeases == ForceAlone /\ LeasesApart /\ CallsSecure

\* The worker has just been lent a delivery.
Begun(w) == \E d \in Delivery, lease \in FreshLeases :
    /\ Exists(d) /\ rec'[d] = Claimed(rec[d], clock, lease)
    /\ work' = [work EXCEPT ![w] = [id |-> d, lease |-> lease, result |-> "none"]]
    /\ clock' = clock

Carries(w) == /\ Engaged(w)
              /\ work'[w].id = work[w].id /\ work'[w].lease = work[w].lease

LEMMA CallOrigin ==
    ASSUME TypeOK, [Next]_vars, NEW w \in Worker, Engaged(w)'
    PROVE  Carries(w) \/ Begun(w)
<1>1. CASE UNCHANGED vars \/ Tick \/ StepBack
  BY <1>1 DEF vars, Tick, StepBack, Engaged, Carries
<1>2. ASSUME NEW v \in Worker, WorkerStep(v) PROVE Carries(w) \/ Begun(w)
  <2>1. CASE Start(v) \/ Dispatch(v) \/ RecoverInflight(v) \/ EnforceAttemptLimits(v)
             \/ NothingDue(v)
    BY <2>1 DEF Start, Dispatch, RecoverInflight, EnforceAttemptLimits, NothingDue, Goto,
                TypeOK, Engaged, Carries
  <2>2. CASE PurgeAcked(v) \/ \E d \in Delivery : Enqueue(v, d) \/ RequeueDeadLetter(v, d)
    BY <2>2 DEF PurgeAcked, Enqueue, RequeueDeadLetter, Engaged, Carries
  <2>3. CASE ClaimDue(v)
    <3>1. PICK d \in Due(v), lease \in FreshLeases :
            /\ rec' = [e \in Delivery |->
                         IF e = d THEN Claimed(rec[d], clock, lease)
                         ELSE IF e \in Exhausted(v) THEN DeadLettered(rec[e], clock)
                         ELSE rec[e]]
            /\ Lend(v, d, lease)
      BY <2>3 DEF ClaimDue
    <3>2. d \in Delivery /\ Exists(d) /\ rec'[d] = Claimed(rec[d], clock, lease)
      BY <3>1 DEF Due, InState
    <3>3. CASE v = w
      BY <2>3, <3>1, <3>2, <3>3 DEF ClaimDue, Lend, Begun
    <3>4. CASE v # w
      BY <3>1, <3>4 DEF Lend, Goto, TypeOK, Engaged, Carries
    <3>5. QED BY <3>3, <3>4
  <2>4. ASSUME NEW d \in Delivery, ClaimOne(v, d) PROVE Carries(w) \/ Begun(w)
    <3>1. CASE d \in Due(v) /\ \E lease \in FreshLeases :
                 /\ rec' = [rec EXCEPT ![d] = Claimed(rec[d], clock, lease)]
                 /\ Lend(v, d, lease)
      <4>1. Exists(d)
        BY <3>1 DEF Due, InState
      <4>2. CASE v = w
        BY <2>4, <3>1, <4>1, <4>2 DEF ClaimOne, Lend, Begun, TypeOK
      <4>3. CASE v # w
        BY <3>1, <4>3 DEF Lend, Goto, TypeOK, Engaged, Carries
      <4>4. QED BY <4>2, <4>3
    <3>2. CASE Goto(v, "idle") /\ UNCHANGED work
      BY <3>2 DEF Goto, TypeOK, Engaged, Carries
    <3>3. QED BY <2>4, <3>1, <3>2 DEF ClaimOne
  <2>5. CASE Send(v) \/ Settle(v) \/ Crash(v)
    BY <2>5 DEF Send, Settle, Crash, Goto, TypeOK, Engaged, Carries
  <2>6. QED BY <1>2, <2>1, <2>2, <2>3, <2>4, <2>5 DEF WorkerStep
<1>3. QED BY <1>1, <1>2 DEF Next

LEMMA ForceAloneStep ==
    ASSUME TypeOK, ForceAlone, [Next]_vars
    PROVE  ForceAlone'
<1>1. CASE UNCHANGED vars \/ Tick \/ StepBack
  BY <1>1 DEF vars, Tick, StepBack, ForceAlone
<1>2. ASSUME NEW w \in Worker, WorkerStep(w) PROVE ForceAlone'
  <2>1. CASE Start(w)
    BY <2>1 DEF Start, Goto, TypeOK, ForceAlone
  <2>2. CASE UNCHANGED pc
    BY <2>2 DEF ForceAlone
  <2>3. CASE /\ pc[w] # "down"
             /\ \E label \in PC \ {"force"} : Goto(w, label)
    BY <2>3 DEF Goto, TypeOK, ForceAlone
  <2>4. \/ Start(w)
        \/ UNCHANGED pc
        \/ pc[w] # "down" /\ \E label \in PC \ {"force"} : Goto(w, label)
    BY <1>2 DEF WorkerStep, RecoverInflight, EnforceAttemptLimits, PurgeAcked, Dispatch,
                ClaimDue, NothingDue, ClaimOne, Lend, Send, Settle, Crash, Enqueue,
                RequeueDeadLetter, PC
  <2>5. QED BY <2>1, <2>2, <2>3, <2>4
<1>3. QED BY <1>1, <1>2 DEF Next

LEMMA LeasesApartStep ==
    ASSUME TypeOK, LeasesApart, [Next]_vars
    PROVE  LeasesApart'
<1> SUFFICES ASSUME NEW v \in Worker, NEW w \in Worker, v # w, Engaged(v)', Engaged(w)'
             PROVE  work'[v].lease # work'[w].lease
  BY DEF LeasesApart, Engaged
<1>1. ASSUME NEW a \in Worker, NEW b \in Worker, a # b, Begun(a)
      PROVE  work'[a].lease # work'[b].lease
  BY <1>1 DEF Begun, FreshLeases, TypeOK
<1>2. CASE Begun(v) \/ Begun(w)
  BY <1>1, <1>2
<1>3. CASE Carries(v) /\ Carries(w)
  BY <1>3 DEF Carries, LeasesApart
<1>4. QED BY <1>2, <1>3, CallOrigin

LEMMA ClockWithinLease ==
    ASSUME TypeOK, [Next]_vars, TimeoutCoversSend, NEW w \in Worker, Engaged(w),
           Secure(w)
    PROVE  clock' < rec[work[w].id].started + SendingTimeout
<1>1. /\ clock \in Nat /\ SendingTimeout \in Nat /\ rec[work[w].id].started \in Nat
      /\ clock < rec[work[w].id].started + SendingTimeout
  BY OutboxAssumption DEF TypeOK, Secure
<1>2. CASE clock' = clock
  BY <1>1, <1>2
<1>3. CASE Tick
  BY <1>3 DEF Tick
<1>4. CASE StepBack
  <2>1. clock' \in 0..(clock - 1)
    BY <1>4 DEF StepBack
  <2>2. QED BY <1>1, <2>1
<1>5. ASSUME NEW v \in Worker, WorkerStep(v) PROVE clock' = clock
  BY <1>5 DEF WorkerStep, Start, RecoverInflight, EnforceAttemptLimits, PurgeAcked,
     Dispatch, ClaimDue, NothingDue, ClaimOne, Send, Settle, Crash, Enqueue,
     RequeueDeadLetter
<1>6. QED BY <1>2, <1>3, <1>4, <1>5 DEF Next, vars

LEMMA SecureStep ==
    ASSUME TypeOK, SafeLeases, [Next]_vars, TimeoutCoversSend,
           NEW w \in Worker, Engaged(w)'
    PROVE  Secure(w)'
<1>1. CASE Begun(w)
  <2>1. PICK d \in Delivery, lease \in FreshLeases :
          /\ Exists(d) /\ rec'[d] = Claimed(rec[d], clock, lease)
          /\ work' = [work EXCEPT ![w] = [id |-> d, lease |-> lease, result |-> "none"]]
          /\ clock' = clock
    BY <1>1 DEF Begun
  <2>2. work'[w].id = d /\ work'[w].lease = lease
    BY <2>1 DEF TypeOK
  <2>3. rec[d] \in Record /\ clock \in Nat /\ lease \in Lease
    BY <2>1, ExistingRecord DEF FreshLeases, TypeOK
  <2>4. /\ rec'[d] \in Record /\ rec'[d].started \in Nat /\ rec'[d].started >= clock
        /\ rec'[d].state = "sending" /\ rec'[d].lease = lease
    BY <2>1, <2>3, ClaimedRecord
  <2>5. clock' < rec'[d].started + SendingTimeout
    BY <2>1, <2>3, <2>4, OutboxAssumption
  <2>6. QED
    BY <2>2, <2>4, <2>5, OutboxAssumption DEF Secure, HoldsLease, InState, Exists
<1>2. CASE Carries(w)
  <2> DEFINE d == work[w].id
  <2>1. Engaged(w) /\ Secure(w) /\ d \in Delivery
    BY <1>2 DEF Carries, SafeLeases, CallsSecure, TypeOK
  <2>2. /\ Exists(d) /\ rec[d].state = "sending" /\ rec[d].lease = work[w].lease
        /\ clock < rec[d].started + SendingTimeout
        /\ clock \in Nat /\ rec[d].started \in Nat /\ SendingTimeout \in Nat
    BY <2>1, OutboxAssumption DEF Secure, HoldsLease, InState, TypeOK
  <2>3. ~Released(d)
    <3>1. SUFFICES ASSUME NEW v \in Worker, d \in Stale(v) PROVE FALSE
      BY DEF Released
    <3>2. pc[v] # "force"
      BY <2>1 DEF SafeLeases, ForceAlone, Engaged
    <3>3. rec[d].started + SendingTimeout =< clock
      BY <3>1, <3>2 DEF Stale
    <3>4. QED BY <2>2, <3>3
  <2>4. ~Concluded(d)
    <3>1. SUFFICES ASSUME NEW v \in Worker, work[v].id = d, pc[v] = "settle",
                          HoldsLease(v), ~Engaged(v)'
                   PROVE  FALSE
      BY DEF Concluded
    <3>2. v # w /\ Engaged(v) /\ work[v].lease = work[w].lease
      BY <2>2, <3>1 DEF HoldsLease, Engaged
    <3>3. QED BY <2>1, <3>2 DEF SafeLeases, LeasesApart
  <2>5. Untouched(d)
    <3>1. ~Created(d) /\ ~Requeued(d) /\ ~Purged(d) /\ ~Lent(d) /\ ~Buried(d)
      BY <2>2 DEF Created, Requeued, Purged, Lent, Buried, InState, Retryable
    <3>2. QED BY <2>1, <2>3, <2>4, <3>1, StepMoves DEF RecordMove
  <2>6. clock' < rec[d].started + SendingTimeout
    BY <2>1, ClockWithinLease
  <2>7. QED
    BY <1>2, <2>2, <2>5, <2>6 DEF Carries, Untouched, Secure, HoldsLease, InState, Exists
<1>3. QED BY <1>1, <1>2, CallOrigin

\* With the timeout above the longest call, no second worker is ever lent a
\* delivery that a live worker is sending, and no result is thrown away
\* (recover_inflight, _claim_unlocked and the lease guard of _settle).
THEOREM LiveLeasesStayHeld == Spec => []LiveLeaseHeld
<1>1. Init => SafeLeases
  BY DEF Init, SafeLeases, ForceAlone, LeasesApart, CallsSecure, Engaged
<1>2. TypeOK /\ SafeLeases /\ [Next]_vars => SafeLeases'
  <2> SUFFICES ASSUME TypeOK, SafeLeases, [Next]_vars PROVE SafeLeases'
    OBVIOUS
  <2>1. ForceAlone' /\ LeasesApart'
    BY ForceAloneStep, LeasesApartStep DEF SafeLeases
  <2>2. CallsSecure'
    BY SecureStep DEF CallsSecure, Engaged
  <2>3. QED BY <2>1, <2>2 DEF SafeLeases
<1>3. SafeLeases => LiveLeaseHeld
  BY DEF SafeLeases, CallsSecure, Secure, LiveLeaseHeld
<1>4. QED BY <1>1, <1>2, <1>3, TypeCorrect, PTL DEF Spec
===============================================================================
