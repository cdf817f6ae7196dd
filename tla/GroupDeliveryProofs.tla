-------------------------- MODULE GroupDeliveryProofs --------------------------
(* Theorems about GroupDelivery, for every set of intents, rows and        *)
(* processes, every database found at first, every delay, and every bound. *)
EXTENDS GroupDelivery, NumberLemmas, FiniteSetTheorems, SequenceTheorems, TLAPS

-------------------------------------------------------------------------------
(* What the operators on rows return.                                      *)

Table == [Row -> RowRecord \cup {NoRow}]

LEMMA NumbersType ==
    /\ MaxAttempts \in Nat /\ MaxAttempts >= 1 /\ SendingLease \in Nat /\ SendingLease >= 1
    /\ DrainLimit \in Nat /\ DrainLimit >= 1
    /\ BaseBackoff \in Nat /\ MaxBackoff \in Nat /\ MaxCrashes \in Nat
    /\ Row \subseteq Nat /\ IntentOf \in [Row -> Intent] /\ Canonical \in [Intent -> Row]
    /\ NoRow \notin RowRecord /\ None \notin Nat
BY GroupAssumption

LEMMA BackoffType == ASSUME NEW n \in Nat PROVE Backoff(n) \in Nat
<1> DEFINE fits == {k \in 1..MaxBackoff : k = BaseBackoff * 2^(n - 1)}
<1>1. CASE fits = {}
  BY <1>1, NumbersType DEF Backoff
<1>2. CASE fits # {}
  <2>1. (CHOOSE k \in fits : TRUE) \in fits
    BY <1>2
  <2>2. QED BY <2>1, <1>2, NumbersType DEF Backoff
<1>3. QED BY <1>1, <1>2

LEMMA ExistingRow ==
    ASSUME TypeOK, NEW r \in Row, Exists(r)
    PROVE  /\ row[r] \in RowRecord
           /\ row[r].status \in Status /\ row[r].attempts \in Nat /\ row[r].next \in Nat
           /\ row[r].created \in Nat /\ row[r].updated \in Nat
BY DEF TypeOK, Exists, RowRecord

\* Recovery leaves a row alone or queues a stale one again.
Requeues(r) == /\ InStatus(r, {"sending"}) /\ row[r].updated + SendingLease =< clock
               /\ Recover(row)[r] = [status |-> "retry", attempts |-> row[r].attempts,
                                     next |-> clock, created |-> row[r].created,
                                     updated |-> clock]

LEMMA RecoverEffect ==
    ASSUME TypeOK
    PROVE  /\ Recover(row) \in Table
           /\ \A r \in Row : Requeues(r) \/ Recover(row)[r] = row[r]
<1>1. ASSUME NEW r \in Row
      PROVE  /\ Recover(row)[r] \in RowRecord \cup {NoRow}
             /\ Requeues(r) \/ Recover(row)[r] = row[r]
  <2>1. CASE InStatus(r, {"sending"}) /\ row[r].updated + SendingLease =< clock
    <3>1. row[r] \in RowRecord /\ clock \in Nat
      BY <2>1, ExistingRow DEF InStatus, TypeOK
    <3>2. Recover(row)[r] = [row[r] EXCEPT !.status = "retry", !.next = clock,
                                           !.updated = clock]
      BY <2>1 DEF Recover, InStatus, Exists
    <3>3. Requeues(r)
      BY <2>1, <3>1, <3>2 DEF Requeues, RowRecord
    <3>4. QED BY <3>1, <3>3 DEF Requeues, RowRecord, Status
  <2>2. CASE ~(InStatus(r, {"sending"}) /\ row[r].updated + SendingLease =< clock)
    <3>1. Recover(row)[r] = row[r]
      BY <2>2 DEF Recover, InStatus, Exists
    <3>2. QED BY <3>1 DEF TypeOK
  <2>3. QED BY <2>1, <2>2
<1>2. Recover(row) = [r \in Row |-> Recover(row)[r]]
  BY DEF Recover
<1>3. QED BY <1>1, <1>2 DEF Table

\* A row of the table db stands behind another one of its intent.
Beaten(db, r) == /\ db[r] # NoRow /\ db[r].status # "superseded"
                 /\ \E s \in RowsOf(IntentOf[r]) \ {r} : db[s] # NoRow /\ Beats(db, s, r)

LEMMA MigrateEffect ==
    ASSUME TypeOK, NEW db \in Table
    PROVE  /\ Migrate(db) \in Table
           /\ \A r \in Row : IF Beaten(db, r)
                             THEN Migrate(db)[r] = [db[r] EXCEPT !.status = "superseded",
                                                                 !.updated = clock]
                             ELSE Migrate(db)[r] = db[r]
<1>1. \A r \in Row : IF Beaten(db, r)
                     THEN Migrate(db)[r] = [db[r] EXCEPT !.status = "superseded",
                                                         !.updated = clock]
                     ELSE Migrate(db)[r] = db[r]
  BY DEF Migrate, Beaten
<1>2. ASSUME NEW r \in Row PROVE Migrate(db)[r] \in RowRecord \cup {NoRow}
  <2>1. clock \in Nat /\ db[r] \in RowRecord \cup {NoRow}
    BY DEF TypeOK, Table
  <2>2. CASE Beaten(db, r)
    BY <1>1, <2>1, <2>2 DEF Beaten, RowRecord, Status
  <2>3. CASE ~Beaten(db, r)
    BY <1>1, <2>1, <2>3
  <2>4. QED BY <2>2, <2>3
<1>3. Migrate(db) = [r \in Row |-> Migrate(db)[r]]
  BY DEF Migrate
<1>4. QED BY <1>1, <1>2, <1>3 DEF Table

\* The table as the constructor sees it before it prunes.
OpenedTable == IF indexed THEN Recover(row) ELSE Migrate(Recover(row))

LEMMA OpenedTableType == ASSUME TypeOK PROVE OpenedTable \in Table
BY RecoverEffect, MigrateEffect DEF OpenedTable

LEMMA ConstructEffect ==
    ASSUME TypeOK, NEW p \in Process, Construct(p)
    PROVE  \E gone \in SUBSET Ended(OpenedTable) :
             row' = [r \in Row |-> IF r \in gone THEN NoRow ELSE OpenedTable[r]]
<1> DEFINE keeping(gone) == [r \in Row |-> IF r \in gone THEN NoRow ELSE OpenedTable[r]]
<1>1. CASE \E kept \in Retained(OpenedTable) :
             row' = [r \in Row |-> IF r \in Ended(OpenedTable) \ kept THEN NoRow
                                   ELSE OpenedTable[r]]
  BY <1>1
<1>2. CASE row' = OpenedTable
  <2>1. OpenedTable = keeping({})
    BY OpenedTableType DEF Table
  <2>2. {} \in SUBSET Ended(OpenedTable) /\ row' = keeping({})
    BY <1>2, <2>1
  <2> HIDE DEF keeping
  <2>3. \E gone \in SUBSET Ended(OpenedTable) : row' = keeping(gone)
    BY <2>2
  <2>4. QED BY <2>3 DEF keeping
<1>3. QED BY <1>1, <1>2 DEF Construct, OpenedTable

-------------------------------------------------------------------------------
(* What the steps of one process do to its work, and to the row they write. *)

Work == [todo: Seq(Row), now: Nat, attempts: Nat]
Busy(p) == pc[p] \notin {"idle", "ready"}

LEMMA BeginType ==
    ASSUME TypeOK, NEW p \in Process, NEW todo \in Seq(Row), Begin(p, todo)
    PROVE  /\ work' \in [Process -> Work] /\ pc' \in [Process -> PC]
           /\ \A q \in Process : Busy(q)' => work'[q].todo # <<>>
           /\ \A q \in Process : InFlight(q)' => q # p /\ InFlight(q)
           /\ \A q \in Process : q # p => work'[q] = work[q] /\ pc'[q] = pc[q]
<1>1. work \in [Process -> Work] /\ pc \in [Process -> PC]
  BY DEF TypeOK, Work
<1>2. work' = [work EXCEPT ![p] = [work[p] EXCEPT !.todo = todo]]
  BY DEF Begin
<1>3. [work[p] EXCEPT !.todo = todo] \in Work
  BY <1>1 DEF Work
<1>4. work' \in [Process -> Work] /\ work'[p].todo = todo
  BY <1>1, <1>2, <1>3 DEF Work
<1>5. pc' = [pc EXCEPT ![p] = IF todo = <<>> THEN "idle" ELSE "claim"]
  BY DEF Begin, Goto
<1>6. QED BY <1>1, <1>2, <1>4, <1>5 DEF TypeOK, PC, Busy, InFlight

LEMMA TargetType ==
    ASSUME TypeOK, NEW p \in Process, Busy(p)
    PROVE  /\ work[p].todo \in Seq(Row) /\ work[p].todo # <<>>
           /\ Target(p) \in Row /\ Tail(work[p].todo) \in Seq(Row)
<1>1. work[p].todo \in Seq(Row) /\ work[p].todo # <<>>
  BY DEF TypeOK, Busy
<1>2. QED BY <1>1, HeadTailProperties DEF Target

LEMMA FinishType ==
    ASSUME TypeOK, NEW p \in Process, Busy(p), Finish(p)
    PROVE  /\ work' \in [Process -> Work] /\ pc' \in [Process -> PC]
           /\ \A q \in Process : Busy(q)' => work'[q].todo # <<>>
           /\ \A q \in Process : InFlight(q)' => q # p /\ InFlight(q)
           /\ \A q \in Process : q # p => work'[q] = work[q] /\ pc'[q] = pc[q]
<1> DEFINE rest == Tail(work[p].todo)
<1>1. work \in [Process -> Work] /\ pc \in [Process -> PC] /\ rest \in Seq(Row)
  BY TargetType DEF TypeOK, Work
<1> HIDE DEF rest
<1>2. [NoWork EXCEPT !.todo = rest] = [todo |-> rest, now |-> 0, attempts |-> 0]
  BY DEF NoWork
<1>3. work' = [work EXCEPT ![p] = [todo |-> rest, now |-> 0, attempts |-> 0]]
  BY <1>2 DEF Finish, rest
<1>4. work' \in [Process -> Work] /\ work'[p].todo = rest
  BY <1>1, <1>3 DEF Work
<1>5. pc' = [pc EXCEPT ![p] = IF rest = <<>> THEN "idle" ELSE "claim"]
  BY DEF Finish, Goto, rest
<1>6. QED BY <1>1, <1>3, <1>4, <1>5 DEF TypeOK, PC, Busy, InFlight

LEMMA ClaimEffect ==
    ASSUME TypeOK, NEW p \in Process, Claim(p)
    PROVE  /\ Target(p) \in Row /\ Claimable(Target(p)) /\ Exists(Target(p))
           /\ row' = [row EXCEPT ![Target(p)] =
                        [status |-> "sending", attempts |-> row[Target(p)].attempts + 1,
                         next |-> row[Target(p)].next, created |-> row[Target(p)].created,
                         updated |-> clock]]
           /\ row' \in Table
           /\ work' = [work EXCEPT ![p] = [todo |-> work[p].todo, now |-> clock,
                                           attempts |-> row[Target(p)].attempts + 1]]
           /\ work' \in [Process -> Work]
           /\ pc' = [pc EXCEPT ![p] = "send"]
<1> DEFINE r == Target(p)
<1>1. r \in Row /\ Claimable(r) /\ Exists(r)
  BY TargetType DEF Claim, Busy, Claimable, InStatus
<1>2. /\ row[r] \in RowRecord /\ clock \in Nat /\ work[p] \in Work
      /\ row \in Table /\ work \in [Process -> Work]
  BY <1>1, ExistingRow DEF TypeOK, Work, Table
<1> HIDE DEF r
<1>3. row' = [row EXCEPT ![r].status = "sending", ![r].attempts = @ + 1,
                         ![r].updated = clock]
  BY DEF Claim, r
<1>4. row' = [row EXCEPT ![r] = [status |-> "sending", attempts |-> row[r].attempts + 1,
                                 next |-> row[r].next, created |-> row[r].created,
                                 updated |-> clock]]
  BY <1>1, <1>2, <1>3 DEF RowRecord, Table
<1>5. row' \in Table
  BY <1>1, <1>2, <1>4 DEF RowRecord, Status, Table
<1>6. work' = [work EXCEPT ![p].now = clock, ![p].attempts = row[r].attempts + 1]
  BY DEF Claim, r
<1>7. work' = [work EXCEPT ![p] = [todo |-> work[p].todo, now |-> clock,
                                   attempts |-> row[r].attempts + 1]]
  <2> DEFINE tries == row[r].attempts + 1
  <2>1. tries \in Nat
    BY <1>2 DEF RowRecord
  <2> HIDE DEF tries
  <2>2. work' = [work EXCEPT ![p].now = clock, ![p].attempts = tries]
    BY <1>6 DEF tries
  <2>3. work' = [work EXCEPT ![p] = [work[p] EXCEPT !.now = clock, !.attempts = tries]]
    BY <1>2, <2>2
  <2>4. [work[p] EXCEPT !.now = clock, !.attempts = tries] =
          [todo |-> work[p].todo, now |-> clock, attempts |-> tries]
    <3>1. [work[p] EXCEPT !.now = clock] =
            [todo |-> work[p].todo, now |-> clock, attempts |-> work[p].attempts]
      BY <1>2 DEF Work
    <3>2. [work[p] EXCEPT !.now = clock, !.attempts = tries] =
            [[work[p] EXCEPT !.now = clock] EXCEPT !.attempts = tries]
      OBVIOUS
    <3>3. [[todo |-> work[p].todo, now |-> clock, attempts |-> work[p].attempts]
             EXCEPT !.attempts = tries] =
            [todo |-> work[p].todo, now |-> clock, attempts |-> tries]
      OBVIOUS
    <3>4. QED BY <3>1, <3>2, <3>3
  <2>5. QED BY <2>3, <2>4 DEF tries
<1>8. work' \in [Process -> Work]
  BY <1>2, <1>7 DEF Work, RowRecord
<1>9. QED BY <1>1, <1>4, <1>5, <1>7, <1>8 DEF Claim, Goto, r

\* What RecordFailure and RecordAck write, when the row is still there.
Outcome(p) == IF pc[p] = "ack"
              THEN [row[Target(p)] EXCEPT !.status = "acked", !.updated = clock]
              ELSE Failed(p, row[Target(p)])

LEMMA OutcomeType ==
    ASSUME TypeOK, NEW p \in Process, pc[p] \in {"fail", "ack"}, Exists(Target(p))
    PROVE  /\ Outcome(p) \in RowRecord
           /\ Outcome(p).attempts = row[Target(p)].attempts
           /\ pc[p] = "ack" => Outcome(p).status = "acked"
           /\ pc[p] = "fail" =>
                Outcome(p).status = IF work[p].attempts >= MaxAttempts THEN "dead"
                                    ELSE "retry"
<1>1. /\ row[Target(p)] \in RowRecord /\ clock \in Nat
      /\ work[p].now \in Nat /\ work[p].attempts \in Nat
  BY TargetType, ExistingRow DEF TypeOK, Busy
<1>2. CASE pc[p] = "ack"
  BY <1>1, <1>2 DEF Outcome, RowRecord, Status
<1>3. CASE pc[p] = "fail"
  <2> DEFINE later == IF work[p].attempts >= MaxAttempts THEN 0
                      ELSE Backoff(work[p].attempts)
  <2>1. later \in Nat
    BY <1>1, BackoffType
  <2> HIDE DEF later
  <2>2. work[p].now + later \in Nat
    BY <1>1, <2>1
  <2>3. Outcome(p) = [status |-> IF work[p].attempts >= MaxAttempts THEN "dead" ELSE "retry",
                      attempts |-> row[Target(p)].attempts,
                      next |-> work[p].now + later,
                      created |-> row[Target(p)].created, updated |-> work[p].now]
    BY <1>3 DEF Outcome, Failed, later
  <2>4. QED BY <1>1, <1>3, <2>2, <2>3 DEF RowRecord, Status
<1>4. QED BY <1>2, <1>3

LEMMA RecordEffect ==
    ASSUME TypeOK, NEW p \in Process, RecordFailure(p) \/ RecordAck(p)
    PROVE  /\ pc[p] \in {"fail", "ack"} /\ Finish(p)
           /\ Target(p) \in Row
           /\ IF Exists(Target(p)) /\ ~Refused(Target(p))
              THEN row' = [row EXCEPT ![Target(p)] = Outcome(p)]
              ELSE row' = row
           /\ row' \in Table
           /\ UNCHANGED <<indexed, lastPrune, clock, history>>
<1>1. /\ pc[p] \in {"fail", "ack"} /\ Finish(p)
      /\ row' = IF Exists(Target(p)) /\ ~Refused(Target(p))
                THEN [row EXCEPT ![Target(p)] = Outcome(p)] ELSE row
      /\ UNCHANGED <<indexed, lastPrune, clock, history>>
  BY DEF RecordFailure, RecordAck, Update, Outcome
<1>2. Target(p) \in Row
  BY <1>1, TargetType DEF Busy
<1>3. row' \in Table
  BY <1>1, OutcomeType DEF TypeOK, Table
<1>4. QED BY <1>1, <1>2, <1>3

-------------------------------------------------------------------------------
(* Type correctness: a drain's list is a sequence because the table is finite. *)

FiniteTable == IsFiniteSet({r \in Row : Exists(r)})

TypeInv == TypeOK /\ FiniteTable

LEMMA InitType == Init => TypeInv
<1> SUFFICES ASSUME Init PROVE TypeInv
  OBVIOUS
<1>1. row \in [Row -> RowRecord \cup {NoRow}] /\ FiniteTable
  BY GroupAssumption DEF Init, FiniteTable, Exists
<1>2. NoWork \in [todo: Seq(Row), now: Nat, attempts: Nat]
  BY EmptySeq DEF NoWork
<1>3. QED BY <1>1, <1>2, NumbersType DEF Init, TypeInv, TypeOK, PC

LEMMA FewerRows ==
    ASSUME FiniteTable, \A r \in Row : Exists(r)' => Exists(r)
    PROVE  FiniteTable'
<1>1. {r \in Row : Exists(r)'} \in SUBSET {r \in Row : Exists(r)}
  OBVIOUS
<1>2. IsFiniteSet({r \in Row : Exists(r)'})
  BY <1>1, FS_Subset DEF FiniteTable
<1>3. QED BY <1>2 DEF FiniteTable, Exists

LEMMA ConstructType ==
    ASSUME TypeInv, NEW p \in Process, Construct(p)
    PROVE  TypeInv'
<1>1. TypeOK
  BY DEF TypeInv
<1>2. PICK gone \in SUBSET Ended(OpenedTable) :
        row' = [r \in Row |-> IF r \in gone THEN NoRow ELSE OpenedTable[r]]
  BY <1>1, ConstructEffect
<1>3. row' \in Table
  BY <1>1, <1>2, OpenedTableType DEF Table
<1>4. ASSUME NEW r \in Row, Exists(r)' PROVE Exists(r)
  <2>1. OpenedTable[r] # NoRow /\ Recover(row) \in Table
    BY <1>1, <1>2, <1>4, RecoverEffect DEF Exists
  <2>2. Recover(row)[r] # NoRow
    BY <1>1, <2>1, MigrateEffect DEF OpenedTable, Beaten
  <2>3. QED BY <1>1, <2>2, RecoverEffect DEF Requeues, InStatus, Exists
<1>5. FiniteTable'
  BY <1>4, FewerRows DEF TypeInv
<1>6. lastPrune' \in Nat \cup {None}
  BY <1>1 DEF Construct, TypeOK
<1>7. QED
  BY <1>1, <1>3, <1>5, <1>6 DEF Construct, Goto, TypeInv, TypeOK, Table, PC, history

LEMMA EnqueueType ==
    ASSUME TypeInv, NEW p \in Process, NEW k \in Intent, Enqueue(p, k)
    PROVE  TypeInv'
<1>1. TypeOK /\ Canonical[k] \in Row /\ \A r \in RowsOf(k) : r \in Row
  BY NumbersType DEF TypeInv, RowsOf
<1>2. \E r \in Row : Begin(p, <<r>>)
  BY <1>1 DEF Enqueue, LiveRows
<1>3. /\ work' \in [Process -> Work] /\ pc' \in [Process -> PC]
      /\ \A q \in Process : Busy(q)' => work'[q].todo # <<>>
  BY SMTT(30), <1>1, <1>2, BeginType
<1>4. CASE UNCHANGED <<row, accepted, gens>>
  <2>1. FiniteTable'
    BY <1>4 DEF TypeInv, FiniteTable, Exists
  <2>2. QED
    BY <1>1, <1>3, <1>4, <2>1 DEF Enqueue, TypeInv, TypeOK, Work, Busy
<1>5. CASE /\ row' = [row EXCEPT ![Canonical[k]] =
                        [status |-> "pending", attempts |-> 0, next |-> clock,
                         created |-> clock, updated |-> clock]]
           /\ gens' = [gens EXCEPT ![k] = @ + 1] /\ accepted' = accepted \ {k}
  <2>1. row' \in [Row -> RowRecord \cup {NoRow}]
    BY <1>1, <1>5 DEF TypeOK, RowRecord, Status
  <2>2. {r \in Row : Exists(r)'} \in SUBSET ({r \in Row : Exists(r)} \cup {Canonical[k]})
    BY <1>1, <1>5 DEF TypeOK, Exists
  <2>3. IsFiniteSet({r \in Row : Exists(r)} \cup {Canonical[k]})
    BY FS_AddElement DEF TypeInv, FiniteTable
  <2>4. IsFiniteSet({r \in Row : Exists(r)'})
    BY <2>2, <2>3, FS_Subset
  <2>5. FiniteTable'
    BY <2>4 DEF FiniteTable, Exists
  <2>6. QED
    BY SMTT(30), <1>1, <1>3, <1>5, <2>1, <2>5 DEF Enqueue, TypeInv, TypeOK, Work, Busy
<1>6. QED BY <1>4, <1>5 DEF Enqueue

LEMMA DrainType ==
    ASSUME TypeInv, NEW p \in Process, Drain(p)
    PROVE  TypeInv'
<1> DEFINE due == {r \in Row : InStatus(r, Waiting) /\ row[r].next =< clock}
           n == IF Cardinality(due) =< DrainLimit THEN Cardinality(due) ELSE DrainLimit
<1>1. due \in SUBSET {r \in Row : Exists(r)}
  BY DEF InStatus
<1>2. n \in Nat
  BY <1>1, FS_Subset, FS_CardinalityType, NumbersType DEF TypeInv, FiniteTable
<1>3. PICK todo \in [1..n -> due] : Begin(p, todo)
  BY DEF Drain
<1>4. todo \in Seq(Row)
  <2>1. todo \in [1..n -> Row]
    BY <1>1
  <2>2. QED BY ZenonT(60), <1>2, <2>1, SeqDef
<1>5. /\ work' \in [Process -> Work] /\ pc' \in [Process -> PC]
      /\ \A q \in Process : Busy(q)' => work'[q].todo # <<>>
  BY <1>3, <1>4, BeginType DEF TypeInv
<1>6. QED
  BY <1>5 DEF Drain, TypeInv, TypeOK, FiniteTable, Exists, table, history, Work, Busy

LEMMA ResumeType ==
    ASSUME TypeInv, NEW p \in Process, NEW r \in Row, Resume(p, r)
    PROVE  TypeInv'
<1>1. <<r>> \in Seq(Row) /\ Begin(p, <<r>>)
  BY DEF Resume
<1>2. /\ work' \in [Process -> Work] /\ pc' \in [Process -> PC]
      /\ \A q \in Process : Busy(q)' => work'[q].todo # <<>>
  BY <1>1, BeginType DEF TypeInv
<1>3. QED
  BY <1>2 DEF Resume, TypeInv, TypeOK, FiniteTable, Exists, table, history, Work, Busy

LEMMA DeliverType ==
    ASSUME TypeInv, NEW p \in Process,
           ClaimRefused(p) \/ Claim(p) \/ Send(p) \/ ReadBack(p) \/ RecordFailure(p)
             \/ RecordAck(p)
    PROVE  TypeInv'
<1>1. TypeOK
  BY DEF TypeInv
<1>2. CASE ClaimRefused(p)
  <2>1. Busy(p) /\ Finish(p)
    BY <1>2 DEF ClaimRefused, Busy
  <2>2. QED
    BY <1>1, <1>2, <2>1, FinishType
       DEF ClaimRefused, TypeInv, TypeOK, FiniteTable, Exists, table, history, Work, Busy
<1>3. CASE Claim(p)
  <2>1. FiniteTable'
    BY <1>1, <1>3, ClaimEffect, FewerRows DEF TypeInv, Exists, TypeOK
  <2>2. /\ work'[p].todo = work[p].todo
        /\ \A q \in Process \ {p} : work'[q] = work[q] /\ pc'[q] = pc[q]
        /\ Busy(p)
    <3>1. work \in [Process -> Work] /\ pc \in [Process -> PC] /\ pc[p] = "claim"
      BY <1>1, <1>3 DEF TypeOK, Work, Claim
    <3>2. work' = [work EXCEPT ![p] = [todo |-> work[p].todo, now |-> clock,
                                       attempts |-> row[Target(p)].attempts + 1]]
          /\ pc' = [pc EXCEPT ![p] = "send"]
      BY <1>1, <1>3, ClaimEffect
    <3>3. work'[p].todo = work[p].todo
      BY <3>1, <3>2
    <3>4. QED BY <3>1, <3>2, <3>3 DEF Busy
  <2>3. \A q \in Process : Busy(q)' => work'[q].todo # <<>>
    BY <1>1, <2>2 DEF TypeOK, Busy
  <2>4. pc' \in [Process -> PC] /\ row' \in Table /\ work' \in [Process -> Work]
    BY <1>1, <1>3, ClaimEffect DEF TypeOK, PC
  <2>5. QED
    BY <1>1, <1>3, <2>1, <2>3, <2>4
       DEF Claim, TypeInv, TypeOK, Table, history, Work, Busy
<1>4. CASE Send(p)
  <2>1. Target(p) \in Row
    BY <1>1, <1>4, TargetType DEF Send, Busy
  <2>2. accepted' \subseteq Intent
    <3>1. IntentOf[Target(p)] \in Intent /\ accepted \subseteq Intent
      BY <1>1, <2>1, NumbersType DEF TypeOK
    <3>2. \/ accepted' = accepted
          \/ accepted' = accepted \cup {IntentOf[Target(p)]}
      BY <1>4 DEF Send
    <3>3. QED BY <3>1, <3>2
  <2>3. QED
    BY <1>1, <1>4, <2>2 DEF Send, Goto, TypeInv, TypeOK, FiniteTable, Exists, table, PC
<1>5. CASE ReadBack(p)
  <2> DEFINE tries == IF Exists(Target(p)) THEN row[Target(p)].attempts ELSE work[p].attempts
  <2>1. Target(p) \in Row /\ Busy(p)
    BY <1>1, <1>5, TargetType DEF ReadBack, Busy
  <2>2. tries \in Nat
    BY <1>1, <2>1, ExistingRow DEF TypeOK
  <2>3. work' = [work EXCEPT ![p].attempts = tries]
    BY <1>1, <1>5 DEF ReadBack, TypeOK
  <2> HIDE DEF tries
  <2>4. work' \in [Process -> Work]
    BY <1>1, <2>2, <2>3 DEF TypeOK, Work
  <2>5. \A q \in Process : work'[q].todo = work[q].todo
    BY <1>1, <2>3 DEF TypeOK
  <2>6. QED
    BY <1>1, <1>5, <2>1, <2>4, <2>5
       DEF ReadBack, Goto, TypeInv, TypeOK, FiniteTable, Exists, table, history, PC, Work,
           Busy
<1>6. CASE RecordFailure(p) \/ RecordAck(p)
  <2>1. /\ Busy(p) /\ Finish(p) /\ row' \in Table
        /\ UNCHANGED <<indexed, lastPrune, clock, history>>
    BY <1>1, <1>6, RecordEffect DEF Busy
  <2>2. FiniteTable'
    BY <1>1, <1>6, RecordEffect, FewerRows DEF TypeInv, Exists, TypeOK
  <2>3. QED
    BY <1>1, <2>1, <2>2, FinishType DEF TypeInv, TypeOK, Table, history, Work, Busy
<1>7. QED BY <1>2, <1>3, <1>4, <1>5, <1>6

LEMMA CrashType ==
    ASSUME TypeInv, NEW p \in Process, Crash(p)
    PROVE  TypeInv'
<1>1. TypeOK
  BY DEF TypeInv
<1>2. accepted' \subseteq Intent
  <2>1. pc[p] = "send" => IntentOf[Target(p)] \in Intent
    BY <1>1, TargetType, NumbersType DEF Busy
  <2>2. QED BY <1>1, <2>1 DEF Crash, TypeOK
<1>3. NoWork \in [todo: Seq(Row), now: Nat, attempts: Nat]
  BY EmptySeq DEF NoWork
<1>4. QED
  BY <1>1, <1>2, <1>3 DEF Crash, Goto, TypeInv, TypeOK, FiniteTable, Exists, table, PC

LEMMA TypeStep == ASSUME TypeInv, [Next]_vars PROVE TypeInv'
<1>1. CASE Tick
  BY <1>1 DEF Tick, TypeInv, TypeOK, FiniteTable, Exists, table, history
<1>2. ASSUME NEW p \in Process, ProcessStep(p) PROVE TypeInv'
  BY <1>2, ConstructType, EnqueueType, DrainType, ResumeType, DeliverType, CrashType
     DEF ProcessStep
<1>3. CASE UNCHANGED vars
  BY <1>3 DEF vars, TypeInv, TypeOK, FiniteTable, Exists
<1>4. QED BY <1>1, <1>2, <1>3 DEF Next

LEMMA TypeInvariant == Spec => []TypeInv
BY InitType, TypeStep, PTL DEF Spec

\* Every variable keeps its type, and a process that is delivering has a row to
\* deliver (group_delivery.py, all operations, on a database of any schema).
THEOREM TypeCorrect == Spec => []TypeOK
<1>1. TypeInv => TypeOK
  BY DEF TypeInv
<1>2. QED BY <1>1, TypeInvariant, PTL

-------------------------------------------------------------------------------
(* Rows of one intent: the order in which the migration prefers them.      *)

LEMMA RankType ==
    /\ \A s \in Status : Rank[s] \in 0..5
    /\ \A s \in Status : Rank[s] = 0 <=> s = "acked"
BY DEF Rank, Status

LEMMA BeatsMeaning ==
    ASSUME NEW db \in Table, NEW a \in Row, NEW b \in Row, db[a] # NoRow, db[b] # NoRow
    PROVE  LET ra == Rank[db[a].status]
               rb == Rank[db[b].status]
           IN Beats(db, a, b) <=> \/ ra < rb
                                  \/ ra = rb /\ db[a].created < db[b].created
                                  \/ ra = rb /\ db[a].created = db[b].created /\ a < b
<1> DEFINE x == <<Rank[db[a].status], db[a].created, a>>
           y == <<Rank[db[b].status], db[b].created, b>>
           first(i) == x[i] < y[i] /\ \A j \in 1..(i - 1) : x[j] = y[j]
<1>1. Beats(db, a, b) <=> \E i \in 1..3 : first(i)
  BY DEF Beats
<1>2. (\E i \in 1..3 : first(i)) <=> first(1) \/ first(2) \/ first(3)
  <2> HIDE DEF first
  <2>1. 1..3 = {1, 2, 3}
    OBVIOUS
  <2>2. QED BY <2>1
<1>3. /\ 1..(1 - 1) = {} /\ 1..(2 - 1) = {1} /\ 1..(3 - 1) = {1, 2}
  OBVIOUS
<1>4. QED BY <1>1, <1>2, <1>3

LEMMA BeatsTotal ==
    ASSUME NEW db \in Table, NEW a \in Row, NEW b \in Row, db[a] # NoRow, db[b] # NoRow,
           a # b
    PROVE  Beats(db, a, b) \/ Beats(db, b, a)
<1>1. /\ Rank[db[a].status] \in Int /\ Rank[db[b].status] \in Int
      /\ db[a].created \in Int /\ db[b].created \in Int /\ a \in Int /\ b \in Int
  <2>1. db[a] \in RowRecord /\ db[b] \in RowRecord
    BY DEF Table
  <2>2. QED BY <2>1, RankType, NumbersType DEF RowRecord
<1>2. QED BY <1>1, BeatsMeaning

\* Of the acked rows of an intent one is not beaten by any row.
LEMMA BestAck ==
    ASSUME NEW db \in Table, NEW k \in Intent,
           \E r \in RowsOf(k) : db[r] # NoRow /\ db[r].status = "acked"
    PROVE  \E r \in RowsOf(k) : /\ db[r] # NoRow /\ db[r].status = "acked"
                                /\ ~Beaten(db, r)
<1> DEFINE Ack(r) == db[r] # NoRow /\ db[r].status = "acked"
           acks == {r \in RowsOf(k) : Ack(r)}
           times == {db[r].created : r \in acks}
<1>1. \A r \in acks : r \in Row /\ r \in Nat /\ db[r] \in RowRecord /\ db[r].created \in Nat
  BY NumbersType DEF RowsOf, Table, RowRecord
<1>2. times \in SUBSET Nat /\ times # {}
  BY <1>1
<1>3. PICK t \in times : \A u \in times : t =< u
  BY <1>2, LeastNumber
<1> DEFINE oldest == {r \in acks : db[r].created = t}
<1>4. oldest \in SUBSET Nat /\ oldest # {}
  BY <1>1
<1>5. PICK r \in oldest : \A s \in oldest : r =< s
  BY <1>4, LeastNumber
<1>6. ASSUME NEW s \in RowsOf(k), s # r, db[s] # NoRow PROVE ~Beats(db, s, r)
  <2>1. s \in Row /\ r \in Row /\ db[s] \in RowRecord /\ db[r].status = "acked"
        /\ db[r] # NoRow /\ s \in Nat /\ r \in Nat
    BY <1>1, <1>6, NumbersType DEF RowsOf, Table
  <2>2. Rank["acked"] = 0 /\ Rank[db[s].status] \in 0..5
        /\ (Rank[db[s].status] = 0 <=> db[s].status = "acked")
    BY <2>1, RankType DEF RowRecord, Status
  <2>3. CASE db[s].status # "acked"
    BY <1>6, <2>1, <2>2, <2>3, BeatsMeaning
  <2>4. CASE db[s].status = "acked"
    <3>1. s \in acks /\ db[s].created \in times
      BY <1>6, <2>4
    <3>2. db[s].created \in Nat /\ db[r].created = t /\ t \in Nat /\ t =< db[s].created
          /\ (db[s].created = t => r =< s)
      BY <1>1, <1>2, <1>3, <1>5, <3>1
    <3>3. QED BY <1>6, <2>1, <2>2, <2>4, <3>2, BeatsMeaning
  <2>5. QED BY <2>3, <2>4
<1>7. r \in RowsOf(k) /\ Ack(r) /\ IntentOf[r] = k
  BY DEF RowsOf
<1>8. ~Beaten(db, r)
  BY <1>6, <1>7 DEF Beaten
<1>9. QED BY <1>7, <1>8

-------------------------------------------------------------------------------
(* One live row stands for an intent.                                      *)

\* The unique index holds, and no process works before it exists.
UniqueLive == /\ \A p \in Process : pc[p] # "idle" => indexed
              /\ indexed => \A r, s \in Row :
                              Live(r) /\ Live(s) /\ IntentOf[r] = IntentOf[s] => r = s

LEMMA ConstructUnique ==
    ASSUME TypeOK, UniqueLive, NEW p \in Process, Construct(p)
    PROVE  UniqueLive'
<1>1. PICK gone \in SUBSET Ended(OpenedTable) :
        row' = [r \in Row |-> IF r \in gone THEN NoRow ELSE OpenedTable[r]]
  BY ConstructEffect
<1>2. indexed' = TRUE
  BY DEF Construct
<1> SUFFICES ASSUME NEW r \in Row, NEW s \in Row, Live(r)', Live(s)',
                    IntentOf[r] = IntentOf[s], r # s
             PROVE  FALSE
  BY <1>2 DEF UniqueLive
<1> DEFINE db == Recover(row)
<1>3. /\ OpenedTable[r] # NoRow /\ OpenedTable[r].status # "superseded"
      /\ OpenedTable[s] # NoRow /\ OpenedTable[s].status # "superseded"
  BY <1>1 DEF Live, InStatus, Exists
<1>4. db \in Table /\ \A q \in Row : Requeues(q) \/ db[q] = row[q]
  BY RecoverEffect
<1>5. CASE indexed
  <2>1. ASSUME NEW q \in Row, db[q] # NoRow, db[q].status # "superseded" PROVE Live(q)
    <3>1. CASE Requeues(q)
      BY <3>1 DEF Requeues, InStatus, Live, Status
    <3>2. CASE db[q] = row[q]
      BY <2>1, <3>2, ExistingRow DEF InStatus, Live, Exists
    <3>3. QED BY <1>4, <3>1, <3>2
  <2>2. QED BY <1>3, <1>5, <2>1 DEF OpenedTable, UniqueLive
<1>6. CASE ~indexed
  <2>1. ASSUME NEW q \in Row, OpenedTable[q] # NoRow, OpenedTable[q].status # "superseded"
        PROVE  db[q] # NoRow /\ db[q].status # "superseded" /\ ~Beaten(db, q)
    <3>1. OpenedTable = Migrate(db)
      BY <1>6 DEF OpenedTable
    <3>2. CASE Beaten(db, q)
      <4>1. db[q] \in RowRecord
        BY <1>4, <3>2 DEF Beaten, Table
      <4>2. Migrate(db)[q].status = "superseded"
        BY <1>4, <3>2, <4>1, MigrateEffect DEF RowRecord
      <4>3. QED BY <2>1, <3>1, <4>2
    <3>3. CASE ~Beaten(db, q)
      BY <1>4, <2>1, <3>1, <3>3, MigrateEffect
    <3>4. QED BY <3>2, <3>3
  <2>2. ~Beats(db, s, r) /\ ~Beats(db, r, s)
    BY <1>3, <2>1 DEF Beaten, RowsOf
  <2>3. QED BY <1>3, <1>4, <2>1, <2>2, BeatsTotal
<1>7. QED BY <1>5, <1>6

LEMMA EnqueueUnique ==
    ASSUME TypeOK, UniqueLive, NEW p \in Process, NEW k \in Intent, Enqueue(p, k)
    PROVE  UniqueLive'
<1>1. Canonical[k] \in Row /\ IntentOf[Canonical[k]] = k
  BY GroupAssumption
<1>2. indexed /\ indexed' = TRUE
  BY DEF Enqueue, UniqueLive, TypeOK
<1>3. CASE UNCHANGED row
  BY <1>2, <1>3 DEF UniqueLive, Live, InStatus, Exists
<1>4. CASE LiveRows(k) = {} /\ \E new : row' = [row EXCEPT ![Canonical[k]] = new]
  <2>1. \A r \in Row : Live(r)' => Live(r) \/ r = Canonical[k]
    BY <1>1, <1>4 DEF TypeOK, Live, InStatus, Exists
  <2>2. \A r \in Row : Live(r) => IntentOf[r] # k
    BY <1>4 DEF LiveRows, RowsOf
  <2>3. QED BY <1>1, <1>2, <2>1, <2>2 DEF UniqueLive
<1>5. QED BY <1>3, <1>4 DEF Enqueue

LEMMA DeliverUnique ==
    ASSUME TypeOK, UniqueLive, NEW p \in Process,
           Claim(p) \/ RecordFailure(p) \/ RecordAck(p)
    PROVE  UniqueLive'
<1> DEFINE t == Target(p)
<1>1. t \in Row /\ indexed /\ indexed' = indexed
  <2>1. Busy(p) /\ pc[p] # "idle"
    BY DEF Claim, RecordFailure, RecordAck, Busy
  <2>2. QED BY <2>1, TargetType DEF UniqueLive, Claim, RecordFailure, RecordAck
<1>2. row' = row \/ (Exists(t) /\ ~Refused(t) /\ \E new : row' = [row EXCEPT ![t] = new])
  <2>1. CASE Claim(p)
    BY <2>1, ClaimEffect DEF Claimable
  <2>2. CASE RecordFailure(p) \/ RecordAck(p)
    BY <2>2, RecordEffect
  <2>3. QED BY <2>1, <2>2
<1>3. CASE row' = row
  BY <1>1, <1>3 DEF UniqueLive, Live, InStatus, Exists
<1>4. CASE Exists(t) /\ ~Refused(t) /\ \E new : row' = [row EXCEPT ![t] = new]
  <2>1. \A r \in Row \ {t} : Live(r)' => Live(r)
    BY <1>1, <1>4 DEF TypeOK, Live, InStatus, Exists
  <2>2. Live(t) \/ \A r \in Row : Live(r) => IntentOf[r] # IntentOf[t]
    <3>1. CASE InStatus(t, {"superseded"})
      BY <1>4, <3>1 DEF Refused, LiveRows, RowsOf
    <3>2. CASE ~InStatus(t, {"superseded"})
      BY <1>1, <1>4, <3>2, ExistingRow DEF Live, InStatus
    <3>3. QED BY <3>1, <3>2
  <2>3. QED BY <1>1, <2>1, <2>2 DEF UniqueLive
<1>5. QED BY <1>2, <1>3, <1>4

LEMMA UniqueStep == ASSUME TypeOK, UniqueLive, [Next]_vars PROVE UniqueLive'
<1>1. ASSUME UNCHANGED <<row, indexed>>, \A p \in Process : pc'[p] # "idle" => indexed
      PROVE  UniqueLive'
  BY <1>1 DEF UniqueLive, Live, InStatus, Exists
<1>2. CASE UNCHANGED vars \/ Tick
  BY <1>1, <1>2 DEF vars, Tick, table, UniqueLive
<1>3. ASSUME NEW p \in Process, ProcessStep(p) PROVE UniqueLive'
  <2>1. CASE Construct(p) \/ Claim(p) \/ RecordFailure(p) \/ RecordAck(p)
             \/ \E k \in Intent : Enqueue(p, k)
    <3>1. CASE Construct(p)
      BY <3>1, ConstructUnique
    <3>2. CASE ~Construct(p)
      BY <2>1, <3>2, EnqueueUnique, DeliverUnique
    <3>3. QED BY <3>1, <3>2
  <2>2. CASE Drain(p) \/ ClaimRefused(p) \/ Send(p) \/ ReadBack(p) \/ Crash(p)
             \/ \E r \in Row : Resume(p, r)
    <3>1. UNCHANGED <<row, indexed>>
      BY <2>2 DEF Drain, ClaimRefused, Send, ReadBack, Crash, Resume, table
    <3>2. (\E label \in PC : Goto(p, label)) /\ (pc[p] # "idle")
      BY <2>2 DEF Drain, ClaimRefused, Send, ReadBack, Crash, Resume, Begin, Finish, PC
    <3>3. \A q \in Process : pc'[q] # "idle" => indexed
      BY <3>2 DEF Goto, TypeOK, UniqueLive
    <3>4. QED BY <1>1, <3>1, <3>3
  <2>3. QED BY <1>3, <2>1, <2>2 DEF ProcessStep
<1>4. QED BY <1>2, <1>3 DEF Next

LEMMA UniqueInvariant == Spec => []UniqueLive
<1>1. Init => UniqueLive
  BY DEF Init, UniqueLive
<1>2. QED BY <1>1, UniqueStep, TypeCorrect, PTL DEF Spec

\* Whatever an older schema left in the database, after the migration at most one live
\* row stands for an intent, and no later call adds another one (_migrate_schema, the
\* unique index, enqueue, claim and the UPDATEs of an outcome).
THEOREM OneLiveRowAlways == Spec => []OneLiveRow
<1>1. UniqueLive => OneLiveRow
  <2> SUFFICES ASSUME UniqueLive, indexed, NEW k \in Intent
               PROVE  Cardinality(LiveRows(k)) =< 1
    BY DEF OneLiveRow
  <2>1. CASE LiveRows(k) = {}
    BY <2>1, FS_EmptySet
  <2>2. CASE LiveRows(k) # {}
    <3>1. PICK r \in LiveRows(k) : TRUE
      BY <2>2
    <3>2. LiveRows(k) = {r}
      BY <3>1 DEF UniqueLive, LiveRows, RowsOf
    <3>3. QED BY SMTT(30), <3>2, FS_Singleton
  <2>3. QED BY <2>1, <2>2
<1>2. QED BY <1>1, UniqueInvariant, PTL

-------------------------------------------------------------------------------
(* What one step does to one row: nothing, or one of six moves.            *)

Kept(r) == row'[r] = row[r]

Requeued(r) == Requeues(r) /\ row'[r] = Recover(row)[r] /\ UNCHANGED history

Pruned(r) == InStatus(r, Terminal) /\ row'[r] = NoRow /\ UNCHANGED history

Superseded(r) == ~indexed /\ Exists(r) /\ Beaten(Recover(row), r)

Inserted(r) == /\ ~Exists(r) /\ LiveRows(IntentOf[r]) = {} /\ Canonical[IntentOf[r]] = r
               /\ row'[r] = [status |-> "pending", attempts |-> 0, next |-> clock,
                             created |-> clock, updated |-> clock]
               /\ accepted' = accepted \ {IntentOf[r]}

Claimed(r) == /\ Claimable(r) /\ Exists(r)
              /\ \E p \in Process : Claim(p) /\ Target(p) = r
              /\ row'[r] = [status |-> "sending", attempts |-> row[r].attempts + 1,
                            next |-> row[r].next, created |-> row[r].created,
                            updated |-> clock]
              /\ UNCHANGED history

Concluded(r) == /\ Exists(r) /\ UNCHANGED history
                /\ \E p \in Process : /\ pc[p] \in {"fail", "ack"} /\ Finish(p)
                                      /\ Target(p) = r /\ row'[r] = Outcome(p)

RowMove(r) == \/ Kept(r) \/ Requeued(r) \/ Pruned(r) \/ Superseded(r)
              \/ Inserted(r) \/ Claimed(r) \/ Concluded(r)

LEMMA ConstructMoves ==
    ASSUME TypeOK, NEW p \in Process, Construct(p), NEW r \in Row
    PROVE  Kept(r) \/ Requeued(r) \/ Pruned(r) \/ Superseded(r)
<1> DEFINE db == Recover(row)
<1>1. PICK gone \in SUBSET Ended(OpenedTable) :
        row' = [s \in Row |-> IF s \in gone THEN NoRow ELSE OpenedTable[s]]
  BY ConstructEffect
<1>h. UNCHANGED history
  BY DEF Construct
<1>2. db \in Table /\ (Requeues(r) \/ db[r] = row[r])
  BY RecoverEffect
<1>3. SUFFICES ASSUME ~Superseded(r)
               PROVE  Kept(r) \/ Requeued(r) \/ Pruned(r)
  OBVIOUS
<1>4. OpenedTable[r] = db[r]
  <2>1. CASE indexed
    BY <2>1 DEF OpenedTable
  <2>2. CASE ~indexed
    <3>1. ~Beaten(db, r)
      BY <1>2, <1>3, <2>2 DEF Superseded, Beaten, Requeues, InStatus, Exists
    <3>2. QED BY <1>2, <2>2, <3>1, MigrateEffect DEF OpenedTable
  <2>3. QED BY <2>1, <2>2
<1>5. CASE r \in gone
  <2>1. db[r] # NoRow /\ db[r].status \in Terminal
    BY <1>4, <1>5 DEF Ended
  <2>2. db[r] = row[r]
    BY <1>2, <2>1 DEF Requeues, Terminal
  <2>3. QED BY <1>1, <1>h, <1>5, <2>1, <2>2 DEF Pruned, InStatus, Exists
<1>6. CASE r \notin gone
  <2>1. row'[r] = db[r]
    BY <1>1, <1>4, <1>6
  <2>2. QED BY <1>2, <1>h, <2>1 DEF Requeued, Kept
<1>7. QED BY <1>5, <1>6

LEMMA StepMoves == ASSUME TypeOK, [Next]_vars, NEW r \in Row PROVE RowMove(r)
<1>1. CASE UNCHANGED row
  BY <1>1 DEF RowMove, Kept
<1>2. ASSUME NEW p \in Process, ProcessStep(p), row' # row PROVE RowMove(r)
  <2>1. CASE Construct(p)
    BY <2>1, ConstructMoves DEF RowMove
  <2>2. CASE Claim(p)
    <3>1. CASE Target(p) = r
      <4>1. UNCHANGED history
        BY <2>2 DEF Claim
      <4>2. row \in [Row -> RowRecord \cup {NoRow}]
        BY DEF TypeOK
      <4>3. /\ Claimable(r) /\ Exists(r)
            /\ row'[r] = [status |-> "sending", attempts |-> row[r].attempts + 1,
                          next |-> row[r].next, created |-> row[r].created,
                          updated |-> clock]
        BY <2>2, <3>1, <4>2, ClaimEffect
      <4>4. \E q \in Process : Claim(q) /\ Target(q) = r
        BY <2>2, <3>1
      <4>5. QED BY <4>1, <4>3, <4>4 DEF RowMove, Claimed
    <3>2. CASE Target(p) # r
      BY <2>2, <3>2, ClaimEffect DEF RowMove, Kept, TypeOK
    <3>3. QED BY <3>1, <3>2
  <2>3. CASE RecordFailure(p) \/ RecordAck(p)
    <3>1. /\ pc[p] \in {"fail", "ack"} /\ Finish(p) /\ Exists(Target(p))
          /\ UNCHANGED history
          /\ row' = [row EXCEPT ![Target(p)] = Outcome(p)]
      BY <1>2, <2>3, RecordEffect
    <3>2. CASE Target(p) = r
      BY <3>1, <3>2 DEF RowMove, Concluded, TypeOK
    <3>3. CASE Target(p) # r
      BY <3>1, <3>3 DEF RowMove, Kept, TypeOK
    <3>4. QED BY <3>2, <3>3
  <2>4. ASSUME NEW k \in Intent, Enqueue(p, k) PROVE RowMove(r)
    <3>1. /\ LiveRows(k) = {} /\ ~Exists(Canonical[k]) /\ accepted' = accepted \ {k}
          /\ row' = [row EXCEPT ![Canonical[k]] =
                       [status |-> "pending", attempts |-> 0, next |-> clock,
                        created |-> clock, updated |-> clock]]
      BY <1>2, <2>4 DEF Enqueue
    <3>2. CASE Canonical[k] = r
      <4>1. IntentOf[r] = k
        BY <3>2, GroupAssumption
      <4>2. QED BY <3>1, <3>2, <4>1 DEF RowMove, Inserted, TypeOK
    <3>3. CASE Canonical[k] # r
      BY <3>1, <3>3 DEF RowMove, Kept, TypeOK
    <3>4. QED BY <3>2, <3>3
  <2>5. QED
    BY <1>2, <2>1, <2>2, <2>3, <2>4
       DEF ProcessStep, Drain, ClaimRefused, Send, ReadBack, Crash, Resume, table
<1>3. QED BY <1>1, <1>2 DEF Next, vars, Tick, table

-------------------------------------------------------------------------------
(* A call that does not outlast the lease has its row to itself.           *)

Secure(p) == /\ InStatus(Target(p), {"sending"})
             /\ row[Target(p)].updated = work[p].now
             /\ row[Target(p)].attempts = work[p].attempts
             /\ clock < work[p].now + SendingLease

CallsSecure == \A p \in Process : InFlight(p) => Secure(p)
CallsApart == \A p, q \in Process :
    p # q /\ InFlight(p) /\ InFlight(q) => Target(p) # Target(q)

SafeCalls == UniqueLive /\ CallsSecure /\ CallsApart

\* A process in a call was in it before, or it has just claimed its row.
Carries(p) == /\ InFlight(p) /\ Target(p)' = Target(p) /\ work'[p].now = work[p].now
              /\ work'[p].attempts \in {work[p].attempts, row[Target(p)].attempts}

LEMMA CallOrigin ==
    ASSUME TypeOK, [Next]_vars, NEW p \in Process, InFlight(p)'
    PROVE  Carries(p) \/ Claim(p)
<1>1. ASSUME InFlight(p), work'[p] = work[p] PROVE Carries(p)
  BY <1>1 DEF Carries, Target
<1>2. CASE UNCHANGED vars \/ Tick
  BY <1>1, <1>2 DEF vars, Tick, InFlight
<1>3. ASSUME NEW q \in Process, ProcessStep(q) PROVE Carries(p) \/ Claim(p)
  <2>1. CASE Construct(q)
    BY <1>1, <2>1 DEF Construct, Goto, TypeOK, InFlight
  <2>2. CASE Drain(q) \/ (\E r \in Row : Resume(q, r)) \/ \E k \in Intent : Enqueue(q, k)
    <3>1. \E todo : Begin(q, todo)
      BY <2>2 DEF Drain, Resume, Enqueue
    <3>2. pc'[p] = pc[p] /\ work'[p] = work[p] /\ p # q
      BY <3>1 DEF Begin, Goto, TypeOK, InFlight
    <3>3. QED BY <1>1, <3>2 DEF InFlight
  <2>3. CASE ClaimRefused(q) \/ RecordFailure(q) \/ RecordAck(q)
    <3>1. Finish(q) /\ Busy(q)
      BY <2>3 DEF ClaimRefused, RecordFailure, RecordAck, Busy
    <3>2. QED BY <1>1, <3>1, FinishType
  <2>4. CASE Claim(q)
    BY <1>1, <2>4, ClaimEffect DEF TypeOK, InFlight
  <2>5. CASE Send(q)
    BY <1>1, <2>5 DEF Send, Goto, TypeOK, InFlight
  <2>6. CASE ReadBack(q)
    <3>1. CASE q # p
      BY <1>1, <2>6, <3>1 DEF ReadBack, Goto, TypeOK, InFlight
    <3>2. CASE q = p
      <4>1. work' = [work EXCEPT ![p].attempts = IF Exists(Target(p))
                                                 THEN row[Target(p)].attempts
                                                 ELSE work[p].attempts]
        BY <2>6, <3>2 DEF ReadBack, TypeOK
      <4>2. InFlight(p)
        BY <2>6, <3>2 DEF ReadBack, InFlight
      <4>3. QED BY <4>1, <4>2 DEF Carries, Target, TypeOK
    <3>3. QED BY <3>1, <3>2
  <2>7. CASE Crash(q)
    BY <1>1, <2>7 DEF Crash, Goto, TypeOK, InFlight
  <2>8. QED BY <1>3, <2>1, <2>2, <2>3, <2>4, <2>5, <2>6, <2>7 DEF ProcessStep
<1>4. QED BY <1>2, <1>3 DEF Next

LEMMA CallRowKept ==
    ASSUME TypeOK, SafeCalls, [Next]_vars, NEW p \in Process, InFlight(p), InFlight(p)'
    PROVE  Kept(Target(p))
<1> DEFINE t == Target(p)
<1>1. t \in Row /\ Secure(p) /\ indexed /\ pc[p] # "idle"
  BY TargetType DEF SafeCalls, CallsSecure, InFlight, Busy, UniqueLive
<1>2. /\ InStatus(t, {"sending"}) /\ Exists(t) /\ row[t].status = "sending"
      /\ ~(row[t].updated + SendingLease =< clock)
  BY <1>1, ExistingRow, NumbersType DEF Secure, InStatus, TypeOK
<1>3. ~Requeued(t) /\ ~Pruned(t) /\ ~Superseded(t) /\ ~Inserted(t) /\ ~Claimed(t)
  BY <1>1, <1>2 DEF Requeued, Requeues, Pruned, Terminal, Superseded, Inserted, Claimed,
                    Claimable, InStatus
<1>4. ~Concluded(t)
  <2>1. SUFFICES ASSUME NEW q \in Process, pc[q] \in {"fail", "ack"}, Finish(q), Target(q) = t
                 PROVE  FALSE
    BY DEF Concluded
  <2>2. InFlight(q) /\ Busy(q)
    BY <2>1 DEF InFlight, Busy
  <2>3. q = p
    BY <2>1, <2>2 DEF SafeCalls, CallsApart
  <2>4. ~InFlight(q)'
    BY <2>1, <2>2, FinishType
  <2>5. QED BY <2>3, <2>4
<1>5. QED BY <1>1, <1>3, <1>4, StepMoves DEF RowMove

LEMMA ClockWithinLease ==
    ASSUME TypeOK, [Next]_vars, LeaseCoversSend, NEW p \in Process, InFlight(p), Secure(p)
    PROVE  clock' < work[p].now + SendingLease
<1>1. CASE clock' = clock
  BY <1>1 DEF Secure
<1>2. CASE Tick
  BY <1>2 DEF Tick
<1>3. QED
  BY <1>1, <1>2 DEF Next, vars, ProcessStep, Construct, Drain, ClaimRefused, Claim, Send,
     ReadBack, RecordFailure, RecordAck, Crash, Enqueue, Resume

LEMMA SecureStep ==
    ASSUME TypeOK, SafeCalls, [Next]_vars, LeaseCoversSend
    PROVE  CallsSecure' /\ CallsApart'
<1>1. ASSUME NEW p \in Process, Claim(p)
      PROVE  /\ Secure(p)' /\ Target(p)' = Target(p)
             /\ \A q \in Process : q # p /\ InFlight(q) => Target(q) # Target(p)
  <2> DEFINE t == Target(p)
  <2>1. /\ t \in Row /\ Exists(t) /\ Claimable(t) /\ clock \in Nat
        /\ row[t].attempts \in Nat /\ row \in Table
    BY <1>1, ClaimEffect, ExistingRow DEF TypeOK, Table
  <2>2. row'[t] = [status |-> "sending", attempts |-> row[t].attempts + 1,
                   next |-> row[t].next, created |-> row[t].created, updated |-> clock]
        /\ row' \in Table
    BY <1>1, <2>1, ClaimEffect DEF Table
  <2>3. work'[p] = [todo |-> work[p].todo, now |-> clock, attempts |-> row[t].attempts + 1]
    BY <1>1, ClaimEffect DEF TypeOK
  <2>4. Target(p)' = t
    BY <2>3 DEF Target
  <2>5. clock' = clock
    BY <1>1 DEF Claim
  <2>6. row'[t] # NoRow
    <3>1. /\ row[t].next \in Nat /\ row[t].created \in Nat
      BY <2>1, ExistingRow
    <3>2. row'[t] \in RowRecord
      BY <2>1, <2>2, <3>1 DEF RowRecord, Status
    <3>3. QED BY <3>2, NumbersType
  <2>7. clock' < work'[p].now + SendingLease
    BY <2>1, <2>3, <2>5, NumbersType
  <2>8. Secure(p)'
    <3>1. row'[t].status = "sending" /\ row'[t].updated = clock
          /\ row'[t].attempts = row[t].attempts + 1
      BY <2>2
    <3>2. work'[p].now = clock /\ work'[p].attempts = row[t].attempts + 1
      BY <2>3
    <3>3. QED BY <2>4, <2>6, <2>7, <3>1, <3>2 DEF Secure, InStatus, Exists
  <2>9. QED
    BY <2>1, <2>4, <2>8 DEF SafeCalls, CallsSecure, Secure, Claimable, InStatus
<1>2. ASSUME NEW p \in Process, InFlight(p)', Carries(p) PROVE Secure(p)'
  <2>1. InFlight(p) /\ Secure(p)
    BY <1>2 DEF Carries, SafeCalls, CallsSecure
  <2>2. row'[Target(p)] = row[Target(p)]
    BY <1>2, <2>1, CallRowKept DEF Kept
  <2>3. clock' < work[p].now + SendingLease
    BY <2>1, ClockWithinLease
  <2>4. QED BY <1>2, <2>1, <2>2, <2>3 DEF Carries, Secure, InStatus, Exists
<1>3. CallsSecure'
  BY <1>1, <1>2, CallOrigin DEF CallsSecure, InFlight
<1>4. ASSUME NEW p \in Process, NEW q \in Process, p # q, InFlight(p)', InFlight(q)',
             Claim(p)
      PROVE  Target(p)' # Target(q)'
  <2>1. ~Claim(q)
    <3>1. SUFFICES ASSUME Claim(q) PROVE FALSE
      OBVIOUS
    <3>2. pc' = [pc EXCEPT ![p] = "send"] /\ pc' = [pc EXCEPT ![q] = "send"]
          /\ pc[p] = "claim" /\ pc[q] = "claim"
      BY <1>4, <3>1, ClaimEffect DEF Claim
    <3>3. QED BY <1>4, <3>2 DEF TypeOK
  <2>2. Carries(q)
    BY <1>4, <2>1, CallOrigin
  <2>3. QED BY <1>1, <1>4, <2>2 DEF Carries
<1>5. CallsApart'
  <2> SUFFICES ASSUME NEW p \in Process, NEW q \in Process, p # q, InFlight(p)', InFlight(q)'
               PROVE  Target(p)' # Target(q)'
    BY DEF CallsApart, InFlight, Target
  <2>1. CASE Claim(p) \/ Claim(q)
    BY <1>4, <2>1
  <2>2. CASE Carries(p) /\ Carries(q)
    BY <2>2 DEF Carries, SafeCalls, CallsApart
  <2>3. QED BY <2>1, <2>2, CallOrigin
<1>6. QED BY <1>3, <1>5

LEMMA SafeCallsInvariant == ASSUME LeaseCoversSend PROVE Spec => []SafeCalls
<1>1. Init => CallsSecure /\ CallsApart
  BY DEF Init, CallsSecure, CallsApart, InFlight
<1>2. TypeOK /\ UniqueLive /\ CallsSecure /\ CallsApart /\ [Next]_vars
      => CallsSecure' /\ CallsApart'
  BY SecureStep DEF SafeCalls
<1>3. CallsSecure /\ CallsApart /\ UniqueLive => SafeCalls
  BY DEF SafeCalls
<1>4. QED BY <1>1, <1>2, <1>3, TypeCorrect, UniqueInvariant, PTL DEF Spec

\* Where no call outlasts the lease, an ACK stays on record until pruning deletes its
\* row: the best acked row of an intent survives the migration of any older schema, and
\* no late outcome overwrites it (_recover_stale_sending, _migrate_schema, claim, the
\* UPDATEs of an outcome).
THEOREM AcksStand == ASSUME LeaseCoversSend PROVE Spec => AckStands
<1> DEFINE Stands(k) == AckOnRecord(k) => \/ AckOnRecord(k)'
                                          \/ \E r \in RowsOf(k) : /\ InStatus(r, {"acked"})
                                                                  /\ ~Exists(r)'
<1>1. ASSUME TypeOK, SafeCalls, [Next]_vars, NEW k \in Intent PROVE Stands(k)
  <2> SUFFICES ASSUME AckOnRecord(k)
               PROVE  \E r \in RowsOf(k) : /\ InStatus(r, {"acked"})
                                           /\ InStatus(r, {"acked"})' \/ ~Exists(r)'
    BY DEF AckOnRecord, RowsOf
  <2> DEFINE db == Recover(row)
  <2>1. db \in Table /\ \A r \in Row : Requeues(r) \/ db[r] = row[r]
    BY <1>1, RecoverEffect
  <2>2. ASSUME NEW r \in Row
        PROVE  InStatus(r, {"acked"}) <=> db[r] # NoRow /\ db[r].status = "acked"
    <3>1. CASE Requeues(r)
      BY <3>1 DEF Requeues, InStatus
    <3>2. CASE db[r] = row[r]
      BY <3>2 DEF InStatus, Exists
    <3>3. QED BY <2>1, <3>1, <3>2
  <2>3. \E r \in RowsOf(k) : db[r] # NoRow /\ db[r].status = "acked"
    BY <2>2 DEF AckOnRecord, RowsOf
  <2>4. PICK r \in RowsOf(k) : db[r] # NoRow /\ db[r].status = "acked" /\ ~Beaten(db, r)
    BY <2>1, <2>3, BestAck
  <2>5. r \in Row /\ InStatus(r, {"acked"})
    BY <2>2, <2>4 DEF RowsOf
  <2>6. ~Requeued(r) /\ ~Superseded(r) /\ ~Inserted(r) /\ ~Claimed(r)
    BY <2>4, <2>5 DEF Requeued, Requeues, Superseded, Inserted, Claimed, Claimable, InStatus
  <2>7. ~Concluded(r)
    BY <1>1, <2>5 DEF Concluded, SafeCalls, CallsSecure, Secure, InFlight, InStatus
  <2>8. Kept(r) \/ Pruned(r)
    BY <1>1, <2>5, <2>6, <2>7, StepMoves DEF RowMove
  <2>9. QED BY <2>5, <2>8 DEF Kept, Pruned, InStatus, Exists
<1>2. TypeOK /\ SafeCalls /\ [Next]_vars => [\A k \in Intent : Stands(k)]_vars
  BY <1>1
<1>3. QED BY <1>2, TypeCorrect, SafeCallsInvariant, PTL DEF Spec, AckStands

-------------------------------------------------------------------------------
(* The calls begun for a row stay near the limit.                          *)

\* No intent has two rows, and none is superseded: what this version leaves in a
\* database that no older schema wrote.
Sole == /\ \A r, s \in Row : Exists(r) /\ Exists(s) /\ IntentOf[r] = IntentOf[s] => r = s
        /\ \A r \in Row : ~InStatus(r, {"superseded"})

\* Such a database, whose unfinished rows have a try left.
TriesLeftIn(db) ==
    /\ \A r, s \in Row : db[r] # NoRow /\ db[s] # NoRow /\ IntentOf[r] = IntentOf[s] => r = s
    /\ \A r \in Row : db[r] # NoRow =>
         /\ db[r].status # "superseded" /\ db[r].attempts =< MaxAttempts
         /\ db[r].status \in Waiting \cup {"sending"} => db[r].attempts < MaxAttempts

OnCall(r) == \E p \in Process : InFlight(p) /\ Target(p) = r

\* A row that may be claimed again, now or after a recovery, has a try left or the try
\* that a crash gives it; only a call in progress may be the last one.
TriesLeft ==
    \A r \in Row : Exists(r) =>
      /\ row[r].attempts =< MaxAttempts + crashes
      /\ row[r].status \in Waiting => row[r].attempts < MaxAttempts + crashes
      /\ row[r].status = "sending" /\ ~OnCall(r) => row[r].attempts < MaxAttempts + crashes

LEMMA SoleNotBeaten ==
    ASSUME TypeOK, Sole, NEW r \in Row
    PROVE  ~Superseded(r)
<1>1. \A s \in Row : Recover(row)[s] # NoRow => Exists(s)
  BY RecoverEffect DEF Requeues, InStatus, Exists
<1>2. QED BY <1>1 DEF Superseded, Beaten, RowsOf, Sole

LEMMA SoleStep == ASSUME TypeOK, Sole, SafeCalls, [Next]_vars PROVE Sole'
<1>1. ASSUME NEW r \in Row, Exists(r)' PROVE Exists(r) \/ Inserted(r)
  <2>1. Kept(r) => Exists(r)
    BY <1>1 DEF Kept, Exists
  <2>2. QED
    BY <1>1, <2>1, StepMoves
       DEF RowMove, Requeued, Requeues, Pruned, Superseded, Claimed, Concluded, InStatus,
           Exists
<1>2. ASSUME NEW r \in Row, Inserted(r), NEW s \in Row, Exists(s), IntentOf[s] = IntentOf[r]
      PROVE  FALSE
  <2>1. ~Live(s)
    BY <1>2 DEF Inserted, LiveRows, RowsOf
  <2>2. QED BY <1>2, <2>1, ExistingRow DEF Sole, Live, InStatus
<1>3. ASSUME NEW r \in Row, NEW s \in Row, Exists(r)', Exists(s)', IntentOf[r] = IntentOf[s]
      PROVE  r = s
  <2>1. CASE Exists(r) /\ Exists(s)
    BY <1>3, <2>1 DEF Sole
  <2>2. CASE Inserted(r) /\ Inserted(s)
    BY <1>3, <2>2 DEF Inserted
  <2>3. QED BY <1>1, <1>2, <1>3, <2>1, <2>2
<1>4. ASSUME NEW r \in Row, InStatus(r, {"superseded"})' PROVE FALSE
  <2>1. row'[r] # NoRow /\ row'[r].status = "superseded"
    BY <1>4 DEF InStatus, Exists
  <2>2. ~Kept(r) /\ ~Superseded(r) /\ ~Pruned(r)
    BY <2>1, SoleNotBeaten DEF Kept, Pruned, Sole, InStatus, Exists
  <2>3. ~Requeued(r) /\ ~Inserted(r) /\ ~Claimed(r)
    BY <2>1 DEF Requeued, Requeues, Inserted, Claimed
  <2>4. ~Concluded(r)
    <3>1. SUFFICES ASSUME NEW p \in Process, pc[p] \in {"fail", "ack"}, Exists(Target(p)),
                          row'[r] = Outcome(p)
                   PROVE  FALSE
      BY DEF Concluded
    <3>2. QED BY <2>1, <3>1, OutcomeType
  <2>5. QED BY <2>2, <2>3, <2>4, StepMoves DEF RowMove
<1>5. QED BY <1>3, <1>4 DEF Sole, InStatus, Exists

CrashesBounded == crashes =< MaxCrashes

LEMMA CrashesStep ==
    ASSUME TypeOK, CrashesBounded, [Next]_vars
    PROVE  crashes' \in Nat /\ crashes' >= crashes /\ CrashesBounded'
<1>1. crashes \in Nat /\ MaxCrashes \in Nat
  BY NumbersType DEF TypeOK
<1>2. crashes' = crashes \/ (crashes < MaxCrashes /\ crashes' = crashes + 1)
  BY DEF Next, vars, Tick, ProcessStep, Construct, Drain, ClaimRefused, Claim, Send,
         ReadBack, RecordFailure, RecordAck, Crash, Enqueue, Resume, history
<1>3. QED BY <1>1, <1>2 DEF CrashesBounded

\* A call ends with its outcome, or with its process.
LEMMA CallEnds ==
    ASSUME TypeOK, [Next]_vars, NEW p \in Process, InFlight(p), ~InFlight(p)'
    PROVE  RecordFailure(p) \/ RecordAck(p) \/ crashes' = crashes + 1
<1>1. ~(UNCHANGED pc)
  BY DEF InFlight
<1>2. PICK q \in Process : ProcessStep(q)
  BY <1>1 DEF Next, vars, Tick
<1>3. CASE q # p
  <2>1. \E label : Goto(q, label)
    BY <1>2 DEF ProcessStep, Construct, Drain, ClaimRefused, Claim, Send, ReadBack,
                RecordFailure, RecordAck, Crash, Enqueue, Resume, Begin, Finish
  <2>2. QED BY <1>3, <2>1 DEF Goto, TypeOK, InFlight
<1>4. CASE q = p
  BY <1>2, <1>4 DEF ProcessStep, Construct, Drain, ClaimRefused, Claim, Send, ReadBack,
                    Crash, Enqueue, Resume, Goto, TypeOK, InFlight
<1>5. QED BY <1>3, <1>4

LEMMA TriesStep ==
    ASSUME TypeOK, SafeCalls, Sole, TriesLeft, CrashesBounded, [Next]_vars
    PROVE  TriesLeft'
<1> SUFFICES ASSUME NEW r \in Row, Exists(r)'
             PROVE  /\ row'[r].attempts =< MaxAttempts + crashes'
                    /\ row'[r].status \in Waiting =>
                         row'[r].attempts < MaxAttempts + crashes'
                    /\ row'[r].status = "sending" /\ ~OnCall(r)' =>
                         row'[r].attempts < MaxAttempts + crashes'
  BY DEF TriesLeft, Exists, OnCall
<1>1. /\ crashes \in Nat /\ crashes' \in Nat /\ crashes' >= crashes
      /\ MaxAttempts \in Nat /\ MaxAttempts >= 1
  BY CrashesStep, NumbersType DEF TypeOK
<1>2. Exists(r) =>
        /\ row[r].attempts \in Nat /\ row[r].attempts =< MaxAttempts + crashes
        /\ row[r].status \in Waiting => row[r].attempts < MaxAttempts + crashes
        /\ row[r].status = "sending" /\ ~OnCall(r) =>
             row[r].attempts < MaxAttempts + crashes
  BY ExistingRow DEF TriesLeft
<1>3. CASE Kept(r)
  <2>1. Exists(r) /\ row'[r] = row[r]
    BY <1>3 DEF Kept, Exists
  <2>2. ASSUME row[r].status = "sending", OnCall(r), ~OnCall(r)'
        PROVE  crashes' = crashes + 1
    <3>1. PICK p \in Process : InFlight(p) /\ Target(p) = r
      BY <2>2 DEF OnCall
    <3>2. ~InFlight(p)'
      <4>1. SUFFICES ASSUME InFlight(p)' PROVE FALSE
        OBVIOUS
      <4>2. ~Claim(p)
        BY <3>1 DEF Claim, InFlight
      <4>3. Target(p)' = r
        BY <3>1, <4>1, <4>2, CallOrigin DEF Carries
      <4>4. QED BY <2>2, <4>1, <4>3 DEF OnCall
    <3>3. ~RecordFailure(p) /\ ~RecordAck(p)
      <4>1. SUFFICES ASSUME RecordFailure(p) \/ RecordAck(p) PROVE FALSE
        OBVIOUS
      <4>2. pc[p] \in {"fail", "ack"} /\ ~Refused(r) /\ row' = [row EXCEPT ![r] = Outcome(p)]
        BY <2>1, <2>2, <3>1, <4>1, RecordEffect DEF Refused, InStatus
      <4>3. row'[r] = Outcome(p) /\ Outcome(p).status # "sending"
        BY <2>1, <3>1, <4>2, OutcomeType DEF TypeOK
      <4>4. QED BY <2>1, <2>2, <4>3
    <3>4. QED BY <3>1, <3>2, <3>3, CallEnds
  <2>3. QED BY <1>1, <1>2, <2>1, <2>2
<1>4. CASE Requeued(r)
  <2>1. /\ row'[r].status = "retry" /\ row'[r].attempts = row[r].attempts
        /\ Exists(r) /\ row[r].status = "sending"
        /\ row[r].updated + SendingLease =< clock
    BY <1>4 DEF Requeued, Requeues, InStatus
  <2>2. ~OnCall(r)
    <3>1. \A p \in Process : InFlight(p) => Secure(p)
      BY DEF SafeCalls, CallsSecure
    <3>2. row[r].updated \in Nat /\ clock \in Nat /\ SendingLease \in Nat
      BY <2>1, ExistingRow, NumbersType DEF TypeOK
    <3>3. QED BY <2>1, <3>1, <3>2 DEF OnCall, Secure
  <2>3. QED BY <1>1, <1>2, <2>1, <2>2
<1>5. CASE Inserted(r)
  <2>1. row'[r].attempts = 0 /\ row'[r].status = "pending"
    BY <1>5 DEF Inserted
  <2>2. PICK c \in Nat : c = crashes'
    BY <1>1
  <2>3. 0 < MaxAttempts + c /\ 0 =< MaxAttempts + c
    BY <1>1
  <2>4. QED BY <2>1, <2>2, <2>3
<1>6. CASE Claimed(r)
  <2>1. row[r].status \in Waiting /\ Exists(r)
    BY <1>6 DEF Claimed, Claimable, InStatus, Sole, Waiting
  <2>2. row'[r].attempts = row[r].attempts + 1 /\ row'[r].status = "sending"
    BY <1>6 DEF Claimed
  <2>3. OnCall(r)'
    <3>1. PICK p \in Process : Claim(p) /\ Target(p) = r
      BY <1>6 DEF Claimed
    <3>2. pc'[p] = "send" /\ work'[p].todo = work[p].todo
      BY <3>1, ClaimEffect DEF TypeOK
    <3>3. QED BY <3>1, <3>2 DEF OnCall, InFlight, Target
  <2>4. QED BY <1>1, <1>2, <2>1, <2>2, <2>3 DEF Waiting
<1>7. CASE Concluded(r)
  <2>1. PICK p \in Process : pc[p] \in {"fail", "ack"} /\ Target(p) = r /\ row'[r] = Outcome(p)
    BY <1>7 DEF Concluded
  <2>2. Exists(r) /\ row[r].attempts = work[p].attempts
    BY <1>7, <2>1 DEF Concluded, SafeCalls, CallsSecure, Secure, InFlight
  <2>3. /\ row'[r].attempts = row[r].attempts /\ row'[r].status # "sending"
        /\ row'[r].status \in Waiting => row[r].attempts < MaxAttempts
    BY <1>1, <1>2, <2>1, <2>2, OutcomeType DEF Waiting
  <2>4. QED BY <1>1, <1>2, <2>2, <2>3
<1>8. ~Pruned(r)
  BY DEF Pruned, Exists
<1>9. QED BY <1>3, <1>4, <1>5, <1>6, <1>7, <1>8, SoleNotBeaten, StepMoves DEF RowMove

LimitInv == Sole /\ TriesLeft /\ CrashesBounded

LEMMA LimitInvariant ==
    ASSUME LeaseCoversSend, \A db \in Databases : TriesLeftIn(db)
    PROVE  Spec => []LimitInv
<1>1. Init => LimitInv
  <2> SUFFICES ASSUME Init PROVE LimitInv
    OBVIOUS
  <2>1. TriesLeftIn(row) /\ TypeOK /\ crashes = 0
    BY InitType DEF Init, TypeInv
  <2>2. \A r \in Row : Exists(r) => row[r].attempts \in Nat
    BY <2>1, ExistingRow
  <2>3. Sole
    BY <2>1 DEF TriesLeftIn, Sole, InStatus, Exists
  <2>4. TriesLeft
    BY <2>1, <2>2, NumbersType DEF TriesLeftIn, TriesLeft, Exists
  <2>5. QED BY <2>1, <2>3, <2>4, NumbersType DEF LimitInv, CrashesBounded
<1>2. TypeOK /\ SafeCalls /\ LimitInv /\ [Next]_vars => LimitInv'
  BY SoleStep, TriesStep, CrashesStep DEF LimitInv
<1>3. QED BY <1>1, <1>2, TypeCorrect, SafeCallsInvariant, PTL DEF Spec

\* Where no call outlasts the lease, the calls begun for a row exceed max_attempts by no
\* more than the crashes: a row that waits has a try left, or one a crash has given it
\* (claim, RecordFailure's comparison with max_attempts, _recover_stale_sending).
THEOREM AttemptsStayNearLimit ==
    ASSUME LeaseCoversSend, \A db \in Databases : TriesLeftIn(db)
    PROVE  Spec => []AttemptsNearLimit
<1>1. LimitInv => AttemptsNearLimit
  BY DEF LimitInv, TriesLeft, AttemptsNearLimit
<1>2. QED BY <1>1, LimitInvariant, PTL

-------------------------------------------------------------------------------
(* An ACK is recorded only for what the remote side accepted.              *)

HonestAck == \A p \in Process : pc[p] = "ack" => IntentOf[Target(p)] \in accepted

\* Nothing is called accepted no longer, but an intent that is inserted again.
LEMMA AcceptedStep ==
    ASSUME TypeOK, [Next]_vars, NEW k \in Intent, k \in accepted, k \notin accepted'
    PROVE  Inserted(Canonical[k]) /\ Canonical[k] \in Row /\ IntentOf[Canonical[k]] = k
<1>1. PICK p \in Process : ProcessStep(p)
  BY DEF Next, vars, Tick, history
<1>2. PICK e \in Intent : Enqueue(p, e) /\ accepted' = accepted \ {e}
  BY <1>1 DEF ProcessStep, Construct, Drain, ClaimRefused, Claim, Send, ReadBack,
              RecordFailure, RecordAck, Crash, Enqueue, Resume, history
<1>3. e = k
  BY <1>2
<1>4. /\ LiveRows(k) = {} /\ ~Exists(Canonical[k])
      /\ row' = [row EXCEPT ![Canonical[k]] =
                   [status |-> "pending", attempts |-> 0, next |-> clock,
                    created |-> clock, updated |-> clock]]
  BY <1>2, <1>3 DEF Enqueue
<1>5. Canonical[k] \in Row /\ IntentOf[Canonical[k]] = k
  BY GroupAssumption
<1>6. QED BY <1>2, <1>3, <1>4, <1>5 DEF Inserted, TypeOK

LEMMA HonestStep ==
    ASSUME TypeOK, SafeCalls, HonestAck, [Next]_vars
    PROVE  HonestAck'
<1> SUFFICES ASSUME NEW p \in Process, pc'[p] = "ack"
             PROVE  IntentOf[Target(p)'] \in accepted'
  BY DEF HonestAck, Target
<1>1. Carries(p)
  <2>1. ~Claim(p)
    BY ClaimEffect DEF TypeOK
  <2>2. QED BY <2>1, CallOrigin DEF InFlight
<1>2. /\ InFlight(p) /\ Target(p)' = Target(p) /\ Secure(p)
      /\ Target(p) \in Row /\ IntentOf[Target(p)] \in Intent
  BY <1>1, TargetType, NumbersType DEF Carries, SafeCalls, CallsSecure, InFlight, Busy
<1>3. IntentOf[Target(p)] \in accepted \/ IntentOf[Target(p)] \in accepted'
  <2>1. CASE pc[p] = "ack"
    BY <2>1 DEF HonestAck
  <2>2. CASE pc[p] # "ack"
    <3>1. PICK q \in Process : ProcessStep(q)
      BY <2>2 DEF Next, vars, Tick
    <3>2. q = p
      <4>1. \E label : Goto(q, label)
        BY <2>2, <3>1 DEF ProcessStep, Construct, Drain, ClaimRefused, Claim, Send, ReadBack,
                     RecordFailure, RecordAck, Crash, Enqueue, Resume, Begin, Finish
      <4>2. QED BY <2>2, <4>1 DEF Goto, TypeOK
    <3>3. Send(p) /\ Goto(p, "ack")
      BY <2>2, <3>1, <3>2
         DEF ProcessStep, Construct, Drain, ClaimRefused, Claim, Send, ReadBack,
             RecordFailure, RecordAck, Crash, Enqueue, Resume, Begin, Finish, Goto, TypeOK
    <3>4. QED BY <3>3 DEF Send, Goto, TypeOK
  <2>3. QED BY <2>1, <2>2
<1>4. ASSUME NEW k \in Intent, k = IntentOf[Target(p)], k \in accepted, k \notin accepted'
      PROVE  FALSE
  <2>1. LiveRows(k) = {}
    BY <1>4, AcceptedStep DEF Inserted
  <2>2. Target(p) \in LiveRows(k)
    BY <1>2, <1>4 DEF LiveRows, RowsOf, Secure, Live, InStatus, Status
  <2>3. QED BY <2>1, <2>2
<1>5. QED BY <1>2, <1>3, <1>4

-------------------------------------------------------------------------------
(* The outbox keeps the delivery contract.                                 *)

TriedBeforeSending == \A r \in Row : InStatus(r, {"sending"}) => row[r].attempts > 0

LEMMA TriedStep == ASSUME TypeOK, Sole, TriedBeforeSending, [Next]_vars
                   PROVE  TriedBeforeSending'
<1> SUFFICES ASSUME NEW r \in Row, row'[r] # NoRow, row'[r].status = "sending"
             PROVE  row'[r].attempts > 0
  BY DEF TriedBeforeSending, InStatus, Exists
<1>1. CASE Kept(r)
  BY <1>1 DEF Kept, TriedBeforeSending, InStatus, Exists
<1>2. CASE Claimed(r)
  BY <1>2, ExistingRow DEF Claimed
<1>3. ~Requeued(r) /\ ~Pruned(r) /\ ~Inserted(r)
  BY DEF Requeued, Requeues, Pruned, Inserted
<1>4. ~Concluded(r)
  <2>1. SUFFICES ASSUME NEW p \in Process, pc[p] \in {"fail", "ack"}, Exists(Target(p)),
                        row'[r] = Outcome(p)
                 PROVE  FALSE
    BY DEF Concluded
  <2>2. QED BY <2>1, OutcomeType
<1>5. QED BY <1>1, <1>2, <1>3, <1>4, SoleNotBeaten, StepMoves DEF RowMove

ContractInv == LimitInv /\ HonestAck /\ TriedBeforeSending

FromScratch == Databases = {[r \in Row |-> NoRow]}

LEMMA ContractInvariant == ASSUME LeaseCoversSend, FromScratch PROVE Spec => []ContractInv
<1>1. \A db \in Databases : TriesLeftIn(db)
  BY DEF FromScratch, TriesLeftIn
<1>2. Init => HonestAck /\ TriedBeforeSending
  BY DEF Init, HonestAck, TriedBeforeSending, FromScratch, InStatus, Exists
<1>3. TypeOK /\ SafeCalls /\ LimitInv /\ HonestAck /\ TriedBeforeSending /\ [Next]_vars
      => HonestAck' /\ TriedBeforeSending'
  BY HonestStep, TriedStep DEF LimitInv
<1>4. Spec => []LimitInv
  BY <1>1, LimitInvariant
<1>5. QED
  BY <1>2, <1>3, <1>4, TypeCorrect, SafeCallsInvariant, PTL DEF Spec, ContractInv

\* What a reader sees of an intent that has a row, and of one that has none.
ReportsRow == \A k \in Intent, r \in Row :
    IntentOf[r] = k /\ Exists(r) =>
      /\ LiveRows(k) = {r}
      /\ Reported(k) = StatusName[row[r].status] /\ Tries(k) = row[r].attempts

ReportsNone == \A k \in Intent :
    (\A r \in Row : IntentOf[r] = k => ~Exists(r)) =>
      LiveRows(k) = {} /\ Reported(k) = "absent" /\ Tries(k) = 0

LEMMA SoleReport == TypeOK /\ Sole => ReportsRow /\ ReportsNone
<1>1. ASSUME TypeOK, Sole, NEW k \in Intent, NEW r \in Row, IntentOf[r] = k, Exists(r)
      PROVE  /\ LiveRows(k) = {r}
             /\ Reported(k) = StatusName[row[r].status] /\ Tries(k) = row[r].attempts
  <2>1. LiveRows(k) = {r}
    BY <1>1, ExistingRow DEF LiveRows, RowsOf, Sole, Live, InStatus
  <2>2. Speaker(k) = r
    BY <2>1 DEF Speaker
  <2>3. QED BY <2>1, <2>2 DEF Reported, Tries
<1>2. ReportsNone
  BY DEF ReportsNone, LiveRows, RowsOf, Live, InStatus, Reported, Tries
<1>3. QED BY <1>1, <1>2 DEF ReportsRow

\* The same of the state a step leads to.
LEMMA ReportAfter ==
    ASSUME TypeOK', Sole', NEW k \in Intent
    PROVE  /\ \A r \in Row : IntentOf[r] = k /\ row'[r] # NoRow =>
                /\ Reported(k)' = StatusName[row'[r].status]
                /\ Tries(k)' = row'[r].attempts
           /\ (\A r \in Row : IntentOf[r] = k => row'[r] = NoRow) =>
                Reported(k)' = "absent" /\ Tries(k)' = 0
<1>1. ReportsRow' /\ ReportsNone'
  BY SoleReport, PTL
<1>2. QED BY <1>1 DEF ReportsRow, ReportsNone, Exists

\* While an intent has its row, the row's move is the intent's.
LEMMA OutcomeKeepsContract ==
    ASSUME TypeOK, SafeCalls, ContractInv, TypeOK', Sole', [Next]_vars,
           NEW r \in Row, Concluded(r), NEW k \in Intent, IntentOf[r] = k
    PROVE  \/ Contract!Move(k)
           \/ /\ Reported(k)' = Reported(k) /\ Tries(k)' = Tries(k)
              /\ accepted' = accepted
<1>1. PICK p \in Process : /\ pc[p] \in {"fail", "ack"} /\ Target(p) = r
                           /\ row'[r] = Outcome(p) /\ Exists(r)
  BY DEF Concluded
<1>2. Secure(p)
  BY <1>1 DEF SafeCalls, CallsSecure, InFlight
<1>3. /\ Reported(k) = "queued" /\ Tries(k) = row[r].attempts /\ row[r].attempts > 0
      /\ row[r].attempts \in Nat
  BY <1>1, <1>2, SoleReport, ExistingRow
     DEF Secure, InStatus, ContractInv, LimitInv, TriedBeforeSending, StatusName, ReportsRow
<1>4. /\ row'[r] \in RowRecord /\ row'[r] # NoRow /\ row'[r].attempts = row[r].attempts
      /\ row'[r].status \in {"acked", "dead", "retry"}
      /\ row'[r].status = "acked" => k \in accepted
  BY <1>1, OutcomeType, NumbersType, GroupAssumption DEF ContractInv, HonestAck
<1>5. /\ Reported(k)' = StatusName[row'[r].status] /\ Tries(k)' = Tries(k)
      /\ accepted' = accepted
  BY <1>3, <1>4, ReportAfter DEF Concluded, history
<1>6. CASE row'[r].status = "retry"
  BY <1>3, <1>5, <1>6 DEF StatusName
<1>7. CASE row'[r].status = "dead"
  <2>1. Contract!GiveUp(k)
    BY <1>3, <1>5, <1>7 DEF Contract!GiveUp, Contract!Moves, StatusName
  <2>2. QED BY <2>1 DEF Contract!Move
<1>8. CASE row'[r].status = "acked"
  <2>1. k \in accepted /\ Reported(k)' = "acked"
    BY <1>4, <1>5, <1>8 DEF StatusName
  <2>2. /\ Reported(k) = "queued" /\ Tries(k)' = Tries(k)
        /\ (k \in accepted') = (k \in accepted)
    BY <1>3, <1>5
  <2>3. Contract!Acknowledge(k)
    BY <2>1, <2>2 DEF Contract!Acknowledge, Contract!Moves
  <2>4. QED BY <2>3 DEF Contract!Move
<1>9. QED BY <1>4, <1>6, <1>7, <1>8

LEMMA ClaimKeepsContract ==
    ASSUME TypeOK, SafeCalls, ContractInv, TypeOK', Sole', [Next]_vars,
           NEW r \in Row, Claimed(r), NEW k \in Intent, IntentOf[r] = k
    PROVE  Contract!Attempt(k)
<1>1. Exists(r) /\ row[r].status \in Waiting /\ Sole
  BY DEF Claimed, Claimable, InStatus, ContractInv, LimitInv, Sole, Waiting
<1>2. /\ row'[r].status = "sending" /\ row'[r].attempts = row[r].attempts + 1
      /\ row'[r] # NoRow
  <2>1. row'[r] \in RowRecord
    <3>1. row[r] \in RowRecord /\ clock \in Nat
      BY <1>1, ExistingRow DEF TypeOK
    <3>2. QED BY <3>1 DEF Claimed, RowRecord, Status
  <2>2. QED BY <2>1, GroupAssumption DEF Claimed
<1>3. /\ Reported(k) = "queued" /\ Tries(k) = row[r].attempts
      /\ Reported(k)' = "queued" /\ Tries(k)' = row[r].attempts + 1
  BY <1>1, <1>2, SoleReport, ReportAfter DEF StatusName, Waiting, ReportsRow
<1>4. row[r].attempts < MaxAttempts + MaxCrashes
  <2>1. row[r].attempts < MaxAttempts + crashes
    BY <1>1 DEF ContractInv, LimitInv, TriesLeft
  <2>2. crashes =< MaxCrashes
    BY DEF ContractInv, LimitInv, CrashesBounded
  <2>3. /\ crashes \in Nat /\ MaxCrashes \in Nat /\ MaxAttempts \in Nat
        /\ row[r].attempts \in Nat
    BY <1>1, NumbersType, ExistingRow DEF TypeOK
  <2>4. QED BY <2>1, <2>2, <2>3
<1>5. accepted' = accepted
  BY DEF Claimed, history
<1>6. QED BY <1>3, <1>4, <1>5 DEF Contract!Attempt, Contract!Moves
LEMMA AcceptKeepsContract ==
    ASSUME NEW k \in Intent, Reported(k)' = Reported(k), Tries(k)' = Tries(k),
           k \in accepted => k \in accepted'
    PROVE  \/ Contract!Move(k)
           \/ UNCHANGED <<[e \in Intent |-> Reported(e)][k], [e \in Intent |-> Tries(e)][k],
                          [e \in Intent |-> e \in accepted][k]>>
<1>1. CASE k \in accepted'
  <2>1. Contract!Accept(k)
    BY <1>1 DEF Contract!Accept
  <2>2. QED BY <2>1 DEF Contract!Move
<1>2. CASE k \notin accepted' /\ k \notin accepted
  <2>1. (k \in accepted') = (k \in accepted)
    BY <1>2
  <2>2. QED BY <2>1
<1>3. QED BY <1>1, <1>2

LEMMA ContractStep ==
    ASSUME TypeOK, SafeCalls, ContractInv, TypeOK', Sole', [Next]_vars, NEW k \in Intent
    PROVE  \/ Contract!Move(k)
           \/ UNCHANGED <<[e \in Intent |-> Reported(e)][k], [e \in Intent |-> Tries(e)][k],
                          [e \in Intent |-> e \in accepted][k]>>
<1>1. Sole /\ ReportsRow /\ ReportsNone
  BY SoleReport DEF ContractInv, LimitInv
<1>2. Canonical[k] \in Row /\ IntentOf[Canonical[k]] = k
  BY GroupAssumption
<1>3. \A s \in Row : row'[s] # NoRow => Exists(s) \/ Inserted(s)
  <2>1. SUFFICES ASSUME NEW s \in Row, row'[s] # NoRow PROVE Exists(s) \/ Inserted(s)
    OBVIOUS
  <2>2. Kept(s) => Exists(s)
    BY <2>1 DEF Kept, Exists
  <2>3. QED
    BY <2>1, <2>2, StepMoves
       DEF RowMove, Requeued, Requeues, Pruned, Superseded, Claimed, Concluded, InStatus
<1>4. ASSUME NEW r \in Row, IntentOf[r] = k, Exists(r)
      PROVE  \/ Contract!Move(k)
             \/ UNCHANGED <<[e \in Intent |-> Reported(e)][k], [e \in Intent |-> Tries(e)][k],
                            [e \in Intent |-> e \in accepted][k]>>
  <2>1. /\ LiveRows(k) = {r} /\ Reported(k) = StatusName[row[r].status]
        /\ Tries(k) = row[r].attempts
    BY <1>1, <1>4 DEF ReportsRow
  <2>2. k \in accepted => k \in accepted'
    BY <2>1, <1>2, AcceptedStep DEF Inserted
  <2>3. CASE row'[r] # NoRow /\ row'[r].attempts = row[r].attempts
             /\ StatusName[row'[r].status] = StatusName[row[r].status]
    <3>1. Reported(k)' = Reported(k) /\ Tries(k)' = Tries(k)
      BY <1>4, <2>1, <2>3, ReportAfter
    <3>2. QED BY <2>2, <3>1, AcceptKeepsContract
  <2>4. CASE Kept(r)
    BY <1>4, <2>3, <2>4 DEF Kept, Exists
  <2>5. CASE Requeued(r)
    <3>1. row'[r] # NoRow /\ row'[r].attempts = row[r].attempts /\ row'[r].status = "retry"
          /\ row[r].status = "sending"
      <4>1. /\ row'[r].status = "retry" /\ row'[r].attempts = row[r].attempts
            /\ row[r].status = "sending"
            /\ row'[r] = [status |-> "retry", attempts |-> row[r].attempts, next |-> clock,
                          created |-> row[r].created, updated |-> clock]
        BY <2>5 DEF Requeued, Requeues, InStatus
      <4>2. clock \in Nat /\ row[r].attempts \in Nat /\ row[r].created \in Nat
        BY <1>4, ExistingRow DEF TypeOK
      <4>3. row'[r] \in RowRecord
        BY <4>1, <4>2 DEF RowRecord, Status
      <4>4. QED BY <4>1, <4>3, GroupAssumption
    <3>2. QED BY <2>3, <3>1 DEF StatusName
  <2>6. CASE Pruned(r)
    <3>1. \A s \in Row : IntentOf[s] = k => row'[s] = NoRow
      <4>1. SUFFICES ASSUME NEW s \in Row, IntentOf[s] = k, row'[s] # NoRow PROVE FALSE
        OBVIOUS
      <4>2. ~Inserted(s)
        BY <2>1, <4>1 DEF Inserted
      <4>3. s = r
        BY <1>1, <1>3, <1>4, <4>1, <4>2 DEF Sole
      <4>4. QED BY <2>6, <4>1, <4>3 DEF Pruned
    <3>2. Reported(k)' = "absent" /\ Tries(k)' = 0
      BY <3>1, ReportAfter
    <3>3. Reported(k) \in {"acked", "dead"}
      BY <1>1, <1>4, <2>1, <2>6 DEF Pruned, InStatus, Terminal, StatusName, Sole
    <3>4. (k \in accepted') = (k \in accepted)
      BY <2>6 DEF Pruned, history
    <3>5. Contract!Forget(k)
      BY <3>2, <3>3, <3>4 DEF Contract!Forget, Contract!Moves
    <3>6. QED BY <3>5 DEF Contract!Move
  <2>7. CASE Claimed(r)
    BY <1>4, <2>7, ClaimKeepsContract DEF Contract!Move
  <2>8. CASE Concluded(r)
    <3>1. CASE Contract!Move(k)
      BY <3>1
    <3>2. CASE Reported(k)' = Reported(k) /\ Tries(k)' = Tries(k)
      BY <2>2, <3>2, AcceptKeepsContract
    <3>3. QED BY <1>4, <2>8, <3>1, <3>2, OutcomeKeepsContract
  <2>9. ~Superseded(r) /\ ~Inserted(r)
    BY <1>1, <1>4, SoleNotBeaten DEF Inserted
  <2>10. QED BY <2>4, <2>5, <2>6, <2>7, <2>8, <2>9, StepMoves DEF RowMove
<1>5. ASSUME \A r \in Row : IntentOf[r] = k => ~Exists(r)
      PROVE  \/ Contract!Move(k)
             \/ UNCHANGED <<[e \in Intent |-> Reported(e)][k], [e \in Intent |-> Tries(e)][k],
                            [e \in Intent |-> e \in accepted][k]>>
  <2>1. LiveRows(k) = {} /\ Reported(k) = "absent" /\ Tries(k) = 0
    BY <1>1, <1>5 DEF ReportsNone
  <2>2. CASE \E r \in Row : IntentOf[r] = k /\ Inserted(r)
    <3>1. PICK r \in Row : IntentOf[r] = k /\ Inserted(r)
      BY <2>2
    <3>2. row'[r].status = "pending" /\ row'[r].attempts = 0 /\ k \notin accepted'
      BY <3>1 DEF Inserted
    <3>3. row'[r] # NoRow
      <4>1. row'[r] \in RowRecord
        BY <3>1 DEF Inserted, RowRecord, Status, TypeOK
      <4>2. QED BY <4>1, GroupAssumption
    <3>4. Reported(k)' = "queued" /\ Tries(k)' = 0
      BY <3>1, <3>2, <3>3, ReportAfter DEF StatusName
    <3>5. Contract!Request(k)
      BY <2>1, <3>2, <3>4 DEF Contract!Request, Contract!Moves
    <3>6. QED BY <3>5 DEF Contract!Move
  <2>3. CASE \A r \in Row : IntentOf[r] = k => ~Inserted(r)
    <3>1. \A r \in Row : IntentOf[r] = k => row'[r] = NoRow
      BY <1>3, <1>5, <2>3
    <3>2. Reported(k)' = Reported(k) /\ Tries(k)' = Tries(k)
      BY <2>1, <3>1, ReportAfter
    <3>3. k \in accepted => k \in accepted'
      BY <1>2, <2>3, AcceptedStep
    <3>4. QED BY <3>2, <3>3, AcceptKeepsContract
  <2>4. QED BY <2>2, <2>3
<1>6. QED BY <1>4, <1>5

\* From an empty database and with no call longer than the lease, the group outbox
\* implements DeliveryContract: an intent is acked only after the remote side accepted it,
\* set aside only after it was tried, forgotten only when it is final, and tried at most
\* max_attempts times and once more for each crash (group_delivery.py, the whole outbox).
THEOREM GroupKeepsContract == ASSUME LeaseCoversSend, FromScratch PROVE Spec => KeepsContract
<1>1. Init => Contract!ContractInit
  <2> SUFFICES ASSUME Init PROVE Contract!ContractInit
    OBVIOUS
  <2>1. \A r \in Row : ~Exists(r)
    BY DEF Init, FromScratch, Exists
  <2>2. \A k \in Intent : /\ Reported(k) = "absent" /\ Tries(k) = 0
                          /\ (k \in accepted) = FALSE
    BY <2>1 DEF Init, LiveRows, RowsOf, Live, InStatus, Reported, Tries
  <2>3. QED BY <2>2 DEF Contract!ContractInit
<1>2. TypeOK /\ SafeCalls /\ ContractInv /\ TypeOK' /\ Sole' /\ [Next]_vars
      => Contract!ContractNext
  <2> SUFFICES ASSUME TypeOK, SafeCalls, ContractInv, TypeOK', Sole', [Next]_vars,
                      NEW k \in Intent
               PROVE  \/ Contract!Move(k)
                      \/ UNCHANGED <<[e \in Intent |-> Reported(e)][k],
                                     [e \in Intent |-> Tries(e)][k],
                                     [e \in Intent |-> e \in accepted][k]>>
    BY DEF Contract!ContractNext
  <2>1. QED BY ContractStep
<1>3. ContractInv => Sole
  BY DEF ContractInv, LimitInv
<1>4. QED
  BY <1>1, <1>2, <1>3, TypeCorrect, SafeCallsInvariant, ContractInvariant, PTL
     DEF KeepsContract, Contract!ContractSpec, Spec
===============================================================================
