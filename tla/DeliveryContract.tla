--------------------------- MODULE DeliveryContract ---------------------------
(***************************************************************************)
(* What an outbox of this package promises about one delivery, whatever    *)
(* storage it uses: README.md ("The guarantee is at least once", "ACK      *)
(* never means merely queued", "attempt count is bounded") and SKILL.md    *)
(* ("ACK means transport success", "Retries are bounded").  Deliveries     *)
(* evolve independently; a step of an implementation may move several.     *)
(***************************************************************************)
EXTENDS Naturals, TLAPS

CONSTANTS Delivery,      \* the delivery intents
          MaxAttempts,   \* the most transport calls of one life of an intent
          Forgettable    \* the final statuses that retention may delete

VARIABLES status,        \* what the outbox reports about each intent
          tries,         \* the transport calls begun for it since (re)queueing
          accepted       \* the intents the remote side accepted since enqueue

contractVars == <<status, tries, accepted>>

Status == {"absent", "queued", "acked", "dead"}

ContractTypeOK ==
    /\ status \in [Delivery -> Status]
    /\ tries \in [Delivery -> Nat]
    /\ accepted \in [Delivery -> BOOLEAN]

ContractInit ==
    /\ status = [d \in Delivery |-> "absent"]
    /\ tries = [d \in Delivery |-> 0]
    /\ accepted = [d \in Delivery |-> FALSE]

-------------------------------------------------------------------------------
Moves(d, from, to) == status[d] = from /\ status'[d] = to

\* A new intent is persisted before any transport call.
Request(d) == /\ Moves(d, "absent", "queued")
              /\ tries'[d] = 0 /\ ~accepted'[d]

\* One more transport call is begun for a queued intent.
Attempt(d) == /\ Moves(d, "queued", "queued")
              /\ tries[d] < MaxAttempts /\ tries'[d] = tries[d] + 1
              /\ accepted'[d] = accepted[d]

\* The remote side accepts the message; it may do so late, or once more.
Accept(d) == /\ accepted'[d]
             /\ status'[d] = status[d] /\ tries'[d] = tries[d]

\* The intent is reported as delivered, only after the remote accepted it.
Acknowledge(d) == /\ Moves(d, "queued", "acked")
                  /\ accepted[d]
                  /\ tries'[d] = tries[d] /\ accepted'[d] = accepted[d]

\* The intent is set aside, never before it was attempted at least once.
GiveUp(d) == /\ Moves(d, "queued", "dead")
             /\ tries[d] > 0
             /\ tries'[d] = tries[d] /\ accepted'[d] = accepted[d]

\* An operator asks for a dead letter to be tried again.
Requeue(d) == /\ Moves(d, "dead", "queued")
              /\ tries'[d] = 0 /\ accepted'[d] = accepted[d]

\* Retention forgets an intent whose outcome is final, and no other.
Forget(d) == /\ \E final \in Forgettable \cap {"acked", "dead"} :
                  Moves(d, final, "absent")
             /\ tries'[d] = 0 /\ accepted'[d] = accepted[d]

Move(d) == \/ Request(d) \/ Attempt(d) \/ Accept(d) \/ Acknowledge(d)
           \/ GiveUp(d) \/ Requeue(d) \/ Forget(d)

ContractNext ==
    \A d \in Delivery : Move(d) \/ UNCHANGED <<status[d], tries[d], accepted[d]>>

ContractSpec == ContractInit /\ [][ContractNext]_contractVars

-------------------------------------------------------------------------------
\* "ACK means transport success": an intent reported delivered was accepted by
\* the remote side, and its transport calls never exceed the configured limit.
HonestAndBounded ==
    \A d \in Delivery : /\ status[d] = "acked" => accepted[d]
                        /\ tries[d] =< MaxAttempts
-------------------------------------------------------------------------------
\* HonestAndBounded with the range of the attempt count.
Kept(d) == /\ status[d] = "acked" => accepted[d]
           /\ tries[d] \in Nat /\ tries[d] =< MaxAttempts

LEMMA MoveKeeps ==
    ASSUME MaxAttempts \in Nat, NEW d \in Delivery, Kept(d), Move(d)
    PROVE  Kept(d)'
<1>1. CASE Request(d)
  BY <1>1 DEF Request, Moves, Kept
<1>2. CASE Attempt(d)
  BY <1>2 DEF Attempt, Moves, Kept
<1>3. CASE Accept(d)
  BY <1>3 DEF Accept, Kept
<1>4. CASE Acknowledge(d) \/ GiveUp(d)
  BY <1>4 DEF Acknowledge, GiveUp, Moves, Kept
<1>5. CASE Requeue(d) \/ Forget(d)
  BY <1>5 DEF Requeue, Forget, Moves, Kept
<1>6. QED BY <1>1, <1>2, <1>3, <1>4, <1>5 DEF Move

\* "ACK means transport success" and "attempt count is bounded" follow from the
\* contract alone, so every module that implements it has them.
THEOREM ContractHonest ==
    ASSUME MaxAttempts \in Nat
    PROVE  ContractSpec => []HonestAndBounded
<1> DEFINE Inv == \A d \in Delivery : Kept(d)
<1>1. ContractInit => Inv
  <2> SUFFICES ASSUME ContractInit, NEW d \in Delivery PROVE Kept(d)
    OBVIOUS
  <2>1. status[d] = "absent" /\ tries[d] = 0
    BY DEF ContractInit
  <2>2. QED BY <2>1 DEF Kept
<1>2. Inv /\ [ContractNext]_contractVars => Inv'
  <2> SUFFICES ASSUME Inv, [ContractNext]_contractVars, NEW d \in Delivery
               PROVE  Kept(d)'
    OBVIOUS
  <2>1. CASE Move(d)
    BY <2>1, MoveKeeps
  <2>2. CASE UNCHANGED <<status[d], tries[d], accepted[d]>>
    BY <2>2 DEF Kept
  <2>3. QED BY <2>1, <2>2 DEF ContractNext, contractVars
<1>3. Inv => HonestAndBounded
  BY DEF Kept, HonestAndBounded
<1>4. QED BY <1>1, <1>2, <1>3, PTL DEF ContractSpec
===============================================================================
