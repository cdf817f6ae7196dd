----------------------------- MODULE EngagePolicies -----------------------------
(***************************************************************************)
(* The policies of telegram_presence/engage.py, which turn the decider's   *)
(* answer for a batch of messages into the actions of one pass.  They are  *)
(* pure: a plan is a record, an answer a sequence of plans in the order of *)
(* the batch.  A message is its spool_seq, after coalescing.               *)
(***************************************************************************)
EXTENDS Integers, SequencesExt

CONSTANTS
    Rows,               \* bound: how many messages there are
    Direct,             \* those that mention the agent or reply to it
    Weighty,            \* those that ask a substantive or a truncated question
    Nameless,           \* those whose sender has no username, or is not in the roster
    AddressedPerCycle,  \* ENGAGE_ADDRESSED_REPLIES_PER_CYCLE
    DelegatesPerCycle,  \* DELEGATE_PER_CYCLE
    RememberPerCycle,   \* ENGAGE_REMEMBER_PER_CYCLE
    MaxWaits            \* ENGAGE_WAIT_MAX_ATTEMPTS

Row == 1..Rows

\* The numbers of a set in their order; the elements of a sequence at some places.
Ascending(S) ==
    [k \in 1..Cardinality(S) |-> CHOOSE n \in S : Cardinality({m \in S : m =< n}) = k]
Taken(s, places) == [k \in 1..Cardinality(places) |-> s[Ascending(places)[k]]]

ASSUME PolicyAssumption ==
    /\ Rows \in Nat \ {0}
    /\ Direct \subseteq Row /\ Weighty \subseteq Row /\ Nameless \subseteq Row
    /\ {AddressedPerCycle, DelegatesPerCycle, RememberPerCycle, MaxWaits} \subseteq Nat

Memory == {"remember", "remember_entity"}
Outward == {"reply", "delegate", "react", "notify_owner"}
Action == Outward \cup Memory \cup {"ignore", "wait"}

\* A text is empty, fits ENGAGE_MAX_REPLY_CHARS, or does not.  A decider may also write
\* one that fits, of which the host's sanitizer leaves nothing (a leaked thinking
\* header), or which no longer fits once its secrets are masked.
Text == {"none", "short", "long"}
Written == Text \cup {"hollow", "masked"}
Sanitized(text) ==
    CASE text = "hollow" -> "none" [] text = "masked" -> "long" [] OTHER -> text

\* What the decider says of one message; tome is self_is_addressee = "yes", memory is
\* the optional note that rides along.
Shape == [act: Action, want: {"yes", "no"}, text: Written,
          deep: BOOLEAN, memory: {"none", "sender", "entity"}, tome: BOOLEAN]
Plan == [row: Row, act: Action, want: {"yes", "no"}, text: Text,
         deep: BOOLEAN, memory: {"none", "sender", "entity"}, tome: BOOLEAN]

\* A plan holds the sanitized text ...
PlanOf(row, s) == [row |-> row, act |-> s.act, want |-> s.want, text |-> Sanitized(s.text),
                   deep |-> s.deep, memory |-> s.memory, tome |-> s.tome]

\* ... but what the social-read contract lets an item be is judged on the text as
\* written.  A batch's answer has one item per message.
Legal(s) ==
    /\ s.act = "ignore" => s.want = "no"
    /\ s.act \in Outward => s.want = "yes"
    /\ s.act = "reply" => s.text \in Written \ {"none", "long"}

\* Messages that demand an answer: a transport cue the decider confirms.
Demand(plans) == Direct \cap {p.row : p \in {q \in ToSet(plans) : q.tome}}

\* While proactive presence is paused only a demand may be acted upon.
WithinAutonomy(plans, demand, proactive) ==
    Taken(plans, {i \in DOMAIN plans : \/ proactive
                                       \/ plans[i].row \in demand
                                       \/ plans[i].act \notin Outward \cup Memory})
-------------------------------------------------------------------------------
(* Waiting: a lane may ask to see a batch again, a bounded number of times. *)

Waiting(plans) == {p.row : p \in {q \in ToSet(plans) : q.act = "wait"}}
NotWaiting(plans) == Taken(plans, {i \in DOMAIN plans : plans[i].act # "wait"})

\* A mutant of WaitCount: the anchor is compared the wrong way.
WaitCountBehind(lane, rows) == IF lane.anchor < Max(rows) THEN lane.waits + 1 ELSE 1

WaitCount(lane, rows) == IF lane.anchor = Max(rows) THEN lane.waits + 1 ELSE 1

\* The rows held back, and the lane's entry after the policy.
Held(plans, lane, rows) == IF WaitCount(lane, rows) < MaxWaits THEN Waiting(plans) ELSE {}
AfterWait(plans, lane, rows) ==
    IF Held(plans, lane, rows) = {}
    THEN [lane EXCEPT !.anchor = 0, !.waits = 0]
    ELSE [lane EXCEPT !.anchor = Max(rows), !.waits = WaitCount(lane, rows)]
-------------------------------------------------------------------------------
(* Memory side effects and depth.                                           *)

NoteOf(p) == IF p.memory = "sender" THEN "remember" ELSE "remember_entity"
Companion(p) == [p EXCEPT !.act = NoteOf(p), !.text = "none", !.memory = "none"]
Noted(p) == p.memory # "none" /\ p.act # NoteOf(p)

\* Each plan, followed by its companion if it has one.
WithMemory(plans) ==
    LET both == [i \in 1..2 * Len(plans) |-> IF i % 2 = 1 THEN plans[(i + 1) \div 2]
                                             ELSE Companion(plans[i \div 2])]
    IN  Taken(both, {i \in DOMAIN both : i % 2 = 1 \/ Noted(plans[i \div 2])})

\* No action without desire; a deep or weighty reply goes to the delegate composer.
Deepened(p, demand) ==
    IF p.act = "reply" /\ (p.deep \/ p.row \in demand \cap Weighty)
    THEN [p EXCEPT !.act = "delegate"] ELSE p
AtDepth(plans, demand) ==
    LET wanted == Taken(plans, {i \in DOMAIN plans :
                                  plans[i].act \in Outward => plans[i].want = "yes"})
    IN  [i \in DOMAIN wanted |-> Deepened(wanted[i], demand)]

\* All policies over the valid answer for one batch of a lane.
Decided(plans, lane, rows, proactive) ==
    LET demand == Demand(plans)
        allowed == NotWaiting(WithinAutonomy(plans, demand, proactive))
    IN  AtDepth(WithMemory(allowed), demand)
-------------------------------------------------------------------------------
(* Ceilings of one pass.                                                    *)

Count(plans, acts) == Cardinality({i \in DOMAIN plans : plans[i].act \in acts})

\* Replies admitted so far of the class p belongs to.
Rivals(out, p, demand) ==
    Cardinality({i \in DOMAIN out : /\ out[i].act = "reply"
                                    /\ out[i].row \in demand <=> p.row \in demand})
ReplyRoom(out, p, demand) ==
    Rivals(out, p, demand) < IF p.row \in demand THEN AddressedPerCycle ELSE 1

Admitted(acc, p) == [acc EXCEPT !.out = Append(@, p)]
Deferred(acc, p) == [acc EXCEPT !.deferred = @ \cup {p.row}]
\* History: the messages whose reply is refused for its text, which nobody defers.
Refused(acc, p) == [acc EXCEPT !.refused = @ \cup {p.row}]

AdmitReply(acc, p, demand) ==
    IF p.text # "short" THEN Refused(acc, p)
    ELSE IF ReplyRoom(acc.out, p, demand) THEN Admitted(acc, [p EXCEPT !.act = "reply"])
    ELSE Deferred(acc, p)

AdmitMemory(acc, p) ==
    IF Count(acc.out, Memory) < RememberPerCycle THEN Admitted(acc, p) ELSE Deferred(acc, p)

\* Above the delegate ceiling the draft stands in for the composed answer.
AdmitDelegate(acc, p, demand) ==
    IF Count(acc.out, {"delegate"}) < DelegatesPerCycle THEN Admitted(acc, p)
    ELSE IF p.text = "none" THEN Deferred(acc, p)
    ELSE AdmitReply(acc, p, demand)

AdmitOne(acc, p, demand) ==
    CASE p.act \in {"ignore", "wait"}         -> acc
      [] p.act = "reply"                      -> AdmitReply(acc, p, demand)
      [] p.act = "delegate"                   -> AdmitDelegate(acc, p, demand)
      [] p.act \in Memory                     -> AdmitMemory(acc, p)
      [] p.act \in {"react", "notify_owner"}  -> Admitted(acc, p)

Admit(plans, demand) ==
    LET after[n \in 0..Len(plans)] ==
          IF n = 0 THEN [out |-> <<>>, deferred |-> {}, refused |-> {}]
          ELSE AdmitOne(after[n - 1], plans[n], demand)
    IN  after[Len(plans)]

\* Delegates become replies; a failed composer leaves the draft, or the message
\* deferred when there is none.
Undrafted(out, failing) ==
    {p.row : p \in {q \in ToSet(out) : q.act = "delegate" /\ q.row \in failing
                                                         /\ q.text = "none"}}
Composed(out, failing) ==
    LET kept == Taken(out, {i \in DOMAIN out : out[i].act = "delegate"
                                                 => out[i].row \notin Undrafted(out, failing)})
    IN  [i \in DOMAIN kept |-> IF kept[i].act = "delegate"
                               THEN [kept[i] EXCEPT !.act = "reply", !.text = "short"]
                               ELSE kept[i]]
===============================================================================
