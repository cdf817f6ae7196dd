------------------------------- MODULE MCHelpers -------------------------------
(* The three helpers of the cycle side by side: how a chat's messages become *)
(* candidates and scenes, the roster, one reply on its way out.  They share  *)
(* no state; part says which of them a behaviour is about.                   *)
EXTENDS Conversation, Roster, Sending

VARIABLE part

\* "ann" and "bob" talk on the main floor and in topic 1, which message 1 opens; the
\* clocks of the readers differ by 2.
Says(sender, topic, cue, reply, gap) ==
    [sender |-> sender, topic |-> topic, cue |-> cue, reply |-> reply, gap |-> gap]
Sayings == {
    Says("ann", 0, "none", FALSE, 1), Says("ann", 0, "name", FALSE, 1),
    Says("ann", 0, "reply", FALSE, 1), Says("ann", 0, "command", FALSE, 1),
    Says("ann", 1, "mention", FALSE, 1), Says("ann", 1, "none", TRUE, -2),
    Says("bob", 1, "none", FALSE, 1), Says("bob", 1, "none", TRUE, 1),
    Says("bob", 0, "other", FALSE, 9), Says("none", 1, "none", FALSE, 1) }

\* Up to three words, of half a chunk or more than one.
Replies == UNION {[1..n -> [len: {2, 5}, brk: {"word", "sentence", "paragraph"}]] : n \in 1..3}

Init == /\ ConversationInit /\ RosterInit /\ SendingInit
        /\ part \in {"conversation", "roster", "sending"}
        /\ part # "sending" => Len(text) = 1 /\ text[1] = [len |-> 2, brk |-> "word"]
                               /\ transport = "bot_api"
Next ==
    \/ /\ part = "conversation" /\ ConversationNext
       /\ UNCHANGED <<part, rosterVars, sendingVars>>
    \/ /\ part = "roster" /\ RosterNext
       /\ UNCHANGED <<part, spool, sendingVars>>
    \/ /\ part = "sending" /\ SendingNext
       /\ UNCHANGED <<part, spool, rosterVars>>

Spec == Init /\ [][Next]_<<part, spool, rosterVars, sendingVars>>
===============================================================================
