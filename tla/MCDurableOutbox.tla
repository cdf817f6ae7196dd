---------------------------- MODULE MCDurableOutbox ----------------------------
(* Instances of DurableOutbox: two processes over one root.                *)
EXTENDS DurableOutbox, TLC

CONSTANTS w1, w2, l1, l2, l3

\* Both processes have a sender for every transport.
MCTransportOf == [d \in Delivery |-> "bot_api"]
MCRoutes == [w \in Worker |-> Transport]

\* Two transports; the second process also serves telethon, the first does not.
SplitTransportOf == [d \in Delivery |-> IF d = 1 THEN "bot_api" ELSE "telethon"]
SplitRoutes == [w \in Worker |-> IF w = w1 THEN {"bot_api"} ELSE Transport]

Symmetric == Permutations({w1, w2}) \cup Permutations({l1, l2, l3})
===============================================================================
