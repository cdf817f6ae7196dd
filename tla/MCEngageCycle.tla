----------------------------- MODULE MCEngageCycle -----------------------------
(* Instances of EngageCycle: a chat "x" with two topics and a chat "y".     *)
EXTENDS EngageCycle, TLC

Served == <<"x", "y">>
Floors == {"a", "b", "c"}
Homes == [l \in Floors |-> IF l = "c" THEN "y" ELSE "x"]

\* What a decider may say, one shape of each kind.
Says(act, want, text) == [act |-> act, want |-> want, text |-> text, deep |-> FALSE,
                          memory |-> "none", tome |-> TRUE]
Ignore == Says("ignore", "no", "none")
Wait == Says("wait", "yes", "none")
Reply == Says("reply", "yes", "short")
Deep == Says("delegate", "yes", "none")
Notify == Says("notify_owner", "yes", "short")
React == Says("react", "yes", "none")
Remark == [Ignore EXCEPT !.memory = "sender"]
Note(s) == [s EXCEPT !.memory = "sender"]

Aside(s) == [s EXCEPT !.tome = FALSE]
Draft(s, text) == [s EXCEPT !.text = text]

Faults(n) == [f \in Fault |-> IF f \in n THEN 1 ELSE 0]
Case(floor, says, gate, faults) ==
    [floor |-> floor, says |-> says, gate |-> gate, faults |-> Faults(faults)]

\* Each case is about one hazard: two lanes with waits and failing composers; a lane
\* of several batches; a message behind the page; caps over two chats; the budget of
\* calls; a paused gate; each kind of fault; a moving scene; commands.
Cases == {
    Case(<<"a", "b">>, <<{Wait, Reply}, {Deep}>>, {TRUE}, {}),
    Case(<<"a", "a">>, <<{Reply}, {Ignore}>>, {TRUE}, {}),
    Case(<<"a", "a", "a">>, <<{Wait, Ignore}, {Ignore}, {Deep}>>, {TRUE}, {}),
    Case(<<"a", "c">>, <<{Aside(Reply)}, {Reply}>>, {TRUE}, {}),
    Case(<<"a", "b", "c">>, <<{Wait, Ignore}, {Ignore}, {Ignore}>>, {TRUE}, {}),
    Case(<<"a", "a">>, <<{Notify}, {Note(Reply)}>>, {TRUE, FALSE}, {"crash"}),
    Case(<<"a">>, <<{Notify, Note(Reply), Deep}>>, {TRUE}, {"other"}),
    Case(<<"a">>, <<{Notify, Draft(Reply, "hollow")}>>, {TRUE}, {"notify"}),
    Case(<<"a">>, <<{Notify, Reply}>>, {TRUE}, {"log", "save"}),
    Case(<<"a", "a">>, <<{Notify, React}, {Draft(Reply, "masked")}>>, {TRUE}, {"read"}),
    Case(<<"a", "b", "a">>, <<{Ignore}, {Note(React)}, {Ignore}>>, {TRUE, FALSE}, {}),
    Case(<<"a", "a">>, <<{Aside(Reply)}, {Reply}>>, {TRUE}, {"save"}),
    Case(<<"a", "b", "a", "b">>, <<{Ignore}, {Ignore}, {Ignore}, {Ignore}>>, {TRUE}, {}) }

\* Over the delegate ceiling a draft that is too long for a plain reply.
Overflow ==
    {Case(<<"a", "a">>, <<{Deep}, {Draft(Deep, "long")}>>, {TRUE}, {})}
===============================================================================
