------------------------------ MODULE MCGroupInbox ------------------------------
(* Instances of GroupInbox: a poller and a client that gets events.        *)
EXTENDS GroupInbox, TLC

CONSTANTS bot, user

\* All updates are of one chat, or the last one is of another.
OneChat == [m \in Update |-> "a"]
TwoChats == [m \in Update |-> IF m < Updates THEN "a" ELSE "b"]
===============================================================================
