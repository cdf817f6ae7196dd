---------------------------- MODULE MCGroupDelivery ----------------------------
(* Instances of GroupDelivery: two processes over one database.            *)
EXTENDS GroupDelivery, TLC

CONSTANTS p1, p2

Symmetric == Permutations({p1, p2})

\* Each intent has the one row that enqueue gives it.
OwnIntentOf == [r \in Row |-> r]
OwnCanonical == [k \in Intent |-> k]

EmptyDatabase == {[r \in Row |-> NoRow]}

\* An older schema kept the rows 1 and 3 for the intent 1.
SharedIntentOf == [r \in Row |-> IF r = 3 THEN 1 ELSE r]

OldRow(status) ==
    [status |-> status, attempts |-> IF status = "pending" THEN 0 ELSE 1, next |-> 0,
     created |-> 0, updated |-> 0]

OldDatabases ==
    {db \in [Row -> {NoRow} \cup {OldRow(s) : s \in Status \ {"superseded"}}] :
        db[2] = NoRow}
===============================================================================
