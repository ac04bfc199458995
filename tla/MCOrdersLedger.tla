--------------------------- MODULE MCOrdersLedger ---------------------------
(***************************************************************************)
(* A small instance of OrdersLedger for TLC.  u1 has the money; u2 is the  *)
(* prisoner of a second visitor's order, and the one whose number another  *)
(* prisoner's receipt may bear.                                            *)
(***************************************************************************)
EXTENDS OrdersLedger, TLC

CONSTANTS u1, u2, c1, c2, o1, o2, r1

EachOnce == {[i \in Items |-> 1]}

\* With an item that is given away, retired and moved to the other category:
\* its orders leave no ledger row, and only paper forms may still name it.
RetiringMenuRows ==
    {[price |-> 1, category |-> "food", active |-> TRUE],
     [price |-> 0, category |-> "essential", active |-> FALSE]}

Limits(n) == [a \in {"prisoner", "visitor"} |->
                 [k \in Categories |-> IF k = "food" THEN n ELSE None]]

TwoLimits == {Limits(3), Limits(1)}

AllIndexes == {"active_source", "active_scanned", "transfer_reference"}

\* One row changes, or every row is written, against the order of ids.
SomeEdits == {<<"item1">>, <<"item2">>, <<"item2", "item1">>}

\* One prisoner is written, or both are.
SomeSyncs == {<<u1>>, <<u2, u1>>}

\* Only u1 is topped up, while the ledger is empty.
OneTopup == [u \in Users |-> IF u = u1 THEN 1 ELSE 0]

\* Bounds: u2 stays, and has visitors only.
Bounds ==
    /\ active[u2]
    /\ \A c \in Clients : tx[c].user = u2 => ~Scanned(tx[c].route)

\* Only safety is checked, so requests are alike, and order ids.
Alike == Permutations(Clients) \cup Permutations(OrderIds)
=============================================================================
