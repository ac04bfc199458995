--------------------------- MODULE AccountLedger ---------------------------
(***************************************************************************)
(* What the commissary account of a prisoner promises, whoever moves the   *)
(* money: the balance changes only together with ledger rows, the ledger   *)
(* is append-only, every row carries the running total it produced, no     *)
(* running total is ever negative, and no single amount passes the VND     *)
(* ceiling.  OrdersLedger is shown to implement this specification.        *)
(***************************************************************************)
EXTENDS Integers, Sequences

CONSTANTS
    Users,      \* prisoners
    OrderIds,   \* orders a ledger row may refer to
    MaxVnd,     \* ceiling of one amount (MAX_VND)
    None        \* the SQL NULL

VARIABLE account   \* prisoner -> [balance, ledger]

RowTypes == {"topup", "order_debit", "reversal"}

Rows == [type: RowTypes, amount: Int, after: Int, order: OrderIds \cup {None}]

Accounts == [balance: Int, ledger: Seq(Rows)]

NewAccount == [balance |-> 0, ledger |-> << >>]

\* The account after one more row, `delta` on top of the balance `base`.
Posted(acct, base, type, delta, order) ==
    [balance |-> base + delta,
     ledger  |-> Append(acct.ledger,
                        [type |-> type, amount |-> delta,
                         after |-> base + delta, order |-> order])]

Init == account = [u \in Users |-> NewAccount]

Credit(u) ==
    \E type \in {"topup", "reversal"}, amount \in 1..MaxVnd, o \in OrderIds \cup {None} :
        account' = [account EXCEPT ![u] =
                       Posted(account[u], account[u].balance, type, amount, o)]

Debit(u) ==
    \E amount \in 1..MaxVnd, o \in OrderIds :
        /\ amount <= account[u].balance
        /\ account' = [account EXCEPT ![u] =
                          Posted(account[u], account[u].balance, "order_debit", -amount, o)]

\* A replaced order: its total is given back and the new total taken, at once.
Replace(u) ==
    \E back, take \in 1..MaxVnd, old, new \in OrderIds :
        LET given == Posted(account[u], account[u].balance, "reversal", back, old)
        IN  /\ take <= given.balance
            /\ account' = [account EXCEPT ![u] =
                              Posted(given, given.balance, "order_debit", -take, new)]

Next ==
    /\ account' # account
    /\ \E u \in Users : Credit(u) \/ Debit(u) \/ Replace(u)

Spec == Init /\ [][Next]_account

\* A ledger l explains a balance b: each row's running total is the one
\* before it plus the row's amount, none is negative, and b is the last.
Explains(l, b) ==
    /\ \A i \in 1..Len(l) :
          /\ l[i].after = (IF i = 1 THEN 0 ELSE l[i - 1].after) + l[i].amount
          /\ l[i].after >= 0
    /\ b = IF Len(l) = 0 THEN 0 ELSE l[Len(l)].after
=============================================================================
