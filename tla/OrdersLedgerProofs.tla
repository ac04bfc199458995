------------------------- MODULE OrdersLedgerProofs -------------------------
(***************************************************************************)
(* Proofs about OrdersLedger, for every value of its constants: first the  *)
(* locks, the balances and the ledger as an AccountLedger, then the orders *)
(* and their place in the ledger.                                          *)
(***************************************************************************)
EXTENDS OrdersLedger, TLAPS, FiniteSetTheorems

-----------------------------------------------------------------------------
(* Operators *)

\* Prices and quantities are natural numbers, so a quote is.
LEMMA QuoteType ==
    ASSUME menu \in [Items -> MenuRows], NEW cart \in [Items -> Nat]
    PROVE  Quote(cart) \in [Categories -> Nat]
<1>1. \A i \in Items : menu[i].price \in Nat /\ cart[i] \in Nat
    BY MoneyAssumption
<1>2. \A m, n \in Nat : m * n \in Nat
    OBVIOUS
<1>3. \A i \in Items, k \in Categories : Line(i, cart, k) \in Nat
    BY <1>1, <1>2 DEF Line
<1>4. \A k \in Categories : Subtotal(cart, k) \in Nat
    BY <1>3 DEF Subtotal, Items
<1> QED
    BY <1>4 DEF Quote

\* The total a request is charged is a natural number.
LEMMA QuoteTotalType ==
    ASSUME NEW quote \in [Categories -> Nat]
    PROVE  QuoteTotal(quote) \in Nat
BY DEF QuoteTotal, Categories

\* A request that has not started, or was rolled back.
LEMMA IdleTxType == IdleTx \in Txs
BY DEF IdleTx, Txs, Pcs, LockKinds, Items, Categories

\* Replacing one request by a well-typed one keeps them all well typed.
LEMMA BecomesType ==
    ASSUME tx \in [Clients -> Txs], NEW c \in Clients, NEW t \in Txs, Becomes(c, t)
    PROVE  tx' \in [Clients -> Txs]
BY DEF Becomes

\* A request moved on, with more locks, is well typed.
LEMMA MovedType ==
    ASSUME NEW t \in Txs, NEW pc \in Pcs, NEW kinds \in SUBSET LockKinds
    PROVE  [t EXCEPT !.pc = pc, !.locks = @ \cup kinds] \in Txs
BY ZenonT(30) DEF Txs

\* So moving one request on keeps them all well typed.
LEMMA ProceedType ==
    ASSUME tx \in [Clients -> Txs], NEW c \in Clients,
           NEW pc \in Pcs, NEW kinds \in SUBSET LockKinds, Proceed(c, pc, kinds)
    PROVE  tx' \in [Clients -> Txs]
<1>1. [tx[c] EXCEPT !.pc = pc, !.locks = @ \cup kinds] \in Txs
    BY MovedType
<1> QED
    BY <1>1, BecomesType DEF Proceed

-----------------------------------------------------------------------------
(* Types *)

\* A row posted to an account (AccountsService.mutate) leaves an account.
LEMMA PostedType ==
    ASSUME NEW acct \in Ledger!Accounts, NEW read \in Int, NEW type \in Ledger!RowTypes,
           NEW delta \in Int, NEW o \in OrderIds \cup {None}
    PROVE  Mutate(acct, read, type, delta, o) \in Ledger!Accounts
<1>1. [type |-> type, amount |-> delta, after |-> read + delta, order |-> o] \in Ledger!Rows
    BY DEF Ledger!Rows
<1>2. Append(acct.ledger, [type |-> type, amount |-> delta,
                           after |-> read + delta, order |-> o]) \in Seq(Ledger!Rows)
    BY <1>1 DEF Ledger!Accounts
<1> QED
    BY <1>2 DEF Mutate, Ledger!Posted, Ledger!Accounts

\* What a replaced order gives back is its stored total, a natural number.
LEMMA RefundType ==
    ASSUME TypeOK, LockDiscipline, NEW c \in Clients
    PROVE  Refund(c) \in Nat
BY DEF TypeOK, LockDiscipline, CreatingInOrder, Refund, Exists, Orders, Txs

\* A reversal and a debit leave an account.
LEMMA SettledAccountType ==
    ASSUME TypeOK, LockDiscipline, NEW c \in Clients, tx[c].user \in Users
    PROVE  SettledAccount(c) \in Ledger!Accounts
<1>1. /\ account[tx[c].user] \in Ledger!Accounts /\ tx[c].read \in Int
      /\ tx[c].old \in OrderIds \cup {None} /\ tx[c].order \in OrderIds \cup {None}
      /\ tx[c].quote \in [Categories -> Nat]
    BY DEF TypeOK, Txs
<1>2. Refund(c) \in Int /\ -QuoteTotal(tx[c].quote) \in Int /\ tx[c].read + Refund(c) \in Int
    BY <1>1, RefundType, QuoteTotalType
<1>3. {"reversal", "order_debit"} \subseteq Ledger!RowTypes
    BY DEF Ledger!RowTypes
<1>4. Mutate(account[tx[c].user], tx[c].read, "reversal", Refund(c), tx[c].old)
          \in Ledger!Accounts
    BY <1>1, <1>2, <1>3, PostedType
<1> QED
    BY <1>1, <1>2, <1>3, <1>4, PostedType DEF SettledAccount

\* The row that createOrReplace inserts is an order.
LEMMA NewOrderType ==
    ASSUME TypeOK, LockDiscipline, NEW c \in Clients, Creating(c)
    PROVE  NewOrder(c) \in Orders
<1>1. tx[c].user \in Users /\ tx[c].date \in Dates /\ tx[c].route \in Routes
    BY DEF LockDiscipline, DrawnIdsAreNew
<1>2. Source(tx[c].route) \in ScannedSources \cup {"relative"}
    BY DEF Source, ScannedSources
<1>3. QuoteTotal(tx[c].quote) \in Nat
    BY QuoteTotalType DEF TypeOK, Txs
<1>4. tx[c].reported \in BOOLEAN
    BY DEF TypeOK, Txs
<1> QED
    BY <1>1, <1>2, <1>3, <1>4 DEF NewOrder, Orders

\* Edits, forms, limits and the sync touch no money, no order and no request.
LEMMA ConfigureMoves ==
    ASSUME Configure
    PROVE  UNCHANGED <<account, orders, tg8, tx>>
BY DEF Configure, OpenEdit, WriteItem, EditFails, GenerateForm, UpdateLimits, OpenSync,
       WriteUser, SyncFails

\* The first statement of a request only reads.
LEMMA OpenReads ==
    ASSUME NEW c \in Clients, Open(c)
    PROVE  ReadsOnly
<1>1. ASSUME NEW route, NEW u, NEW x, NEW d, NEW cart, NEW ack, NEW o,
             OpenConfirm(c, route, u, x, d, cart, ack, o)
      PROVE  ReadsOnly
    BY <1>1 DEF OpenConfirm, Request
<1>2. ASSUME NEW u, NEW d, NEW cart, NEW o, OpenRelative(c, u, d, cart, o)
      PROVE  ReadsOnly
    BY <1>2 DEF OpenRelative, Request
<1>3. ASSUME NEW u, NEW amount, OpenTopup(c, u, amount)
      PROVE  ReadsOnly
    BY <1>3 DEF OpenTopup
<1>4. ASSUME NEW o, NEW ref, NEW pc, LockPending(c, o, pc, ref)
      PROVE  ReadsOnly
    BY <1>4 DEF LockPending
<1> QED
    BY <1>1, <1>2, <1>3, <1>4 DEF Open, OpenAccept, OpenReject

\* Every statement and every edit keeps the tables and requests well typed.
LEMMA TypeStep ==
    ASSUME TypeOK, LockDiscipline, [Next]_vars
    PROVE  TypeOK'
<1> USE DEF TypeOK
<1>1. ASSUME NEW c \in Clients, Rollback(c)
      PROVE  TypeOK'
    BY <1>1, IdleTxType, BecomesType DEF Rollback, ReadsOnly, Catalogue
<1>2. ASSUME NEW c \in Clients, NEW pc \in Pcs, NEW kinds \in SUBSET LockKinds,
             Proceed(c, pc, kinds), ReadsOnly
      PROVE  TypeOK'
    BY <1>2, ProceedType DEF ReadsOnly, Catalogue
<1>3. ASSUME NEW c \in Clients, NEW t \in Txs, Becomes(c, t), ReadsOnly
      PROVE  TypeOK'
    BY <1>3, BecomesType DEF ReadsOnly, Catalogue
<1>4. {"open", "catalog", "account", "limited", "found"} \subseteq Pcs
      /\ {"exact", "catalog", "account", "policy"} \subseteq LockKinds
    BY DEF Pcs, LockKinds
<1>5. ASSUME NEW c \in Clients, Open(c)
      PROVE  TypeOK'
  <2>1. ASSUME NEW route \in Routes, NEW u \in Users, NEW x \in Users \cup {None},
               NEW d \in Dates, NEW cart \in Carts, NEW ack \in BOOLEAN, NEW o \in OrderIds,
               NEW kinds \in {{"user"}, {}}, Request(c, route, u, x, d, cart, ack, o, kinds)
        PROVE  TypeOK'
    <3>1. ASSUME NEW b \in BOOLEAN
          PROVE  [IdleTx EXCEPT
              !.pc = "open", !.route = route, !.user = u, !.exact = x, !.date = d,
              !.cart = cart, !.ack = ack, !.order = o, !.locks = kinds,
              !.reported = b] \in Txs
        BY IdleTxType, MoneyAssumption DEF Txs, Pcs, LockKinds
    <3>2. (route = "issued" /\ Actives(u, d, ScannedSources) # {}) \in BOOLEAN
        OBVIOUS
    <3>3. [IdleTx EXCEPT
              !.pc = "open", !.route = route, !.user = u, !.exact = x, !.date = d,
              !.cart = cart, !.ack = ack, !.order = o, !.locks = kinds,
              !.reported = (route = "issued" /\ Actives(u, d, ScannedSources) # {})] \in Txs
        BY <3>1, <3>2, Zenon
    <3> QED
        BY <2>1, <3>3, <1>3 DEF Request
  <2>2. ASSUME NEW u \in Users, NEW amount \in Topups, OpenTopup(c, u, amount)
        PROVE  TypeOK'
    <3>1. [IdleTx EXCEPT !.pc = "topup", !.user = u, !.amount = amount] \in Txs
        BY IdleTxType, MoneyAssumption DEF Txs, Pcs
    <3> QED
        BY <2>2, <3>1, <1>3 DEF OpenTopup
  <2>3. ASSUME NEW o \in OrderIds, NEW ref \in Refs \cup {None},
               NEW pc \in {"accepting", "rejecting"}, LockPending(c, o, pc, ref)
        PROVE  TypeOK'
    <3>1. [IdleTx EXCEPT !.pc = pc, !.order = o, !.ref = ref, !.locks = {"order"}] \in Txs
        BY IdleTxType DEF Txs, Pcs, LockKinds
    <3> QED
        BY <2>3, <3>1, <1>3 DEF LockPending
  <2> HIDE DEF TypeOK
  <2>4. ASSUME NEW route \in Routes, NEW u \in Users, NEW x \in Users \cup {None},
               NEW d \in Dates, NEW cart \in Carts, NEW ack \in BOOLEAN, NEW o \in OrderIds,
               OpenConfirm(c, route, u, x, d, cart, ack, o)
        PROVE  TypeOK'
    <3>1. Request(c, route, u, x, d, cart, ack, o, {"user"})
        BY <2>4 DEF OpenConfirm
    <3> QED
        BY <2>1, <3>1
  <2>5. CASE /\ "relative" \in Routes
             /\ \E u \in Users, d \in Dates, cart \in Carts, o \in OrderIds :
                   OpenRelative(c, u, d, cart, o)
      BY <2>5, <2>1 DEF OpenRelative
  <2>6. CASE \E o \in OrderIds, ref \in Refs \cup {None} : OpenAccept(c, o, ref)
      BY <2>6, <2>3 DEF OpenAccept
  <2>7. CASE \E o \in OrderIds : OpenReject(c, o)
      BY <2>7, <2>3 DEF OpenReject
  <2> QED
      BY <1>5, <2>2, <2>4, <2>5, <2>6, <2>7 DEF Open
<1>6. ASSUME NEW c \in Clients, Advance(c)
      PROVE  TypeOK'
  <2>0. tx[c] \in Txs
      OBVIOUS
  <2>1. CASE LockCatalog(c)
      BY <2>1, <1>1, <1>2, <1>4 DEF LockCatalog
  <2>2. CASE LockAccount(c)
      BY <2>2, <1>2, <1>4 DEF LockAccount
  <2>12. CASE LockExact(c)
      BY <2>12, <1>2, <1>4 DEF LockExact
  <2>13. CASE ShareItem(c)
    <3>1. tx[c].pc \in Pcs /\ \A i \in Items : {i} \in SUBSET LockKinds
        BY <2>0 DEF Txs, LockKinds
    <3> QED
        BY <2>13, <3>1, <1>2 DEF ShareItem
  <2>3. CASE ResolveMenu(c)
    <3>1. Quote(tx[c].cart) \in [Categories -> Nat]
        BY <2>0, QuoteType DEF Txs
    <3>2. [tx[c] EXCEPT !.pc = "priced", !.locks = @ \cup {"menu"},
                        !.quote = Quote(tx[c].cart)] \in Txs
        BY <2>0, <3>1 DEF Txs, Pcs, LockKinds
    <3> QED
        BY <2>3, <3>2, <1>1, <1>3 DEF ResolveMenu
  <2>4. CASE CheckLimits(c)
      BY <2>4, <1>1, <1>2, <1>4 DEF CheckLimits
  <2>5. CASE FindExisting(c)
    <3>1. \A o \in OrderIds : [tx[c] EXCEPT !.pc = "found", !.old = o] \in Txs
        BY <2>0 DEF Txs, Pcs
    <3>2. Existing(tx[c].user, tx[c].date, tx[c].route) \subseteq OrderIds
        BY DEF Existing, Actives
    <3> QED
        BY <2>5, <3>1, <3>2, <1>1, <1>2, <1>3, <1>4 DEF FindExisting
  <2>6. CASE Settle(c)
    <3>1. CASE Becomes(c, [tx[c] EXCEPT !.pc = "settled",
                                        !.read = account[tx[c].user].balance])
               /\ ReadsOnly /\ tx[c].pc = "found"
      <4>1. tx[c].user \in Users
          BY <3>1 DEF LockDiscipline, DrawnIdsAreNew, Creating, CreatingPcs
      <4>2. account[tx[c].user].balance \in Int
          BY <4>1 DEF Ledger!Accounts
      <4>3. [tx[c] EXCEPT !.pc = "settled", !.read = account[tx[c].user].balance] \in Txs
          BY <2>0, <4>2 DEF Txs, Pcs
      <4> QED
          BY <3>1, <4>3, <1>3
    <3> QED
        BY <2>6, <3>1, <1>1 DEF Settle
  <2>7. CASE CommitOrder(c)
    <3>1. CASE /\ Creating(c)
               /\ orders' = WithNewOrder(c)
               /\ account' = IF Scanned(tx[c].route)
                             THEN [account EXCEPT ![tx[c].user] = SettledAccount(c)]
                             ELSE account
               /\ Becomes(c, IdleTx)
               /\ UNCHANGED <<tg8, menu, policy, active, Catalogue>>
      <4>1. tx[c].user \in Users
          BY <3>1 DEF LockDiscipline, DrawnIdsAreNew
      <4>2. account' \in [Users -> Ledger!Accounts]
          BY <3>1, <4>1, SettledAccountType
      <4>3. tx[c].old # None => tx[c].old \in OrderIds /\ orders[tx[c].old] \in Orders
          BY <2>0 DEF LockDiscipline, CreatingInOrder, Exists, Txs
      <4>4. tx[c].old # None /\ tx[c].order \in OrderIds =>
                [orders[tx[c].old] EXCEPT !.status = "superseded", !.by = tx[c].order] \in Orders
          BY <4>3 DEF Orders
      <4>5. tx[c].order \in OrderIds
          BY <3>1 DEF LockDiscipline, DrawnIdsAreNew
      <4>6. \A o \in OrderIds : o = tx[c].old => o # None
          BY NoneAssumption
      <4>7. orders' \in [OrderIds -> Orders \cup {None}]
          BY <3>1, <4>3, <4>4, <4>5, <4>6, NewOrderType DEF WithNewOrder
      <4>8. tx' \in [Clients -> Txs]
          BY <3>1, IdleTxType, BecomesType
      <4> QED
          BY <3>1, <4>2, <4>7, <4>8 DEF Catalogue
    <3> QED
        BY <2>7, <3>1, <1>1 DEF CommitOrder, Creating, CreatingPcs
  <2>8. CASE LockTopup(c)
    <3>1. tx[c].user \in Users
        BY <2>8 DEF LockTopup, LockDiscipline, ReadIsFresh
    <3>2. account[tx[c].user].balance \in Int
        BY <3>1 DEF Ledger!Accounts
    <3>3. [tx[c] EXCEPT !.pc = "credited", !.locks = {"account"},
                        !.read = account[tx[c].user].balance] \in Txs
        BY <2>0, <3>2 DEF Txs, Pcs, LockKinds
    <3> QED
        BY <2>8, <3>3, <1>3 DEF LockTopup
  <2>9. CASE CommitTopup(c)
    <3>1. tx[c].user \in Users
        BY <2>9 DEF CommitTopup, LockDiscipline, ReadIsFresh
    <3>2. tx[c].read \in Int /\ tx[c].amount \in Int
        BY <2>0 DEF Txs
    <3>3. "topup" \in Ledger!RowTypes
        BY DEF Ledger!RowTypes
    <3>4. Mutate(account[tx[c].user], tx[c].read, "topup", tx[c].amount, None)
              \in Ledger!Accounts
        BY <3>1, <3>2, <3>3, PostedType
    <3>5. account' \in [Users -> Ledger!Accounts]
        BY <2>9, <3>1, <3>4 DEF CommitTopup
    <3>6. tx' \in [Clients -> Txs]
        BY <2>9, IdleTxType, BecomesType DEF CommitTopup
    <3> QED
        BY <2>9, <3>5, <3>6 DEF CommitTopup, Catalogue
  <2>10. CASE CommitAccept(c)
    <3>1. CASE /\ tx[c].pc = "accepting"
               /\ orders' = [orders EXCEPT ![tx[c].order].payment = "paid",
                                           ![tx[c].order].ref = tx[c].ref]
               /\ tg8' = [tg8 EXCEPT ![tx[c].order] = orders[tx[c].order].total]
               /\ Becomes(c, IdleTx)
               /\ UNCHANGED <<account, menu, policy, active, Catalogue>>
      <4>1. tx[c].order \in OrderIds /\ orders[tx[c].order] \in Orders
          BY <3>1 DEF LockDiscipline, CreatingInOrder, Exists
      <4>2. tx[c].ref \in Refs \cup {None}
          BY <2>0 DEF Txs
      <4>3. orders' \in [OrderIds -> Orders \cup {None}]
          BY <3>1, <4>1, <4>2 DEF Orders
      <4>4. tg8' \in [OrderIds -> Nat \cup {None}]
          BY <3>1, <4>1 DEF Orders
      <4>5. tx' \in [Clients -> Txs]
          BY <3>1, IdleTxType, BecomesType
      <4> QED
          BY <3>1, <4>3, <4>4, <4>5 DEF Catalogue
    <3> QED
        BY <2>10, <3>1, <1>1 DEF CommitAccept
  <2>11. CASE CommitReject(c)
    <3>1. tx[c].order \in OrderIds /\ orders[tx[c].order] \in Orders
        BY <2>11 DEF CommitReject, LockDiscipline, CreatingInOrder, Exists
    <3>2. orders' \in [OrderIds -> Orders \cup {None}]
        BY <2>11, <3>1 DEF CommitReject, Orders
    <3>3. tx' \in [Clients -> Txs]
        BY <2>11, IdleTxType, BecomesType DEF CommitReject
    <3> QED
        BY <2>11, <3>2, <3>3 DEF CommitReject, Catalogue
  <2> QED
      BY <1>6, <2>1, <2>2, <2>3, <2>4, <2>5, <2>6, <2>7, <2>8, <2>9, <2>10, <2>11,
         <2>12, <2>13 DEF Advance
<1>7. CASE Configure
  <2>1. NoBatch \in Batches(Edits) /\ NoBatch \in Batches(Syncs)
      BY DEF NoBatch, Batches
  <2>2. ASSUME NEW rows \in Edits, OpenEdit(rows)
        PROVE  TypeOK'
      BY <2>2 DEF OpenEdit, Batches
  <2>3. ASSUME NEW row \in MenuRows, WriteItem(row)
        PROVE  TypeOK'
    <3>1. menu' \in [Items -> MenuRows]
        BY <2>3 DEF WriteItem, Edited
    <3>2. edit' \in Batches(Edits)
        BY <2>1, <2>3 DEF WriteItem, Batches
    <3> QED
        BY <2>3, <3>1, <3>2 DEF WriteItem
  <2>4. ASSUME NEW rows, NEW to \in [Users -> BOOLEAN], Synced(rows, to)
        PROVE  active' \in [Users -> BOOLEAN]
      BY <2>4 DEF Synced
  <2>5. ASSUME NEW rows \in Syncs, NEW to \in [Users -> BOOLEAN], OpenSync(rows, to)
        PROVE  TypeOK'
    <3>1. active' \in [Users -> BOOLEAN]
        BY <2>4, <2>5 DEF OpenSync
    <3>2. sync' \in Batches(Syncs)
        BY <2>5 DEF OpenSync, Batches
    <3> QED
        BY <2>5, <3>1, <3>2 DEF OpenSync
  <2>6. ASSUME NEW to \in [Users -> BOOLEAN], WriteUser(to)
        PROVE  TypeOK'
    <3>1. active' \in [Users -> BOOLEAN]
        BY <2>4, <2>6 DEF WriteUser
    <3>2. sync' \in Batches(Syncs)
        BY <2>1, <2>6 DEF WriteUser, Batches
    <3> QED
        BY <2>6, <3>1, <3>2 DEF WriteUser
  <2>7. CASE \/ EditFails \/ GenerateForm \/ SyncFails
             \/ \E pol \in Policies : UpdateLimits(pol)
      BY <2>1, <2>7 DEF EditFails, GenerateForm, SyncFails, UpdateLimits, Catalogue
  <2> QED
      BY <1>7, <2>2, <2>3, <2>5, <2>6, <2>7 DEF Configure
<1>8. CASE UNCHANGED vars
    BY <1>8 DEF vars
<1> QED
    BY <1>1, <1>5, <1>6, <1>7, <1>8 DEF Next, Crash

-----------------------------------------------------------------------------
(* The lock discipline, request by request *)

RefundOf(t) == IF t.old = None THEN 0 ELSE orders[t.old].total

\* What LockDiscipline says of one request t.
GoodTx(t) ==
    /\ t.pc \in CreatingPcs =>
          /\ t.user \in Users /\ t.date \in Dates /\ t.route \in Routes
          /\ t.order \in OrderIds /\ ~Exists(t.order)
    /\ t.old # None => t.pc \in CreatingPcs /\ Exists(t.old)
    /\ t.pc = "catalog" => t.route = "scanner"
    /\ t.pc = "account" => Scanned(t.route)
    /\ t.pc = "settled" => Scanned(t.route)
    /\ (t.pc \in {"account", "priced", "limited", "found", "settled"} /\ Scanned(t.route))
          => "account" \in t.locks
    /\ t.pc \in {"accepting", "rejecting"} => t.order \in OrderIds /\ Exists(t.order)
    /\ t.pc = "settled" =>
          /\ t.read = account[t.user].balance
          /\ ValidAmount(RefundOf(t)) /\ ValidAmount(QuoteTotal(t.quote))
          /\ QuoteTotal(t.quote) > 0 => QuoteTotal(t.quote) <= t.read + RefundOf(t)
    /\ t.pc = "topup" => t.user \in Users /\ t.amount \in 1..MaxVnd
    /\ t.pc = "credited" =>
          /\ t.user \in Users /\ t.amount \in 1..MaxVnd
          /\ "account" \in t.locks
          /\ t.read = account[t.user].balance

DrawnOnce ==
    \A c, d \in Clients :
        Creating(c) /\ Creating(d) /\ tx[c].order = tx[d].order => c = d

\* LockDiscipline is the mutual exclusion of accounts, ids drawn once, and
\* one condition on each request taken alone.
LEMMA ByRequest ==
    LockDiscipline <=> AccountMutex /\ DrawnOnce /\ \A c \in Clients : GoodTx(tx[c])
BY DEF LockDiscipline, DrawnIdsAreNew, CreatingInOrder, ReadIsFresh, DrawnOnce, GoodTx,
       Creating, Refund, RefundOf

\* The same decomposition in the state after a step.
LEMMA ByRequestPrimed ==
    LockDiscipline' <=> AccountMutex' /\ DrawnOnce' /\ \A c \in Clients : GoodTx(tx[c])'
BY DEF LockDiscipline, DrawnIdsAreNew, CreatingInOrder, ReadIsFresh, DrawnOnce, GoodTx,
       Creating, Refund, RefundOf, Exists

\* A request that holds nothing is in good standing.
LEMMA IdleTxGood == GoodTx(IdleTx)
BY DEF GoodTx, IdleTx, CreatingPcs

\* A request that reads and locks keeps the discipline when its own new
\* state does, and the account lock it may take was free.
LEMMA QuietStep ==
    ASSUME TypeOK, LockDiscipline, NEW c \in Clients, NEW t \in Txs,
           ReadsOnly, Becomes(c, t), GoodTx(t),
           "account" \in t.locks =>
               HoldsAccount(c, t.user) \/ \A d \in Clients \ {c} : ~HoldsAccount(d, t.user),
           t.pc \in CreatingPcs =>
               \A d \in Clients \ {c} : Creating(d) => tx[d].order # t.order
    PROVE  LockDiscipline'
<1>1. /\ tx'[c] = t
      /\ \A d \in Clients \ {c} : tx'[d] = tx[d]
    BY DEF Becomes, TypeOK
<1>2. AccountMutex'
    BY <1>1 DEF LockDiscipline, AccountMutex, HoldsAccount
<1>3. DrawnOnce'
    BY <1>1, ByRequest DEF DrawnOnce, Creating
<1>4. \A d \in Clients : GoodTx(tx'[d])
    BY <1>1, ByRequest
<1>5. \A d \in Clients : GoodTx(tx[d])'
    BY <1>4 DEF GoodTx, ReadsOnly, RefundOf, Exists
<1> QED
    BY <1>2, <1>3, <1>5, ByRequestPrimed

\* A commit keeps it when it only adds the order it drew, never alters a
\* total, and moves a balance only under that account's lock.
LEMMA EndStep ==
    ASSUME TypeOK, LockDiscipline, NEW c \in Clients, Becomes(c, IdleTx),
           \A o \in OrderIds : Exists(o) => orders'[o] # None /\ orders'[o].total = orders[o].total,
           \A o \in OrderIds : orders'[o] # None => Exists(o) \/ (Creating(c) /\ o = tx[c].order),
           \A u \in Users : account'[u].balance = account[u].balance \/ HoldsAccount(c, u)
    PROVE  LockDiscipline'
<1>1. /\ tx'[c] = IdleTx
      /\ \A d \in Clients \ {c} : tx'[d] = tx[d]
    BY DEF Becomes, TypeOK
<1>2. AccountMutex'
    BY <1>1 DEF LockDiscipline, AccountMutex, HoldsAccount, IdleTx
<1>3. DrawnOnce'
    BY <1>1, ByRequest DEF DrawnOnce, Creating, IdleTx, CreatingPcs
<1>4. GoodTx(tx[c])'
    BY <1>1 DEF GoodTx, IdleTx, CreatingPcs
<1>5. ASSUME NEW d \in Clients \ {c}
      PROVE  GoodTx(tx[d])'
  <2>1. GoodTx(tx[d]) /\ tx[d] \in Txs
      BY ByRequest DEF TypeOK
  <2>2. d # c
      OBVIOUS
  <2>3. tx[d].order \in OrderIds /\ Creating(d) => orders'[tx[d].order] = None
      BY <2>1, <2>2, ByRequest DEF DrawnOnce, GoodTx, Creating
  <2>4. tx[d].old # None =>
            /\ tx[d].old \in OrderIds /\ Exists(tx[d].old)
            /\ orders'[tx[d].old] # None /\ orders'[tx[d].old].total = orders[tx[d].old].total
      BY <2>1 DEF GoodTx, Txs
  <2>5. RefundOf(tx[d])' = RefundOf(tx[d])
      BY <1>1, <2>2, <2>4 DEF RefundOf
  <2>6. tx[d].pc \in {"settled", "credited"} =>
            account'[tx[d].user].balance = account[tx[d].user].balance
    <3>1. tx[d].pc \in {"settled", "credited"} =>
              tx[d].user \in Users /\ HoldsAccount(d, tx[d].user)
        BY <2>1 DEF GoodTx, HoldsAccount, CreatingPcs
    <3> QED
        BY <2>2, <3>1 DEF LockDiscipline, AccountMutex
  <2>7. tx[d].pc \in {"accepting", "rejecting"} =>
            tx[d].order \in OrderIds /\ orders'[tx[d].order] # None
      BY <2>1 DEF GoodTx
  <2>8. tx'[d] = tx[d]
      BY <1>1
  <2> QED
      BY <2>1, <2>3, <2>4, <2>5, <2>6, <2>7, <2>8 DEF GoodTx, Creating, Exists
<1> QED
    BY <1>2, <1>3, <1>4, <1>5, ByRequestPrimed

\* Every statement and every edit keeps the lock discipline.
LEMMA DisciplineStep ==
    ASSUME TypeOK, LockDiscipline, [Next]_vars
    PROVE  LockDiscipline'
<1> USE DEF TypeOK
<1>1. \A c \in Clients : GoodTx(tx[c]) /\ tx[c] \in Txs
    BY ByRequest
<1>2. ASSUME NEW c \in Clients, Rollback(c)
      PROVE  LockDiscipline'
    BY <1>2, IdleTxType, IdleTxGood, QuietStep DEF Rollback, IdleTx, CreatingPcs
<1>3. ASSUME NEW c \in Clients, Open(c)
      PROVE  LockDiscipline'
  <2>1. ASSUME NEW route \in Routes, NEW u \in Users, NEW x \in Users \cup {None},
               NEW d \in Dates, NEW cart \in Carts, NEW ack \in BOOLEAN, NEW o \in OrderIds,
               NEW kinds \in {{"user"}, {}}, Request(c, route, u, x, d, cart, ack, o, kinds)
        PROVE  LockDiscipline'
    <3> DEFINE t == [IdleTx EXCEPT
              !.pc = "open", !.route = route, !.user = u, !.exact = x, !.date = d,
              !.cart = cart, !.ack = ack, !.order = o, !.locks = kinds,
              !.reported = (route = "issued" /\ Actives(u, d, ScannedSources) # {})]
    <3>1. TypeOK'
        BY TypeStep
    <3>2. tx' = [tx EXCEPT ![c] = t] /\ ReadsOnly /\ Fresh(o)
        BY <2>1 DEF Request, Becomes
    <3>3. t \in Txs
      <4>1. tx'[c] = t
          BY <3>2
      <4> QED
          BY <3>1, <4>1
    <3>4. /\ t.pc = "open" /\ t.user = u /\ t.date = d /\ t.route = route
          /\ t.order = o /\ t.old = None /\ t.locks = kinds
        BY DEF IdleTx
    <3>5. \A e \in Clients : tx[e].order # o
        BY <3>2 DEF Fresh
    <3>6. ~Exists(o)
        BY <3>2 DEF Fresh
    <3> HIDE DEF t
    <3>7. GoodTx(t)
        BY <3>4, <3>6 DEF GoodTx, CreatingPcs
    <3>8. Becomes(c, t)
        BY <3>2 DEF Becomes
    <3>9. "account" \notin t.locks
        BY <3>4
    <3>10. \A e \in Clients \ {c} : Creating(e) => tx[e].order # t.order
        BY <3>4, <3>5
    <3> QED
        BY <3>2, <3>3, <3>7, <3>8, <3>9, <3>10, QuietStep
  <2>2. ASSUME NEW u \in Users, NEW amount \in Topups, OpenTopup(c, u, amount)
        PROVE  LockDiscipline'
    <3> DEFINE t == [IdleTx EXCEPT !.pc = "topup", !.user = u, !.amount = amount]
    <3>1. t \in Txs
        BY IdleTxType, MoneyAssumption DEF Txs, Pcs
    <3>2. t.pc = "topup" /\ t.user = u /\ t.amount = amount /\ t.old = None /\ t.locks = {}
        BY DEF IdleTx
    <3>3. Becomes(c, t) /\ ReadsOnly /\ amount \in 1..MaxVnd
        BY <2>2, MoneyAssumption DEF OpenTopup, ValidAmount
    <3> HIDE DEF t
    <3>4. GoodTx(t)
        BY <3>2, <3>3 DEF GoodTx, CreatingPcs
    <3> QED
        BY <3>1, <3>2, <3>3, <3>4, QuietStep DEF CreatingPcs
  <2>3. ASSUME NEW o \in OrderIds, NEW ref \in Refs \cup {None},
               NEW pc \in {"accepting", "rejecting"}, LockPending(c, o, pc, ref)
        PROVE  LockDiscipline'
    <3> DEFINE t == [IdleTx EXCEPT !.pc = pc, !.order = o, !.ref = ref, !.locks = {"order"}]
    <3>1. t \in Txs
        BY IdleTxType DEF Txs, Pcs, LockKinds
    <3>2. t.pc = pc /\ t.order = o /\ t.old = None /\ t.locks = {"order"}
        BY DEF IdleTx
    <3>3. Becomes(c, t) /\ ReadsOnly /\ Exists(o)
        BY <2>3 DEF LockPending, Pending
    <3> HIDE DEF t
    <3>4. GoodTx(t)
        BY <3>2, <3>3 DEF GoodTx, CreatingPcs
    <3> QED
        BY <3>1, <3>2, <3>3, <3>4, QuietStep DEF CreatingPcs
  <2>4. CASE \E route \in Routes \cap ScannedRoutes, u \in Users, x \in Users \cup {None},
                d \in Dates, cart \in Carts, ack \in BOOLEAN, o \in OrderIds :
                OpenConfirm(c, route, u, x, d, cart, ack, o)
      BY <2>4, <2>1 DEF OpenConfirm
  <2>5. CASE /\ "relative" \in Routes
             /\ \E u \in Users, d \in Dates, cart \in Carts, o \in OrderIds :
                   OpenRelative(c, u, d, cart, o)
      BY <2>5, <2>1 DEF OpenRelative
  <2>6. CASE \E o \in OrderIds, ref \in Refs \cup {None} : OpenAccept(c, o, ref)
      BY <2>6, <2>3 DEF OpenAccept
  <2>7. CASE \E o \in OrderIds : OpenReject(c, o)
      BY <2>7, <2>3 DEF OpenReject
  <2> QED
      BY <1>3, <2>2, <2>4, <2>5, <2>6, <2>7 DEF Open
\* A statement of a request that keeps what it drew and, once had, the lock.
<1>4. ASSUME NEW c \in Clients, NEW t \in Txs, Creating(c), ReadsOnly, Becomes(c, t), GoodTx(t),
             t.user = tx[c].user, t.order = tx[c].order,
             "account" \in t.locks =>
                 \/ "account" \in tx[c].locks
                 \/ \A d \in Clients \ {c} : ~HoldsAccount(d, tx[c].user)
      PROVE  LockDiscipline'
  <2>1. \A d \in Clients \ {c} : Creating(d) => tx[d].order # t.order
      BY <1>4, ByRequest DEF DrawnOnce
  <2> QED
      BY <1>4, <2>1, QuietStep DEF HoldsAccount
<1>5. ASSUME NEW c \in Clients, NEW pc \in Pcs, NEW kinds \in SUBSET LockKinds,
             Creating(c), ReadsOnly, Proceed(c, pc, kinds),
             pc \in {"catalog", "account", "limited", "found"},
             pc = "catalog" => tx[c].route = "scanner",
             pc = "account" =>
                 /\ Scanned(tx[c].route) /\ "account" \in kinds
                 /\ \A d \in Clients \ {c} : ~HoldsAccount(d, tx[c].user),
             pc # "account" => "account" \notin kinds,
             pc \in {"limited", "found"} => tx[c].pc \in {"priced", "limited"}
      PROVE  LockDiscipline'
  <2> DEFINE t == [tx[c] EXCEPT !.pc = pc, !.locks = @ \cup kinds]
  <2>1. t \in Txs
      BY ONLY <1>1, MovedType, c \in Clients, pc \in Pcs, kinds \in SUBSET LockKinds
  <2>2. /\ t.pc = pc /\ t.locks = tx[c].locks \cup kinds
        /\ t.user = tx[c].user /\ t.order = tx[c].order /\ t.old = tx[c].old
        /\ t.date = tx[c].date /\ t.route = tx[c].route
      BY <1>1 DEF Txs
  <2>3. Becomes(c, t)
      BY <1>5 DEF Proceed
  <2> HIDE DEF t
  <2>4. GoodTx(t)
      BY <1>1, <1>5, <2>2 DEF GoodTx, CreatingPcs, Creating
  <2> QED
      BY <1>4, <1>5, <2>1, <2>2, <2>3, <2>4
\* A share lock more, and the same statement again.
<1>10. ASSUME NEW c \in Clients, NEW kinds \in SUBSET LockKinds, Creating(c), ReadsOnly,
              Proceed(c, tx[c].pc, kinds), "account" \notin kinds
       PROVE  LockDiscipline'
  <2> DEFINE t == [tx[c] EXCEPT !.pc = tx[c].pc, !.locks = @ \cup kinds]
  <2>0. tx[c] \in Txs /\ tx[c].pc \in Pcs
      BY <1>1 DEF Txs
  <2>1. t \in Txs
      BY <2>0, MovedType
  <2>2. /\ t.pc = tx[c].pc /\ t.locks = tx[c].locks \cup kinds
        /\ t.user = tx[c].user /\ t.order = tx[c].order /\ t.old = tx[c].old
        /\ t.date = tx[c].date /\ t.route = tx[c].route
        /\ t.read = tx[c].read /\ t.amount = tx[c].amount /\ t.quote = tx[c].quote
      BY <1>1 DEF Txs
  <2>3. Becomes(c, t)
      BY <1>10 DEF Proceed
  <2> HIDE DEF t
  <2>4. RefundOf(t) = RefundOf(tx[c])
      BY <2>2 DEF RefundOf
  <2>5. GoodTx(t)
      BY <1>1, <2>2, <2>4 DEF GoodTx
  <2> QED
      BY <1>4, <1>10, <2>1, <2>2, <2>3, <2>5
<1>6. ASSUME NEW c \in Clients, Advance(c)
      PROVE  LockDiscipline'
  <2>0. {"catalog", "account", "limited", "found"} \subseteq Pcs
        /\ {"exact", "catalog", "account", "policy"} \cup Items \subseteq LockKinds
      BY DEF Pcs, LockKinds
  <2>a. tx[c] \in Txs
      OBVIOUS
  <2>1. CASE LockCatalog(c)
      BY <2>0, <2>1, <1>2, <1>5 DEF LockCatalog, AtCatalog, Creating, CreatingPcs
  <2>12. CASE LockExact(c)
    <3>1. Creating(c) /\ tx[c].pc = "open"
        BY <2>12 DEF LockExact, AtExact, Creating, CreatingPcs
    <3>2. "account" \notin {"exact"} /\ {"exact"} \in SUBSET LockKinds
        BY <2>0
    <3> QED
        BY <2>12, <3>1, <3>2, <1>10 DEF LockExact
  <2>13. CASE ShareItem(c)
    <3>1. Creating(c)
        BY <2>13 DEF ShareItem, Shares, AtRows, Creating, CreatingPcs
    <3>2. \A i \in Items : "account" \notin {i} /\ {i} \in SUBSET LockKinds
        BY <2>0 DEF Items
    <3> QED
        BY <2>13, <3>1, <3>2, <1>10 DEF ShareItem
  <2>2. CASE LockAccount(c)
    <3>1. Scanned(tx[c].route) /\ Creating(c)
        BY <2>2, <1>1 DEF LockAccount, AtAccount, GoodTx, Scanned, ScannedRoutes, Creating,
                          CreatingPcs
    <3> QED
        BY <2>0, <2>2, <3>1, <1>5 DEF LockAccount
  <2>3. CASE ResolveMenu(c)
    <3> DEFINE t == [tx[c] EXCEPT !.pc = "priced", !.locks = @ \cup {"menu"},
                                  !.quote = Quote(tx[c].cart)]
    <3>1. CASE Becomes(c, t) /\ ReadsOnly
      <4>1. Quote(tx[c].cart) \in [Categories -> Nat]
          BY <1>1, QuoteType DEF Txs
      <4>2. t \in Txs
          BY <2>a, <4>1 DEF Txs, Pcs, LockKinds
      <4>3. /\ t.pc = "priced" /\ t.locks = tx[c].locks \cup {"menu"}
            /\ t.user = tx[c].user /\ t.order = tx[c].order /\ t.old = tx[c].old
            /\ t.date = tx[c].date /\ t.route = tx[c].route
          BY <1>1 DEF Txs
      <4> HIDE DEF t
      <4>4. Creating(c)
          BY <2>3 DEF ResolveMenu, AtRows, Creating, CreatingPcs
      <4>5. Scanned(tx[c].route) => tx[c].pc = "account"
          BY <2>3 DEF ResolveMenu, AtRows, Scanned, ScannedRoutes
      <4>6. GoodTx(t)
          BY <1>1, <4>3, <4>4, <4>5 DEF GoodTx, CreatingPcs, Creating
      <4>7. "account" \in t.locks => "account" \in tx[c].locks
          BY <4>3
      <4> QED
          BY <1>4, <3>1, <4>2, <4>3, <4>4, <4>6, <4>7
    <3> QED
        BY <2>3, <3>1, <1>2 DEF ResolveMenu
  <2>4. CASE CheckLimits(c)
      BY <2>0, <2>4, <1>2, <1>5 DEF CheckLimits, Creating, CreatingPcs
  <2>5. CASE FindExisting(c)
    <3>1. CASE Proceed(c, "found", {}) /\ ReadsOnly
      <4>1. tx[c].pc = "limited" /\ Creating(c)
          BY <2>5 DEF FindExisting, Creating, CreatingPcs
      <4> QED
          BY <2>0, <3>1, <4>1, <1>5
    <3>2. ASSUME NEW o \in Existing(tx[c].user, tx[c].date, tx[c].route),
                 Becomes(c, [tx[c] EXCEPT !.pc = "found", !.old = o]), ReadsOnly
          PROVE  LockDiscipline'
      <4> DEFINE t == [tx[c] EXCEPT !.pc = "found", !.old = o]
      <4>1. o \in OrderIds /\ Exists(o)
          BY DEF Existing, Actives
      <4>2. t \in Txs
          BY <2>a, <4>1 DEF Txs, Pcs
      <4>3. /\ t.pc = "found" /\ t.locks = tx[c].locks
            /\ t.user = tx[c].user /\ t.order = tx[c].order /\ t.old = o
            /\ t.date = tx[c].date /\ t.route = tx[c].route
          BY <1>1 DEF Txs
      <4>4. Becomes(c, t)
          BY <3>2
      <4> HIDE DEF t
      <4>5. Creating(c) /\ tx[c].pc = "limited"
          BY <2>5 DEF FindExisting, Creating, CreatingPcs
      <4>6. GoodTx(t)
          BY <1>1, <4>1, <4>3, <4>5 DEF GoodTx, CreatingPcs
      <4> QED
          BY <1>4, <3>2, <4>2, <4>3, <4>4, <4>5, <4>6
    <3> QED
        BY <2>5, <3>1, <3>2, <1>2 DEF FindExisting
  <2>6. CASE Settle(c)
    <3> DEFINE t == [tx[c] EXCEPT !.pc = "settled", !.read = account[tx[c].user].balance]
               total == QuoteTotal(tx[c].quote)
    <3>1. CASE /\ Becomes(c, t) /\ ReadsOnly
               /\ ValidAmount(total) /\ ValidAmount(Refund(c))
               /\ total = 0 \/ total <= account[tx[c].user].balance + Refund(c)
      <4>1. tx[c].pc = "found" /\ Scanned(tx[c].route) /\ Creating(c)
          BY <2>6 DEF Settle, Creating, CreatingPcs
      <4>2. tx[c].user \in Users
          BY <1>1, <4>1 DEF GoodTx, CreatingPcs
      <4>3. account[tx[c].user].balance \in Int
          BY <4>2 DEF Ledger!Accounts
      <4>4. t \in Txs
          BY <2>a, <4>3 DEF Txs, Pcs
      <4>5. /\ t.pc = "settled" /\ t.locks = tx[c].locks /\ t.quote = tx[c].quote
            /\ t.user = tx[c].user /\ t.order = tx[c].order /\ t.old = tx[c].old
            /\ t.date = tx[c].date /\ t.route = tx[c].route
            /\ t.read = account[tx[c].user].balance
          BY <1>1 DEF Txs
      <4>6. RefundOf(t) = Refund(c)
          BY <4>5 DEF RefundOf, Refund
      <4>7. Becomes(c, t) /\ ReadsOnly
          BY <3>1
      <4>8. total \in Nat /\ total = QuoteTotal(t.quote)
          BY <1>1, <4>5, QuoteTotalType DEF Txs
      <4> HIDE DEF t, total
      <4>9. /\ t.read = account[t.user].balance
            /\ ValidAmount(RefundOf(t)) /\ ValidAmount(QuoteTotal(t.quote))
            /\ QuoteTotal(t.quote) > 0 => QuoteTotal(t.quote) <= t.read + RefundOf(t)
          BY <3>1, <4>5, <4>6, <4>8
      <4>10. GoodTx(t)
          BY <1>1, <4>1, <4>5, <4>9 DEF GoodTx, CreatingPcs
      <4> QED
          BY <1>4, <4>1, <4>4, <4>5, <4>7, <4>10
    <3> QED
        BY <2>6, <3>1, <1>2 DEF Settle
  <2>7. CASE CommitOrder(c)
    <3>1. CASE /\ orders' = WithNewOrder(c)
               /\ account' = IF Scanned(tx[c].route)
                             THEN [account EXCEPT ![tx[c].user] = SettledAccount(c)]
                             ELSE account
               /\ Becomes(c, IdleTx)
      <4>1. Creating(c) /\ (Scanned(tx[c].route) => "account" \in tx[c].locks)
          BY <2>7, <1>1 DEF CommitOrder, Creating, CreatingPcs, GoodTx, Scanned, ScannedRoutes
      <4>2. tx[c].order \in OrderIds /\ ~Exists(tx[c].order) /\ tx[c].user \in Users
          BY <1>1, <4>1 DEF GoodTx, Creating
      <4>3. ASSUME NEW o \in OrderIds, Exists(o)
            PROVE  orders'[o] # None /\ orders'[o].total = orders[o].total
        <5>1. o # tx[c].order /\ orders[o] \in Orders
            BY <4>2, <4>3 DEF Exists
        <5>2. [orders[o] EXCEPT !.status = "superseded", !.by = tx[c].order].total
                  = orders[o].total
            BY <5>1 DEF Orders
        <5>3. [orders[o] EXCEPT !.status = "superseded", !.by = tx[c].order] # None
          <6>1. [orders[o] EXCEPT !.status = "superseded", !.by = tx[c].order] \in Orders
              BY <5>1, <4>2 DEF Orders
          <6> QED
              BY <6>1, NullAssumption
        <5>4. orders'[o] = orders[o] \/
              orders'[o] = [orders[o] EXCEPT !.status = "superseded", !.by = tx[c].order]
            BY <3>1, <5>1 DEF WithNewOrder
        <5> QED
            BY <4>3, <5>2, <5>3, <5>4 DEF Exists
      <4>4. \A o \in OrderIds : orders'[o] # None => Exists(o) \/ o = tx[c].order
        <5>1. \A o \in OrderIds : o = tx[c].old => Exists(o)
            BY <1>1, NoneAssumption DEF GoodTx
        <5> QED
            BY <3>1, <5>1 DEF WithNewOrder, Exists
      <4>5. \A u \in Users : account'[u].balance = account[u].balance \/ HoldsAccount(c, u)
          BY <3>1, <4>1, <4>2 DEF HoldsAccount
      <4> QED
          BY <3>1, <4>1, <4>3, <4>4, <4>5, EndStep
    <3> QED
        BY <2>7, <3>1, <1>2 DEF CommitOrder
  <2>8. CASE LockTopup(c)
    <3> DEFINE t == [tx[c] EXCEPT !.pc = "credited", !.locks = {"account"},
                                  !.read = account[tx[c].user].balance]
    <3>1. tx[c].user \in Users /\ tx[c].amount \in 1..MaxVnd /\ tx[c].old = None
        BY <2>8, <1>1 DEF LockTopup, GoodTx, CreatingPcs
    <3>2. account[tx[c].user].balance \in Int
        BY <3>1 DEF Ledger!Accounts
    <3>3. t \in Txs
        BY <2>a, <3>2 DEF Txs, Pcs, LockKinds
    <3>4. /\ t.pc = "credited" /\ t.locks = {"account"} /\ t.amount = tx[c].amount
          /\ t.user = tx[c].user /\ t.old = tx[c].old /\ t.read = account[tx[c].user].balance
        BY <1>1 DEF Txs
    <3>5. Becomes(c, t) /\ ReadsOnly /\ \A d \in Clients \ {c} : ~HoldsAccount(d, tx[c].user)
        BY <2>8 DEF LockTopup
    <3> HIDE DEF t
    <3>6. GoodTx(t)
        BY <3>1, <3>4 DEF GoodTx, CreatingPcs
    <3> QED
        BY <3>3, <3>4, <3>5, <3>6, QuietStep DEF CreatingPcs
  <2>9. CASE CommitTopup(c)
    <3>1. tx[c].user \in Users /\ "account" \in tx[c].locks
        BY <2>9, <1>1 DEF CommitTopup, GoodTx
    <3>2. \A u \in Users : account'[u].balance = account[u].balance \/ HoldsAccount(c, u)
        BY <2>9, <3>1 DEF CommitTopup, HoldsAccount
    <3> QED
        BY <2>9, <3>2, EndStep DEF CommitTopup, Exists
  <2>10. CASE CommitAccept(c)
    <3>1. CASE /\ tx[c].pc = "accepting"
               /\ orders' = [orders EXCEPT ![tx[c].order].payment = "paid",
                                           ![tx[c].order].ref = tx[c].ref]
               /\ Becomes(c, IdleTx) /\ UNCHANGED account
      <4>1. tx[c].order \in OrderIds /\ orders[tx[c].order] \in Orders
          BY <1>1, <3>1 DEF GoodTx, Exists
      <4>2. [orders[tx[c].order] EXCEPT !.payment = "paid", !.ref = tx[c].ref] \in Orders
          BY <1>1, <4>1 DEF Orders, Txs
      <4>3. /\ [orders[tx[c].order] EXCEPT !.payment = "paid", !.ref = tx[c].ref] # None
            /\ [orders[tx[c].order] EXCEPT !.payment = "paid", !.ref = tx[c].ref].total
                   = orders[tx[c].order].total
          BY <4>1, <4>2, NullAssumption DEF Orders
      <4>4. orders' = [orders EXCEPT ![tx[c].order] =
                          [orders[tx[c].order] EXCEPT !.payment = "paid", !.ref = tx[c].ref]]
          BY <3>1, <4>1
      <4>5. \A o \in OrderIds : Exists(o) => orders'[o] # None /\ orders'[o].total = orders[o].total
          BY <4>3, <4>4 DEF Exists
      <4>6. \A o \in OrderIds : orders'[o] # None => Exists(o)
          BY <1>1, <3>1, <4>4 DEF Exists, GoodTx
      <4> QED
          BY <3>1, <4>5, <4>6, EndStep
    <3> QED
        BY <2>10, <3>1, <1>2 DEF CommitAccept
  <2>11. CASE CommitReject(c)
    <3>1. tx[c].order \in OrderIds /\ orders[tx[c].order] \in Orders
        BY <1>1, <2>11 DEF CommitReject, GoodTx, Exists
    <3>2. [orders[tx[c].order] EXCEPT !.status = "rejected"] \in Orders
        BY <3>1 DEF Orders
    <3>3. /\ [orders[tx[c].order] EXCEPT !.status = "rejected"] # None
          /\ [orders[tx[c].order] EXCEPT !.status = "rejected"].total
                 = orders[tx[c].order].total
        BY <3>1, <3>2, NullAssumption DEF Orders
    <3>4. orders' = [orders EXCEPT ![tx[c].order] =
                        [orders[tx[c].order] EXCEPT !.status = "rejected"]]
        BY <2>11, <3>1 DEF CommitReject
    <3>5. \A o \in OrderIds : Exists(o) => orders'[o] # None /\ orders'[o].total = orders[o].total
        BY <3>3, <3>4 DEF Exists
    <3>6. \A o \in OrderIds : orders'[o] # None => Exists(o)
        BY <1>1, <2>11, <3>4 DEF Exists, GoodTx, CommitReject
    <3> QED
        BY <2>11, <3>5, <3>6, EndStep DEF CommitReject
  <2> QED
      BY <1>6, <2>1, <2>2, <2>3, <2>4, <2>5, <2>6, <2>7, <2>8, <2>9, <2>10, <2>11,
         <2>12, <2>13 DEF Advance
<1>7. ASSUME UNCHANGED <<tx, orders, account>>
      PROVE  LockDiscipline'
    BY <1>7, ByRequest, ByRequestPrimed
       DEF AccountMutex, HoldsAccount, DrawnOnce, Creating, GoodTx, RefundOf, Exists
<1>8. CASE Configure
    BY <1>7, <1>8, ConfigureMoves
<1>9. CASE UNCHANGED vars
    BY <1>7, <1>9 DEF vars
<1> QED
    BY <1>2, <1>3, <1>6, <1>8, <1>9 DEF Next, Crash

-----------------------------------------------------------------------------
(* The ledger explains the balance *)

\* One more row, computed from the balance in force, keeps the explanation.
LEMMA MutateExplains ==
    ASSUME NEW acct \in Ledger!Accounts, NEW type \in Ledger!RowTypes, NEW delta \in Int,
           NEW o \in OrderIds \cup {None},
           Ledger!Explains(acct.ledger, acct.balance), acct.balance + delta >= 0
    PROVE  LET after == Mutate(acct, acct.balance, type, delta, o)
           IN  Ledger!Explains(after.ledger, after.balance)
<1> DEFINE row == [type |-> type, amount |-> delta,
                   after |-> acct.balance + delta, order |-> o]
           l == acct.ledger
           m == Append(l, row)
<1>1. l \in Seq(Ledger!Rows) /\ row \in Ledger!Rows /\ acct.balance \in Int
    BY DEF Ledger!Accounts, Ledger!Rows
<1>2. /\ Len(m) = Len(l) + 1 /\ Len(l) \in Nat
      /\ \A i \in 1..Len(l) : m[i] = l[i]
      /\ m[Len(l) + 1] = row
    BY <1>1
<1>3. row.after = acct.balance + delta /\ row.amount = delta
    OBVIOUS
<1>4. acct.balance = IF Len(l) = 0 THEN 0 ELSE l[Len(l)].after
    BY DEF Ledger!Explains
<1>5. \A i \in 1..Len(l) :
          /\ l[i].after = (IF i = 1 THEN 0 ELSE l[i - 1].after) + l[i].amount
          /\ l[i].after >= 0
    BY DEF Ledger!Explains
<1> HIDE DEF row, l, m
<1>6. ASSUME NEW i \in 1..Len(m)
      PROVE  /\ m[i].after = (IF i = 1 THEN 0 ELSE m[i - 1].after) + m[i].amount
             /\ m[i].after >= 0
  <2>1. CASE i = Len(l) + 1
      BY <1>2, <1>3, <1>4, <2>1
  <2>2. CASE i \in 1..Len(l)
    <3>1. i # 1 => i - 1 \in 1..Len(l)
        BY <1>2, <2>2
    <3> QED
        BY <1>2, <1>5, <2>2, <3>1
  <2> QED
      BY <1>2, <2>1, <2>2
<1>7. acct.balance + delta = IF Len(m) = 0 THEN 0 ELSE m[Len(m)].after
    BY <1>2, <1>3
<1>8. Ledger!Explains(m, acct.balance + delta)
    BY <1>6, <1>7 DEF Ledger!Explains
<1> QED
    BY <1>8 DEF Mutate, Ledger!Posted, m, row, l

\* The facts about a settled request that its commit rests on.
LEMMA SettledFacts ==
    ASSUME TypeOK, LockDiscipline, NEW c \in Clients, tx[c].pc = "settled"
    PROVE  /\ tx[c].user \in Users /\ tx[c].order \in OrderIds
           /\ tx[c].read = account[tx[c].user].balance /\ tx[c].read \in Int
           /\ Refund(c) \in Nat /\ Refund(c) <= MaxVnd
           /\ Refund(c) # 0 => tx[c].old \in OrderIds
           /\ QuoteTotal(tx[c].quote) \in Nat /\ QuoteTotal(tx[c].quote) <= MaxVnd
           /\ QuoteTotal(tx[c].quote) > 0 =>
                 QuoteTotal(tx[c].quote) <= tx[c].read + Refund(c)
<1>1. tx[c] \in Txs /\ Creating(c)
    BY DEF TypeOK, Creating, CreatingPcs
<1>2. QuoteTotal(tx[c].quote) \in Nat
    BY <1>1, QuoteTotalType DEF Txs
<1>3. Refund(c) # 0 => tx[c].old \in OrderIds
    BY <1>1 DEF Refund, Txs
<1> QED
    BY <1>1, <1>2, <1>3, RefundType
       DEF LockDiscipline, DrawnIdsAreNew, ReadIsFresh, ValidAmount, Txs

\* The balance is the last running total, and those are not negative.
LEMMA ExplainedIsNotNegative ==
    ASSUME NEW acct \in Ledger!Accounts, Ledger!Explains(acct.ledger, acct.balance)
    PROVE  acct.balance >= 0
<1>1. Len(acct.ledger) \in Nat
    BY DEF Ledger!Accounts
<1>2. CASE Len(acct.ledger) = 0
    BY <1>2 DEF Ledger!Explains
<1>3. CASE Len(acct.ledger) # 0
  <2>1. Len(acct.ledger) \in 1..Len(acct.ledger)
      BY <1>1, <1>3
  <2> QED
      BY <1>3, <2>1 DEF Ledger!Explains
<1> QED
    BY <1>2, <1>3

\* Every statement and every edit keeps the ledgers explaining the balances.
LEMMA ExplainsStep ==
    ASSUME TypeOK, LockDiscipline, LedgerExplainsBalance, [Next]_vars
    PROVE  LedgerExplainsBalance'
<1>1. ASSUME UNCHANGED account
      PROVE  LedgerExplainsBalance'
    BY <1>1 DEF LedgerExplainsBalance
<1>2. ASSUME NEW c \in Clients, NEW acct, tx[c].user \in Users,
             account' = [account EXCEPT ![tx[c].user] = acct],
             Ledger!Explains(acct.ledger, acct.balance)
      PROVE  LedgerExplainsBalance'
  <2>1. ASSUME NEW u \in Users
        PROVE  Ledger!Explains(account'[u].ledger, account'[u].balance)
    <3>1. CASE u = tx[c].user
      <4>1. account'[u] = acct
          BY <1>2, <3>1 DEF TypeOK
      <4> QED
          BY <1>2, <4>1
    <3>2. CASE u # tx[c].user
      <4>1. account'[u] = account[u]
          BY <1>2, <3>2 DEF TypeOK
      <4> QED
          BY <4>1 DEF LedgerExplainsBalance
    <3> QED
        BY <3>1, <3>2
  <2> QED
      BY <2>1 DEF LedgerExplainsBalance, Ledger!Explains
<1>3. ASSUME NEW c \in Clients, CommitOrder(c)
      PROVE  LedgerExplainsBalance'
  <2>1. CASE tx[c].pc = "settled" /\
             account' = [account EXCEPT ![tx[c].user] = SettledAccount(c)]
    <3> DEFINE acct == account[tx[c].user]
               total == QuoteTotal(tx[c].quote)
               given == Mutate(acct, tx[c].read, "reversal", Refund(c), tx[c].old)
    <3>1. /\ acct \in Ledger!Accounts /\ tx[c].old \in OrderIds \cup {None}
          /\ Ledger!Explains(acct.ledger, acct.balance) /\ acct.balance \in Int
        BY <2>1, SettledFacts DEF TypeOK, Txs, LedgerExplainsBalance, Ledger!Accounts
    <3>2. /\ tx[c].read = acct.balance /\ Refund(c) \in Nat /\ total \in Nat
          /\ total > 0 => total <= tx[c].read + Refund(c)
          /\ tx[c].order \in OrderIds
        BY <2>1, SettledFacts
    <3>3. {"reversal", "order_debit"} \subseteq Ledger!RowTypes
        BY DEF Ledger!RowTypes
    <3>4. acct.balance >= 0
        BY <3>1, ExplainedIsNotNegative
    <3>5. given \in Ledger!Accounts
        BY <3>1, <3>2, <3>3, PostedType
    <3>6. given.balance = tx[c].read + Refund(c)
        BY <3>1, <3>2 DEF Mutate, Ledger!Posted
    <3> HIDE DEF acct, total
    <3>7. Ledger!Explains(given.ledger, given.balance)
      <4>1. given = Mutate(acct, acct.balance, "reversal", Refund(c), tx[c].old)
          BY <3>2
      <4>2. Refund(c) \in Int /\ acct.balance + Refund(c) >= 0
          BY <3>1, <3>2, <3>4
      <4> HIDE DEF given
      <4> QED
          BY <3>1, <3>3, <4>1, <4>2, MutateExplains
    <3>8. given.balance + (-total) >= 0 /\ -total \in Int
        BY <3>1, <3>2, <3>4, <3>6
    <3> HIDE DEF given
    <3>9. LET after == Mutate(given, given.balance, "order_debit", -total, tx[c].order)
          IN  Ledger!Explains(after.ledger, after.balance)
        BY <3>2, <3>3, <3>5, <3>7, <3>8, MutateExplains
    <3>10. SettledAccount(c) = Mutate(given, given.balance, "order_debit", -total, tx[c].order)
        BY <3>6 DEF SettledAccount, given, acct, total
    <3>11. tx[c].user \in Users
        BY <2>1, SettledFacts
    <3> QED
        BY <2>1, <3>9, <3>10, <3>11, <1>2
  <2>2. CASE tx[c].route = "relative" /\ tx[c].pc = "found"
    <3>1. UNCHANGED account
        BY <1>3, <2>2 DEF CommitOrder, Scanned, ScannedRoutes, Rollback, ReadsOnly
    <3> QED
        BY <3>1, <1>1
  <2>3. tx[c].pc = "settled" => Scanned(tx[c].route)
      BY DEF LockDiscipline, CreatingInOrder
  <2> QED
      BY <1>1, <1>3, <2>1, <2>2, <2>3 DEF CommitOrder, Rollback, ReadsOnly
<1>4. ASSUME NEW c \in Clients, CommitTopup(c)
      PROVE  LedgerExplainsBalance'
  <2> DEFINE acct == account[tx[c].user]
  <2>1. /\ tx[c].user \in Users /\ tx[c].amount \in 1..MaxVnd /\ tx[c].read = acct.balance
      BY <1>4 DEF CommitTopup, LockDiscipline, ReadIsFresh
  <2>2. /\ acct \in Ledger!Accounts /\ acct.balance \in Int
        /\ Ledger!Explains(acct.ledger, acct.balance)
      BY <2>1 DEF TypeOK, LedgerExplainsBalance, Ledger!Accounts
  <2>3. acct.balance >= 0
      BY <2>2, ExplainedIsNotNegative
  <2>4. account' = [account EXCEPT ![tx[c].user] =
                       Mutate(acct, acct.balance, "topup", tx[c].amount, None)]
      BY <1>4, <2>1 DEF CommitTopup
  <2> HIDE DEF acct
  <2>5. acct.balance + tx[c].amount >= 0 /\ tx[c].amount \in Int
      BY <2>1, <2>2, <2>3, MoneyAssumption
  <2>6. "topup" \in Ledger!RowTypes
      BY DEF Ledger!RowTypes
  <2>7. LET after == Mutate(acct, acct.balance, "topup", tx[c].amount, None)
        IN  Ledger!Explains(after.ledger, after.balance)
      BY <2>2, <2>5, <2>6, MutateExplains
  <2> QED
      BY <2>1, <2>4, <2>7, <1>2
<1>5. ASSUME NEW c \in Clients, Open(c)
      PROVE  UNCHANGED account
    BY <1>5, OpenReads DEF ReadsOnly
<1>6. ASSUME NEW c \in Clients, Advance(c), ~CommitOrder(c), ~CommitTopup(c)
      PROVE  UNCHANGED account
    BY <1>6 DEF Advance, LockExact, LockCatalog, LockAccount, ShareItem, ResolveMenu,
                CheckLimits, FindExisting, Settle, LockTopup, CommitAccept, CommitReject,
                Rollback, ReadsOnly
<1>7. CASE Configure
    BY <1>1, <1>7, ConfigureMoves
<1>8. CASE UNCHANGED vars
    BY <1>1, <1>8 DEF vars
<1> QED
    BY <1>1, <1>3, <1>4, <1>5, <1>6, <1>7, <1>8 DEF Next, Crash, Rollback, ReadsOnly

(***************************************************************************)
(* A step that moves money is a credit, a debit or a replacement of the    *)
(* abstract account, and every other step leaves the accounts alone.       *)
(***************************************************************************)
LEMMA RefinesStep ==
    ASSUME TypeOK, LockDiscipline, [Next]_vars
    PROVE  [Ledger!Next]_account
<1>1. ASSUME NEW c \in Clients, CommitTopup(c)
      PROVE  [Ledger!Next]_account
  <2>1. /\ tx[c].user \in Users /\ tx[c].amount \in 1..MaxVnd
        /\ tx[c].read = account[tx[c].user].balance
      BY <1>1 DEF CommitTopup, LockDiscipline, ReadIsFresh
  <2>2. tx[c].amount # 0
      BY <2>1, MoneyAssumption
  <2>3. account' = [account EXCEPT ![tx[c].user] =
                       Ledger!Posted(account[tx[c].user], account[tx[c].user].balance,
                                     "topup", tx[c].amount, None)]
      BY <1>1, <2>1, <2>2 DEF CommitTopup, Mutate
  <2>4. Ledger!Credit(tx[c].user)
      BY <2>1, <2>3 DEF Ledger!Credit
  <2> QED
      BY <2>1, <2>4 DEF Ledger!Next
<1>2. ASSUME NEW c \in Clients, tx[c].pc = "settled",
             account' = [account EXCEPT ![tx[c].user] = SettledAccount(c)]
      PROVE  [Ledger!Next]_account
  <2> DEFINE u == tx[c].user
             back == Refund(c)
             take == QuoteTotal(tx[c].quote)
             given == Ledger!Posted(account[u], account[u].balance, "reversal", back, tx[c].old)
  <2>1. /\ u \in Users /\ account[u].balance = tx[c].read /\ tx[c].read \in Int
        /\ back \in Nat /\ back <= MaxVnd
        /\ back # 0 => tx[c].old \in OrderIds
        /\ take \in Nat /\ take <= MaxVnd /\ tx[c].order \in OrderIds
        /\ take > 0 => take <= account[u].balance + back
      BY <1>2, SettledFacts
  <2>2. account' = [account EXCEPT ![u] = SettledAccount(c)]
      BY <1>2
  <2>3. MaxVnd \in Nat
      BY MoneyAssumption
  <2>4. SettledAccount(c) =
          Mutate(Mutate(account[u], account[u].balance, "reversal", back, tx[c].old),
                 account[u].balance + back, "order_debit", -take, tx[c].order)
      BY <2>1 DEF SettledAccount
  <2>5. account \in [Users -> Ledger!Accounts]
      BY DEF TypeOK
  <2> HIDE DEF u, back, take
  <2>6. /\ take = 0 => -take = 0
        /\ take # 0 => -take # 0 /\ take \in 1..MaxVnd
        /\ back # 0 => back \in 1..MaxVnd
        /\ back = 0 => account[u].balance + back = account[u].balance
    <3>1. take \in Nat /\ back \in Nat /\ take <= MaxVnd /\ back <= MaxVnd
        BY <2>1
    <3>2. account[u].balance \in Int
        BY <2>1
    <3>3. take # 0 => -take # 0 /\ take \in 1..MaxVnd
        BY <2>3, <3>1
    <3>4. back # 0 => back \in 1..MaxVnd
        BY <2>3, <3>1
    <3> QED
        BY <3>2, <3>3, <3>4
  <2>7. CASE back = 0 /\ take = 0
    <3>1. SettledAccount(c) = account[u]
        BY <2>4, <2>6, <2>7 DEF Mutate
    <3> QED
        BY <2>1, <2>2, <2>5, <3>1
  <2>8. CASE back # 0 /\ take = 0
    <3>1. SettledAccount(c) = given
        BY <2>4, <2>6, <2>8 DEF Mutate
    <3> HIDE DEF given
    <3>2. account' = [account EXCEPT ![u] = given]
        BY <2>2, <3>1
    <3> QED
        BY <2>1, <2>6, <2>8, <3>2 DEF Ledger!Next, Ledger!Credit, given
  <2>9. CASE back = 0 /\ take # 0
    <3> DEFINE paid == Ledger!Posted(account[u], account[u].balance,
                                     "order_debit", -take, tx[c].order)
    <3>1. SettledAccount(c) = paid
        BY <2>4, <2>6, <2>9 DEF Mutate
    <3>2. take <= account[u].balance
        BY <2>1, <2>3, <2>9
    <3> HIDE DEF paid
    <3>3. account' = [account EXCEPT ![u] = paid]
        BY <2>2, <3>1
    <3> QED
        BY <2>1, <2>6, <2>9, <3>2, <3>3 DEF Ledger!Next, Ledger!Debit, paid
  <2>10. CASE back # 0 /\ take # 0
    <3> DEFINE paid == Ledger!Posted(given, given.balance, "order_debit", -take, tx[c].order)
    <3>1. given.balance = account[u].balance + back
        BY DEF Ledger!Posted
    <3>2. Mutate(account[u], account[u].balance, "reversal", back, tx[c].old) = given
        BY <2>10 DEF Mutate
    <3>3. take <= given.balance
        BY <2>1, <2>3, <2>10, <3>1
    <3> HIDE DEF given
    <3>4. SettledAccount(c) = paid
        BY <2>4, <2>6, <2>10, <3>1, <3>2 DEF Mutate
    <3> HIDE DEF paid
    <3>5. account' = [account EXCEPT ![u] = paid]
        BY <2>2, <3>4
    <3>6. Ledger!Replace(u)
      <4>1. /\ back \in 1..MaxVnd /\ take \in 1..MaxVnd
            /\ tx[c].old \in OrderIds /\ tx[c].order \in OrderIds
          BY <2>1, <2>6, <2>10
      <4>2. LET g == Ledger!Posted(account[u], account[u].balance, "reversal", back, tx[c].old)
            IN  /\ take <= g.balance
                /\ account' = [account EXCEPT ![u] =
                       Ledger!Posted(g, g.balance, "order_debit", -take, tx[c].order)]
          BY <3>3, <3>5 DEF paid, given
      <4> QED
          BY <4>1, <4>2, Zenon DEF Ledger!Replace
    <3> QED
        BY <2>1, <3>6 DEF Ledger!Next
  <2> QED
      BY <2>7, <2>8, <2>9, <2>10
<1>3. ASSUME NEW c \in Clients, CommitOrder(c)
      PROVE  [Ledger!Next]_account
  <2>1. tx[c].pc = "settled" => Scanned(tx[c].route)
      BY DEF LockDiscipline, CreatingInOrder
  <2>2. CASE tx[c].pc = "settled"
      BY <1>2, <1>3, <2>1, <2>2 DEF CommitOrder, Rollback, ReadsOnly
  <2>3. CASE tx[c].pc = "found" /\ tx[c].route = "relative"
      BY <1>3, <2>3 DEF CommitOrder, Scanned, ScannedRoutes, Rollback, ReadsOnly
  <2> QED
      BY <1>3, <2>2, <2>3 DEF CommitOrder
<1>4. ASSUME NEW c \in Clients, Open(c)
      PROVE  UNCHANGED account
    BY <1>4, OpenReads DEF ReadsOnly
<1>5. ASSUME NEW c \in Clients, Advance(c), ~CommitOrder(c), ~CommitTopup(c)
      PROVE  UNCHANGED account
    BY <1>5 DEF Advance, LockExact, LockCatalog, LockAccount, ShareItem, ResolveMenu,
                CheckLimits, FindExisting, Settle, LockTopup, CommitAccept, CommitReject,
                Rollback, ReadsOnly
<1>6. CASE Configure
    BY <1>6, ConfigureMoves
<1>7. CASE UNCHANGED vars
    BY <1>7 DEF vars
<1> QED
    BY <1>1, <1>3, <1>4, <1>5, <1>6, <1>7 DEF Next, Crash, Rollback, ReadsOnly

-----------------------------------------------------------------------------
(* Theorems *)

\* A new database, with no account used and no order, satisfies all three.
LEMMA InitOk ==
    ASSUME Init
    PROVE  TypeOK /\ LockDiscipline /\ LedgerExplainsBalance
<1>1. TypeOK
  <2>1. Ledger!NewAccount \in Ledger!Accounts
      BY DEF Ledger!NewAccount, Ledger!Accounts
  <2> QED
      BY <2>1, IdleTxType DEF Init, TypeOK, NoBatch, Batches
<1>2. \A c \in Clients : tx[c] = IdleTx
    BY DEF Init
<1>3. LockDiscipline
    BY <1>2, IdleTxGood, ByRequest
       DEF AccountMutex, HoldsAccount, DrawnOnce, Creating, CreatingPcs, IdleTx
<1>4. LedgerExplainsBalance
    BY DEF Init, LedgerExplainsBalance, Ledger!Explains, Ledger!NewAccount
<1> QED
    BY <1>1, <1>3, <1>4

(***************************************************************************)
(* Every reachable state has well-typed tables and requests, whatever the  *)
(* number of prisoners, requests, orders and amounts.                      *)
(***************************************************************************)
THEOREM TypeCorrect == Spec => []TypeOK
<1>1. Init => TypeOK /\ LockDiscipline
    BY InitOk
<1>2. TypeOK /\ LockDiscipline /\ [Next]_vars => (TypeOK /\ LockDiscipline)'
    BY TypeStep, DisciplineStep
<1> QED
    BY <1>1, <1>2, PTL DEF Spec

(***************************************************************************)
(* The account row lock is exclusive, ids are drawn once, and what a       *)
(* request read of a balance still holds when it writes it.                *)
(***************************************************************************)
THEOREM DisciplineHolds == Spec => []LockDiscipline
<1>1. Init => TypeOK /\ LockDiscipline
    BY InitOk
<1>2. TypeOK /\ LockDiscipline /\ [Next]_vars => (TypeOK /\ LockDiscipline)'
    BY TypeStep, DisciplineStep
<1> QED
    BY <1>1, <1>2, PTL DEF Spec

(***************************************************************************)
(* In every reachable state, every prisoner's ledger replays to the stored *)
(* balance without ever going below zero.                                  *)
(***************************************************************************)
THEOREM MoneyIsSound == Spec => []LedgerExplainsBalance
<1>1. Init => TypeOK /\ LockDiscipline /\ LedgerExplainsBalance
    BY InitOk
<1>2. TypeOK /\ LockDiscipline /\ LedgerExplainsBalance /\ [Next]_vars
          => (TypeOK /\ LockDiscipline /\ LedgerExplainsBalance)'
    BY TypeStep, DisciplineStep, ExplainsStep
<1> QED
    BY <1>1, <1>2, PTL DEF Spec

(***************************************************************************)
(* The request-level system implements the abstract account: rows are only *)
(* appended, and the reversal and the debit of a replacement appear in one *)
(* step.                                                                   *)
(***************************************************************************)
THEOREM OrdersImplementLedger == Spec => AccountLedgerSpec
<1>1. Init => TypeOK /\ LockDiscipline /\ Ledger!Init
    BY InitOk DEF Init, Ledger!Init
<1>2. TypeOK /\ LockDiscipline /\ [Next]_vars => (TypeOK /\ LockDiscipline)'
    BY TypeStep, DisciplineStep
<1>3. TypeOK /\ LockDiscipline /\ [Next]_vars => [Ledger!Next]_account
    BY RefinesStep
<1> QED
    BY <1>1, <1>2, <1>3, PTL DEF Spec, AccountLedgerSpec, Ledger!Spec

-----------------------------------------------------------------------------
(* What running requests know *)

Deciding == {"accepting", "rejecting"}

\* A request that has not started knows nothing.
LEMMA IdleInformed == Informed(IdleTx)
BY DEF Informed, IdleTx, CreatingPcs

\* What a request knows depends on it and on the tables only.
LEMMA InformedStays ==
    ASSUME NEW c \in Clients, Informed(tx'[c]), ReadsOnly
    PROVE  Informed(tx[c])'
BY DEF Informed, ReadsOnly, Quote, Subtotal, Line, Orderable, WithinLimits, Actives, Exists,
       Pending

\* A request that only reads, and is still informed, leaves everything right.
LEMMA ReadStep ==
    ASSUME TypeOK, OrdersInv, NEW c \in Clients, NEW t \in Txs, ReadsOnly, Becomes(c, t),
           Informed(t),
           \A d \in Clients \ {c} :
               ~({tx[d].pc, t.pc} \subseteq Deciding /\ tx[d].order = t.order)
    PROVE  OrdersInv'
<1>1. tx'[c] = t /\ \A d \in Clients \ {c} : tx'[d] = tx[d]
    BY DEF Becomes, TypeOK
<1>2. ASSUME NEW d \in Clients
      PROVE  Informed(tx[d])'
  <2>1. Informed(tx'[d])
      BY <1>1 DEF OrdersInv
  <2> QED
      BY <2>1, InformedStays
<1>3. DecidedByOne'
    BY <1>1 DEF OrdersInv, DecidedByOne, Deciding
<1>4. OneScanned' /\ RowsNameOrders' /\ SnapshotsWhole'
    BY DEF ReadsOnly, OrdersInv, OneScanned, RowsNameOrders, SnapshotsWhole, Actives, Exists
<1>5. SupersedeTrail'
    BY DEF ReadsOnly, OrdersInv, SupersedeTrail, Actives, Exists
<1>6. OrdersAndLedgerAgree'
    BY DEF ReadsOnly, OrdersInv, OrdersAndLedgerAgree, RowsOf, Exists
<1> QED
    BY <1>2, <1>3, <1>4, <1>5, <1>6 DEF OrdersInv

\* A rolled back request.
LEMMA RollbackStep ==
    ASSUME TypeOK, OrdersInv, NEW c \in Clients, Rollback(c)
    PROVE  OrdersInv'
<1>1. IdleTx.pc \notin Deciding
    BY DEF IdleTx, Deciding
<1> QED
    BY <1>1, IdleTxType, IdleInformed, ReadStep DEF Rollback

\* A new request.
LEMMA OpenStep ==
    ASSUME TypeOK, TypeOK', OrdersInv, NEW c \in Clients, Open(c)
    PROVE  OrdersInv'
<1>1. ASSUME NEW route \in Routes, NEW u \in Users, NEW x \in Users \cup {None},
             NEW d \in Dates, NEW cart \in Carts, NEW ack \in BOOLEAN, NEW o \in OrderIds,
             NEW kinds \in {{"user"}, {}}, Request(c, route, u, x, d, cart, ack, o, kinds),
             Scanned(route) => active[u] /\ kinds = {"user"}
      PROVE  OrdersInv'
  <2> DEFINE t == [IdleTx EXCEPT
              !.pc = "open", !.route = route, !.user = u, !.exact = x, !.date = d,
              !.cart = cart, !.ack = ack, !.order = o, !.locks = kinds,
              !.reported = (route = "issued" /\ Actives(u, d, ScannedSources) # {})]
  <2>1. Becomes(c, t) /\ ReadsOnly
      BY <1>1 DEF Request
  <2>2. t \in Txs
    <3>1. tx'[c] = t
        BY <2>1 DEF Becomes, TypeOK
    <3> QED
        BY <3>1 DEF TypeOK
  <2>3. t.pc = "open" /\ t.user = u /\ t.route = route /\ t.old = None /\ t.locks = kinds
      BY DEF IdleTx
  <2> HIDE DEF t
  <2>4. Informed(t)
      BY <1>1, <2>3 DEF Informed
  <2> QED
      BY <2>1, <2>2, <2>3, <2>4, ReadStep DEF Deciding
<1>2. ASSUME NEW u \in Users, NEW amount \in Topups, OpenTopup(c, u, amount)
      PROVE  OrdersInv'
  <2> DEFINE t == [IdleTx EXCEPT !.pc = "topup", !.user = u, !.amount = amount]
  <2>1. Becomes(c, t) /\ ReadsOnly
      BY <1>2 DEF OpenTopup
  <2>2. t \in Txs
      BY IdleTxType, MoneyAssumption DEF Txs, Pcs
  <2>3. t.pc = "topup" /\ t.old = None
      BY DEF IdleTx
  <2> HIDE DEF t
  <2>4. Informed(t)
      BY <2>3 DEF Informed, CreatingPcs
  <2> QED
      BY <2>1, <2>2, <2>3, <2>4, ReadStep DEF Deciding
<1>3. ASSUME NEW o \in OrderIds, NEW ref \in Refs \cup {None},
             NEW pc \in {"accepting", "rejecting"}, LockPending(c, o, pc, ref)
      PROVE  OrdersInv'
  <2> DEFINE t == [IdleTx EXCEPT !.pc = pc, !.order = o, !.ref = ref, !.locks = {"order"}]
  <2>1. Becomes(c, t) /\ ReadsOnly /\ Pending(o) /\ \A d \in Clients : ~HoldsOrder(d, o)
      BY <1>3 DEF LockPending
  <2>2. t \in Txs
      BY IdleTxType DEF Txs, Pcs, LockKinds
  <2>3. t.pc = pc /\ t.order = o /\ t.old = None /\ t.locks = {"order"}
      BY DEF IdleTx
  <2> HIDE DEF t
  <2>4. Informed(t)
      BY <2>1, <2>3 DEF Informed, CreatingPcs
  <2>5. \A d \in Clients : tx[d].pc \in Deciding => tx[d].order # o
      BY <2>1 DEF OrdersInv, Informed, HoldsOrder, Deciding
  <2> QED
      BY <2>1, <2>2, <2>3, <2>4, <2>5, ReadStep
<1>4. CASE \E route \in Routes \cap ScannedRoutes, u \in Users, x \in Users \cup {None},
              d \in Dates, cart \in Carts, ack \in BOOLEAN, o \in OrderIds :
              OpenConfirm(c, route, u, x, d, cart, ack, o)
    BY <1>4, <1>1 DEF OpenConfirm
<1>5. CASE /\ "relative" \in Routes
           /\ \E u \in Users, d \in Dates, cart \in Carts, o \in OrderIds :
                 OpenRelative(c, u, d, cart, o)
    BY <1>5, <1>1 DEF OpenRelative, Scanned, ScannedRoutes
<1>6. CASE \E o \in OrderIds, ref \in Refs \cup {None} : OpenAccept(c, o, ref)
    BY <1>6, <1>3 DEF OpenAccept
<1>7. CASE \E o \in OrderIds : OpenReject(c, o)
    BY <1>7, <1>3 DEF OpenReject
<1> QED
    BY <1>2, <1>4, <1>5, <1>6, <1>7 DEF Open

\* The order a scanned request meets is the one active scanned order.
LEMMA FoundIsCurrent ==
    ASSUME TypeOK, OneScanned, NEW u \in Users, NEW d \in Dates, NEW route, Scanned(route)
    PROVE  /\ Existing(u, d, route) = {} => Actives(u, d, ScannedSources) = {}
           /\ \A o \in Existing(u, d, route) : Actives(u, d, ScannedSources) = {o}
<1>1. Source(route) \in ScannedSources
    BY DEF Scanned, ScannedRoutes, Source, ScannedSources
<1>2. Existing(u, d, route) \subseteq Actives(u, d, ScannedSources)
    BY <1>1 DEF Existing, Actives
<1>3. Existing(u, d, route) = {} => Actives(u, d, ScannedSources) = {}
    BY DEF Existing
<1> QED
    BY <1>2, <1>3 DEF OneScanned

\* The statements of a request that only read.
LEMMA AdvanceReads ==
    ASSUME TypeOK, TypeOK', LockDiscipline, OrdersInv, NEW c \in Clients,
           \/ LockExact(c) \/ LockCatalog(c) \/ LockAccount(c) \/ ShareItem(c)
           \/ ResolveMenu(c) \/ CheckLimits(c) \/ FindExisting(c) \/ Settle(c)
           \/ LockTopup(c)
    PROVE  OrdersInv'
<1>1. tx[c] \in Txs /\ tx'[c] \in Txs /\ Informed(tx[c])
      /\ (tx[c].pc \in CreatingPcs => tx[c].user \in Users /\ tx[c].date \in Dates)
    BY DEF TypeOK, OrdersInv, LockDiscipline, DrawnIdsAreNew, Creating
<1>2. ASSUME NEW t, ReadsOnly, Becomes(c, t), Informed(t), t.pc \notin Deciding
      PROVE  OrdersInv'
  <2>1. t \in Txs
      BY <1>1, <1>2 DEF Becomes, TypeOK
  <2> QED
      BY <1>2, <2>1, ReadStep
<1>3. ASSUME NEW pc, NEW kinds, Proceed(c, pc, kinds), ReadsOnly
      PROVE  \E t : /\ Becomes(c, t) /\ t.pc = pc /\ t.locks = tx[c].locks \cup kinds
                    /\ t.user = tx[c].user /\ t.date = tx[c].date /\ t.route = tx[c].route
                    /\ t.old = tx[c].old /\ t.cart = tx[c].cart /\ t.quote = tx[c].quote
                    /\ t.order = tx[c].order
  <2> DEFINE t == [tx[c] EXCEPT !.pc = pc, !.locks = @ \cup kinds]
  <2>1. /\ t.pc = pc /\ t.locks = tx[c].locks \cup kinds
        /\ t.user = tx[c].user /\ t.date = tx[c].date /\ t.route = tx[c].route
        /\ t.old = tx[c].old /\ t.cart = tx[c].cart /\ t.quote = tx[c].quote
        /\ t.order = tx[c].order
      BY <1>1 DEF Txs
  <2>2. Becomes(c, t)
      BY <1>3 DEF Proceed
  <2> QED
      BY <2>1, <2>2
<1>4. CASE LockCatalog(c)
  <2>1. CASE Proceed(c, "catalog", {"catalog"}) /\ ReadsOnly
    <3>1. PICK t : /\ Becomes(c, t) /\ t.pc = "catalog"
                   /\ t.locks = tx[c].locks \cup {"catalog"}
                   /\ t.user = tx[c].user /\ t.route = tx[c].route /\ t.old = tx[c].old
        BY <1>3, <2>1
    <3>2. tx[c].pc = "open"
        BY <1>4 DEF LockCatalog, AtCatalog
    <3>3. Informed(t)
        BY <1>1, <3>1, <3>2 DEF Informed, CreatingPcs
    <3> QED
        BY <1>2, <2>1, <3>1, <3>3 DEF Deciding
  <2> QED
      BY <1>4, <2>1, RollbackStep DEF LockCatalog
<1>5. CASE LockAccount(c)
  <2>1. PICK t : /\ Becomes(c, t) /\ t.pc = "account"
                 /\ t.locks = tx[c].locks \cup {"account"}
                 /\ t.user = tx[c].user /\ t.route = tx[c].route /\ t.old = tx[c].old
      BY <1>3, <1>5 DEF LockAccount
  <2>2. tx[c].pc \in {"open", "catalog"} /\ ReadsOnly
      BY <1>5 DEF LockAccount, AtAccount
  <2>3. Informed(t)
      BY <1>1, <2>1, <2>2 DEF Informed, CreatingPcs
  <2> QED
      BY <1>2, <2>1, <2>2, <2>3 DEF Deciding
<1>11. CASE LockExact(c)
  <2>1. PICK t : /\ Becomes(c, t) /\ t.pc = "open"
                 /\ t.locks = tx[c].locks \cup {"exact"}
                 /\ t.user = tx[c].user /\ t.route = tx[c].route /\ t.old = tx[c].old
      BY <1>3, <1>11 DEF LockExact
  <2>2. tx[c].pc = "open" /\ ReadsOnly
      BY <1>11 DEF LockExact, AtExact
  <2>3. Informed(t)
      BY <1>1, <2>1, <2>2 DEF Informed, CreatingPcs
  <2> QED
      BY <1>2, <2>1, <2>2, <2>3 DEF Deciding
<1>12. CASE ShareItem(c)
    BY <1>1, <1>2, <1>3, <1>12 DEF ShareItem, Shares, AtRows, Informed, CreatingPcs, Deciding
<1>6. CASE ResolveMenu(c)
  <2> DEFINE t == [tx[c] EXCEPT !.pc = "priced", !.locks = @ \cup {"menu"},
                                !.quote = Quote(tx[c].cart)]
  <2>1. CASE Becomes(c, t) /\ ReadsOnly /\ Orderable(tx[c].route, tx[c].cart)
    <3>1. /\ t.pc = "priced" /\ t.locks = tx[c].locks \cup {"menu"}
          /\ t.user = tx[c].user /\ t.date = tx[c].date /\ t.route = tx[c].route
          /\ t.old = tx[c].old /\ t.cart = tx[c].cart /\ t.quote = Quote(tx[c].cart)
        BY <1>1 DEF Txs
    <3>2. tx[c].pc \in {"open", "account"}
        BY <1>6 DEF ResolveMenu, AtRows
    <3> HIDE DEF t
    <3>3. Informed(t)
        BY <1>1, <2>1, <3>1, <3>2 DEF Informed, CreatingPcs
    <3> QED
        BY <1>2, <2>1, <3>1, <3>3 DEF Deciding
  <2> QED
      BY <1>6, <2>1, RollbackStep DEF ResolveMenu
<1>7. CASE CheckLimits(c)
  <2>1. CASE Proceed(c, "limited", {"policy"}) /\ ReadsOnly
             /\ WithinLimits(tx[c].route, tx[c].quote)
    <3>1. PICK t : /\ Becomes(c, t) /\ t.pc = "limited"
                   /\ t.locks = tx[c].locks \cup {"policy"}
                   /\ t.user = tx[c].user /\ t.route = tx[c].route /\ t.old = tx[c].old
                   /\ t.cart = tx[c].cart /\ t.quote = tx[c].quote
        BY <1>3, <2>1
    <3>2. tx[c].pc = "priced"
        BY <1>7 DEF CheckLimits
    <3>3. Informed(t)
        BY <1>1, <2>1, <3>1, <3>2 DEF Informed, CreatingPcs
    <3> QED
        BY <1>2, <2>1, <3>1, <3>3 DEF Deciding
  <2> QED
      BY <1>7, <2>1, RollbackStep DEF CheckLimits
<1>8. CASE FindExisting(c)
  <2> DEFINE found == Existing(tx[c].user, tx[c].date, tx[c].route)
  <2>1. /\ tx[c].pc = "limited" /\ tx[c].old = None
        /\ tx[c].user \in Users /\ tx[c].date \in Dates
      BY <1>1, <1>8 DEF FindExisting, Informed, CreatingPcs
  <2>2. Scanned(tx[c].route) =>
            /\ found = {} => Actives(tx[c].user, tx[c].date, ScannedSources) = {}
            /\ \A o \in found : Actives(tx[c].user, tx[c].date, ScannedSources) = {o}
      BY <2>1, FoundIsCurrent DEF OrdersInv
  <2>3. CASE found = {} /\ Proceed(c, "found", {}) /\ ReadsOnly
    <3> DEFINE t == [tx[c] EXCEPT !.pc = "found", !.locks = @ \cup {}]
    <3>1. /\ t.pc = "found" /\ t.locks = tx[c].locks /\ t.user = tx[c].user
          /\ t.date = tx[c].date /\ t.route = tx[c].route /\ t.old = tx[c].old
          /\ t.cart = tx[c].cart /\ t.quote = tx[c].quote
        BY <1>1 DEF Txs
    <3>3. Becomes(c, t)
        BY <2>3 DEF Proceed
    <3> HIDE DEF found, t
    <3>2. Informed(t)
        BY <1>1, <2>1, <2>2, <2>3, <3>1 DEF Informed, CreatingPcs
    <3> QED
        BY <1>2, <2>3, <3>1, <3>2, <3>3 DEF Deciding
  <2>4. ASSUME NEW o \in found, Scanned(tx[c].route), ReadsOnly,
               Becomes(c, [tx[c] EXCEPT !.pc = "found", !.old = o])
        PROVE  OrdersInv'
    <3> DEFINE t == [tx[c] EXCEPT !.pc = "found", !.old = o]
    <3>1. /\ t.pc = "found" /\ t.locks = tx[c].locks
          /\ t.user = tx[c].user /\ t.date = tx[c].date /\ t.route = tx[c].route
          /\ t.old = o /\ t.cart = tx[c].cart /\ t.quote = tx[c].quote
        BY <1>1 DEF Txs
    <3>2. Becomes(c, t)
        BY <2>4
    <3>3. o # None
        BY NoneAssumption DEF Existing, Actives
    <3> HIDE DEF t
    <3>4. Informed(t)
        BY <1>1, <2>1, <2>2, <2>4, <3>1, <3>3 DEF Informed, CreatingPcs
    <3> QED
        BY <1>2, <2>4, <3>1, <3>2, <3>4 DEF Deciding
  <2> QED
      BY <1>8, <2>3, <2>4, RollbackStep DEF FindExisting
<1>9. CASE Settle(c)
  <2> DEFINE t == [tx[c] EXCEPT !.pc = "settled", !.read = account[tx[c].user].balance]
  <2>1. CASE Becomes(c, t) /\ ReadsOnly
    <3>1. /\ t.pc = "settled" /\ t.locks = tx[c].locks
          /\ t.user = tx[c].user /\ t.date = tx[c].date /\ t.route = tx[c].route
          /\ t.old = tx[c].old /\ t.cart = tx[c].cart /\ t.quote = tx[c].quote
        BY <1>1 DEF Txs
    <3>2. tx[c].pc = "found"
        BY <1>9 DEF Settle
    <3> HIDE DEF t
    <3>3. Informed(t)
        BY <1>1, <3>1, <3>2 DEF Informed, CreatingPcs
    <3> QED
        BY <1>2, <2>1, <3>1, <3>3 DEF Deciding
  <2> QED
      BY <1>9, <2>1, RollbackStep DEF Settle
<1>10. CASE LockTopup(c)
  <2> DEFINE t == [tx[c] EXCEPT !.pc = "credited", !.locks = {"account"},
                                !.read = account[tx[c].user].balance]
  <2>1. Becomes(c, t) /\ ReadsOnly /\ tx[c].pc = "topup"
      BY <1>10 DEF LockTopup
  <2>2. t.pc = "credited" /\ t.old = tx[c].old
      BY <1>1 DEF Txs
  <2> HIDE DEF t
  <2>3. Informed(t)
      BY <1>1, <2>1, <2>2 DEF Informed, CreatingPcs
  <2> QED
      BY <1>2, <2>1, <2>2, <2>3 DEF Deciding
<1> QED
    BY <1>4, <1>5, <1>6, <1>7, <1>8, <1>9, <1>10, <1>11, <1>12

-----------------------------------------------------------------------------
(* The order table before and after a new order: T and U *)

Tables == [OrderIds -> Orders \cup {None}]

\* An active scanned order of prisoner u for date d.
Listed(row, u, d) ==
    /\ row # None
    /\ row.user = u /\ row.date = d
    /\ row.source \in ScannedSources
    /\ row.status = "active"

ListedIds(T, u, d) == {o \in OrderIds : Listed(T[o], u, d)}

\* SupersedeTrail for one order of a table.
TrailOf(T, o) ==
    /\ (T[o].status = "superseded") <=> (T[o].by # None)
    /\ T[o].status = "superseded" =>
          LET next == T[o].by
          IN  /\ T[next] # None
              /\ T[next].user = T[o].user
              /\ T[next].date = T[o].date
              /\ T[next].source \in ScannedSources
              /\ Cardinality(ListedIds(T, T[o].user, T[o].date)) = 1
              /\ \A p \in OrderIds \ {o} : T[p] # None => T[p].by # next

Trail(T) == \A o \in OrderIds : T[o] # None => TrailOf(T, o)

\* Row n is inserted, active, and closes the active scanned order it meets.
Replaces(T, U, n, row, old) ==
    /\ n \in OrderIds /\ T[n] = None /\ U[n] = row
    /\ row \in Orders /\ row.status = "active" /\ row.by = None
    /\ row.source \in ScannedSources =>
          \A o \in OrderIds : Listed(T[o], row.user, row.date) <=> o = old
    /\ row.source \notin ScannedSources => old = None
    /\ old \in OrderIds => U[old] = [T[old] EXCEPT !.status = "superseded", !.by = n]
    /\ \A o \in OrderIds \ {n, old} : U[o] = T[o]

\* The trail and the lists of active orders are about the table alone.
LEMMA TrailIs ==
    /\ SupersedeTrail <=> Trail(orders)
    /\ SupersedeTrail' <=> Trail(orders')
<1>1. \A u, d : Actives(u, d, ScannedSources) = ListedIds(orders, u, d)
    BY DEF Actives, Exists, ListedIds, Listed
<1>2. ASSUME NEW u, NEW d
      PROVE  {o \in OrderIds : /\ orders'[o] # None
                               /\ orders'[o].user = u /\ orders'[o].date = d
                               /\ orders'[o].source \in ScannedSources
                               /\ orders'[o].status = "active"} = ListedIds(orders', u, d)
    BY DEF ListedIds, Listed
<1>3. SupersedeTrail <=> Trail(orders)
    BY <1>1 DEF SupersedeTrail, Trail, TrailOf, Exists
<1>4. SupersedeTrail' <=> Trail(orders')
  <2> DEFINE A(u, d) == {o \in OrderIds : /\ orders'[o] # None
                               /\ orders'[o].user = u /\ orders'[o].date = d
                               /\ orders'[o].source \in ScannedSources
                               /\ orders'[o].status = "active"}
  <2>1. SupersedeTrail' <=>
          \A o \in OrderIds : orders'[o] # None =>
            /\ (orders'[o].status = "superseded") <=> (orders'[o].by # None)
            /\ orders'[o].status = "superseded" =>
                  LET next == orders'[o].by
                  IN  /\ orders'[next] # None
                      /\ orders'[next].user = orders'[o].user
                      /\ orders'[next].date = orders'[o].date
                      /\ orders'[next].source \in ScannedSources
                      /\ Cardinality(A(orders'[o].user, orders'[o].date)) = 1
                      /\ \A p \in OrderIds \ {o} : orders'[p] # None => orders'[p].by # next
      BY DEF SupersedeTrail, Exists, Actives
  <2>2. \A u, d : A(u, d) = ListedIds(orders', u, d)
      BY <1>2
  <2> HIDE DEF A
  <2> QED
      BY <2>1, <2>2 DEF Trail, TrailOf
<1> QED
    BY <1>3, <1>4

LEMMA OneScannedIs ==
    /\ OneScanned <=> \A u \in Users, d \in Dates : \A o, p \in OrderIds :
                         Listed(orders[o], u, d) /\ Listed(orders[p], u, d) => o = p
    /\ OneScanned' <=> \A u \in Users, d \in Dates : \A o, p \in OrderIds :
                          Listed(orders'[o], u, d) /\ Listed(orders'[p], u, d) => o = p
BY DEF OneScanned, Actives, Exists, Listed

\* The row of the order that was closed.
LEMMA ClosedRow ==
    ASSUME NEW T \in Tables, NEW U \in Tables, NEW n, NEW row, NEW old \in OrderIds,
           Replaces(T, U, n, row, old)
    PROVE  /\ Listed(T[old], row.user, row.date)
           /\ row.source \in ScannedSources
           /\ U[old] # None /\ U[old].status = "superseded" /\ U[old].by = n
           /\ U[old].user = row.user /\ U[old].date = row.date
           /\ U[old].source = T[old].source /\ U[old].total = T[old].total
           /\ U[old].payment = T[old].payment /\ U[old].ref = T[old].ref
<1>1. row.source \in ScannedSources
    BY NoneAssumption DEF Replaces
<1>2. Listed(T[old], row.user, row.date)
    BY <1>1 DEF Replaces
<1>3. T[old] \in Orders
    BY <1>2 DEF Tables, Listed
<1>4. U[old] = [T[old] EXCEPT !.status = "superseded", !.by = n] /\ U[old] # None
  <2>1. U[old] = [T[old] EXCEPT !.status = "superseded", !.by = n]
      BY DEF Replaces
  <2>2. n \in OrderIds
      BY DEF Replaces
  <2>3. U[old] \in Orders
      BY <1>3, <2>1, <2>2 DEF Orders
  <2> QED
      BY <2>1, <2>3, NullAssumption
<1> QED
    BY <1>1, <1>2, <1>3, <1>4 DEF Listed, Orders

\* Who is listed after the insert.
LEMMA ListedAfter ==
    ASSUME NEW T \in Tables, NEW U \in Tables, NEW n, NEW row, NEW old,
           Replaces(T, U, n, row, old), NEW o \in OrderIds, NEW u, NEW d
    PROVE  Listed(U[o], u, d) <=>
               \/ o = n /\ row.source \in ScannedSources /\ u = row.user /\ d = row.date
               \/ o # n /\ o # old /\ Listed(T[o], u, d)
<1>1. CASE o = n
    BY <1>1, NullAssumption DEF Replaces, Listed
<1>2. CASE o # n /\ o = old
    BY <1>2, ClosedRow DEF Listed
<1>3. CASE o # n /\ o # old
    BY <1>3 DEF Replaces
<1> QED
    BY <1>1, <1>2, <1>3

\* There is still one active scanned order at most.
LEMMA OneScannedAfter ==
    ASSUME NEW T \in Tables, NEW U \in Tables, NEW n, NEW row, NEW old,
           Replaces(T, U, n, row, old), NEW u, NEW d,
           \A o, p \in OrderIds : Listed(T[o], u, d) /\ Listed(T[p], u, d) => o = p
    PROVE  \A o, p \in OrderIds : Listed(U[o], u, d) /\ Listed(U[p], u, d) => o = p
<1>1. ASSUME NEW o \in OrderIds, NEW p \in OrderIds, Listed(U[o], u, d), Listed(U[p], u, d)
      PROVE  o = p
  <2>1. \/ o = n /\ row.source \in ScannedSources /\ u = row.user /\ d = row.date
        \/ o # n /\ o # old /\ Listed(T[o], u, d)
      BY <1>1, ListedAfter
  <2>2. \/ p = n /\ row.source \in ScannedSources /\ u = row.user /\ d = row.date
        \/ p # n /\ p # old /\ Listed(T[p], u, d)
      BY <1>1, ListedAfter
  <2>3. row.source \in ScannedSources =>
            \A q \in OrderIds : Listed(T[q], row.user, row.date) <=> q = old
      BY DEF Replaces
  <2> QED
      BY <2>1, <2>2, <2>3
<1> QED
    BY <1>1

\* The trail goes on: the closed order names the new one, nobody else does.
LEMMA TrailAfter ==
    ASSUME NEW T \in Tables, NEW U \in Tables, NEW n, NEW row, NEW old,
           Replaces(T, U, n, row, old), Trail(T)
    PROVE  Trail(U)
<1>1. n \in OrderIds /\ T[n] = None /\ U[n] = row /\ row # None /\ row.by = None
      /\ row.status = "active"
    BY NullAssumption DEF Replaces
<1>2. \A o \in OrderIds : T[o] # None => T[o] \in Orders
    BY DEF Tables
<1>3. \A o \in OrderIds : T[o] # None => U[o] # None
  <2> SUFFICES ASSUME NEW o \in OrderIds, T[o] # None
               PROVE  U[o] # None
      OBVIOUS
  <2>1. CASE o = old
      BY <2>1, ClosedRow
  <2> QED
      BY <1>1, <2>1 DEF Replaces
<1>4. \A o \in OrderIds : T[o] # None =>
        U[o].user = T[o].user /\ U[o].date = T[o].date /\ U[o].source = T[o].source
  <2> SUFFICES ASSUME NEW o \in OrderIds, T[o] # None
               PROVE  U[o].user = T[o].user /\ U[o].date = T[o].date
                      /\ U[o].source = T[o].source
      OBVIOUS
  <2>1. CASE o = old
      BY <2>1, ClosedRow DEF Listed
  <2> QED
      BY <1>1, <2>1 DEF Replaces
\* Nobody named n before.
<1>5. \A o \in OrderIds : T[o] # None => T[o].by # n
    BY <1>1, <1>2, NoneAssumption DEF Trail, TrailOf, Orders
\* The dates that are not touched keep their list; the touched one has n.
<1>6. ASSUME NEW u, NEW d, row.source \in ScannedSources, u = row.user, d = row.date
      PROVE  Cardinality(ListedIds(U, u, d)) = 1
  <2>1. \A o \in OrderIds : Listed(T[o], u, d) <=> o = old
      BY <1>6 DEF Replaces
  <2>2. \A o \in OrderIds : Listed(U[o], u, d) <=> o = n
      BY <1>6, <2>1, ListedAfter
  <2>3. ListedIds(U, u, d) = {n}
      BY <1>1, <2>2 DEF ListedIds
  <2> QED
      BY <2>3, FS_Singleton
<1>7. ASSUME NEW u, NEW d, ~(row.source \in ScannedSources /\ u = row.user /\ d = row.date)
      PROVE  ListedIds(U, u, d) = ListedIds(T, u, d)
  <2>1. \A o \in OrderIds : Listed(U[o], u, d) <=> Listed(T[o], u, d)
    <3> SUFFICES ASSUME NEW o \in OrderIds
                 PROVE  Listed(U[o], u, d) <=> Listed(T[o], u, d)
        OBVIOUS
    <3>1. Listed(U[o], u, d) <=> o # n /\ o # old /\ Listed(T[o], u, d)
        BY <1>7, ListedAfter
    <3>2. ~Listed(T[n], u, d)
        BY <1>1 DEF Listed
    <3>3. o = old => ~Listed(T[o], u, d)
        BY <1>7, ClosedRow DEF Listed
    <3> QED
        BY <3>1, <3>2, <3>3
  <2> QED
      BY <2>1 DEF ListedIds
<1>8. ASSUME NEW u, NEW d, Cardinality(ListedIds(T, u, d)) = 1
      PROVE  Cardinality(ListedIds(U, u, d)) = 1
    BY <1>6, <1>7, <1>8
<1>9. ASSUME NEW o \in OrderIds, U[o] # None
      PROVE  TrailOf(U, o)
  <2>1. CASE o = n
      BY <1>1, <2>1 DEF TrailOf
  <2>2. CASE o # n /\ o = old
    <3>1. /\ row.source \in ScannedSources
          /\ U[o].status = "superseded" /\ U[o].by = n
          /\ U[o].user = row.user /\ U[o].date = row.date
        BY <2>2, ClosedRow
    <3>2. Cardinality(ListedIds(U, U[o].user, U[o].date)) = 1
        BY <1>6, <3>1
    <3>3. n # None
        BY <1>1, NoneAssumption
    <3>4. \A p \in OrderIds \ {o} : U[p] # None => U[p].by # n
        BY <1>1, <1>5, <2>2, <3>3 DEF Replaces
    <3> QED
        BY <1>1, <3>1, <3>2, <3>3, <3>4 DEF TrailOf
  <2>3. CASE o # n /\ o # old
    <3>1. U[o] = T[o] /\ T[o] # None /\ TrailOf(T, o)
        BY <1>9, <2>3 DEF Replaces, Trail
    <3>2. CASE T[o].status # "superseded"
        BY <3>1, <3>2 DEF TrailOf
    <3>3. CASE T[o].status = "superseded"
      <4> DEFINE next == T[o].by
      <4>1. /\ next # None /\ T[next] # None /\ T[next].user = T[o].user
            /\ T[next].date = T[o].date /\ T[next].source \in ScannedSources
            /\ Cardinality(ListedIds(T, T[o].user, T[o].date)) = 1
            /\ \A p \in OrderIds \ {o} : T[p] # None => T[p].by # next
          BY <3>1, <3>3 DEF TrailOf
      <4>2. next \in OrderIds
          BY <1>2, <3>1, <4>1 DEF Orders
      <4>3. U[next] # None /\ U[next].user = T[o].user
            /\ U[next].date = T[o].date /\ U[next].source \in ScannedSources
          BY <1>3, <1>4, <4>1, <4>2
      <4>4. Cardinality(ListedIds(U, T[o].user, T[o].date)) = 1
          BY <1>8, <4>1
      <4>5. next # n
          BY <1>1, <4>1
      <4>6. ASSUME NEW p \in OrderIds \ {o}, U[p] # None
            PROVE  U[p].by # next
        <5>1. CASE p = n
            BY <1>1, <4>1, <5>1
        <5>2. CASE p # n /\ p = old
            BY <5>2, <4>5, ClosedRow
        <5>3. CASE p # n /\ p # old
            BY <4>1, <4>6, <5>3 DEF Replaces
        <5> QED
            BY <5>1, <5>2, <5>3
      <4> HIDE DEF next
      <4> QED
          BY <3>1, <3>3, <4>1, <4>3, <4>4, <4>6 DEF TrailOf, next
    <3> QED
        BY <3>2, <3>3
  <2> QED
      BY <2>1, <2>2, <2>3
<1> QED
    BY <1>9 DEF Trail

-----------------------------------------------------------------------------
(* Ledger rows *)

\* The rows of ledger l that order o caused, of one type.
RowsIn(l, o, type) == {i \in 1..Len(l) : l[i].order = o /\ l[i].type = type}

\* OrdersAndLedgerAgree for one order row and one ledger.
Agrees(row, o, l) ==
    LET debits  == RowsIn(l, o, "order_debit")
        givings == RowsIn(l, o, "reversal")
        paid    == row.source \in ScannedSources /\ row.total > 0
    IN  /\ Cardinality(debits) = IF paid THEN 1 ELSE 0
        /\ Cardinality(givings) = IF paid /\ row.status = "superseded" THEN 1 ELSE 0
        /\ \A i \in debits : l[i].amount = -row.total
        /\ \A i \in givings : l[i].amount = row.total

LEMMA AgreesIs ==
    /\ OrdersAndLedgerAgree <=>
          \A o \in OrderIds : orders[o] # None =>
              Agrees(orders[o], o, account[orders[o].user].ledger)
    /\ OrdersAndLedgerAgree' <=>
          \A o \in OrderIds : orders'[o] # None =>
              Agrees(orders'[o], o, account'[orders'[o].user].ledger)
BY DEF OrdersAndLedgerAgree, Agrees, RowsIn, RowsOf, Exists

\* A set of rows is finite, so that it is empty when it counts 0.
LEMMA RowsFinite ==
    ASSUME NEW acct \in Ledger!Accounts, NEW o, NEW type
    PROVE  /\ IsFiniteSet(RowsIn(acct.ledger, o, type))
           /\ Cardinality(RowsIn(acct.ledger, o, type)) = 0
                => RowsIn(acct.ledger, o, type) = {}
<1>1. Len(acct.ledger) \in Nat
    BY DEF Ledger!Accounts
<1>2. IsFiniteSet(1..Len(acct.ledger))
    BY <1>1, FS_Interval
<1>3. RowsIn(acct.ledger, o, type) \subseteq 1..Len(acct.ledger)
    BY DEF RowsIn
<1>4. IsFiniteSet(RowsIn(acct.ledger, o, type))
    BY <1>2, <1>3, FS_Subset
<1> QED
    BY <1>4, FS_EmptySet

\* A ledger m continues a ledger l.
Continues(m, l) ==
    /\ Len(l) \in Nat /\ Len(m) \in Nat /\ Len(l) <= Len(m)
    /\ \A i \in 1..Len(l) : m[i] = l[i]

\* One mutation adds at most one row, of its own order and type.
LEMMA MutateRows ==
    ASSUME NEW acct \in Ledger!Accounts, NEW read \in Int, NEW type \in Ledger!RowTypes,
           NEW delta \in Int, NEW o \in OrderIds \cup {None}
    PROVE  LET l == acct.ledger
               m == Mutate(acct, read, type, delta, o).ledger
           IN  /\ Continues(m, l)
               /\ Len(m) = IF delta = 0 THEN Len(l) ELSE Len(l) + 1
               /\ delta # 0 => /\ m[Len(l) + 1].order = o /\ m[Len(l) + 1].type = type
                               /\ m[Len(l) + 1].amount = delta
<1>1. acct.ledger \in Seq(Ledger!Rows) /\ Len(acct.ledger) \in Nat
    BY DEF Ledger!Accounts
<1> DEFINE row == [type |-> type, amount |-> delta, after |-> read + delta, order |-> o]
<1>2. row.order = o /\ row.type = type /\ row.amount = delta /\ row \in Ledger!Rows
    BY DEF Ledger!Rows
<1>3. Mutate(acct, read, type, delta, o).ledger
        = IF delta = 0 THEN acct.ledger ELSE Append(acct.ledger, row)
    BY DEF Mutate, Ledger!Posted
<1> HIDE DEF row
<1> QED
    BY <1>1, <1>2, <1>3 DEF Continues

\* The rows of other orders and types stay as they are.
LEMMA RowsKept ==
    ASSUME NEW l, NEW m, Continues(m, l), NEW o, NEW type,
           \A i \in 1..Len(m) : i > Len(l) => ~(m[i].order = o /\ m[i].type = type)
    PROVE  RowsIn(m, o, type) = RowsIn(l, o, type)
BY DEF RowsIn, Continues

LEMMA AgreesKept ==
    ASSUME NEW l, NEW m, Continues(m, l), NEW o, NEW row, Agrees(row, o, l),
           \A i \in 1..Len(m) : i > Len(l) => m[i].order # o
    PROVE  Agrees(row, o, m)
<1>1. /\ RowsIn(m, o, "order_debit") = RowsIn(l, o, "order_debit")
      /\ RowsIn(m, o, "reversal") = RowsIn(l, o, "reversal")
    BY RowsKept
<1>2. \A type : \A i \in RowsIn(l, o, type) : m[i] = l[i]
    BY DEF RowsIn, Continues
<1> QED
    BY <1>1, <1>2 DEF Agrees

\* Ledger m is l with the reversal of an old order and the debit of a new one.
SettledRows(m, l, old, back, new, take) ==
    /\ Continues(m, l)
    /\ back # 0 => /\ Len(l) < Len(m)
                   /\ m[Len(l) + 1].order = old /\ m[Len(l) + 1].type = "reversal"
                   /\ m[Len(l) + 1].amount = back
    /\ take # 0 => /\ Len(l) < Len(m)
                   /\ m[Len(m)].order = new /\ m[Len(m)].type = "order_debit"
                   /\ m[Len(m)].amount = -take
    /\ \A i \in 1..Len(m) : i > Len(l) =>
           \/ back # 0 /\ i = Len(l) + 1 /\ m[i].order = old /\ m[i].type = "reversal"
           \/ take # 0 /\ i = Len(m) /\ m[i].order = new /\ m[i].type = "order_debit"

\* That is what a settled request writes.
LEMMA SettledLedger ==
    ASSUME TypeOK, LockDiscipline, NEW c \in Clients, tx[c].pc = "settled"
    PROVE  SettledRows(SettledAccount(c).ledger, account[tx[c].user].ledger,
                       tx[c].old, Refund(c), tx[c].order, QuoteTotal(tx[c].quote))
<1> DEFINE acct  == account[tx[c].user]
           back  == Refund(c)
           take  == QuoteTotal(tx[c].quote)
           given == Mutate(acct, tx[c].read, "reversal", back, tx[c].old)
           taken == Mutate(given, tx[c].read + back, "order_debit", -take, tx[c].order)
<1>1. /\ tx[c].user \in Users /\ tx[c].order \in OrderIds \cup {None}
      /\ tx[c].read \in Int /\ back \in Nat /\ take \in Nat
    BY SettledFacts
<1>2. acct \in Ledger!Accounts
    BY <1>1 DEF TypeOK
<1>3. tx[c].old \in OrderIds \cup {None}
    BY DEF TypeOK, Txs
<1>4. "reversal" \in Ledger!RowTypes /\ "order_debit" \in Ledger!RowTypes
    BY DEF Ledger!RowTypes
<1>5. SettledAccount(c) = taken
    BY DEF SettledAccount
<1> HIDE DEF acct, back, take
<1>6. given \in Ledger!Accounts
    BY <1>1, <1>2, <1>3, <1>4, PostedType
<1>7. /\ Continues(given.ledger, acct.ledger)
      /\ Len(given.ledger) = IF back = 0 THEN Len(acct.ledger) ELSE Len(acct.ledger) + 1
      /\ back # 0 => /\ given.ledger[Len(acct.ledger) + 1].order = tx[c].old
                     /\ given.ledger[Len(acct.ledger) + 1].type = "reversal"
                     /\ given.ledger[Len(acct.ledger) + 1].amount = back
    BY <1>1, <1>2, <1>3, <1>4, MutateRows
<1> HIDE DEF given
<1>8. tx[c].read + back \in Int /\ -take \in Int /\ (-take = 0 <=> take = 0)
    BY <1>1
<1>9. /\ Continues(taken.ledger, given.ledger)
      /\ Len(taken.ledger) = IF -take = 0 THEN Len(given.ledger) ELSE Len(given.ledger) + 1
      /\ -take # 0 => /\ taken.ledger[Len(given.ledger) + 1].order = tx[c].order
                      /\ taken.ledger[Len(given.ledger) + 1].type = "order_debit"
                      /\ taken.ledger[Len(given.ledger) + 1].amount = -take
    BY <1>1, <1>4, <1>6, <1>8, MutateRows
<1> HIDE DEF taken
<1> DEFINE l == acct.ledger
           g == given.ledger
           m == taken.ledger
<1>10. Len(l) \in Nat /\ Len(g) \in Nat /\ Len(m) \in Nat
    BY <1>7, <1>9 DEF Continues
<1>11. SettledRows(m, l, tx[c].old, back, tx[c].order, take)
  <2> HIDE DEF l, g, m
  <2>1. /\ Continues(g, l)
        /\ Len(g) = IF back = 0 THEN Len(l) ELSE Len(l) + 1
        /\ back # 0 => /\ g[Len(l) + 1].order = tx[c].old
                       /\ g[Len(l) + 1].type = "reversal" /\ g[Len(l) + 1].amount = back
      BY <1>7 DEF l, g
  <2>2. /\ Continues(m, g)
        /\ Len(m) = IF take = 0 THEN Len(g) ELSE Len(g) + 1
        /\ take # 0 => /\ m[Len(g) + 1].order = tx[c].order
                       /\ m[Len(g) + 1].type = "order_debit" /\ m[Len(g) + 1].amount = -take
      BY <1>8, <1>9 DEF g, m
  <2>3. Continues(m, l)
      BY <2>1, <2>2 DEF Continues
  <2>4. back # 0 => Len(l) + 1 = Len(g) /\ m[Len(l) + 1] = g[Len(l) + 1]
      BY <1>10, <2>1, <2>2 DEF Continues
  <2>5. ASSUME NEW i \in 1..Len(m), i > Len(l)
        PROVE  \/ back # 0 /\ i = Len(l) + 1
               \/ take # 0 /\ i = Len(m) /\ i = Len(g) + 1
      BY <1>10, <2>1, <2>2, <2>5
  <2> QED
      BY <1>10, <2>1, <2>2, <2>3, <2>4, <2>5 DEF SettledRows
<1> QED
    BY <1>5, <1>11 DEF acct, back, take

\* An order that is neither replaced nor new keeps its rows.
LEMMA AgreesOther ==
    ASSUME NEW l, NEW m, NEW old, NEW back, NEW new, NEW take,
           SettledRows(m, l, old, back, new, take), NEW o, o # old, o # new,
           NEW row, Agrees(row, o, l)
    PROVE  Agrees(row, o, m)
BY AgreesKept DEF SettledRows

\* The replaced order gets its one reversal.
LEMMA AgreesReplaced ==
    ASSUME NEW acct \in Ledger!Accounts, NEW m, NEW old, NEW row \in Orders, NEW new,
           old # new, NEW take, SettledRows(m, acct.ledger, old, row.total, new, take),
           row.source \in ScannedSources, row.status = "active",
           Agrees(row, old, acct.ledger), NEW closed, closed.total = row.total,
           closed.source = row.source, closed.status = "superseded"
    PROVE  Agrees(closed, old, m)
<1> DEFINE l == acct.ledger
<1>1. Len(l) \in Nat /\ Len(m) \in Nat /\ row.total \in Nat /\ Continues(m, l)
    BY DEF SettledRows, Continues, Orders
<1>2. RowsIn(l, old, "reversal") = {}
    BY RowsFinite DEF Agrees
<1>3. RowsIn(m, old, "order_debit") = RowsIn(l, old, "order_debit")
    BY <1>1, RowsKept DEF SettledRows
<1>4. \A i \in RowsIn(l, old, "order_debit") : m[i] = l[i]
    BY <1>1 DEF RowsIn, Continues
<1>5. RowsIn(m, old, "reversal") = IF row.total = 0 THEN {} ELSE {Len(l) + 1}
  <2> HIDE DEF l
  <2>1. SettledRows(m, l, old, row.total, new, take)
      BY DEF l
  <2>2. ASSUME NEW i \in 1..Len(m), i <= Len(l)
        PROVE  ~(m[i].order = old /\ m[i].type = "reversal")
    <3>1. i \in 1..Len(l) /\ m[i] = l[i]
        BY <1>1, <2>2 DEF Continues
    <3> QED
        BY <1>2, <3>1 DEF RowsIn
  <2>3. ASSUME NEW i \in 1..Len(m), i > Len(l)
        PROVE  m[i].order = old /\ m[i].type = "reversal"
                   <=> row.total # 0 /\ i = Len(l) + 1
      BY <2>1, <2>3 DEF SettledRows
  <2>4. row.total # 0 => Len(l) + 1 \in 1..Len(m)
      BY <1>1, <2>1 DEF SettledRows
  <2> QED
      BY <1>1, <2>2, <2>3, <2>4 DEF RowsIn
<1>6. Cardinality({Len(l) + 1}) = 1 /\ Cardinality({}) = 0
    BY FS_Singleton, FS_EmptySet
<1>7. row.total # 0 => m[Len(l) + 1].amount = row.total
    BY DEF SettledRows
<1> HIDE DEF l
<1>8. Agrees(row, old, l)
    BY DEF l
<1>9. Cardinality(RowsIn(m, old, "reversal")) = IF closed.total > 0 THEN 1 ELSE 0
  <2>1. CASE row.total = 0
    <3>1. Cardinality(RowsIn(m, old, "reversal")) = 0
        BY <1>5, <1>6, <2>1
    <3>2. ~(closed.total > 0)
        BY <2>1
    <3> QED
        BY <3>1, <3>2
  <2>2. CASE row.total > 0
    <3>1. RowsIn(m, old, "reversal") = {Len(l) + 1}
        BY <1>5, <2>2
    <3> QED
        BY <1>6, <2>2, <3>1
  <2> QED
      BY <1>1, <2>1, <2>2
<1>10. Cardinality(RowsIn(m, old, "order_debit")) = IF closed.total > 0 THEN 1 ELSE 0
    BY <1>3, <1>8 DEF Agrees
<1>11. \A i \in RowsIn(m, old, "order_debit") : m[i].amount = -closed.total
    BY <1>3, <1>4, <1>8 DEF Agrees
<1>12. \A i \in RowsIn(m, old, "reversal") : m[i].amount = closed.total
    BY <1>5, <1>7
<1> QED
    BY <1>9, <1>10, <1>11, <1>12 DEF Agrees

\* The new order has its one debit, and no other row: no row named it before.
LEMMA AgreesNew ==
    ASSUME NEW l, NEW m, NEW old, NEW back, NEW new, old # new, NEW take \in Nat,
           SettledRows(m, l, old, back, new, take),
           \A i \in 1..Len(l) : l[i].order # new,
           NEW row, row.source \in ScannedSources, row.status = "active", row.total = take
    PROVE  Agrees(row, new, m)
<1>1. Len(l) \in Nat /\ Len(m) \in Nat /\ Continues(m, l)
    BY DEF SettledRows, Continues
<1>2. ASSUME NEW i \in 1..Len(m), i <= Len(l)
      PROVE  m[i].order # new
  <2>1. i \in 1..Len(l) /\ m[i] = l[i]
      BY <1>1, <1>2 DEF Continues
  <2> QED
      BY <2>1
<1>3. ASSUME NEW i \in 1..Len(m), i > Len(l)
      PROVE  m[i].order = new => m[i].type = "order_debit" /\ take # 0 /\ i = Len(m)
    BY <1>3 DEF SettledRows
<1>4. take # 0 => /\ Len(m) \in 1..Len(m) /\ m[Len(m)].order = new
                  /\ m[Len(m)].type = "order_debit" /\ m[Len(m)].amount = -take
    BY <1>1 DEF SettledRows
<1>5. RowsIn(m, new, "reversal") = {}
    BY <1>1, <1>2, <1>3 DEF RowsIn
<1>6. RowsIn(m, new, "order_debit") = IF take = 0 THEN {} ELSE {Len(m)}
    BY <1>1, <1>2, <1>3, <1>4 DEF RowsIn
<1>7. Cardinality({Len(m)}) = 1 /\ Cardinality({}) = 0
    BY FS_Singleton, FS_EmptySet
<1>8. Cardinality(RowsIn(m, new, "order_debit")) = IF row.total > 0 THEN 1 ELSE 0
  <2>1. CASE take = 0
    <3>1. RowsIn(m, new, "order_debit") = {}
        BY <1>6, <2>1
    <3> QED
        BY <1>7, <2>1, <3>1, SMTT(30)
  <2>2. CASE take > 0
    <3>1. RowsIn(m, new, "order_debit") = {Len(m)}
        BY <1>6, <2>2
    <3> QED
        BY <1>7, <2>2, <3>1
  <2> QED
      BY <2>1, <2>2
<1>9. Cardinality(RowsIn(m, new, "reversal")) = 0
    BY <1>5, <1>7
<1>10. \A i \in RowsIn(m, new, "order_debit") : m[i].amount = -row.total
    BY <1>4, <1>6
<1>11. \A i \in RowsIn(m, new, "reversal") : m[i].amount = row.total
    BY <1>5
<1> QED
    BY <1>8, <1>9, <1>10, <1>11 DEF Agrees

\* An order that is not paid from the account has no row at all.
LEMMA AgreesUnpaid ==
    ASSUME NEW l, NEW o, NEW row, row.source \notin ScannedSources,
           \A i \in 1..Len(l) : l[i].order # o
    PROVE  Agrees(row, o, l)
<1>1. RowsIn(l, o, "reversal") = {} /\ RowsIn(l, o, "order_debit") = {}
    BY DEF RowsIn
<1>2. Cardinality({}) = 0
    BY FS_EmptySet
<1> QED
    BY <1>1, <1>2 DEF Agrees

-----------------------------------------------------------------------------
(* Steps that write orders *)

\* The other requests are still informed when request c ends, if the orders
\* they settle and the lists they rely on are as before.
LEMMA OthersInformed ==
    ASSUME TypeOK, OrdersInv, NEW c \in Clients, Becomes(c, IdleTx),
           UNCHANGED <<menu, policy, active>>,
           \A d \in Clients \ {c} : tx[d].pc \in Deciding =>
               orders'[tx[d].order] = orders[tx[d].order],
           \A d \in Clients \ {c} :
               (tx[d].pc \in {"found", "settled"} /\ Scanned(tx[d].route)) =>
                   \A o \in OrderIds : Listed(orders'[o], tx[d].user, tx[d].date)
                                         <=> Listed(orders[o], tx[d].user, tx[d].date)
    PROVE  (\A d \in Clients : Informed(tx[d])') /\ DecidedByOne'
<1>1. tx'[c] = IdleTx /\ \A d \in Clients \ {c} : tx'[d] = tx[d]
    BY DEF Becomes, TypeOK
<1>2. Informed(tx[c])'
    BY <1>1 DEF Informed, IdleTx, CreatingPcs
<1>3. ASSUME NEW d \in Clients \ {c}
      PROVE  Informed(tx[d])'
  <2> DEFINE t == tx[d]
  <2>1. Informed(t) /\ tx'[d] = t
      BY <1>1 DEF OrdersInv
  <2>2. ASSUME t.pc \in {"found", "settled"}, Scanned(t.route)
        PROVE  {o \in OrderIds : Listed(orders'[o], t.user, t.date)}
                 = IF t.old = None THEN {} ELSE {t.old}
    <3>1. Actives(t.user, t.date, ScannedSources)
            = {o \in OrderIds : Listed(orders[o], t.user, t.date)}
        BY DEF Actives, Exists, Listed
    <3> QED
        BY <2>1, <2>2, <3>1 DEF Informed
  <2>3. t.pc \in Deciding => orders'[t.order] = orders[t.order]
      OBVIOUS
  <2>4. /\ t.pc \in {"priced", "limited", "found", "settled"} =>
             /\ "menu" \in t.locks /\ t.quote = Quote(tx[d].cart)'
             /\ Orderable(tx[d].route, tx[d].cart)'
        /\ t.pc \in {"limited", "found", "settled"} =>
             "policy" \in t.locks /\ WithinLimits(tx[d].route, tx[d].quote)'
        /\ t.pc \in CreatingPcs /\ Scanned(t.route) => "user" \in t.locks /\ active'[t.user]
      BY <2>1 DEF Informed, Quote, Subtotal, Line, Orderable, WithinLimits
  <2>5. Actives(tx[d].user, tx[d].date, ScannedSources)'
          = {o \in OrderIds : Listed(orders'[o], t.user, t.date)}
      BY <2>1 DEF Actives, Exists, Listed
  <2>6. t.pc \in Deciding => Pending(tx[d].order)' /\ "order" \in t.locks
      BY <2>1, <2>3 DEF Informed, Deciding, Pending, Exists
  <2>7. t.old # None => t.pc \in {"found", "settled"} /\ Scanned(t.route)
      BY <2>1 DEF Informed
  <2> HIDE DEF t
  <2> QED
      BY <2>1, <2>2, <2>4, <2>5, <2>6, <2>7 DEF Informed, Deciding
<1>4. DecidedByOne'
    BY <1>1 DEF OrdersInv, DecidedByOne, IdleTx
<1> QED
    BY <1>2, <1>3, <1>4

\* An order that was there is still there.
LEMMA StillThere ==
    ASSUME NEW T \in Tables, NEW U \in Tables, NEW n, NEW row, NEW old,
           Replaces(T, U, n, row, old), NEW o \in OrderIds, T[o] # None
    PROVE  U[o] # None /\ o # n
<1>1. o # n
    BY DEF Replaces
<1>2. CASE o = old
    BY <1>1, <1>2, ClosedRow
<1>3. CASE o # old
    BY <1>1, <1>3 DEF Replaces
<1> QED
    BY <1>1, <1>2, <1>3

\* What request c has when it commits its order.
CommitFacts(c) ==
    /\ tx[c].pc \in {"found", "settled"}
    /\ tx[c].user \in Users /\ tx[c].date \in Dates
    /\ tx[c].order \in OrderIds /\ orders[tx[c].order] = None
    /\ NewOrder(c) \in Orders
    /\ NewOrder(c).user = tx[c].user /\ NewOrder(c).date = tx[c].date
    /\ NewOrder(c).status = "active" /\ NewOrder(c).by = None
    /\ NewOrder(c).total = QuoteTotal(tx[c].quote)
    /\ Scanned(tx[c].route) <=> NewOrder(c).source \in ScannedSources
    /\ Scanned(tx[c].route) => NewOrder(c).payment = "paid"
    /\ ~Scanned(tx[c].route) => /\ NewOrder(c).payment = "unpaid"
                                /\ NewOrder(c).source = "relative"
                                /\ tx[c].old = None
    /\ Scanned(tx[c].route) => tx[c].pc = "settled"
    /\ tx[c].old # None => tx[c].old \in OrderIds /\ orders[tx[c].old] # None

LEMMA CommitKnows ==
    ASSUME TypeOK, LockDiscipline, OrdersInv, NEW c \in Clients,
           \/ tx[c].pc = "settled"
           \/ tx[c].pc = "found" /\ tx[c].route = "relative"
    PROVE  CommitFacts(c)
<1>1. /\ tx[c].pc \in {"found", "settled"} /\ Creating(c)
      /\ tx[c].user \in Users /\ tx[c].date \in Dates /\ tx[c].route \in Routes
      /\ tx[c].order \in OrderIds /\ orders[tx[c].order] = None
    BY DEF Creating, CreatingPcs, LockDiscipline, DrawnIdsAreNew, Exists
<1>2. NewOrder(c) \in Orders
    BY <1>1, NewOrderType
<1>3. /\ NewOrder(c).user = tx[c].user /\ NewOrder(c).date = tx[c].date
      /\ NewOrder(c).status = "active" /\ NewOrder(c).by = None
      /\ NewOrder(c).total = QuoteTotal(tx[c].quote)
      /\ NewOrder(c).source = Source(tx[c].route)
      /\ NewOrder(c).payment = IF Scanned(tx[c].route) THEN "paid" ELSE "unpaid"
    BY DEF NewOrder
<1>4. Scanned(tx[c].route) => Source(tx[c].route) \in ScannedSources
    BY DEF Scanned, ScannedRoutes, Source, ScannedSources
<1>5. ~Scanned(tx[c].route) => /\ Source(tx[c].route) = "relative"
                               /\ Source(tx[c].route) \notin ScannedSources
    BY <1>1, SchemaAssumption DEF Scanned, ScannedRoutes, Source, ScannedSources
<1>6. tx[c].old # None => /\ Scanned(tx[c].route)
                          /\ tx[c].old \in OrderIds /\ orders[tx[c].old] # None
    BY DEF OrdersInv, Informed, LockDiscipline, CreatingInOrder, Exists, TypeOK, Txs
<1>7. Scanned(tx[c].route) => tx[c].pc = "settled"
    BY DEF Scanned, ScannedRoutes
<1> QED
    BY <1>1, <1>2, <1>3, <1>4, <1>5, <1>6, <1>7 DEF CommitFacts

\* The insert replaces what the request found.
LEMMA CommitReplaces ==
    ASSUME TypeOK, OrdersInv, NEW c \in Clients, CommitFacts(c), orders' = WithNewOrder(c)
    PROVE  Replaces(orders, orders', tx[c].order, NewOrder(c), tx[c].old)
<1>1. orders'[tx[c].order] = NewOrder(c)
    BY NoneAssumption DEF CommitFacts, WithNewOrder
<1>2. tx[c].old \in OrderIds => orders'[tx[c].old]
        = [orders[tx[c].old] EXCEPT !.status = "superseded", !.by = tx[c].order]
    BY NoneAssumption DEF CommitFacts, WithNewOrder
<1>3. \A o \in OrderIds \ {tx[c].order, tx[c].old} : orders'[o] = orders[o]
    BY DEF WithNewOrder
<1>4. Scanned(tx[c].route) =>
        \A o \in OrderIds : Listed(orders[o], tx[c].user, tx[c].date) <=> o = tx[c].old
  <2>1. Scanned(tx[c].route) =>
          {o \in OrderIds : Listed(orders[o], tx[c].user, tx[c].date)}
             = IF tx[c].old = None THEN {} ELSE {tx[c].old}
      BY DEF CommitFacts, OrdersInv, Informed, Actives, Listed, Exists
  <2> QED
      BY <2>1, NoneAssumption
<1> QED
    BY <1>1, <1>2, <1>3, <1>4 DEF CommitFacts, Replaces

\* Nobody else relied on the orders that request c changes.
LEMMA CommitLeavesOthers ==
    ASSUME TypeOK, TypeOK', LockDiscipline, OrdersInv, NEW c \in Clients, CommitFacts(c),
           Replaces(orders, orders', tx[c].order, NewOrder(c), tx[c].old),
           Becomes(c, IdleTx), UNCHANGED <<menu, policy, active>>
    PROVE  (\A d \in Clients : Informed(tx[d])') /\ DecidedByOne'
<1> DEFINE n == tx[c].order
           old == tx[c].old
           row == NewOrder(c)
<1>1. orders \in Tables /\ orders' \in Tables
    BY DEF TypeOK, Tables
<1>2. ASSUME NEW d \in Clients \ {c}, tx[d].pc \in Deciding
      PROVE  orders'[tx[d].order] = orders[tx[d].order]
  <2>1. /\ tx[d].order \in OrderIds /\ orders[tx[d].order] # None
        /\ orders[tx[d].order].source = "relative"
      BY <1>2 DEF OrdersInv, Informed, Pending, Exists, Deciding, LockDiscipline,
                  CreatingInOrder
  <2>2. tx[d].order # n
      BY <2>1 DEF CommitFacts
  <2>3. tx[d].order # old
      BY <1>1, <2>1, ClosedRow DEF Listed, ScannedSources
  <2> QED
      BY <2>1, <2>2, <2>3 DEF Replaces
<1>3. ASSUME NEW d \in Clients \ {c}, tx[d].pc \in {"found", "settled"},
             Scanned(tx[d].route), NEW o \in OrderIds
      PROVE  Listed(orders'[o], tx[d].user, tx[d].date)
                <=> Listed(orders[o], tx[d].user, tx[d].date)
  <2>1. row.source \in ScannedSources => tx[d].user # row.user
    <3>1. tx[d].user \in Users /\ "account" \in tx[d].locks
        BY <1>3 DEF LockDiscipline, DrawnIdsAreNew, CreatingInOrder, Creating, CreatingPcs
    <3>2. row.source \in ScannedSources => "account" \in tx[c].locks
        BY DEF LockDiscipline, CreatingInOrder, CommitFacts
    <3>3. row.user = tx[c].user
        BY DEF CommitFacts
    <3> QED
        BY <3>1, <3>2, <3>3 DEF LockDiscipline, AccountMutex, HoldsAccount
  <2>2. o = n => ~Listed(orders[o], tx[d].user, tx[d].date)
      BY DEF CommitFacts, Listed
  <2>3. o = old => ~Listed(orders[o], tx[d].user, tx[d].date)
      BY <1>1, <2>1, ClosedRow DEF Listed
  <2>4. Listed(orders'[o], tx[d].user, tx[d].date) <=>
          \/ o = n /\ row.source \in ScannedSources
             /\ tx[d].user = row.user /\ tx[d].date = row.date
          \/ o # n /\ o # old /\ Listed(orders[o], tx[d].user, tx[d].date)
    <3>1. Replaces(orders, orders', n, row, old)
        OBVIOUS
    <3> HIDE DEF n, row, old
    <3> QED
        BY <1>1, <3>1, ListedAfter
  <2> QED
      BY <2>1, <2>2, <2>3, <2>4
<1> QED
    BY <1>2, <1>3, OthersInformed

\* The orders are still in order.
LEMMA CommitKeepsTrail ==
    ASSUME TypeOK, TypeOK', OrdersInv, NEW c \in Clients, CommitFacts(c),
           Replaces(orders, orders', tx[c].order, NewOrder(c), tx[c].old), UNCHANGED tg8
    PROVE  OneScanned' /\ SupersedeTrail' /\ SnapshotsWhole'
<1>1. orders \in Tables /\ orders' \in Tables
    BY DEF TypeOK, Tables
<1>2. OneScanned'
    BY <1>1, OneScannedIs, OneScannedAfter DEF OrdersInv
<1>3. SupersedeTrail'
    BY <1>1, TrailIs, TrailAfter DEF OrdersInv
<1>4. ASSUME NEW o \in OrderIds
      PROVE  /\ tg8'[o] # None <=> orders'[o] # None /\ orders'[o].source = "relative"
                                   /\ orders'[o].payment = "paid"
             /\ tg8'[o] # None => tg8'[o] = orders'[o].total
             /\ orders'[o] # None /\ orders'[o].status = "rejected"
                   => orders'[o].payment = "unpaid"
  <2>1. /\ tg8[o] # None <=> orders[o] # None /\ orders[o].source = "relative"
                              /\ orders[o].payment = "paid"
        /\ tg8[o] # None => tg8[o] = orders[o].total
        /\ orders[o] # None /\ orders[o].status = "rejected" => orders[o].payment = "unpaid"
      BY DEF OrdersInv, SnapshotsWhole, Exists
  <2>2. CASE o = tx[c].order
      BY <2>1, <2>2 DEF CommitFacts, Replaces, ScannedSources
  <2>3. CASE o # tx[c].order /\ o = tx[c].old
      BY <1>1, <2>1, <2>3, ClosedRow DEF Listed, ScannedSources
  <2>4. CASE o # tx[c].order /\ o # tx[c].old
      BY <2>1, <2>4 DEF Replaces
  <2> QED
      BY <2>2, <2>3, <2>4
<1>5. SnapshotsWhole'
    BY <1>4 DEF SnapshotsWhole, Exists
<1> QED
    BY <1>2, <1>3, <1>5

\* Every ledger after the commit of a new order, and its rows.
LEMMA CommitLedgers ==
    ASSUME TypeOK, LockDiscipline, NEW c \in Clients, CommitFacts(c),
           account' = IF Scanned(tx[c].route)
                      THEN [account EXCEPT ![tx[c].user] = SettledAccount(c)]
                      ELSE account,
           NEW u \in Users
    PROVE  IF Scanned(tx[c].route) /\ u = tx[c].user
           THEN SettledRows(account'[u].ledger, account[u].ledger,
                            tx[c].old, Refund(c), tx[c].order, QuoteTotal(tx[c].quote))
           ELSE account'[u] = account[u]
<1>1. CASE Scanned(tx[c].route) /\ u = tx[c].user
  <2>1. account'[u] = SettledAccount(c)
      BY <1>1 DEF TypeOK
  <2>2. tx[c].pc = "settled"
      BY <1>1 DEF CommitFacts
  <2> QED
      BY <1>1, <2>1, <2>2, SettledLedger
<1>2. CASE ~(Scanned(tx[c].route) /\ u = tx[c].user)
    BY <1>2 DEF TypeOK
<1> QED
    BY <1>1, <1>2

\* Rows still name orders that exist.
LEMMA CommitNamesOrders ==
    ASSUME TypeOK, TypeOK', LockDiscipline, OrdersInv, NEW c \in Clients, CommitFacts(c),
           Replaces(orders, orders', tx[c].order, NewOrder(c), tx[c].old),
           account' = IF Scanned(tx[c].route)
                      THEN [account EXCEPT ![tx[c].user] = SettledAccount(c)]
                      ELSE account
    PROVE  RowsNameOrders'
<1>1. orders \in Tables /\ orders' \in Tables
    BY DEF TypeOK, Tables
<1>2. \A o \in OrderIds : orders[o] # None => orders'[o] # None
    BY <1>1, StillThere
<1>3. orders'[tx[c].order] # None /\ tx[c].order \in OrderIds
    BY NullAssumption DEF CommitFacts, Replaces
<1>4. tx[c].old # None => tx[c].old \in OrderIds /\ orders'[tx[c].old] # None
    BY <1>2 DEF CommitFacts
<1>5. Refund(c) # 0 => tx[c].old # None
    BY DEF Refund
<1>6. ASSUME NEW u \in Users, NEW i \in 1..Len(account'[u].ledger),
             account'[u].ledger[i].order # None
      PROVE  /\ account'[u].ledger[i].order \in OrderIds
             /\ orders'[account'[u].ledger[i].order] # None
  <2> DEFINE l == account[u].ledger
             m == account'[u].ledger
  <2>1. IF Scanned(tx[c].route) /\ u = tx[c].user
        THEN SettledRows(m, l, tx[c].old, Refund(c), tx[c].order, QuoteTotal(tx[c].quote))
        ELSE m = l
      BY CommitLedgers
  <2>2. \A j \in 1..Len(l) : l[j].order # None =>
            l[j].order \in OrderIds /\ orders[l[j].order] # None
      BY DEF OrdersInv, RowsNameOrders, Exists
  <2> HIDE DEF l, m
  <2>3. i \in 1..Len(m) /\ m[i].order # None
      BY <1>6 DEF m
  <2>4. CASE m = l
      BY <1>2, <2>2, <2>3, <2>4 DEF m
  <2>5. CASE SettledRows(m, l, tx[c].old, Refund(c), tx[c].order, QuoteTotal(tx[c].quote))
    <3>1. CASE i > Len(l)
      <4>1. \/ Refund(c) # 0 /\ m[i].order = tx[c].old
            \/ m[i].order = tx[c].order
          BY <2>3, <2>5, <3>1 DEF SettledRows
      <4> QED
          BY <1>3, <1>4, <1>5, <4>1 DEF m
    <3>2. CASE ~(i > Len(l))
      <4>1. i \in 1..Len(l) /\ m[i] = l[i]
          BY <2>3, <2>5, <3>2 DEF SettledRows, Continues
      <4> QED
          BY <1>2, <2>2, <2>3, <4>1 DEF m
    <3> QED
        BY <3>1, <3>2
  <2> QED
      BY <2>1, <2>4, <2>5
<1> QED
    BY <1>6 DEF RowsNameOrders, Exists

\* The ledger still agrees with every order.
LEMMA CommitAgrees ==
    ASSUME TypeOK, TypeOK', LockDiscipline, OrdersInv, NEW c \in Clients, CommitFacts(c),
           Replaces(orders, orders', tx[c].order, NewOrder(c), tx[c].old),
           account' = IF Scanned(tx[c].route)
                      THEN [account EXCEPT ![tx[c].user] = SettledAccount(c)]
                      ELSE account
    PROVE  OrdersAndLedgerAgree'
<1> DEFINE n == tx[c].order
           old == tx[c].old
           row == NewOrder(c)
           back == Refund(c)
           take == QuoteTotal(tx[c].quote)
           L(u) == account[u].ledger
           M(u) == account'[u].ledger
<1>1. orders \in Tables /\ orders' \in Tables
    BY DEF TypeOK, Tables
<1>2. \A o \in OrderIds : orders[o] # None => Agrees(orders[o], o, L(orders[o].user))
    BY AgreesIs DEF OrdersInv
<1>3. n \in OrderIds /\ n # None /\ n # old /\ row.user = tx[c].user /\ tx[c].user \in Users
      /\ row.total = take /\ row.status = "active" /\ orders[n] = None
    BY NoneAssumption DEF CommitFacts
<1>4. \A u \in Users : \A i \in 1..Len(L(u)) : L(u)[i].order # n
    BY <1>3 DEF OrdersInv, RowsNameOrders, Exists
<1>5. take \in Nat
    BY QuoteTotalType DEF TypeOK, Txs
<1>6. \A u \in Users : IF Scanned(tx[c].route) /\ u = tx[c].user
                       THEN SettledRows(M(u), L(u), old, back, n, take)
                       ELSE M(u) = L(u)
    BY CommitLedgers
<1>7. Replaces(orders, orders', n, row, old)
    OBVIOUS
<1>8. Scanned(tx[c].route) <=> row.source \in ScannedSources
    BY DEF CommitFacts
<1>9. old \in OrderIds => back = orders[old].total
    BY NoneAssumption DEF Refund
<1>10. \A o \in OrderIds : orders[o] # None => orders[o] \in Orders /\ orders[o].user \in Users
    BY DEF TypeOK, Orders
<1>11. account[tx[c].user] \in Ledger!Accounts
    BY <1>3 DEF TypeOK
<1> SUFFICES ASSUME NEW o \in OrderIds, orders'[o] # None
             PROVE  Agrees(orders'[o], o, M(orders'[o].user))
    BY AgreesIs
<1>12. CASE o = n
  <2>1. orders'[o] = row
      BY <1>7, <1>12 DEF Replaces
  <2>2. CASE Scanned(tx[c].route)
    <3> DEFINE l == L(tx[c].user)
               m == M(tx[c].user)
    <3>1. SettledRows(m, l, old, back, n, take)
        BY <1>3, <1>6, <2>2
    <3>2. \A i \in 1..Len(l) : l[i].order # n
        BY <1>3, <1>4
    <3>3. row.source \in ScannedSources
        BY <1>8, <2>2
    <3> HIDE DEF l, m, row, n, old, back, take
    <3>4. Agrees(row, n, m)
        BY <1>3, <1>5, <3>1, <3>2, <3>3, AgreesNew
    <3> QED
        BY <1>3, <1>12, <2>1, <3>4 DEF m
  <2>3. CASE ~Scanned(tx[c].route)
    <3>1. M(tx[c].user) = L(tx[c].user) /\ row.source \notin ScannedSources
        BY <1>3, <1>6, <1>8, <2>3
    <3>2. Agrees(row, n, L(tx[c].user))
        BY <1>3, <1>4, <3>1, AgreesUnpaid
    <3> QED
        BY <1>3, <1>12, <2>1, <3>1, <3>2
  <2> QED
      BY <2>2, <2>3
<1>13. CASE o # n /\ o = old
  <2>1. /\ Listed(orders[old], row.user, row.date) /\ row.source \in ScannedSources
        /\ orders'[old].status = "superseded" /\ orders'[old].user = row.user
        /\ orders'[old].source = orders[old].source
        /\ orders'[old].total = orders[old].total
      BY <1>1, <1>7, <1>13, ClosedRow
  <2>2. /\ orders[old] # None /\ orders[old].user = tx[c].user
        /\ orders[old].source \in ScannedSources /\ orders[old].status = "active"
        /\ orders[old] \in Orders
      BY <1>3, <1>10, <1>13, <2>1 DEF Listed
  <2> DEFINE acct == account[tx[c].user]
             m == M(tx[c].user)
             was == orders[old]
             is == orders'[old]
  <2>3. SettledRows(m, acct.ledger, old, was.total, n, take)
      BY <1>3, <1>6, <1>8, <1>9, <1>13, <2>1
  <2>4. Agrees(was, old, acct.ledger)
      BY <1>2, <1>13, <2>2
  <2>5. acct \in Ledger!Accounts
      BY <1>11
  <2>6. /\ was \in Orders /\ was.source \in ScannedSources /\ was.status = "active"
        /\ is.total = was.total /\ is.source = was.source /\ is.status = "superseded"
      BY <2>1, <2>2
  <2>7. is.user = tx[c].user
      BY <1>3, <2>1
  <2> HIDE DEF acct, was, is, n, take, m
  <2>8. Agrees(is, old, m)
      BY <1>3, <2>3, <2>4, <2>5, <2>6, AgreesReplaced
  <2> QED
      BY <1>13, <2>7, <2>8 DEF is, m
<1>14. CASE o # n /\ o # old
  <2>1. orders'[o] = orders[o] /\ orders[o] # None
      BY <1>7, <1>14 DEF Replaces
  <2>2. Agrees(orders[o], o, L(orders[o].user)) /\ orders[o].user \in Users
      BY <1>2, <1>10, <2>1
  <2>3. CASE M(orders[o].user) = L(orders[o].user)
      BY <2>1, <2>2, <2>3
  <2>4. CASE SettledRows(M(orders[o].user), L(orders[o].user), old, back, n, take)
    <3> HIDE DEF L, M, old, back, n, take
    <3>1. Agrees(orders[o], o, M(orders[o].user))
        BY <1>14, <2>2, <2>4, AgreesOther
    <3> QED
        BY <2>1, <3>1
  <2> QED
      BY <1>6, <2>2, <2>3, <2>4
<1> QED
    BY <1>12, <1>13, <1>14

\* An order request that ends.
LEMMA CommitOrderStep ==
    ASSUME TypeOK, TypeOK', LockDiscipline, OrdersInv, NEW c \in Clients, CommitOrder(c)
    PROVE  OrdersInv'
<1>1. CASE Rollback(c)
    BY <1>1, RollbackStep
<1>2. ASSUME orders' = WithNewOrder(c),
             account' = IF Scanned(tx[c].route)
                        THEN [account EXCEPT ![tx[c].user] = SettledAccount(c)]
                        ELSE account,
             Becomes(c, IdleTx), UNCHANGED <<tg8, menu, policy, active, Catalogue>>
      PROVE  OrdersInv'
  <2>1. CommitFacts(c)
      BY CommitKnows DEF CommitOrder
  <2>2. Replaces(orders, orders', tx[c].order, NewOrder(c), tx[c].old)
      BY <1>2, <2>1, CommitReplaces
  <2>3. (\A d \in Clients : Informed(tx[d])') /\ DecidedByOne'
      BY <1>2, <2>1, <2>2, CommitLeavesOthers
  <2>4. OneScanned' /\ SupersedeTrail' /\ SnapshotsWhole'
      BY <1>2, <2>1, <2>2, CommitKeepsTrail
  <2>5. RowsNameOrders' /\ OrdersAndLedgerAgree'
      BY <1>2, <2>1, <2>2, CommitNamesOrders, CommitAgrees
  <2> QED
      BY <2>3, <2>4, <2>5 DEF OrdersInv
<1> QED
    BY <1>1, <1>2 DEF CommitOrder

\* A top-up that ends.
LEMMA CommitTopupStep ==
    ASSUME TypeOK, TypeOK', LockDiscipline, OrdersInv, NEW c \in Clients, CommitTopup(c)
    PROVE  OrdersInv'
<1>1. /\ tx[c].user \in Users /\ tx[c].read \in Int /\ tx[c].amount \in Int
      /\ UNCHANGED <<orders, tg8, menu, policy, active>> /\ Becomes(c, IdleTx)
      /\ account' = [account EXCEPT ![tx[c].user] =
                        Mutate(@, tx[c].read, "topup", tx[c].amount, None)]
    BY DEF CommitTopup, LockDiscipline, ReadIsFresh, TypeOK, Txs
<1>2. (\A d \in Clients : Informed(tx[d])') /\ DecidedByOne'
    BY <1>1, OthersInformed
<1>3. OneScanned' /\ SupersedeTrail' /\ SnapshotsWhole'
  <2>1. OneScanned' /\ SnapshotsWhole'
      BY <1>1 DEF OrdersInv, OneScanned, SnapshotsWhole, Actives, Exists
  <2>2. SupersedeTrail'
      BY <1>1, TrailIs DEF OrdersInv
  <2> QED
      BY <2>1, <2>2
\* The one row it adds names no order.
<1>4. ASSUME NEW u \in Users
      PROVE  /\ Continues(account'[u].ledger, account[u].ledger)
             /\ \A i \in 1..Len(account'[u].ledger) :
                    i > Len(account[u].ledger) => account'[u].ledger[i].order = None
  <2>1. account[u] \in Ledger!Accounts /\ Len(account[u].ledger) \in Nat
      BY DEF TypeOK, Ledger!Accounts
  <2>2. CASE u = tx[c].user
    <3> DEFINE l == account[u].ledger
               m == account'[u].ledger
    <3>1. m = Mutate(account[u], tx[c].read, "topup", tx[c].amount, None).ledger
        BY <1>1, <2>2 DEF TypeOK
    <3>2. /\ Continues(m, l)
          /\ Len(m) = IF tx[c].amount = 0 THEN Len(l) ELSE Len(l) + 1
          /\ tx[c].amount # 0 => m[Len(l) + 1].order = None
        BY <1>1, <2>1, <3>1, MutateRows DEF Ledger!RowTypes
    <3>3. Len(l) \in Nat
        BY <2>1
    <3> HIDE DEF l, m
    <3>4. \A i \in 1..Len(m) : i > Len(l) => m[i].order = None
        BY <3>2, <3>3
    <3> QED
        BY <3>2, <3>4 DEF l, m
  <2>3. CASE u # tx[c].user
    <3>1. account'[u] = account[u]
        BY <1>1, <2>3 DEF TypeOK
    <3> QED
        BY <2>1, <3>1 DEF Continues
  <2> QED
      BY <2>2, <2>3
<1>5. RowsNameOrders'
  <2> SUFFICES ASSUME NEW u \in Users, NEW i \in 1..Len(account'[u].ledger),
                      account'[u].ledger[i].order # None
               PROVE  /\ account'[u].ledger[i].order \in OrderIds
                      /\ orders'[account'[u].ledger[i].order] # None
      BY DEF RowsNameOrders, Exists
  <2>1. i \in 1..Len(account[u].ledger) /\ account'[u].ledger[i] = account[u].ledger[i]
      BY <1>4 DEF Continues
  <2> QED
      BY <1>1, <2>1 DEF OrdersInv, RowsNameOrders, Exists
<1>6. OrdersAndLedgerAgree'
  <2> SUFFICES ASSUME NEW o \in OrderIds, orders'[o] # None
               PROVE  Agrees(orders'[o], o, account'[orders'[o].user].ledger)
      BY AgreesIs
  <2>1. /\ orders'[o] = orders[o] /\ orders[o].user \in Users
        /\ Agrees(orders[o], o, account[orders[o].user].ledger)
      BY <1>1, AgreesIs DEF OrdersInv, TypeOK, Orders
  <2>2. /\ Continues(account'[orders[o].user].ledger, account[orders[o].user].ledger)
        /\ \A i \in 1..Len(account'[orders[o].user].ledger) :
               i > Len(account[orders[o].user].ledger)
                   => account'[orders[o].user].ledger[i].order # o
      BY <1>4, <2>1, NoneAssumption
  <2> QED
      BY <2>1, <2>2, AgreesKept
<1> QED
    BY <1>2, <1>3, <1>5, <1>6 DEF OrdersInv

\* A cashier's decision that ends: only the pending order's row changes, and
\* it stays a relative order.
LEMMA DecisionStep ==
    ASSUME TypeOK, TypeOK', LockDiscipline, OrdersInv, NEW c \in Clients,
           tx[c].pc \in Deciding, Becomes(c, IdleTx),
           UNCHANGED <<account, menu, policy, active>>, SnapshotsWhole',
           NEW row \in Orders, orders' = [orders EXCEPT ![tx[c].order] = row],
           row.user = orders[tx[c].order].user, row.date = orders[tx[c].order].date,
           row.source = orders[tx[c].order].source, row.total = orders[tx[c].order].total,
           row.by = orders[tx[c].order].by, row.status # "superseded"
    PROVE  OrdersInv'
<1> DEFINE o == tx[c].order
<1>1. /\ o \in OrderIds /\ orders[o] # None /\ orders[o].source = "relative"
      /\ orders[o].status = "active"
    BY DEF OrdersInv, Informed, Pending, Exists, Deciding, LockDiscipline, CreatingInOrder
<1>2. orders \in Tables /\ orders' \in Tables
    BY DEF TypeOK, Tables
<1>3. orders'[o] = row /\ row # None /\ \A p \in OrderIds \ {o} : orders'[p] = orders[p]
    BY <1>1, NullAssumption DEF TypeOK
<1>4. ASSUME NEW p \in OrderIds
      PROVE  /\ (orders'[p] # None) <=> (orders[p] # None)
             /\ orders[p] # None =>
                  /\ orders'[p].user = orders[p].user /\ orders'[p].date = orders[p].date
                  /\ orders'[p].source = orders[p].source
                  /\ orders'[p].by = orders[p].by /\ orders'[p].total = orders[p].total
                  /\ (orders'[p].status = "superseded") <=> (orders[p].status = "superseded")
    BY <1>1, <1>3
<1>5. ASSUME NEW p \in OrderIds, NEW u, NEW d
      PROVE  Listed(orders'[p], u, d) <=> Listed(orders[p], u, d)
    BY <1>1, <1>3 DEF Listed, ScannedSources
<1>6. (\A d \in Clients : Informed(tx[d])') /\ DecidedByOne'
  <2>1. ASSUME NEW d \in Clients \ {c}, tx[d].pc \in Deciding
        PROVE  orders'[tx[d].order] = orders[tx[d].order]
    <3>1. tx[d].order # o /\ tx[d].order \in OrderIds
        BY <2>1 DEF OrdersInv, DecidedByOne, Deciding, LockDiscipline, CreatingInOrder
    <3> QED
        BY <1>3, <3>1
  <2> QED
      BY <1>5, <2>1, OthersInformed
<1>7. OneScanned'
    BY <1>5, OneScannedIs DEF OrdersInv
<1>8. SupersedeTrail'
  <2>1. \A u, d : ListedIds(orders', u, d) = ListedIds(orders, u, d)
      BY <1>5 DEF ListedIds
  <2>2. Trail(orders)
      BY TrailIs DEF OrdersInv
  <2>3. ASSUME NEW p \in OrderIds, orders'[p] # None
        PROVE  TrailOf(orders', p)
    <3>1. orders[p] # None /\ TrailOf(orders, p) /\ orders[p] \in Orders
        BY <1>2, <1>4, <2>2, <2>3 DEF Trail, Tables
    <3>2. CASE orders[p].status # "superseded"
        BY <1>4, <3>1, <3>2 DEF TrailOf
    <3>3. CASE orders[p].status = "superseded"
      <4> DEFINE next == orders[p].by
      <4>1. /\ next # None /\ next \in OrderIds
            /\ orders[next] # None /\ orders[next].user = orders[p].user
            /\ orders[next].date = orders[p].date /\ orders[next].source \in ScannedSources
            /\ Cardinality(ListedIds(orders, orders[p].user, orders[p].date)) = 1
            /\ \A q \in OrderIds \ {p} : orders[q] # None => orders[q].by # next
          BY <3>1, <3>3 DEF TrailOf, Orders
      <4>2. /\ orders'[p].by = next /\ orders'[p].user = orders[p].user
            /\ orders'[p].date = orders[p].date /\ orders'[p].status = "superseded"
          BY <1>4, <3>1, <3>3
      <4> HIDE DEF next
      <4>3. /\ orders'[next] # None /\ orders'[next].user = orders[p].user
            /\ orders'[next].date = orders[p].date /\ orders'[next].source \in ScannedSources
          BY <1>4, <4>1
      <4>4. \A q \in OrderIds \ {p} : orders'[q] # None => orders'[q].by # next
          BY <1>4, <4>1
      <4>5. Cardinality(ListedIds(orders', orders'[p].user, orders'[p].date)) = 1
          BY <2>1, <4>1, <4>2
      <4> QED
          BY <4>1, <4>2, <4>3, <4>4, <4>5 DEF TrailOf
    <3> QED
        BY <3>2, <3>3
  <2> QED
      BY <2>3, TrailIs DEF Trail
<1>9. RowsNameOrders'
    BY <1>4 DEF OrdersInv, RowsNameOrders, Exists
<1>10. OrdersAndLedgerAgree'
  <2> SUFFICES ASSUME NEW p \in OrderIds, orders'[p] # None
               PROVE  Agrees(orders'[p], p, account'[orders'[p].user].ledger)
      BY AgreesIs
  <2>1. Agrees(orders[p], p, account[orders[p].user].ledger) /\ orders[p] # None
      BY <1>4, AgreesIs DEF OrdersInv
  <2>2. /\ orders'[p].user = orders[p].user /\ orders'[p].source = orders[p].source
        /\ orders'[p].total = orders[p].total
        /\ (orders'[p].status = "superseded") <=> (orders[p].status = "superseded")
      BY <1>4, <2>1
  <2> QED
      BY <2>1, <2>2 DEF Agrees
<1> QED
    BY <1>6, <1>7, <1>8, <1>9, <1>10 DEF OrdersInv

\* The row of an accepted order, and its snapshot.
LEMMA AcceptedRow ==
    ASSUME TypeOK, NEW o \in OrderIds, Exists(o), NEW ref,
           orders' = [orders EXCEPT ![o].payment = "paid", ![o].ref = ref]
    PROVE  orders' = [orders EXCEPT ![o] = [orders[o] EXCEPT !.payment = "paid", !.ref = ref]]
BY DEF TypeOK, Exists, Orders

LEMMA CommitAcceptStep ==
    ASSUME TypeOK, TypeOK', LockDiscipline, OrdersInv, NEW c \in Clients, CommitAccept(c)
    PROVE  OrdersInv'
<1> DEFINE o == tx[c].order
           row == [orders[o] EXCEPT !.payment = "paid", !.ref = tx[c].ref]
<1>1. CASE Rollback(c)
    BY <1>1, RollbackStep
<1>2. ASSUME orders' = [orders EXCEPT ![o].payment = "paid", ![o].ref = tx[c].ref],
             tg8' = [tg8 EXCEPT ![o] = orders[o].total], Becomes(c, IdleTx),
             UNCHANGED <<account, menu, policy, active, Catalogue>>, tx[c].pc = "accepting"
      PROVE  OrdersInv'
  <2>1. /\ o \in OrderIds /\ orders[o] # None /\ orders[o] \in Orders
        /\ orders[o].source = "relative" /\ orders[o].status = "active"
        /\ tx[c].ref \in Refs \cup {None}
      BY <1>2 DEF OrdersInv, Informed, Pending, Exists, LockDiscipline, CreatingInOrder,
                  TypeOK, Txs
  <2>2. orders' = [orders EXCEPT ![o] = row]
      BY <1>2, <2>1, AcceptedRow DEF Exists
  <2>3. /\ row \in Orders /\ row.user = orders[o].user /\ row.date = orders[o].date
        /\ row.source = orders[o].source /\ row.total = orders[o].total
        /\ row.by = orders[o].by /\ row.status = orders[o].status /\ row.payment = "paid"
      BY <2>1 DEF Orders
  <2> HIDE DEF row
  <2>4. ASSUME NEW p \in OrderIds
        PROVE  /\ tg8'[p] # None <=> orders'[p] # None /\ orders'[p].source = "relative"
                                     /\ orders'[p].payment = "paid"
               /\ tg8'[p] # None => tg8'[p] = orders'[p].total
               /\ orders'[p] # None /\ orders'[p].status = "rejected"
                     => orders'[p].payment = "unpaid"
    <3>1. CASE p = o
      <4>1. orders'[p] = row /\ row # None /\ tg8'[p] = row.total
          BY <1>2, <2>1, <2>2, <2>3, <3>1, NullAssumption DEF TypeOK
      <4>2. row.total # None
          BY <2>3, NoneAssumption DEF Orders
      <4> QED
          BY <2>1, <2>3, <4>1, <4>2
    <3>2. CASE p # o
      <4>1. orders'[p] = orders[p] /\ tg8'[p] = tg8[p]
          BY <1>2, <2>2, <3>2 DEF TypeOK
      <4> QED
          BY <4>1 DEF OrdersInv, SnapshotsWhole, Exists
    <3> QED
        BY <3>1, <3>2
  <2>5. SnapshotsWhole'
      BY <2>4 DEF SnapshotsWhole, Exists
  <2> QED
      BY <1>2, <2>1, <2>2, <2>3, <2>5, DecisionStep DEF Deciding
<1> QED
    BY <1>1, <1>2 DEF CommitAccept

LEMMA CommitRejectStep ==
    ASSUME TypeOK, TypeOK', LockDiscipline, OrdersInv, NEW c \in Clients, CommitReject(c)
    PROVE  OrdersInv'
<1> DEFINE o == tx[c].order
           row == [orders[o] EXCEPT !.status = "rejected"]
<1>1. /\ o \in OrderIds /\ orders[o] # None /\ orders[o] \in Orders
      /\ orders[o].source = "relative" /\ orders[o].payment = "unpaid"
      /\ tx[c].pc = "rejecting"
    BY DEF CommitReject, OrdersInv, Informed, Pending, Exists, LockDiscipline,
           CreatingInOrder, TypeOK
<1>2. orders' = [orders EXCEPT ![o] = row]
    BY <1>1 DEF CommitReject
<1>3. /\ row \in Orders /\ row.user = orders[o].user /\ row.date = orders[o].date
      /\ row.source = orders[o].source /\ row.total = orders[o].total
      /\ row.by = orders[o].by /\ row.status = "rejected" /\ row.payment = "unpaid"
    BY <1>1 DEF Orders
<1> HIDE DEF row
<1>4. /\ Becomes(c, IdleTx) /\ UNCHANGED <<account, tg8, menu, policy, active>>
    BY DEF CommitReject
<1>5. ASSUME NEW p \in OrderIds
      PROVE  /\ tg8'[p] # None <=> orders'[p] # None /\ orders'[p].source = "relative"
                                   /\ orders'[p].payment = "paid"
             /\ tg8'[p] # None => tg8'[p] = orders'[p].total
             /\ orders'[p] # None /\ orders'[p].status = "rejected"
                   => orders'[p].payment = "unpaid"
  <2>1. CASE p = o
    <3>1. orders'[p] = row
        BY <1>2, <2>1 DEF TypeOK
    <3>2. tg8[p] = None
        BY <1>1, <2>1 DEF OrdersInv, SnapshotsWhole
    <3> QED
        BY <1>3, <1>4, <3>1, <3>2
  <2>2. CASE p # o
    <3>1. orders'[p] = orders[p]
        BY <1>2, <2>2 DEF TypeOK
    <3> QED
        BY <1>4, <3>1 DEF OrdersInv, SnapshotsWhole, Exists
  <2> QED
      BY <2>1, <2>2
<1>6. SnapshotsWhole'
    BY <1>5 DEF SnapshotsWhole, Exists
<1> QED
    BY <1>1, <1>2, <1>3, <1>4, <1>6, DecisionStep DEF Deciding

-----------------------------------------------------------------------------
(* Transactions of several rows, and the requests that share rows *)

\* Which rows a request t shares.
SharesItem(t, i) ==
    "catalog" \in t.locks \/ ("menu" \in t.locks /\ t.cart[i] > 0) \/ i \in t.locks

SharesUser(t, u) == ("user" \in t.locks /\ t.user = u) \/ ("exact" \in t.locks /\ t.exact = u)

\* A transaction that runs has a next row to write.
Unfinished(batch) ==
    batch # NoBatch => batch.rows # << >> /\ batch.done + 1 \in 1..Len(batch.rows)

(***************************************************************************)
(* A row that a transaction has written is shared by no request, and no    *)
(* request has the catalogue while an edit runs.                           *)
(***************************************************************************)
RowsApart ==
    /\ Unfinished(edit) /\ Unfinished(sync)
    /\ \A c \in Clients :
          /\ edit # NoBatch => "catalog" \notin tx[c].locks
          /\ \A i \in Written(edit) : ~SharesItem(tx[c], i)
          /\ \A u \in Written(sync) : ~SharesUser(tx[c], u)

\* A list that is neither empty nor of one row has room for a second.
LEMMA RoomForTwo ==
    ASSUME NEW n \in Nat, n >= 1, n # 1
    PROVE  n > 1 /\ 1 + 1 \in 1..n
    OBVIOUS

\* The rows written are rows.
LEMMA WrittenType ==
    ASSUME TypeOK, RowsApart
    PROVE  Written(edit) \subseteq Items /\ Written(sync) \subseteq Users
<1>1. Written(NoBatch) = {}
    BY DEF Written, NoBatch
<1>2. edit # NoBatch => edit.rows \in Seq(Items) /\ edit.done \in Nat
    BY BatchAssumption DEF TypeOK, Batches, RowsApart, Unfinished
<1>3. sync # NoBatch => sync.rows \in Seq(Users) /\ sync.done \in Nat
    BY BatchAssumption DEF TypeOK, Batches, RowsApart, Unfinished
<1>4. edit # NoBatch => 1..edit.done \subseteq 1..Len(edit.rows)
    BY <1>2 DEF RowsApart, Unfinished
<1>5. sync # NoBatch => 1..sync.done \subseteq 1..Len(sync.rows)
    BY <1>3 DEF RowsApart, Unfinished
<1>6. edit # NoBatch => Written(edit) \subseteq Items
    BY <1>2, <1>4 DEF Written
<1>7. sync # NoBatch => Written(sync) \subseteq Users
    BY <1>3, <1>5 DEF Written
<1> QED
    BY <1>1, <1>6, <1>7

\* A request that shares no row that is written, unless it did before.
LEMMA ApartStep ==
    ASSUME TypeOK, RowsApart, NEW c \in Clients, NEW t, Becomes(c, t), UNCHANGED <<edit, sync>>,
           "catalog" \in t.locks => "catalog" \in tx[c].locks \/ edit = NoBatch,
           \A i \in Written(edit) : SharesItem(t, i) => SharesItem(tx[c], i),
           \A u \in Written(sync) : SharesUser(t, u) => SharesUser(tx[c], u)
    PROVE  RowsApart'
<1>1. tx'[c] = t /\ \A d \in Clients \ {c} : tx'[d] = tx[d]
    BY DEF Becomes, TypeOK
<1>2. Written(edit)' = Written(edit) /\ Written(sync)' = Written(sync)
    BY DEF Written
<1>3. Unfinished(edit)' /\ Unfinished(sync)'
    BY DEF RowsApart, Unfinished
<1>4. ASSUME NEW d \in Clients
      PROVE  /\ edit # NoBatch => "catalog" \notin tx'[d].locks
             /\ \A i \in Written(edit) : ~SharesItem(tx'[d], i)
             /\ \A u \in Written(sync) : ~SharesUser(tx'[d], u)
    BY <1>1 DEF RowsApart
<1> QED
    BY <1>2, <1>3, <1>4 DEF RowsApart, SharesItem, SharesUser

\* A request that shares no more rows than before.
LEMMA ApartIfSame ==
    ASSUME TypeOK, RowsApart, NEW c \in Clients, NEW t, Becomes(c, t), UNCHANGED <<edit, sync>>,
           t.locks \cap (Items \cup {"catalog", "menu", "user", "exact"}) \subseteq tx[c].locks,
           t.cart = tx[c].cart, t.user = tx[c].user, t.exact = tx[c].exact
    PROVE  RowsApart'
<1>1. Written(edit) \subseteq Items
    BY WrittenType
<1>2. \A i \in Written(edit) : SharesItem(t, i) => SharesItem(tx[c], i)
    BY <1>1 DEF SharesItem
<1>3. \A u \in Written(sync) : SharesUser(t, u) => SharesUser(tx[c], u)
    BY DEF SharesUser
<1>4. "catalog" \in t.locks => "catalog" \in tx[c].locks
    OBVIOUS
<1> QED
    BY <1>2, <1>3, <1>4, ApartStep

\* A request without any lock on the rows of users and menu.
LEMMA ApartIfNone ==
    ASSUME TypeOK, RowsApart, NEW c \in Clients, NEW t, Becomes(c, t), UNCHANGED <<edit, sync>>,
           t.locks \subseteq {"account", "order"}
    PROVE  RowsApart'
<1>1. \A i \in Written(edit) : ~SharesItem(t, i)
    BY WrittenType DEF SharesItem, Items
<1>2. \A u \in Written(sync) : ~SharesUser(t, u)
    BY DEF SharesUser
<1>3. "catalog" \notin t.locks
    OBVIOUS
<1> QED
    BY <1>1, <1>2, <1>3, ApartStep

\* Every statement of a request keeps off the rows that are written.
LEMMA ApartWhenRequests ==
    ASSUME TypeOK, RowsApart, NEW c \in Clients, Open(c) \/ Advance(c) \/ Crash(c)
    PROVE  RowsApart'
<1>1. tx[c] \in Txs
    BY DEF TypeOK
<1>2. IdleTx.locks = {}
    BY DEF IdleTx
<1>3. ASSUME Rollback(c)
      PROVE  RowsApart'
    BY <1>2, <1>3, ApartIfNone DEF Rollback, ReadsOnly, Catalogue
\* A statement that takes more locks.
<1>4. ASSUME NEW pc, NEW kinds, Proceed(c, pc, kinds), ReadsOnly
      PROVE  \E t : /\ Becomes(c, t) /\ t.locks = tx[c].locks \cup kinds
                    /\ t.user = tx[c].user /\ t.cart = tx[c].cart /\ t.exact = tx[c].exact
                    /\ UNCHANGED <<edit, sync>>
  <2> DEFINE t == [tx[c] EXCEPT !.pc = pc, !.locks = @ \cup kinds]
  <2>1. /\ t.locks = tx[c].locks \cup kinds
        /\ t.user = tx[c].user /\ t.cart = tx[c].cart /\ t.exact = tx[c].exact
      BY <1>1 DEF Txs
  <2>2. Becomes(c, t) /\ UNCHANGED <<edit, sync>>
      BY <1>4 DEF Proceed, ReadsOnly, Catalogue
  <2> QED
      BY <2>1, <2>2
<1>5. CASE Open(c)
  <2>1. ASSUME NEW route, NEW u, NEW x, NEW d, NEW cart, NEW ack, NEW o,
               NEW kinds \in {{"user"}, {}}, kinds = {"user"} => u \notin Written(sync),
               Request(c, route, u, x, d, cart, ack, o, kinds)
        PROVE  RowsApart'
    <3> DEFINE t == [IdleTx EXCEPT
              !.pc = "open", !.route = route, !.user = u, !.exact = x, !.date = d,
              !.cart = cart, !.ack = ack, !.order = o, !.locks = kinds,
              !.reported = (route = "issued" /\ Actives(u, d, ScannedSources) # {})]
    <3>1. Becomes(c, t) /\ UNCHANGED <<edit, sync>>
        BY <2>1 DEF Request, ReadsOnly, Catalogue
    <3>2. t.locks = kinds /\ t.user = u
        BY DEF IdleTx
    <3> HIDE DEF t
    <3>3. \A i \in Written(edit) : ~SharesItem(t, i)
        BY <3>2, WrittenType DEF SharesItem, Items
    <3>4. \A v \in Written(sync) : ~SharesUser(t, v)
        BY <2>1, <3>2 DEF SharesUser
    <3>5. "catalog" \notin t.locks
        BY <3>2
    <3> QED
        BY <3>1, <3>3, <3>4, <3>5, ApartStep
  <2>2. ASSUME NEW u \in Users, NEW amount \in Topups, OpenTopup(c, u, amount)
        PROVE  RowsApart'
    <3> DEFINE t == [IdleTx EXCEPT !.pc = "topup", !.user = u, !.amount = amount]
    <3>1. Becomes(c, t) /\ UNCHANGED <<edit, sync>> /\ t.locks = {}
        BY <2>2 DEF OpenTopup, ReadsOnly, Catalogue, IdleTx
    <3> QED
        BY <3>1, ApartIfNone
  <2>3. ASSUME NEW o, NEW ref, NEW pc, LockPending(c, o, pc, ref)
        PROVE  RowsApart'
    <3> DEFINE t == [IdleTx EXCEPT !.pc = pc, !.order = o, !.ref = ref, !.locks = {"order"}]
    <3>1. Becomes(c, t) /\ UNCHANGED <<edit, sync>> /\ t.locks = {"order"}
        BY <2>3 DEF LockPending, ReadsOnly, Catalogue, IdleTx
    <3> QED
        BY <3>1, ApartIfNone
  <2>4. ASSUME NEW route, NEW u, NEW x, NEW d, NEW cart, NEW ack, NEW o,
               OpenConfirm(c, route, u, x, d, cart, ack, o)
        PROVE  RowsApart'
      BY <2>4, <2>1 DEF OpenConfirm
  <2>5. ASSUME NEW u, NEW d, NEW cart, NEW o, OpenRelative(c, u, d, cart, o)
        PROVE  RowsApart'
      BY <2>5, <2>1 DEF OpenRelative
  <2> QED
      BY <1>5, <2>2, <2>3, <2>4, <2>5 DEF Open, OpenAccept, OpenReject
<1>6. CASE LockExact(c)
  <2>1. PICK t : /\ Becomes(c, t) /\ t.locks = tx[c].locks \cup {"exact"}
                 /\ t.user = tx[c].user /\ t.cart = tx[c].cart /\ t.exact = tx[c].exact
                 /\ UNCHANGED <<edit, sync>>
      BY <1>4, <1>6 DEF LockExact
  <2>2. tx[c].exact \notin Written(sync)
      BY <1>6 DEF LockExact
  <2>3. \A i \in Written(edit) : SharesItem(t, i) => SharesItem(tx[c], i)
      BY <2>1, WrittenType DEF SharesItem, Items
  <2>4. \A u \in Written(sync) : SharesUser(t, u) => SharesUser(tx[c], u)
      BY <2>1, <2>2 DEF SharesUser
  <2> QED
      BY <2>1, <2>3, <2>4, ApartStep
<1>7. CASE LockCatalog(c)
  <2>1. CASE Proceed(c, "catalog", {"catalog"}) /\ ReadsOnly
    <3>1. PICK t : /\ Becomes(c, t) /\ t.locks = tx[c].locks \cup {"catalog"}
                   /\ t.user = tx[c].user /\ t.cart = tx[c].cart /\ t.exact = tx[c].exact
                   /\ UNCHANGED <<edit, sync>>
        BY <1>4, <2>1
    <3>2. edit = NoBatch
        BY <1>7 DEF LockCatalog
    <3>3. Written(edit) = {}
        BY <3>2 DEF Written, NoBatch
    <3>4. \A u \in Written(sync) : SharesUser(t, u) => SharesUser(tx[c], u)
        BY <3>1 DEF SharesUser
    <3> QED
        BY <3>1, <3>2, <3>3, <3>4, ApartStep
  <2> QED
      BY <1>3, <1>7, <2>1 DEF LockCatalog
<1>8. CASE ShareItem(c)
  <2>1. PICK i \in Items : i \notin Written(edit) /\ Proceed(c, tx[c].pc, {i}) /\ ReadsOnly
      BY <1>8 DEF ShareItem
  <2>2. PICK t : /\ Becomes(c, t) /\ t.locks = tx[c].locks \cup {i}
                 /\ t.user = tx[c].user /\ t.cart = tx[c].cart /\ t.exact = tx[c].exact
                 /\ UNCHANGED <<edit, sync>>
      BY <1>4, <2>1
  <2>3. \A j \in Written(edit) : SharesItem(t, j) => SharesItem(tx[c], j)
      BY <2>1, <2>2 DEF SharesItem, Items
  <2>4. \A u \in Written(sync) : SharesUser(t, u) => SharesUser(tx[c], u)
      BY <2>1, <2>2 DEF SharesUser, Items
  <2>5. "catalog" \in t.locks => "catalog" \in tx[c].locks
      BY <2>2 DEF Items
  <2> QED
      BY <2>2, <2>3, <2>4, <2>5, ApartStep
<1>9. CASE ResolveMenu(c)
  <2> DEFINE t == [tx[c] EXCEPT !.pc = "priced", !.locks = @ \cup {"menu"},
                                !.quote = Quote(tx[c].cart)]
  <2>1. CASE Becomes(c, t) /\ ReadsOnly
    <3>1. /\ t.locks = tx[c].locks \cup {"menu"} /\ t.user = tx[c].user
          /\ t.cart = tx[c].cart /\ t.exact = tx[c].exact
        BY <1>1 DEF Txs
    <3>2. Becomes(c, t) /\ UNCHANGED <<edit, sync>>
        BY <2>1 DEF ReadsOnly, Catalogue
    <3> HIDE DEF t
    <3>3. \A i \in Written(edit) : SharesItem(t, i) => SharesItem(tx[c], i)
      <4>1. Unshared(c) \cap Written(edit) = {}
          BY <1>9 DEF ResolveMenu
      <4> QED
          BY <3>1, <4>1, WrittenType DEF SharesItem, Unshared, HoldsItem, Items
    <3>4. \A u \in Written(sync) : SharesUser(t, u) => SharesUser(tx[c], u)
        BY <3>1 DEF SharesUser
    <3> QED
        BY <3>1, <3>2, <3>3, <3>4, ApartStep
  <2> QED
      BY <1>3, <1>9, <2>1 DEF ResolveMenu
\* The other statements, which take locks on other rows or none.
<1>10. ASSUME NEW pc, NEW kinds \in {{"account"}, {"policy"}, {}},
              Proceed(c, pc, kinds), ReadsOnly
       PROVE  RowsApart'
  <2>1. PICK t : /\ Becomes(c, t) /\ t.locks = tx[c].locks \cup kinds
                 /\ t.user = tx[c].user /\ t.cart = tx[c].cart /\ t.exact = tx[c].exact
                 /\ UNCHANGED <<edit, sync>>
      BY <1>4, <1>10
  <2>2. t.locks \cap (Items \cup {"catalog", "menu", "user", "exact"}) \subseteq tx[c].locks
      BY <2>1 DEF Items
  <2> QED
      BY <2>1, <2>2, ApartIfSame
<1>11. CASE LockAccount(c) \/ CheckLimits(c)
    BY <1>3, <1>10, <1>11 DEF LockAccount, CheckLimits
<1>12. ASSUME NEW t, Becomes(c, t), ReadsOnly, t.locks = tx[c].locks,
              t.cart = tx[c].cart, t.user = tx[c].user, t.exact = tx[c].exact
       PROVE  RowsApart'
    BY <1>12, ApartIfSame DEF ReadsOnly, Catalogue
<1>13. CASE FindExisting(c)
  <2>1. ASSUME NEW o, Becomes(c, [tx[c] EXCEPT !.pc = "found", !.old = o]), ReadsOnly
        PROVE  RowsApart'
    <3> DEFINE t == [tx[c] EXCEPT !.pc = "found", !.old = o]
    <3>1. /\ t.locks = tx[c].locks /\ t.cart = tx[c].cart /\ t.user = tx[c].user
          /\ t.exact = tx[c].exact
        BY <1>1 DEF Txs
    <3>2. Becomes(c, t)
        BY <2>1
    <3> HIDE DEF t
    <3> QED
        BY <1>12, <2>1, <3>1, <3>2
  <2> QED
      BY <1>3, <1>10, <1>13, <2>1 DEF FindExisting
<1>14. CASE Settle(c)
  <2> DEFINE t == [tx[c] EXCEPT !.pc = "settled", !.read = account[tx[c].user].balance]
  <2>1. CASE Becomes(c, t) /\ ReadsOnly
    <3>1. /\ t.locks = tx[c].locks /\ t.cart = tx[c].cart /\ t.user = tx[c].user
          /\ t.exact = tx[c].exact
        BY <1>1 DEF Txs
    <3> HIDE DEF t
    <3> QED
        BY <1>12, <2>1, <3>1
  <2> QED
      BY <1>3, <1>14, <2>1 DEF Settle
<1>15. CASE LockTopup(c)
  <2> DEFINE t == [tx[c] EXCEPT !.pc = "credited", !.locks = {"account"},
                                !.read = account[tx[c].user].balance]
  <2>1. Becomes(c, t) /\ UNCHANGED <<edit, sync>>
      BY <1>15 DEF LockTopup, ReadsOnly, Catalogue
  <2>2. t.locks = {"account"}
      BY <1>1 DEF Txs
  <2> HIDE DEF t
  <2> QED
      BY <2>1, <2>2, ApartIfNone
<1>16. ASSUME Becomes(c, IdleTx), UNCHANGED Catalogue
       PROVE  RowsApart'
    BY <1>2, <1>16, ApartIfNone DEF Catalogue
<1>17. CASE CommitOrder(c) \/ CommitTopup(c) \/ CommitAccept(c) \/ CommitReject(c)
    BY <1>3, <1>16, <1>17 DEF CommitOrder, CommitTopup, CommitAccept, CommitReject, Catalogue
<1> QED
    BY <1>3, <1>5, <1>6, <1>7, <1>8, <1>9, <1>11, <1>13, <1>14, <1>15, <1>17 DEF Advance, Crash

\* The rows written after one row more.
LEMMA OneMoreRow ==
    ASSUME NEW batch, NEW next, batch.done \in Nat,
           next.rows = batch.rows, next.done = batch.done + 1
    PROVE  Written(next) = Written(batch) \cup {NextRow(batch)}
<1>1. 1..next.done = 1..batch.done \cup {batch.done + 1}
    OBVIOUS
<1> QED
    BY <1>1 DEF Written, NextRow

\* So does every step of an edit, of a form, of the limits and of the sync.
LEMMA ApartWhenConfigured ==
    ASSUME TypeOK, RowsApart, Configure
    PROVE  RowsApart'
<1>1. tx' = tx
    BY ConfigureMoves
<1>2. Written(NoBatch) = {} /\ Unfinished(NoBatch)
    BY DEF Written, NoBatch, Unfinished
<1>3. \A c \in Clients : \A i \in Items : HoldsItem(c, i) <=> SharesItem(tx[c], i)
    BY DEF HoldsItem, SharesItem
<1>4. \A c \in Clients : \A u \in Users : HoldsUser(c, u) <=> SharesUser(tx[c], u)
    BY DEF HoldsUser, SharesUser
\* What remains to be shown of the edit, and of the sync.
<1>5. ASSUME Unfinished(edit'), UNCHANGED sync,
             \A c \in Clients : /\ edit' # NoBatch => "catalog" \notin tx[c].locks
                                /\ \A i \in Written(edit') : ~SharesItem(tx[c], i)
      PROVE  RowsApart'
    BY <1>1, <1>5 DEF RowsApart, Unfinished, Written, SharesItem, SharesUser
<1>6. ASSUME Unfinished(sync'), UNCHANGED edit,
             \A c \in Clients : \A u \in Written(sync') : ~SharesUser(tx[c], u)
      PROVE  RowsApart'
    BY <1>1, <1>6 DEF RowsApart, Unfinished, Written, SharesItem, SharesUser
<1>7. ASSUME NEW rows \in Edits, OpenEdit(rows)
      PROVE  RowsApart'
  <2>1. edit'.rows = rows /\ edit'.done = 0 /\ UNCHANGED sync
        /\ \A c \in Clients : "catalog" \notin tx[c].locks
      BY <1>7 DEF OpenEdit
  <2>2. rows \in Seq(Items) /\ rows # << >>
      BY BatchAssumption
  <2>3. 0 + 1 \in 1..Len(rows)
      BY <2>2
  <2>4. Unfinished(edit') /\ Written(edit') = {}
      BY <2>1, <2>2, <2>3 DEF Unfinished, Written
  <2> QED
      BY <1>5, <2>1, <2>4
<1>8. ASSUME edit' = NoBatch, UNCHANGED sync
      PROVE  RowsApart'
    BY <1>2, <1>5, <1>8
<1>9. ASSUME sync' = NoBatch, UNCHANGED edit
      PROVE  RowsApart'
    BY <1>2, <1>6, <1>9
<1>10. ASSUME NEW row \in MenuRows, WriteItem(row)
       PROVE  RowsApart'
  <2>1. CASE LastRow(edit)
      BY <1>8, <1>10, <2>1 DEF WriteItem
  <2>2. CASE ~LastRow(edit)
    <3>1. /\ edit # NoBatch /\ UNCHANGED sync /\ edit' = [edit EXCEPT !.done = @ + 1]
          /\ \A c \in Clients : ~HoldsItem(c, NextRow(edit))
        BY <1>10, <2>2 DEF WriteItem
    <3>2. /\ edit.rows \in Seq(Items) /\ edit.done \in Nat
          /\ edit.rows # << >> /\ edit.done + 1 \in 1..Len(edit.rows)
          /\ edit'.rows = edit.rows /\ edit'.done = edit.done + 1
        BY <3>1, BatchAssumption DEF TypeOK, Batches, RowsApart, Unfinished
    <3>3. NextRow(edit) \in Items
        BY <3>2 DEF NextRow
    <3>4. Written(edit') = Written(edit) \cup {NextRow(edit)}
        BY <3>2, OneMoreRow
    <3>5. Unfinished(edit')
        BY <2>2, <3>2 DEF Unfinished, LastRow
    <3> QED
        BY <1>3, <1>5, <3>1, <3>3, <3>4, <3>5 DEF RowsApart
  <2> QED
      BY <2>1, <2>2
<1>11. ASSUME NEW rows \in Syncs, NEW to, OpenSync(rows, to)
       PROVE  RowsApart'
  <2>1. rows \in Seq(Users) /\ rows # << >>
      BY BatchAssumption
  <2>2. 1 \in 1..Len(rows) /\ rows[1] \in Users
      BY <2>1
  <2>3. CASE Len(rows) = 1
      BY <1>1, <1>11, <2>3 DEF OpenSync, RowsApart, Unfinished, Written, SharesItem, SharesUser
  <2>4. CASE Len(rows) # 1
    <3>1. /\ UNCHANGED edit /\ sync' = [rows |-> rows, done |-> 1]
          /\ \A c \in Clients : ~HoldsUser(c, rows[1])
        BY <1>11, <2>4 DEF OpenSync
    <3>2. 1 + 1 \in 1..Len(rows)
      <4>1. Len(rows) \in Nat /\ Len(rows) >= 1
          BY <2>1, <2>2
      <4> QED
          BY <2>4, <4>1, RoomForTwo
    <3>3. sync'.rows = rows /\ sync'.done = 1
        BY <3>1
    <3>4. Unfinished(sync')
        BY <2>1, <3>2, <3>3 DEF Unfinished
    <3>5. Written(sync') = {rows[1]}
        BY <3>3 DEF Written
    <3> QED
        BY <1>4, <1>6, <2>2, <3>1, <3>4, <3>5
  <2> QED
      BY <2>3, <2>4
<1>12. ASSUME NEW to, WriteUser(to)
       PROVE  RowsApart'
  <2>1. CASE LastRow(sync)
      BY <1>9, <1>12, <2>1 DEF WriteUser
  <2>2. CASE ~LastRow(sync)
    <3>1. /\ sync # NoBatch /\ UNCHANGED edit /\ sync' = [sync EXCEPT !.done = @ + 1]
          /\ \A c \in Clients : ~HoldsUser(c, NextRow(sync))
        BY <1>12, <2>2 DEF WriteUser
    <3>2. /\ sync.rows \in Seq(Users) /\ sync.done \in Nat
          /\ sync.rows # << >> /\ sync.done + 1 \in 1..Len(sync.rows)
          /\ sync'.rows = sync.rows /\ sync'.done = sync.done + 1
        BY <3>1, BatchAssumption DEF TypeOK, Batches, RowsApart, Unfinished
    <3>3. NextRow(sync) \in Users
        BY <3>2 DEF NextRow
    <3>4. Written(sync') = Written(sync) \cup {NextRow(sync)}
        BY <3>2, OneMoreRow
    <3>5. Unfinished(sync')
        BY <2>2, <3>2 DEF Unfinished, LastRow
    <3> QED
        BY <1>4, <1>6, <3>1, <3>3, <3>4, <3>5 DEF RowsApart
  <2> QED
      BY <2>1, <2>2
<1>13. ASSUME UNCHANGED <<edit, sync>>
       PROVE  RowsApart'
    BY <1>1, <1>13 DEF RowsApart, Unfinished, Written, SharesItem, SharesUser
<1>14. CASE \/ EditFails \/ SyncFails \/ GenerateForm
            \/ \E pol \in Policies : UpdateLimits(pol)
    BY <1>8, <1>9, <1>13, <1>14 DEF EditFails, SyncFails, GenerateForm, UpdateLimits, Catalogue
<1> QED
    BY <1>7, <1>10, <1>11, <1>12, <1>14 DEF Configure

-----------------------------------------------------------------------------
(* Edits of the tables that requests read *)

\* The row that an edit changes, if it changes one, is shared by no request.
LEMMA EditedUnshared ==
    ASSUME TypeOK, RowsApart, NEW row \in MenuRows, WriteItem(row), NEW c \in Clients
    PROVE  \A i \in Items : menu'[i] # menu[i] => ~HoldsItem(c, i)
<1>1. CASE ~LastRow(edit)
    BY <1>1 DEF WriteItem
<1>2. CASE LastRow(edit)
  <2>1. /\ edit # NoBatch /\ ~HoldsItem(c, NextRow(edit))
        /\ menu' = [menu EXCEPT ![edit.rows[1]] = row]
      BY <1>2 DEF WriteItem, Edited
  <2>2. edit.done \in Nat
      BY DEF TypeOK, Batches
  <2>3. ~HoldsItem(c, edit.rows[1])
    <3>1. CASE edit.done = 0
        BY <2>1, <3>1 DEF NextRow
    <3>2. CASE edit.done # 0
      <4>1. 1 \in 1..edit.done
          BY <2>2, <3>2
      <4>2. edit.rows[1] \in Written(edit)
          BY <4>1 DEF Written
      <4> QED
          BY <4>2 DEF RowsApart, SharesItem, HoldsItem
    <3> QED
        BY <3>1, <3>2
  <2> QED
      BY <2>1, <2>3 DEF TypeOK
<1> QED
    BY <1>1, <1>2

\* The users whose activity a statement of the sync changes are shared by none.
LEMMA SyncedUnshared ==
    ASSUME TypeOK, RowsApart, NEW to \in [Users -> BOOLEAN], NEW c \in Clients,
           WriteUser(to) \/ \E rows \in Syncs : OpenSync(rows, to)
    PROVE  \A u \in Users : active'[u] # active[u] => ~HoldsUser(c, u)
<1>1. CASE WriteUser(to)
  <2>1. CASE ~LastRow(sync)
      BY <1>1, <2>1 DEF WriteUser
  <2>2. CASE LastRow(sync)
    <3>1. sync # NoBatch /\ ~HoldsUser(c, NextRow(sync)) /\ Synced(sync.rows, to)
        BY <1>1, <2>2 DEF WriteUser
    <3>2. sync.rows \in Seq(Users) /\ sync.done \in Nat /\ sync.done + 1 = Len(sync.rows)
        BY <2>2, <3>1, BatchAssumption DEF TypeOK, Batches, RowsApart, Unfinished, LastRow
    <3>3. ASSUME NEW i \in DOMAIN sync.rows
          PROVE  ~HoldsUser(c, sync.rows[i])
      <4>1. CASE i = sync.done + 1
          BY <3>1, <4>1 DEF NextRow
      <4>2. CASE i # sync.done + 1
        <5>1. i \in 1..sync.done
            BY <3>2, <4>2
        <5>2. sync.rows[i] \in Written(sync)
            BY <5>1 DEF Written
        <5> QED
            BY <5>2 DEF RowsApart, SharesUser, HoldsUser
      <4> QED
          BY <4>1, <4>2
    <3> QED
        BY <3>1, <3>3 DEF Synced
  <2> QED
      BY <2>1, <2>2
<1>2. CASE \E rows \in Syncs : OpenSync(rows, to)
  <2>1. PICK rows \in Syncs : OpenSync(rows, to)
      BY <1>2
  <2>2. ~HoldsUser(c, rows[1]) /\ rows \in Seq(Users)
      BY <2>1, BatchAssumption DEF OpenSync
  <2>3. CASE Len(rows) = 1
    <3>1. \A i \in DOMAIN rows : i = 1
        BY <2>2, <2>3
    <3>2. Synced(rows, to)
        BY <2>1, <2>3 DEF OpenSync
    <3> QED
        BY <2>2, <3>1, <3>2 DEF Synced
  <2>4. CASE Len(rows) # 1
      BY <2>1, <2>4 DEF OpenSync
  <2> QED
      BY <2>3, <2>4
<1> QED
    BY <1>1, <1>2

\* An edit of the catalogue, of the limits, or of a prisoner's activity waits
\* for the requests that rely on it.
LEMMA ConfigureStep ==
    ASSUME TypeOK, TypeOK', LockDiscipline, OrdersInv, RowsApart, Configure
    PROVE  OrdersInv'
<1>1. UNCHANGED <<account, orders, tg8, tx>>
    BY ConfigureMoves
<1>2. OneScanned' /\ SnapshotsWhole' /\ RowsNameOrders' /\ DecidedByOne'
    BY <1>1 DEF OrdersInv, OneScanned, SnapshotsWhole, RowsNameOrders, DecidedByOne,
                Actives, Exists
<1>3. SupersedeTrail' /\ OrdersAndLedgerAgree'
    BY <1>1, TrailIs, AgreesIs DEF OrdersInv
<1>4. ASSUME NEW c \in Clients
      PROVE  Informed(tx[c])'
  <2>1. /\ Informed(tx[c]) /\ tx'[c] = tx[c] /\ tx[c].cart \in [Items -> Nat]
        /\ tx[c].pc \in CreatingPcs => tx[c].user \in Users
      BY <1>1 DEF OrdersInv, TypeOK, Txs, LockDiscipline, DrawnIdsAreNew, Creating
  <2>2. (tx[c].pc \in {"found", "settled"} /\ Scanned(tx[c].route)) =>
          Actives(tx[c].user, tx[c].date, ScannedSources)'
            = IF tx[c].old = None THEN {} ELSE {tx[c].old}
      BY <1>1, <2>1 DEF Informed, Actives, Exists
  <2>3. tx[c].pc \in Deciding => Pending(tx[c].order)' /\ "order" \in tx[c].locks
      BY <1>1, <2>1 DEF Informed, Pending, Exists, Deciding
  <2>4. ASSUME NEW row \in MenuRows, WriteItem(row)
        PROVE  Informed(tx[c])'
    <3>1. policy' = policy /\ active' = active
        BY <2>4 DEF WriteItem
    <3>2. ASSUME tx[c].pc \in {"priced", "limited", "found", "settled"}
          PROVE  tx[c].quote = Quote(tx[c].cart)' /\ Orderable(tx[c].route, tx[c].cart)'
      <4>1. "menu" \in tx[c].locks /\ tx[c].quote = Quote(tx[c].cart)
            /\ Orderable(tx[c].route, tx[c].cart)
          BY <2>1, <3>2 DEF Informed
      <4>2. \A j \in Items : menu'[j] = menu[j] \/ tx[c].cart[j] = 0
          BY <2>1, <2>4, <4>1, EditedUnshared DEF HoldsItem
      <4>3. \A j \in Items : menu[j].price \in Nat /\ menu'[j].price \in Nat
          BY MoneyAssumption DEF TypeOK
      <4>4. \A n \in Nat : n * 0 = 0
          OBVIOUS
      <4>5. ASSUME NEW k \in Categories, NEW j \in Items
            PROVE  Line(j, tx[c].cart, k)' = Line(j, tx[c].cart, k)
          BY <2>1, <4>2, <4>3, <4>4 DEF Line
      <4>6. Quote(tx[c].cart)' = Quote(tx[c].cart)
          BY <4>5 DEF Quote, Subtotal, Items
      <4>7. Orderable(tx[c].route, tx[c].cart)'
          BY <2>1, <4>1, <4>2 DEF Orderable
      <4> QED
          BY <4>1, <4>6, <4>7
    <3>3. tx[c].pc \in {"limited", "found", "settled"} =>
            WithinLimits(tx[c].route, tx[c].quote)'
        BY <2>1, <3>1 DEF Informed, WithinLimits
    <3> QED
        BY <2>1, <2>2, <2>3, <3>1, <3>2, <3>3 DEF Informed, Deciding
  <2>5. CASE \E p \in Policies : UpdateLimits(p)
    <3>1. menu' = menu /\ active' = active /\ "policy" \notin tx[c].locks
        BY <2>5 DEF UpdateLimits
    <3>2. tx[c].pc \in {"priced", "limited", "found", "settled"} =>
            tx[c].quote = Quote(tx[c].cart)' /\ Orderable(tx[c].route, tx[c].cart)'
        BY <2>1, <3>1 DEF Informed, Quote, Subtotal, Line, Orderable
    <3>3. tx[c].pc \notin {"limited", "found", "settled"}
        BY <2>1, <3>1 DEF Informed
    <3> QED
        BY <2>1, <2>2, <2>3, <3>1, <3>2, <3>3 DEF Informed, Deciding
  \* Neither menu nor limits change, and nobody's activity whose row is shared.
  <2>6. ASSUME menu' = menu, policy' = policy,
               \A u \in Users : active'[u] # active[u] => ~HoldsUser(c, u)
        PROVE  Informed(tx[c])'
    <3>1. (tx[c].pc \in CreatingPcs /\ Scanned(tx[c].route)) => active'[tx[c].user]
        BY <2>1, <2>6 DEF Informed, HoldsUser
    <3>2. tx[c].pc \in {"priced", "limited", "found", "settled"} =>
            tx[c].quote = Quote(tx[c].cart)' /\ Orderable(tx[c].route, tx[c].cart)'
        BY <2>1, <2>6 DEF Informed, Quote, Subtotal, Line, Orderable
    <3>3. tx[c].pc \in {"limited", "found", "settled"} =>
            WithinLimits(tx[c].route, tx[c].quote)'
        BY <2>1, <2>6 DEF Informed, WithinLimits
    <3> QED
        BY <2>1, <2>2, <2>3, <3>1, <3>2, <3>3 DEF Informed, Deciding
  <2>7. ASSUME NEW to \in [Users -> BOOLEAN],
               WriteUser(to) \/ \E rows \in Syncs : OpenSync(rows, to)
        PROVE  Informed(tx[c])'
    <3>1. menu' = menu /\ policy' = policy
        BY <2>7 DEF WriteUser, OpenSync
    <3> QED
        BY <2>6, <2>7, <3>1, SyncedUnshared
  <2>8. CASE \/ \E rows \in Edits : OpenEdit(rows)
             \/ EditFails \/ GenerateForm \/ SyncFails
    <3>1. menu' = menu /\ policy' = policy /\ active' = active
        BY <2>8 DEF OpenEdit, EditFails, GenerateForm, SyncFails
    <3> QED
        BY <2>6, <3>1
  <2> QED
      BY <2>4, <2>5, <2>7, <2>8 DEF Configure
<1> QED
    BY <1>2, <1>3, <1>4 DEF OrdersInv

-----------------------------------------------------------------------------
(* The invariant *)

Sound == TypeOK /\ LockDiscipline /\ OrdersInv /\ RowsApart

LEMMA InitSound ==
    ASSUME Init
    PROVE  Sound
<1>1. \A o \in OrderIds : orders[o] = None /\ tg8[o] = None
    BY DEF Init
<1>2. \A c \in Clients : tx[c] = IdleTx
    BY DEF Init
<1>3. \A c \in Clients : Informed(tx[c])
    BY <1>2, IdleInformed
<1>4. DecidedByOne
    BY <1>2 DEF DecidedByOne, IdleTx
<1>5. OneScanned /\ SupersedeTrail /\ SnapshotsWhole /\ OrdersAndLedgerAgree
    BY <1>1 DEF OneScanned, SupersedeTrail, SnapshotsWhole, OrdersAndLedgerAgree, Actives,
                Exists
<1>6. RowsNameOrders
  <2>1. \A u \in Users : account[u].ledger = << >>
      BY DEF Init, Ledger!NewAccount
  <2> QED
      BY <2>1 DEF RowsNameOrders
<1>7. RowsApart
  <2>1. edit = NoBatch /\ sync = NoBatch /\ Written(NoBatch) = {}
      BY DEF Init, Written, NoBatch
  <2> QED
      BY <2>1 DEF RowsApart, Unfinished
<1> QED
    BY InitOk, <1>3, <1>4, <1>5, <1>6, <1>7 DEF Sound, OrdersInv

LEMMA OrdersStep ==
    ASSUME Sound, [Next]_vars
    PROVE  Sound'
<1>1. TypeOK' /\ LockDiscipline'
    BY TypeStep, DisciplineStep DEF Sound
<1>5. RowsApart'
  <2>1. CASE UNCHANGED vars
      BY <2>1 DEF vars, Sound, RowsApart, Unfinished, Written, SharesItem, SharesUser
  <2>2. CASE Next
      BY <2>2, ApartWhenRequests, ApartWhenConfigured DEF Next, Sound
  <2> QED
      BY <2>1, <2>2
<1>2. ASSUME UNCHANGED vars
      PROVE  OrdersInv'
  <2>1. UNCHANGED <<account, orders, tg8, menu, policy, active, tx>>
      BY <1>2 DEF vars
  <2>2. SupersedeTrail' /\ OrdersAndLedgerAgree'
      BY <2>1, TrailIs, AgreesIs DEF Sound, OrdersInv
  <2>3. OneScanned' /\ SnapshotsWhole' /\ RowsNameOrders' /\ DecidedByOne'
      BY <2>1 DEF Sound, OrdersInv, OneScanned, SnapshotsWhole, RowsNameOrders,
                  DecidedByOne, Actives, Exists
  <2>4. \A c \in Clients : Informed(tx[c])'
    <3>1. ASSUME NEW c \in Clients
          PROVE  Informed(tx[c])'
      <4>1. Informed(tx'[c]) /\ ReadsOnly
          BY <1>2 DEF Sound, OrdersInv, ReadsOnly, Catalogue, vars
      <4> QED
          BY <4>1, InformedStays
    <3> QED
        BY <3>1
  <2> QED
      BY <2>2, <2>3, <2>4 DEF OrdersInv
<1>3. ASSUME NEW c \in Clients, Open(c) \/ Advance(c) \/ Crash(c)
      PROVE  OrdersInv'
    BY <1>1, <1>3, OpenStep, AdvanceReads, CommitOrderStep, CommitTopupStep,
       CommitAcceptStep, CommitRejectStep, RollbackStep DEF Advance, Crash, Sound
<1>4. ASSUME Configure
      PROVE  OrdersInv'
    BY <1>1, <1>4, ConfigureStep DEF Sound
<1> QED
    BY <1>1, <1>2, <1>3, <1>4, <1>5 DEF Next, Sound

\* What running requests know stays true, and the orders and the ledger stay
\* sound, for any prisoners, requests, orders, prices and indexes.
THEOREM OrdersInvHolds == Spec => []Sound
<1>1. Init => Sound
    BY InitSound
<1>2. Sound /\ [Next]_vars => Sound'
    BY OrdersStep
<1> QED
    BY <1>1, <1>2, PTL DEF Spec

\* Every superseded order names its successor, a scanned order of the same
\* prisoner and date of which exactly one is active; no two name the same.
THEOREM TrailIsSound == Spec => []SupersedeTrail
<1>1. Sound => SupersedeTrail
    BY DEF Sound, OrdersInv
<1> QED
    BY <1>1, OrdersInvHolds, PTL

\* Every order has the ledger rows that it should have, and no other: a replay
\* nets to zero whatever the prices became.
THEOREM LedgerAgrees == Spec => []OrdersAndLedgerAgree
<1>1. Sound => OrdersAndLedgerAgree
    BY DEF Sound, OrdersInv
<1> QED
    BY <1>1, OrdersInvHolds, PTL

-----------------------------------------------------------------------------
(* How the order table changes, and what its indexes refuse *)

\* Request c inserts its order.
Inserts(c) ==
    /\ CommitFacts(c) /\ ~InsertRefused(c) /\ Informed(tx[c])
    /\ Replaces(orders, orders', tx[c].order, NewOrder(c), tx[c].old)

\* Request c settles its order, which becomes the given row.
Decides(c, row) ==
    /\ tx[c].order \in OrderIds /\ orders[tx[c].order] # None
    /\ orders' = [orders EXCEPT ![tx[c].order] = row]
    /\ row # None
    /\ row.user = orders[tx[c].order].user /\ row.date = orders[tx[c].order].date
    /\ row.source = orders[tx[c].order].source
    /\ orders[tx[c].order].status = "active"
    /\ \/ row.ref = orders[tx[c].order].ref
       \/ row.ref = tx[c].ref /\ ~ReferenceTaken(c)

LEMMA OrderMoves ==
    ASSUME Sound, [Next]_vars
    PROVE  \/ orders' = orders
           \/ \E c \in Clients : Inserts(c)
           \/ \E c \in Clients : \E row : Decides(c, row)
<1> USE DEF Sound
<1>1. ASSUME NEW c \in Clients, CommitOrder(c), orders' # orders
      PROVE  Inserts(c)
  <2>1. orders' = WithNewOrder(c) /\ ~InsertRefused(c)
      BY <1>1 DEF CommitOrder, Rollback, ReadsOnly
  <2>2. CommitFacts(c)
      BY <1>1, CommitKnows DEF CommitOrder
  <2>3. Replaces(orders, orders', tx[c].order, NewOrder(c), tx[c].old)
      BY <2>1, <2>2, CommitReplaces
  <2> QED
      BY <2>1, <2>2, <2>3 DEF Inserts, OrdersInv
<1>2. ASSUME NEW c \in Clients, CommitAccept(c), orders' # orders
      PROVE  \E row : Decides(c, row)
  <2> DEFINE o == tx[c].order
             row == [orders[o] EXCEPT !.payment = "paid", !.ref = tx[c].ref]
  <2>1. /\ orders' = [orders EXCEPT ![o].payment = "paid", ![o].ref = tx[c].ref]
        /\ ~ReferenceTaken(c) /\ tx[c].pc = "accepting"
      BY <1>2 DEF CommitAccept, Rollback, ReadsOnly
  <2>2. /\ o \in OrderIds /\ orders[o] # None /\ orders[o] \in Orders
        /\ orders[o].status = "active" /\ tx[c].ref \in Refs \cup {None}
      BY <2>1, ZenonT(30) DEF OrdersInv, Informed, Pending, Exists, LockDiscipline, CreatingInOrder,
                  TypeOK, Txs
  <2>3. orders' = [orders EXCEPT ![o] = row]
      BY <2>1, <2>2, AcceptedRow DEF Exists
  <2>4. /\ row \in Orders /\ row.user = orders[o].user /\ row.date = orders[o].date
        /\ row.source = orders[o].source /\ row.ref = tx[c].ref
      BY <2>2 DEF Orders
  <2> HIDE DEF row
  <2>5. Decides(c, row)
      BY <2>1, <2>2, <2>3, <2>4, NullAssumption DEF Decides
  <2> QED
      BY <2>5
<1>3. ASSUME NEW c \in Clients, CommitReject(c)
      PROVE  \E row : Decides(c, row)
  <2> DEFINE o == tx[c].order
             row == [orders[o] EXCEPT !.status = "rejected"]
  <2>1. /\ o \in OrderIds /\ orders[o] # None /\ orders[o] \in Orders
        /\ orders[o].status = "active"
      BY <1>3 DEF CommitReject, OrdersInv, Informed, Pending, Exists, LockDiscipline,
                  CreatingInOrder, TypeOK
  <2>2. orders' = [orders EXCEPT ![o] = row]
      BY <1>3, <2>1 DEF CommitReject
  <2>3. /\ row \in Orders /\ row.user = orders[o].user /\ row.date = orders[o].date
        /\ row.source = orders[o].source /\ row.ref = orders[o].ref
      BY <2>1 DEF Orders
  <2> HIDE DEF row
  <2>4. row # None
      BY <2>3, NullAssumption
  <2>5. Decides(c, row)
      BY <2>1, <2>2, <2>3, <2>4 DEF Decides
  <2> QED
      BY <2>5
<1>4. ASSUME NEW c \in Clients, Open(c)
      PROVE  orders' = orders
    BY <1>4, OpenReads DEF ReadsOnly
<1>5. ASSUME NEW c \in Clients,
             \/ LockExact(c) \/ LockCatalog(c) \/ LockAccount(c) \/ ShareItem(c)
             \/ ResolveMenu(c) \/ CheckLimits(c) \/ FindExisting(c) \/ Settle(c)
             \/ LockTopup(c) \/ CommitTopup(c) \/ Crash(c)
      PROVE  orders' = orders
    BY <1>5 DEF LockExact, LockCatalog, LockAccount, ShareItem, ResolveMenu, CheckLimits,
                FindExisting, Settle, LockTopup, CommitTopup, Crash, Rollback, ReadsOnly
<1>6. Configure => orders' = orders
    BY ConfigureMoves
<1>7. UNCHANGED vars => orders' = orders
    BY DEF vars
<1> QED
    BY <1>1, <1>2, <1>3, <1>4, <1>5, <1>6, <1>7 DEF Next, Advance

\* An order becomes visible when the request that drew its id commits.
LEMMA InsertedBy ==
    ASSUME Sound, [Next]_vars, NEW o \in OrderIds, Inserted(o)
    PROVE  \E c \in Clients : o = tx[c].order /\ Inserts(c)
<1>1. ASSUME NEW c \in Clients, Inserts(c)
      PROVE  o = tx[c].order
  <2>1. CASE o = tx[c].old
      BY <1>1, <2>1, NoneAssumption DEF Inserts, CommitFacts, Inserted, Exists
  <2> QED
      BY <1>1, <2>1 DEF Inserts, Replaces, Inserted, Exists
<1>2. ~\E c \in Clients : \E row : Decides(c, row)
    BY DEF Decides, Inserted, Exists, Sound, TypeOK
<1> QED
    BY <1>1, <1>2, OrderMoves DEF Inserted, Exists

\* An active relative order of prisoner u for date d.
Unsettled(row, u, d) ==
    /\ row # None
    /\ row.user = u /\ row.date = d
    /\ row.source = "relative"
    /\ row.status = "active"

OneRelative ==
    \A u \in Users, d \in Dates : \A o, p \in OrderIds :
        Unsettled(orders[o], u, d) /\ Unsettled(orders[p], u, d) => o = p

\* The index of active orders by source keeps relative orders apart.
LEMMA OneRelativeStep ==
    ASSUME "active_source" \in Indexes, Sound, OneRelative, [Next]_vars
    PROVE  OneRelative'
<1> USE DEF Sound
<1>1. orders \in Tables
    BY DEF TypeOK, Tables
<1>2. CASE orders' = orders
    BY <1>2 DEF OneRelative, Unsettled
<1>3. ASSUME NEW c \in Clients, Inserts(c)
      PROVE  OneRelative'
  <2> DEFINE n == tx[c].order
             row == NewOrder(c)
             old == tx[c].old
  <2>1. /\ Replaces(orders, orders', n, row, old) /\ CommitFacts(c) /\ ~InsertRefused(c)
        /\ orders' \in Tables
      BY <1>3, TypeStep DEF Inserts, Tables, TypeOK
  <2>2. \A o \in OrderIds : o # n /\ o = old => orders'[o].status = "superseded"
      BY <1>1, <2>1, ClosedRow
  <2>3. \A o \in OrderIds : o # n /\ o # old => orders'[o] = orders[o]
      BY <2>1 DEF Replaces
  <2>4. orders'[n] = row /\ row.user = tx[c].user /\ row.date = tx[c].date
      BY <2>1 DEF Replaces, CommitFacts
  <2>5. row.source = "relative" =>
          \A o \in OrderIds : o # old => ~Unsettled(orders[o], tx[c].user, tx[c].date)
    <3>1. row.source = Source(tx[c].route)
        BY DEF NewOrder
    <3>2. \A o \in OrderIds \ {old} :
              o \notin Actives(tx[c].user, tx[c].date, {Source(tx[c].route)})
        BY <2>1 DEF InsertRefused
    <3> QED
        BY <3>1, <3>2 DEF Actives, Exists, Unsettled
  <2> HIDE DEF n, row, old
  <2>6. ASSUME NEW u \in Users, NEW d \in Dates, NEW o \in OrderIds, NEW p \in OrderIds,
               Unsettled(orders'[o], u, d), Unsettled(orders'[p], u, d), o # n
        PROVE  o = p
    <3>1. o # old /\ Unsettled(orders[o], u, d)
        BY <2>2, <2>3, <2>6 DEF Unsettled
    <3>2. CASE p = n
        BY <2>4, <2>5, <2>6, <3>1, <3>2 DEF Unsettled
    <3>3. CASE p # n
      <4>1. Unsettled(orders[p], u, d)
          BY <2>2, <2>3, <2>6, <3>3 DEF Unsettled
      <4> QED
          BY <2>6, <3>1, <4>1 DEF OneRelative
    <3> QED
        BY <3>2, <3>3
  <2> QED
      BY <2>6 DEF OneRelative, Unsettled
<1>4. ASSUME NEW c \in Clients, NEW row, Decides(c, row)
      PROVE  OneRelative'
  <2>1. \A o \in OrderIds, u \in Users, d \in Dates :
            Unsettled(orders'[o], u, d) => Unsettled(orders[o], u, d)
      BY <1>1, <1>4 DEF Decides, Unsettled, Tables
  <2> QED
      BY <2>1 DEF OneRelative, Unsettled
<1> QED
    BY <1>2, <1>3, <1>4, OrderMoves

\* A bank reference settles one order.
RefsUnique ==
    \A o \in OrderIds : \A p \in OrderIds \ {o} :
        Exists(o) /\ Exists(p) /\ orders[o].ref # None => orders[p].ref # orders[o].ref

\* The index of transfer references keeps them apart.
LEMMA RefsUniqueStep ==
    ASSUME "transfer_reference" \in Indexes, Sound, RefsUnique, [Next]_vars
    PROVE  RefsUnique'
<1> USE DEF Sound
<1>1. orders \in Tables
    BY DEF TypeOK, Tables
<1>2. CASE orders' = orders
    BY <1>2 DEF RefsUnique, Exists
<1>3. ASSUME NEW c \in Clients, Inserts(c)
      PROVE  RefsUnique'
  <2> DEFINE n == tx[c].order
             row == NewOrder(c)
             old == tx[c].old
  <2>1. /\ Replaces(orders, orders', n, row, old) /\ CommitFacts(c)
        /\ orders' \in Tables
      BY <1>3, TypeStep DEF Inserts, Tables, TypeOK
  <2>2. row.ref = None
      BY DEF NewOrder
  <2> HIDE DEF n, row, old
  <2>3. orders'[n].ref = None
      BY <2>1, <2>2 DEF Replaces
  <2>4. \A o \in OrderIds : (o # n /\ orders'[o] # None) =>
                               orders[o] # None /\ orders'[o].ref = orders[o].ref
    <3> SUFFICES ASSUME NEW o \in OrderIds, o # n, orders'[o] # None
                 PROVE  orders[o] # None /\ orders'[o].ref = orders[o].ref
        OBVIOUS
    <3>1. CASE o = old
        BY <1>1, <2>1, <3>1, ClosedRow DEF Listed
    <3>2. CASE o # old
        BY <2>1, <3>2 DEF Replaces
    <3> QED
        BY <3>1, <3>2
  <2> QED
      BY <2>3, <2>4 DEF RefsUnique, Exists
<1>4. ASSUME NEW c \in Clients, NEW row, Decides(c, row)
      PROVE  RefsUnique'
  <2> DEFINE o == tx[c].order
  <2>1. /\ o \in OrderIds /\ orders[o] # None /\ orders'[o] = row
        /\ \A p \in OrderIds \ {o} : orders'[p] = orders[p]
      BY <1>1, <1>4 DEF Decides, Tables
  <2>2. CASE row.ref = orders[o].ref
      BY <2>1, <2>2 DEF RefsUnique, Exists
  <2>3. CASE row.ref = tx[c].ref /\ ~ReferenceTaken(c)
    <3>1. row.ref = None \/ \A p \in OrderIds \ {o} : Exists(p) => orders[p].ref # row.ref
        BY <2>3 DEF ReferenceTaken
    <3> QED
        BY <2>1, <3>1 DEF RefsUnique, Exists
  <2> QED
      BY <1>4, <2>2, <2>3 DEF Decides
<1> QED
    BY <1>2, <1>3, <1>4, OrderMoves

\* A set without two different members has at most one.
LEMMA AtMostOne ==
    ASSUME NEW S, \A x, y \in S : x = y
    PROVE  Cardinality(S) <= 1
<1>1. CASE S = {}
    BY <1>1, FS_EmptySet
<1>2. ASSUME NEW x \in S
      PROVE  Cardinality(S) <= 1
  <2>1. S = {x}
      BY <1>2
  <2> QED
      BY <2>1, FS_Singleton
<1> QED
    BY <1>1, <1>2

-----------------------------------------------------------------------------
(* What the indexes and the invariant give together *)

\* With the deployed index on active orders by source, a prisoner and date have
\* one active order per channel at most; the scanned channel needs no index.
THEOREM ChannelsHoldOne ==
    ASSUME "active_source" \in Indexes
    PROVE  Spec => []OneActivePerChannel
<1>1. Init => Sound /\ OneRelative
    BY InitSound DEF Init, OneRelative, Unsettled
<1>2. (Sound /\ OneRelative) /\ [Next]_vars => (Sound /\ OneRelative)'
    BY OrdersStep, OneRelativeStep
<1>3. Sound /\ OneRelative => OneActivePerChannel
  <2> SUFFICES ASSUME Sound, OneRelative, NEW u \in Users, NEW d \in Dates
               PROVE  /\ Cardinality(Actives(u, d, ScannedSources)) <= 1
                      /\ Cardinality(Actives(u, d, {"relative"})) <= 1
      BY DEF OneActivePerChannel
  <2>1. \A o, p \in Actives(u, d, ScannedSources) : o = p
      BY DEF Sound, OrdersInv, OneScanned
  <2>2. \A o, p \in Actives(u, d, {"relative"}) : o = p
      BY DEF OneRelative, Actives, Exists, Unsettled
  <2> QED
      BY <2>1, <2>2, AtMostOne
<1> QED
    BY <1>1, <1>2, <1>3, PTL DEF Spec

\* With the deployed index on transfer references, a cashier's decision is
\* final and whole, and a reference settles one order.
THEOREM DecisionsAreWhole ==
    ASSUME "transfer_reference" \in Indexes
    PROVE  Spec => []SettlementIsWhole
<1>1. Init => Sound /\ RefsUnique
    BY InitSound DEF Init, RefsUnique, Exists
<1>2. (Sound /\ RefsUnique) /\ [Next]_vars => (Sound /\ RefsUnique)'
    BY OrdersStep, RefsUniqueStep
<1>3. Sound /\ RefsUnique => SettlementIsWhole
    BY DEF Sound, OrdersInv, SnapshotsWhole, RefsUnique, SettlementIsWhole
<1> QED
    BY <1>1, <1>2, <1>3, PTL DEF Spec

\* An order becomes visible at the prices and within the limits in force at
\* that moment: the share locks leave no room for an edit in between.
THEOREM PricesHoldAtCommit == Spec => PricedAtCommit
<1>1. ASSUME Sound, [Next]_vars, NEW o \in OrderIds, Inserted(o)
      PROVE  \E c \in Clients :
                 /\ tx[c].order = o
                 /\ Orderable(tx[c].route, tx[c].cart)
                 /\ WithinLimits(tx[c].route, Quote(tx[c].cart))
                 /\ orders'[o].total = QuoteTotal(Quote(tx[c].cart))
  <2>1. PICK c \in Clients : o = tx[c].order /\ Inserts(c)
      BY <1>1, InsertedBy
  <2>2. /\ Informed(tx[c]) /\ tx[c].pc \in {"found", "settled"}
        /\ orders'[o].total = QuoteTotal(tx[c].quote)
      BY <2>1 DEF Inserts, CommitFacts, Replaces
  <2> QED
      BY <2>1, <2>2 DEF Informed
<1>2. Sound /\ [Next]_vars =>
        [\A o \in OrderIds : Inserted(o) =>
            \E c \in Clients :
                /\ tx[c].order = o
                /\ Orderable(tx[c].route, tx[c].cart)
                /\ WithinLimits(tx[c].route, Quote(tx[c].cart))
                /\ orders'[o].total = QuoteTotal(Quote(tx[c].cart))]_vars
    BY <1>1
<1> QED
    BY <1>2, OrdersInvHolds, PTL DEF Spec, PricedAtCommit

\* Money leaves the account of a prisoner who is active at that moment.
THEOREM ActiveAtCommit == Spec => DebitsOnlyActive
<1>1. ASSUME Sound, [Next]_vars, NEW o \in OrderIds, Inserted(o),
             orders'[o].source \in ScannedSources
      PROVE  active[orders'[o].user]
  <2>1. PICK c \in Clients : o = tx[c].order /\ Inserts(c)
      BY <1>1, InsertedBy
  <2>2. /\ Informed(tx[c]) /\ tx[c].pc \in CreatingPcs
        /\ orders'[o] = NewOrder(c) /\ NewOrder(c).user = tx[c].user
        /\ (Scanned(tx[c].route) <=> NewOrder(c).source \in ScannedSources)
      BY <2>1 DEF Inserts, CommitFacts, Replaces, CreatingPcs
  <2> QED
      BY <1>1, <2>2 DEF Informed
<1>2. Sound /\ [Next]_vars =>
        [\A o \in OrderIds :
            (Inserted(o) /\ orders'[o].source \in ScannedSources)
                => active[orders'[o].user]]_vars
    BY <1>1
<1> QED
    BY <1>2, OrdersInvHolds, PTL DEF Spec, DebitsOnlyActive
-----------------------------------------------------------------------------
(* Who waits for whom *)

RowPcs == {"priced", "limited", "found", "settled"}

\* How far a request t has come when it holds a lock: the canonical order.
Orderly(t) ==
    /\ "account" \in t.locks => t.pc \in RowPcs \cup {"account", "credited"}
    /\ "catalog" \in t.locks => t.pc \notin {"open", "topup"}
    /\ "menu" \in t.locks => t.pc \in RowPcs
    /\ \A i \in Items \cap t.locks :
          t.pc \in RowPcs \cup {"account"} \/ (t.pc = "open" /\ t.route = "relative")
    /\ t.pc = "catalog" \/ (t.pc = "account" /\ t.route = "scanner") => "catalog" \in t.locks
    /\ t.pc \in CreatingPcs /\ t.route \in {"issued", "generic"} => printed

(***************************************************************************)
(* Requests take their locks in order; the catalogue is not rewritten once *)
(* a form is printed; and a statement of the sync that has not ended has   *)
(* several users to write.                                                 *)
(***************************************************************************)
Waits ==
    /\ \A c \in Clients : Orderly(tx[c])
    /\ printed => Len(edit.rows) <= 1
    /\ sync # NoBatch => Len(sync.rows) # 1

\* One request moves, and is still in order.
LEMMA WaitsStep ==
    ASSUME TypeOK, Waits, NEW c \in Clients, NEW t, Becomes(c, t), UNCHANGED Catalogue, Orderly(t)
    PROVE  Waits'
<1>1. tx'[c] = t /\ \A d \in Clients \ {c} : tx'[d] = tx[d]
    BY DEF Becomes, TypeOK
<1>2. printed' = printed /\ edit' = edit /\ sync' = sync
    BY DEF Catalogue
<1>3. \A d \in Clients : Orderly(tx'[d])
    BY <1>1 DEF Waits
<1> QED
    BY <1>2, <1>3 DEF Waits, Orderly

\* Every statement of a request keeps the order.
LEMMA WaitsWhenRequests ==
    ASSUME TypeOK, Waits, NEW c \in Clients, Open(c) \/ Advance(c) \/ Crash(c)
    PROVE  Waits'
<1>1. tx[c] \in Txs /\ Orderly(tx[c])
    BY DEF TypeOK, Waits
<1>2. Orderly(IdleTx)
    BY DEF Orderly, IdleTx, CreatingPcs
<1>3. ASSUME Rollback(c)
      PROVE  Waits'
    BY <1>2, <1>3, WaitsStep DEF Rollback, ReadsOnly
<1>4. ASSUME NEW t, Becomes(c, t), ReadsOnly, Orderly(t)
      PROVE  Waits'
    BY <1>4, WaitsStep DEF ReadsOnly
\* A statement that takes more locks.
<1>5. ASSUME NEW pc, NEW kinds, Proceed(c, pc, kinds), ReadsOnly
      PROVE  \E t : /\ Becomes(c, t) /\ t.pc = pc /\ t.locks = tx[c].locks \cup kinds
                    /\ t.route = tx[c].route
  <2> DEFINE t == [tx[c] EXCEPT !.pc = pc, !.locks = @ \cup kinds]
  <2>1. t.pc = pc /\ t.locks = tx[c].locks \cup kinds /\ t.route = tx[c].route
      BY <1>1 DEF Txs
  <2>2. Becomes(c, t)
      BY <1>5 DEF Proceed
  <2> QED
      BY <2>1, <2>2
<1>6. CASE Open(c)
  <2>1. ASSUME NEW route, NEW u, NEW x, NEW d, NEW cart, NEW ack, NEW o,
               NEW kinds \in {{"user"}, {}}, route \in {"issued", "generic"} => printed,
               Request(c, route, u, x, d, cart, ack, o, kinds)
        PROVE  Waits'
    <3> DEFINE t == [IdleTx EXCEPT
              !.pc = "open", !.route = route, !.user = u, !.exact = x, !.date = d,
              !.cart = cart, !.ack = ack, !.order = o, !.locks = kinds,
              !.reported = (route = "issued" /\ Actives(u, d, ScannedSources) # {})]
    <3>1. Becomes(c, t) /\ ReadsOnly
        BY <2>1 DEF Request
    <3>2. t.pc = "open" /\ t.locks = kinds /\ t.route = route
        BY DEF IdleTx
    <3> HIDE DEF t
    <3>3. Orderly(t)
        BY <2>1, <3>2 DEF Orderly, Items, CreatingPcs
    <3> QED
        BY <1>4, <3>1, <3>3
  <2>2. ASSUME NEW u \in Users, NEW amount \in Topups, OpenTopup(c, u, amount)
        PROVE  Waits'
    <3> DEFINE t == [IdleTx EXCEPT !.pc = "topup", !.user = u, !.amount = amount]
    <3>1. Becomes(c, t) /\ ReadsOnly
        BY <2>2 DEF OpenTopup
    <3>2. t.pc = "topup" /\ t.locks = {} /\ t.route = IdleTx.route
        BY DEF IdleTx
    <3> HIDE DEF t
    <3>3. Orderly(t)
        BY <1>2, <3>2 DEF Orderly, CreatingPcs
    <3> QED
        BY <1>4, <3>1, <3>3
  <2>3. ASSUME NEW o, NEW ref, NEW pc \in {"accepting", "rejecting"}, LockPending(c, o, pc, ref)
        PROVE  Waits'
    <3> DEFINE t == [IdleTx EXCEPT !.pc = pc, !.order = o, !.ref = ref, !.locks = {"order"}]
    <3>1. Becomes(c, t) /\ ReadsOnly
        BY <2>3 DEF LockPending
    <3>2. t.pc = pc /\ t.locks = {"order"} /\ t.route = IdleTx.route
        BY DEF IdleTx
    <3> HIDE DEF t
    <3>3. Orderly(t)
        BY <1>2, <2>3, <3>2 DEF Orderly, Items, CreatingPcs
    <3> QED
        BY <1>4, <3>1, <3>3
  <2>4. ASSUME NEW route, NEW u, NEW x, NEW d, NEW cart, NEW ack, NEW o,
               OpenConfirm(c, route, u, x, d, cart, ack, o)
        PROVE  Waits'
      BY <2>4, <2>1 DEF OpenConfirm
  <2>5. ASSUME NEW u, NEW d, NEW cart, NEW o, OpenRelative(c, u, d, cart, o)
        PROVE  Waits'
    <3>1. Request(c, "relative", u, None, d, cart, FALSE, o, {})
        BY <2>5 DEF OpenRelative
    <3>2. "relative" \notin {"issued", "generic"}
        OBVIOUS
    <3> QED
        BY <2>1, <3>1, <3>2
  <2> QED
      BY <1>6, <2>2, <2>3, <2>4, <2>5 DEF Open, OpenAccept, OpenReject
<1>7. CASE LockExact(c)
  <2>1. PICK t : /\ Becomes(c, t) /\ t.pc = "open" /\ t.locks = tx[c].locks \cup {"exact"}
                 /\ t.route = tx[c].route
      BY <1>5, <1>7 DEF LockExact
  <2>2. ReadsOnly /\ tx[c].pc = "open"
      BY <1>7 DEF LockExact, AtExact
  <2>3. Orderly(t)
      BY <1>1, <2>1, <2>2 DEF Orderly, Items, CreatingPcs
  <2> QED
      BY <1>4, <2>1, <2>2, <2>3
<1>8. CASE LockCatalog(c)
  <2>1. CASE Proceed(c, "catalog", {"catalog"}) /\ ReadsOnly
    <3>1. PICK t : /\ Becomes(c, t) /\ t.pc = "catalog"
                   /\ t.locks = tx[c].locks \cup {"catalog"} /\ t.route = tx[c].route
        BY <1>5, <2>1
    <3>2. tx[c].pc = "open" /\ tx[c].route = "scanner"
        BY <1>8 DEF LockCatalog, AtCatalog
    <3>3. Orderly(t)
        BY <1>1, <3>1, <3>2 DEF Orderly, Items, RowPcs, CreatingPcs
    <3> QED
        BY <1>4, <2>1, <3>1, <3>3
  <2> QED
      BY <1>3, <1>8, <2>1 DEF LockCatalog
<1>9. CASE LockAccount(c)
  <2>1. PICK t : /\ Becomes(c, t) /\ t.pc = "account"
                 /\ t.locks = tx[c].locks \cup {"account"} /\ t.route = tx[c].route
      BY <1>5, <1>9 DEF LockAccount
  <2>2. /\ ReadsOnly
        /\ (tx[c].pc = "open" /\ tx[c].route \in {"issued", "generic"}) \/ tx[c].pc = "catalog"
      BY <1>9 DEF LockAccount, AtAccount
  <2>3. Orderly(t)
      BY <1>1, <2>1, <2>2 DEF Orderly, Items, RowPcs, CreatingPcs
  <2> QED
      BY <1>4, <2>1, <2>2, <2>3
<1>10. CASE ShareItem(c)
  <2>1. PICK i \in Items : Proceed(c, tx[c].pc, {i}) /\ ReadsOnly
      BY <1>10 DEF ShareItem
  <2>2. PICK t : /\ Becomes(c, t) /\ t.pc = tx[c].pc /\ t.locks = tx[c].locks \cup {i}
                 /\ t.route = tx[c].route
      BY <1>5, <2>1
  <2>3. tx[c].pc = "account" \/ (tx[c].pc = "open" /\ tx[c].route = "relative")
      BY <1>10 DEF ShareItem, Shares, AtRows
  <2>4. Orderly(t)
      BY <1>1, <2>2, <2>3 DEF Orderly, Items, RowPcs, CreatingPcs
  <2> QED
      BY <1>4, <2>1, <2>2, <2>4
<1>11. CASE ResolveMenu(c)
  <2> DEFINE t == [tx[c] EXCEPT !.pc = "priced", !.locks = @ \cup {"menu"},
                                !.quote = Quote(tx[c].cart)]
  <2>1. CASE Becomes(c, t) /\ ReadsOnly
    <3>1. t.pc = "priced" /\ t.locks = tx[c].locks \cup {"menu"} /\ t.route = tx[c].route
        BY <1>1 DEF Txs
    <3> HIDE DEF t
    <3>2. tx[c].pc \in {"account", "open"}
        BY <1>11 DEF ResolveMenu, AtRows
    <3>3. Orderly(t)
        BY <1>1, <3>1, <3>2 DEF Orderly, Items, RowPcs, CreatingPcs
    <3> QED
        BY <1>4, <2>1, <3>3
  <2> QED
      BY <1>3, <1>11, <2>1 DEF ResolveMenu
\* Statements of a request that has its prices.
<1>12. ASSUME NEW t, Becomes(c, t), ReadsOnly, tx[c].pc \in RowPcs, t.pc \in RowPcs,
              t.locks \subseteq tx[c].locks \cup {"policy"}, t.route = tx[c].route
       PROVE  Waits'
  <2>1. Orderly(t)
      BY <1>1, <1>12 DEF Orderly, Items, RowPcs, CreatingPcs
  <2> QED
      BY <1>4, <1>12, <2>1
<1>13. CASE CheckLimits(c)
  <2>1. CASE Proceed(c, "limited", {"policy"}) /\ ReadsOnly
    <3>1. PICK t : /\ Becomes(c, t) /\ t.pc = "limited"
                   /\ t.locks = tx[c].locks \cup {"policy"} /\ t.route = tx[c].route
        BY <1>5, <2>1
    <3>2. tx[c].pc = "priced"
        BY <1>13 DEF CheckLimits
    <3> QED
        BY <1>12, <2>1, <3>1, <3>2 DEF RowPcs
  <2> QED
      BY <1>3, <1>13, <2>1 DEF CheckLimits
<1>14. CASE FindExisting(c)
  <2>0. tx[c].pc = "limited"
      BY <1>14 DEF FindExisting
  <2>1. CASE Proceed(c, "found", {}) /\ ReadsOnly
    <3> DEFINE t == [tx[c] EXCEPT !.pc = "found", !.locks = @ \cup {}]
    <3>1. t.pc = "found" /\ t.locks \subseteq tx[c].locks /\ t.route = tx[c].route
        BY <1>1 DEF Txs
    <3>2. Becomes(c, t)
        BY <2>1 DEF Proceed
    <3> HIDE DEF t
    <3> QED
        BY <1>12, <2>0, <2>1, <3>1, <3>2 DEF RowPcs
  <2>2. ASSUME NEW o, Becomes(c, [tx[c] EXCEPT !.pc = "found", !.old = o]), ReadsOnly
        PROVE  Waits'
    <3> DEFINE t == [tx[c] EXCEPT !.pc = "found", !.old = o]
    <3>1. t.pc = "found" /\ t.locks = tx[c].locks /\ t.route = tx[c].route
        BY <1>1 DEF Txs
    <3>2. Becomes(c, t)
        BY <2>2
    <3> HIDE DEF t
    <3> QED
        BY <1>12, <2>0, <2>2, <3>1, <3>2 DEF RowPcs
  <2> QED
      BY <1>3, <1>14, <2>1, <2>2 DEF FindExisting
<1>15. CASE Settle(c)
  <2> DEFINE t == [tx[c] EXCEPT !.pc = "settled", !.read = account[tx[c].user].balance]
  <2>0. tx[c].pc = "found"
      BY <1>15 DEF Settle
  <2>1. CASE Becomes(c, t) /\ ReadsOnly
    <3>1. t.pc = "settled" /\ t.locks = tx[c].locks /\ t.route = tx[c].route
        BY <1>1 DEF Txs
    <3> HIDE DEF t
    <3> QED
        BY <1>12, <2>0, <2>1, <3>1 DEF RowPcs
  <2> QED
      BY <1>3, <1>15, <2>1 DEF Settle
<1>16. CASE LockTopup(c)
  <2> DEFINE t == [tx[c] EXCEPT !.pc = "credited", !.locks = {"account"},
                                !.read = account[tx[c].user].balance]
  <2>1. Becomes(c, t) /\ ReadsOnly
      BY <1>16 DEF LockTopup
  <2>2. t.pc = "credited" /\ t.locks = {"account"} /\ t.route = tx[c].route
      BY <1>1 DEF Txs
  <2> HIDE DEF t
  <2>3. Orderly(t)
      BY <1>1, <2>2 DEF Orderly, Items, CreatingPcs
  <2> QED
      BY <1>4, <2>1, <2>3
<1>17. ASSUME Becomes(c, IdleTx), UNCHANGED Catalogue
       PROVE  Waits'
    BY <1>2, <1>17, WaitsStep
<1>18. CASE CommitOrder(c) \/ CommitTopup(c) \/ CommitAccept(c) \/ CommitReject(c)
    BY <1>3, <1>17, <1>18 DEF CommitOrder, CommitTopup, CommitAccept, CommitReject
<1> QED
    BY <1>3, <1>6, <1>7, <1>8, <1>9, <1>10, <1>11, <1>13, <1>14, <1>15, <1>16, <1>18
       DEF Advance, Crash

\* So does every edit, form, change of limits and statement of the sync.
LEMMA WaitsWhenConfigured ==
    ASSUME TypeOK, Waits, Configure
    PROVE  Waits'
<1>1. tx' = tx
    BY ConfigureMoves
<1>2. ASSUME printed => printed', printed' => Len(edit'.rows) <= 1,
             sync' # NoBatch => Len(sync'.rows) # 1
      PROVE  Waits'
    BY <1>1, <1>2 DEF Waits, Orderly
<1>3. Len(NoBatch.rows) = 0
    BY DEF NoBatch
<1>4. CASE \E rows \in Edits : OpenEdit(rows)
  <2>1. PICK rows \in Edits : OpenEdit(rows)
      BY <1>4
  <2>2. /\ edit'.rows = rows /\ (Len(rows) > 1 => ~printed)
        /\ printed' = printed /\ sync' = sync
      BY <2>1 DEF OpenEdit
  <2>3. Len(rows) \in Nat
      BY BatchAssumption
  <2> QED
      BY <1>2, <2>2, <2>3 DEF Waits
<1>5. CASE \E row \in MenuRows : WriteItem(row)
  <2>1. edit' = NoBatch \/ edit' = [edit EXCEPT !.done = @ + 1]
      BY <1>5 DEF WriteItem
  <2>2. edit' = NoBatch \/ edit'.rows = edit.rows
      BY <2>1 DEF TypeOK, Batches
  <2>3. printed' = printed /\ sync' = sync
      BY <1>5 DEF WriteItem
  <2> QED
      BY <1>2, <1>3, <2>2, <2>3 DEF Waits
<1>6. CASE EditFails \/ SyncFails \/ GenerateForm \/ \E pol \in Policies : UpdateLimits(pol)
    BY <1>2, <1>3, <1>6 DEF EditFails, SyncFails, GenerateForm, UpdateLimits, Catalogue, Waits
<1>7. CASE \E rows \in Syncs, to \in [Users -> BOOLEAN] : OpenSync(rows, to)
    BY <1>2, <1>7 DEF OpenSync, Waits
<1>8. CASE \E to \in [Users -> BOOLEAN] : WriteUser(to)
  <2>1. sync # NoBatch /\ (sync' = NoBatch \/ sync' = [sync EXCEPT !.done = @ + 1])
      BY <1>8 DEF WriteUser
  <2>2. sync' = NoBatch \/ sync'.rows = sync.rows
      BY <2>1 DEF TypeOK, Batches
  <2>3. printed' = printed /\ edit' = edit
      BY <1>8 DEF WriteUser
  <2> QED
      BY <1>2, <2>1, <2>2, <2>3 DEF Waits
<1> QED
    BY <1>4, <1>5, <1>6, <1>7, <1>8 DEF Configure

(***************************************************************************)
(* The argument behind CirclesNeedBatches.  A member of a circle waits, so *)
(* it holds only what comes before what it waits for.  Without a request   *)
(* that waits for a menu row there is none that waits for an account, then *)
(* none for the catalogue, and the editor is not in the circle; what is    *)
(* left is the sync and the requests that wait for it.                     *)
(***************************************************************************)
LEMMA CirclesExplained ==
    ASSUME Sound, Waits, NEW S \in SUBSET Actors, Circle(S)
    PROVE  \/ /\ "editor" \in S /\ Len(edit.rows) > 1 /\ edit.done > 0 /\ ~printed
              /\ \E c \in S \cap Clients : tx[c].route = "relative" /\ Unshared(c) # {}
           \/ /\ "sync" \in S /\ Len(sync.rows) > 1
              /\ \E c \in S \cap Clients : tx[c].route = "scanner" /\ tx[c].exact # None
<1> USE DEF Sound
<1>1. \A b \in S : \E a \in S : Blocks(a, b)
    BY DEF Circle
<1>2. "editor" \notin Clients /\ "sync" \notin Clients /\ "editor" # "sync"
    BY NoneAssumption
<1>3. \A c \in Clients : Orderly(tx[c]) /\ tx[c] \in Txs
    BY DEF Waits, TypeOK
<1> DEFINE AtRow(c) == \E i \in Items : Shares(c, i) /\ i \in Written(edit)
\* A request that waits for a menu row waits for an edit of several rows.
<1>4. ASSUME NEW c \in S \cap Clients, AtRow(c)
      PROVE  /\ "editor" \in S /\ Len(edit.rows) > 1 /\ edit.done > 0 /\ ~printed
             /\ \E d \in S \cap Clients : tx[d].route = "relative" /\ Unshared(d) # {}
  <2>1. PICK i \in Items : Shares(c, i) /\ i \in Written(edit)
      BY <1>4
  <2>2. edit.done \in Nat /\ edit.done > 0 /\ edit # NoBatch
    <3>1. edit.done \in Nat /\ 1..edit.done # {}
        BY <2>1 DEF TypeOK, Batches, Written
    <3> QED
        BY <3>1 DEF NoBatch
  <2>3. edit.done + 1 \in 1..Len(edit.rows) /\ Len(edit.rows) \in Nat
    <3>1. edit.rows \in Seq(Items)
        BY <2>2, BatchAssumption DEF TypeOK, Batches, RowsApart, Unfinished
    <3> QED
        BY <2>2, <3>1 DEF RowsApart, Unfinished
  <2>4. Len(edit.rows) > 1 /\ ~printed
      BY <2>2, <2>3 DEF Waits
  <2>5. i \in Unshared(c) /\ "catalog" \notin tx[c].locks
      BY <2>1 DEF Shares, Unshared, HoldsItem
  <2>6. tx[c].route = "relative"
    <3>1. CASE tx[c].pc = "account"
      <4>1. tx[c].route \in ScannedRoutes
          BY <3>1 DEF LockDiscipline, CreatingInOrder, Scanned
      <4> QED
          BY <1>3, <2>4, <2>5, <3>1, <4>1 DEF Orderly, ScannedRoutes, CreatingPcs
    <3> QED
        BY <2>1, <3>1 DEF Shares, AtRows
  <2>7. "editor" \in S
    <3>1. PICK a \in S : Blocks(a, c)
        BY <1>1
    <3>2. tx[c].pc = "account" \/ (tx[c].pc = "open" /\ tx[c].route = "relative")
        BY <2>1 DEF Shares, AtRows
    <3>3. ~AtCatalog(c) /\ ~AtAccount(c) /\ ~AtExact(c) /\ tx[c].pc # "topup"
        BY <2>6, <3>2 DEF AtCatalog, AtAccount, AtExact
    <3> QED
        BY <1>2, <3>1, <3>3 DEF Blocks
  <2> QED
      BY <2>2, <2>4, <2>5, <2>6, <2>7
\* Otherwise the circle is one of the sync.
<1>5. ASSUME \A c \in S \cap Clients : ~AtRow(c)
      PROVE  /\ "sync" \in S /\ Len(sync.rows) > 1
             /\ \E c \in S \cap Clients : tx[c].route = "scanner" /\ tx[c].exact # None
  <2>1. ASSUME NEW b \in S \cap Clients
        PROVE  ~((AtAccount(b) \/ tx[b].pc = "topup")
                   /\ \E a \in S \cap Clients : HoldsAccount(a, tx[b].user))
    <3>1. ASSUME NEW a \in S \cap Clients, "account" \in tx[a].locks
          PROVE  FALSE
      <4>1. tx[a].pc \in RowPcs \cup {"account", "credited"}
          BY <1>3, <3>1 DEF Orderly
      <4>2. ~AtCatalog(a) /\ ~AtAccount(a) /\ ~AtExact(a) /\ tx[a].pc # "topup"
          BY <4>1 DEF AtCatalog, AtAccount, AtExact, RowPcs
      <4> QED
          BY <1>1, <1>2, <1>5, <4>2 DEF Blocks
    <3> QED
        BY <3>1 DEF HoldsAccount
  <2>2. ASSUME NEW b \in S \cap Clients, NEW a \in S, Blocks(a, b)
        PROVE  AtCatalog(b) \/ (a = "sync" /\ AtExact(b))
      BY <1>2, <1>5, <2>1, <2>2 DEF Blocks
  <2>3. ASSUME NEW a \in S \cap Clients
        PROVE  /\ tx[a].pc = "open" /\ tx[a].route = "scanner"
               /\ "catalog" \notin tx[a].locks /\ \A i \in Items : ~HoldsItem(a, i)
    <3>1. tx[a].pc = "open" /\ tx[a].route = "scanner"
        BY <1>1, <2>2 DEF AtCatalog, AtExact
    <3>2. /\ "catalog" \notin tx[a].locks /\ "menu" \notin tx[a].locks
          /\ \A i \in Items : i \notin tx[a].locks
        BY <1>3, <3>1 DEF Orderly, RowPcs
    <3> QED
        BY <3>1, <3>2 DEF HoldsItem
  <2>4. "editor" \notin S
    <3>1. ASSUME "editor" \in S
          PROVE  FALSE
      <4>1. PICK a \in S : Blocks(a, "editor")
          BY <1>1, <3>1
      <4>2. a \in Clients /\ edit # NoBatch /\ HoldsItem(a, NextRow(edit))
          BY <1>2, <4>1 DEF Blocks
      <4>3. NextRow(edit) \in Items
          BY <4>2, BatchAssumption DEF TypeOK, Batches, RowsApart, Unfinished, NextRow
      <4> QED
          BY <2>3, <4>2, <4>3
    <3> QED
        BY <3>1
  <2>5. ASSUME NEW b \in S \cap Clients
        PROVE  "sync" \in S /\ AtExact(b)
    <3>1. PICK a \in S : Blocks(a, b)
        BY <1>1
    <3>2. CASE a \in Clients
        BY <1>2, <2>1, <2>2, <2>3, <3>1, <3>2 DEF Blocks
    <3>3. CASE a = "sync"
        BY <1>2, <3>1, <3>3 DEF Blocks
    <3> QED
        BY <2>4, <3>2, <3>3 DEF Actors
  <2>6. "sync" \in S
    <3>1. PICK b : b \in S
        BY DEF Circle
    <3> QED
        BY <2>4, <2>5, <3>1 DEF Actors
  <2>7. PICK a \in S : Blocks(a, "sync")
      BY <1>1, <2>6
  <2>8. a \in Clients /\ sync # NoBatch
      BY <1>2, <2>7 DEF Blocks
  <2>9. tx[a].route = "scanner" /\ tx[a].exact # None
      BY <2>5, <2>8 DEF AtExact
  <2>10. Len(sync.rows) > 1
    <3>1. sync.rows \in Seq(Users) /\ sync.rows # << >> /\ Len(sync.rows) # 1
        BY <2>8, BatchAssumption DEF TypeOK, Batches, RowsApart, Unfinished, Waits
    <3>2. sync.done \in Nat /\ sync.done + 1 \in 1..Len(sync.rows) /\ Len(sync.rows) \in Nat
        BY <2>8, <3>1 DEF TypeOK, Batches, RowsApart, Unfinished
    <3>3. Len(sync.rows) >= 1
        BY <3>2
    <3> QED
        BY <3>1, <3>2, <3>3, RoomForTwo
  <2> QED
      BY <2>6, <2>8, <2>9, <2>10
<1> QED
    BY <1>4, <1>5

\* Requests wait for each other in a circle only if an edit of several menu
\* rows or a statement of the sync over several users takes part.
THEOREM CirclesBounded == Spec => []CirclesNeedBatches
<1>1. Init => Sound /\ Waits
  <2> SUFFICES ASSUME Init
               PROVE  Waits
      BY InitSound
  <2>1. /\ \A c \in Clients : tx[c] = IdleTx
        /\ printed = FALSE /\ sync = NoBatch
      BY DEF Init
  <2> QED
      BY <2>1 DEF Waits, Orderly, IdleTx, CreatingPcs
<1>2. (Sound /\ Waits) /\ [Next]_vars => (Sound /\ Waits)'
  <2> SUFFICES ASSUME Sound, Waits, [Next]_vars
               PROVE  Waits'
      BY OrdersStep
  <2>1. CASE UNCHANGED vars
      BY <2>1 DEF vars, Waits, Orderly
  <2>2. CASE Next
      BY <2>2, WaitsWhenRequests, WaitsWhenConfigured DEF Next, Sound
  <2> QED
      BY <2>1, <2>2
<1>3. Sound /\ Waits => CirclesNeedBatches
    BY CirclesExplained DEF CirclesNeedBatches
<1> QED
    BY <1>1, <1>2, <1>3, PTL DEF Spec
=============================================================================
