---------------------------- MODULE OrdersLedger ----------------------------
(***************************************************************************)
(* Orders and the money behind them: OrdersService.createOrReplace, the    *)
(* cashier's accept and reject, CounterService.topup, AccountsService, and *)
(* the confirmations (verify), kiosk and counter requests that call them.  *)
(*                                                                         *)
(* Each client is one HTTP request running one READ COMMITTED database     *)
(* transaction.  A transaction takes its row locks one statement at a time *)
(* and keeps them until it ends; its writes become visible when it         *)
(* commits; when it throws, or the backend dies, it leaves no trace.  The  *)
(* catalogue edits of MenuService and the batches of the legacy sync take  *)
(* locks on the same rows, one row after another.                          *)
(***************************************************************************)
EXTENDS Integers, Sequences, FiniteSets

CONSTANTS
    Users,      \* prisoners
    Clients,    \* concurrent requests
    OrderIds,   \* order ids; their number bounds the orders ever created
    Dates,      \* service dates
    Routes,     \* the callers of createOrReplace enabled in this instance
    Refs,       \* bank transfer references
    Carts,      \* requested quantities, functions from Items to Nat
    MenuRows,   \* values a menu row may take
    Policies,   \* purchase-limit configurations
    Topups,     \* top-up amounts
    Edits,      \* the menu rows an edit may write, in the order it writes them
    Syncs,      \* the users a statement of the sync may write, likewise
    MaxVnd,     \* ceiling of one ledger amount (MAX_VND)
    MaxRows,    \* bound: no top-up of a prisoner starts on a ledger this long
    Indexes,    \* partial unique indexes of the deployed schema
    None        \* the SQL NULL

\* Two catalogue rows, so that a cart can mix categories.
Items == {"item1", "item2"}

Categories == {"food", "essential"}

ScannedRoutes == {"issued", "generic", "scanner"}

ScannedSources == {"omr", "scanner"}

ASSUME NoneAssumption ==
    /\ None \notin OrderIds /\ None \notin Users /\ None \notin Clients
    /\ None \notin Refs /\ None \notin Nat
    /\ "editor" \notin Clients /\ "sync" \notin Clients

ASSUME MoneyAssumption ==
    /\ MaxVnd \in Nat /\ MaxRows \in [Users -> Nat]
    /\ Topups \subseteq Nat
    /\ Carts \subseteq [Items -> Nat]
    /\ MenuRows \subseteq [price: Nat, category: Categories, active: BOOLEAN]
    /\ Policies \subseteq [{"prisoner", "visitor"} -> [Categories -> Nat \cup {None}]]

ASSUME BatchAssumption ==
    /\ Edits \subseteq Seq(Items) \ {<< >>}
    /\ Syncs \subseteq Seq(Users) \ {<< >>}

ASSUME SchemaAssumption ==
    /\ Routes \subseteq ScannedRoutes \cup {"relative"}
    /\ Indexes \subseteq {"active_source", "active_scanned", "transfer_reference"}

VARIABLES
    account,    \* prisoner_accounts and account_transactions, by prisoner
    orders,     \* order id -> row, or None
    tg8,        \* order id -> accepted total of its TG8 snapshot, or None
    menu,       \* menu_items
    policy,     \* the purchase_limit_config row
    active,     \* users.is_active
    tx,         \* what each client's request holds in memory, and its locks
    printed,    \* an order form has been generated
    edit,       \* the catalogue edit that runs: its menu rows, and those it wrote
    sync        \* the statement of the legacy sync that runs: its users, likewise

vars == <<account, orders, tg8, menu, policy, active, tx, printed, edit, sync>>

\* One account row and its ledger, as the abstract specification has them.
Ledger == INSTANCE AccountLedger WITH
    Users <- Users, OrderIds <- OrderIds, MaxVnd <- MaxVnd, None <- None, account <- account

Scanned(route) == route \in ScannedRoutes

Source(route) ==
    CASE route = "scanner"  -> "scanner"
      [] route = "relative" -> "relative"
      [] OTHER              -> "omr"

Audience(route) == IF Scanned(route) THEN "prisoner" ELSE "visitor"

-----------------------------------------------------------------------------
(* Transactions and their locks *)

LockKinds == {"user", "exact", "account", "catalog", "menu", "policy", "order"} \cup Items

Pcs == {"idle", "open", "catalog", "account", "priced", "limited", "found",
        "settled", "topup", "credited", "accepting", "rejecting"}

IdleTx == [pc |-> "idle", user |-> None, exact |-> None, date |-> None, route |-> None,
           cart |-> [i \in Items |-> 0], quote |-> [k \in Categories |-> 0],
           ack |-> FALSE, amount |-> 0, order |-> None, old |-> None,
           ref |-> None, read |-> 0, reported |-> FALSE, locks |-> {}]

\* SELECT ... FOR UPDATE on the account row, until the transaction ends.
HoldsAccount(c, u) == "account" \in tx[c].locks /\ tx[c].user = u

\* SELECT ... FOR SHARE on the prisoner's row (assertSheetOwnerAccess), and
\* on the row that bears the number the scanner read.
HoldsUser(c, u) ==
    \/ "user" \in tx[c].locks /\ tx[c].user = u
    \/ "exact" \in tx[c].locks /\ tx[c].exact = u

\* SELECT ... FOR SHARE on the menu rows read; the scanner path reads them all.
HoldsItem(c, i) ==
    \/ "catalog" \in tx[c].locks
    \/ "menu" \in tx[c].locks /\ tx[c].cart[i] > 0
    \/ i \in tx[c].locks

\* SELECT ... FOR UPDATE on the order row to settle.
HoldsOrder(c, o) == "order" \in tx[c].locks /\ tx[c].order = o

\* A transaction that writes several rows: which, in which order, and how
\* many it has written and so holds.
NoBatch == [rows |-> << >>, done |-> 0]

Batches(lists) == [rows: lists \cup {<< >>}, done: Nat]

Written(batch) == {batch.rows[i] : i \in 1..batch.done}

NextRow(batch) == batch.rows[batch.done + 1]

LastRow(batch) == batch.done + 1 = Len(batch.rows)

Catalogue == <<printed, edit, sync>>

\* A statement of a transaction that only reads, and perhaps locks.
ReadsOnly == UNCHANGED <<account, orders, tg8, menu, policy, active, Catalogue>>

Becomes(c, t) == tx' = [tx EXCEPT ![c] = t]

Proceed(c, pc, kinds) ==
    Becomes(c, [tx[c] EXCEPT !.pc = pc, !.locks = @ \cup kinds])

\* A throw, a lost connection or a crash: the transaction rolls back.
Rollback(c) == Becomes(c, IdleTx) /\ ReadsOnly

-----------------------------------------------------------------------------
(* Prices, limits and the orders already there *)

Line(i, cart, k) == IF menu[i].category = k THEN menu[i].price * cart[i] ELSE 0

Subtotal(cart, k) == Line("item1", cart, k) + Line("item2", cart, k)

Quote(cart) == [k \in Categories |-> Subtotal(cart, k)]

QuoteTotal(quote) == quote["food"] + quote["essential"]

\* A retired item is still accepted from an issued or generic paper form.
Orderable(route, cart) ==
    \A i \in Items : cart[i] > 0 => (Source(route) = "omr" \/ menu[i].active)

WithinLimits(route, quote) ==
    \A k \in Categories :
        LET limit == policy[Audience(route)][k]
        IN  limit # None => quote[k] <= limit

Exists(o) == orders[o] # None

Actives(u, d, sources) ==
    {o \in OrderIds : /\ Exists(o)
                      /\ orders[o].user = u /\ orders[o].date = d
                      /\ orders[o].source \in sources
                      /\ orders[o].status = "active"}

\* The active order a new one meets: of its own source, else (omr and
\* scanner are one channel) of the other scanned source.
Existing(u, d, route) ==
    LET own == Actives(u, d, {Source(route)})
    IN  IF own = {} /\ Scanned(route) THEN Actives(u, d, ScannedSources) ELSE own

Pending(o) ==
    /\ Exists(o)
    /\ orders[o].source = "relative"
    /\ orders[o].status = "active"
    /\ orders[o].payment = "unpaid"

\* randomUUID: an id no row has and no running request has drawn.
Fresh(o) == ~Exists(o) /\ \A c \in Clients : tx[c].order # o

-----------------------------------------------------------------------------
(* Creating or replacing an order *)

Request(c, route, u, x, d, cart, ack, o, kinds) ==
    /\ tx[c].pc = "idle"
    /\ Fresh(o)
    /\ Becomes(c, [IdleTx EXCEPT
                  !.pc = "open", !.route = route, !.user = u, !.exact = x, !.date = d,
                  !.cart = cart, !.ack = ack, !.order = o, !.locks = kinds,
                  !.reported = (route = "issued" /\ Actives(u, d, ScannedSources) # {})])
    /\ ReadsOnly

\* Verify confirm opens the transaction and locks the prisoner's row; for an
\* issued form it also looks for an order to replace, before the account lock.
\* A scanned receipt may bear the number of another prisoner, x.
OpenConfirm(c, route, u, x, d, cart, ack, o) ==
    /\ Scanned(route)
    /\ route # "scanner" => printed /\ x = None
    /\ active[u] /\ x # u
    /\ u \notin Written(sync)
    /\ (route = "issued" /\ Actives(u, d, ScannedSources) # {}) => ack
    /\ Request(c, route, u, x, d, cart, ack, o, {"user"})

\* Kiosk placeOrder and counter relativeOrder check is_active beforehand,
\* outside the transaction and without a lock.
OpenRelative(c, u, d, cart, o) ==
    /\ active[u]
    /\ Request(c, "relative", u, None, d, cart, FALSE, o, {})

\* confirmScanner: the user of the number read, when it is another one.
AtExact(c) ==
    /\ tx[c].pc = "open" /\ tx[c].route = "scanner"
    /\ tx[c].exact # None /\ "exact" \notin tx[c].locks

LockExact(c) ==
    /\ AtExact(c)
    /\ tx[c].exact \notin Written(sync)
    /\ Proceed(c, "open", {"exact"})
    /\ ReadsOnly

AtCatalog(c) == tx[c].pc = "open" /\ tx[c].route = "scanner" /\ ~AtExact(c)

\* Mutant: the menu rows are locked before the catalogue is.
LockCatalogAfterRows(c) ==
    /\ AtCatalog(c)
    /\ \/ /\ ~Items \subseteq tx[c].locks
          /\ Items \cap Written(edit) = {}
          /\ Proceed(c, "open", Items)
       \/ /\ Items \subseteq tx[c].locks
          /\ edit = NoBatch
          /\ \A d \in Clients \ {c} : "catalog" \notin tx[d].locks
          /\ Proceed(c, "catalog", {"catalog"})
    /\ ReadsOnly

\* confirmScanner: advisory catalogue lock, then every menu row FOR SHARE;
\* whoever writes one holds the catalogue, so none of them is waited for.
LockCatalog(c) ==
    /\ AtCatalog(c)
    /\ edit = NoBatch
    /\ \A d \in Clients \ {c} : "catalog" \notin tx[d].locks
    /\ \/ /\ Orderable(tx[c].route, tx[c].cart)
          /\ Proceed(c, "catalog", {"catalog"})
          /\ ReadsOnly
       \/ /\ ~Orderable(tx[c].route, tx[c].cart)
          /\ Rollback(c)

\* AccountsService.getOrCreate, first statement of a scanned createOrReplace.
AtAccount(c) ==
    \/ tx[c].pc = "open" /\ tx[c].route \in {"issued", "generic"}
    \/ tx[c].pc = "catalog"

LockAccount(c) ==
    /\ AtAccount(c)
    /\ \A d \in Clients \ {c} : ~HoldsAccount(d, tx[c].user)
    /\ Proceed(c, "account", {"account"})
    /\ ReadsOnly

AtRows(c) ==
    \/ tx[c].pc = "account"
    \/ tx[c].pc = "open" /\ tx[c].route = "relative"

\* The rows of the cart that a request has yet to lock, in the order of ids.
Unshared(c) == {i \in Items : tx[c].cart[i] > 0 /\ ~HoldsItem(c, i)}

Shares(c, i) ==
    /\ AtRows(c)
    /\ i \in Unshared(c)
    /\ i = "item2" => "item1" \notin Unshared(c)

\* One more row of the cart FOR SHARE, and more to come.
ShareItem(c) ==
    \E i \in Items :
        /\ Shares(c, i) /\ Unshared(c) # {i}
        /\ i \notin Written(edit)
        /\ Proceed(c, tx[c].pc, {i})
        /\ ReadsOnly

\* With the last row of the cart, its prices: shared rows do not change.
ResolveMenu(c) ==
    /\ AtRows(c)
    /\ \A i, j \in Unshared(c) : i = j
    /\ Unshared(c) \cap Written(edit) = {}
    /\ \/ /\ Orderable(tx[c].route, tx[c].cart)
          /\ Becomes(c, [tx[c] EXCEPT !.pc = "priced",
                                      !.locks = @ \cup {"menu"},
                                      !.quote = Quote(tx[c].cart)])
          /\ ReadsOnly
       \/ /\ ~Orderable(tx[c].route, tx[c].cart)
          /\ Rollback(c)

\* The policy row FOR SHARE.  It is there: the migration that creates the
\* table inserts it, and nothing deletes it.
CheckLimits(c) ==
    /\ tx[c].pc = "priced"
    /\ \/ /\ WithinLimits(tx[c].route, tx[c].quote)
          /\ Proceed(c, "limited", {"policy"})
          /\ ReadsOnly
       \/ /\ ~WithinLimits(tx[c].route, tx[c].quote)
          /\ Rollback(c)

\* Replacement needs the operator's acknowledgement, and a relative order is
\* never replaced: both refusals are 409s.
FindExisting(c) ==
    LET found == Existing(tx[c].user, tx[c].date, tx[c].route)
        mayReplace == Scanned(tx[c].route) /\ tx[c].ack
    IN  /\ tx[c].pc = "limited"
        /\ \/ /\ found = {}
              /\ Proceed(c, "found", {})
              /\ ReadsOnly
           \/ /\ mayReplace
              /\ \E o \in found :
                    Becomes(c, [tx[c] EXCEPT !.pc = "found", !.old = o])
              /\ ReadsOnly
           \/ /\ found # {} /\ ~mayReplace
              /\ Rollback(c)

\* Mutant: the replaced order is priced again instead of read.
RefundAtTodaysPrice(c) == IF tx[c].old = None THEN 0 ELSE QuoteTotal(tx[c].quote)

\* What the replaced order gives back: its stored total, not today's price.
Refund(c) == IF tx[c].old = None THEN 0 ELSE orders[tx[c].old].total

\* assertAmount of credit and debit; an amount of 0 skips the ledger.
ValidAmount(n) == n <= MaxVnd

\* Reversal and debit re-read the locked balance; a short one throws.
Settle(c) ==
    LET total  == QuoteTotal(tx[c].quote)
        funded == /\ ValidAmount(total) /\ ValidAmount(Refund(c))
                  /\ total = 0 \/ total <= account[tx[c].user].balance + Refund(c)
    IN  /\ tx[c].pc = "found" /\ Scanned(tx[c].route)
        /\ \/ /\ funded
              /\ Becomes(c, [tx[c] EXCEPT !.pc = "settled",
                                          !.read = account[tx[c].user].balance])
              /\ ReadsOnly
           \/ ~funded /\ Rollback(c)

\* AccountsService.mutate: the balance is overwritten from the value read.
Mutate(acct, read, type, delta, o) ==
    IF delta = 0 THEN acct ELSE Ledger!Posted(acct, read, type, delta, o)

SettledAccount(c) ==
    LET given == Mutate(account[tx[c].user], tx[c].read, "reversal", Refund(c), tx[c].old)
    IN  Mutate(given, tx[c].read + Refund(c), "order_debit",
               -QuoteTotal(tx[c].quote), tx[c].order)

\* Mutant: the schema has only the later index, on scanned orders.
InsertRefusedScanned(c) ==
    /\ "active_scanned" \in Indexes /\ Scanned(tx[c].route)
    /\ Actives(tx[c].user, tx[c].date, ScannedSources) \ {tx[c].old} # {}

\* A partial unique index refuses the insert (the old order is superseded first).
InsertRefused(c) ==
    \E o \in OrderIds \ {tx[c].old} :
        \/ /\ "active_source" \in Indexes
           /\ o \in Actives(tx[c].user, tx[c].date, {Source(tx[c].route)})
        \/ /\ "active_scanned" \in Indexes /\ Scanned(tx[c].route)
           /\ o \in Actives(tx[c].user, tx[c].date, ScannedSources)

NewOrder(c) ==
    [user |-> tx[c].user, date |-> tx[c].date, source |-> Source(tx[c].route),
     status |-> "active", total |-> QuoteTotal(tx[c].quote),
     payment |-> IF Scanned(tx[c].route) THEN "paid" ELSE "unpaid",
     by |-> None, ref |-> None,
     replaced |-> IF tx[c].route = "issued" THEN tx[c].reported
                                            ELSE tx[c].old # None]

\* Mutant: the old order is closed but not linked to the new one.
WithNewOrderUnlinked(c) ==
    [o \in OrderIds |->
        CASE o = tx[c].order -> NewOrder(c)
          [] o = tx[c].old   -> [orders[o] EXCEPT !.status = "superseded"]
          [] OTHER           -> orders[o]]

\* The superseded row points at its successor, which is inserted with it.
WithNewOrder(c) ==
    [o \in OrderIds |->
        CASE o = tx[c].order -> NewOrder(c)
          [] o = tx[c].old   -> [orders[o] EXCEPT !.status = "superseded",
                                                  !.by = tx[c].order]
          [] OTHER           -> orders[o]]

CommitOrder(c) ==
    /\ \/ tx[c].pc = "settled"
       \/ tx[c].pc = "found" /\ tx[c].route = "relative"
    /\ \/ /\ ~InsertRefused(c)
          /\ orders' = WithNewOrder(c)
          /\ account' = IF Scanned(tx[c].route)
                        THEN [account EXCEPT ![tx[c].user] = SettledAccount(c)]
                        ELSE account
          /\ Becomes(c, IdleTx)
          /\ UNCHANGED <<tg8, menu, policy, active, Catalogue>>
       \/ InsertRefused(c) /\ Rollback(c)

-----------------------------------------------------------------------------
(* Top-up at the counter *)

\* assertActive reads the prisoner before the transaction, without a lock.
OpenTopup(c, u, amount) ==
    /\ tx[c].pc = "idle"
    /\ active[u]
    /\ amount > 0 /\ ValidAmount(amount)
    /\ Len(account[u].ledger) < MaxRows[u]
    /\ Becomes(c, [IdleTx EXCEPT !.pc = "topup", !.user = u, !.amount = amount])
    /\ ReadsOnly

\* Mutant: the top-up reads the account row without locking it.
LockTopupUnlocked(c) ==
    /\ tx[c].pc = "topup"
    /\ Becomes(c, [tx[c] EXCEPT !.pc = "credited", !.locks = {"account"},
                                !.read = account[tx[c].user].balance])
    /\ ReadsOnly

LockTopup(c) ==
    /\ tx[c].pc = "topup"
    /\ \A d \in Clients \ {c} : ~HoldsAccount(d, tx[c].user)
    /\ Becomes(c, [tx[c] EXCEPT !.pc = "credited", !.locks = {"account"},
                                !.read = account[tx[c].user].balance])
    /\ ReadsOnly

CommitTopup(c) ==
    /\ tx[c].pc = "credited"
    /\ account' = [account EXCEPT ![tx[c].user] =
                      Mutate(@, tx[c].read, "topup", tx[c].amount, None)]
    /\ Becomes(c, IdleTx)
    /\ UNCHANGED <<orders, tg8, menu, policy, active, Catalogue>>

-----------------------------------------------------------------------------
(* The cashier settles a relative order *)

\* Mutant: assertPending on a row that is not locked.
LockPendingUnlocked(c, o, pc, ref) ==
    /\ tx[c].pc = "idle"
    /\ Pending(o)
    /\ Becomes(c, [IdleTx EXCEPT !.pc = pc, !.order = o, !.ref = ref])
    /\ ReadsOnly

\* The row lock and assertPending, on the row as it is once the lock is had.
LockPending(c, o, pc, ref) ==
    /\ tx[c].pc = "idle"
    /\ Pending(o)
    /\ \A d \in Clients : ~HoldsOrder(d, o)
    /\ Becomes(c, [IdleTx EXCEPT !.pc = pc, !.order = o, !.ref = ref,
                                  !.locks = {"order"}])
    /\ ReadsOnly

OpenAccept(c, o, ref) == LockPending(c, o, "accepting", ref)

OpenReject(c, o) == LockPending(c, o, "rejecting", None)

ReferenceTaken(c) ==
    /\ "transfer_reference" \in Indexes
    /\ tx[c].ref # None
    /\ \E p \in OrderIds \ {tx[c].order} : Exists(p) /\ orders[p].ref = tx[c].ref

\* Paid, with its TG8 snapshot, or not at all.
CommitAccept(c) ==
    LET o == tx[c].order
        refused == ReferenceTaken(c) \/ tg8[o] # None
    IN  /\ tx[c].pc = "accepting"
        /\ \/ /\ ~refused
              /\ orders' = [orders EXCEPT ![o].payment = "paid", ![o].ref = tx[c].ref]
              /\ tg8' = [tg8 EXCEPT ![o] = orders[o].total]
              /\ Becomes(c, IdleTx)
              /\ UNCHANGED <<account, menu, policy, active, Catalogue>>
           \/ refused /\ Rollback(c)

CommitReject(c) ==
    /\ tx[c].pc = "rejecting"
    /\ orders' = [orders EXCEPT ![tx[c].order].status = "rejected"]
    /\ Becomes(c, IdleTx)
    /\ UNCHANGED <<account, tg8, menu, policy, active, Catalogue>>

-----------------------------------------------------------------------------
(* Configuration changes; each waits for the readers that hold the row *)

\* withCatalogLock: one edit at a time.  Before any form is generated reorder
\* and the hard removal write every row, in the order of positions.
OpenEdit(rows) ==
    /\ edit = NoBatch
    /\ \A c \in Clients : "catalog" \notin tx[c].locks
    /\ Len(rows) > 1 => ~printed
    /\ edit' = [rows |-> rows, done |-> 0]
    /\ UNCHANGED <<account, orders, tg8, menu, policy, active, tx, printed, sync>>

\* updateItem and the soft removal change their row; the hard removal takes
\* the first one away, which to a request is as if it were retired; reorder
\* changes positions only.
Edited(row) ==
    LET i == edit.rows[1]
    IN  /\ Len(edit.rows) > 1 => row = menu[i] \/ ~row.active
        /\ menu' = [menu EXCEPT ![i] = row]

\* Mutant: an item is written while a transaction reads it under a share lock.
WriteItemUnlocked(row) ==
    /\ edit # NoBatch
    /\ Edited(row)
    /\ edit' = NoBatch
    /\ UNCHANGED <<account, orders, tg8, policy, active, tx, printed, sync>>

\* The next row of the edit, once nobody shares it; with the last, the commit.
WriteItem(row) ==
    /\ edit # NoBatch
    /\ \A c \in Clients : ~HoldsItem(c, NextRow(edit))
    /\ IF LastRow(edit)
       THEN Edited(row) /\ edit' = NoBatch
       ELSE edit' = [edit EXCEPT !.done = @ + 1] /\ UNCHANGED menu
    /\ UNCHANGED <<account, orders, tg8, policy, active, tx, printed, sync>>

EditFails ==
    /\ edit # NoBatch
    /\ edit' = NoBatch
    /\ UNCHANGED <<account, orders, tg8, menu, policy, active, tx, printed, sync>>

\* The first template is activated, under the catalogue lock.
GenerateForm ==
    /\ edit = NoBatch
    /\ \A c \in Clients : "catalog" \notin tx[c].locks
    /\ printed' = TRUE
    /\ UNCHANGED <<account, orders, tg8, menu, policy, active, tx, edit, sync>>

UpdateLimits(p) ==
    /\ \A c \in Clients : "policy" \notin tx[c].locks
    /\ policy' = p
    /\ UNCHANGED <<account, orders, tg8, menu, active, tx, Catalogue>>

\* A statement of the sync, an upsert of a batch or the deactivation of the
\* absent, has written its users when it commits.
Synced(rows, to) ==
    active' = [u \in Users |-> IF \E i \in DOMAIN rows : rows[i] = u THEN to[u] ELSE active[u]]

\* Mutant: the statement does not wait for a confirmation to end.
WriteUserUnlocked(to) ==
    /\ sync # NoBatch
    /\ Synced(sync.rows, to) /\ sync' = NoBatch
    /\ UNCHANGED <<account, orders, tg8, menu, policy, tx, printed, edit>>

\* While it waits for its first row a statement holds nothing: it starts with it.
OpenSync(rows, to) ==
    /\ sync = NoBatch
    /\ \A c \in Clients : ~HoldsUser(c, rows[1])
    /\ IF Len(rows) = 1
       THEN Synced(rows, to) /\ UNCHANGED sync
       ELSE sync' = [rows |-> rows, done |-> 1] /\ UNCHANGED active
    /\ UNCHANGED <<account, orders, tg8, menu, policy, tx, printed, edit>>

\* The next user of the statement, once no confirmation shares the row; with
\* the last, the commit.
WriteUser(to) ==
    /\ sync # NoBatch
    /\ \A c \in Clients : ~HoldsUser(c, NextRow(sync))
    /\ IF LastRow(sync)
       THEN Synced(sync.rows, to) /\ sync' = NoBatch
       ELSE sync' = [sync EXCEPT !.done = @ + 1] /\ UNCHANGED active
    /\ UNCHANGED <<account, orders, tg8, menu, policy, tx, printed, edit>>

\* The error is caught and recorded; the next run starts anew.
SyncFails ==
    /\ sync # NoBatch
    /\ sync' = NoBatch
    /\ UNCHANGED <<account, orders, tg8, menu, policy, active, tx, printed, edit>>

\* The backend dies, or the connection is lost, inside a transaction.
Crash(c) == tx[c].pc # "idle" /\ Rollback(c)

-----------------------------------------------------------------------------
Init ==
    /\ account = [u \in Users |-> Ledger!NewAccount]
    /\ orders = [o \in OrderIds |-> None]
    /\ tg8 = [o \in OrderIds |-> None]
    /\ menu \in [Items -> MenuRows]
    /\ policy \in Policies
    /\ active = [u \in Users |-> TRUE]
    /\ tx = [c \in Clients |-> IdleTx]
    /\ printed = FALSE
    /\ edit = NoBatch /\ sync = NoBatch

Open(c) ==
    /\ tx[c].pc = "idle"
    /\ \/ \E route \in Routes \cap ScannedRoutes, u \in Users, x \in Users \cup {None},
             d \in Dates, cart \in Carts, ack \in BOOLEAN, o \in OrderIds :
             OpenConfirm(c, route, u, x, d, cart, ack, o)
       \/ /\ "relative" \in Routes
          /\ \E u \in Users, d \in Dates, cart \in Carts, o \in OrderIds :
                OpenRelative(c, u, d, cart, o)
       \/ \E u \in Users, amount \in Topups : OpenTopup(c, u, amount)
       \/ \E o \in OrderIds, ref \in Refs \cup {None} : OpenAccept(c, o, ref)
       \/ \E o \in OrderIds : OpenReject(c, o)

\* The next statement of a running transaction.
Advance(c) ==
    \/ LockExact(c) \/ LockCatalog(c) \/ LockAccount(c)
    \/ ShareItem(c) \/ ResolveMenu(c) \/ CheckLimits(c)
    \/ FindExisting(c) \/ Settle(c) \/ CommitOrder(c)
    \/ LockTopup(c) \/ CommitTopup(c)
    \/ CommitAccept(c) \/ CommitReject(c)

Configure ==
    \/ \E rows \in Edits : OpenEdit(rows)
    \/ \E row \in MenuRows : WriteItem(row)
    \/ EditFails
    \/ GenerateForm
    \/ \E p \in Policies : UpdateLimits(p)
    \/ \E rows \in Syncs, to \in [Users -> BOOLEAN] : OpenSync(rows, to)
    \/ \E to \in [Users -> BOOLEAN] : WriteUser(to)
    \/ SyncFails

Next ==
    \/ \E c \in Clients : Open(c) \/ Advance(c) \/ Crash(c)
    \/ Configure

Spec == Init /\ [][Next]_vars

-----------------------------------------------------------------------------
(* Types *)

Orders == [user: Users, date: Dates, source: ScannedSources \cup {"relative"},
           status: {"active", "superseded", "rejected"}, total: Nat,
           payment: {"paid", "unpaid"}, by: OrderIds \cup {None},
           ref: Refs \cup {None}, replaced: BOOLEAN]

ASSUME NullAssumption == None \notin Orders

Txs == [pc: Pcs, user: Users \cup {None}, exact: Users \cup {None}, date: Dates \cup {None},
        route: Routes \cup {None}, cart: [Items -> Nat], quote: [Categories -> Nat],
        ack: BOOLEAN, amount: Nat, order: OrderIds \cup {None},
        old: OrderIds \cup {None}, ref: Refs \cup {None}, read: Int,
        reported: BOOLEAN, locks: SUBSET LockKinds]

\* Every table and every request variable has the shape its column or
\* TypeScript type declares.
TypeOK ==
    /\ account \in [Users -> Ledger!Accounts]
    /\ orders \in [OrderIds -> Orders \cup {None}]
    /\ tg8 \in [OrderIds -> Nat \cup {None}]
    /\ menu \in [Items -> MenuRows]
    /\ policy \in Policies
    /\ active \in [Users -> BOOLEAN]
    /\ tx \in [Clients -> Txs]
    /\ printed \in BOOLEAN
    /\ edit \in Batches(Edits) /\ sync \in Batches(Syncs)

-----------------------------------------------------------------------------
(* Money *)

(***************************************************************************)
(* Replaying a prisoner's ledger gives the stored balance, and no running  *)
(* total is negative: the account lock of getOrCreate leaves no room for   *)
(* a lost update between concurrent top-ups and orders, nor for oversell.  *)
(***************************************************************************)
LedgerExplainsBalance ==
    \A u \in Users : Ledger!Explains(account[u].ledger, account[u].balance)

RowsOf(o, type) ==
    LET ledger == account[orders[o].user].ledger
    IN  {i \in 1..Len(ledger) : ledger[i].order = o /\ ledger[i].type = type}

(***************************************************************************)
(* The comment above createOrReplace: a replay nets to zero even if prices *)
(* changed.  An active scanned order is paid by exactly one debit of its   *)
(* stored total; a superseded one has that debit and exactly one reversal  *)
(* of the same amount; free orders and relative orders leave no row.       *)
(***************************************************************************)
OrdersAndLedgerAgree ==
    \A o \in OrderIds : Exists(o) =>
        LET row     == orders[o]
            ledger  == account[row.user].ledger
            debits  == RowsOf(o, "order_debit")
            givings == RowsOf(o, "reversal")
            paid    == row.source \in ScannedSources /\ row.total > 0
        IN  /\ Cardinality(debits) = IF paid THEN 1 ELSE 0
            /\ Cardinality(givings) = IF paid /\ row.status = "superseded" THEN 1 ELSE 0
            /\ \A i \in debits : ledger[i].amount = -row.total
            /\ \A i \in givings : ledger[i].amount = row.total

\* Every step on the accounts is a step of the abstract account: rows are
\* only appended, and a replacement's reversal and debit appear together.
AccountLedgerSpec == Ledger!Spec

-----------------------------------------------------------------------------
(* Why the money is right: what a running request knows *)

CreatingPcs == {"open", "catalog", "account", "priced", "limited", "found", "settled"}

Creating(c) == tx[c].pc \in CreatingPcs

\* At most one transaction holds a prisoner's account row.
AccountMutex ==
    \A c, d \in Clients, u \in Users : HoldsAccount(c, u) /\ HoldsAccount(d, u) => c = d

\* A new order's id stays unused, and drawn by one request, until it commits.
DrawnIdsAreNew ==
    /\ \A c \in Clients : Creating(c) =>
          /\ tx[c].user \in Users /\ tx[c].date \in Dates /\ tx[c].route \in Routes
          /\ tx[c].order \in OrderIds /\ ~Exists(tx[c].order)
    /\ \A c, d \in Clients :
          Creating(c) /\ Creating(d) /\ tx[c].order = tx[d].order => c = d

\* The order to replace was found, and exists; a scanned request has the
\* account from its menu lookup on.
CreatingInOrder ==
    \A c \in Clients :
        /\ tx[c].old # None => Creating(c) /\ Exists(tx[c].old)
        /\ tx[c].pc = "catalog" => tx[c].route = "scanner"
        /\ tx[c].pc = "account" => Scanned(tx[c].route)
        /\ tx[c].pc = "settled" => Scanned(tx[c].route)
        /\ (tx[c].pc \in {"account", "priced", "limited", "found", "settled"}
                /\ Scanned(tx[c].route)) => "account" \in tx[c].locks
        /\ tx[c].pc \in {"accepting", "rejecting"} =>
                tx[c].order \in OrderIds /\ Exists(tx[c].order)

\* The balance a request has read is still the balance when it writes.
ReadIsFresh ==
    \A c \in Clients :
        /\ tx[c].pc = "settled" =>
              /\ tx[c].read = account[tx[c].user].balance
              /\ ValidAmount(Refund(c)) /\ ValidAmount(QuoteTotal(tx[c].quote))
              /\ QuoteTotal(tx[c].quote) > 0 =>
                    QuoteTotal(tx[c].quote) <= tx[c].read + Refund(c)
        /\ tx[c].pc = "topup" => tx[c].user \in Users /\ tx[c].amount \in 1..MaxVnd
        /\ tx[c].pc = "credited" =>
              /\ tx[c].user \in Users /\ tx[c].amount \in 1..MaxVnd
              /\ "account" \in tx[c].locks
              /\ tx[c].read = account[tx[c].user].balance

(***************************************************************************)
(* The inductive core of the money argument: one holder per account row,   *)
(* ids drawn once, and a balance that stays as read until it is written.   *)
(***************************************************************************)
LockDiscipline ==
    AccountMutex /\ DrawnIdsAreNew /\ CreatingInOrder /\ ReadIsFresh

-----------------------------------------------------------------------------
(* Orders *)

(***************************************************************************)
(* At most one active order per prisoner, date and channel, where omr and  *)
(* scanner are one channel and relative the other.                         *)
(***************************************************************************)
OneActivePerChannel ==
    \A u \in Users, d \in Dates :
        /\ Cardinality(Actives(u, d, ScannedSources)) <= 1
        /\ Cardinality(Actives(u, d, {"relative"})) <= 1

(***************************************************************************)
(* The audit trail of re-scans: every superseded order names its           *)
(* successor, a scanned order of the same prisoner and date; no two name   *)
(* the same one; and a prisoner and date with any scanned order has        *)
(* exactly one still active, so the trail cannot be a loop.                *)
(***************************************************************************)
SupersedeTrail ==
    /\ \A o \in OrderIds : Exists(o) =>
          /\ (orders[o].status = "superseded") <=> (orders[o].by # None)
          /\ orders[o].status = "superseded" =>
                LET next == orders[o].by
                IN  /\ Exists(next)
                    /\ orders[next].user = orders[o].user
                    /\ orders[next].date = orders[o].date
                    /\ orders[next].source \in ScannedSources
                    /\ Cardinality(Actives(orders[o].user, orders[o].date, ScannedSources)) = 1
                    /\ \A p \in OrderIds \ {o} : Exists(p) => orders[p].by # next

(***************************************************************************)
(* A cashier's decision is final and whole: an order has a TG8 snapshot    *)
(* exactly when it is a paid relative order, the snapshot carries its      *)
(* total, a rejected order was never paid, and a bank reference settles at *)
(* most one order (ORDER.REFERENCE_DUPLICATE, and the index of             *)
(* order.entity.ts), whoever decides at the same time.                     *)
(***************************************************************************)
SettlementIsWhole ==
    \A o \in OrderIds :
        /\ tg8[o] # None <=>
              Exists(o) /\ orders[o].source = "relative" /\ orders[o].payment = "paid"
        /\ tg8[o] # None => tg8[o] = orders[o].total
        /\ Exists(o) /\ orders[o].status = "rejected" => orders[o].payment = "unpaid"
        /\ \A p \in OrderIds \ {o} :
              Exists(o) /\ Exists(p) /\ orders[o].ref # None => orders[p].ref # orders[o].ref

-----------------------------------------------------------------------------
(* Why the orders are right: what a running request t knows of them *)

\* Its prices and limits cannot change under it, nor the prisoner's activity;
\* the order it replaces is the one active scanned order of that date; the
\* order it settles is still pending.
Informed(t) ==
    /\ t.pc \in {"priced", "limited", "found", "settled"} =>
          "menu" \in t.locks /\ t.quote = Quote(t.cart) /\ Orderable(t.route, t.cart)
    /\ t.pc \in {"limited", "found", "settled"} =>
          "policy" \in t.locks /\ WithinLimits(t.route, t.quote)
    /\ t.pc \in CreatingPcs /\ Scanned(t.route) => "user" \in t.locks /\ active[t.user]
    /\ t.pc \in {"found", "settled"} /\ Scanned(t.route) =>
          Actives(t.user, t.date, ScannedSources) = IF t.old = None THEN {} ELSE {t.old}
    /\ t.old # None => t.pc \in {"found", "settled"} /\ Scanned(t.route)
    /\ t.pc \in {"accepting", "rejecting"} => Pending(t.order) /\ "order" \in t.locks

\* An order is settled by one request at a time.
DecidedByOne ==
    \A c, d \in Clients :
        /\ {tx[c].pc, tx[d].pc} \subseteq {"accepting", "rejecting"}
        /\ tx[c].order = tx[d].order
        => c = d

\* A prisoner and date have one active scanned order at most; this needs the
\* account lock only, no index.
OneScanned ==
    \A u \in Users, d \in Dates :
        \A o, p \in Actives(u, d, ScannedSources) : o = p

\* A ledger row that names an order names one that exists.
RowsNameOrders ==
    \A u \in Users : \A i \in 1..Len(account[u].ledger) :
        account[u].ledger[i].order # None =>
            account[u].ledger[i].order \in OrderIds /\ Exists(account[u].ledger[i].order)

\* The snapshot of an order is there when it is paid, and has its total.
SnapshotsWhole ==
    \A o \in OrderIds :
        /\ tg8[o] # None <=>
              Exists(o) /\ orders[o].source = "relative" /\ orders[o].payment = "paid"
        /\ tg8[o] # None => tg8[o] = orders[o].total
        /\ Exists(o) /\ orders[o].status = "rejected" => orders[o].payment = "unpaid"

(***************************************************************************)
(* Inductive: with the types and the lock discipline, what the properties  *)
(* of orders rest on.                                                      *)
(***************************************************************************)
OrdersInv ==
    /\ \A c \in Clients : Informed(tx[c])
    /\ DecidedByOne /\ OneScanned /\ RowsNameOrders
    /\ SupersedeTrail /\ SnapshotsWhole /\ OrdersAndLedgerAgree

-----------------------------------------------------------------------------
(* What a step may never do *)

Inserted(o) == ~Exists(o) /\ Exists(o)'

(***************************************************************************)
(* The catalogue and the limits cannot split across an admin edit: an      *)
(* order becomes visible at the prices, with the activity, and within the  *)
(* limits in force at the moment it commits.                               *)
(***************************************************************************)
PricedAtCommit ==
    [][\A o \in OrderIds : Inserted(o) =>
          \E c \in Clients :
              /\ tx[c].order = o
              /\ Orderable(tx[c].route, tx[c].cart)
              /\ WithinLimits(tx[c].route, Quote(tx[c].cart))
              /\ orders'[o].total = QuoteTotal(Quote(tx[c].cart))]_vars

\* A balance is debited only for a prisoner who is active at that moment:
\* the share lock on the prisoner's row outlives the check.
DebitsOnlyActive ==
    [][\A o \in OrderIds :
          (Inserted(o) /\ orders'[o].source \in ScannedSources)
              => active[orders'[o].user]]_vars

-----------------------------------------------------------------------------
(* Who waits for whom *)

Actors == Clients \cup {"editor", "sync"}

\* The next statement of b waits for the end of a.
Blocks(a, b) ==
    \/ /\ b \in Clients /\ a \in Clients \ {b}
       /\ \/ AtCatalog(b) /\ "catalog" \in tx[a].locks
          \/ /\ AtAccount(b) \/ tx[b].pc = "topup"
             /\ HoldsAccount(a, tx[b].user)
    \/ /\ b \in Clients /\ a = "editor"
       /\ \/ AtCatalog(b) /\ edit # NoBatch
          \/ \E i \in Items : Shares(b, i) /\ i \in Written(edit)
    \/ b \in Clients /\ a = "sync" /\ AtExact(b) /\ tx[b].exact \in Written(sync)
    \/ b = "editor" /\ edit # NoBatch /\ a \in Clients /\ HoldsItem(a, NextRow(edit))
    \/ b = "sync" /\ sync # NoBatch /\ a \in Clients /\ HoldsUser(a, NextRow(sync))

Circle(S) == S # {} /\ \A b \in S : \E a \in S : Blocks(a, b)

(***************************************************************************)
(* Requests never wait for each other in a circle, whatever order the      *)
(* confirmations, top-ups and visitors' orders come in, nor do they with   *)
(* an edit of one menu row: the canonical order (users, catalogue,         *)
(* account, menu rows) holds on every path.  A circle, which PostgreSQL    *)
(* then breaks by aborting one of its members, takes a reordering or hard  *)
(* removal that has written a row, which ends with the first form printed, *)
(* and a visitor's order between two rows; or a statement of the sync and  *)
(* a confirmation of a receipt that bears another prisoner's number.       *)
(***************************************************************************)
CirclesNeedBatches ==
    \A S \in SUBSET Actors : Circle(S) =>
        \/ /\ "editor" \in S /\ Len(edit.rows) > 1 /\ edit.done > 0 /\ ~printed
           /\ \E c \in S \cap Clients : tx[c].route = "relative" /\ Unshared(c) # {}
        \/ /\ "sync" \in S /\ Len(sync.rows) > 1
           /\ \E c \in S \cap Clients : tx[c].route = "scanner" /\ tx[c].exact # None
=============================================================================
