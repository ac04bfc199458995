----------------------------- MODULE FrontDesk -----------------------------
(***************************************************************************)
(* The two pages relatives and cashiers order through, and the server      *)
(* calls behind them: the public kiosk (features/canteen, backend kiosk)   *)
(* and the staffed counter with its lookup, its two forms and its polled   *)
(* queue of pending orders (features/counter, backend counter).            *)
(*                                                                         *)
(* Every call is sent, served and answered in steps of its own, may be     *)
(* lost on either way, and may come back after the page has moved on.  A   *)
(* handler goes on with what it captured when it was called; the state of  *)
(* a component that was taken off the page is gone, that of the page       *)
(* itself is written whenever the answer comes.  A cart is one cart and a  *)
(* catalogue its price, its limit and whether bank transfers are offered;  *)
(* what the order funnel does in its transactions is OrdersLedger.         *)
(***************************************************************************)
EXTENDS Naturals, FiniteSets

CONSTANTS
    Prisoners,
    Catalogues,  \* records: price and limit of the cart, bank transfers offered or not
    Opening,     \* the catalogue at the start
    None,
    MaxOrders, MaxCalls, \* bounds: orders, and calls under way at a time
    MaxAsked,    \* bound: lookups and submissions
    MaxTyped,    \* bound: texts and drafts typed at the counter
    MaxEvents    \* bound: calls and polls that fail on their way, days that pass, what administrators change

OrderIds == 1..MaxOrders

\* What is stored of an order; past are those whose collection day is no longer ordered for.
OrderRows == [who : Prisoners, amount : Nat, status : {"pending", "paid", "rejected"}, past : BOOLEAN]

ASSUME DeskAssumption ==
    /\ Catalogues \subseteq [price : Nat \ {0}, limit : Nat, bank : BOOLEAN]
    /\ Opening \in Catalogues
    /\ {MaxOrders, MaxCalls, MaxAsked, MaxTyped, MaxEvents} \subseteq Nat
    /\ None \notin OrderIds \cup OrderRows

Slots == 1..MaxCalls

VARIABLES
    active,     \* prisoners who are not released
    catalogue,
    orders,     \* relative orders: what was stored, and whether pending, paid or rejected
    credited,   \* top-ups booked for a prisoner
    kiosk,      \* the state of CanteenPage and of the MenuCalculator on it
    page,       \* a cashier's CounterPage with its two forms
    queue,      \* the PendingOrdersQueue on it, with its poll
    calls,      \* calls on their way
    told,       \* history: of every order, the success reported to a cashier for it
    used        \* how much of the bounds is spent

server == <<active, catalogue, orders, credited>>
vars == <<server, kiosk, page, queue, calls, told, used>>

Tenders == {"cash", "bank"}

Spend(what, most) == used[what] < most /\ used' = [used EXCEPT ![what] = @ + 1]

Call(kind, who) ==
    [kind |-> kind, who |-> who, text |-> None, method |-> None,
     known |-> FALSE, order |-> None, live |-> TRUE, answer |-> None]

FreeSlot(k) == calls[k] = None /\ \A j \in 1..(k - 1) : calls[j] # None

Send(k, call) == FreeSlot(k) /\ calls' = [calls EXCEPT ![k] = call]

Reply(why) == [why |-> why, on |-> FALSE, seen |-> None, transfer |-> None]

Answered(k) == calls[k] # None /\ calls[k].answer # None

Unserved(k, kinds) == calls[k] # None /\ calls[k].answer = None /\ calls[k].kind \in kinds

\* What a handler finds in its catch when the answer is not a success.
Succeeds(k) == calls[k].answer.why = "ok"

-----------------------------------------------------------------------------
(* The server *)

PendingOf(p) == {o \in OrderIds : orders[o] # None /\ orders[o].who = p /\ orders[o].status = "pending"}

\* KioskService.prisonerView: the unknown and the released are the same to a visitor.
ServeView(k) ==
    /\ Unserved(k, {"view", "refresh"})
    /\ calls' = [calls EXCEPT ![k].answer =
           IF calls[k].who \in active THEN [Reply("ok") EXCEPT !.on = TRUE, !.seen = catalogue]
           ELSE Reply("missing")]
    /\ UNCHANGED <<server, kiosk, page, queue, told, used>>

\* CounterService.lookup: the released are found too, and marked.
ServeLookup(k) ==
    /\ Unserved(k, {"lookup"})
    /\ calls' = [calls EXCEPT ![k].answer =
           [Reply("ok") EXCEPT !.on = calls[k].who \in active, !.seen = catalogue]]
    /\ UNCHANGED <<server, kiosk, page, queue, told, used>>

\* findByLegacyId and assertActive, before the transaction of an order or a top-up.
Resolve(k) ==
    /\ Unserved(k, {"place", "order", "topup"}) /\ ~calls[k].known
    /\ calls' = IF calls[k].who \in active THEN [calls EXCEPT ![k].known = TRUE]
                ELSE [calls EXCEPT ![k].answer = Reply(IF calls[k].kind = "place" THEN "missing" ELSE "inactive")]
    /\ UNCHANGED <<server, kiosk, page, queue, told, used>>

\* The relative orders of the day being ordered for that are ACTIVE, paid or not.
ActiveOf(p) ==
    {o \in OrderIds : orders[o] # None /\ orders[o].who = p /\ orders[o].status # "rejected" /\ ~orders[o].past}

\* What createOrReplace refuses a relative order for, in the order it looks.
Refusal(p) ==
    IF catalogue.price > catalogue.limit THEN "limit"
    ELSE IF ActiveOf(p) # {} THEN "pending" ELSE "ok"

\* placeOrder and relativeOrder: a bank order from the kiosk gets its transfer afterwards.
ServeOrder(k) ==
    /\ Unserved(k, {"place", "order"}) /\ calls[k].known /\ calls[k].order = None
    /\ LET c == calls[k]
           why == Refusal(c.who)
       IN IF why # "ok"
          THEN calls' = [calls EXCEPT ![k].answer = Reply(why)] /\ UNCHANGED orders
          ELSE \E o \in OrderIds :
                 /\ orders[o] = None /\ \A q \in 1..(o - 1) : orders[q] # None
                 /\ orders' = [orders EXCEPT ![o] = [who |-> c.who, amount |-> catalogue.price,
                                                     status |-> "pending", past |-> FALSE]]
                 /\ calls' = [calls EXCEPT ![k].order = o,
                                           ![k].answer = IF c.kind = "place" /\ c.method = "bank"
                                                         THEN None ELSE Reply("ok")]
    /\ UNCHANGED <<active, catalogue, credited, kiosk, page, queue, told, used>>

TransferAtListPrice(o) == [amount |-> catalogue.price, memo |-> o]

\* The VietQR transfer: the amount of the stored order, and its code as memo.
Transfer(o) == [amount |-> orders[o].amount, memo |-> o]

AttachTransfer(k) ==
    /\ Unserved(k, {"place"}) /\ calls[k].order # None
    /\ calls' = [calls EXCEPT ![k].answer =
           [Reply("ok") EXCEPT !.transfer = IF catalogue.bank THEN Transfer(calls[k].order) ELSE None]]
    /\ UNCHANGED <<server, kiosk, page, queue, told, used>>

ServeTopup(k) ==
    /\ Unserved(k, {"topup"}) /\ calls[k].known
    /\ credited' = [credited EXCEPT ![calls[k].who] = @ + 1]
    /\ calls' = [calls EXCEPT ![k].answer = Reply("ok")]
    /\ UNCHANGED <<active, catalogue, orders, kiosk, page, queue, told, used>>

DecidableTwice(o) == orders[o].status # "rejected"

\* assertPending: only a pending order is decided.
Decidable(o) == orders[o].status = "pending"

\* acceptRelativeOrder, rejectRelativeOrder
Decided(o, what) ==
    IF Decidable(o) THEN [orders EXCEPT ![o].status = IF what = "accept" THEN "paid" ELSE "rejected"]
    ELSE orders

ServeDecision(k) ==
    /\ Unserved(k, {"accept", "reject"})
    /\ orders' = Decided(calls[k].order, calls[k].kind)
    /\ calls' = [calls EXCEPT ![k].answer = Reply(IF Decidable(calls[k].order) THEN "ok" ELSE "handled")]
    /\ UNCHANGED <<active, catalogue, credited, kiosk, page, queue, told, used>>

\* AMOUNT_MISMATCH, REFERENCE_DUPLICATE: what the cashier typed does not fit; the order stays pending.
RefuseAcceptance(k) ==
    /\ Unserved(k, {"accept"}) /\ Decidable(calls[k].order)
    /\ calls' = [calls EXCEPT ![k].answer = Reply("mistyped")]
    /\ UNCHANGED <<server, kiosk, page, queue, told, used>>

\* A success shown to a cashier.
Told(o, what) == [told EXCEPT ![o] = IF @ = None THEN what ELSE "twice"]

\* Another cashier, at another counter, decides an order.
DecidedElsewhere(o, what) ==
    /\ orders[o] # None /\ Decidable(o)
    /\ orders' = Decided(o, what)
    /\ told' = Told(o, what)
    /\ UNCHANGED <<active, catalogue, credited, kiosk, page, queue, calls, used>>

\* A row of listPendingOrders.
Row(o) == [order |-> o, who |-> orders[o].who, amount |-> orders[o].amount]

PendingRows == {Row(o) : o \in UNION {PendingOf(p) : p \in Prisoners}}

\* A call fails on its way there, or its answer on its way back.
CallFails(k) ==
    /\ calls[k] # None
    /\ calls[k].kind = "place" /\ calls[k].order # None => calls[k].answer # None
    /\ Answered(k) => calls[k].answer.why # "failed"
    /\ calls' = [calls EXCEPT ![k].answer = Reply("failed")]
    /\ Spend("events", MaxEvents)
    /\ UNCHANGED <<server, kiosk, page, queue, told>>

\* PaymentConfigService.updateGlobal takes complete accounts only: once set, one stays set.
StaysConfigured(new) == catalogue.bank => new.bank

\* An administrator changes the menu, a limit or the account.
ChangeCatalogue ==
    /\ \E new \in Catalogues \ {catalogue} : StaysConfigured(new) /\ catalogue' = new
    /\ Spend("events", MaxEvents)
    /\ UNCHANGED <<active, orders, credited, kiosk, page, queue, calls, told>>

\* Midnight: what was ordered so far is of a day that is no longer ordered for.
NextDay ==
    /\ \E o \in OrderIds : orders[o] # None /\ ~orders[o].past
    /\ orders' = [o \in OrderIds |-> IF orders[o] = None THEN None ELSE [orders[o] EXCEPT !.past = TRUE]]
    /\ Spend("events", MaxEvents)
    /\ UNCHANGED <<active, catalogue, credited, kiosk, page, queue, calls, told>>

Release(p) ==
    /\ p \in active /\ active' = active \ {p}
    /\ Spend("events", MaxEvents)
    /\ UNCHANGED <<catalogue, orders, credited, kiosk, page, queue, calls, told>>

-----------------------------------------------------------------------------
(* The kiosk *)

\* The state a MenuCalculator starts with.
NoDraft == [method |-> None, submitting |-> FALSE, rejected |-> FALSE]

Entry == [screen |-> "entry", loading |-> FALSE, who |-> None, view |-> None,
          code |-> None, transfer |-> None, draft |-> NoDraft]

OnMenu == kiosk.screen = "menu" /\ kiosk.view # None

\* The calls of a calculator that leaves the page no longer write its state.
Unmounted(cs, kinds) ==
    [k \in Slots |-> IF cs[k] # None /\ cs[k].kind \in kinds
                     THEN [cs[k] EXCEPT !.live = FALSE] ELSE cs[k]]

\* resetToEntry
ToEntry ==
    /\ kiosk' = Entry
    /\ calls' = Unmounted(calls, {"place"})
    /\ UNCHANGED <<server, page, queue, told, used>>

\* Start over, back, new order, done: every screen but the first has its button.
StartOver == kiosk.screen # "entry" /\ ToEntry

\* useIdleReset, after a while without a touch: on the first screen too, with a lookup under way.
IdleReset == kiosk # Entry /\ ToEntry

\* The keypad's submit, and handleSubmit.
EnterId(k, p) ==
    /\ kiosk.screen = "entry" /\ ~kiosk.loading
    /\ Send(k, Call("view", p))
    /\ kiosk' = [kiosk EXCEPT !.loading = TRUE]
    /\ Spend("asked", MaxAsked)
    /\ UNCHANGED <<server, page, queue, told>>

ReceiveView(k) ==
    /\ Answered(k) /\ calls[k].kind = "view"
    /\ LET why == calls[k].answer.why
           here == [kiosk EXCEPT !.loading = FALSE]
       IN kiosk' = CASE why = "ok" ->
                          [here EXCEPT !.view = [of |-> calls[k].who, seen |-> calls[k].answer.seen],
                                       !.who = calls[k].who, !.screen = "menu",
                                       !.draft = IF OnMenu THEN @ ELSE NoDraft]
                     [] why = "missing" -> [here EXCEPT !.screen = "not-found", !.draft = NoDraft]
                     [] why = "failed" -> here
    /\ calls' = LET kept == [calls EXCEPT ![k] = None]
                IN IF kiosk'.screen = "menu" THEN kept ELSE Unmounted(kept, {"place"})
    /\ UNCHANGED <<server, page, queue, told, used>>

ChooseItems(m) ==
    /\ OnMenu /\ kiosk.draft.method # m
    /\ m = "bank" => kiosk.view.seen.bank
    /\ kiosk' = [kiosk EXCEPT !.draft.method = m]
    /\ UNCHANGED <<server, page, queue, calls, told, used>>

\* calculatePurchaseLimits, hasExceededPurchaseLimit
Exceeds(price, limit) == price > limit

\* handlePlace
Place(k) ==
    /\ OnMenu /\ kiosk.draft.method # None /\ ~kiosk.draft.submitting
    /\ ~Exceeds(kiosk.view.seen.price, kiosk.view.seen.limit)
    /\ Send(k, [Call("place", kiosk.who) EXCEPT !.method = kiosk.draft.method])
    /\ kiosk' = [kiosk EXCEPT !.draft.submitting = TRUE, !.draft.rejected = FALSE]
    /\ Spend("asked", MaxAsked)
    /\ UNCHANGED <<server, page, queue, told>>

\* onPlaced writes the page, whoever stands before it by now.
OnPlaced(c) ==
    [kiosk EXCEPT !.code = c.order, !.draft = NoDraft,
                  !.transfer = IF c.answer.transfer # None THEN c.answer.transfer ELSE @,
                  !.screen = IF c.answer.transfer # None THEN "bank-qr" ELSE "confirm"]

\* The catch of handlePlace.
PlaceRefused(c) ==
    IF c.live THEN [kiosk EXCEPT !.draft.submitting = FALSE, !.draft.rejected = c.answer.why = "limit"]
    ELSE kiosk

ReceivePlaced(k) ==
    /\ Answered(k) /\ calls[k].kind = "place"
    /\ kiosk' = IF Succeeds(k) THEN OnPlaced(calls[k]) ELSE PlaceRefused(calls[k])
    /\ calls' = LET kept == [calls EXCEPT ![k] = None]
                IN IF Succeeds(k) THEN Unmounted(kept, {"place"}) ELSE kept
    /\ UNCHANGED <<server, page, queue, told, used>>

\* refreshView: offered after a refusal for the limit; failures are swallowed.
RefreshView(k) ==
    /\ OnMenu /\ kiosk.draft.rejected
    /\ Send(k, Call("refresh", kiosk.who))
    /\ Spend("asked", MaxAsked)
    /\ UNCHANGED <<server, kiosk, page, queue, told>>

ReceiveRefresh(k) ==
    /\ Answered(k) /\ calls[k].kind = "refresh"
    /\ kiosk' = IF ~Succeeds(k) THEN kiosk
                ELSE [kiosk EXCEPT !.view = [of |-> calls[k].who, seen |-> calls[k].answer.seen]]
    /\ calls' = [calls EXCEPT ![k] = None]
    /\ UNCHANGED <<server, page, queue, told, used>>

-----------------------------------------------------------------------------
(* The counter page *)

\* A form with nothing in it; a draft remembers whom the cashier had on screen for it.
NoForm == [draft |-> None, busy |-> FALSE]

EmptyPage == [text |-> None, loading |-> FALSE, shown |-> None, topup |-> NoForm,
              order |-> NoForm, price |-> None, rejected |-> FALSE]

TypeId(t) ==
    /\ ~page.loading /\ page.text # t
    /\ page' = [page EXCEPT !.text = t]
    /\ Spend("typed", MaxTyped)
    /\ UNCHANGED <<server, kiosk, queue, calls, told>>

\* doLookup from the search row takes the panels off the page.
Search(k) ==
    /\ ~page.loading /\ page.text # None
    /\ FreeSlot(k)
    /\ calls' = [Unmounted(calls, {"topup", "order"}) EXCEPT ![k] = Call("lookup", page.text)]
    /\ page' = [EmptyPage EXCEPT !.text = page.text, !.loading = TRUE]
    /\ Spend("asked", MaxAsked)
    /\ UNCHANGED <<server, kiosk, queue, told>>

\* doLookup's answer; panels that are on the page stay there, with their drafts.
ReceiveLookup(k) ==
    /\ Answered(k) /\ calls[k].kind = "lookup"
    /\ LET call == calls[k]
           here == [page EXCEPT !.loading = FALSE]
       IN page' = IF ~Succeeds(k) THEN here
                  ELSE [here EXCEPT !.shown = [of |-> call.who, on |-> call.answer.on,
                                               limit |-> call.answer.seen.limit],
                                    !.price = IF page.shown = None THEN catalogue.price ELSE @]
    /\ calls' = [calls EXCEPT ![k] = None]
    /\ UNCHANGED <<server, kiosk, queue, told, used>>

PanelsEnabled == page.shown # None /\ page.shown.on

Fillable(form) == PanelsEnabled /\ ~page[form].busy /\ page[form].draft = None

FillTopup ==
    /\ Fillable("topup")
    /\ page' = [page EXCEPT !.topup.draft = page.shown.of]
    /\ Spend("typed", MaxTyped)
    /\ UNCHANGED <<server, kiosk, queue, calls, told>>

FillOrder ==
    /\ Fillable("order")
    /\ page' = [page EXCEPT !.order.draft = page.shown.of, !.rejected = FALSE]
    /\ Spend("typed", MaxTyped)
    /\ UNCHANGED <<server, kiosk, queue, calls, told>>

\* A submission for the prisoner on screen; onSuccess captures the search text.
Submit(form, k) ==
    /\ PanelsEnabled /\ ~page[form].busy /\ page[form].draft # None
    /\ Send(k, [Call(form, page.shown.of) EXCEPT !.text = page.text])
    /\ page' = [page EXCEPT ![form].busy = TRUE]
    /\ Spend("asked", MaxAsked)
    /\ UNCHANGED <<server, kiosk, queue, told>>

SubmitTopup(k) == Submit("topup", k)

SubmitOrder(k) == page.shown # None /\ ~Exceeds(page.price, page.shown.limit) /\ Submit("order", k)

\* refreshLookup: doLookup of the captured text, leaving the panels on the page.
RefreshLookup(call) == IF call.text = None THEN None ELSE Call("lookup", call.text)

\* The end of a submission: the form as it is then, if it is still there, and onSuccess.
Settle(k, after) ==
    LET next == IF Succeeds(k) THEN RefreshLookup(calls[k]) ELSE None
        here == IF calls[k].live THEN after ELSE page
    IN /\ page' = [here EXCEPT !.loading = @ \/ next # None]
       /\ calls' = [calls EXCEPT ![k] = next]
       /\ UNCHANGED <<server, kiosk, queue, told, used>>

ReceiveTopup(k) ==
    /\ Answered(k) /\ calls[k].kind = "topup"
    /\ Settle(k, IF Succeeds(k) THEN [page EXCEPT !.topup = NoForm] ELSE [page EXCEPT !.topup.busy = FALSE])

ReceiveOrder(k) ==
    /\ Answered(k) /\ calls[k].kind = "order"
    /\ Settle(k, IF Succeeds(k) THEN [page EXCEPT !.order = NoForm]
                 ELSE [page EXCEPT !.order.busy = FALSE, !.rejected = calls[k].answer.why = "limit"])

\* The refresh button of a refused order: the menu and the limits.
RefreshPolicies(k) ==
    /\ page.shown # None /\ page.rejected /\ page.text # None
    /\ Send(k, Call("lookup", page.text))
    /\ page' = [page EXCEPT !.price = catalogue.price, !.loading = TRUE]
    /\ Spend("asked", MaxAsked)
    /\ UNCHANGED <<server, kiosk, queue, told>>

-----------------------------------------------------------------------------
(* The queue of pending orders *)

\* rows is what the page lists, fetched what the poll under way has read.
EmptyQueue == [rows |-> {}, error |-> FALSE, inFlight |-> FALSE, fetched |-> None, acting |-> None]

\* refresh of usePendingOrders: skipped while one is under way.
Refreshed(q) == IF q.inFlight THEN q ELSE [q EXCEPT !.inFlight = TRUE, !.fetched = PendingRows]

Tick ==
    /\ ~queue.inFlight
    /\ queue' = Refreshed(queue)
    /\ UNCHANGED <<server, kiosk, page, calls, told, used>>

ReceivePoll ==
    /\ queue.fetched # None
    /\ queue' = [queue EXCEPT !.inFlight = FALSE, !.rows = queue.fetched, !.fetched = None, !.error = FALSE]
    /\ UNCHANGED <<server, kiosk, page, calls, told, used>>

PollFailedInFlight(q) == [q EXCEPT !.fetched = None, !.error = TRUE]

\* The catch and finally of refresh: the banner stands in the place of the rows.
PollFailed(q) == [q EXCEPT !.inFlight = FALSE, !.fetched = None, !.error = TRUE]

PollFails ==
    /\ queue.fetched # None
    /\ queue' = PollFailed(queue)
    /\ Spend("events", MaxEvents)
    /\ UNCHANGED <<server, kiosk, page, calls, told>>

\* The rows on screen.
Listed(o) == ~queue.error /\ \E r \in queue.rows : r.order = o

\* handleAccept, handleReject: one actingId for all rows.
Decide(o, what, k) ==
    /\ Listed(o) /\ queue.acting # o
    /\ Send(k, [Call(what, None) EXCEPT !.order = o])
    /\ queue' = [queue EXCEPT !.acting = o]
    /\ UNCHANGED <<server, kiosk, page, told, used>>

ReceiveDecision(k) ==
    /\ Answered(k) /\ calls[k].kind \in {"accept", "reject"}
    /\ told' = IF Succeeds(k) THEN Told(calls[k].order, calls[k].kind) ELSE told
    /\ queue' = Refreshed([queue EXCEPT !.acting = None])
    /\ calls' = [calls EXCEPT ![k] = None]
    /\ UNCHANGED <<server, kiosk, page, used>>

-----------------------------------------------------------------------------
Init ==
    /\ active = Prisoners
    /\ catalogue = Opening
    /\ orders = [o \in OrderIds |-> None]
    /\ credited = [p \in Prisoners |-> 0]
    /\ kiosk = Entry
    /\ page = EmptyPage
    /\ queue = EmptyQueue
    /\ calls = [k \in Slots |-> None]
    /\ told = [o \in OrderIds |-> None]
    /\ used = [asked |-> 0, typed |-> 0, events |-> 0]

Serve(k) ==
    \/ ServeView(k) \/ ServeLookup(k) \/ Resolve(k) \/ ServeOrder(k) \/ AttachTransfer(k)
    \/ ServeTopup(k) \/ ServeDecision(k) \/ RefuseAcceptance(k)

Receive(k) ==
    \/ ReceiveView(k) \/ ReceivePlaced(k) \/ ReceiveRefresh(k)
    \/ ReceiveLookup(k) \/ ReceiveTopup(k) \/ ReceiveOrder(k) \/ ReceiveDecision(k)

Next ==
    \/ ChangeCatalogue \/ NextDay \/ StartOver \/ IdleReset \/ Tick \/ ReceivePoll \/ PollFails
    \/ \E p \in Prisoners : Release(p)
    \/ \E m \in Tenders : ChooseItems(m)
    \/ \E o \in OrderIds : DecidedElsewhere(o, "accept") \/ DecidedElsewhere(o, "reject")
    \/ \E t \in Prisoners \cup {None} : TypeId(t)
    \/ FillTopup \/ FillOrder
    \/ \E k \in Slots :
         \/ Serve(k) \/ Receive(k) \/ CallFails(k)
         \/ Place(k) \/ RefreshView(k) \/ Search(k) \/ RefreshPolicies(k)
         \/ \E p \in Prisoners : EnterId(k, p)
         \/ SubmitTopup(k) \/ SubmitOrder(k)
         \/ \E o \in OrderIds : Decide(o, "accept", k) \/ Decide(o, "reject", k)

Spec == Init /\ [][Next]_vars

(* The timer of the queue keeps firing, and what it asks for is read or fails.  Nothing is assumed of
   cashiers and visitors, or of the answers they wait for. *)
Fairness == WF_vars(Tick \/ ReceivePoll)

FairSpec == Spec /\ Fairness

-----------------------------------------------------------------------------
(* Inductive invariant *)

RowsRead == [order : OrderIds, who : Prisoners, amount : Nat]

Transfers == [amount : Nat, memo : OrderIds]

Replies ==
    [why : {"ok", "missing", "limit", "pending", "inactive", "handled", "mistyped", "failed"}, on : BOOLEAN,
     seen : Catalogues \cup {None}, transfer : Transfers \cup {None}]

Asking == {"view", "refresh", "lookup"}

Deciding == {"accept", "reject"}

Anyone == Prisoners \cup {None}

CallRecords ==
    [kind : Asking \cup {"place", "order", "topup"} \cup Deciding, who : Anyone, text : Anyone,
     method : Tenders \cup {None}, known : BOOLEAN, order : OrderIds \cup {None}, live : BOOLEAN, answer : Replies \cup {None}]

Drafts == [method : Tenders \cup {None}, submitting : BOOLEAN, rejected : BOOLEAN]

Kiosks ==
    [screen : {"entry", "menu", "not-found", "bank-qr", "confirm"}, loading : BOOLEAN, who : Anyone,
     view : [of : Anyone, seen : Catalogues] \cup {None}, code : OrderIds \cup {None},
     transfer : Transfers \cup {None}, draft : Drafts]

Forms == [draft : Anyone, busy : BOOLEAN]

Pages ==
    [text : Anyone, loading : BOOLEAN, shown : [of : Anyone, on : BOOLEAN, limit : Nat] \cup {None},
     topup : Forms, order : Forms, price : Nat \cup {None}, rejected : BOOLEAN]

Queues ==
    [rows : SUBSET RowsRead, error : BOOLEAN, inFlight : BOOLEAN, fetched : (SUBSET RowsRead) \cup {None},
     acting : OrderIds \cup {None}]

TypeOK ==
    /\ active \subseteq Prisoners /\ catalogue \in Catalogues
    /\ orders \in [OrderIds -> OrderRows \cup {None}]
    /\ credited \in [Prisoners -> Nat]
    /\ kiosk \in Kiosks /\ page \in Pages /\ queue \in Queues
    /\ calls \in [Slots -> CallRecords \cup {None}]
    /\ told \in [OrderIds -> {None, "accept", "reject", "twice"}]
    /\ used \in [{"asked", "typed", "events"} -> Nat]

\* A row read at any time still is the order it was read of, which keeps its owner and amount.
RowsOfOrders ==
    LET read == queue.rows \cup (IF queue.fetched = None THEN {} ELSE queue.fetched)
    IN  \A r \in read : orders[r.order] # None /\ Row(r.order) = r

\* What the call c was answered fits what it asked, and the order it carries.
CallFits(c) ==
    /\ c.kind \in Deciding => c.order # None
    /\ c.order # None => orders[c.order] # None
    /\ c.known => c.who \in Prisoners
    /\ c.answer # None =>
         /\ c.kind \in Asking => c.answer.why \in {"ok", "missing", "failed"}
         /\ c.kind \in Asking /\ c.answer.why = "ok" => c.answer.seen \in Catalogues
         /\ c.answer.transfer # None => c.order # None /\ c.answer.transfer = Transfer(c.order)

CallsFit == \A k \in Slots : calls[k] # None => CallFits(calls[k])

\* The transfer on screen is that of the order whose code stands beside it.
TransferOnScreen ==
    kiosk.screen = "bank-qr" =>
        /\ kiosk.transfer # None /\ kiosk.code \in OrderIds /\ orders[kiosk.code] # None
        /\ kiosk.transfer = Transfer(kiosk.code)

\* The outcome a success speaks of.
Outcome(what) == IF what = "accept" THEN "paid" ELSE "rejected"

\* The call k is on its way back with the news that it decided the order o.
Reports(k, o) ==
    /\ calls[k] # None /\ calls[k].kind \in Deciding /\ calls[k].order = o
    /\ calls[k].answer # None /\ calls[k].answer.why = "ok"

\* A decision is told once, or on its way to be told by one call.
DecidedOnce ==
    \A o \in OrderIds :
        /\ orders[o] = None => told[o] = None
        /\ told[o] # None => orders[o] # None /\ told[o] # "twice" /\ orders[o].status = Outcome(told[o])
        /\ \A k \in Slots : Reports(k, o) =>
             /\ told[o] = None /\ orders[o] # None /\ orders[o].status = Outcome(calls[k].kind)
             /\ \A j \in Slots : Reports(j, o) => j = k

IInv == TypeOK /\ RowsOfOrders /\ CallsFit /\ TransferOnScreen /\ DecidedOnce

-----------------------------------------------------------------------------
(* Properties *)

(* What the kiosk asks the visitor to transfer is what the order on the server is worth, and the
   code beside it is the code of that very order, although prices change while an order is being
   placed and the answers of two visitors may cross; a cashier whose row is of a pending order sees
   the same amount. *)
QuotedIsOwed ==
    /\ kiosk.screen = "bank-qr" =>
         /\ kiosk.transfer.memo = kiosk.code
         /\ kiosk.transfer.amount = orders[kiosk.code].amount
    /\ \A r \in queue.rows : Row(r.order) = r

(* Over all cashiers and all their clicks, at most one decision on an order is reported as a
   success, and the order is what that report says: no second cashier collects the money again and
   none hands it back for an order that was paid. *)
SettledOnce ==
    \A o \in OrderIds : told[o] # None =>
        \/ told[o] = "accept" /\ orders[o].status = "paid"
        \/ told[o] = "reject" /\ orders[o].status = "rejected"

(* A cashier's queue catches up: again and again its rows are exactly the pending orders, although
   others decide them, a refresh is skipped while another is under way, what a poll brings may be
   older than the decision that is on the page already, and polls fail. *)
QueueCatchesUp == []<>(queue.rows = PendingRows)

=============================================================================
