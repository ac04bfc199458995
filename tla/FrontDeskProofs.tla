-------------------------- MODULE FrontDeskProofs --------------------------
(***************************************************************************)
(* Proofs about the two pages orders are placed and settled on, for any    *)
(* prisoners, catalogues, orders and calls: what the kiosk asks a visitor  *)
(* to transfer is what the order beside it is worth, and no two decisions  *)
(* on an order are reported as successes.                                  *)
(***************************************************************************)
EXTENDS FrontDesk, TLAPS

-----------------------------------------------------------------------------
(* Calls and answers *)

CallTable == [Slots -> CallRecords \cup {None}]

LEMMA CallTyped ==
    ASSUME NEW kind \in Asking \cup {"place", "order", "topup"} \cup Deciding, NEW who \in Anyone
    PROVE  /\ Call(kind, who) \in CallRecords
           /\ Call(kind, who).kind = kind /\ Call(kind, who).answer = None /\ Call(kind, who).order = None
           /\ ~Call(kind, who).known
           /\ \A t \in Anyone : [Call(kind, who) EXCEPT !.text = t] \in CallRecords
           /\ \A m \in Tenders : [Call(kind, who) EXCEPT !.method = m] \in CallRecords
           /\ \A o \in OrderIds : [Call(kind, who) EXCEPT !.order = o] \in CallRecords
BY DEF Call, CallRecords, Anyone

LEMMA ReplyTyped ==
    ASSUME NEW why \in {"ok", "missing", "limit", "pending", "inactive", "handled", "mistyped", "failed"}
    PROVE  /\ Reply(why) \in Replies
           /\ Reply(why).why = why /\ Reply(why).transfer = None /\ Reply(why).seen = None
BY DEF Reply, Replies

LEMMA SpendTyped ==
    ASSUME TypeOK, NEW what \in {"asked", "typed", "events"}, NEW most, Spend(what, most)
    PROVE  used' \in [{"asked", "typed", "events"} -> Nat]
BY DEF TypeOK, Spend

\* A call that was just sent.
Fresh(c) ==
    /\ c \in CallRecords /\ c.answer = None /\ ~c.known
    /\ c.kind \in Deciding => c.order # None
    /\ c.order # None => orders[c.order] # None

\* Nothing is answered: calls end, lose the component that made them, or are sent.
Calm ==
    /\ calls' \in CallTable
    /\ \A j \in Slots :
         \/ calls'[j] = None
         \/ calls[j] # None /\ calls'[j] \in {calls[j], [calls[j] EXCEPT !.live = FALSE]}
         \/ calls[j] # None /\ calls[j].who \in Prisoners /\ calls'[j] = [calls[j] EXCEPT !.known = TRUE]
         \/ Fresh(calls'[j])

\* Whatever became of the calls, they fit, and none has news of a decision that had none before.
Quiet ==
    /\ calls' \in CallTable /\ CallsFit'
    /\ \A k \in Slots, o \in OrderIds : Reports(k, o)' => Reports(k, o) /\ calls'[k].kind = calls[k].kind

LEMMA CalmIsQuiet ==
    ASSUME TypeOK, CallsFit, Calm, orders' = orders
    PROVE  Quiet
<1>1. \A j \in Slots : calls[j] # None => calls[j] \in CallRecords
    BY DEF TypeOK
<1>2. ASSUME NEW j \in Slots, calls'[j] # None
      PROVE  /\ CallFits(calls[j])'
             /\ \A o \in OrderIds : Reports(j, o)' => Reports(j, o) /\ calls'[j].kind = calls[j].kind
    <2>1. CASE Fresh(calls'[j])
        BY <2>1 DEF Fresh, CallFits, Reports
    <2>2. CASE calls[j] # None /\ calls'[j] \in {calls[j], [calls[j] EXCEPT !.live = FALSE]}
        <3>1. calls[j] \in CallRecords
            BY <1>1, <2>2
        <3>2. /\ calls'[j].kind = calls[j].kind /\ calls'[j].order = calls[j].order
              /\ calls'[j].answer = calls[j].answer
            BY <2>2, <3>1 DEF CallRecords
        <3>3. CallFits(calls[j])
            BY <2>2 DEF CallsFit
        <3>4. calls'[j].known = calls[j].known /\ calls'[j].who = calls[j].who
            BY <2>2, <3>1 DEF CallRecords
        <3> QED
            BY <2>2, <3>2, <3>3, <3>4 DEF CallFits, Reports, Transfer
    <2>3. CASE calls[j] # None /\ calls[j].who \in Prisoners /\ calls'[j] = [calls[j] EXCEPT !.known = TRUE]
        <3>1. calls[j] \in CallRecords
            BY <1>1, <2>3
        <3>2. /\ calls'[j].kind = calls[j].kind /\ calls'[j].order = calls[j].order
              /\ calls'[j].answer = calls[j].answer /\ calls'[j].who = calls[j].who
            BY <2>3, <3>1 DEF CallRecords
        <3>3. CallFits(calls[j])
            BY <2>3 DEF CallsFit
        <3> QED
            BY <2>3, <3>2, <3>3 DEF CallFits, Reports, Transfer
    <2> QED
        BY <1>2, <2>1, <2>2, <2>3 DEF Calm
<1>3. \A j \in Slots : calls'[j] = None => \A o \in OrderIds : ~Reports(j, o)'
    BY DEF Reports
<1> QED
    BY <1>2, <1>3 DEF Quiet, CallsFit, Calm

LEMMA StillIsQuiet == TypeOK /\ CallsFit /\ UNCHANGED <<orders, calls>> => Quiet
BY CalmIsQuiet DEF Calm, TypeOK, CallTable

\* An answer that is no news of a decision.
LEMMA AnswerIsQuiet ==
    ASSUME TypeOK, CallsFit, orders' = orders, NEW k \in Slots, calls[k] # None, NEW a \in Replies,
           calls' = [calls EXCEPT ![k].answer = a],
           calls[k].kind \in Deciding => a.why # "ok",
           calls[k].kind \in Asking => a.why \in {"ok", "missing", "failed"} /\ (a.why = "ok" => a.seen \in Catalogues),
           a.transfer # None => calls[k].order # None /\ a.transfer = Transfer(calls[k].order)
    PROVE  Quiet
<1>1. calls[k] \in CallRecords /\ CallFits(calls[k])
    BY DEF TypeOK, CallsFit
<1> DEFINE c == [calls[k] EXCEPT !.answer = a]
<1>2. /\ c \in CallRecords /\ c.kind = calls[k].kind /\ c.order = calls[k].order /\ c.answer = a
      /\ c.known = calls[k].known /\ c.who = calls[k].who
    BY <1>1 DEF CallRecords
<1>3. calls' = [calls EXCEPT ![k] = c]
    OBVIOUS
<1> HIDE DEF c
<1>4. calls' \in CallTable /\ calls'[k] = c /\ \A j \in Slots \ {k} : calls'[j] = calls[j]
    BY <1>2, <1>3 DEF TypeOK, CallTable
<1>5. CallFits(calls[k])'
    BY <1>1, <1>2, <1>4 DEF CallFits, Transfer
<1>6. \A j \in Slots \ {k} : calls[j] # None => CallFits(calls[j])'
    BY <1>4 DEF CallsFit, CallFits, Transfer
<1>7. \A o \in OrderIds : ~Reports(k, o)'
    BY <1>2, <1>4 DEF Reports
<1>8. \A j \in Slots \ {k}, o \in OrderIds : Reports(j, o)' => Reports(j, o)
    BY <1>4 DEF Reports
<1> QED
    BY <1>4, <1>5, <1>6, <1>7, <1>8 DEF Quiet, CallsFit

\* Calls whose component leaves the page.
LEMMA UnmountedTyped ==
    ASSUME NEW cs \in CallTable, NEW kinds
    PROVE  /\ Unmounted(cs, kinds) \in CallTable
           /\ \A j \in Slots : /\ Unmounted(cs, kinds)[j] \in {cs[j], [cs[j] EXCEPT !.live = FALSE]}
                               /\ cs[j] = None => Unmounted(cs, kinds)[j] = None
<1>1. \A c \in CallRecords : [c EXCEPT !.live = FALSE] \in CallRecords
    BY DEF CallRecords
<1> QED
    BY <1>1 DEF Unmounted, CallTable

LEMMA UnmountedIsCalm ==
    ASSUME TypeOK, NEW kinds, calls' = Unmounted(calls, kinds)
    PROVE  Calm
<1>1. calls \in CallTable
    BY DEF TypeOK, CallTable
<1> QED
    BY <1>1, UnmountedTyped DEF Calm

LEMMA SendIsCalm ==
    ASSUME TypeOK, NEW k \in Slots, NEW c, Fresh(c), Send(k, c)
    PROVE  Calm
<1>1. c \in CallRecords
    BY DEF Fresh
<1> QED
    BY <1>1 DEF Send, Calm, CallTable, TypeOK

\* A call ends, and another one may take its place.
LEMMA EndIsCalm ==
    ASSUME TypeOK, NEW k \in Slots, NEW c, c = None \/ Fresh(c), calls' = [calls EXCEPT ![k] = c]
    PROVE  Calm
<1>1. c \in CallRecords \cup {None}
    BY DEF Fresh
<1> QED
    BY <1>1 DEF Calm, CallTable, TypeOK

LEMMA EndUnmountedIsCalm ==
    ASSUME TypeOK, NEW k \in Slots, NEW kinds, calls' = Unmounted([calls EXCEPT ![k] = None], kinds)
    PROVE  Calm
<1> DEFINE kept == [calls EXCEPT ![k] = None]
<1>1. kept \in CallTable /\ \A j \in Slots : kept[j] = None \/ kept[j] = calls[j]
    BY DEF TypeOK, CallTable
<1> HIDE DEF kept
<1>2. calls' = Unmounted(kept, kinds)
    BY DEF kept
<1>3. kept \in CallTable
    BY <1>1
<1>4. Unmounted(kept, kinds) \in CallTable
    BY ONLY <1>3, UnmountedTyped
<1>5. \A j \in Slots : /\ Unmounted(kept, kinds)[j] \in {kept[j], [kept[j] EXCEPT !.live = FALSE]}
                       /\ kept[j] = None => Unmounted(kept, kinds)[j] = None
    BY ONLY <1>3, UnmountedTyped
<1> QED
    BY <1>1, <1>2, <1>4, <1>5 DEF Calm

-----------------------------------------------------------------------------
(* The kiosk *)

Used == [{"asked", "typed", "events"} -> Nat]

\* The transfer on screen stays while its screen and the orders do.
LEMMA ScreenStays ==
    ASSUME TypeOK, TransferOnScreen, orders' = orders,
           \/ kiosk'.screen # "bank-qr"
           \/ kiosk'.screen = kiosk.screen /\ kiosk'.transfer = kiosk.transfer /\ kiosk'.code = kiosk.code
    PROVE  TransferOnScreen'
BY DEF TransferOnScreen, Transfer

LEMMA EntryTyped == Entry \in Kiosks /\ Entry.screen = "entry" /\ NoDraft \in Drafts
BY DEF Entry, NoDraft, Kiosks, Drafts, Anyone

KioskActions ==
    \/ StartOver \/ IdleReset
    \/ \E m \in Tenders : ChooseItems(m)
    \/ \E k \in Slots : \/ ReceiveView(k) \/ ReceivePlaced(k) \/ ReceiveRefresh(k)
                        \/ Place(k) \/ RefreshView(k)
                        \/ \E p \in Prisoners : EnterId(k, p)

\* What a handler of the kiosk may do.
KioskFrame ==
    /\ Quiet /\ kiosk' \in Kiosks /\ used' \in Used /\ TransferOnScreen'
    /\ UNCHANGED <<server, page, queue, told>>

LEMMA AnswerFits ==
    ASSUME TypeOK, CallsFit, NEW k \in Slots, Answered(k)
    PROVE  /\ calls[k] \in CallRecords /\ calls[k].answer \in Replies /\ CallFits(calls[k])
           /\ calls[k].kind \in Asking => calls[k].answer.why \in {"ok", "missing", "failed"}
           /\ calls[k].kind \in Asking /\ Succeeds(k) => calls[k].answer.seen \in Catalogues
<1>1. calls[k] \in CallRecords /\ CallFits(calls[k]) /\ calls[k].answer # None
    BY DEF TypeOK, CallsFit, Answered
<1>2. calls[k].answer \in Replies
    BY <1>1 DEF CallRecords
<1> QED
    BY <1>1, <1>2 DEF CallFits, Replies, Succeeds

LEMMA KioskSteps ==
    ASSUME TypeOK, CallsFit, TransferOnScreen, KioskActions
    PROVE  KioskFrame
<1>1. kiosk \in Kiosks /\ used \in Used
    BY DEF TypeOK, Used
<1>2. orders' = orders /\ Calm => Quiet
    BY CalmIsQuiet
<1>3. \A most : Spend("asked", most) => used' \in Used
    BY SpendTyped DEF Used
<1>4. CASE StartOver \/ IdleReset
    BY <1>1, <1>2, <1>4, EntryTyped, UnmountedIsCalm, ScreenStays
       DEF StartOver, IdleReset, ToEntry, KioskFrame, server
<1>5. CASE \E m \in Tenders : ChooseItems(m)
    <2>1. PICK m \in Tenders : ChooseItems(m)
        BY <1>5
    <2>2. kiosk' = [kiosk EXCEPT !.draft.method = m]
        BY <2>1 DEF ChooseItems
    <2>3. kiosk.draft \in Drafts /\ [kiosk.draft EXCEPT !.method = m] \in Drafts
        BY <1>1 DEF Kiosks, Drafts
    <2>4. kiosk' \in Kiosks /\ UNCHANGED <<kiosk.screen, kiosk.code, kiosk.transfer>>
        BY <1>1, <2>2, <2>3 DEF Kiosks
    <2> QED
        BY <1>1, <2>1, <2>4, StillIsQuiet, ScreenStays DEF ChooseItems, KioskFrame, server
<1>6. ASSUME NEW k \in Slots, ReceiveView(k)
      PROVE  KioskFrame
    <2>1. /\ calls[k] \in CallRecords /\ calls[k].kind = "view"
          /\ calls[k].answer.why \in {"ok", "missing", "failed"}
          /\ calls[k].answer.why = "ok" => calls[k].answer.seen \in Catalogues
        BY <1>6, AnswerFits DEF ReceiveView, Asking, Succeeds
    <2>2. calls[k].who \in Anyone
        BY <2>1 DEF CallRecords
    <2> DEFINE here == [kiosk EXCEPT !.loading = FALSE]
               view == [of |-> calls[k].who, seen |-> calls[k].answer.seen]
    <2>3. here \in Kiosks /\ here.screen = kiosk.screen /\ here.code = kiosk.code
          /\ here.transfer = kiosk.transfer /\ here.draft \in Drafts
        BY <1>1 DEF Kiosks
    <2>4. kiosk' = CASE calls[k].answer.why = "ok" ->
                          [here EXCEPT !.view = view, !.who = calls[k].who, !.screen = "menu",
                                       !.draft = IF OnMenu THEN @ ELSE NoDraft]
                     [] calls[k].answer.why = "missing" -> [here EXCEPT !.screen = "not-found", !.draft = NoDraft]
                     [] calls[k].answer.why = "failed" -> here
        BY <1>6 DEF ReceiveView
    <2>5. calls[k].answer.why = "ok" => view \in [of : Anyone, seen : Catalogues]
        BY <2>1, <2>2
    <2> HIDE DEF here, view
    <2>6. kiosk' \in Kiosks /\ (kiosk'.screen # "bank-qr" \/ kiosk' = here)
        <3>1. CASE calls[k].answer.why = "ok"
            <4>1. kiosk' = [here EXCEPT !.view = view, !.who = calls[k].who, !.screen = "menu",
                                        !.draft = IF OnMenu THEN @ ELSE NoDraft]
                BY <2>4, <3>1
            <4>2. (IF OnMenu THEN here.draft ELSE NoDraft) \in Drafts
                BY <2>3, EntryTyped
            <4> QED
                BY <2>2, <2>3, <2>5, <3>1, <4>1, <4>2 DEF Kiosks
        <3>2. CASE calls[k].answer.why = "missing"
            <4>1. kiosk' = [here EXCEPT !.screen = "not-found", !.draft = NoDraft]
                BY <2>4, <3>2
            <4> QED
                BY <2>3, <4>1, EntryTyped DEF Kiosks
        <3>3. CASE calls[k].answer.why = "failed"
            BY <2>3, <2>4, <3>3
        <3> QED
            BY <2>1, <3>1, <3>2, <3>3
    <2>7. Calm
        <3>1. \/ calls' = [calls EXCEPT ![k] = None]
              \/ calls' = Unmounted([calls EXCEPT ![k] = None], {"place"})
            BY <1>6 DEF ReceiveView
        <3> QED
            BY <3>1, EndIsCalm, EndUnmountedIsCalm
    <2>8. UNCHANGED <<server, page, queue, told, used>>
        BY <1>6 DEF ReceiveView
    <2> QED
        BY <1>1, <1>2, <2>3, <2>6, <2>7, <2>8, ScreenStays DEF KioskFrame, server
<1>7. ASSUME NEW k \in Slots, ReceivePlaced(k)
      PROVE  KioskFrame
    <2>1. calls[k] \in CallRecords /\ calls[k].answer \in Replies /\ CallFits(calls[k])
        BY <1>7, AnswerFits DEF ReceivePlaced
    <2>2. Calm
        <3>1. \/ calls' = [calls EXCEPT ![k] = None]
              \/ calls' = Unmounted([calls EXCEPT ![k] = None], {"place"})
            BY <1>7 DEF ReceivePlaced
        <3> QED
            BY <3>1, EndIsCalm, EndUnmountedIsCalm
    <2>3. UNCHANGED <<server, page, queue, told, used>>
        BY <1>7 DEF ReceivePlaced
    <2>4. kiosk' \in Kiosks /\ TransferOnScreen'
        <3>1. CASE ~Succeeds(k)
            <4>1. kiosk' = PlaceRefused(calls[k])
                BY <1>7, <3>1 DEF ReceivePlaced
            <4>2. kiosk.draft \in Drafts
                BY <1>1 DEF Kiosks
            <4>3. [[kiosk.draft EXCEPT !.submitting = FALSE] EXCEPT !.rejected = calls[k].answer.why = "limit"] \in Drafts
                BY <4>2 DEF Drafts
            <4>4. /\ kiosk' \in Kiosks /\ kiosk'.screen = kiosk.screen /\ kiosk'.code = kiosk.code
                  /\ kiosk'.transfer = kiosk.transfer
                BY <1>1, <4>1, <4>3 DEF PlaceRefused, Kiosks
            <4> QED
                BY <2>3, <4>4, ScreenStays DEF server
        <3>2. CASE Succeeds(k)
            <4> DEFINE t == calls[k].answer.transfer
            <4>1. kiosk' = [kiosk EXCEPT !.code = calls[k].order, !.draft = NoDraft,
                                         !.transfer = IF t # None THEN t ELSE @,
                                         !.screen = IF t # None THEN "bank-qr" ELSE "confirm"]
                BY <1>7, <3>2 DEF ReceivePlaced, OnPlaced
            <4>2. t \in Transfers \cup {None} /\ calls[k].order \in OrderIds \cup {None}
                BY <2>1 DEF Replies, CallRecords
            <4>3. t # None => /\ calls[k].order # None /\ orders[calls[k].order] # None
                              /\ t = Transfer(calls[k].order)
                BY <1>7, <2>1 DEF CallFits, ReceivePlaced, Answered
            <4> HIDE DEF t
            <4>4. kiosk' \in Kiosks
                BY <1>1, <4>1, <4>2, EntryTyped DEF Kiosks
            <4>5. CASE t = None
                BY <1>1, <4>1, <4>4, <4>5 DEF Kiosks, TransferOnScreen
            <4>6. CASE t # None
                <5>1. kiosk'.transfer = t /\ kiosk'.code = calls[k].order
                    BY <1>1, <4>1, <4>6 DEF Kiosks
                <5>2. orders' = orders
                    BY <2>3 DEF server
                <5> QED
                    BY <4>2, <4>3, <4>4, <4>6, <5>1, <5>2 DEF TransferOnScreen, Transfer
            <4> QED
                BY <4>4, <4>5, <4>6
        <3> QED
            BY <3>1, <3>2
    <2> QED
        BY <1>1, <1>2, <2>2, <2>3, <2>4 DEF KioskFrame, server
<1>8. ASSUME NEW k \in Slots, ReceiveRefresh(k)
      PROVE  KioskFrame
    <2>1. calls[k] \in CallRecords /\ (Succeeds(k) => calls[k].answer.seen \in Catalogues)
        BY <1>8, AnswerFits DEF ReceiveRefresh, Asking
    <2> DEFINE view == [of |-> calls[k].who, seen |-> calls[k].answer.seen]
    <2>2. kiosk' = kiosk \/ (Succeeds(k) /\ kiosk' = [kiosk EXCEPT !.view = view])
        BY <1>8 DEF ReceiveRefresh
    <2>3. Succeeds(k) => view \in [of : Anyone, seen : Catalogues]
        BY <2>1 DEF CallRecords
    <2> HIDE DEF view
    <2>4. /\ kiosk' \in Kiosks /\ kiosk'.screen = kiosk.screen /\ kiosk'.code = kiosk.code
          /\ kiosk'.transfer = kiosk.transfer
        BY <1>1, <2>2, <2>3 DEF Kiosks
    <2>5. calls' = [calls EXCEPT ![k] = None] /\ UNCHANGED <<server, page, queue, told, used>>
        BY <1>8 DEF ReceiveRefresh
    <2> QED
        BY <1>1, <1>2, <2>4, <2>5, EndIsCalm, ScreenStays DEF KioskFrame, server
<1>9. ASSUME NEW k \in Slots, Place(k)
      PROVE  KioskFrame
    <2> DEFINE c == [Call("place", kiosk.who) EXCEPT !.method = kiosk.draft.method]
    <2>1. kiosk.who \in Anyone /\ kiosk.draft \in Drafts /\ kiosk.draft.method \in Tenders
        BY <1>1, <1>9 DEF Kiosks, Drafts, Place
    <2>2. Call("place", kiosk.who) \in CallRecords /\ Call("place", kiosk.who).answer = None
          /\ ~Call("place", kiosk.who).known
          /\ Call("place", kiosk.who).order = None /\ Call("place", kiosk.who).kind = "place"
          /\ c \in CallRecords
        BY <2>1, CallTyped
    <2>3. Fresh(c)
        BY <2>2 DEF Fresh, CallRecords, Deciding
    <2> HIDE DEF c
    <2>4. Send(k, c) /\ Spend("asked", MaxAsked) /\ UNCHANGED <<server, page, queue, told>>
          /\ kiosk' = [kiosk EXCEPT !.draft.submitting = TRUE, !.draft.rejected = FALSE]
        BY <1>9 DEF Place, c
    <2>5. [[kiosk.draft EXCEPT !.submitting = TRUE] EXCEPT !.rejected = FALSE] \in Drafts
        BY <2>1 DEF Drafts
    <2>6. /\ kiosk' \in Kiosks /\ kiosk'.screen = kiosk.screen /\ kiosk'.code = kiosk.code
          /\ kiosk'.transfer = kiosk.transfer
        BY <1>1, <2>4, <2>5 DEF Kiosks
    <2> QED
        BY <1>2, <1>3, <2>3, <2>4, <2>6, SendIsCalm, ScreenStays DEF KioskFrame, server
<1>10. ASSUME NEW k \in Slots, RefreshView(k)
       PROVE  KioskFrame
    <2>1. Send(k, Call("refresh", kiosk.who)) /\ Spend("asked", MaxAsked)
          /\ UNCHANGED <<server, kiosk, page, queue, told>>
        BY <1>10 DEF RefreshView
    <2>2. kiosk.who \in Anyone
        BY <1>1 DEF Kiosks
    <2>3. Fresh(Call("refresh", kiosk.who))
        BY <2>2, CallTyped DEF Fresh, Asking, Deciding
    <2> QED
        BY <1>1, <1>2, <1>3, <2>1, <2>3, SendIsCalm, ScreenStays DEF KioskFrame, server
<1>11. ASSUME NEW k \in Slots, NEW p \in Prisoners, EnterId(k, p)
       PROVE  KioskFrame
    <2>1. Send(k, Call("view", p)) /\ Spend("asked", MaxAsked) /\ UNCHANGED <<server, page, queue, told>>
          /\ kiosk' = [kiosk EXCEPT !.loading = TRUE]
        BY <1>11 DEF EnterId
    <2>2. Fresh(Call("view", p))
        BY CallTyped DEF Fresh, Asking, Deciding, Anyone
    <2>3. /\ kiosk' \in Kiosks /\ kiosk'.screen = kiosk.screen /\ kiosk'.code = kiosk.code
          /\ kiosk'.transfer = kiosk.transfer
        BY <1>1, <2>1 DEF Kiosks
    <2> QED
        BY <1>2, <1>3, <2>1, <2>2, <2>3, SendIsCalm, ScreenStays DEF KioskFrame, server
<1> QED
    BY <1>4, <1>5, <1>6, <1>7, <1>8, <1>9, <1>10, <1>11 DEF KioskActions

-----------------------------------------------------------------------------
(* The counter page *)

PageActions ==
    \/ \E t \in Prisoners \cup {None} : TypeId(t)
    \/ FillTopup \/ FillOrder
    \/ \E k \in Slots : \/ ReceiveLookup(k) \/ ReceiveTopup(k) \/ ReceiveOrder(k)
                        \/ Search(k) \/ RefreshPolicies(k) \/ SubmitTopup(k) \/ SubmitOrder(k)

PageFrame ==
    /\ Quiet /\ page' \in Pages /\ used' \in Used
    /\ UNCHANGED <<server, kiosk, queue, told>>

LEMMA FormsTyped ==
    ASSUME TypeOK
    PROVE  /\ NoForm \in Forms
           /\ page.topup \in Forms /\ page.order \in Forms /\ page.text \in Anyone
           /\ \A f \in Forms : [f EXCEPT !.busy = TRUE] \in Forms /\ [f EXCEPT !.busy = FALSE] \in Forms
           /\ \A f \in Forms, p \in Anyone : [f EXCEPT !.draft = p] \in Forms
           /\ page.shown # None => page.shown.of \in Anyone
BY DEF TypeOK, Pages, Forms, NoForm, Anyone

LEMMA PageSteps ==
    ASSUME TypeOK, CallsFit, PageActions
    PROVE  PageFrame
<1>1. page \in Pages /\ used \in Used
    BY DEF TypeOK, Used
<1>2. orders' = orders /\ Calm => Quiet
    BY CalmIsQuiet
<1>3. \A most : Spend("asked", most) \/ Spend("typed", most) => used' \in Used
    BY SpendTyped DEF Used
<1>4. UNCHANGED <<orders, calls>> => Quiet
    BY StillIsQuiet
<1>5. CASE \E t \in Prisoners \cup {None} : TypeId(t)
    BY <1>1, <1>3, <1>4, <1>5 DEF TypeId, PageFrame, server, Pages, Anyone
<1>6. CASE FillTopup
    <2>1. page.shown.of \in Anyone
        BY <1>6, FormsTyped DEF FillTopup, Fillable, PanelsEnabled
    <2>2. [page.topup EXCEPT !.draft = page.shown.of] \in Forms
        BY <2>1, FormsTyped
    <2> QED
        BY <1>1, <1>3, <1>4, <1>6, <2>2 DEF FillTopup, PageFrame, server, Pages
<1>7. CASE FillOrder
    <2>1. page.shown.of \in Anyone
        BY <1>7, FormsTyped DEF FillOrder, Fillable, PanelsEnabled
    <2>2. [page.order EXCEPT !.draft = page.shown.of] \in Forms
        BY <2>1, FormsTyped
    <2> QED
        BY <1>1, <1>3, <1>4, <1>7, <2>2 DEF FillOrder, PageFrame, server, Pages
<1>8. ASSUME NEW k \in Slots, ReceiveLookup(k)
      PROVE  PageFrame
    <2>1. calls[k] \in CallRecords /\ calls[k].answer \in Replies
          /\ (Succeeds(k) => calls[k].answer.seen \in Catalogues)
        BY <1>8, AnswerFits DEF ReceiveLookup, Asking
    <2> DEFINE shown == [of |-> calls[k].who, on |-> calls[k].answer.on, limit |-> calls[k].answer.seen.limit]
    <2>2. Succeeds(k) => shown \in [of : Anyone, on : BOOLEAN, limit : Nat]
        BY <2>1, DeskAssumption DEF CallRecords, Replies
    <2>3. catalogue.price \in Nat
        BY DeskAssumption DEF TypeOK
    <2>4. page' = IF ~Succeeds(k) THEN [page EXCEPT !.loading = FALSE]
                  ELSE [[page EXCEPT !.loading = FALSE]
                          EXCEPT !.shown = shown, !.price = IF page.shown = None THEN catalogue.price ELSE @]
        BY <1>8 DEF ReceiveLookup
    <2> HIDE DEF shown
    <2>5. page' \in Pages
        BY <1>1, <2>2, <2>3, <2>4 DEF Pages
    <2> QED
        BY <1>1, <1>2, <1>8, <2>5, EndIsCalm DEF ReceiveLookup, PageFrame, server
<1>9. ASSUME NEW k \in Slots, NEW after \in Pages, calls[k] \in CallRecords, Settle(k, after)
      PROVE  PageFrame
    <2> DEFINE next == IF Succeeds(k) THEN RefreshLookup(calls[k]) ELSE None
               here == IF calls[k].live THEN after ELSE page
    <2>1. calls[k].text \in Anyone
        BY <1>9 DEF CallRecords
    <2>2. next = None \/ Fresh(next)
        BY <2>1, CallTyped DEF RefreshLookup, Fresh, Asking, Deciding
    <2>3. here \in Pages
        BY <1>1, <1>9
    <2>4. /\ page' = [here EXCEPT !.loading = @ \/ next # None] /\ calls' = [calls EXCEPT ![k] = next]
          /\ UNCHANGED <<server, kiosk, queue, told, used>>
        BY <1>9 DEF Settle
    <2> HIDE DEF next, here
    <2>5. here.loading \in BOOLEAN
        BY <2>3 DEF Pages
    <2>6. (here.loading \/ next # None) \in BOOLEAN
        OBVIOUS
    <2>7. page' \in Pages
        BY <2>3, <2>4, <2>6 DEF Pages
    <2> QED
        BY <1>1, <1>2, <2>2, <2>4, <2>7, EndIsCalm DEF PageFrame, server
<1>10. ASSUME NEW k \in Slots, ReceiveTopup(k)
       PROVE  PageFrame
    <2>1. calls[k] \in CallRecords
        BY <1>10, AnswerFits DEF ReceiveTopup
    <2>2. [page EXCEPT !.topup = NoForm] \in Pages /\ [page EXCEPT !.topup.busy = FALSE] \in Pages
        BY <1>1, FormsTyped DEF Pages
    <2> QED
        BY <1>9, <1>10, <2>1, <2>2 DEF ReceiveTopup
<1>11. ASSUME NEW k \in Slots, ReceiveOrder(k)
       PROVE  PageFrame
    <2>1. calls[k] \in CallRecords
        BY <1>11, AnswerFits DEF ReceiveOrder
    <2>2. (calls[k].answer.why = "limit") \in BOOLEAN
        OBVIOUS
    <2>3. /\ [page EXCEPT !.order = NoForm] \in Pages
          /\ [page EXCEPT !.order.busy = FALSE, !.rejected = calls[k].answer.why = "limit"] \in Pages
        BY <1>1, <2>2, FormsTyped DEF Pages
    <2> QED
        BY <1>9, <1>11, <2>1, <2>3 DEF ReceiveOrder
<1>12. ASSUME NEW k \in Slots, Search(k)
       PROVE  PageFrame
    <2> DEFINE cs == Unmounted(calls, {"topup", "order"})
               c == Call("lookup", page.text)
    <2>1. /\ calls' = [cs EXCEPT ![k] = c] /\ page' = [EmptyPage EXCEPT !.text = page.text, !.loading = TRUE]
          /\ Spend("asked", MaxAsked) /\ UNCHANGED <<server, kiosk, queue, told>>
        BY <1>12 DEF Search
    <2>2. Fresh(c)
        BY FormsTyped, CallTyped DEF Fresh, Asking, Deciding
    <2>3. calls \in CallTable
        BY DEF TypeOK, CallTable
    <2>4. /\ cs \in CallTable
          /\ \A j \in Slots : /\ cs[j] \in {calls[j], [calls[j] EXCEPT !.live = FALSE]}
                              /\ calls[j] = None => cs[j] = None
        BY <2>3, UnmountedTyped
    <2>5. page' \in Pages
        BY <2>1, FormsTyped DEF EmptyPage, Pages, Anyone
    <2> HIDE DEF cs, c
    <2>6. Calm
        BY <2>1, <2>2, <2>4 DEF Calm, CallTable, Fresh
    <2> QED
        BY <1>2, <1>3, <2>1, <2>5, <2>6 DEF PageFrame, server
<1>13. ASSUME NEW k \in Slots, RefreshPolicies(k)
       PROVE  PageFrame
    <2>1. Send(k, Call("lookup", page.text)) /\ Spend("asked", MaxAsked)
          /\ page' = [page EXCEPT !.price = catalogue.price, !.loading = TRUE]
          /\ UNCHANGED <<server, kiosk, queue, told>>
        BY <1>13 DEF RefreshPolicies
    <2>2. Fresh(Call("lookup", page.text))
        BY FormsTyped, CallTyped DEF Fresh, Asking, Deciding
    <2>3. catalogue.price \in Nat
        BY DeskAssumption DEF TypeOK
    <2>4. page' \in Pages
        BY <1>1, <2>1, <2>3 DEF Pages
    <2> QED
        BY <1>2, <1>3, <2>1, <2>2, <2>4, SendIsCalm DEF PageFrame, server
<1>14. ASSUME NEW k \in Slots, NEW form \in {"topup", "order"}, Submit(form, k)
       PROVE  PageFrame
    <2> DEFINE c == [Call(form, page.shown.of) EXCEPT !.text = page.text]
    <2>1. /\ Send(k, c) /\ page' = [page EXCEPT ![form].busy = TRUE]
          /\ Spend("asked", MaxAsked) /\ UNCHANGED <<server, kiosk, queue, told>>
        BY <1>14 DEF Submit
    <2>2. page.shown.of \in Anyone
        BY <1>14, FormsTyped DEF Submit, PanelsEnabled
    <2>3. /\ Call(form, page.shown.of) \in CallRecords /\ Call(form, page.shown.of).answer = None
          /\ ~Call(form, page.shown.of).known
          /\ Call(form, page.shown.of).order = None /\ Call(form, page.shown.of).kind = form
          /\ c \in CallRecords
        BY <2>2, FormsTyped, CallTyped
    <2>4. Fresh(c)
        BY <2>3 DEF Fresh, CallRecords, Deciding
    <2> HIDE DEF c
    <2>5. CASE form = "topup"
        <3>1. page' = [page EXCEPT !.topup.busy = TRUE]
            BY <2>1, <2>5
        <3>2. page' \in Pages
            BY <1>1, <3>1, FormsTyped DEF Pages
        <3> QED
            BY <1>2, <1>3, <2>1, <2>4, <3>2, SendIsCalm DEF PageFrame, server
    <2>6. CASE form = "order"
        <3>1. page' = [page EXCEPT !.order.busy = TRUE]
            BY <2>1, <2>6
        <3>2. page' \in Pages
            BY <1>1, <3>1, FormsTyped DEF Pages
        <3> QED
            BY <1>2, <1>3, <2>1, <2>4, <3>2, SendIsCalm DEF PageFrame, server
    <2> QED
        BY <2>5, <2>6
<1>15. \A k \in Slots : SubmitTopup(k) \/ SubmitOrder(k) => PageFrame
    BY <1>14 DEF SubmitTopup, SubmitOrder
<1> QED
    BY <1>5, <1>6, <1>7, <1>8, <1>10, <1>11, <1>12, <1>13, <1>15 DEF PageActions

-----------------------------------------------------------------------------
(* The queue of pending orders *)

LEMMA PendingRowsRead ==
    ASSUME TypeOK
    PROVE  PendingRows \subseteq RowsRead /\ \A r \in PendingRows : orders[r.order] # None /\ Row(r.order) = r
<1> SUFFICES ASSUME NEW r \in PendingRows
             PROVE  r \in RowsRead /\ orders[r.order] # None /\ Row(r.order) = r
    OBVIOUS
<1>1. PICK o \in OrderIds : r = Row(o) /\ orders[o] # None
    BY DEF PendingRows, PendingOf
<1>2. orders[o] \in OrderRows
    BY <1>1 DEF TypeOK
<1> QED
    BY <1>1, <1>2 DEF Row, RowsRead, OrderRows

LEMMA RefreshedRead ==
    ASSUME TypeOK, RowsOfOrders, orders' = orders, NEW q \in Queues,
           q.rows = queue.rows, q.fetched = queue.fetched, queue' = Refreshed(q)
    PROVE  queue' \in Queues /\ RowsOfOrders'
<1>1. CASE q.inFlight
    BY <1>1 DEF Refreshed, RowsOfOrders, Row
<1>2. CASE ~q.inFlight
    <2>1. queue' = [q EXCEPT !.inFlight = TRUE, !.fetched = PendingRows]
        BY <1>2 DEF Refreshed
    <2>2. PendingRows \subseteq RowsRead /\ \A r \in PendingRows : orders[r.order] # None /\ Row(r.order) = r
        BY PendingRowsRead
    <2>3. queue' \in Queues /\ queue'.rows = queue.rows /\ queue'.fetched = PendingRows
        BY <2>1, <2>2 DEF Queues
    <2>4. \A r \in queue.rows : orders[r.order] # None /\ Row(r.order) = r
        BY DEF RowsOfOrders
    <2> QED
        BY <2>2, <2>3, <2>4 DEF RowsOfOrders, Row
<1> QED
    BY <1>1, <1>2

QueueFrame ==
    /\ Quiet /\ queue' \in Queues /\ RowsOfOrders' /\ used' \in Used
    /\ UNCHANGED <<server, kiosk, page>>

LEMMA QueueSteps ==
    ASSUME TypeOK, RowsOfOrders, CallsFit,
           \/ Tick \/ ReceivePoll \/ PollFails
           \/ \E k \in Slots, o \in OrderIds : Decide(o, "accept", k) \/ Decide(o, "reject", k)
    PROVE  QueueFrame /\ told' = told
<1>1. queue \in Queues /\ used \in Used
    BY DEF TypeOK, Used
<1>2. \A r \in queue.rows : orders[r.order] # None /\ Row(r.order) = r
    BY DEF RowsOfOrders
<1>3. CASE Tick
    BY <1>1, <1>3, RefreshedRead, StillIsQuiet DEF Tick, QueueFrame, server
<1>4. CASE ReceivePoll
    <2>1. /\ queue' = [queue EXCEPT !.inFlight = FALSE, !.rows = queue.fetched, !.fetched = None, !.error = FALSE]
          /\ queue.fetched # None
        BY <1>4 DEF ReceivePoll
    <2>2. queue' \in Queues /\ queue'.rows = queue.fetched /\ queue'.fetched = None
        BY <1>1, <2>1 DEF Queues
    <2>3. \A r \in queue.fetched : orders[r.order] # None /\ Row(r.order) = r
        BY <2>1 DEF RowsOfOrders
    <2>4. RowsOfOrders'
        BY <1>4, <2>2, <2>3 DEF RowsOfOrders, Row, ReceivePoll, server
    <2> QED
        BY <1>1, <1>4, <2>2, <2>4, StillIsQuiet DEF ReceivePoll, QueueFrame, server
<1>5. CASE PollFails
    <2>1. queue' = [queue EXCEPT !.inFlight = FALSE, !.fetched = None, !.error = TRUE]
        BY <1>5 DEF PollFails, PollFailed
    <2>2. queue' \in Queues /\ queue'.rows = queue.rows /\ queue'.fetched = None
        BY <1>1, <2>1 DEF Queues
    <2>3. RowsOfOrders'
        BY <1>2, <1>5, <2>2 DEF RowsOfOrders, Row, PollFails, server
    <2> QED
        BY <1>5, <2>2, <2>3, StillIsQuiet, SpendTyped DEF PollFails, QueueFrame, server, Used
<1>6. ASSUME NEW k \in Slots, NEW o \in OrderIds, NEW what \in Deciding, Decide(o, what, k)
      PROVE  QueueFrame /\ told' = told
    <2> DEFINE c == [Call(what, None) EXCEPT !.order = o]
    <2>1. Send(k, c) /\ queue' = [queue EXCEPT !.acting = o] /\ UNCHANGED <<server, kiosk, page, told, used>>
        BY <1>6 DEF Decide
    <2>2. orders[o] # None
        BY <1>2, <1>6 DEF Decide, Listed
    <2>3. /\ Call(what, None) \in CallRecords /\ Call(what, None).answer = None
          /\ ~Call(what, None).known
          /\ Call(what, None).kind = what /\ c \in CallRecords
        BY CallTyped DEF Anyone
    <2>4. None # o
        BY DeskAssumption
    <2>5. Fresh(c)
        BY <2>2, <2>3, <2>4 DEF Fresh, CallRecords
    <2> HIDE DEF c
    <2>6. queue' \in Queues /\ queue'.rows = queue.rows /\ queue'.fetched = queue.fetched
        BY <1>1, <2>1 DEF Queues
    <2>7. RowsOfOrders'
        BY <2>1, <2>6 DEF RowsOfOrders, Row, server
    <2>8. Quiet
        BY <2>1, <2>5, SendIsCalm, CalmIsQuiet DEF server
    <2> QED
        BY <1>1, <2>1, <2>6, <2>7, <2>8 DEF QueueFrame
<1> QED
    BY <1>3, <1>4, <1>5, <1>6 DEF Deciding

LEMMA DecisionReceived ==
    ASSUME TypeOK, RowsOfOrders, CallsFit, DecidedOnce, NEW k \in Slots, ReceiveDecision(k)
    PROVE  QueueFrame /\ told' \in [OrderIds -> {None, "accept", "reject", "twice"}] /\ DecidedOnce'
<1>1. queue \in Queues /\ used \in Used
    BY DEF TypeOK, Used
<1>2. calls[k] \in CallRecords /\ calls[k].answer \in Replies /\ CallFits(calls[k]) /\ calls[k].kind \in Deciding
    BY AnswerFits DEF ReceiveDecision, Deciding
<1>3. calls' = [calls EXCEPT ![k] = None] /\ UNCHANGED <<server, kiosk, page, used>>
    BY DEF ReceiveDecision
<1>4. Quiet
    BY <1>3, EndIsCalm, CalmIsQuiet DEF server
<1> DEFINE q == [queue EXCEPT !.acting = None]
<1>5. queue' = Refreshed(q)
    BY DEF ReceiveDecision
<1>6. q \in Queues /\ q.rows = queue.rows /\ q.fetched = queue.fetched
    BY <1>1 DEF Queues
<1> HIDE DEF q
<1>7. queue' \in Queues /\ RowsOfOrders'
    BY <1>3, <1>5, <1>6, RefreshedRead DEF server
<1>8. QueueFrame
    BY <1>1, <1>3, <1>4, <1>7 DEF QueueFrame
<1>9. PICK o \in OrderIds : o = calls[k].order /\ orders[o] # None
    BY <1>2 DEF CallFits, CallRecords
<1>10. PICK what \in Deciding : what = calls[k].kind
    BY <1>2
<1>11. \A j \in Slots : /\ calls'[j] = IF j = k THEN None ELSE calls[j]
    BY <1>3 DEF TypeOK
<1>12. \A j \in Slots, p \in OrderIds : Reports(j, p)' => Reports(j, p) /\ j # k /\ calls'[j].kind = calls[j].kind
    BY <1>11 DEF Reports
<1>13. CASE ~Succeeds(k)
    <2>1. told' = told
        BY <1>13 DEF ReceiveDecision
    <2> QED
        BY <1>3, <1>8, <1>12, <2>1 DEF TypeOK, DecidedOnce, server
<1>14. CASE Succeeds(k)
    <2>1. Reports(k, o)
        BY <1>2, <1>9, <1>14 DEF Reports, Succeeds, ReceiveDecision, Answered
    <2>2. told[o] = None /\ orders[o].status = Outcome(what) /\ \A j \in Slots : Reports(j, o) => j = k
        BY <1>9, <1>10, <2>1 DEF DecidedOnce
    <2>3. told' = [told EXCEPT ![o] = what]
        BY <1>9, <1>14, <1>10, <2>2 DEF ReceiveDecision, Told, TypeOK
    <2>4. what \in {"accept", "reject"}
        BY DEF Deciding
    <2>5. /\ told' \in [OrderIds -> {None, "accept", "reject", "twice"}] /\ told'[o] = what
          /\ \A p \in OrderIds \ {o} : told'[p] = told[p]
        BY <1>9, <2>3, <2>4 DEF TypeOK
    <2>6. \A j \in Slots : ~Reports(j, o)'
        BY <1>9, <1>12, <2>2
    <2>7. orders' = orders
        BY <1>3 DEF server
    <2>8. DecidedOnce'
        <3> SUFFICES ASSUME NEW p \in OrderIds
                     PROVE  DecidedOnce!(p)'
            BY DEF DecidedOnce
        <3>1. CASE p = o
            BY <1>9, <2>2, <2>4, <2>5, <2>6, <2>7, <3>1
        <3>2. CASE p # o
            BY <1>12, <2>5, <2>7, <3>2 DEF DecidedOnce
        <3> QED
            BY <3>1, <3>2
    <2> QED
        BY <1>8, <2>5, <2>8
<1> QED
    BY <1>13, <1>14

-----------------------------------------------------------------------------
(* The server *)

\* What the server, the network or an administrator does to no order.
PlainService ==
    \/ ChangeCatalogue \/ \E p \in Prisoners : Release(p)
    \/ \E k \in Slots : ServeView(k) \/ ServeLookup(k) \/ ServeTopup(k) \/ AttachTransfer(k) \/ CallFails(k)
                        \/ Resolve(k) \/ RefuseAcceptance(k)

PlainFrame ==
    /\ Quiet /\ active' \subseteq Prisoners /\ catalogue' \in Catalogues /\ credited' \in [Prisoners -> Nat]
    /\ used' \in Used
    /\ UNCHANGED <<orders, kiosk, page, queue, told>>

LEMMA ViewTyped ==
    ASSUME TypeOK, NEW b \in BOOLEAN
    PROVE  LET a == [Reply("ok") EXCEPT !.on = b, !.seen = catalogue]
           IN  a \in Replies /\ a.why = "ok" /\ a.seen \in Catalogues /\ a.transfer = None
BY DEF TypeOK, Reply, Replies

LEMMA PlainSteps ==
    ASSUME TypeOK, CallsFit, PlainService
    PROVE  PlainFrame
<1>1. /\ active \subseteq Prisoners /\ catalogue \in Catalogues /\ credited \in [Prisoners -> Nat]
      /\ used \in Used
    BY DEF TypeOK, Used
<1>2. CASE ChangeCatalogue \/ \E p \in Prisoners : Release(p)
    BY <1>1, <1>2, StillIsQuiet, SpendTyped DEF ChangeCatalogue, Release, PlainFrame, Used
<1>3. ASSUME NEW k \in Slots, ServeView(k) \/ ServeLookup(k)
      PROVE  PlainFrame
    <2>1. calls[k] # None /\ calls[k].kind \in Asking /\ UNCHANGED <<server, kiosk, page, queue, told, used>>
        BY <1>3 DEF ServeView, ServeLookup, Unserved, Asking
    <2>2. PICK a \in Replies :
            /\ calls' = [calls EXCEPT ![k].answer = a] /\ a.transfer = None
            /\ a.why \in {"ok", "missing"} /\ (a.why = "ok" => a.seen \in Catalogues)
        <3> DEFINE shown(b) == [calls EXCEPT ![k].answer = [Reply("ok") EXCEPT !.on = b, !.seen = catalogue]]
        <3>1. calls' = [calls EXCEPT ![k].answer = Reply("missing")] \/ \E b \in BOOLEAN : calls' = shown(b)
            <4>1. CASE ServeView(k)
                <5>1. calls' = [calls EXCEPT ![k].answer = Reply("missing")] \/ calls' = shown(TRUE)
                    BY <4>1 DEF ServeView
                <5> QED
                    BY <5>1
            <4>2. CASE ServeLookup(k)
                <5>1. calls' = shown(calls[k].who \in active)
                    BY <4>2 DEF ServeLookup
                <5>2. (calls[k].who \in active) \in BOOLEAN
                    OBVIOUS
                <5> HIDE DEF shown
                <5> QED
                    BY <5>1, <5>2
            <4> QED
                BY <1>3, <4>1, <4>2
        <3>2. Reply("missing") \in Replies /\ Reply("missing").why = "missing" /\ Reply("missing").transfer = None
            BY ReplyTyped
        <3> QED
            BY <3>1, <3>2, ViewTyped
    <2>3. calls[k].kind \notin Deciding
        BY <2>1 DEF Asking, Deciding
    <2> QED
        BY <1>1, <2>1, <2>2, <2>3, AnswerIsQuiet DEF PlainFrame, server
<1>4. ASSUME NEW k \in Slots, ServeTopup(k)
      PROVE  PlainFrame
    <2>1. calls[k] # None /\ calls[k].kind = "topup"
        BY <1>4 DEF ServeTopup, Unserved
    <2>2. PICK a \in Replies : calls' = [calls EXCEPT ![k].answer = a] /\ a.transfer = None
        <3>1. calls' = [calls EXCEPT ![k].answer = Reply("ok")]
            BY <1>4 DEF ServeTopup
        <3>2. Reply("ok") \in Replies /\ Reply("ok").transfer = None
            BY ReplyTyped
        <3> QED
            BY <3>1, <3>2
    <2>3. credited' \in [Prisoners -> Nat]
        <3>1. CallFits(calls[k]) /\ calls[k].known
            BY <1>4, <2>1, Zenon DEF CallsFit, ServeTopup
        <3>2. calls[k].who \in Prisoners
            BY <3>1, Zenon DEF CallFits
        <3> DEFINE who == calls[k].who
        <3>3. credited' = [credited EXCEPT ![who] = credited[who] + 1]
            BY <1>4 DEF ServeTopup
        <3>4. credited \in [Prisoners -> Nat] /\ who \in Prisoners
            BY <3>2 DEF TypeOK
        <3> HIDE DEF who
        <3> QED
            BY <3>3, <3>4
    <2>4. Quiet
        BY <1>4, <2>1, <2>2, AnswerIsQuiet DEF ServeTopup, Asking, Deciding
    <2> QED
        BY <1>1, <1>4, <2>3, <2>4 DEF ServeTopup, PlainFrame
<1>5. ASSUME NEW k \in Slots, AttachTransfer(k)
      PROVE  PlainFrame
    <2>1. calls[k] # None /\ calls[k].kind = "place" /\ calls[k].order # None
        BY <1>5 DEF AttachTransfer, Unserved
    <2>2. calls[k].order \in OrderIds /\ orders[calls[k].order] \in OrderRows
        BY <2>1 DEF TypeOK, CallsFit, CallFits, CallRecords
    <2>3. Transfer(calls[k].order) \in Transfers
        BY <2>2 DEF Transfer, Transfers, OrderRows
    <2> DEFINE t == IF catalogue.bank THEN Transfer(calls[k].order) ELSE None
    <2>4. PICK a \in Replies : calls' = [calls EXCEPT ![k].answer = a] /\ (a.transfer = None \/ a.transfer = Transfer(calls[k].order))
        <3>1. t \in Transfers \cup {None} /\ (t = None \/ t = Transfer(calls[k].order))
            BY <2>3
        <3>2. calls' = [calls EXCEPT ![k].answer = [Reply("ok") EXCEPT !.transfer = t]]
            BY <1>5 DEF AttachTransfer
        <3> HIDE DEF t
        <3>3. [Reply("ok") EXCEPT !.transfer = t] \in Replies /\ [Reply("ok") EXCEPT !.transfer = t].transfer = t
            BY <3>1 DEF Reply, Replies
        <3> QED
            BY <3>1, <3>2, <3>3
    <2>5. Quiet
        BY <1>5, <2>1, <2>4, AnswerIsQuiet DEF AttachTransfer, Asking, Deciding, server
    <2> QED
        BY <1>1, <1>5, <2>5 DEF AttachTransfer, PlainFrame, server
<1>6. ASSUME NEW k \in Slots, CallFails(k)
      PROVE  PlainFrame
    <2>1. /\ calls[k] # None /\ calls' = [calls EXCEPT ![k].answer = Reply("failed")]
          /\ Spend("events", MaxEvents) /\ UNCHANGED <<server, kiosk, page, queue, told>>
        BY <1>6 DEF CallFails
    <2>2. Quiet
        BY <2>1, ReplyTyped, AnswerIsQuiet DEF server
    <2> QED
        BY <1>1, <2>1, <2>2, SpendTyped DEF PlainFrame, server, Used
<1>7. ASSUME NEW k \in Slots, Resolve(k)
      PROVE  PlainFrame
    <2>1. calls[k] # None /\ calls[k].kind \in {"place", "order", "topup"} /\ UNCHANGED <<server, kiosk, page, queue, told, used>>
        BY <1>7 DEF Resolve, Unserved
    <2>2. Quiet
        <3>1. CASE calls[k].who \in active
            <4>1. calls[k] \in CallRecords /\ calls[k].who \in Prisoners
                BY <1>1, <2>1, <3>1 DEF TypeOK
            <4>2. [calls[k] EXCEPT !.known = TRUE] \in CallRecords
                BY <4>1 DEF CallRecords
            <4>3. calls' = [calls EXCEPT ![k] = [calls[k] EXCEPT !.known = TRUE]]
                BY <1>7, <3>1 DEF Resolve, TypeOK
            <4>4. Calm
                BY <2>1, <4>1, <4>2, <4>3 DEF Calm, CallTable, TypeOK
            <4> QED
                BY <2>1, <4>4, CalmIsQuiet DEF server
        <3>2. CASE calls[k].who \notin active
            <4>1. PICK a \in Replies : calls' = [calls EXCEPT ![k].answer = a] /\ a.transfer = None
                BY <1>7, <3>2, ReplyTyped DEF Resolve
            <4> QED
                BY <2>1, <4>1, AnswerIsQuiet DEF server, Asking, Deciding
        <3> QED
            BY <3>1, <3>2
    <2> QED
        BY <1>1, <2>1, <2>2 DEF PlainFrame, server
<1>8. ASSUME NEW k \in Slots, RefuseAcceptance(k)
      PROVE  PlainFrame
    <2>1. /\ calls[k] # None /\ calls[k].kind = "accept" /\ UNCHANGED <<server, kiosk, page, queue, told, used>>
          /\ calls' = [calls EXCEPT ![k].answer = Reply("mistyped")]
        BY <1>8 DEF RefuseAcceptance, Unserved
    <2>2. Quiet
        BY <2>1, ReplyTyped, AnswerIsQuiet DEF server, Asking
    <2> QED
        BY <1>1, <2>1, <2>2 DEF PlainFrame, server
<1> QED
    BY <1>2, <1>3, <1>4, <1>5, <1>6, <1>7, <1>8 DEF PlainService

\* Orders come and are decided; what an order is for stays.
Grows ==
    /\ orders' \in [OrderIds -> OrderRows \cup {None}]
    /\ \A o \in OrderIds : orders[o] # None =>
         orders'[o] # None /\ orders'[o].who = orders[o].who /\ orders'[o].amount = orders[o].amount

LEMMA GrowthKeeps ==
    ASSUME TypeOK, RowsOfOrders, TransferOnScreen, Grows, UNCHANGED <<kiosk, queue>>
    PROVE  /\ RowsOfOrders' /\ TransferOnScreen'
           /\ \A c \in CallRecords : CallFits(c) => CallFits(c)'
<1>1. RowsOfOrders'
    <2>1. \A r \in queue.rows \cup (IF queue.fetched = None THEN {} ELSE queue.fetched) :
            r.order \in OrderIds
        BY DEF TypeOK, Queues, RowsRead
    <2> QED
        BY <2>1 DEF RowsOfOrders, Row, Grows
<1>2. TransferOnScreen'
    BY DEF TransferOnScreen, Transfer, Grows
<1>3. ASSUME NEW c \in CallRecords, CallFits(c)
      PROVE  CallFits(c)'
    <2>1. c.order \in OrderIds \cup {None}
        BY DEF CallRecords
    <2> QED
        BY <1>3, <2>1 DEF CallFits, Transfer, Grows
<1> QED
    BY <1>1, <1>2, <1>3

ServiceFrame ==
    /\ Grows /\ calls' \in CallTable /\ CallsFit' /\ DecidedOnce'
    /\ told' \in [OrderIds -> {None, "accept", "reject", "twice"}]
    /\ used' \in Used
    /\ UNCHANGED <<active, catalogue, credited, kiosk, page, queue>>

LEMMA QuietKeepsDecisions ==
    ASSUME DecidedOnce, Quiet, UNCHANGED <<orders, told>>
    PROVE  DecidedOnce'
BY DEF DecidedOnce, Quiet

LEMMA RefusalIsWhy ==
    ASSUME NEW p, Refusal(p) # "ok"
    PROVE  Refusal(p) \in {"limit", "pending"}
BY DEF Refusal

LEMMA OrderServed ==
    ASSUME IInv, NEW k \in Slots, ServeOrder(k)
    PROVE  ServiceFrame
<1> USE DEF IInv
<1> DEFINE c == calls[k]
           why == Refusal(c.who)
<1>1. c \in CallRecords /\ c # None /\ c.kind \in {"place", "order"} /\ c.order = None /\ CallFits(c) /\ c.known
    BY DEF ServeOrder, Unserved, TypeOK, CallsFit
<1>2. UNCHANGED <<active, catalogue, credited, kiosk, page, queue, told, used>>
    BY DEF ServeOrder
<1>3. c.kind \notin Asking \cup Deciding
    BY <1>1 DEF Asking, Deciding
<1>4. CASE why # "ok"
    <2>1. calls' = [calls EXCEPT ![k].answer = Reply(why)] /\ orders' = orders
        BY <1>4 DEF ServeOrder
    <2>2. why \in {"limit", "pending"}
        BY <1>4, RefusalIsWhy
    <2>3. Reply(why) \in Replies /\ Reply(why).transfer = None
        BY <2>2, ReplyTyped
    <2>4. Quiet
        BY <1>1, <1>3, <2>1, <2>3, AnswerIsQuiet
    <2>5. Grows
        BY <2>1 DEF Grows, TypeOK
    <2> QED
        BY <1>2, <2>1, <2>4, <2>5, QuietKeepsDecisions DEF ServiceFrame, Quiet, TypeOK, Used
<1>5. CASE why = "ok"
    <2> DEFINE row == [who |-> c.who, amount |-> catalogue.price, status |-> "pending", past |-> FALSE]
               a == IF c.kind = "place" /\ c.method = "bank" THEN None ELSE Reply("ok")
    <2>1. PICK o \in OrderIds :
            /\ orders[o] = None /\ orders' = [orders EXCEPT ![o] = row]
            /\ calls' = [calls EXCEPT ![k].order = o, ![k].answer = a]
        BY <1>5 DEF ServeOrder
    <2>2. c.who \in Prisoners
        BY <1>1, Zenon DEF CallFits
    <2>3. row \in OrderRows /\ None # row
        <3>1. catalogue.price \in Nat
            BY DeskAssumption DEF TypeOK
        <3>2. row \in OrderRows
            BY <2>2, <3>1 DEF OrderRows
        <3> QED
            BY <3>2, DeskAssumption
    <2>4. a \in Replies \cup {None} /\ (a # None => a.transfer = None)
        BY ReplyTyped
    <2> DEFINE d == [[c EXCEPT !.order = o] EXCEPT !.answer = a]
    <2>5. d \in CallRecords /\ d.order = o /\ d.answer = a /\ d.kind = c.kind /\ d.who = c.who
        BY <1>1, <2>4 DEF CallRecords
    <2>6. calls' = [calls EXCEPT ![k] = d]
        BY <2>1 DEF TypeOK
    <2> HIDE DEF row, a, d, c
    <2>7. /\ calls' \in CallTable /\ calls'[k] = d /\ \A j \in Slots \ {k} : calls'[j] = calls[j]
        BY <2>5, <2>6 DEF CallTable, TypeOK
    <2>8. /\ orders' \in [OrderIds -> OrderRows \cup {None}] /\ orders'[o] = row
          /\ \A p \in OrderIds \ {o} : orders'[p] = orders[p]
        BY <2>1, <2>3 DEF TypeOK
    <2>9. Grows
        BY <2>1, <2>8 DEF Grows
    <2>10. CallFits(calls[k])'
        BY <1>3, <2>2, <2>3, <2>4, <2>5, <2>7, <2>8 DEF CallFits
    <2>11. \A j \in Slots \ {k} : calls[j] # None => CallFits(calls[j])'
        <3> SUFFICES ASSUME NEW j \in Slots \ {k}, calls[j] # None
                     PROVE  CallFits(calls[j])'
            OBVIOUS
        <3>1. calls[j] \in CallRecords /\ CallFits(calls[j])
            BY DEF TypeOK, CallsFit
        <3>2. \A b \in CallRecords : CallFits(b) => CallFits(b)'
            BY <1>2, <2>9, GrowthKeeps
        <3>3. calls'[j] = calls[j]
            BY <2>7
        <3> QED
            BY <3>1, <3>2, <3>3 DEF CallFits
    <2>12. CallsFit'
        BY <2>10, <2>11, <2>7 DEF CallsFit
    <2>13. \A j \in Slots, p \in OrderIds : Reports(j, p)' => Reports(j, p) /\ calls'[j].kind = calls[j].kind
        BY <1>3, <2>5, <2>7 DEF Reports
    <2>14. \A j \in Slots : ~Reports(j, o)
        BY <2>1 DEF DecidedOnce
    <2>15. told[o] = None
        BY <2>1 DEF DecidedOnce
    <2>16. DecidedOnce'
        BY <1>2, <2>3, <2>8, <2>13, <2>14, <2>15 DEF DecidedOnce
    <2> QED
        BY <1>2, <2>7, <2>9, <2>12, <2>16 DEF ServiceFrame, TypeOK, Used
<1> QED
    BY <1>4, <1>5

\* The one who finds the order pending decides it.
LEMMA DecidedRead ==
    ASSUME IInv, NEW o \in OrderIds, NEW what \in Deciding, orders[o] # None, orders' = Decided(o, what)
    PROVE  /\ Grows
           /\ \A p \in OrderIds \ {o} : orders'[p] = orders[p]
           /\ ~Decidable(o) => orders' = orders
           /\ Decidable(o) => /\ orders'[o] # None /\ orders'[o].status = Outcome(what)
                              /\ told[o] = None /\ \A j \in Slots : ~Reports(j, o)
<1> USE DEF IInv
<1>1. orders \in [OrderIds -> OrderRows \cup {None}] /\ orders[o] \in OrderRows
    BY DEF TypeOK
<1> DEFINE row == [orders[o] EXCEPT !.status = IF what = "accept" THEN "paid" ELSE "rejected"]
<1>2. /\ row \in OrderRows /\ row.status = Outcome(what)
      /\ row.who = orders[o].who /\ row.amount = orders[o].amount
    BY <1>1 DEF OrderRows, Outcome
<1>3. orders' = IF Decidable(o) THEN [orders EXCEPT ![o] = row] ELSE orders
    BY DEF Decided
<1> HIDE DEF row
<1>4. None # row
    BY <1>2, DeskAssumption
<1>5. /\ ~Decidable(o) => orders' = orders
      /\ Decidable(o) => orders'[o] = row
      /\ \A p \in OrderIds \ {o} : orders'[p] = orders[p]
      /\ orders' \in [OrderIds -> OrderRows \cup {None}]
    BY <1>1, <1>2, <1>3
<1>6. Grows
    BY <1>2, <1>4, <1>5 DEF Grows
<1>7. Decidable(o) => told[o] = None /\ \A j \in Slots : ~Reports(j, o)
    BY DEF Decidable, DecidedOnce, Outcome
<1> QED
    BY <1>2, <1>4, <1>5, <1>6, <1>7

LEMMA DecisionServed ==
    ASSUME IInv, NEW k \in Slots, ServeDecision(k)
    PROVE  ServiceFrame
<1> USE DEF IInv
<1>1. calls[k] \in CallRecords /\ calls[k] # None /\ calls[k].kind \in Deciding /\ CallFits(calls[k])
    BY DEF ServeDecision, Unserved, TypeOK, CallsFit, Deciding
<1>2. PICK o \in OrderIds : o = calls[k].order /\ orders[o] # None
    BY <1>1 DEF CallFits, CallRecords
<1>3. PICK what \in Deciding : what = calls[k].kind
    BY <1>1
<1>4. UNCHANGED <<active, catalogue, credited, kiosk, page, queue, told, used>>
    BY DEF ServeDecision
<1> DEFINE a == Reply(IF Decidable(o) THEN "ok" ELSE "handled")
           d == [calls[k] EXCEPT !.answer = a]
<1>5. a \in Replies /\ a.transfer = None /\ (a.why = "ok" <=> Decidable(o))
    BY ReplyTyped
<1>6. orders' = Decided(o, what) /\ calls' = [calls EXCEPT ![k].answer = a]
    BY <1>2, <1>3 DEF ServeDecision
<1>7. d \in CallRecords /\ d.order = o /\ d.answer = a /\ d.kind = what /\ (d.known => d.who \in Prisoners)
    BY <1>1, <1>2, <1>3, <1>5 DEF CallRecords, CallFits
<1>8. calls' = [calls EXCEPT ![k] = d]
    BY <1>6 DEF TypeOK
<1> HIDE DEF a, d
<1>9. calls' \in CallTable /\ calls'[k] = d /\ \A j \in Slots \ {k} : calls'[j] = calls[j]
    BY <1>7, <1>8 DEF CallTable, TypeOK
<1>10. /\ Grows
       /\ \A p \in OrderIds \ {o} : orders'[p] = orders[p]
       /\ ~Decidable(o) => orders' = orders
       /\ Decidable(o) => /\ orders'[o] # None /\ orders'[o].status = Outcome(what)
                          /\ told[o] = None /\ \A j \in Slots : ~Reports(j, o)
    BY <1>2, <1>6, DecidedRead
<1>11. \A b \in CallRecords : CallFits(b) => CallFits(b)'
    BY <1>4, <1>10, GrowthKeeps
<1>12. CallFits(calls[k])'
    <2>1. orders'[o] # None
        BY <1>2, <1>10 DEF Grows
    <2>2. what \notin Asking /\ o # None
        BY DeskAssumption DEF Asking, Deciding
    <2> QED
        BY <1>5, <1>7, <1>9, <2>1, <2>2 DEF CallFits
<1>13. ASSUME NEW j \in Slots \ {k}, calls[j] # None
       PROVE  CallFits(calls[j])'
    <2>1. calls[j] \in CallRecords /\ CallFits(calls[j]) /\ calls'[j] = calls[j]
        BY <1>9, <1>13 DEF TypeOK, CallsFit
    <2> QED
        BY <1>11, <2>1 DEF CallFits
<1>14. CallsFit'
    BY <1>9, <1>12, <1>13 DEF CallsFit
<1>15. /\ \A j \in Slots, p \in OrderIds : j # k \/ p # o =>
            (Reports(j, p)' => Reports(j, p) /\ j # k /\ calls'[j].kind = calls[j].kind)
       /\ Reports(k, o)' => Decidable(o) /\ calls'[k].kind = what
    BY <1>5, <1>7, <1>9 DEF Reports
<1>16. DecidedOnce'
    <2> SUFFICES ASSUME NEW p \in OrderIds
                 PROVE  DecidedOnce!(p)'
        BY DEF DecidedOnce
    <2>1. CASE p # o
        BY <1>4, <1>10, <1>15, <2>1 DEF DecidedOnce
    <2>2. CASE p = o /\ Decidable(o)
        BY <1>4, <1>10, <1>15, <2>2
    <2>3. CASE p = o /\ ~Decidable(o)
        BY <1>4, <1>10, <1>15, <2>3 DEF DecidedOnce
    <2> QED
        BY <2>1, <2>2, <2>3
<1> QED
    BY <1>4, <1>9, <1>10, <1>14, <1>16 DEF ServiceFrame, TypeOK, Used

LEMMA ElsewhereDecided ==
    ASSUME IInv, NEW o \in OrderIds, NEW what \in Deciding, DecidedElsewhere(o, what)
    PROVE  ServiceFrame
<1> USE DEF IInv
<1>1. /\ orders[o] # None /\ Decidable(o) /\ orders' = Decided(o, what) /\ told' = Told(o, what)
      /\ UNCHANGED <<active, catalogue, credited, kiosk, page, queue, calls, used>>
    BY DEF DecidedElsewhere
<1>2. /\ Grows
      /\ \A p \in OrderIds \ {o} : orders'[p] = orders[p]
      /\ orders'[o] # None /\ orders'[o].status = Outcome(what)
      /\ told[o] = None /\ \A j \in Slots : ~Reports(j, o)
    BY <1>1, DecidedRead
<1>3. told' = [told EXCEPT ![o] = what]
    BY <1>1, <1>2 DEF Told, TypeOK
<1>4. /\ told' \in [OrderIds -> {None, "accept", "reject", "twice"}] /\ told'[o] = what
      /\ \A p \in OrderIds \ {o} : told'[p] = told[p]
    BY <1>3 DEF TypeOK, Deciding
<1>5. \A j \in Slots, p \in OrderIds : Reports(j, p)' <=> Reports(j, p)
    BY <1>1 DEF Reports
<1>6. what # "twice"
    BY DEF Deciding
<1>7. DecidedOnce'
    <2> SUFFICES ASSUME NEW p \in OrderIds
                 PROVE  DecidedOnce!(p)'
        BY DEF DecidedOnce
    <2>1. CASE p # o
        BY <1>1, <1>2, <1>4, <1>5, <2>1 DEF DecidedOnce
    <2>2. CASE p = o
        BY <1>2, <1>4, <1>5, <1>6, <2>2
    <2> QED
        BY <2>1, <2>2
<1>8. CallsFit'
    <2> SUFFICES ASSUME NEW j \in Slots, calls[j] # None
                 PROVE  CallFits(calls[j])'
        BY <1>1 DEF CallsFit
    <2>1. calls[j] \in CallRecords /\ CallFits(calls[j]) /\ calls'[j] = calls[j]
        BY <1>1 DEF TypeOK, CallsFit
    <2>2. \A b \in CallRecords : CallFits(b) => CallFits(b)'
        BY <1>1, <1>2, GrowthKeeps
    <2> QED
        BY <2>1, <2>2 DEF CallFits
<1> QED
    BY <1>1, <1>2, <1>4, <1>7, <1>8 DEF ServiceFrame, TypeOK, CallTable, Used

\* A day passes: an order keeps its owner, its amount and its status.
LEMMA DayPasses ==
    ASSUME IInv, NextDay
    PROVE  ServiceFrame
<1> USE DEF IInv
<1>1. /\ orders' = [o \in OrderIds |-> IF orders[o] = None THEN None ELSE [orders[o] EXCEPT !.past = TRUE]]
      /\ Spend("events", MaxEvents) /\ UNCHANGED <<active, catalogue, credited, kiosk, page, queue, calls, told>>
    BY DEF NextDay
<1>2. \A o \in OrderIds :
        /\ orders[o] = None => orders'[o] = None
        /\ orders[o] # None =>
             /\ orders'[o] \in OrderRows /\ orders'[o] # None /\ orders'[o].who = orders[o].who
             /\ orders'[o].amount = orders[o].amount /\ orders'[o].status = orders[o].status
    <2> SUFFICES ASSUME NEW o \in OrderIds, orders[o] # None
                 PROVE  /\ orders'[o] \in OrderRows /\ orders'[o].who = orders[o].who
                        /\ orders'[o].amount = orders[o].amount /\ orders'[o].status = orders[o].status
        BY <1>1, DeskAssumption
    <2>1. orders[o] \in OrderRows /\ orders'[o] = [orders[o] EXCEPT !.past = TRUE]
        BY <1>1 DEF TypeOK
    <2> QED
        BY <2>1 DEF OrderRows
<1>3. Grows
    <2>1. orders' \in [OrderIds -> OrderRows \cup {None}]
        BY <1>1, <1>2
    <2> QED
        BY <1>2, <2>1 DEF Grows
<1>4. DecidedOnce'
    <2>1. \A j \in Slots, o \in OrderIds : Reports(j, o)' <=> Reports(j, o)
        BY <1>1 DEF Reports
    <2> QED
        BY <1>1, <1>2, <2>1 DEF DecidedOnce
<1>5. CallsFit'
    <2> SUFFICES ASSUME NEW j \in Slots, calls[j] # None
                 PROVE  CallFits(calls[j])'
        BY <1>1 DEF CallsFit
    <2>1. calls[j] \in CallRecords /\ CallFits(calls[j]) /\ calls'[j] = calls[j]
        BY <1>1 DEF TypeOK, CallsFit
    <2>2. \A b \in CallRecords : CallFits(b) => CallFits(b)'
        BY <1>1, <1>3, GrowthKeeps
    <2> QED
        BY <2>1, <2>2 DEF CallFits
<1>6. used' \in Used
    BY <1>1, SpendTyped DEF Used
<1> QED
    BY <1>1, <1>3, <1>4, <1>5, <1>6 DEF ServiceFrame, TypeOK, CallTable, Used

-----------------------------------------------------------------------------
(* The theorems *)

LEMMA InitIInv == Init => IInv
<1> SUFFICES ASSUME Init
             PROVE  IInv
    OBVIOUS
<1>1. \A k \in Slots : calls[k] = None
    BY DEF Init
<1>2. \A o \in OrderIds : orders[o] = None /\ told[o] = None
    BY DEF Init
<1>3. page \in Pages /\ queue \in Queues
    BY DEF Init, EmptyPage, EmptyQueue, NoForm, Pages, Queues, Forms, Anyone
<1>4. kiosk \in Kiosks /\ kiosk.screen = "entry"
    BY EntryTyped DEF Init
<1>5. TypeOK
    BY <1>3, <1>4, DeskAssumption DEF Init, TypeOK
<1>6. RowsOfOrders
    BY DEF Init, EmptyQueue, RowsOfOrders
<1>7. CallsFit /\ TransferOnScreen
    BY <1>1, <1>4 DEF CallsFit, TransferOnScreen
<1>8. DecidedOnce
    BY <1>1, <1>2 DEF DecidedOnce, Reports
<1> QED
    BY <1>5, <1>6, <1>7, <1>8 DEF IInv

LEMMA StepIInv == IInv /\ [Next]_vars => IInv'
<1> SUFFICES ASSUME IInv, [Next]_vars
             PROVE  IInv'
    OBVIOUS
<1> USE DEF IInv
<1> DEFINE Told3 == {None, "accept", "reject", "twice"}
<1>1. UNCHANGED orders /\ UNCHANGED queue => RowsOfOrders'
    BY DEF RowsOfOrders, Row
<1>2. UNCHANGED orders /\ UNCHANGED kiosk => TransferOnScreen'
    BY DEF TransferOnScreen, Transfer
<1>3. KioskFrame => IInv'
    BY <1>1, QuietKeepsDecisions DEF KioskFrame, server, Quiet, TypeOK, CallTable, Used
<1>4. PageFrame => IInv'
    BY <1>1, <1>2, QuietKeepsDecisions DEF PageFrame, server, Quiet, TypeOK, CallTable, Used
<1>5. QueueFrame /\ told' = told => IInv'
    BY <1>2, QuietKeepsDecisions DEF QueueFrame, server, Quiet, TypeOK, CallTable, Used
<1>6. QueueFrame /\ told' \in [OrderIds -> Told3] /\ DecidedOnce' => IInv'
    BY <1>2 DEF QueueFrame, server, Quiet, TypeOK, CallTable, Used
<1>7. PlainFrame => IInv'
    BY <1>1, <1>2, QuietKeepsDecisions DEF PlainFrame, Quiet, TypeOK, CallTable, Used
<1>8. ServiceFrame => IInv'
    BY GrowthKeeps DEF ServiceFrame, TypeOK, CallTable, Grows, Used
<1>9. CASE KioskActions
    BY <1>3, <1>9, KioskSteps
<1>10. CASE PageActions
    BY <1>4, <1>10, PageSteps
<1>11. CASE \/ Tick \/ ReceivePoll \/ PollFails
            \/ \E k \in Slots, o \in OrderIds : Decide(o, "accept", k) \/ Decide(o, "reject", k)
    BY <1>5, <1>11, QueueSteps
<1>12. CASE \E k \in Slots : ReceiveDecision(k)
    BY <1>6, <1>12, DecisionReceived
<1>13. CASE PlainService
    BY <1>7, <1>13, PlainSteps
<1>14. CASE \E k \in Slots : ServeOrder(k) \/ ServeDecision(k)
    BY <1>8, <1>14, OrderServed, DecisionServed
<1>15. CASE \E o \in OrderIds : DecidedElsewhere(o, "accept") \/ DecidedElsewhere(o, "reject")
    BY <1>8, <1>15, ElsewhereDecided DEF Deciding
<1>17. CASE NextDay
    BY <1>8, <1>17, DayPasses
<1>16. CASE UNCHANGED vars
    <2>1. PageFrame
        BY <1>16, StillIsQuiet DEF vars, server, PageFrame, TypeOK, Used
    <2> QED
        BY <1>4, <2>1
<1> QED
    BY <1>9, <1>10, <1>11, <1>12, <1>13, <1>14, <1>15, <1>16, <1>17
       DEF Next, Serve, Receive, KioskActions, PageActions, PlainService

(* The inductive invariant of the front desk: rows and transfers are of the orders they name, and a
   decision is told once or on its way in one answer. *)
THEOREM IInvHolds == Spec => []IInv
BY InitIInv, StepIInv, PTL DEF Spec

(* What the kiosk asks a visitor to transfer is what the order beside it is worth, and a row of a
   cashier's queue is the order it names (placeOrder of the kiosk, onPlaced, listPendingOrders). *)
THEOREM QuotesAreOwed == Spec => []QuotedIsOwed
<1>1. IInv => QuotedIsOwed
    BY DEF IInv, TransferOnScreen, RowsOfOrders, QuotedIsOwed, Transfer
<1> QED
    BY <1>1, IInvHolds, PTL

(* At most one decision on an order is reported as a success, and the order is what it says
   (assertPending, acceptRelativeOrder, rejectRelativeOrder). *)
THEOREM DecisionsAreTrue == Spec => []SettledOnce
<1>1. IInv => SettledOnce
    BY DEF IInv, TypeOK, DecidedOnce, Outcome, SettledOnce
<1> QED
    BY <1>1, IInvHolds, PTL
=============================================================================
