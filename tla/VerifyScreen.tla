---------------------------- MODULE VerifyScreen ----------------------------
(***************************************************************************)
(* The verification page of one operator, and the server it talks to while *)
(* other operators decide sheets too.                                      *)
(*                                                                         *)
(* What the address names (range, route) and what the page shows of it     *)
(* (queue, work) change in steps of their own: every request is sent,      *)
(* served and answered separately, the operator goes on meanwhile, and a   *)
(* React closure acts on what was on the page when it was made.  A sheet   *)
(* comes up when the page is drawn, its draft and its identity follow in   *)
(* the effects of that drawing, and a click may come in between.  A        *)
(* request whose effect was cleaned up has no effect and is taken out of   *)
(* gets; a reload after a retried artifact is never cleaned up.  An        *)
(* operator who is asked about unsaved edits and declines takes no step.   *)
(* What makes a draft or a reason complete is in ScannerReview, what a     *)
(* confirmation does to money in OrdersLedger.                             *)
(***************************************************************************)
EXTENDS Integers, Sequences, FiniteSets

CONSTANTS
    SheetOrder,  \* all sheets, in the order the server lists them
    Users,
    Date,        \* the service date of a sheet
    Ranges,      \* the sets of dates an operator may look at
    Binding,     \* issued, generic or scanner
    Owner,       \* the form's owner, the exact or the best match, or None
    Clean,       \* sheets whose draft needs no edit
    Earlier,     \* the prisoners and dates with an order from before
    None,
    Mode,        \* SCAN_WORKFLOW_MODE
    MaxGestures, \* bound: what the operator does
    MaxFaults    \* bound: requests that fail, answers that get lost, sheets others decide

Sheets == {SheetOrder[i] : i \in 1..Len(SheetOrder)}

Dates == {Date[s] : s \in Sheets}

\* The active scanned order of a prisoner and a date: what a sheet became, or the earlier one.
OrderOf(s) == <<"sheet", s>>

Orders == {OrderOf(s) : s \in Sheets} \cup (Users \X Dates) \cup {None}

QueueItems == [id : Sheets, existing : Orders]

ASSUME ScreenAssumption ==
    /\ SheetOrder \in Seq(Sheets)
    /\ Binding \in [Sheets -> {"issued", "generic", "scanner"}]
    /\ Owner \in [Sheets -> Users \cup {None}]
    /\ \A s \in Sheets : {Date[s]} \in Ranges
    /\ Earlier \subseteq Users \X Dates
    /\ Mode \in {"legacy_omr", "scanner_shadow", "scanner_webhook"}
    /\ None \notin Sheets \cup Users \cup QueueItems \cup {"ok", "terminal", "error"}
    /\ {MaxGestures, MaxFaults} \subseteq Nat

VARIABLES
    status,    \* of every sheet, at the server
    active,    \* the active scanned order of a prisoner and a date
    range, route,
    queue,     \* the sheets the page holds, with the prior order it read for each
    loading,
    work,      \* the draft, the selection, the preview and the reason, and whose they are
    due,       \* what the effects of the last drawing have yet to follow
    ack,       \* the confirmation that waits for the supersede warning
    rejecting, \* whether the reject dialog is open
    saving,    \* which are set: saving, which the buttons look at, and inFlight
    gets,      \* reads on their way
    calls,     \* decisions on their way
    gestures, faults

server == <<status, active>>
view == <<range, route, queue, loading, work, due>>
vars == <<server, view, ack, rejecting, saving, gets, calls, gestures, faults>>

\* ScanWorkflowModeService
Reviewed(s) ==
    CASE Mode = "legacy_omr" -> Binding[s] # "scanner"
      [] Mode = "scanner_webhook" -> Binding[s] = "scanner"
      [] OTHER -> TRUE

ConfirmationEnabled(s) == (Binding[s] = "scanner") = (Mode = "scanner_webhook")

Gesture == gestures < MaxGestures /\ gestures' = gestures + 1

Fault == faults < MaxFaults /\ faults' = faults + 1

-----------------------------------------------------------------------------
(* What the page shows *)

\* The elements of a sequence that are in a set, in their order.
Kept(seq, set) ==
    LET kept[n \in 0..Len(seq)] ==
            IF n = 0 THEN <<>>
            ELSE IF seq[n] \in set THEN Append(kept[n - 1], seq[n]) ELSE kept[n - 1]
    IN  kept[Len(seq)]

Holds(q, s) == \E i \in 1..Len(q) : q[i].id = s

Position(q, s) == CHOOSE i \in 1..Len(q) : q[i].id = s

\* index and current of useVerifyQueue.
Shown(q, r) ==
    CASE r # None /\ Holds(q, r) -> q[Position(q, r)]
      [] r = None /\ q # <<>> -> q[1]
      [] OTHER -> None

Current == Shown(queue, route)

NoWork == [of |-> None, ready |-> FALSE, dirty |-> FALSE, pick |-> None,
           reasoned |-> FALSE, preview |-> None]

\* Passive effects run before the page is drawn again.
InStep == due = {}

\* scannerExactIdentitySelection: a scanner sheet comes up with its exact match selected.
ExactSelection(s) == IF Binding[s] = "scanner" THEN Owner[s] ELSE None

\* The draft, selection, preview and reason of a sheet that comes up.
Fresh(item) ==
    IF item = None THEN NoWork
    ELSE [NoWork EXCEPT !.of = item.id, !.ready = item.id \in Clean, !.pick = ExactSelection(item.id)]

PreviewOf(s, u) == [kind |-> "preview", sheet |-> s, user |-> u, answer |-> None]

QueueOf(r, live) == [kind |-> "queue", range |-> r, live |-> live, answer |-> None]

Previews(s, u) == IF s = None \/ u = None \/ Binding[s] = "issued" THEN {} ELSE {PreviewOf(s, u)}

ReasonRequired == work.pick # Owner[work.of]

IdentityReady(s) ==
    IF Binding[s] = "issued" THEN Owner[s] # None
    ELSE /\ work.of = s /\ work.pick # None /\ work.preview # None
         /\ work.preview.user = work.pick
         /\ ReasonRequired => work.reasoned

\* The prior order on the page: of the queue for an issued sheet, else of the preview.
ExistingOrder ==
    CASE Current = None -> None
      [] Current # None /\ Binding[Current.id] = "issued" -> Current.existing
      [] OTHER -> IF work.of # Current.id \/ work.preview = None THEN None ELSE work.preview.order

\* supersedeResolve && existingOrder
WarningShown == ack # None /\ ExistingOrder # None

\* A modal takes the clicks and switches the shortcuts off; without a draft
\* there is nothing to click.
Clickable == Current # None /\ work.of # None /\ ~rejecting /\ ~WarningShown

\* What is typed or chosen before the effects have run is undone by them.
Free == InStep /\ Clickable

\* With a warning that waits but is not shown the shortcuts stay off and the
\* buttons, which a save disables, do not.
ButtonsOn == ack = None \/ "saving" \notin saving

\* Mutant: what hangs on current hangs on index.
TurnByIndex(q, rg, rt, fresh, ld, rest) ==
    LET new == Shown(q, rt)
        same == /\ ~fresh /\ Current # None /\ new # None
                /\ Position(queue, Current.id) = Position(q, new.id)
    IN  /\ InStep
        /\ queue' = q /\ range' = rg /\ route' = rt /\ loading' = ld /\ gets' = rest
        /\ due' = {"page"} \cup (IF same THEN {} ELSE {"sheet"}) \cup (IF rg = range THEN {} ELSE {"range"})
        /\ UNCHANGED work

\* The page turns to (q, rg, rt) and is drawn with the sheet it now shows.
\* fresh: the sheets are new objects, so even the same sheet comes up anew.
\* ld: whether the page then loads.
Turn(q, rg, rt, fresh, ld, rest) ==
    LET new == Shown(q, rt)
        same == ~fresh /\ (IF new = None THEN work.of = None ELSE work.of = new.id)
    IN  /\ InStep
        /\ queue' = q /\ range' = rg /\ route' = rt /\ loading' = ld /\ gets' = rest
        /\ due' = {"page"} \cup (IF same THEN {} ELSE {"sheet"}) \cup (IF rg = range THEN {} ELSE {"range"})
        /\ UNCHANGED work

\* What hangs on current: its draft and identity anew, the preview of its exact match.
AsksAnew ==
    IF "sheet" \in due /\ Current # None THEN Previews(Current.id, ExactSelection(Current.id)) ELSE {}

\* What hangs on the range: its queue is loaded.
LoadsAnew == IF "range" \in due THEN {QueueOf(range, TRUE)} ELSE {}

\* The effects of the last drawing, after the cleanups of those before.  An
\* address without a sheet moves on to the first.
Effects ==
    /\ ~InStep /\ due' = {}
    /\ work' = IF "sheet" \in due THEN Fresh(Current) ELSE work
    /\ loading' = (loading \/ "range" \in due)
    /\ route' = IF route = None /\ ~loading /\ queue # <<>> THEN queue[1].id ELSE route
    /\ gets' = {g \in gets : /\ g.kind = "preview" => "sheet" \notin due
                             /\ g.kind = "queue" /\ g.live => "range" \notin due}
               \cup LoadsAnew \cup AsksAnew
    /\ UNCHANGED <<server, range, queue, ack, rejecting, saving, calls, gestures, faults>>

-----------------------------------------------------------------------------
(* Reads *)

Listed(r) == Kept(SheetOrder, {s \in Sheets : status[s] = "flagged" /\ Date[s] \in r /\ Reviewed(s)})

\* assembleQueueItem: only an issued sheet comes with its prior order.
QueueItem(s) ==
    [id |-> s, existing |-> IF Binding[s] = "issued" /\ Owner[s] # None
                            THEN active[<<Owner[s], Date[s]>>] ELSE None]

GetQueue(r) == [i \in 1..Len(Listed(r)) |-> QueueItem(Listed(r)[i])]

GetIdentityPreview(s, u) == [sheet |-> s, user |-> u, order |-> active[<<u, Date[s]>>]]

ServeGet(g) ==
    /\ g.answer = None
    /\ gets' = (gets \ {g}) \cup
           {[g EXCEPT !.answer = IF g.kind = "queue" THEN GetQueue(g.range)
                                 ELSE GetIdentityPreview(g.sheet, g.user)]}
    /\ UNCHANGED <<server, view, ack, rejecting, saving, calls, gestures, faults>>

ReceiveQueue(g) ==
    /\ g.kind = "queue"
    /\ \/ g.answer # None /\ Turn(g.answer, range, route, TRUE, FALSE, gets \ {g})
          /\ UNCHANGED faults
       \/ Turn(<<>>, range, route, TRUE, FALSE, gets \ {g}) /\ Fault
    /\ UNCHANGED <<server, ack, rejecting, saving, calls, gestures>>

ReceivePreview(g) ==
    /\ InStep /\ g.kind = "preview"
    /\ \/ g.answer # None /\ work' = [work EXCEPT !.preview = g.answer] /\ UNCHANGED faults
       \/ UNCHANGED work /\ Fault
    /\ gets' = gets \ {g}
    /\ UNCHANGED <<server, range, route, queue, loading, due, ack, rejecting, saving, calls, gestures>>

-----------------------------------------------------------------------------
(* Editing and identity *)

\* setLineCode, setLineQty, addLine, removeLine
EditLine ==
    /\ Free /\ Gesture
    /\ \E ready \in BOOLEAN : work' = [work EXCEPT !.ready = ready, !.dirty = TRUE]
    /\ UNCHANGED <<server, range, route, queue, loading, due, ack, rejecting, saving, gets, calls, faults>>

\* refreshReferenceData: the draft stays, its lines are resolved again.
RefreshReference ==
    /\ Free /\ Gesture
    /\ \E ready \in BOOLEAN : work' = [work EXCEPT !.ready = ready]
    /\ UNCHANGED <<server, range, route, queue, loading, due, ack, rejecting, saving, gets, calls, faults>>

AskPreview(u) ==
    gets' = {g \in gets : g.kind # "preview"} \cup Previews(Current.id, u)

Select(u) ==
    /\ Free /\ Binding[Current.id] # "issued" /\ Gesture
    /\ work' = [work EXCEPT !.pick = u, !.preview = None, !.reasoned = FALSE]
    /\ AskPreview(u)
    /\ UNCHANGED <<server, range, route, queue, loading, due, ack, rejecting, saving, calls, faults>>

RetryPreview ==
    /\ Free /\ work.pick # None /\ work.preview = None /\ Gesture
    /\ AskPreview(work.pick)
    /\ UNCHANGED <<server, view, ack, rejecting, saving, calls, faults>>

WriteReason ==
    /\ Free /\ work.pick # None /\ ReasonRequired /\ ~work.reasoned /\ Gesture
    /\ work' = [work EXCEPT !.reasoned = TRUE]
    /\ UNCHANGED <<server, range, route, queue, loading, due, ack, rejecting, saving, gets, calls, faults>>

-----------------------------------------------------------------------------
(* Moving about *)

\* Previous and next, a new date range.
Navigate ==
    /\ Free /\ Gesture
    /\ \/ \E i \in 1..Len(queue) : /\ i \in {Position(queue, Current.id) - 1, Position(queue, Current.id) + 1}
                                   /\ Turn(queue, range, queue[i].id, FALSE, loading, gets)
       \/ \E r \in Ranges \ {range} : Turn(queue, r, route, FALSE, loading, gets)
    /\ UNCHANGED <<server, ack, rejecting, saving, calls, faults>>

\* The sheet of the address is not in the queue: back to the first one, or on to
\* the date of a sheet that waits elsewhere.
ReturnToQueue ==
    LET elsewhere == status[route] = "flagged" /\ Date[route] \notin range
        first == IF queue = <<>> THEN None ELSE queue[1].id
    IN  /\ InStep /\ route # None /\ Current = None /\ ~loading /\ ~rejecting /\ Gesture
        /\ IF elsewhere THEN Turn(queue, {Date[route]}, route, FALSE, FALSE, gets)
           ELSE Turn(queue, range, first, FALSE, FALSE, gets)
        /\ UNCHANGED <<server, ack, rejecting, saving, calls, faults>>

-----------------------------------------------------------------------------
(* Decisions: what the page captures when one is taken *)

Without(q, s) == Kept(q, {q[i] : i \in {j \in 1..Len(q) : q[j].id # s}})

\* advance: the sheet after the one decided, in the queue as it was.
NextAfter(s) ==
    LET rest == Without(queue, s)
        i == Position(queue, s)
    IN  IF rest = <<>> THEN None
        ELSE rest[IF i <= Len(rest) THEN i ELSE Len(rest)].id

SkipForward(s) == queue[(Position(queue, s) % Len(queue)) + 1].id

Decision(kind, s, next) ==
    [kind |-> kind, sheet |-> s, user |-> None, draftOf |-> work.of, hasty |-> "sheet" \in due,
     shown |-> None, acked |-> FALSE, next |-> next, range |-> range, answer |-> None]

\* The confirmation of the sheet shown, for the owner of its form or the one selected.
Confirmation(s) ==
    IF Binding[s] = "issued"
    THEN [Decision("confirm", s, NextAfter(s)) EXCEPT
             !.user = Owner[s], !.shown = [sheet |-> s, user |-> Owner[s], order |-> Current.existing]]
    ELSE [Decision("confirm", s, NextAfter(s)) EXCEPT !.user = work.pick, !.shown = work.preview]

Post(call) == calls' = calls \cup {call} /\ saving' = {"inFlight", "saving"}

\* The warning, if the page knows of a prior order; else the request.  A click may
\* come before the effects, with the draft there is.
Confirm ==
    /\ Clickable /\ ButtonsOn /\ "inFlight" \notin saving /\ Gesture
    /\ ConfirmationEnabled(Current.id) /\ IdentityReady(Current.id) /\ work.ready
    /\ IF ExistingOrder # None
       THEN ack' = Confirmation(Current.id) /\ UNCHANGED <<calls, saving>>
       ELSE Post(Confirmation(Current.id)) /\ UNCHANGED ack
    /\ UNCHANGED <<server, view, rejecting, gets, faults>>

\* The promise resolves in the closure that asked; saving is not looked at again.
Acknowledge ==
    /\ InStep /\ WarningShown /\ ~rejecting
    /\ Post([ack EXCEPT !.acked = TRUE])
    /\ ack' = None
    /\ UNCHANGED <<server, view, rejecting, gets, gestures, faults>>

DeclineReplacement ==
    /\ InStep /\ WarningShown /\ ~rejecting
    /\ ack' = None
    /\ UNCHANGED <<server, view, rejecting, saving, gets, calls, gestures, faults>>

OpenReject ==
    /\ Free /\ ButtonsOn /\ Gesture
    /\ rejecting' = TRUE
    /\ UNCHANGED <<server, view, ack, saving, gets, calls, faults>>

\* The dialog decides the sheet shown by now and closes when the answer is in: at
\* once, and without one, if there is no sheet or a request is in flight.
Reject ==
    /\ InStep /\ rejecting /\ "saving" \notin saving
    /\ IF Current = None \/ "inFlight" \in saving THEN rejecting' = FALSE /\ UNCHANGED <<calls, saving>>
       ELSE Post(Decision("reject", Current.id, NextAfter(Current.id))) /\ UNCHANGED rejecting
    /\ UNCHANGED <<server, view, ack, gets, gestures, faults>>

CancelReject ==
    /\ InStep /\ rejecting /\ "saving" \notin saving
    /\ rejecting' = FALSE
    /\ UNCHANGED <<server, view, ack, saving, gets, calls, gestures, faults>>

\* Skipping does not set saving: the buttons stay on.
Skip ==
    /\ Free /\ ButtonsOn /\ "inFlight" \notin saving /\ Gesture
    /\ calls' = calls \cup {Decision("skip", Current.id, SkipForward(Current.id))}
    /\ saving' = saving \cup {"inFlight"}
    /\ UNCHANGED <<server, view, ack, rejecting, gets, faults>>

\* Not a decision: saving is left alone, and the reload comes after the answer.
RetryArtifact ==
    /\ Free /\ Binding[Current.id] = "scanner" /\ Gesture
    /\ calls' = calls \cup {Decision("artifact", Current.id, None)}
    /\ UNCHANGED <<server, view, ack, rejecting, saving, gets, faults>>

-----------------------------------------------------------------------------
(* Decisions: the server *)

Order(c) == active[<<c.user, Date[c.sheet]>>]

Answer(c, a) == calls' = (calls \ {c}) \cup {[c EXCEPT !.answer = a]}

\* An answer may get lost on its way: the page sees an error.
Done(c) ==
    \/ Answer(c, "ok") /\ UNCHANGED faults
    \/ Answer(c, "error") /\ Fault

\* Accepted only while the sheet is flagged, and over a prior order only if acknowledged.
Accepted(c) == status[c.sheet] = "flagged" /\ (Order(c) # None => c.acked)

ServeConfirm(c) ==
    /\ c.kind = "confirm" /\ c.answer = None
    /\ \/ /\ Accepted(c)
          /\ status' = [status EXCEPT ![c.sheet] = "confirmed"]
          /\ active' = [active EXCEPT ![<<c.user, Date[c.sheet]>>] = OrderOf(c.sheet)]
          /\ Done(c)
       \/ /\ ~Accepted(c) /\ Answer(c, "error") /\ UNCHANGED <<server, faults>>
       \/ \* the form was voided, consumed or reserved by another scan
          /\ Binding[c.sheet] = "issued" /\ status[c.sheet] = "flagged"
          /\ status' = [status EXCEPT ![c.sheet] = "rejected"]
          /\ Answer(c, "terminal") /\ Fault /\ UNCHANGED active
    /\ UNCHANGED <<view, ack, rejecting, saving, gets, gestures>>

ServeReject(c) ==
    /\ c.kind = "reject" /\ c.answer = None
    /\ IF status[c.sheet] = "flagged"
       THEN status' = [status EXCEPT ![c.sheet] = "rejected"] /\ Done(c)
       ELSE Answer(c, "error") /\ UNCHANGED <<status, faults>>
    /\ UNCHANGED <<active, view, ack, rejecting, saving, gets, gestures>>

ServeOther(c) ==
    /\ c.kind \in {"skip", "artifact"} /\ c.answer = None
    /\ Answer(c, "ok")
    /\ UNCHANGED <<server, view, ack, rejecting, saving, gets, gestures, faults>>

\* The request never arrives, or is refused for funds, limits or a released prisoner.
Fail(c) ==
    /\ c.answer = None /\ Fault
    /\ Answer(c, "error")
    /\ UNCHANGED <<server, view, ack, rejecting, saving, gets, gestures>>

\* Another operator confirms or rejects a sheet.
Rival ==
    /\ Fault
    /\ \E s \in Sheets : /\ status[s] = "flagged" /\ ConfirmationEnabled(s)
          /\ \/ /\ status' = [status EXCEPT ![s] = "confirmed"]
                /\ \E u \in Users : /\ Binding[s] = "issued" => u = Owner[s]
                                    /\ active' = [active EXCEPT ![<<u, Date[s]>>] = OrderOf(s)]
             \/ status' = [status EXCEPT ![s] = "rejected"] /\ UNCHANGED active
    /\ UNCHANGED <<view, ack, rejecting, saving, gets, calls, gestures>>

-----------------------------------------------------------------------------
(* Decisions: the answer *)

\* Mutant: advance takes away the sheet shown when the answer arrives.
AdvanceShown(c) ==
    Turn(IF Current = None THEN queue ELSE Without(queue, Current.id), c.range, c.next, FALSE, loading, gets)

\* advance and onSheetTransition, with the queue, the sheet and the range captured.
Advance(c) == Turn(Without(queue, c.sheet), c.range, c.next, FALSE, loading, gets)

\* Mutant: inFlight is given back only after success.
ReceiveDecisionLocked(c) ==
    /\ InStep /\ c.kind \in {"confirm", "reject"} /\ c.answer # None
    /\ IF c.answer \in {"ok", "terminal"} THEN Advance(c) ELSE UNCHANGED <<view, gets>>
    /\ rejecting' = IF c.kind = "reject" THEN FALSE ELSE rejecting
    /\ saving' = (IF c.answer = "error" THEN saving ELSE {}) /\ calls' = calls \ {c}
    /\ UNCHANGED <<server, ack, gestures, faults>>

ReceiveDecision(c) ==
    /\ InStep /\ c.kind \in {"confirm", "reject"} /\ c.answer # None
    /\ IF c.answer \in {"ok", "terminal"} THEN Advance(c) ELSE UNCHANGED <<view, gets>>
    /\ rejecting' = IF c.kind = "reject" THEN FALSE ELSE rejecting
    /\ saving' = {} /\ calls' = calls \ {c}
    /\ UNCHANGED <<server, ack, gestures, faults>>

\* Skipping is best effort: the page moves on whatever the answer.
ReceiveSkip(c) ==
    /\ c.kind = "skip" /\ c.answer # None
    /\ Turn(queue, c.range, c.next, FALSE, loading, gets)
    /\ saving' = saving \ {"inFlight"} /\ calls' = calls \ {c}
    /\ UNCHANGED <<server, ack, rejecting, gestures, faults>>

\* q.reload of the range the panel was drawn with; nothing ever cancels it.
ReceiveArtifact(c) ==
    /\ InStep /\ c.kind = "artifact" /\ c.answer # None
    /\ IF c.answer = "ok" THEN loading' = TRUE /\ gets' = gets \cup {QueueOf(c.range, FALSE)}
       ELSE UNCHANGED <<loading, gets>>
    /\ calls' = calls \ {c}
    /\ UNCHANGED <<server, range, route, queue, work, due, ack, rejecting, saving, gestures, faults>>

-----------------------------------------------------------------------------
\* The page has just been opened.
Init ==
    /\ status = [s \in Sheets |-> "flagged"]
    /\ active = [k \in Users \X Dates |-> IF k \in Earlier THEN k ELSE None]
    /\ range \in Ranges /\ route = None /\ queue = <<>> /\ loading = TRUE
    /\ work = NoWork /\ due = {} /\ ack = None /\ rejecting = FALSE /\ saving = {}
    /\ gets = {QueueOf(range, TRUE)} /\ calls = {}
    /\ gestures = 0 /\ faults = 0

Operator ==
    EditLine \/ RefreshReference \/ (\E u \in Users : Select(u)) \/ RetryPreview \/ WriteReason
    \/ Navigate \/ ReturnToQueue \/ Confirm \/ Acknowledge \/ DeclineReplacement
    \/ OpenReject \/ Reject \/ CancelReject \/ Skip \/ RetryArtifact

Reads == \E g \in gets : ServeGet(g) \/ ReceiveQueue(g) \/ ReceivePreview(g)

Serves == \E c \in calls : ServeConfirm(c) \/ ServeReject(c) \/ ServeOther(c)

Receives == \E c \in calls : ReceiveDecision(c) \/ ReceiveSkip(c) \/ ReceiveArtifact(c)

Next == Effects \/ Operator \/ Reads \/ Serves \/ Receives \/ (\E c \in calls : Fail(c)) \/ Rival

Spec == Init /\ [][Next]_vars

\* Effects run; requests end, by an answer or by an error; whoever opened a dialog
\* closes it.
FairSpec == Spec /\ WF_vars(Effects) /\ WF_vars(Reads) /\ WF_vars(Serves) /\ WF_vars(Receives)
                 /\ WF_vars(Reject \/ CancelReject)

-----------------------------------------------------------------------------
(* Inductive invariant *)

Statuses == {"flagged", "confirmed", "rejected"}

PreviewRows == [sheet : Sheets, user : Users, order : Orders]

Works ==
    [of : Sheets \cup {None}, ready : BOOLEAN, dirty : BOOLEAN, pick : Users \cup {None},
     reasoned : BOOLEAN, preview : PreviewRows \cup {None}]

QueueGets == [kind : {"queue"}, range : Ranges, live : BOOLEAN, answer : Seq(QueueItems) \cup {None}]

PreviewGets == [kind : {"preview"}, sheet : Sheets, user : Users, answer : PreviewRows \cup {None}]

Decisions ==
    [kind : {"confirm", "reject", "skip", "artifact"}, sheet : Sheets, user : Users \cup {None},
     draftOf : Sheets \cup {None}, hasty : BOOLEAN, shown : PreviewRows \cup {None}, acked : BOOLEAN,
     next : Sheets \cup {None}, range : Ranges, answer : {None, "ok", "terminal", "error"}]

TypeOK ==
    /\ status \in [Sheets -> Statuses] /\ active \in [Users \X Dates -> Orders]
    /\ range \in Ranges /\ route \in Sheets \cup {None} /\ queue \in Seq(QueueItems)
    /\ loading \in BOOLEAN /\ work \in Works /\ due \subseteq {"page", "sheet", "range"} /\ ack \in Decisions \cup {None}
    /\ rejecting \in BOOLEAN /\ saving \subseteq {"inFlight", "saving"}
    /\ gets \subseteq QueueGets \cup PreviewGets /\ calls \subseteq Decisions
    /\ gestures \in Nat /\ faults \in Nat

\* The draft, the selection and the preview belong to the sheet the page shows,
\* unless the effects that see to it have yet to run.
WorkOfCurrent == "sheet" \notin due => work.of = IF Current = None THEN None ELSE Current.id

\* So do the previews still on their way, and each answers what was asked.
PreviewsOfWork ==
    /\ work.preview # None => work.preview.sheet = work.of
    /\ \A g \in gets : g.kind = "preview" => g.sheet = work.of
    /\ \A g \in gets : g.kind = "preview" /\ g.answer # None
                        => g.answer.sheet = g.sheet /\ g.answer.user = g.user

\* A decision the server said to have taken was taken; no decision starts answered.
DecidedWasDecided ==
    /\ ack # None => ack.answer = None
    /\ \A c \in calls : c.kind \in {"confirm", "reject"} /\ c.answer \in {"ok", "terminal"}
                         => status[c.sheet] # "flagged"

-----------------------------------------------------------------------------
(* Properties *)

\* A confirmation names the prisoner whose balance and prior order were on the
\* page for its sheet, and its lines were read from that sheet, however late
\* previews, queues and earlier answers arrive - but for a click on an issued
\* sheet between its drawing and the effect that makes its draft, which takes the
\* lines of the sheet before (current, draft and preview of VerifyPage).
DecisionsCarryTheirSheet ==
    \A c \in (IF ack = None THEN calls ELSE calls \cup {ack}) :
        c.kind = "confirm" => /\ c.shown.sheet = c.sheet /\ c.shown.user = c.user
                              /\ c.draftOf = c.sheet \/ (c.hasty /\ Binding[c.sheet] = "issued")

IInv == TypeOK /\ WorkOfCurrent /\ PreviewsOfWork /\ DecidedWasDecided /\ DecisionsCarryTheirSheet

\* The page itself takes a sheet out of its queue only once the server has
\* decided it; any other disappears only with a queue the server sent (advance).
OnlyDecidedLeave ==
    [][{g \in gets : g.kind = "queue"} \subseteq gets'
         => \A s \in Sheets : Holds(queue, s) /\ ~Holds(queue', s) => status[s] # "flagged"]_vars

\* Whatever fails, no decision leaves the page locked: inFlight and saving are given
\* back and the reject dialog closes (the finally blocks of useVerifyActions).
ActionsEnd == (saving # {} \/ rejecting) ~> (saving = {} /\ ~rejecting)
=============================================================================
