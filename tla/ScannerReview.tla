---------------------------- MODULE ScannerReview ----------------------------
(***************************************************************************)
(* The review of one scanner result: the rules by which the server grades  *)
(* it, the page builds a draft from it and asks for a reason, and the      *)
(* server accepts what the operator sends, while the menu is edited.  The  *)
(* result is one the contract allows, or what ScannerRecognition makes of  *)
(* a page.                                                                 *)
(*                                                                         *)
(* The page works on the menu as it was loaded; the server checks against  *)
(* the menu under its catalogue lock.  A menu item is its code.  What      *)
(* replies do to the page is in VerifyScreen, the receipt and the images   *)
(* are in ScannerWebhook, and balance and limits are in OrdersLedger.      *)
(***************************************************************************)
EXTENDS ScannerRecognition

CONSTANTS
    RowShapes,   \* the rows a result may have
    Pages,       \* the pages the scanner may read
    Identities,  \* how the result names its prisoner
    Junk,        \* a code no menu item has
    MaxRows,     \* bound: rows of a result
    MaxQuantity, \* ConfirmScanDto: the largest quantity (99)
    Quantities,  \* quantities the operator may type
    MaxSteps     \* bound: edits by the operator and of the menu

\* What the recognition backend answers for the crops of a page.
Cells == {"none", "digit", "letter", "blank", "other"}

RowReadings ==
    [blank : {"present", "blank", "uncertain", "no_crop"},
     item : Seq([text : Seq(DOMAIN Unaccented), confidence : 0..100]),
     quantity : Seq([kind : {"digits", "blank", "other"}, n : Nat, confidence : 0..100])]

ASSUME ReviewAssumption ==
    /\ \A row \in RowShapes :
          /\ row.direct \in Items \cup {Nothing} /\ row.itemCandidates \in Seq(Items)
          /\ row.value \in Int \cup {Nothing} /\ \A v \in row.values : v.form \in {"number", "text"}
          /\ {row.itemWarned, row.valueWarned, row.itemSure, row.valueSure} \subseteq BOOLEAN
    /\ Identities \subseteq {"unread", "id", "id_and_room"}
    /\ Quantities \subseteq 1..MaxQuantity
    /\ Pages \subseteq [id : Seq(Cells), room : Seq(Cells), rows : Seq(RowReadings), auto : BOOLEAN, aligned : BOOLEAN]
    /\ Junk \notin Items /\ {MaxRows, MaxSteps, MaxQuantity} \subseteq Nat
    /\ Nothing \notin Nat /\ Nothing \notin {"identity", "scanner_review"}

VARIABLES
    page,     \* the page the scanner read, if it was read here
    result,   \* rows, identity, outcome and the catalogue the scanner used
    menu,     \* which items are active
    seen,     \* the menu the page was loaded with
    lines,    \* the draft
    touched,  \* whether the operator edited it
    pick,     \* the prisoner selected: the exact match, another candidate, or one searched for
    reason,
    order,    \* what was confirmed
    steps

reviewVars == <<page, result, menu, seen, lines, touched, pick, reason, order, steps>>

Menus == [Items -> {"active", "retired"}]

Step == steps < MaxSteps /\ steps' = steps + 1

-----------------------------------------------------------------------------
(* The result, and what evaluateScannerReviewState makes of it *)

Rows(r) == {r.rows[i] : i \in 1..Len(r.rows)}

Active(m, item) == item # Nothing /\ item \in Items /\ m[item] = "active"

\* Mutant: what the scanner offers as alternatives does not count.
RowBlockedByWarnings(m, row) ==
    \/ ~Active(m, row.direct) \/ row.itemWarned
    \/ row.value = Nothing \/ row.value <= 0 \/ row.valueWarned

\* The blockers that start with ITEM_ or QUANTITY_.
RowBlocked(m, row) ==
    \/ ~Active(m, row.direct) \/ row.itemWarned \/ row.itemCandidates # <<>>
    \/ row.value = Nothing \/ row.value <= 0 \/ row.valueWarned \/ row.values # {}

\* scannerCatalogueVersion is a hash of the menu: here the menu itself.
Drift(m, r) == r.catalogue # m

RequiresIdentityReason(r) == r.identity # "id_and_room"

ReviewState(m, r) ==
    CASE r.evidence = "fault" -> "evidence_fault"
      [] r.evidence = "pending" -> "evidence_pending"
      [] /\ r.evidence = "complete"
         /\ \/ r.outcome # "accepted" \/ RequiresIdentityReason(r) \/ r.warned \/ Drift(m, r)
            \/ r.rows = <<>> \/ \E row \in Rows(r) : RowBlocked(m, row) -> "needs_review"
      [] OTHER -> "ready"

-----------------------------------------------------------------------------
(* The page *)

\* resolveCode: a retired item resolves, a code nobody has does not.
Resolved(line) == line.code \in Items

\* The scanner's own item, or else the first candidate.
CodeOf(row) ==
    IF row.direct # Nothing \/ row.itemCandidates = <<>> THEN row.direct ELSE row.itemCandidates[1]

BuildLine(row) ==
    [code |-> CodeOf(row), quantity |-> IF row.value = Nothing THEN 1 ELSE row.value,
     itemDue |-> ~row.itemSure \/ row.itemWarned, quantityDue |-> ~row.valueSure \/ row.valueWarned]

BuildDraft(r) == [i \in 1..Len(r.rows) |-> BuildLine(r.rows[i])]

OrderItems == {[item |-> lines[i].code, quantity |-> lines[i].quantity] :
                   i \in {j \in 1..Len(lines) : Resolved(lines[j])}}

\* Nothing to order, a code that is not on the menu, a field left to look at.
DraftReady ==
    /\ OrderItems # {}
    /\ \A i \in 1..Len(lines) : /\ lines[i].code # Nothing => Resolved(lines[i])
                                /\ ~lines[i].itemDue /\ ~lines[i].quantityDue

\* Mutant: warnings about a quantity are not asked about.
ReasonKindItems ==
    CASE pick # "exact" \/ RequiresIdentityReason(result) -> "identity"
      [] /\ pick = "exact" /\ ~RequiresIdentityReason(result)
         /\ \/ Drift(seen, result)
            \/ \E row \in Rows(result) : ~Active(seen, row.direct) \/ row.itemWarned \/ row.itemCandidates # <<>>
            -> "scanner_review"
      [] OTHER -> Nothing

\* reviewReasonKind, on the menu the queue was made with.
ReasonKind ==
    CASE pick # "exact" \/ RequiresIdentityReason(result) -> "identity"
      [] /\ pick = "exact" /\ ~RequiresIdentityReason(result)
         /\ \/ Drift(seen, result) \/ \E row \in Rows(result) : RowBlocked(seen, row) -> "scanner_review"
      [] OTHER -> Nothing

PageSends == pick # Nothing /\ DraftReady /\ (ReasonKind # Nothing => reason)

\* scannerExactIdentitySelection
FirstPick(r) == IF RequiresIdentityReason(r) THEN Nothing ELSE "exact"

-----------------------------------------------------------------------------
(* The server *)

\* scannerItemIds
ScannedItems(m, r) ==
    {i \in Items : Active(m, i)} \cap UNION {{row.direct} \cup Range(row.itemCandidates) : row \in Rows(r)}

\* The line assertScannerFieldReview takes for a row: dto.items are kept by
\* item, so of two lines of one item the last counts.
Submitted(items, item) ==
    IF \E i \in 1..Len(items) : items[i].item = item
    THEN items[CHOOSE i \in 1..Len(items) : /\ items[i].item = item
                                            /\ \A j \in (i + 1)..Len(items) : items[j].item # item]
    ELSE Nothing

Chosen(m, items, row) ==
    LET offered == Sifted(row.itemCandidates, {c \in Items : Active(m, c) /\ Submitted(items, c) # Nothing})
    IN  CASE Active(m, row.direct) -> Submitted(items, row.direct)
          [] ~Active(m, row.direct) /\ offered # <<>> -> Submitted(items, offered[1])
          [] OTHER -> Nothing

\* allowedQuantities: the candidates that are positive integers, not the ones
\* that only read like one.
AllowedQuantities(row) == {v.n : v \in {w \in row.values : w.form = "number" /\ w.n > 0}}

RowReviewed(m, items, row) ==
    LET line == Chosen(m, items, row)
    IN  /\ row.itemCandidates # <<>>
              => line # Nothing /\ line.item \in Range(row.itemCandidates) /\ Active(m, line.item)
        /\ row.values # {} => line # Nothing /\ line.quantity \in AllowedQuantities(row)

\* What the server wants a reason for.
DoubtfulRow(row) == row.itemCandidates # <<>> \/ row.itemWarned \/ row.valueWarned

NeedsReason(m, r, user) ==
    user # "exact" \/ RequiresIdentityReason(r) \/ Drift(m, r) \/ \E row \in Rows(r) : DoubtfulRow(row)

\* ConfirmScanDto and the checks of confirmScanner before createOrReplace.
Accepts(m, r, user, items, given) ==
    /\ items # <<>>
    /\ \A i \in 1..Len(items) : items[i].quantity \in 1..MaxQuantity
    /\ \A i \in 1..Len(items) : items[i].item \in ScannedItems(m, r)
    /\ \A row \in Rows(r) : RowReviewed(m, items, row)
    /\ NeedsReason(m, r, user) => given

-----------------------------------------------------------------------------
(* Operations *)

Payload == LET sent == Sifted(lines, {line \in Range(lines) : Resolved(line)})
           IN  [i \in 1..Len(sent) |-> [item |-> sent[i].code, quantity |-> sent[i].quantity]]

Edit(i, line) ==
    /\ order = Nothing /\ i \in 1..Len(lines) /\ Step
    /\ lines' = [lines EXCEPT ![i] = line] /\ touched' = TRUE
    /\ UNCHANGED <<page, result, menu, seen, pick, reason, order>>

SetLineCode(i, code) == Edit(i, [lines[i] EXCEPT !.code = code, !.itemDue = FALSE])

SetLineQty(i, quantity) == Edit(i, [lines[i] EXCEPT !.quantity = quantity, !.quantityDue = FALSE])

AddLine ==
    /\ order = Nothing /\ lines # <<>> /\ Len(lines) < MaxRows /\ Step
    /\ lines' = Append(lines, [code |-> Nothing, quantity |-> 1, itemDue |-> FALSE, quantityDue |-> FALSE])
    /\ touched' = TRUE
    /\ UNCHANGED <<page, result, menu, seen, pick, reason, order>>

RemoveLine(i) ==
    /\ order = Nothing /\ Step
    /\ lines' = [j \in 1..(Len(lines) - 1) |-> IF j < i THEN lines[j] ELSE lines[j + 1]]
    /\ touched' = TRUE
    /\ UNCHANGED <<page, result, menu, seen, pick, reason, order>>

\* A candidate of the list or a prisoner found by a search; the exact match is
\* the first of the list, if the identity was read.
SelectIdentity(user) ==
    /\ order = Nothing /\ user # pick /\ Step
    /\ user = "exact" => result.identity # "unread"
    /\ pick' = user /\ reason' = FALSE
    /\ UNCHANGED <<page, result, menu, seen, lines, touched, order>>

GiveReason ==
    /\ order = Nothing /\ pick # Nothing /\ ReasonKind # Nothing /\ ~reason
    /\ reason' = TRUE
    /\ UNCHANGED <<page, result, menu, seen, lines, touched, pick, order, steps>>

\* removeItem or updateItem at the back office.
EditMenu(item) ==
    /\ order = Nothing /\ Step
    /\ menu' = [menu EXCEPT ![item] = IF @ = "active" THEN "retired" ELSE "active"]
    /\ UNCHANGED <<page, result, seen, lines, touched, pick, reason, order>>

\* A new queue: the draft and the selection come up anew.
Reload ==
    /\ order = Nothing /\ seen # menu
    /\ seen' = menu /\ lines' = BuildDraft(result) /\ touched' = FALSE
    /\ pick' = FirstPick(result) /\ reason' = FALSE
    /\ UNCHANGED <<page, result, menu, order, steps>>

\* The page sends, the server accepts; a refusal changes nothing.
ConfirmReview ==
    /\ order = Nothing /\ PageSends
    /\ Accepts(menu, result, pick, Payload, reason)
    /\ order' = [items |-> Payload, user |-> pick, reason |-> reason]
    /\ UNCHANGED <<page, result, menu, seen, lines, touched, pick, reason, steps>>

\* Results as the contract allows them.
Results ==
    {r \in [rows : UNION {[1..n -> RowShapes] : n \in 0..MaxRows}, identity : Identities, warned : BOOLEAN,
           outcome : {"accepted", "needs_review"}, evidence : {"complete", "pending", "fault"},
           catalogue : Menus] :
        r.outcome = "accepted" =>
            /\ ~r.warned /\ r.identity # "unread"
            /\ \A row \in Rows(r) : row.direct # Nothing /\ row.value # Nothing /\ row.value > 0}

\* The confidence below which the page asks the operator to look at a field.
LowConfidence == 80

\* A row of the scanner as it reaches the review.
ScannedRow(item) ==
    [direct |-> item.item.value, itemCandidates |-> item.item.candidates, itemWarned |-> item.item.warned,
     value |-> item.quantity.value, values |-> Range(item.quantity.candidates), valueWarned |-> item.quantity.warned,
     itemSure |-> item.item.confidence >= LowConfidence, valueSure |-> item.quantity.confidence >= LowConfidence]

\* What the scanner sends of a page; whether the prisoner is known, and lives in
\* the room, is the manager's to say.
ScannedResults(p) ==
    LET r == Processed(p)
    IN  [rows : {[i \in 1..Len(r.items) |-> ScannedRow(r.items[i])]},
         identity : IF r.id.value = Nothing THEN {"unread"}
                    ELSE IF r.room.value = Nothing THEN {"unread", "id"} ELSE Identities,
         warned : {r.warned}, outcome : {r.outcome}, evidence : {"complete"},
         catalogue : {[i \in Items |-> "active"]}]

ReviewInit ==
    /\ \/ page = Nothing /\ result \in Results
       \/ page \in Pages /\ result \in ScannedResults(page)
    /\ menu \in {[i \in Items |-> "active"], result.catalogue} /\ seen = menu
    /\ lines = BuildDraft(result) /\ touched = FALSE
    /\ pick = FirstPick(result) /\ reason = FALSE /\ order = Nothing /\ steps = 0

ReviewNext ==
    \/ \E i \in 1..Len(lines) : \/ \E code \in Items \cup {Nothing, Junk} : SetLineCode(i, code)
                                \/ \E q \in Quantities : SetLineQty(i, q)
                                \/ RemoveLine(i)
    \/ AddLine
    \/ \E user \in {"exact", "other"} : SelectIdentity(user)
    \/ GiveReason
    \/ \E item \in Items : EditMenu(item)
    \/ Reload \/ ConfirmReview

ReviewSpec == ReviewInit /\ [][ReviewNext]_reviewVars

-----------------------------------------------------------------------------
(* Properties *)

\* As long as the menu is the one the page was loaded with, the page asks for a
\* reason whenever the server will refuse without one: an operator is never left
\* with a refusal the page gives no field to answer (reviewReasonKind against
\* confirmScanner and assertScannerFieldReview, written apart).
ReasonAskedWhenNeeded ==
    seen = menu /\ pick # Nothing /\ NeedsReason(menu, result, pick) => ReasonKind # Nothing

\* A result graded ready is one the server accepts as it stands, without a word
\* from the operator, unless a quantity exceeds what ConfirmScanDto takes.
ReadyIsConfirmable ==
    /\ ReviewState(menu, result) = "ready" /\ seen = menu /\ ~touched /\ order = Nothing
    /\ \A row \in Rows(result) : row.value <= MaxQuantity
    => Accepts(menu, result, "exact", Payload, FALSE)

\* What validate_page passes as accepted, the contract of a result passes too:
\* the rules of validation.py and contracts.py are written apart, and a page on
\* which they differ could never be delivered.
ResultsDeliverable == page # Nothing => KeepsContract(Processed(page))

\* An item the scanner settles on is the only one that could be meant: some name
\* of it is as near to a reading as the policy wants, and no name of another
\* item, offered as a candidate or not, comes nearer than the margin.
NoRivalInReach ==
    page # Nothing =>
        \A k \in 1..Len(page.rows) :
            LET read == Truncated(page.rows[k].item, CandidateLimit)
                chosen == RecognizeItem(page.rows[k].item, TRUE).value
            IN  chosen # Nothing =>
                    /\ Score(read, chosen) >= MinimumScore
                    /\ \A rival \in DOMAIN Catalogue \ {chosen} :
                          Score(read, chosen) - Score(read, rival) >= MinimumMargin

\* What the scanner says of a page is well formed, and an item it names is the one meant.
RecognitionSound == ResultsDeliverable /\ NoRivalInReach
-----------------------------------------------------------------------------
(* Inductive invariant *)

\* The result under review stays a result, of a page the scanner may read.
ResultTypeOK ==
    /\ page \in Pages \cup {Nothing}
    /\ result.rows \in Seq(Rows(result)) /\ \A row \in Rows(result) : row.value \in Int \cup {Nothing}
    /\ result.evidence \in {"complete", "pending", "fault"}

\* A draft nobody edited is the one the page built from the result.
DraftAsBuilt == ~touched => lines = BuildDraft(result)

\* Inductive: what the properties rest on.
ReviewInvariant == ResultTypeOK /\ DraftAsBuilt
=============================================================================
