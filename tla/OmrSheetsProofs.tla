-------------------------- MODULE OmrSheetsProofs --------------------------
(***************************************************************************)
(* Proofs about OmrSheets, for any sheets, forms, templates, prisoners,    *)
(* retention and faults.                                                   *)
(***************************************************************************)
EXTENDS OmrSheets, FiniteSetTheorems, SequenceTheorems, TLAPS

-----------------------------------------------------------------------------
(* Types *)

\* A rejected row is a row of the sheets table, without an order.
LEMMA RejectedRow ==
    ASSUME NEW row \in SheetRows, day \in Nat
    PROVE  /\ Rejected(row) \in SheetRows /\ Rejected(row).status = "rejected"
           /\ ~Rejected(row).order /\ Rejected(row).form = row.form
BY DEF Rejected, SheetRows

\* So is what a failed attempt leaves: a sheet to be tried again, or rejected.
LEMMA AfterErrorRow ==
    ASSUME NEW row \in SheetRows, day \in Nat
    PROVE  /\ AfterError(row) \in SheetRows /\ AfterError(row).form = row.form
           /\ AfterError(row).status \in {"pending", "rejected"}
           /\ ~row.order => ~AfterError(row).order
<1>1. [row EXCEPT !.attempts = @ + 1] \in SheetRows
      /\ [row EXCEPT !.attempts = @ + 1].form = row.form
  <2>1. row.attempts + 1 \in Nat
      BY DEF SheetRows
  <2> QED
      BY <2>1 DEF SheetRows
<1>2. CASE row.attempts + 1 >= MaxAttempts
  <2>1. AfterError(row) = Rejected([row EXCEPT !.attempts = @ + 1])
      BY <1>2 DEF AfterError
  <2> QED
      BY <1>1, <2>1, RejectedRow
<1>3. CASE ~(row.attempts + 1 >= MaxAttempts)
  <2>1. AfterError(row) = [row EXCEPT !.attempts = @ + 1, !.status = "pending",
                                      !.processed = None, !.due = FALSE]
      BY <1>3 DEF AfterError
  <2>2. row.attempts + 1 \in Nat
      BY DEF SheetRows
  <2> QED
      BY <2>1, <2>2 DEF SheetRows
<1> QED
    BY <1>2, <1>3

\* And a purged one.
LEMMA PurgedRow ==
    ASSUME NEW row \in SheetRows
    PROVE  /\ Purged(row) \in SheetRows /\ Purged(row).form = row.form
           /\ Purged(row).order = row.order
           /\ Purged(row).status = IF row.status = "flagged" THEN "rejected" ELSE row.status
BY DEF Purged, SheetRows

\* The empty rows.
LEMMA EmptyRows ==
    NoSheet \in SheetRows /\ NoForm \in FormRows
BY DEF NoSheet, SheetRows, NoForm, FormRows

\* A listing of sheets can be queued.
LEMMA ListingsAreQueues ==
    ASSUME NEW S \in SUBSET Sheets, NEW q \in Listings(S)
    PROVE  q \in Seq(Sheets)
<1>1. Cardinality(S) \in Nat
    BY FS_Subset, FS_CardinalityType, OmrAssumption
<1>2. q \in [1..Cardinality(S) -> Sheets]
    BY DEF Listings
<1> QED
    BY <1>1, <1>2, SeqDef

\* The processor's memory: a new one, or an old one that goes on.
ProcOK(p) ==
    /\ p = Holding(p.pc, p.sheet, p.row, p.found)
    /\ p.pc \in {"idle", "loaded", "marked", "recognised", "conflict"}
    /\ p.sheet \in Sheets \cup {None} /\ p.row \in SheetRows
    /\ DOMAIN p.found \subseteq Sheets /\ p.found \in [DOMAIN p.found -> SheetRows]

\* A processor in any phase holds a sheet, a row and what it found.
LEMMA HoldingOK ==
    ASSUME NEW pc \in {"idle", "loaded", "marked", "recognised", "conflict"},
           NEW s \in Sheets \cup {None}, NEW row \in SheetRows,
           NEW D \in SUBSET Sheets, NEW found \in [D -> SheetRows]
    PROVE  /\ ProcOK(Holding(pc, s, row, found))
           /\ Holding(pc, s, row, found).pc = pc /\ Holding(pc, s, row, found).sheet = s
           /\ Holding(pc, s, row, found).row = row /\ Holding(pc, s, row, found).found = found
BY DEF ProcOK, Holding

LEMMA NoneFoundOK == NoneFound \in [{} -> SheetRows] /\ {} \in SUBSET Sheets
BY DEF NoneFound

\* An idle processor holds nothing.
LEMMA IdleOK == ProcOK(Idle) /\ Idle.pc = "idle"
<1>1. /\ ProcOK(Holding("idle", None, NoSheet, NoneFound))
      /\ Holding("idle", None, NoSheet, NoneFound).pc = "idle"
  <2>1. NoneFound \in [{} -> SheetRows] /\ DOMAIN NoneFound = {} /\ NoSheet \in SheetRows
      BY NoneFoundOK, EmptyRows
  <2> QED
      BY <2>1 DEF ProcOK, Holding
<1> QED
    BY <1>1 DEF Idle

\* A row that is being processed.
LEMMA ProcessingRow ==
    ASSUME NEW row \in SheetRows
    PROVE  /\ [row EXCEPT !.status = "processing"] \in SheetRows
           /\ [row EXCEPT !.status = "processing"].status = "processing"
           /\ [row EXCEPT !.status = "processing"].form = row.form
           /\ [row EXCEPT !.status = "processing"].paper = row.paper
           /\ [row EXCEPT !.status = "processing"].order = row.order
BY DEF SheetRows

\* One row of the table is written.
LEMMA RowWritten ==
    ASSUME sheet \in [Sheets -> SheetRows], NEW s \in Sheets, NEW row \in SheetRows,
           sheet' = [sheet EXCEPT ![s] = row]
    PROVE  /\ sheet' \in [Sheets -> SheetRows] /\ sheet'[s] = row
           /\ \A c \in Sheets \ {s} : sheet'[c] = sheet[c]
OBVIOUS

-----------------------------------------------------------------------------
(* What a step does to the rows *)

\* What every step that makes no order does to a sheet.
SheetMoves(s) ==
    /\ sheet'[s].status = "verified" <=> sheet[s].status = "verified"
    /\ sheet'[s].order <=> sheet'[s].status = "verified"
    /\ sheet[s].status = "verified" => sheet'[s].form = sheet[s].form
    /\ sheet[s].status = "rejected" => sheet'[s].status = "rejected"
    /\ sheet'[s].status \in {"absent"} \cup Unprocessed => sheet'[s].form = None
    /\ sheet'[s].form = sheet[s].form
       \/ (sheet'[s].form \in Forms /\ form[sheet'[s].form].reason # "conflict")

\* What every such step does to a form, but for the one that finds a conflict.
FormMoves(f) ==
    /\ form'[f].status = "consumed" <=> form[f].status = "consumed"
    /\ form[f].status = "consumed" => form'[f] = form[f]

\* What is decided stays.
Stays ==
    \A s \in Sheets : sheet[s].status \in {"verified", "rejected"} =>
        sheet'[s].status = sheet[s].status /\ sheet'[s].order = sheet[s].order

\* Order, sheet and form stay in step when no order is made.
LEMMA OrdersKept ==
    ASSUME TypeOK, OrdersSound, orders' = orders, \A s \in Sheets : SheetMoves(s),
           \A f \in Forms : FormMoves(f)
    PROVE  OrdersSound'
<1>1. \A i \in DOMAIN orders :
          /\ orders[i].sheet \in Sheets /\ orders[i].form \in Forms \cup {None}
          /\ orders[i] \in OrderRows
  <2>1. orders \in Seq(OrderRows)
      BY DEF TypeOK
  <2>2. \A i \in DOMAIN orders : orders[i] \in OrderRows
      BY <2>1
  <2> QED
      BY <2>2 DEF OrderRows
<1>2. None \notin Forms
    BY OmrAssumption
<1>3. ASSUME NEW i \in DOMAIN orders
      PROVE  /\ sheet[orders[i].sheet].status = "verified" /\ sheet[orders[i].sheet].order
             /\ sheet[orders[i].sheet].form = orders[i].form
             /\ orders[i].form # None =>
                   /\ orders[i].form \in Forms /\ form[orders[i].form].status = "consumed"
                   /\ form[orders[i].form].consumed = orders[i].sheet
                   /\ form[orders[i].form].reserved = orders[i].sheet
    BY <1>1, <1>3 DEF OrdersSound, OrdersBacked
<1>4. PaysOnce'
  <2>1. ASSUME NEW i \in DOMAIN orders
        PROVE  orders[i].form # None => orders[i].user = form'[orders[i].form].user
    <3>1. orders[i].form # None => orders[i].user = form[orders[i].form].user
        BY <2>1 DEF OrdersSound, PaysOnce
    <3> QED
        BY <2>1, <3>1, <1>3 DEF FormMoves
  <2>2. ASSUME NEW i \in DOMAIN orders, NEW j \in DOMAIN orders \ {i}
        PROVE  /\ orders[i].sheet # orders[j].sheet
               /\ orders[i].form # None => orders[i].form # orders[j].form
      BY <2>2 DEF OrdersSound, PaysOnce
  <2> QED
      BY <2>1, <2>2 DEF PaysOnce
<1>5. OrdersBacked'
  <2>1. ASSUME NEW i \in DOMAIN orders
        PROVE  /\ sheet'[orders[i].sheet].status = "verified" /\ sheet'[orders[i].sheet].order
               /\ sheet'[orders[i].sheet].form = orders[i].form
      BY <2>1, <1>1, <1>3 DEF SheetMoves
  <2>2. ASSUME NEW i \in DOMAIN orders, orders[i].form # None
        PROVE  /\ form'[orders[i].form].status = "consumed"
               /\ form'[orders[i].form].consumed = orders[i].sheet
               /\ form'[orders[i].form].reserved = orders[i].sheet
      BY <2>2, <1>3 DEF FormMoves
  <2>3. \A s \in Sheets : sheet'[s].status = "verified" =>
            \E i \in DOMAIN orders : orders[i].sheet = s
      BY DEF OrdersSound, OrdersBacked, SheetMoves
  <2>4. \A f \in Forms : form'[f].status = "consumed" =>
            \E i \in DOMAIN orders : orders[i].form = f
      BY DEF OrdersSound, OrdersBacked, FormMoves
  <2> QED
      BY <2>1, <2>2, <2>3, <2>4 DEF OrdersBacked
<1> QED
    BY <1>4, <1>5 DEF OrdersSound

\* A form in conflict stays so, and gets no new sheet.
LEMMA ConflictKept ==
    ASSUME TypeOK, ConflictStopsForm, ConflictVoids, \A s \in Sheets : SheetMoves(s),
           \A f \in Forms : form'[f].reason = "conflict" =>
                form[f].reason = "conflict" /\ form'[f].status = "void"
    PROVE  ConflictStopsForm' /\ ConflictVoids'
<1>1. ConflictVoids'
    BY DEF ConflictVoids
<1>2. ASSUME NEW f \in Forms, form'[f].reason = "conflict", NEW s \in Sheets,
             sheet'[s].form = f
      PROVE  sheet'[s].status = "rejected"
  <2>1. sheet[s].form = f
      BY <1>2 DEF SheetMoves
  <2> QED
      BY <1>2, <2>1 DEF ConflictStopsForm, SheetMoves
<1> QED
    BY <1>1, <1>2 DEF ConflictStopsForm

\* No form becomes valid.
LEMMA ValidKept ==
    ASSUME OneValidForm,
           \A f \in Forms : form'[f].status = "issued" =>
                /\ form[f].status = "issued" /\ form'[f].user = form[f].user
                /\ form'[f].date = form[f].date
    PROVE  OneValidForm'
BY DEF OneValidForm

\* The sheets stay in order, and the decided ones decided.
LEMMA SheetsKept ==
    ASSUME TypeOK, TypeOK', SheetsInOrder, \A s \in Sheets : SheetMoves(s)
    PROVE  SheetsInOrder' /\ Stays
<1>1. SheetsInOrder'
    BY DEF SheetsInOrder, SheetMoves
<1>2. ASSUME NEW s \in Sheets, sheet[s].status \in {"verified", "rejected"}
      PROVE  sheet'[s].status = sheet[s].status /\ sheet'[s].order = sheet[s].order
  <2>1. sheet[s].order \in BOOLEAN /\ sheet'[s].order \in BOOLEAN
      BY DEF TypeOK, SheetRows
  <2>2. /\ sheet'[s].status = sheet[s].status
        /\ sheet'[s].order <=> sheet[s].order
      BY <1>2 DEF SheetsInOrder, SheetMoves
  <2> QED
      BY <2>1, <2>2
<1> QED
    BY <1>1, <1>2 DEF Stays

\* What a step proves about everything but types and the processor.
Sound == SheetsInOrder /\ ConflictVoids /\ OrdersSound /\ FormsSound

\* A step that touches neither forms nor orders.
LEMMA SheetsStep ==
    ASSUME TypeOK, TypeOK', Sound, form' = form, orders' = orders, \A s \in Sheets : SheetMoves(s)
    PROVE  Sound' /\ Stays
<1>1. \A f \in Forms : FormMoves(f)
    BY DEF FormMoves
<1>2. OrdersSound'
    BY <1>1, OrdersKept DEF Sound
<1>3. ConflictStopsForm' /\ ConflictVoids'
    BY ConflictKept DEF Sound, FormsSound, ConflictVoids
<1>4. OneValidForm'
    BY ValidKept DEF Sound, FormsSound
<1>5. SheetsInOrder' /\ Stays
    BY SheetsKept DEF Sound
<1> QED
    BY <1>2, <1>3, <1>4, <1>5 DEF Sound, FormsSound

\* A step that touches no sheet either.
LEMMA SameSheets ==
    ASSUME TypeOK, Sound, sheet' = sheet
    PROVE  \A s \in Sheets : SheetMoves(s)
BY DEF Sound, SheetsInOrder, SheetMoves

\* A step that writes one row.
LEMMA OneSheet ==
    ASSUME TypeOK, Sound, NEW s \in Sheets, NEW row \in SheetRows,
           sheet' = [sheet EXCEPT ![s] = row],
           row.status = "verified" <=> sheet[s].status = "verified",
           row.order <=> row.status = "verified",
           sheet[s].status = "rejected" => row.status = "rejected",
           row.status \in {"absent"} \cup Unprocessed => row.form = None,
           \/ row.form = sheet[s].form
           \/ /\ row.form \in Forms /\ form[row.form].reason # "conflict"
              /\ sheet[s].status # "verified"
    PROVE  \A c \in Sheets : SheetMoves(c)
<1>1. /\ sheet'[s] = row
      /\ \A c \in Sheets \ {s} : sheet'[c] = sheet[c]
    BY RowWritten DEF TypeOK
<1>2. SheetMoves(s)
    BY <1>1 DEF SheetMoves
<1>3. ASSUME NEW c \in Sheets \ {s}
      PROVE  SheetMoves(c)
  <2>1. sheet'[c] = sheet[c]
      BY <1>1
  <2> QED
      BY <2>1 DEF Sound, SheetsInOrder, SheetMoves
<1> QED
    BY <1>2, <1>3

\* A processor that others leave alone goes on holding its sheet.
LEMMA ProcStays ==
    ASSUME ProcessorHolds, proc' = proc,
           proc.pc # "idle" => sheet'[proc.sheet].status \in Unprocessed,
           proc.pc = "conflict" =>
               /\ form'[proc.row.paper].status = "issued"
               /\ \A c \in Sheets : sheet'[c].form = proc.row.paper
                                      <=> sheet[c].form = proc.row.paper
    PROVE  ProcessorHolds'
<1>1. CASE proc.pc = "conflict"
  <2>1. {c \in Sheets : sheet'[c].form = proc.row.paper}
          = {c \in Sheets : sheet[c].form = proc.row.paper}
      BY <1>1
  <2> QED
      BY <1>1, <2>1 DEF ProcessorHolds
<1>2. CASE proc.pc # "conflict"
    BY <1>2 DEF ProcessorHolds
<1> QED
    BY <1>1, <1>2

-----------------------------------------------------------------------------
(* Types are kept *)

\* TypeOK, with the processor's part named.
LEMMA TypeParts ==
    TypeOK <=> /\ server \in [up: BOOLEAN, mode: Modes] /\ queue \in Seq(Sheets)
               /\ ProcOK(proc)
               /\ sheet \in [Sheets -> SheetRows] /\ form \in [Forms -> FormRows]
               /\ template \in [Templates -> {"absent", "active", "retired"}]
               /\ active \in [Users -> BOOLEAN] /\ files \subseteq Sheets
               /\ orders \in Seq(OrderRows) /\ day \in Nat /\ stranded \subseteq Sheets
               /\ faults \in Nat
BY DEF TypeOK, ProcOK

LEMMA FaultType ==
    ASSUME faults \in Nat, Fault
    PROVE  faults' \in Nat
BY DEF Fault

\* The rows of sheets and forms, and what the processor holds.
RowsOK == ProcOK(proc) /\ sheet \in [Sheets -> SheetRows] /\ form \in [Forms -> FormRows]

\* The steps of the processor keep the types.
LEMMA ProcessorTypes ==
    ASSUME TypeOK, ProcessorHolds, Processor
    PROVE  TypeOK'
<1>1. /\ RowsOK /\ queue \in Seq(Sheets) /\ day \in Nat
    BY TypeParts DEF RowsOK
<1>2. /\ NoneFound \in [{} -> SheetRows] /\ {} \in SUBSET Sheets
    BY NoneFoundOK
<1>3. proc.pc # "idle" => proc.sheet \in Sheets /\ proc.row \in SheetRows
    BY <1>1 DEF ProcessorHolds, RowsOK, ProcOK
<1>4. ASSUME Load
      PROVE  queue' \in Seq(Sheets) /\ ProcOK(proc')
  <2>1. queue' \in Seq(Sheets) /\ Head(queue) \in Sheets
      BY <1>1, <1>4 DEF Load
  <2>2. CASE proc' = Idle
      BY <2>1, <2>2, IdleOK
  <2>3. CASE proc' = Holding("loaded", Head(queue), sheet[Head(queue)], NoneFound)
    <3>1. sheet[Head(queue)] \in SheetRows
        BY <2>1, <1>1 DEF RowsOK
    <3> QED
        BY <2>1, <2>3, <3>1, <1>2, HoldingOK
  <2> QED
      BY <2>1, <2>2, <2>3, <1>4 DEF Load
<1>5. ASSUME MarkProcessing
      PROVE  RowsOK'
  <2>1. proc.sheet \in Sheets /\ proc.row \in SheetRows
      BY <1>3, <1>5 DEF MarkProcessing
  <2>2. [proc.row EXCEPT !.status = "processing"] \in SheetRows
      BY <2>1, ProcessingRow
  <2>3. ProcOK(Holding("marked", proc.sheet, [proc.row EXCEPT !.status = "processing"], NoneFound))
      BY <2>1, <2>2, <1>2, HoldingOK
  <2>4. sheet' \in [Sheets -> SheetRows]
      BY <2>1, <2>2, <1>1, <1>5, RowWritten DEF MarkProcessing, Save, RowsOK
  <2> QED
      BY <1>1, <1>5, <2>3, <2>4 DEF RowsOK, MarkProcessing
<1>6. ASSUME Recognise
      PROVE  RowsOK'
  <2>1. proc.sheet \in Sheets /\ proc.row \in SheetRows
      BY <1>3, <1>6 DEF Recognise
  <2>2. ProcOK(Holding("recognised", proc.sheet, proc.row, NoneFound)) /\ ProcOK(Idle)
      BY <2>1, <1>2, HoldingOK, IdleOK
  <2>3. Rejected(proc.row) \in SheetRows /\ AfterError(proc.row) \in SheetRows
      BY <2>1, <1>1, RejectedRow, AfterErrorRow
  <2>4. ProcOK(proc')
      BY <1>6, <2>2 DEF Recognise
  <2>5. CASE sheet' = sheet
      BY <2>4, <2>5, <1>1, <1>6 DEF RowsOK, Recognise
  <2>6. CASE \E row \in SheetRows : sheet' = [sheet EXCEPT ![proc.sheet] = row]
    <3>1. sheet' \in [Sheets -> SheetRows]
        BY <2>6, <2>1, <1>1, RowWritten DEF RowsOK
    <3> QED
        BY <2>4, <3>1, <1>1, <1>6 DEF RowsOK, Recognise
  <2>7. sheet' = sheet \/ \E row \in SheetRows : sheet' = [sheet EXCEPT ![proc.sheet] = row]
      BY <1>6, <2>3 DEF Recognise, Save
  <2> QED
      BY <2>5, <2>6, <2>7
<1>7. ASSUME ResolveGeneric
      PROVE  RowsOK'
  <2>1. proc.sheet \in Sheets /\ sheet[proc.sheet] \in SheetRows /\ proc.row.paper \in Templates
      BY <1>1, <1>3, <1>7 DEF ResolveGeneric, RowsOK
  <2>2. /\ Rejected(sheet[proc.sheet]) \in SheetRows
        /\ [sheet[proc.sheet] EXCEPT !.status = "flagged", !.template = proc.row.paper,
                 !.order = FALSE, !.processed = day, !.due = TRUE] \in SheetRows
      BY <2>1, <1>1, RejectedRow DEF SheetRows
  <2>3. \E row \in SheetRows : sheet' = [sheet EXCEPT ![proc.sheet] = row]
      BY <1>7, <2>1, <2>2 DEF ResolveGeneric
  <2>4. sheet' \in [Sheets -> SheetRows]
      BY <2>1, <2>3, <1>1, RowWritten DEF RowsOK
  <2> QED
      BY <2>4, <1>1, <1>7, IdleOK DEF RowsOK, ResolveGeneric
<1>8. ASSUME ResolveIssued
      PROVE  RowsOK'
  <2>1. /\ proc.sheet \in Sheets /\ sheet[proc.sheet] \in SheetRows /\ proc.row.paper \in Forms
        /\ proc.row \in SheetRows /\ form[proc.row.paper] \in FormRows
      BY <1>1, <1>3, <1>8 DEF ResolveIssued, RowsOK
  <2>2. CASE /\ sheet' = [sheet EXCEPT ![proc.sheet] = Rejected(@)]
             /\ proc' = Idle /\ form' = form
    <3>1. Rejected(sheet[proc.sheet]) \in SheetRows
        BY <2>1, <1>1, RejectedRow
    <3>2. sheet' \in [Sheets -> SheetRows]
        BY <2>1, <2>2, <3>1, <1>1, RowWritten DEF RowsOK
    <3> QED
        BY <3>2, <2>2, <1>1, IdleOK DEF RowsOK
  <2>3. CASE \E D \in SUBSET Sheets :
                /\ proc' = Holding("conflict", proc.sheet, proc.row, [c \in D |-> sheet[c]])
                /\ sheet' = sheet /\ form' = form
    <3>1. PICK D \in SUBSET Sheets :
                /\ proc' = Holding("conflict", proc.sheet, proc.row, [c \in D |-> sheet[c]])
                /\ sheet' = sheet /\ form' = form
        BY <2>3
    <3>2. [c \in D |-> sheet[c]] \in [D -> SheetRows]
        BY <1>1 DEF RowsOK
    <3>3. ProcOK(proc')
        BY <2>1, <3>1, <3>2, HoldingOK
    <3> QED
        BY <3>1, <3>3, <1>1 DEF RowsOK
  <2>4. CASE /\ form' = [form EXCEPT ![proc.row.paper].reserved = proc.sheet]
             /\ sheet' = [sheet EXCEPT ![proc.sheet].status = "flagged",
                                       ![proc.sheet].form = proc.row.paper,
                                       ![proc.sheet].processed = day, ![proc.sheet].due = TRUE]
             /\ proc' = Idle
    <3>1. form' \in [Forms -> FormRows]
        BY <2>1, <2>4, <1>1 DEF RowsOK, FormRows
    <3>2. sheet' \in [Sheets -> SheetRows]
        BY <2>1, <2>4, <1>1, ZenonT(30) DEF RowsOK, SheetRows
    <3> QED
        BY <3>1, <3>2, <2>4, <1>1, IdleOK DEF RowsOK
  <2>5. {c \in Sheets : sheet[c].form = proc.row.paper} \cup {proc.sheet} \in SUBSET Sheets
      BY <2>1
  <2> QED
      BY <1>8, <2>2, <2>3, <2>4, <2>5 DEF ResolveIssued
<1>9. ASSUME RejectConflict
      PROVE  RowsOK'
  <2>1. /\ proc.sheet \in Sheets /\ proc.row.paper \in Forms
        /\ form[proc.row.paper] \in FormRows
      BY <1>1, <1>3, <1>9 DEF RejectConflict, RowsOK, ProcessorHolds
  <2>2. ASSUME NEW c \in Sheets, c \in DOMAIN proc.found
        PROVE  Rejected([proc.found[c] EXCEPT !.form = proc.row.paper]) \in SheetRows
    <3>1. proc.found[c] \in SheetRows
        BY <2>2, <1>1 DEF RowsOK, ProcOK
    <3>2. [proc.found[c] EXCEPT !.form = proc.row.paper] \in SheetRows
        BY <3>1, <2>1 DEF SheetRows
    <3> QED
        BY <3>2, <1>1, RejectedRow
  <2>3. Conflicted \in [Sheets -> SheetRows]
      BY <2>2, <1>1 DEF Conflicted, RowsOK
  <2>4. form' \in [Forms -> FormRows]
      BY <2>1, <1>1, <1>9 DEF RowsOK, FormRows, RejectConflict
  <2> QED
      BY <2>3, <2>4, <1>9, IdleOK DEF RowsOK, RejectConflict
<1>10. queue' \in Seq(Sheets) /\ RowsOK'
  <2>1. CASE Load
      BY <2>1, <1>1, <1>4 DEF Load, RowsOK
  <2>2. CASE MarkProcessing
      BY <2>2, <1>1, <1>5 DEF MarkProcessing
  <2>3. CASE Recognise
      BY <2>3, <1>1, <1>6 DEF Recognise
  <2>4. CASE ResolveGeneric
      BY <2>4, <1>1, <1>7 DEF ResolveGeneric
  <2>5. CASE ResolveIssued
      BY <2>5, <1>1, <1>8 DEF ResolveIssued
  <2>6. CASE RejectConflict
      BY <2>6, <1>1, <1>9 DEF RejectConflict
  <2> QED
      BY <2>1, <2>2, <2>3, <2>4, <2>5, <2>6 DEF Processor
<1>11. UNCHANGED <<server, template, active, files, orders, day, stranded, faults>>
    BY DEF Processor, Load, MarkProcessing, Recognise, ResolveGeneric, ResolveIssued,
           RejectConflict
<1> QED
    BY <1>10, <1>11 DEF RowsOK, TypeOK, ProcOK

\* What stops, restarts or disturbs the processor keeps the types.
LEMMA BackendTypes ==
    ASSUME TypeOK, ProcessorHolds,
           \/ \E mode \in Modes : Boot(mode)
           \/ Stop \/ RecoverDueWork \/ NextDay \/ ProcessorError
    PROVE  TypeOK'
<1>1. /\ server \in [up: BOOLEAN, mode: Modes] /\ queue \in Seq(Sheets) /\ ProcOK(proc)
      /\ sheet \in [Sheets -> SheetRows] /\ day \in Nat /\ stranded \subseteq Sheets
      /\ faults \in Nat
    BY TypeParts
<1>2. ASSUME NEW mode \in Modes, Boot(mode)
      PROVE  /\ server' \in [up: BOOLEAN, mode: Modes] /\ queue' \in Seq(Sheets)
             /\ stranded' \subseteq Sheets
    BY <1>2, ListingsAreQueues DEF Boot
<1>3. ASSUME Stop
      PROVE  /\ server' \in [up: BOOLEAN, mode: Modes] /\ queue' \in Seq(Sheets)
             /\ ProcOK(proc') /\ faults' \in Nat
  <2>1. server' \in [up: BOOLEAN, mode: Modes]
      BY <1>1, <1>3 DEF Stop
  <2> QED
      BY <1>1, <1>3, <2>1, IdleOK, FaultType DEF Stop
<1>4. ASSUME RecoverDueWork
      PROVE  queue' \in Seq(Sheets)
  <2> DEFINE due == {s \in Sheets : sheet[s].status = "pending" /\ sheet[s].due}
  <2>1. PICK q \in Listings(due) : queue' = queue \o q
      BY <1>4 DEF RecoverDueWork
  <2>2. q \in Seq(Sheets)
      BY <2>1, ListingsAreQueues
  <2> QED
      BY <1>1, <2>1, <2>2
<1>5. ASSUME ProcessorError
      PROVE  ProcOK(proc') /\ stranded' \subseteq Sheets /\ faults' \in Nat
  <2>1. stranded' = stranded \/ stranded' = stranded \cup {proc.sheet}
      BY <1>5 DEF ProcessorError
  <2>2. proc.sheet \in Sheets
      BY <1>5 DEF ProcessorError, ProcessorHolds
  <2> QED
      BY <1>1, <1>5, <2>1, <2>2, IdleOK, FaultType DEF ProcessorError
<1> QED
  <2>1. CASE \E mode \in Modes : Boot(mode)
      BY <1>2, <2>1, TypeParts DEF Boot, TypeOK, ProcOK
  <2>2. CASE Stop
      BY <1>3, <2>2, TypeParts DEF Stop, TypeOK, ProcOK
  <2>3. CASE RecoverDueWork
      BY <1>4, <2>3, TypeParts DEF RecoverDueWork, TypeOK, ProcOK
  <2>4. CASE NextDay
      BY <2>4, TypeParts DEF NextDay, TypeOK, ProcOK
  <2>5. CASE ProcessorError
      BY <1>5, <2>5, TypeParts DEF ProcessorError, TypeOK, ProcOK
  <2> QED
      BY <2>1, <2>2, <2>3, <2>4, <2>5

\* What a batch does to each form.
BatchResult(users, date, token) ==
    /\ \A u \in users : /\ token[u] \in Forms /\ form[token[u]].status = "absent"
                        /\ form'[token[u]] = [NoForm EXCEPT !.status = "issued",
                                                !.date = date, !.user = u]
    /\ \A f \in Forms : (\A u \in users : token[u] # f) =>
          form'[f] = IF f \in Issued(users, date)
                     THEN [form[f] EXCEPT !.status = "void", !.reason = "reissued"]
                     ELSE form[f]

\* The forms that a batch issues are forms.
LEMMA BatchForms ==
    ASSUME form \in [Forms -> FormRows], NEW users \in SUBSET Users, NEW date \in Nat,
           NEW token \in [users -> {f \in Forms : form[f].status = "absent"}],
           \A u, v \in users : u # v => token[u] # token[v],
           CommitBatch(users, date, token)
    PROVE  form' \in [Forms -> FormRows] /\ BatchResult(users, date, token)
<1> DEFINE New(u) == [NoForm EXCEPT !.status = "issued", !.date = date, !.user = u]
           Owner(f) == CHOOSE u \in users : token[u] = f
<1>1. DOMAIN form' = Forms
      /\ \A f \in Forms : form'[f] = IF \E u \in users : token[u] = f THEN New(Owner(f))
                                     ELSE IF f \in Issued(users, date)
                                     THEN [form[f] EXCEPT !.status = "void", !.reason = "reissued"]
                                     ELSE form[f]
    BY DEF CommitBatch
<1>2. \A u \in users : New(u) \in FormRows
    BY DEF NoForm, FormRows
<1>3. ASSUME NEW f \in Forms
      PROVE  [form[f] EXCEPT !.status = "void", !.reason = "reissued"] \in FormRows
  <2>1. form[f] \in FormRows
      OBVIOUS
  <2> QED
      BY <2>1 DEF FormRows
<1>4. ASSUME NEW u \in users
      PROVE  /\ token[u] \in Forms /\ form[token[u]].status = "absent" /\ Owner(token[u]) = u
    OBVIOUS
<1>5. ASSUME NEW f \in Forms, \E u \in users : token[u] = f
      PROVE  Owner(f) \in users
    BY <1>5
<1> HIDE DEF New, Owner
<1>6. ASSUME NEW f \in Forms
      PROVE  form'[f] \in FormRows
  <2>1. CASE \E u \in users : token[u] = f
    <3>1. Owner(f) \in users
        BY <2>1, <1>5
    <3>2. form'[f] = New(Owner(f))
        BY <2>1, <1>1
    <3>3. New(Owner(f)) \in FormRows
        BY <3>1, <1>2
    <3> QED
        BY <3>2, <3>3
  <2>2. CASE ~\E u \in users : token[u] = f
    <3>1. form'[f] = IF f \in Issued(users, date)
                     THEN [form[f] EXCEPT !.status = "void", !.reason = "reissued"]
                     ELSE form[f]
        BY <2>2, <1>1
    <3>2. /\ form[f] \in FormRows
          /\ [form[f] EXCEPT !.status = "void", !.reason = "reissued"] \in FormRows
        BY <1>3
    <3> QED
        BY <3>1, <3>2
  <2> QED
      BY <2>1, <2>2
<1>7. form' \in [Forms -> FormRows]
  <2>1. form' = [f \in Forms |-> form'[f]]
      BY DEF CommitBatch
  <2> QED
      BY <1>6, <2>1
<1>8. \A u \in users : form'[token[u]] = New(u)
    BY <1>1, <1>4
<1>9. \A f \in Forms : (\A u \in users : token[u] # f) =>
          form'[f] = IF f \in Issued(users, date)
                     THEN [form[f] EXCEPT !.status = "void", !.reason = "reissued"]
                     ELSE form[f]
    BY <1>1
<1> QED
    BY <1>4, <1>7, <1>8, <1>9 DEF New, BatchResult

\* What operators do to templates, forms and prisoners keeps the types.
LEMMA DeskTypes ==
    ASSUME TypeOK,
           \/ \E t \in Templates : Activate(t) \/ Retire(t)
           \/ \E users \in SUBSET Users, date \in day..(day + 1) : IssueBatch(users, date)
           \/ \E u \in Users : SetActive(u)
           \/ \E s \in Sheets, f \in Forms, u \in Users : CreateDemoRecord(s, f, u)
    PROVE  TypeOK'
<1>1. /\ form \in [Forms -> FormRows] /\ sheet \in [Sheets -> SheetRows]
      /\ template \in [Templates -> {"absent", "active", "retired"}]
      /\ active \in [Users -> BOOLEAN] /\ day \in Nat /\ files \subseteq Sheets /\ faults \in Nat
    BY TypeParts
<1>2. ASSUME NEW t \in Templates, Activate(t) \/ Retire(t)
      PROVE  TypeOK'
  <2>1. template' \in [Templates -> {"absent", "active", "retired"}]
      BY <1>1, <1>2 DEF Activate, Retire
  <2> QED
      BY <1>2, <2>1, TypeParts DEF TypeOK, ProcOK, Activate, Retire
<1>3. ASSUME NEW users \in SUBSET Users, NEW date \in day..(day + 1), IssueBatch(users, date)
      PROVE  TypeOK'
  <2>1. date \in Nat
      BY <1>1
  <2>2. form' \in [Forms -> FormRows]
      BY <1>1, <1>3, <2>1, BatchForms DEF IssueBatch
  <2> QED
      BY <1>3, <2>2, TypeParts DEF TypeOK, ProcOK, IssueBatch
<1>4. ASSUME NEW u \in Users, SetActive(u)
      PROVE  TypeOK'
  <2>1. active' \in [Users -> BOOLEAN]
      BY <1>1, <1>4 DEF SetActive
  <2>2. faults' \in Nat
      BY <1>1, <1>4, FaultType DEF SetActive
  <2> QED
      BY <1>4, <2>1, <2>2, TypeParts DEF TypeOK, ProcOK, SetActive
<1>5. ASSUME NEW s \in Sheets, NEW f \in Forms, NEW u \in Users, CreateDemoRecord(s, f, u)
      PROVE  TypeOK'
  <2>1. [NoForm EXCEPT !.status = "issued", !.user = u, !.date = day + 1, !.reserved = s]
          \in FormRows
    <3>1. day + 1 \in Nat
        BY <1>1
    <3> QED
        BY <3>1, EmptyRows DEF FormRows
  <2>2. [NoSheet EXCEPT !.status = "flagged", !.mode = "issued", !.date = day + 1, !.paper = f,
                        !.form = f, !.processed = day, !.image = "kept"] \in SheetRows
    <3>1. day + 1 \in Nat /\ "issued" \in Modes
        BY <1>1 DEF Modes
    <3> QED
        BY <1>1, <3>1, EmptyRows DEF SheetRows
  <2>3. form' \in [Forms -> FormRows] /\ sheet' \in [Sheets -> SheetRows]
        /\ files' \subseteq Sheets
      BY <1>1, <1>5, <2>1, <2>2 DEF CreateDemoRecord
  <2> QED
      BY <1>5, <2>3, TypeParts DEF TypeOK, ProcOK, CreateDemoRecord
<1> QED
    BY <1>2, <1>3, <1>4, <1>5

\* The updates of one row that operators and the timer make.
DueRow(row) == [row EXCEPT !.due = TRUE]

TurnedDown(row) == [row EXCEPT !.status = "rejected", !.processed = day]

Confirmed(row) == [row EXCEPT !.status = "verified", !.order = TRUE]

LEMMA DeskRows ==
    ASSUME sheet \in [Sheets -> SheetRows], day \in Nat, NEW s \in Sheets
    PROVE  /\ [sheet EXCEPT ![s].due = TRUE] = [sheet EXCEPT ![s] = DueRow(sheet[s])]
           /\ [sheet EXCEPT ![s].status = "rejected", ![s].processed = day]
                = [sheet EXCEPT ![s] = TurnedDown(sheet[s])]
           /\ [sheet EXCEPT ![s].status = "verified", ![s].order = TRUE]
                = [sheet EXCEPT ![s] = Confirmed(sheet[s])]
           /\ DueRow(sheet[s]) \in SheetRows /\ TurnedDown(sheet[s]) \in SheetRows
           /\ Confirmed(sheet[s]) \in SheetRows
<1>1. sheet[s] \in SheetRows
    OBVIOUS
<1>2. [sheet EXCEPT ![s].due = TRUE] = [sheet EXCEPT ![s] = DueRow(sheet[s])]
    BY <1>1 DEF DueRow
<1>3. [sheet EXCEPT ![s].status = "rejected", ![s].processed = day]
        = [sheet EXCEPT ![s] = TurnedDown(sheet[s])]
    BY <1>1 DEF TurnedDown
<1>4. [sheet EXCEPT ![s].status = "verified", ![s].order = TRUE]
        = [sheet EXCEPT ![s] = Confirmed(sheet[s])]
    BY <1>1 DEF Confirmed
<1>5. /\ DueRow(sheet[s]) \in SheetRows /\ TurnedDown(sheet[s]) \in SheetRows
      /\ Confirmed(sheet[s]) \in SheetRows
    BY <1>1 DEF SheetRows, DueRow, TurnedDown, Confirmed
<1> QED
    BY <1>2, <1>3, <1>4, <1>5

\* A form that pays.
LEMMA PaidForm ==
    ASSUME form \in [Forms -> FormRows], NEW f \in Forms, NEW s \in Sheets,
           form' = [form EXCEPT ![f].status = "consumed", ![f].consumed = s]
    PROVE  /\ form' \in [Forms -> FormRows]
           /\ form'[f] = [form[f] EXCEPT !.status = "consumed", !.consumed = s]
           /\ \A g \in Forms \ {f} : form'[g] = form[g]
<1>1. form[f] \in FormRows
    OBVIOUS
<1>2. form' = [form EXCEPT ![f] = [form[f] EXCEPT !.status = "consumed", !.consumed = s]]
    BY <1>1
<1>3. [form[f] EXCEPT !.status = "consumed", !.consumed = s] \in FormRows
    BY <1>1 DEF FormRows
<1> QED
    BY <1>2, <1>3

\* What operators, the timer, submitters and the purge do to sheets keeps the types.
LEMMA SheetTypes ==
    ASSUME TypeOK, SheetsInOrder,
           \/ PurgeDue
           \/ \E s \in Sheets :
                 \/ RetryDue(s) \/ ConfirmIssued(s) \/ Reject(s)
                 \/ \E u \in Users : ConfirmGeneric(s, u)
                 \/ \E paper \in Forms \cup Templates \cup {None} : Submit(s, paper)
    PROVE  TypeOK'
<1>1. /\ form \in [Forms -> FormRows] /\ sheet \in [Sheets -> SheetRows]
      /\ queue \in Seq(Sheets) /\ server \in [up: BOOLEAN, mode: Modes]
      /\ day \in Nat /\ files \subseteq Sheets /\ faults \in Nat /\ orders \in Seq(OrderRows)
    BY TypeParts
<1>2. ASSUME PurgeDue
      PROVE  TypeOK'
  <2>1. \A s \in Sheets : Purged(sheet[s]) \in SheetRows
      BY <1>1, PurgedRow
  <2>2. sheet' \in [Sheets -> SheetRows] /\ files' \subseteq Sheets
      BY <1>1, <1>2, <2>1 DEF PurgeDue, PurgeFilesFirst
  <2>3. faults' \in Nat
      BY <1>1, <1>2, FaultType DEF PurgeDue, PurgeFilesFirst
  <2> QED
      BY <1>2, <2>2, <2>3, TypeParts DEF TypeOK, ProcOK, PurgeDue
<1>3. ASSUME NEW s \in Sheets, RetryDue(s) \/ Reject(s)
      PROVE  TypeOK'
  <2>1. sheet[s] \in SheetRows
      BY <1>1
  <2>2. sheet' \in [Sheets -> SheetRows]
    <3>1. \/ sheet' = [sheet EXCEPT ![s].due = TRUE]
          \/ sheet' = [sheet EXCEPT ![s].status = "rejected", ![s].processed = day]
        BY <1>3 DEF RetryDue, Reject
    <3>2. \/ sheet' = [sheet EXCEPT ![s] = DueRow(sheet[s])]
          \/ sheet' = [sheet EXCEPT ![s] = TurnedDown(sheet[s])]
        BY <3>1, <1>1, DeskRows
    <3> QED
        BY <3>2, <1>1, DeskRows, ZenonT(30)
  <2> QED
      BY <1>3, <2>2, TypeParts DEF TypeOK, ProcOK, RetryDue, Reject
<1>4. ASSUME NEW s \in Sheets, ConfirmIssued(s)
      PROVE  TypeOK'
  <2>1. /\ sheet[s] \in SheetRows /\ sheet[s].form \in Forms
        /\ form[sheet[s].form] \in FormRows /\ form[sheet[s].form].user \in Users \cup {None}
      BY <1>1, <1>4 DEF ConfirmIssued, SheetRows, FormRows
  <2>2. sheet' \in [Sheets -> SheetRows]
    <3>1. \/ sheet' = [sheet EXCEPT ![s].status = "verified", ![s].order = TRUE]
          \/ sheet' = [sheet EXCEPT ![s].status = "rejected", ![s].processed = day]
        BY <1>4 DEF ConfirmIssued
    <3>2. \/ sheet' = [sheet EXCEPT ![s] = Confirmed(sheet[s])]
          \/ sheet' = [sheet EXCEPT ![s] = TurnedDown(sheet[s])]
        BY <3>1, <1>1, DeskRows
    <3> QED
        BY <3>2, <1>1, DeskRows, ZenonT(30)
  <2>3. form' \in [Forms -> FormRows]
      BY <1>1, <1>4, <2>1, PaidForm DEF ConfirmIssued
  <2>4. orders' \in Seq(OrderRows)
    <3>1. [sheet |-> s, form |-> sheet[s].form, user |-> form[sheet[s].form].user] \in OrderRows
        BY <2>1 DEF OrderRows
    <3> QED
        BY <1>1, <1>4, <3>1 DEF ConfirmIssued, Order
  <2> QED
      BY <1>4, <2>2, <2>3, <2>4, TypeParts DEF TypeOK, ProcOK, ConfirmIssued
<1>5. ASSUME NEW s \in Sheets, NEW u \in Users, ConfirmGeneric(s, u)
      PROVE  TypeOK'
  <2>1. sheet[s] \in SheetRows /\ sheet[s].form \in Forms \cup {None}
      BY <1>1 DEF SheetRows
  <2>2. sheet' \in [Sheets -> SheetRows]
      BY <1>1, <1>5, DeskRows DEF ConfirmGeneric
  <2>3. orders' \in Seq(OrderRows)
    <3>1. [sheet |-> s, form |-> sheet[s].form, user |-> u] \in OrderRows
        BY <2>1 DEF OrderRows
    <3> QED
        BY <1>1, <1>5, <3>1 DEF ConfirmGeneric, Order
  <2> QED
      BY <1>5, <2>2, <2>3, TypeParts DEF TypeOK, ProcOK, ConfirmGeneric
<1>6. ASSUME NEW s \in Sheets, NEW paper \in Forms \cup Templates \cup {None}, Submit(s, paper)
      PROVE  TypeOK'
  <2>1. [NoSheet EXCEPT !.status = "pending", !.mode = server.mode, !.date = day + 1,
                        !.paper = paper, !.image = "kept"] \in SheetRows
    <3>1. day + 1 \in Nat /\ server.mode \in Modes
        BY <1>1
    <3> QED
        BY <1>1, <3>1, EmptyRows DEF SheetRows
  <2>2. sheet' \in [Sheets -> SheetRows] /\ files' \subseteq Sheets
      BY <1>1, <1>6, <2>1 DEF Submit
  <2>3. queue' \in Seq(Sheets)
    <3>1. queue' = Append(queue, s)
        BY <1>6 DEF Submit
    <3> QED
        BY <3>1, <1>1
  <2> QED
      BY <1>6, <2>2, <2>3, TypeParts DEF TypeOK, ProcOK, Submit
<1> QED
    BY <1>2, <1>3, <1>4, <1>5, <1>6

\* Every step keeps the types.
LEMMA TypesKept ==
    ASSUME TypeOK, SheetsInOrder, ProcessorHolds, [Next]_vars
    PROVE  TypeOK'
<1>1. CASE UNCHANGED vars
    BY <1>1 DEF vars, TypeOK
<1>2. CASE Next
    BY <1>2, ProcessorTypes, BackendTypes, DeskTypes, SheetTypes DEF Next
<1> QED
    BY <1>1, <1>2

-----------------------------------------------------------------------------
(* What the processor does *)

\* The sheet it holds, and what it would write.
LEMMA HeldSheet ==
    ASSUME TypeOK, SheetsInOrder, ProcessorHolds, proc.pc # "idle"
    PROVE  /\ proc.sheet \in Sheets /\ sheet[proc.sheet].status \in Unprocessed
           /\ sheet[proc.sheet].form = None /\ ~sheet[proc.sheet].order
           /\ proc.row \in SheetRows /\ proc.row.form = None /\ ~proc.row.order
           /\ sheet[proc.sheet] \in SheetRows
BY TypeParts DEF SheetsInOrder, ProcessorHolds, Unprocessed, ProcOK

\* The sheet it holds gets an undecided row without a form, or is rejected.
LEMMA ProcessorWrites ==
    ASSUME TypeOK, Sound, ProcessorHolds, proc.pc # "idle", NEW row \in SheetRows,
           row.status \in Unprocessed \cup {"rejected"} \/ row.status = "flagged",
           row.form = None, ~row.order, sheet' = [sheet EXCEPT ![proc.sheet] = row]
    PROVE  \A c \in Sheets : SheetMoves(c)
<1>1. /\ proc.sheet \in Sheets /\ sheet[proc.sheet].status \in Unprocessed
      /\ sheet[proc.sheet].form = None
    BY HeldSheet DEF Sound
<1> QED
    BY <1>1, OneSheet DEF Unprocessed

\* Every step of the processor but the one that voids a form: nothing is paid.
LEMMA ProcessorSound ==
    ASSUME TypeOK, TypeOK', Sound, ProcessorHolds,
           Load \/ MarkProcessing \/ Recognise \/ ResolveGeneric
    PROVE  Sound' /\ Stays
<1>1. proc.pc # "idle" =>
        /\ proc.sheet \in Sheets /\ sheet[proc.sheet].status \in Unprocessed
        /\ sheet[proc.sheet].form = None /\ ~sheet[proc.sheet].order
        /\ proc.row \in SheetRows /\ proc.row.form = None /\ ~proc.row.order
        /\ sheet[proc.sheet] \in SheetRows
    BY HeldSheet DEF Sound
<1>2. day \in Nat
    BY DEF TypeOK
<1>3. CASE sheet' = sheet
  <2>1. \A s \in Sheets : SheetMoves(s)
      BY <1>3, SameSheets
  <2>2. form' = form /\ orders' = orders
      BY DEF Load, MarkProcessing, Recognise, ResolveGeneric
  <2> QED
      BY <2>1, <2>2, SheetsStep
<1>4. CASE /\ proc.pc # "idle"
           /\ \E row \in SheetRows :
                 /\ row.status \in Unprocessed \cup {"rejected"} \/ row.status = "flagged"
                 /\ row.form = None /\ ~row.order
                 /\ sheet' = [sheet EXCEPT ![proc.sheet] = row]
  <2>1. \A s \in Sheets : SheetMoves(s)
      BY <1>4, ProcessorWrites
  <2>2. form' = form /\ orders' = orders
      BY DEF Load, MarkProcessing, Recognise, ResolveGeneric
  <2> QED
      BY <2>1, <2>2, SheetsStep
<1>5. CASE Load
    BY <1>3, <1>5 DEF Load
<1>6. CASE MarkProcessing
  <2> DEFINE row == [proc.row EXCEPT !.status = "processing"]
  <2>1. row \in SheetRows /\ row.status = "processing" /\ row.form = None /\ ~row.order
      BY <1>1, <1>6, ProcessingRow DEF MarkProcessing
  <2>2. proc.pc # "idle" /\ sheet' = [sheet EXCEPT ![proc.sheet] = row]
      BY <1>6 DEF MarkProcessing, Save
  <2> HIDE DEF row
  <2> QED
      BY <1>4, <2>1, <2>2 DEF Unprocessed
<1>7. CASE Recognise
  <2>1. proc.pc # "idle"
      BY <1>7 DEF Recognise
  <2>2. /\ Rejected(proc.row) \in SheetRows /\ Rejected(proc.row).status = "rejected"
        /\ Rejected(proc.row).form = None /\ ~Rejected(proc.row).order
      BY <1>1, <1>2, <2>1, RejectedRow
  <2>3. /\ AfterError(proc.row) \in SheetRows /\ AfterError(proc.row).form = None
        /\ AfterError(proc.row).status \in Unprocessed \cup {"rejected"}
        /\ ~AfterError(proc.row).order
      BY <1>1, <1>2, <2>1, AfterErrorRow DEF Unprocessed
  <2>4. \/ sheet' = sheet
        \/ sheet' = [sheet EXCEPT ![proc.sheet] = Rejected(proc.row)]
        \/ sheet' = [sheet EXCEPT ![proc.sheet] = AfterError(proc.row)]
      BY <1>7 DEF Recognise, Save
  <2> QED
      BY <1>3, <1>4, <2>1, <2>2, <2>3, <2>4
<1>8. CASE ResolveGeneric
  <2> DEFINE row == [sheet[proc.sheet] EXCEPT !.status = "flagged", !.template = proc.row.paper,
                         !.order = FALSE, !.processed = day, !.due = TRUE]
             s == proc.sheet
  <2>1. proc.pc # "idle" /\ proc.row.paper \in Templates
      BY <1>8 DEF ResolveGeneric
  <2>2. /\ Rejected(sheet[s]) \in SheetRows /\ Rejected(sheet[s]).status = "rejected"
        /\ Rejected(sheet[s]).form = None /\ ~Rejected(sheet[s]).order
      BY <1>1, <1>2, <2>1, RejectedRow
  <2>3. row \in SheetRows /\ row.status = "flagged" /\ row.form = None /\ ~row.order
    <3>1. sheet[s] \in SheetRows /\ sheet[s].form = None
        BY <1>1, <2>1
    <3> QED
        BY <1>2, <2>1, <3>1 DEF SheetRows
  <2>4. \/ sheet' = [sheet EXCEPT ![proc.sheet] = Rejected(sheet[s])]
        \/ sheet' = [sheet EXCEPT ![proc.sheet] = row]
      BY <1>8 DEF ResolveGeneric
  <2> HIDE DEF row, s
  <2> QED
      BY <1>4, <2>1, <2>2, <2>3, <2>4
<1> QED
    BY <1>5, <1>6, <1>7, <1>8

\* A row that is flagged for a form.
FlaggedFor(row, f) ==
    [row EXCEPT !.status = "flagged", !.form = f, !.processed = day, !.due = TRUE]

LEMMA FlaggedRow ==
    ASSUME sheet \in [Sheets -> SheetRows], day \in Nat, NEW s \in Sheets, NEW f \in Forms
    PROVE  /\ FlaggedFor(sheet[s], f) \in SheetRows
           /\ FlaggedFor(sheet[s], f).status = "flagged" /\ FlaggedFor(sheet[s], f).form = f
           /\ FlaggedFor(sheet[s], f).order = sheet[s].order
           /\ [sheet EXCEPT ![s].status = "flagged", ![s].form = f,
                            ![s].processed = day, ![s].due = TRUE]
                = [sheet EXCEPT ![s] = FlaggedFor(sheet[s], f)]
<1>1. sheet[s] \in SheetRows
    OBVIOUS
<1>2. /\ FlaggedFor(sheet[s], f) \in SheetRows
      /\ FlaggedFor(sheet[s], f).status = "flagged" /\ FlaggedFor(sheet[s], f).form = f
      /\ FlaggedFor(sheet[s], f).order = sheet[s].order
    BY <1>1 DEF FlaggedFor, SheetRows
<1>3. [sheet EXCEPT ![s].status = "flagged", ![s].form = f,
                    ![s].processed = day, ![s].due = TRUE]
        = [sheet EXCEPT ![s] = FlaggedFor(sheet[s], f)]
    BY <1>1 DEF FlaggedFor
<1> QED
    BY <1>2, <1>3

\* A sheet gets a form: one that is valid, hence neither paid nor in conflict.
LEMMA ResolveIssuedSound ==
    ASSUME TypeOK, TypeOK', Sound, ProcessorHolds, ResolveIssued
    PROVE  Sound' /\ Stays
<1> DEFINE s == proc.sheet  f == proc.row.paper
<1>1. /\ s \in Sheets /\ sheet[s].status \in Unprocessed /\ sheet[s].form = None
      /\ ~sheet[s].order /\ sheet[s] \in SheetRows /\ proc.pc # "idle" /\ f \in Forms
      /\ orders' = orders /\ day \in Nat /\ sheet \in [Sheets -> SheetRows]
      /\ form \in [Forms -> FormRows]
    BY HeldSheet DEF Sound, ResolveIssued, TypeOK
<1>2. CASE sheet' = [sheet EXCEPT ![s] = Rejected(@)] /\ form' = form
  <2>1. /\ Rejected(sheet[s]) \in SheetRows /\ Rejected(sheet[s]).status = "rejected"
        /\ Rejected(sheet[s]).form = None /\ ~Rejected(sheet[s]).order
      BY <1>1, RejectedRow
  <2>2. sheet' = [sheet EXCEPT ![proc.sheet] = Rejected(sheet[s])]
      BY <1>2
  <2>3. \A c \in Sheets : SheetMoves(c)
      BY <1>1, <2>1, <2>2, ProcessorWrites
  <2> QED
      BY <1>1, <1>2, <2>3, SheetsStep
<1>3. CASE sheet' = sheet /\ form' = form
    BY <1>1, <1>3, SameSheets, SheetsStep
<1>4. CASE /\ ValidForm(f, s)
           /\ form' = [form EXCEPT ![f].reserved = s]
           /\ sheet' = [sheet EXCEPT ![s].status = "flagged", ![s].form = f,
                                     ![s].processed = day, ![s].due = TRUE]
  <2>1. form[f].status = "issued" /\ form[f].reason # "conflict"
      BY <1>1, <1>4 DEF ValidForm, Sound, ConflictVoids
  <2>2. /\ form'[f] = [form[f] EXCEPT !.reserved = s]
        /\ \A g \in Forms \ {f} : form'[g] = form[g]
      BY <1>1, <1>4
  <2>3. /\ form'[f].status = "issued" /\ form'[f].reason = form[f].reason
        /\ form'[f].user = form[f].user /\ form'[f].date = form[f].date
    <3>1. form[f] \in FormRows
        BY <1>1
    <3> QED
        BY <2>1, <2>2, <3>1 DEF FormRows
  <2>4. \A g \in Forms : FormMoves(g)
      BY <2>1, <2>2, <2>3 DEF FormMoves
  <2>5. \A c \in Sheets : SheetMoves(c)
    <3>1. sheet' = [sheet EXCEPT ![s] = FlaggedFor(sheet[s], f)]
        BY <1>1, <1>4, FlaggedRow
    <3>2. /\ FlaggedFor(sheet[s], f) \in SheetRows
          /\ FlaggedFor(sheet[s], f).status = "flagged" /\ FlaggedFor(sheet[s], f).form = f
          /\ ~FlaggedFor(sheet[s], f).order
        BY <1>1, FlaggedRow
    <3> HIDE DEF s, f
    <3>3. sheet[s].status \notin {"verified", "rejected"}
        BY <1>1 DEF Unprocessed
    <3>4. FlaggedFor(sheet[s], f).status \notin {"absent", "verified"} \cup Unprocessed
        BY <3>2 DEF Unprocessed
    <3> QED
        BY <1>1, <2>1, <3>1, <3>2, <3>3, <3>4, OneSheet
  <2>6. OrdersSound'
      BY <1>1, <2>4, <2>5, OrdersKept DEF Sound
  <2>7. \A g \in Forms : form'[g].reason = "conflict" =>
            form[g].reason = "conflict" /\ form'[g].status = "void"
    <3>1. \A g \in Forms \ {f} : form[g].reason = "conflict" => form[g].status = "void"
        BY DEF Sound, ConflictVoids
    <3> QED
        BY <2>1, <2>2, <2>3, <3>1
  <2>8. ConflictStopsForm' /\ ConflictVoids'
      BY <2>5, <2>7, ConflictKept DEF Sound, FormsSound
  <2>9. OneValidForm'
    <3>1. \A g \in Forms : form'[g].status = "issued" =>
              /\ form[g].status = "issued" /\ form'[g].user = form[g].user
              /\ form'[g].date = form[g].date
        BY <2>1, <2>2, <2>3
    <3> QED
        BY <3>1, ValidKept DEF Sound, FormsSound
  <2> QED
      BY <2>5, <2>6, <2>8, <2>9, SheetsKept DEF Sound, FormsSound
<1> QED
    BY <1>2, <1>3, <1>4 DEF ResolveIssued

\* Two papers with one token: all its sheets are rejected, none of them paid.
LEMMA RejectConflictSound ==
    ASSUME TypeOK, TypeOK', Sound, ProcessorHolds, RejectConflict
    PROVE  Sound' /\ Stays
<1> DEFINE s == proc.sheet  f == proc.row.paper  D == DOMAIN proc.found
<1>1. /\ s \in Sheets /\ sheet[s].status \in Unprocessed /\ proc.pc = "conflict"
      /\ orders' = orders /\ day \in Nat /\ sheet \in [Sheets -> SheetRows]
      /\ form \in [Forms -> FormRows]
      /\ D \subseteq Sheets /\ proc.found \in [D -> SheetRows]
    BY HeldSheet DEF Sound, RejectConflict, TypeOK
<1>2. /\ f \in Forms /\ form[f].status = "issued"
      /\ D = {c \in Sheets : sheet[c].form = f} \cup {s}
    BY <1>1 DEF ProcessorHolds
<1>3. form[f].reason # "conflict"
    BY <1>2 DEF Sound, ConflictVoids
<1>4. ASSUME NEW c \in Sheets, sheet[c].form = f
      PROVE  sheet[c].status # "verified"
  <2> SUFFICES ASSUME sheet[c].status = "verified"
               PROVE  FALSE
      OBVIOUS
  <2>1. PICK i \in DOMAIN orders : orders[i].sheet = c
      BY DEF Sound, OrdersSound, OrdersBacked
  <2>2. orders[i].form = f
      BY <1>4, <2>1 DEF Sound, OrdersSound, OrdersBacked
  <2>3. f # None
      BY <1>2, OmrAssumption
  <2>4. form[f].status = "consumed"
      BY <2>1, <2>2, <2>3 DEF Sound, OrdersSound, OrdersBacked
  <2> QED
      BY <1>2, <2>4
<1>5. ASSUME NEW c \in D
      PROVE  /\ sheet[c].status # "verified" /\ sheet'[c].status = "rejected"
             /\ ~sheet'[c].order /\ sheet'[c].form = f
  <2>1. sheet'[c] = Rejected([proc.found[c] EXCEPT !.form = f])
      BY <1>1 DEF RejectConflict, Conflicted
  <2>2. proc.found[c] \in SheetRows
      BY <1>1
  <2>3. /\ [proc.found[c] EXCEPT !.form = f] \in SheetRows
        /\ [proc.found[c] EXCEPT !.form = f].form = f
      BY <1>2, <2>2 DEF SheetRows
  <2>4. sheet[c].status # "verified"
      BY <1>1, <1>2, <1>4 DEF Unprocessed
  <2> QED
      BY <1>1, <2>1, <2>3, <2>4, RejectedRow
<1>6. \A c \in Sheets \ D : sheet'[c] = sheet[c]
    BY DEF RejectConflict, Conflicted
<1>7. /\ form'[f].status = "void" /\ form'[f].reason = "conflict"
      /\ \A g \in Forms \ {f} : form'[g] = form[g]
  <2>1. form[f] \in FormRows
      BY <1>1, <1>2
  <2> QED
      BY <1>1, <1>2, <2>1 DEF RejectConflict, FormRows
<1> HIDE DEF s, f, D
<1>8. \A c \in Sheets : SheetMoves(c)
  <2>1. ASSUME NEW c \in Sheets \ D
        PROVE  SheetMoves(c)
      BY <1>6 DEF Sound, SheetsInOrder, SheetMoves
  <2>2. ASSUME NEW c \in D
        PROVE  SheetMoves(c)
      BY <1>2, <1>3, <1>5 DEF SheetMoves, Unprocessed
  <2> QED
      BY <2>1, <2>2
<1>9. \A g \in Forms : FormMoves(g)
    BY <1>2, <1>7 DEF FormMoves
<1>10. OrdersSound'
    BY <1>1, <1>8, <1>9, OrdersKept DEF Sound
<1>11. ConflictVoids'
    BY <1>7 DEF Sound, ConflictVoids
<1>12. ASSUME NEW g \in Forms, form'[g].reason = "conflict", NEW c \in Sheets,
              sheet'[c].form = g
       PROVE  sheet'[c].status = "rejected"
  <2>1. CASE c \in D
      BY <1>5, <2>1
  <2>2. CASE c \notin D
    <3>1. sheet'[c] = sheet[c] /\ g # f
        BY <1>2, <1>6, <1>12, <2>2
    <3>2. form[g].reason = "conflict"
        BY <1>7, <1>12, <3>1
    <3> QED
        BY <1>12, <3>1, <3>2 DEF Sound, FormsSound, ConflictStopsForm
  <2> QED
      BY <2>1, <2>2
<1>13. OneValidForm'
  <2>1. \A g \in Forms : form'[g].status = "issued" =>
            /\ form[g].status = "issued" /\ form'[g].user = form[g].user
            /\ form'[g].date = form[g].date
      BY <1>7
  <2> QED
      BY <2>1, ValidKept DEF Sound, FormsSound
<1>14. ConflictStopsForm'
    BY <1>12 DEF ConflictStopsForm
<1> QED
    BY <1>8, <1>10, <1>11, <1>13, <1>14, SheetsKept DEF Sound, FormsSound

-----------------------------------------------------------------------------
(* What the others do *)

\* Starts, stops, the timer's sweep, days, templates and prisoners: no row changes.
LEMMA QuietSound ==
    ASSUME TypeOK, TypeOK', Sound, sheet' = sheet, form' = form, orders' = orders
    PROVE  Sound' /\ Stays
BY SameSheets, SheetsStep

\* A retry time comes, a sheet is submitted or turned down.
LEMMA SheetStepsSound ==
    ASSUME TypeOK, TypeOK', Sound, NEW s \in Sheets,
           \/ RetryDue(s) \/ Reject(s)
           \/ \E paper \in Forms \cup Templates \cup {None} : Submit(s, paper)
    PROVE  Sound' /\ Stays
<1>1. /\ sheet[s] \in SheetRows /\ day \in Nat /\ sheet \in [Sheets -> SheetRows]
      /\ server.mode \in Modes /\ form' = form /\ orders' = orders
      /\ sheet[s].status \in {"absent"} \cup Unprocessed => sheet[s].form = None
      /\ sheet[s].order <=> sheet[s].status = "verified"
    BY DEF TypeOK, RetryDue, Reject, Submit, Sound, SheetsInOrder
<1>2. \A c \in Sheets : SheetMoves(c)
  <2>1. CASE RetryDue(s)
    <3>1. sheet' = [sheet EXCEPT ![s] = DueRow(sheet[s])] /\ DueRow(sheet[s]) \in SheetRows
        BY <1>1, <2>1, DeskRows DEF RetryDue
    <3>2. /\ DueRow(sheet[s]).status = sheet[s].status
          /\ DueRow(sheet[s]).form = sheet[s].form
          /\ DueRow(sheet[s]).order = sheet[s].order
        BY <1>1 DEF DueRow, SheetRows
    <3> QED
        BY <1>1, <3>1, <3>2, OneSheet
  <2>2. CASE Reject(s)
    <3>1. /\ sheet' = [sheet EXCEPT ![s] = TurnedDown(sheet[s])]
          /\ TurnedDown(sheet[s]) \in SheetRows
        BY <1>1, <2>2, DeskRows DEF Reject
    <3>2. /\ TurnedDown(sheet[s]).status = "rejected"
          /\ TurnedDown(sheet[s]).form = sheet[s].form
          /\ TurnedDown(sheet[s]).order = sheet[s].order
        BY <1>1 DEF TurnedDown, SheetRows
    <3>3. sheet[s].status = "flagged"
        BY <2>2 DEF Reject
    <3> QED
        BY <1>1, <3>1, <3>2, <3>3, OneSheet DEF Unprocessed
  <2>3. ASSUME NEW paper \in Forms \cup Templates \cup {None}, Submit(s, paper)
        PROVE  \A c \in Sheets : SheetMoves(c)
    <3> DEFINE row == [NoSheet EXCEPT !.status = "pending", !.mode = server.mode,
                           !.date = day + 1, !.paper = paper, !.image = "kept"]
    <3>1. sheet' = [sheet EXCEPT ![s] = row] /\ sheet[s].status = "absent"
        BY <2>3 DEF Submit
    <3>2. row \in SheetRows /\ row.status = "pending" /\ row.form = None /\ ~row.order
      <4>1. NoSheet.form = None /\ ~NoSheet.order
          BY DEF NoSheet
      <4>2. day + 1 \in Nat
          BY <1>1
      <4>3. /\ row.status = "pending" /\ row.form = NoSheet.form
            /\ row.order = NoSheet.order
          BY EmptyRows DEF SheetRows
      <4>4. row \in SheetRows
          BY <1>1, <4>2, EmptyRows DEF SheetRows
      <4> QED
          BY <4>1, <4>3, <4>4
    <3> HIDE DEF row
    <3> QED
        BY <1>1, <3>1, <3>2, OneSheet DEF Unprocessed
  <2> QED
      BY <2>1, <2>2, <2>3
<1> QED
    BY <1>1, <1>2, SheetsStep

\* The purge.
LEMMA PurgeSound ==
    ASSUME TypeOK, TypeOK', Sound, PurgeDue
    PROVE  Sound' /\ Stays
<1>1. sheet \in [Sheets -> SheetRows] /\ form' = form /\ orders' = orders
    BY DEF TypeOK, PurgeDue
<1>2. ASSUME NEW s \in Sheets
      PROVE  sheet'[s] = sheet[s] \/ (sheet'[s] = Purged(sheet[s]) /\ sheet[s].status \in Terminal)
    BY <1>1 DEF PurgeDue, PurgeFilesFirst, PurgeEligible
<1>3. ASSUME NEW s \in Sheets
      PROVE  SheetMoves(s)
  <2>1. CASE sheet'[s] = sheet[s]
      BY <2>1 DEF SheetMoves, Sound, SheetsInOrder
  <2>2. CASE sheet'[s] = Purged(sheet[s]) /\ sheet[s].status \in Terminal
    <3>1. /\ Purged(sheet[s]).form = sheet[s].form /\ Purged(sheet[s]).order = sheet[s].order
          /\ Purged(sheet[s]).status
               = IF sheet[s].status = "flagged" THEN "rejected" ELSE sheet[s].status
        BY <1>1, PurgedRow
    <3>2. sheet[s].order <=> sheet[s].status = "verified"
        BY DEF Sound, SheetsInOrder
    <3> QED
        BY <2>2, <3>1, <3>2 DEF SheetMoves, Terminal, Unprocessed
  <2> QED
      BY <1>2, <2>1, <2>2
<1> QED
    BY <1>1, <1>3, SheetsStep

\* A batch of forms: the earlier ones of its prisoners and date are void.
LEMMA IssueBatchSound ==
    ASSUME TypeOK, TypeOK', Sound, NEW users \in SUBSET Users, NEW date \in Nat,
           IssueBatch(users, date)
    PROVE  Sound' /\ Stays
<1>1. /\ form \in [Forms -> FormRows] /\ orders' = orders /\ sheet' = sheet
      /\ \A s \in Sheets : SheetMoves(s)
    BY SameSheets DEF TypeOK, IssueBatch
<1>2. PICK token \in [users -> {f \in Forms : form[f].status = "absent"}] :
          /\ \A u, v \in users : u # v => token[u] # token[v]
          /\ CommitBatch(users, date, token)
    BY DEF IssueBatch
<1>3. BatchResult(users, date, token)
    BY <1>1, <1>2, BatchForms
<1>4. ASSUME NEW u \in users
      PROVE  /\ form'[token[u]].status = "issued" /\ form'[token[u]].user = u
             /\ form'[token[u]].date = date /\ form'[token[u]].reason = None
  <2>1. form'[token[u]] = [NoForm EXCEPT !.status = "issued", !.date = date, !.user = u]
      BY <1>3 DEF BatchResult
  <2>2. NoForm \in FormRows /\ NoForm.reason = None
      BY EmptyRows DEF NoForm
  <2> QED
      BY <2>1, <2>2 DEF FormRows
<1>5. ASSUME NEW f \in Forms, \A u \in users : token[u] # f
      PROVE  IF f \in Issued(users, date)
             THEN /\ form'[f].status = "void" /\ form'[f].reason = "reissued"
                  /\ form[f].status = "issued"
             ELSE form'[f] = form[f]
  <2>1. form'[f] = IF f \in Issued(users, date)
                   THEN [form[f] EXCEPT !.status = "void", !.reason = "reissued"]
                   ELSE form[f]
      BY <1>3, <1>5 DEF BatchResult
  <2>2. form[f] \in FormRows
      BY <1>1
  <2> QED
      BY <2>1, <2>2 DEF FormRows, Issued
<1>6. \A f \in Forms : FormMoves(f)
  <2>1. ASSUME NEW f \in Forms, \E u \in users : token[u] = f
        PROVE  FormMoves(f)
      BY <1>3, <1>4, <2>1 DEF FormMoves, BatchResult
  <2>2. ASSUME NEW f \in Forms, \A u \in users : token[u] # f
        PROVE  FormMoves(f)
      BY <1>5, <2>2 DEF FormMoves
  <2> QED
      BY <2>1, <2>2
<1>7. OrdersSound'
    BY <1>1, <1>6, OrdersKept DEF Sound
<1>8. ASSUME NEW f \in Forms, form'[f].reason = "conflict"
      PROVE  form[f].reason = "conflict" /\ form'[f].status = "void"
  <2>1. \A u \in users : token[u] # f
      BY <1>4, <1>8, OmrAssumption
  <2>2. form'[f] = form[f]
      BY <1>5, <1>8, <2>1
  <2> QED
      BY <1>8, <2>2 DEF Sound, ConflictVoids
<1>9. ConflictStopsForm' /\ ConflictVoids'
    BY <1>1, <1>8, ConflictKept DEF Sound, FormsSound
<1>10. ASSUME NEW f \in Forms, form'[f].status = "issued", \A u \in users : token[u] # f
       PROVE  form'[f] = form[f] /\ ~(form[f].user \in users /\ form[f].date = date)
    BY <1>5, <1>10 DEF Issued
<1>11. OneValidForm'
  <2> SUFFICES ASSUME NEW f \in Forms, NEW g \in Forms,
                      form'[f].status = "issued", form'[g].status = "issued",
                      form'[f].user = form'[g].user, form'[f].date = form'[g].date
               PROVE  f = g
      BY DEF OneValidForm
  <2>1. CASE \E u \in users : token[u] = f
    <3>1. PICK u \in users : token[u] = f
        BY <2>1
    <3>2. form'[f].user = u /\ form'[f].date = date
        BY <1>4, <3>1
    <3>3. CASE \A v \in users : token[v] # g
        BY <1>10, <3>2, <3>3
    <3>4. CASE \E v \in users : token[v] = g
      <4>1. PICK v \in users : token[v] = g
          BY <3>4
      <4>2. form'[g].user = v
          BY <1>4, <4>1
      <4> QED
          BY <3>1, <3>2, <4>1, <4>2
    <3> QED
        BY <3>3, <3>4
  <2>2. CASE \A u \in users : token[u] # f
    <3>1. form'[f] = form[f] /\ ~(form[f].user \in users /\ form[f].date = date)
        BY <1>10, <2>2
    <3>2. CASE \A v \in users : token[v] # g
      <4>1. form'[g] = form[g]
          BY <1>10, <3>2
      <4> QED
          BY <3>1, <4>1 DEF Sound, FormsSound, OneValidForm
    <3>3. CASE \E v \in users : token[v] = g
        BY <1>4, <3>1, <3>3
    <3> QED
        BY <3>2, <3>3
  <2> QED
      BY <2>1, <2>2
<1> QED
    BY <1>1, <1>7, <1>9, <1>11, SheetsKept DEF Sound, FormsSound

\* A demonstration record: its form is the only one of its prisoner and date.
LEMMA DemoSound ==
    ASSUME TypeOK, TypeOK', Sound, NEW s \in Sheets, NEW f \in Forms, NEW u \in Users,
           CreateDemoRecord(s, f, u)
    PROVE  Sound' /\ Stays
<1>1. /\ form \in [Forms -> FormRows] /\ sheet \in [Sheets -> SheetRows] /\ day \in Nat
      /\ orders' = orders /\ sheet[s].status = "absent" /\ form[f].status = "absent"
      /\ form[f].reason # "conflict" /\ Issued({u}, day + 1) = {} /\ day + 1 \in Nat
  <2>1. /\ form \in [Forms -> FormRows] /\ sheet \in [Sheets -> SheetRows] /\ day \in Nat
      BY DEF TypeOK
  <2>2. /\ orders' = orders /\ sheet[s].status = "absent" /\ form[f].status = "absent"
        /\ Issued({u}, day + 1) = {}
      BY DEF CreateDemoRecord
  <2>3. form[f].reason # "conflict"
      BY <2>2 DEF Sound, ConflictVoids
  <2>4. day + 1 \in Nat
      BY <2>1
  <2> QED
      BY <2>1, <2>2, <2>3, <2>4
<1>2. /\ form'[f].status = "issued" /\ form'[f].reason = None /\ form'[f].user = u
      /\ form'[f].date = day + 1
      /\ \A g \in Forms \ {f} : form'[g] = form[g]
  <2>1. form' = [form EXCEPT ![f] = [NoForm EXCEPT !.status = "issued", !.user = u,
                                                   !.date = day + 1, !.reserved = s]]
      BY DEF CreateDemoRecord
  <2>2. NoForm \in FormRows /\ NoForm.reason = None
      BY EmptyRows DEF NoForm
  <2>3. /\ form'[f] = [NoForm EXCEPT !.status = "issued", !.user = u,
                                     !.date = day + 1, !.reserved = s]
        /\ \A g \in Forms \ {f} : form'[g] = form[g]
      BY <1>1, <2>1
  <2> QED
      BY <2>2, <2>3 DEF FormRows
<1>3. \A c \in Sheets : SheetMoves(c)
  <2> DEFINE row == [NoSheet EXCEPT
                        !.status = "flagged", !.mode = "issued", !.date = day + 1, !.paper = f,
                        !.form = f, !.processed = day, !.image = "kept"]
  <2>1. sheet' = [sheet EXCEPT ![s] = row]
      BY DEF CreateDemoRecord
  <2>2. row \in SheetRows /\ row.status = "flagged" /\ row.form = f /\ ~row.order
    <3>1. NoSheet \in SheetRows /\ ~NoSheet.order
        BY EmptyRows DEF NoSheet
    <3> QED
        BY <1>1, <3>1 DEF SheetRows, Modes
  <2> HIDE DEF row
  <2> QED
      BY <1>1, <2>1, <2>2, OneSheet DEF Unprocessed
<1>4. \A g \in Forms : FormMoves(g)
    BY <1>1, <1>2 DEF FormMoves
<1>5. OrdersSound'
    BY <1>1, <1>3, <1>4, OrdersKept DEF Sound
<1>6. \A g \in Forms : form'[g].reason = "conflict" =>
          form[g].reason = "conflict" /\ form'[g].status = "void"
    BY <1>2, OmrAssumption DEF Sound, ConflictVoids
<1>7. ConflictStopsForm' /\ ConflictVoids'
    BY <1>3, <1>6, ConflictKept DEF Sound, FormsSound
<1>8. OneValidForm'
  <2>1. ASSUME NEW g \in Forms \ {f}, form'[g].status = "issued", form'[g].user = u
        PROVE  form'[g].date # day + 1
    <3>1. g \notin Issued({u}, day + 1)
        BY <1>1
    <3> QED
        BY <1>2, <2>1, <3>1 DEF Issued
  <2> QED
      BY <1>2, <2>1 DEF Sound, FormsSound, OneValidForm
<1> QED
    BY <1>3, <1>5, <1>7, <1>8, SheetsKept DEF Sound, FormsSound

-----------------------------------------------------------------------------
(* A confirmation *)

\* A flagged sheet is verified and its order made; its form, if it has one, is
\* not spent before and is spent by it.
Confirms(s, u) ==
    /\ sheet[s].status = "flagged"
    /\ sheet' = [sheet EXCEPT ![s] = Confirmed(sheet[s])]
    /\ orders' = Order(s, u)
    /\ \A g \in Forms \ {sheet[s].form} : form'[g] = form[g]
    /\ sheet[s].form # None =>
          /\ form[sheet[s].form].status \notin {"consumed", "void"}
          /\ form'[sheet[s].form].status = "consumed"
          /\ form'[sheet[s].form].consumed = s /\ form'[sheet[s].form].reserved = s
          /\ form'[sheet[s].form].user = u
          /\ form'[sheet[s].form].reason = form[sheet[s].form].reason

\* What it does to the sheets.
LEMMA ConfirmedSheets ==
    ASSUME TypeOK, SheetsInOrder, NEW s \in Sheets, NEW u \in Users \cup {None}, Confirms(s, u)
    PROVE  /\ sheet'[s].status = "verified" /\ sheet'[s].order
           /\ sheet'[s].form = sheet[s].form
           /\ \A c \in Sheets \ {s} : sheet'[c] = sheet[c]
<1>1. sheet \in [Sheets -> SheetRows] /\ sheet[s] \in SheetRows
    BY DEF TypeOK
<1>2. sheet'[s] = Confirmed(sheet[s]) /\ \A c \in Sheets \ {s} : sheet'[c] = sheet[c]
    BY <1>1 DEF Confirms
<1> QED
    BY <1>1, <1>2 DEF Confirmed, SheetRows

\* The orders before it concern other sheets and other forms.
LEMMA OtherOrders ==
    ASSUME TypeOK, Sound, NEW s \in Sheets, NEW u \in Users \cup {None}, Confirms(s, u),
           NEW i \in DOMAIN orders
    PROVE  /\ orders[i].sheet \in Sheets \ {s} /\ orders[i].form \in Forms \cup {None}
           /\ orders[i].form # None => orders[i].form # sheet[s].form
<1>1. orders[i] \in OrderRows
  <2>1. orders \in Seq(OrderRows)
      BY DEF TypeOK
  <2> QED
      BY <2>1
<1>2. sheet[orders[i].sheet].status = "verified"
      /\ (orders[i].form # None => form[orders[i].form].status = "consumed")
    BY DEF Sound, OrdersSound, OrdersBacked
<1> QED
    BY <1>1, <1>2 DEF OrderRows, Confirms

\* The orders stay in step.
LEMMA ConfirmedOrders ==
    ASSUME TypeOK, Sound, NEW s \in Sheets, NEW u \in Users \cup {None}, Confirms(s, u)
    PROVE  OrdersSound'
<1> DEFINE n == Len(orders) + 1
           new == [sheet |-> s, form |-> sheet[s].form, user |-> u]
<1>1. /\ DOMAIN orders' = DOMAIN orders \cup {n} /\ n \notin DOMAIN orders
      /\ orders'[n] = new /\ \A i \in DOMAIN orders : orders'[i] = orders[i]
  <2>1. orders \in Seq(OrderRows) /\ new \in OrderRows
      BY DEF TypeOK, OrderRows, SheetRows
  <2>2. orders' = Append(orders, new)
      BY DEF Confirms, Order
  <2> HIDE DEF new
  <2>3. Len(orders) \in Nat /\ DOMAIN orders = 1..Len(orders)
      BY <2>1
  <2>4. DOMAIN orders' = 1..n /\ orders'[n] = new
        /\ \A i \in DOMAIN orders : orders'[i] = orders[i]
      BY <2>1, <2>2
  <2> QED
      BY <2>3, <2>4
<1>2. new.sheet = s /\ new.form = sheet[s].form /\ new.user = u
    OBVIOUS
<1> HIDE DEF n, new
<1>3. /\ sheet'[s].status = "verified" /\ sheet'[s].order /\ sheet'[s].form = sheet[s].form
      /\ \A c \in Sheets \ {s} : sheet'[c] = sheet[c]
    BY ConfirmedSheets DEF Sound
<1>4. \A i \in DOMAIN orders :
          /\ orders[i].sheet \in Sheets \ {s} /\ orders[i].form \in Forms \cup {None}
          /\ orders[i].form # None => orders[i].form \in Forms \ {sheet[s].form}
    BY OtherOrders
<1>5. \A i \in DOMAIN orders :
          /\ sheet'[orders[i].sheet] = sheet[orders[i].sheet]
          /\ orders[i].form # None => form'[orders[i].form] = form[orders[i].form]
    BY <1>3, <1>4 DEF Confirms
<1>6. sheet[s].form \in Forms \cup {None}
    BY DEF TypeOK, SheetRows
<1>7. PaysOnce'
  <2>1. ASSUME NEW i \in DOMAIN orders'
        PROVE  orders'[i].form # None => orders'[i].user = form'[orders'[i].form].user
    <3>1. CASE i = n
        BY <1>1, <1>2, <3>1 DEF Confirms
    <3>2. CASE i \in DOMAIN orders
      <4>1. orders[i].form # None => orders[i].user = form[orders[i].form].user
          BY <3>2 DEF Sound, OrdersSound, PaysOnce
      <4> QED
          BY <1>1, <1>5, <3>2, <4>1
    <3> QED
        BY <1>1, <3>1, <3>2
  <2>2. ASSUME NEW i \in DOMAIN orders', NEW j \in DOMAIN orders' \ {i}
        PROVE  /\ orders'[i].sheet # orders'[j].sheet
               /\ orders'[i].form # None => orders'[i].form # orders'[j].form
    <3>1. CASE i \in DOMAIN orders /\ j \in DOMAIN orders
      <4>1. /\ orders[i].sheet # orders[j].sheet
            /\ orders[i].form # None => orders[i].form # orders[j].form
          BY <2>2, <3>1 DEF Sound, OrdersSound, PaysOnce
      <4> QED
          BY <1>1, <3>1, <4>1
    <3>2. CASE i = n /\ j \in DOMAIN orders
        BY <1>1, <1>2, <1>4, <3>2
    <3>3. CASE i \in DOMAIN orders /\ j = n
        BY <1>1, <1>2, <1>4, <3>3
    <3> QED
        BY <1>1, <2>2, <3>1, <3>2, <3>3
  <2> QED
      BY <2>1, <2>2 DEF PaysOnce
<1>8. ASSUME NEW i \in DOMAIN orders'
      PROVE  /\ sheet'[orders'[i].sheet].status = "verified" /\ sheet'[orders'[i].sheet].order
             /\ sheet'[orders'[i].sheet].form = orders'[i].form
             /\ orders'[i].form # None =>
                   /\ form'[orders'[i].form].status = "consumed"
                   /\ form'[orders'[i].form].consumed = orders'[i].sheet
                   /\ form'[orders'[i].form].reserved = orders'[i].sheet
  <2>1. CASE i = n
      BY <1>1, <1>2, <1>3, <2>1 DEF Confirms
  <2>2. CASE i \in DOMAIN orders
    <3>1. /\ sheet[orders[i].sheet].status = "verified" /\ sheet[orders[i].sheet].order
          /\ sheet[orders[i].sheet].form = orders[i].form
          /\ orders[i].form # None =>
                /\ form[orders[i].form].status = "consumed"
                /\ form[orders[i].form].consumed = orders[i].sheet
                /\ form[orders[i].form].reserved = orders[i].sheet
        BY <2>2 DEF Sound, OrdersSound, OrdersBacked
    <3> QED
        BY <1>1, <1>5, <2>2, <3>1
  <2> QED
      BY <1>1, <2>1, <2>2
<1>9. ASSUME NEW c \in Sheets, sheet'[c].status = "verified"
      PROVE  \E i \in DOMAIN orders' : orders'[i].sheet = c
  <2>1. CASE c = s
      BY <1>1, <1>2, <2>1
  <2>2. CASE c # s
    <3>1. PICK i \in DOMAIN orders : orders[i].sheet = c
        BY <1>3, <1>9, <2>2 DEF Sound, OrdersSound, OrdersBacked
    <3> QED
        BY <1>1, <3>1
  <2> QED
      BY <2>1, <2>2
<1>10. ASSUME NEW f \in Forms, form'[f].status = "consumed"
       PROVE  \E i \in DOMAIN orders' : orders'[i].form = f
  <2>1. CASE f = sheet[s].form
      BY <1>1, <1>2, <2>1
  <2>2. CASE f # sheet[s].form
    <3>1. form[f].status = "consumed"
        BY <1>10, <2>2 DEF Confirms
    <3>2. PICK i \in DOMAIN orders : orders[i].form = f
        BY <3>1 DEF Sound, OrdersSound, OrdersBacked
    <3> QED
        BY <1>1, <3>2
  <2> QED
      BY <2>1, <2>2
<1>11. OrdersBacked'
    BY <1>8, <1>9, <1>10 DEF OrdersBacked
<1> QED
    BY <1>7, <1>11 DEF OrdersSound

\* Everything does.
LEMMA ConfirmsSound ==
    ASSUME TypeOK, TypeOK', Sound, NEW s \in Sheets, NEW u \in Users \cup {None}, Confirms(s, u)
    PROVE  Sound' /\ Stays
<1>1. /\ sheet'[s].status = "verified" /\ sheet'[s].order /\ sheet'[s].form = sheet[s].form
      /\ \A c \in Sheets \ {s} : sheet'[c] = sheet[c]
    BY ConfirmedSheets DEF Sound
<1>2. sheet[s].form \in Forms \cup {None} /\ sheet[s].status = "flagged"
    BY DEF TypeOK, SheetRows, Confirms
<1>3. OrdersSound'
    BY ConfirmedOrders
<1>4. SheetsInOrder'
    BY <1>1, <1>2 DEF Sound, SheetsInOrder, Unprocessed
<1>5. \A f \in Forms : /\ form'[f].reason = form[f].reason \/ form'[f] = form[f]
                       /\ f = sheet[s].form => form[f].status # "void"
                                               /\ form'[f].status = "consumed"
                       /\ f # sheet[s].form => form'[f] = form[f]
    BY <1>2, OmrAssumption DEF Confirms
<1>6. ConflictVoids' /\ ConflictStopsForm'
  <2>1. ASSUME NEW f \in Forms, form'[f].reason = "conflict"
        PROVE  form[f].reason = "conflict" /\ f # sheet[s].form /\ form'[f] = form[f]
      BY <1>5, <2>1 DEF Sound, ConflictVoids
  <2>2. ConflictVoids'
      BY <2>1 DEF Sound, ConflictVoids
  <2>3. ASSUME NEW f \in Forms, form'[f].reason = "conflict", NEW c \in Sheets, sheet'[c].form = f
        PROVE  sheet'[c].status = "rejected"
    <3>1. form[f].reason = "conflict" /\ f # sheet[s].form
        BY <2>1, <2>3
    <3>2. c # s
        BY <1>1, <2>3, <3>1
    <3> QED
        BY <1>1, <2>3, <3>1, <3>2 DEF Sound, FormsSound, ConflictStopsForm
  <2> QED
      BY <2>2, <2>3 DEF ConflictStopsForm
<1>7. OneValidForm'
    BY <1>5 DEF Sound, FormsSound, OneValidForm
<1>8. Stays
    BY <1>1, <1>2 DEF Stays
<1> QED
    BY <1>3, <1>4, <1>6, <1>7, <1>8 DEF Sound, FormsSound

\* Both kinds of confirmation are ones; a form that can no longer pay turns its
\* sheet down.
LEMMA ConfirmStepsSound ==
    ASSUME TypeOK, TypeOK', Sound, NEW s \in Sheets,
           ConfirmIssued(s) \/ \E u \in Users : ConfirmGeneric(s, u)
    PROVE  Sound' /\ Stays
<1>1. /\ sheet \in [Sheets -> SheetRows] /\ sheet[s] \in SheetRows /\ day \in Nat
      /\ form \in [Forms -> FormRows] /\ sheet[s].form \in Forms \cup {None}
    BY DEF TypeOK, SheetRows
<1>2. CASE ConfirmIssued(s) /\ Conflict(sheet[s].form, s)
  <2>1. /\ sheet[s].status = "flagged" /\ form' = form /\ orders' = orders
        /\ sheet' = [sheet EXCEPT ![s].status = "rejected", ![s].processed = day]
      BY <1>2 DEF ConfirmIssued
  <2>2. /\ sheet' = [sheet EXCEPT ![s] = TurnedDown(sheet[s])]
        /\ TurnedDown(sheet[s]) \in SheetRows
      BY <1>1, <2>1, DeskRows
  <2>3. /\ TurnedDown(sheet[s]).status = "rejected" /\ TurnedDown(sheet[s]).form = sheet[s].form
        /\ TurnedDown(sheet[s]).order = sheet[s].order
      BY <1>1 DEF TurnedDown, SheetRows
  <2>4. ~sheet[s].order
      BY <2>1 DEF Sound, SheetsInOrder
  <2>5. \A c \in Sheets : SheetMoves(c)
      BY <2>1, <2>2, <2>3, <2>4, OneSheet DEF Unprocessed
  <2> QED
      BY <2>1, <2>5, SheetsStep
<1>3. CASE ConfirmIssued(s) /\ ~Conflict(sheet[s].form, s)
  <2> DEFINE f == sheet[s].form
  <2>1. f \in Forms /\ form[f] \in FormRows
      BY <1>1, <1>3 DEF ConfirmIssued
  <2>2. /\ sheet[s].status = "flagged"
        /\ sheet' = [sheet EXCEPT ![s].status = "verified", ![s].order = TRUE]
        /\ form' = [form EXCEPT ![f].status = "consumed", ![f].consumed = s]
        /\ orders' = Order(s, form[f].user)
      BY <1>3 DEF ConfirmIssued
  <2>3. form[f].status \notin {"consumed", "void"} /\ form[f].reserved = s
      BY <1>3 DEF Conflict
  <2>4. /\ form'[f] = [form[f] EXCEPT !.status = "consumed", !.consumed = s]
        /\ \A g \in Forms \ {f} : form'[g] = form[g]
      BY <1>1, <2>1, <2>2, PaidForm
  <2>5. /\ form'[f].status = "consumed" /\ form'[f].consumed = s
        /\ form'[f].reserved = form[f].reserved /\ form'[f].user = form[f].user
        /\ form'[f].reason = form[f].reason /\ form[f].user \in Users \cup {None}
      BY <2>1, <2>4 DEF FormRows
  <2>6. sheet' = [sheet EXCEPT ![s] = Confirmed(sheet[s])]
      BY <1>1, <2>2, DeskRows
  <2>7. Confirms(s, form[f].user)
      BY <2>2, <2>3, <2>4, <2>5, <2>6 DEF Confirms
  <2> QED
      BY <2>5, <2>7, ConfirmsSound
<1>4. ASSUME NEW u \in Users, ConfirmGeneric(s, u)
      PROVE  Sound' /\ Stays
  <2>1. /\ sheet[s].status = "flagged" /\ sheet[s].form = None /\ form' = form
        /\ sheet' = [sheet EXCEPT ![s].status = "verified", ![s].order = TRUE]
        /\ orders' = Order(s, u)
      BY <1>4 DEF ConfirmGeneric
  <2>2. sheet' = [sheet EXCEPT ![s] = Confirmed(sheet[s])]
      BY <1>1, <2>1, DeskRows
  <2>3. Confirms(s, u)
      BY <2>1, <2>2 DEF Confirms
  <2> QED
      BY <2>3, ConfirmsSound
<1> QED
    BY <1>2, <1>3, <1>4

-----------------------------------------------------------------------------
(* The processor keeps hold of its sheet *)

\* Its own steps.
LEMMA ProcessorHoldsOn ==
    ASSUME TypeOK, SheetsInOrder, ProcessorHolds, Processor \/ ProcessorError \/ Stop
    PROVE  ProcessorHolds'
<1>1. CASE proc' = Idle
    BY <1>1, IdleOK DEF ProcessorHolds
<1>2. CASE Load /\ proc' # Idle
  <2>1. /\ proc' = Holding("loaded", Head(queue), sheet[Head(queue)], NoneFound)
        /\ sheet[Head(queue)].status \in Unprocessed /\ sheet' = sheet /\ queue # <<>>
      BY <1>2 DEF Load
  <2>2. Head(queue) \in Sheets
      BY <2>1 DEF TypeOK
  <2>3. sheet[Head(queue)].form = None /\ ~sheet[Head(queue)].order
      BY <2>1, <2>2 DEF SheetsInOrder, Unprocessed
  <2> QED
      BY <2>1, <2>2, <2>3 DEF ProcessorHolds, Holding
<1>3. CASE MarkProcessing
  <2>1. /\ proc.sheet \in Sheets /\ proc.row \in SheetRows /\ proc.row.form = None
        /\ ~proc.row.order /\ sheet \in [Sheets -> SheetRows]
      BY <1>3, HeldSheet DEF MarkProcessing, TypeOK
  <2> DEFINE row == [proc.row EXCEPT !.status = "processing"]
  <2>2. row.form = None /\ ~row.order /\ row.status = "processing"
      BY <2>1, ProcessingRow
  <2>3. /\ proc' = Holding("marked", proc.sheet, row, NoneFound)
        /\ sheet' = [sheet EXCEPT ![proc.sheet] = row]
      BY <1>3 DEF MarkProcessing, Save
  <2> HIDE DEF row
  <2>4. sheet'[proc.sheet] = row
      BY <2>1, <2>3
  <2> QED
      BY <2>1, <2>2, <2>3, <2>4 DEF ProcessorHolds, Holding, Unprocessed
<1>4. CASE Recognise /\ proc' # Idle
    BY <1>4 DEF Recognise, ProcessorHolds, Holding
<1>5. CASE ResolveIssued /\ proc' # Idle
  <2> DEFINE bound == {c \in Sheets : sheet[c].form = proc.row.paper} \cup {proc.sheet}
  <2>1. /\ proc' = Holding("conflict", proc.sheet, proc.row, [c \in bound |-> sheet[c]])
        /\ sheet' = sheet /\ form' = form /\ ValidForm(proc.row.paper, proc.sheet)
        /\ proc.pc = "recognised" /\ proc.row.paper \in Forms
      BY <1>5 DEF ResolveIssued
  <2>2. form[proc.row.paper].status = "issued"
      BY <2>1 DEF ValidForm
  <2>3. /\ proc'.pc = "conflict" /\ proc'.sheet = proc.sheet /\ proc'.row = proc.row
        /\ DOMAIN proc'.found = bound
      BY <2>1 DEF Holding
  <2> QED
      BY <2>1, <2>2, <2>3 DEF ProcessorHolds
<1> QED
    BY <1>1, <1>2, <1>3, <1>4, <1>5
    DEF Processor, ProcessorError, Stop, MarkProcessing, ResolveGeneric, RejectConflict

\* Nobody else decides its sheet, or gives it another form; while it holds the
\* locks of a form, no batch voids it and no sheet joins or leaves it.
LEMMA OthersLeaveIt ==
    ASSUME TypeOK, SheetsInOrder, ProcessorHolds,
           \/ \E mode \in Modes : Boot(mode)
           \/ RecoverDueWork \/ NextDay \/ PurgeDue
           \/ \E t \in Templates : Activate(t) \/ Retire(t)
           \/ \E users \in SUBSET Users, date \in day..(day + 1) : IssueBatch(users, date)
           \/ \E u \in Users : SetActive(u)
           \/ \E s \in Sheets :
                 \/ RetryDue(s) \/ ConfirmIssued(s) \/ Reject(s)
                 \/ \E u \in Users : ConfirmGeneric(s, u)
                 \/ \E f \in Forms, u \in Users : CreateDemoRecord(s, f, u)
                 \/ \E paper \in Forms \cup Templates \cup {None} : Submit(s, paper)
    PROVE  ProcessorHolds'
<1>1. /\ sheet \in [Sheets -> SheetRows] /\ form \in [Forms -> FormRows] /\ day \in Nat
    BY DEF TypeOK
<1>2. /\ proc.pc # "idle" => proc.sheet \in Sheets /\ sheet[proc.sheet].status \in Unprocessed
      /\ proc.pc = "conflict" => /\ proc.row.paper \in Forms
                                 /\ form[proc.row.paper].status = "issued"
    BY DEF ProcessorHolds
<1>3. CASE sheet' = sheet /\ form' = form /\ proc' = proc
    BY <1>2, <1>3, ProcStays
<1>4. ASSUME proc' = proc, form' = form, NEW s \in Sheets, NEW row \in SheetRows,
             sheet[s].status \in Unprocessed => row.status \in Unprocessed,
             row.form = sheet[s].form, sheet' = [sheet EXCEPT ![s] = row]
      PROVE  ProcessorHolds'
  <2>1. sheet'[s] = row /\ \A c \in Sheets \ {s} : sheet'[c] = sheet[c]
      BY <1>1, <1>4
  <2>2. proc.pc # "idle" => sheet'[proc.sheet].status \in Unprocessed
      BY <1>2, <1>4, <2>1
  <2>3. \A c \in Sheets : sheet'[c].form = sheet[c].form
      BY <1>4, <2>1
  <2> QED
      BY <1>2, <1>4, <2>2, <2>3, ProcStays
<1>5. ASSUME NEW s \in Sheets, RetryDue(s)
      PROVE  ProcessorHolds'
  <2>1. /\ sheet' = [sheet EXCEPT ![s] = DueRow(sheet[s])] /\ DueRow(sheet[s]) \in SheetRows
        /\ proc' = proc /\ form' = form
      BY <1>1, <1>5, DeskRows DEF RetryDue
  <2>2. DueRow(sheet[s]).status = sheet[s].status /\ DueRow(sheet[s]).form = sheet[s].form
    <3>1. sheet[s] \in SheetRows
        BY <1>1
    <3> QED
        BY <3>1 DEF DueRow, SheetRows
  <2> QED
      BY <1>4, <2>1, <2>2
<1>6. ASSUME NEW s \in Sheets, Reject(s)
      PROVE  ProcessorHolds'
  <2>1. /\ sheet' = [sheet EXCEPT ![s] = TurnedDown(sheet[s])]
        /\ TurnedDown(sheet[s]) \in SheetRows /\ sheet[s].status = "flagged"
        /\ proc' = proc /\ form' = form
      BY <1>1, <1>6, DeskRows DEF Reject
  <2>2. TurnedDown(sheet[s]).form = sheet[s].form
    <3>1. sheet[s] \in SheetRows
        BY <1>1
    <3> QED
        BY <3>1 DEF TurnedDown, SheetRows
  <2> QED
      BY <1>4, <2>1, <2>2 DEF Unprocessed
<1>7. ASSUME NEW s \in Sheets, ConfirmIssued(s) \/ \E u \in Users : ConfirmGeneric(s, u)
      PROVE  ProcessorHolds'
  <2>1. /\ sheet[s].status = "flagged" /\ proc' = proc /\ sheet[s].form \in Forms \cup {None}
        /\ \/ sheet' = [sheet EXCEPT ![s] = TurnedDown(sheet[s])]
           \/ sheet' = [sheet EXCEPT ![s] = Confirmed(sheet[s])]
    <3>1. \/ sheet' = [sheet EXCEPT ![s].status = "verified", ![s].order = TRUE]
          \/ sheet' = [sheet EXCEPT ![s].status = "rejected", ![s].processed = day]
        BY <1>7 DEF ConfirmIssued, ConfirmGeneric
    <3>2. sheet[s].status = "flagged" /\ proc' = proc
        BY <1>7 DEF ConfirmIssued, ConfirmGeneric
    <3>3. sheet[s].form \in Forms \cup {None}
        BY <1>1 DEF SheetRows
    <3> QED
        BY <1>1, <3>1, <3>2, <3>3, DeskRows
  <2>2. /\ TurnedDown(sheet[s]).form = sheet[s].form /\ Confirmed(sheet[s]).form = sheet[s].form
    <3>1. sheet[s] \in SheetRows
        BY <1>1
    <3> QED
        BY <3>1 DEF TurnedDown, Confirmed, SheetRows
  <2>3. /\ sheet'[s].form = sheet[s].form /\ \A c \in Sheets \ {s} : sheet'[c] = sheet[c]
      BY <1>1, <2>1, <2>2
  <2>4. proc.pc # "idle" => sheet'[proc.sheet].status \in Unprocessed
      BY <1>2, <2>1, <2>3 DEF Unprocessed
  <2>5. \A f \in Forms : form'[f] = form[f] \/ FormFree(f)
    <3>1. form' = form \/ (FormFree(sheet[s].form) /\ \A f \in Forms \ {sheet[s].form} :
                                                             form'[f] = form[f])
        BY <1>1, <1>7 DEF ConfirmIssued, ConfirmGeneric
    <3> QED
        BY <3>1
  <2>6. proc.pc = "conflict" => form'[proc.row.paper].status = "issued"
      BY <1>2, <2>5 DEF FormFree, Resolving
  <2> QED
      BY <2>1, <2>3, <2>4, <2>6, ProcStays
<1>8. ASSUME NEW s \in Sheets, NEW paper \in Forms \cup Templates \cup {None}, Submit(s, paper)
      PROVE  ProcessorHolds'
  <2>1. sheet[s].status = "absent" /\ sheet[s].form = None /\ proc' = proc /\ form' = form
      BY <1>8 DEF Submit, SheetsInOrder
  <2>2. sheet'[s].form = None /\ \A c \in Sheets \ {s} : sheet'[c] = sheet[c]
    <3>1. NoSheet \in SheetRows /\ NoSheet.form = None
        BY EmptyRows DEF NoSheet
    <3>2. /\ sheet'[s] = [NoSheet EXCEPT !.status = "pending", !.mode = server.mode,
                                         !.date = day + 1, !.paper = paper, !.image = "kept"]
          /\ \A c \in Sheets \ {s} : sheet'[c] = sheet[c]
        BY <1>1, <1>8 DEF Submit
    <3> QED
        BY <3>1, <3>2 DEF SheetRows
  <2>3. proc.pc # "idle" => sheet'[proc.sheet].status \in Unprocessed
      BY <1>2, <2>1, <2>2 DEF Unprocessed
  <2>4. \A c \in Sheets : sheet'[c].form = sheet[c].form
      BY <2>1, <2>2
  <2> QED
      BY <1>2, <2>1, <2>3, <2>4, ProcStays
<1>9. ASSUME NEW s \in Sheets, NEW f \in Forms, NEW u \in Users, CreateDemoRecord(s, f, u)
      PROVE  ProcessorHolds'
  <2>1. /\ sheet[s].status = "absent" /\ sheet[s].form = None /\ proc' = proc
        /\ form[f].status = "absent"
      BY <1>9 DEF CreateDemoRecord, SheetsInOrder
  <2>2. /\ sheet'[s].form = f /\ \A c \in Sheets \ {s} : sheet'[c] = sheet[c]
    <3>1. NoSheet \in SheetRows
        BY EmptyRows
    <3>2. /\ sheet'[s] = [NoSheet EXCEPT
                    !.status = "flagged", !.mode = "issued", !.date = day + 1, !.paper = f,
                    !.form = f, !.processed = day, !.image = "kept"]
          /\ \A c \in Sheets \ {s} : sheet'[c] = sheet[c]
        BY <1>1, <1>9 DEF CreateDemoRecord
    <3> QED
        BY <3>1, <3>2 DEF SheetRows
  <2>3. \A g \in Forms \ {f} : form'[g] = form[g]
      BY <1>1, <1>9 DEF CreateDemoRecord
  <2>4. proc.pc # "idle" => sheet'[proc.sheet].status \in Unprocessed
      BY <1>2, <2>1, <2>2 DEF Unprocessed
  <2>5. proc.pc = "conflict" =>
            /\ form'[proc.row.paper].status = "issued"
            /\ \A c \in Sheets : sheet'[c].form = proc.row.paper
                                   <=> sheet[c].form = proc.row.paper
    <3>1. proc.pc = "conflict" => proc.row.paper # f /\ proc.row.paper # None
        BY <1>2, <2>1, OmrAssumption
    <3> QED
        BY <1>2, <2>1, <2>2, <2>3, <3>1
  <2> QED
      BY <2>1, <2>4, <2>5, ProcStays
<1>10. ASSUME NEW users \in SUBSET Users, NEW date \in day..(day + 1), IssueBatch(users, date)
       PROVE  ProcessorHolds'
  <2>1. PICK token \in [users -> {f \in Forms : form[f].status = "absent"}] :
            /\ \A u, v \in users : u # v => token[u] # token[v]
            /\ CommitBatch(users, date, token)
      BY <1>10 DEF IssueBatch
  <2>2. BatchResult(users, date, token)
    <3>1. date \in Nat
        BY <1>1
    <3> QED
        BY <1>1, <2>1, <3>1, BatchForms
  <2>3. /\ sheet' = sheet /\ proc' = proc
        /\ \A f \in Issued(users, date) : FormFree(f)
      BY <1>10 DEF IssueBatch
  <2>4. proc.pc = "conflict" => form'[proc.row.paper].status = "issued"
    <3> SUFFICES ASSUME proc.pc = "conflict"
                 PROVE  form'[proc.row.paper].status = "issued"
        OBVIOUS
    <3>1. \A u \in users : token[u] # proc.row.paper
        BY <1>2, <2>2 DEF BatchResult
    <3>2. proc.row.paper \notin Issued(users, date)
        BY <2>3 DEF FormFree, Resolving
    <3> QED
        BY <1>2, <2>2, <3>1, <3>2 DEF BatchResult
  <2> QED
      BY <1>2, <2>3, <2>4, ProcStays
<1>11. ASSUME PurgeDue
       PROVE  ProcessorHolds'
  <2>1. ASSUME NEW s \in Sheets
        PROVE  \/ sheet'[s] = sheet[s]
               \/ sheet'[s] = Purged(sheet[s]) /\ sheet[s].status \in Terminal
      BY <1>1, <1>11 DEF PurgeDue, PurgeFilesFirst, PurgeEligible
  <2>2. \A s \in Sheets : Purged(sheet[s]).form = sheet[s].form
      BY <1>1, PurgedRow
  <2>3. \A s \in Sheets : /\ sheet'[s].form = sheet[s].form
                          /\ sheet[s].status \in Unprocessed => sheet'[s] = sheet[s]
      BY <2>1, <2>2 DEF Terminal, Unprocessed
  <2>4. proc' = proc /\ form' = form
      BY <1>11 DEF PurgeDue
  <2> QED
      BY <1>2, <2>3, <2>4, ProcStays
<1>12. CASE \/ \E mode \in Modes : Boot(mode)
            \/ RecoverDueWork \/ NextDay
            \/ \E t \in Templates : Activate(t) \/ Retire(t)
            \/ \E u \in Users : SetActive(u)
    BY <1>3, <1>12 DEF Boot, RecoverDueWork, NextDay, Activate, Retire, SetActive
<1> QED
    BY <1>5, <1>6, <1>7, <1>8, <1>9, <1>10, <1>11, <1>12

-----------------------------------------------------------------------------
(* The theorems *)

\* Every step keeps what is sound, and what is decided.
LEMMA StepSound ==
    ASSUME TypeOK, TypeOK', Sound, ProcessorHolds, [Next]_vars
    PROVE  Sound' /\ Stays
<1>1. CASE UNCHANGED vars
    BY <1>1, QuietSound DEF vars
<1>2. CASE Processor
    BY <1>2, ProcessorSound, ResolveIssuedSound, RejectConflictSound DEF Processor
<1>3. CASE \/ \E mode \in Modes : Boot(mode)
           \/ Stop \/ RecoverDueWork \/ NextDay \/ ProcessorError
           \/ \E t \in Templates : Activate(t) \/ Retire(t)
           \/ \E u \in Users : SetActive(u)
    BY <1>3, QuietSound DEF Boot, Stop, RecoverDueWork, NextDay, ProcessorError, Activate,
                            Retire, SetActive
<1>4. CASE PurgeDue
    BY <1>4, PurgeSound
<1>5. ASSUME NEW users \in SUBSET Users, NEW date \in day..(day + 1), IssueBatch(users, date)
      PROVE  Sound' /\ Stays
  <2>1. date \in Nat
      BY DEF TypeOK
  <2> QED
      BY <1>5, <2>1, IssueBatchSound
<1>6. ASSUME NEW s \in Sheets,
             \/ RetryDue(s) \/ ConfirmIssued(s) \/ Reject(s)
             \/ \E u \in Users : ConfirmGeneric(s, u)
             \/ \E f \in Forms, u \in Users : CreateDemoRecord(s, f, u)
             \/ \E paper \in Forms \cup Templates \cup {None} : Submit(s, paper)
      PROVE  Sound' /\ Stays
    BY <1>6, SheetStepsSound, ConfirmStepsSound, DemoSound
<1> QED
    BY <1>1, <1>2, <1>3, <1>4, <1>5, <1>6 DEF Next

\* The inductive invariant holds initially ...
LEMMA InitIInv == Init => IInv
<1> SUFFICES ASSUME Init
             PROVE  IInv
    OBVIOUS
<1>1. TypeOK
  <2>1. ProcOK(proc)
      BY IdleOK DEF Init
  <2>2. sheet \in [Sheets -> SheetRows] /\ form \in [Forms -> FormRows]
      BY EmptyRows DEF Init
  <2>3. server \in [up: BOOLEAN, mode: Modes]
      BY DEF Init, Modes
  <2>4. orders \in Seq(OrderRows) /\ queue \in Seq(Sheets)
      BY DEF Init
  <2> QED
      BY <2>1, <2>2, <2>3, <2>4, TypeParts DEF Init
<1>2. \A s \in Sheets : /\ sheet[s].status = "absent" /\ sheet[s].form = None
                        /\ ~sheet[s].order
    BY DEF Init, NoSheet
<1>3. \A f \in Forms : form[f].status = "absent" /\ form[f].reason = None
    BY DEF Init, NoForm
<1>4. DOMAIN orders = {}
    BY DEF Init
<1>5. SheetsInOrder
    BY <1>2 DEF SheetsInOrder
<1>6. ProcessorHolds
    BY IdleOK DEF Init, ProcessorHolds
<1>7. ConflictVoids /\ FormsSound
    BY <1>3, OmrAssumption DEF ConflictVoids, FormsSound, ConflictStopsForm, OneValidForm
<1>8. OrdersSound
    BY <1>2, <1>3, <1>4 DEF OrdersSound, PaysOnce, OrdersBacked
<1> QED
    BY <1>1, <1>5, <1>6, <1>7, <1>8 DEF IInv

\* ... and every step keeps it.
LEMMA StepIInv == IInv /\ [Next]_vars => IInv' /\ Stays
<1> SUFFICES ASSUME IInv, [Next]_vars
             PROVE  IInv' /\ Stays
    OBVIOUS
<1>1. TypeOK /\ Sound /\ SheetsInOrder /\ ProcessorHolds
    BY DEF IInv, Sound
<1>2. TypeOK'
    BY <1>1, TypesKept
<1>3. Sound' /\ Stays
    BY <1>1, <1>2, StepSound
<1>4. ProcessorHolds'
  <2>1. CASE UNCHANGED vars
      BY <1>1, <2>1 DEF vars, ProcessorHolds
  <2>2. CASE Processor \/ ProcessorError \/ Stop
      BY <1>1, <2>2, ProcessorHoldsOn
  <2>3. CASE Next /\ ~(Processor \/ ProcessorError \/ Stop)
      BY <1>1, <2>3, OthersLeaveIt DEF Next
  <2> QED
      BY <2>1, <2>2, <2>3
<1> QED
    BY <1>2, <1>3, <1>4 DEF IInv, Sound

\* The inductive invariant holds.
THEOREM IInvHolds == Spec => []IInv
<1>1. Init => IInv
    BY InitIInv
<1>2. IInv /\ [Next]_vars => IInv'
    BY StepIInv
<1> QED
    BY <1>1, <1>2, PTL DEF Spec

\* Orders, sheets and forms stay in step, and no sheet and no form pays twice,
\* whatever is scanned, reissued, retried or purged (scan-processor.service.ts,
\* verify.service.ts, forms.service.ts).
THEOREM OrdersAreSound == Spec => []OrdersSound
<1>1. IInv => OrdersSound
    BY DEF IInv
<1> QED
    BY <1>1, IInvHolds, PTL

\* A prisoner has one valid form for a date, and a form whose token has been seen
\* on two papers can never be confirmed.
THEOREM FormsAreSound == Spec => []FormsSound
<1>1. IInv => FormsSound
    BY DEF IInv
<1> QED
    BY <1>1, IInvHolds, PTL

\* A verified or rejected sheet stays so: no queue entry, late write of the
\* processor, second scan or purge takes a decision back.
THEOREM DecisionsStay == Spec => DecidedStays
<1>1. IInv /\ [Next]_vars =>
        [\A s \in Sheets : sheet[s].status \in {"verified", "rejected"} =>
              /\ sheet'[s].status = sheet[s].status
              /\ sheet'[s].order = sheet[s].order]_vars
    BY StepIInv DEF Stays
<1> QED
    BY <1>1, IInvHolds, PTL DEF Spec, DecidedStays
=============================================================================
