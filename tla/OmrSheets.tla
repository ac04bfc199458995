----------------------------- MODULE OmrSheets ------------------------------
(***************************************************************************)
(* Paper order forms: issued and generic forms, the sheets scanned from    *)
(* them, the serial processor of the backend with its sweeps and retries,  *)
(* the operators who confirm or reject, and the nightly purge.             *)
(*                                                                         *)
(* A transaction that locks all the rows it touches before it reads them   *)
(* is one step.  Two are not: the processor holds its sheet in memory      *)
(* across the calls of the recognition service, and resolveIssuedToken     *)
(* reads the other sheets of a form without locking them.  Everything a    *)
(* confirmation does to orders and money is in OrdersLedger; here an order *)
(* is only recorded.                                                       *)
(***************************************************************************)
EXTENDS Integers, Sequences, FiniteSets

CONSTANTS
    Sheets,     \* scanned images, told apart by their checksum
    Forms,      \* tokens of issued forms
    Templates,  \* versions of the form layout (of one form mode)
    Users,      \* prisoners
    None,       \* the SQL NULL, and the reference of an unreadable paper
    RetentionDays, \* SCAN_RETENTION_DAYS
    MaxAttempts,   \* MAX_PROCESSING_ATTEMPTS
    MaxDay,     \* bound: days that pass
    MaxQueue,   \* bound: length of the promise chain
    MaxFaults   \* bound: crashes, database errors and releases of prisoners

ASSUME OmrAssumption ==
    /\ RetentionDays \in Nat \ {0} /\ MaxAttempts \in Nat \ {0}
    /\ MaxDay \in Nat /\ MaxQueue \in Nat \ {0} /\ MaxFaults \in Nat
    /\ None \notin Sheets \cup Forms \cup Templates \cup Users
    /\ Forms \cap Templates = {} /\ IsFiniteSet(Sheets) /\ None # "conflict"

VARIABLES
    server,     \* is the backend up, and OMR_OPERATIONAL_FORM_MODE
    queue,      \* the promise chain of the processor
    proc,       \* what processSheet holds in memory
    sheet,      \* the sheets table
    form,       \* the issued_omr_forms table
    template,   \* the omr_form_templates table
    active,     \* users.is_active
    files,      \* sheets whose image is on disk
    orders,     \* the calls of createOrReplace, in order
    day,
    stranded,   \* history: sheets a database error left in processing since the last boot
    faults

vars == <<server, queue, proc, sheet, form, template, active, files, orders, day, stranded,
          faults>>

Fault == faults < MaxFaults /\ faults' = faults + 1

-----------------------------------------------------------------------------
(* Rows *)

Modes == {"issued", "generic"}

NoSheet == [status |-> "absent", mode |-> None, date |-> 0, paper |-> None, form |-> None,
            template |-> None, attempts |-> 0, due |-> TRUE, processed |-> None,
            image |-> None, order |-> FALSE]

NoForm == [status |-> "absent", user |-> None, date |-> 0, reserved |-> None,
           consumed |-> None, reason |-> None]

Holding(pc, s, row, found) == [pc |-> pc, sheet |-> s, row |-> row, found |-> found]

NoneFound == [s \in {} |-> NoSheet]

Idle == Holding("idle", None, NoSheet, NoneFound)

Unprocessed == {"pending", "processing"}

Terminal == {"flagged", "verified", "rejected"}

\* rejectSheet and finalise(REJECTED); the order is only cleared by the former,
\* and a sheet in processing has none.
Rejected(row) == [row EXCEPT !.status = "rejected", !.order = FALSE,
                             !.processed = day, !.due = TRUE]

\* resolveIssuedToken keeps its form and its sheet locked between its steps.
Resolving == proc.pc = "conflict"

SheetFree(s) == ~(Resolving /\ proc.sheet = s)

FormFree(f) == ~(Resolving /\ proc.row.paper = f)

-----------------------------------------------------------------------------
(* The backend process *)

Listings(S) == {q \in [1..Cardinality(S) -> S] : \A i, j \in DOMAIN q : i # j => q[i] # q[j]}

\* Mutant: a sheet in processing is left to whoever processes it.
BootPending(mode) ==
    /\ ~server.up
    /\ server' = [up |-> TRUE, mode |-> mode]
    /\ queue' \in Listings({s \in Sheets : sheet[s].status = "pending"})
    /\ stranded' = {}
    /\ UNCHANGED <<proc, sheet, form, template, active, files, orders, day, faults>>

\* onApplicationBootstrap: the sweep selects ids only, so a retry time that has
\* not come does not hold a sheet back.
Boot(mode) ==
    /\ ~server.up
    /\ server' = [up |-> TRUE, mode |-> mode]
    /\ queue' \in Listings({s \in Sheets : sheet[s].status \in Unprocessed})
    /\ stranded' = {}
    /\ UNCHANGED <<proc, sheet, form, template, active, files, orders, day, faults>>

\* A crash, or a shutdown: what is in memory is lost, a transaction under way
\* is rolled back.
Stop ==
    /\ server.up /\ Fault
    /\ server' = [server EXCEPT !.up = FALSE]
    /\ queue' = <<>>
    /\ proc' = Idle
    /\ UNCHANGED <<sheet, form, template, active, files, orders, day, stranded>>

\* recoverDueWork: every 30 seconds, whether or not a sheet is queued already.
RecoverDueWork ==
    LET due == {s \in Sheets : sheet[s].status = "pending" /\ sheet[s].due}
    IN  /\ server.up
        /\ due # {} /\ Len(queue) + Cardinality(due) <= MaxQueue
        /\ \E q \in Listings(due) : queue' = queue \o q
        /\ UNCHANGED <<server, proc, sheet, form, template, active, files, orders, day, stranded, faults>>

\* The time in nextRetryAt has come.
RetryDue(s) ==
    /\ ~sheet[s].due
    /\ sheet' = [sheet EXCEPT ![s].due = TRUE]
    /\ UNCHANGED <<server, queue, proc, form, template, active, files, orders, day, stranded, faults>>

NextDay ==
    /\ day < MaxDay
    /\ day' = day + 1
    /\ UNCHANGED <<server, queue, proc, sheet, form, template, active, files, orders, stranded, faults>>

-----------------------------------------------------------------------------
(* Templates and forms *)

\* activate: the new version replaces the active one.
Activate(t) ==
    /\ server.up /\ template[t] = "absent"
    /\ template' = [u \in Templates |-> IF u = t THEN "active"
                                        ELSE IF template[u] = "active" THEN "retired"
                                        ELSE template[u]]
    /\ UNCHANGED <<server, queue, proc, sheet, form, active, files, orders, day, stranded, faults>>

Retire(t) ==
    /\ server.up /\ template[t] = "active"
    /\ template' = [template EXCEPT ![t] = "retired"]
    /\ UNCHANGED <<server, queue, proc, sheet, form, active, files, orders, day, stranded, faults>>

Issued(users, date) ==
    {f \in Forms : form[f].status = "issued" /\ form[f].user \in users /\ form[f].date = date}

\* commitBatch: earlier forms of the same prisoners and date are void.
CommitBatch(users, date, token) ==
    form' = [f \in Forms |->
                IF \E u \in users : token[u] = f
                THEN [NoForm EXCEPT !.status = "issued", !.date = date,
                                    !.user = CHOOSE u \in users : token[u] = f]
                ELSE IF f \in Issued(users, date)
                THEN [form[f] EXCEPT !.status = "void", !.reason = "reissued"]
                ELSE form[f]]

\* issueBatch.  What it reads before the rendering is read again under locks by
\* commitBatch, all but the date: rendering may end after midnight.
IssueBatch(users, date) ==
    /\ server.up /\ server.mode = "issued"
    /\ users # {} /\ \A u \in users : active[u]
    /\ \E t \in Templates : template[t] = "active"
    /\ date \in {day, day + 1} \ {0}
    /\ \A f \in Issued(users, date) : FormFree(f)
    /\ \E token \in [users -> {f \in Forms : form[f].status = "absent"}] :
          /\ \A u, v \in users : u # v => token[u] # token[v]
          /\ CommitBatch(users, date, token)
    /\ UNCHANGED <<server, queue, proc, sheet, template, active, files, orders, day, stranded, faults>>

\* createDemoRecord: a form and its sheet, flagged, in one transaction.
CreateDemoRecord(s, f, u) ==
    /\ server.up /\ sheet[s].status = "absent" /\ form[f].status = "absent"
    /\ active[u] /\ Issued({u}, day + 1) = {}
    /\ form' = [form EXCEPT ![f] = [NoForm EXCEPT !.status = "issued", !.user = u,
                                                  !.date = day + 1, !.reserved = s]]
    /\ sheet' = [sheet EXCEPT ![s] = [NoSheet EXCEPT
                    !.status = "flagged", !.mode = "issued", !.date = day + 1, !.paper = f,
                    !.form = f, !.processed = day, !.image = "kept"]]
    /\ files' = files \cup {s}
    /\ UNCHANGED <<server, queue, proc, template, active, orders, day, stranded, faults>>

\* A prisoner is released, or comes back.
SetActive(u) ==
    /\ Fault
    /\ active' = [active EXCEPT ![u] = ~@]
    /\ UNCHANGED <<server, queue, proc, sheet, form, template, files, orders, day, stranded>>

-----------------------------------------------------------------------------
(* Intake and processing *)

\* What the code on a paper can refer to: a form or a master that was printed,
\* or nothing the backend knows.
Papers == {f \in Forms : form[f].status # "absent"}
          \cup {t \in Templates : template[t] # "absent"} \cup {None}

\* submitAdmitted: the file first, then the row, then the queue.  The same
\* image again is refused by its checksum.
Submit(s, paper) ==
    /\ server.up /\ sheet[s].status = "absent" /\ Len(queue) < MaxQueue
    /\ paper \in Papers
    /\ sheet' = [sheet EXCEPT ![s] = [NoSheet EXCEPT
                    !.status = "pending", !.mode = server.mode, !.date = day + 1,
                    !.paper = paper, !.image = "kept"]]
    /\ files' = files \cup {s}
    /\ queue' = Append(queue, s)
    /\ UNCHANGED <<server, proc, form, template, active, orders, day, stranded, faults>>

\* Mutant: a queue entry is processed whatever has become of its sheet.
LoadAny ==
    /\ server.up /\ proc = Idle /\ queue # <<>>
    /\ queue' = Tail(queue)
    /\ proc' = Holding("loaded", Head(queue), sheet[Head(queue)], NoneFound)
    /\ UNCHANGED <<server, sheet, form, template, active, files, orders, day, stranded, faults>>

\* processSheet: an entry whose sheet has been resolved meanwhile is skipped.
Load ==
    LET s == Head(queue)
    IN  /\ server.up /\ proc = Idle /\ queue # <<>>
        /\ queue' = Tail(queue)
        /\ proc' = IF sheet[s].status \in Unprocessed
                   THEN Holding("loaded", s, sheet[s], NoneFound)
                   ELSE Idle
        /\ UNCHANGED <<server, sheet, form, template, active, files, orders, day, stranded, faults>>

\* repo.save(sheet): the row as it is in memory, however old, is written.
Save(row) == sheet' = [sheet EXCEPT ![proc.sheet] = row]

MarkProcessing ==
    /\ proc.pc = "loaded"
    /\ Save([proc.row EXCEPT !.status = "processing"])
    /\ proc' = Holding("marked", proc.sheet, [proc.row EXCEPT !.status = "processing"], NoneFound)
    /\ UNCHANGED <<server, queue, form, template, active, files, orders, day, stranded, faults>>

\* invalidFormBeforeRecognition, of a row read without a lock.
UsableForm(f, row) == form[f].status = "issued" /\ form[f].date = row.date

\* invalidGenericTemplateBeforeRecognition.
UsableTemplate(t, row) == row.mode = "generic" /\ template[t] = "active"

Usable(row) ==
    \/ row.paper \in Forms /\ UsableForm(row.paper, row)
    \/ row.paper \in Templates /\ UsableTemplate(row.paper, row)

\* A retryable error of the recognition service, or any other in that block.
AfterError(row) ==
    IF row.attempts + 1 >= MaxAttempts
    THEN Rejected([row EXCEPT !.attempts = @ + 1])
    ELSE [row EXCEPT !.attempts = @ + 1, !.status = "pending", !.processed = None,
                     !.due = FALSE]

\* identifyFormToken and processScan.  A paper that cannot be read or used, a
\* permanent error and a result that does not fit the form reject the sheet.
Recognise ==
    /\ proc.pc = "marked"
    /\ \/ /\ proc.sheet \in files /\ Usable(proc.row)
          /\ proc' = Holding("recognised", proc.sheet, proc.row, NoneFound)
          /\ UNCHANGED sheet
       \/ /\ proc.sheet \in files
          /\ Save(Rejected(proc.row))
          /\ proc' = Idle
       \/ /\ Save(AfterError(proc.row))
          /\ proc' = Idle
    /\ UNCHANGED <<server, queue, form, template, active, files, orders, day, stranded, faults>>

\* resolveGenericTemplate: the template is looked at again under a lock.
ResolveGeneric ==
    LET s == proc.sheet  t == proc.row.paper
    IN  /\ proc.pc = "recognised" /\ t \in Templates
        /\ sheet' = [sheet EXCEPT ![s] =
                        IF template[t] # "active" THEN Rejected(@)
                        ELSE [@ EXCEPT !.status = "flagged", !.template = t, !.order = FALSE,
                                       !.processed = day, !.due = TRUE]]
        /\ proc' = Idle
        /\ UNCHANGED <<server, queue, form, template, active, files, orders, day, stranded, faults>>

\* invalidFormFlag, under the locks.
ValidForm(f, s) ==
    form[f].status = "issued" /\ form[f].date = sheet[s].date /\ active[form[f].user]

\* Another sheet has been flagged for the same token.
Taken(f, s) == form[f].reserved \notin {None, s}

\* resolveIssuedToken, up to the point where a conflict has been seen: the form
\* and the sheet are locked, the other sheets of the form only read.
ResolveIssued ==
    LET s == proc.sheet  f == proc.row.paper
        bound == {c \in Sheets : sheet[c].form = f} \cup {s}
    IN  /\ proc.pc = "recognised" /\ f \in Forms
        /\ \/ /\ ~ValidForm(f, s)
              /\ sheet' = [sheet EXCEPT ![s] = Rejected(@)]
              /\ proc' = Idle
              /\ UNCHANGED form
           \/ /\ ValidForm(f, s) /\ Taken(f, s)
              /\ proc' = Holding("conflict", s, proc.row, [c \in bound |-> sheet[c]])
              /\ UNCHANGED <<sheet, form>>
           \/ /\ ValidForm(f, s) /\ ~Taken(f, s)
              /\ form' = [form EXCEPT ![f].reserved = s]
              /\ sheet' = [sheet EXCEPT ![s].status = "flagged", ![s].form = f,
                                        ![s].processed = day, ![s].due = TRUE]
              /\ proc' = Idle
        /\ UNCHANGED <<server, queue, template, active, files, orders, day, stranded, faults>>

\* Mutant: only the newcomer is rejected.
ConflictedNewcomer ==
    [sheet EXCEPT ![proc.sheet] = Rejected([@ EXCEPT !.form = proc.row.paper])]

\* Every sheet of the form, as it was read.
Conflicted ==
    [c \in Sheets |-> IF c \in DOMAIN proc.found
                      THEN Rejected([proc.found[c] EXCEPT !.form = proc.row.paper])
                      ELSE sheet[c]]

\* The rest of the transaction: two papers with one token, so neither counts.
RejectConflict ==
    /\ proc.pc = "conflict"
    /\ sheet' = Conflicted
    /\ form' = [form EXCEPT ![proc.row.paper].status = "void",
                            ![proc.row.paper].reason = "conflict"]
    /\ proc' = Idle
    /\ UNCHANGED <<server, queue, template, active, files, orders, day, stranded, faults>>

\* A database error outside the block that retries: the chain goes on, the
\* sheet stays as it was last saved.
ProcessorError ==
    /\ proc # Idle /\ Fault
    /\ proc' = Idle
    /\ stranded' = IF sheet[proc.sheet].status = "processing" THEN stranded \cup {proc.sheet}
                                                              ELSE stranded
    /\ UNCHANGED <<server, queue, sheet, form, template, active, files, orders, day>>

-----------------------------------------------------------------------------
(* Operators *)

Order(s, u) == Append(orders, [sheet |-> s, form |-> sheet[s].form, user |-> u])

\* formConflictCode.
Conflict(f, s) ==
    \/ form[f].status \in {"consumed", "void"} \/ form[f].consumed # None
    \/ form[f].reserved # s
    \/ form[f].date # sheet[s].date

\* confirm: a form that can no longer pay rejects its sheet; otherwise the
\* order, the form and the sheet change together.
ConfirmIssued(s) ==
    LET f == sheet[s].form
    IN  /\ server.up /\ f # None /\ FormFree(f) /\ SheetFree(s)
        /\ sheet[s].status = "flagged" /\ active[form[f].user]
        /\ \/ /\ Conflict(f, s)
              /\ sheet' = [sheet EXCEPT ![s].status = "rejected", ![s].processed = day]
              /\ UNCHANGED <<form, orders>>
           \/ /\ ~Conflict(f, s)
              /\ orders' = Order(s, form[f].user)
              /\ form' = [form EXCEPT ![f].status = "consumed", ![f].consumed = s]
              /\ sheet' = [sheet EXCEPT ![s].status = "verified", ![s].order = TRUE]
        /\ UNCHANGED <<server, queue, proc, template, active, files, day, stranded, faults>>

\* Mutant: the locked sheet is not looked at again.
ConfirmGenericUnchecked(s, u) ==
    /\ server.up /\ SheetFree(s)
    /\ sheet[s].template # None /\ sheet[s].form = None /\ sheet[s].mode = "generic"
    /\ template[sheet[s].template] = "active" /\ active[u]
    /\ orders' = Order(s, u)
    /\ sheet' = [sheet EXCEPT ![s].status = "verified", ![s].order = TRUE]
    /\ UNCHANGED <<server, queue, proc, form, template, active, files, day, stranded, faults>>

\* confirmGeneric: the operator names the prisoner.
ConfirmGeneric(s, u) ==
    /\ server.up /\ SheetFree(s)
    /\ sheet[s].template # None /\ sheet[s].form = None
    /\ sheet[s].status = "flagged" /\ ~sheet[s].order /\ sheet[s].mode = "generic"
    /\ template[sheet[s].template] = "active" /\ active[u]
    /\ orders' = Order(s, u)
    /\ sheet' = [sheet EXCEPT ![s].status = "verified", ![s].order = TRUE]
    /\ UNCHANGED <<server, queue, proc, form, template, active, files, day, stranded, faults>>

\* reject: an issued form stays reserved by the sheet.
Reject(s) ==
    /\ server.up /\ SheetFree(s) /\ sheet[s].status = "flagged"
    /\ sheet[s].form # None => FormFree(sheet[s].form)
    /\ sheet' = [sheet EXCEPT ![s].status = "rejected", ![s].processed = day]
    /\ UNCHANGED <<server, queue, proc, form, template, active, files, orders, day, stranded, faults>>

-----------------------------------------------------------------------------
(* Retention *)

\* isPurgeEligible.
PurgeEligible(s) ==
    /\ sheet[s].status \in Terminal /\ sheet[s].processed # None
    /\ sheet[s].processed + RetentionDays <= day
    /\ sheet[s].image # "purged"

Purged(row) == [row EXCEPT !.image = "purged",
                           !.status = IF @ = "flagged" THEN "rejected" ELSE @]

\* Files first, then the rows; an error rolls the rows back.
PurgeFilesFirst(due) ==
    \/ /\ files' = files \ due
       /\ sheet' = [s \in Sheets |-> IF s \in due THEN Purged(sheet[s]) ELSE sheet[s]]
       /\ UNCHANGED faults
    \/ /\ Fault
       /\ \E gone \in SUBSET due : files' = files \ gone
       /\ UNCHANGED sheet

\* purgeDue.
PurgeDue ==
    LET due == {s \in Sheets : PurgeEligible(s)}
    IN  /\ server.up /\ due # {} /\ \A s \in due : SheetFree(s)
        /\ PurgeFilesFirst(due)
        /\ UNCHANGED <<server, queue, proc, form, template, active, orders, day, stranded>>

-----------------------------------------------------------------------------

Init ==
    /\ server = [up |-> FALSE, mode |-> "issued"]
    /\ queue = <<>> /\ proc = Idle
    /\ sheet = [s \in Sheets |-> NoSheet]
    /\ form = [f \in Forms |-> NoForm]
    /\ template = [t \in Templates |-> "absent"]
    /\ active = [u \in Users |-> TRUE]
    /\ files = {} /\ orders = <<>> /\ day = 0 /\ stranded = {} /\ faults = 0

Processor == Load \/ MarkProcessing \/ Recognise \/ ResolveGeneric \/ ResolveIssued
                  \/ RejectConflict

Next ==
    \/ \E mode \in Modes : Boot(mode)
    \/ Stop \/ RecoverDueWork \/ NextDay \/ Processor \/ ProcessorError \/ PurgeDue
    \/ \E t \in Templates : Activate(t) \/ Retire(t)
    \/ \E users \in SUBSET Users, date \in day..(day + 1) : IssueBatch(users, date)
    \/ \E u \in Users : SetActive(u)
    \/ \E s \in Sheets :
          \/ RetryDue(s) \/ ConfirmIssued(s) \/ Reject(s)
          \/ \E u \in Users : ConfirmGeneric(s, u)
          \/ \E f \in Forms, u \in Users : CreateDemoRecord(s, f, u)
          \/ \E paper \in Forms \cup Templates \cup {None} : Submit(s, paper)

Spec == Init /\ [][Next]_vars

\* The backend is started again, its processor and its timer run, time passes.
Fairness ==
    /\ WF_vars(\E mode \in Modes : Boot(mode))
    /\ WF_vars(Processor) /\ WF_vars(RecoverDueWork)
    /\ \A s \in Sheets : WF_vars(RetryDue(s))

FairSpec == Spec /\ Fairness

-----------------------------------------------------------------------------
(* Properties *)

\* However often its paper is scanned, a form leads to one order at most, of its
\* owner, and so does a sheet.
PaysOnce ==
    \A i \in DOMAIN orders :
        /\ \A j \in DOMAIN orders \ {i} :
              /\ orders[i].sheet # orders[j].sheet
              /\ orders[i].form # None => orders[i].form # orders[j].form
        /\ orders[i].form # None => orders[i].user = form[orders[i].form].user

\* Every order keeps the sheet it came from, verified, and its form, consumed by
\* that sheet, and no sheet or form is spent without an order: later scans of the
\* paper, sweeps and the purge leave the three in step.
OrdersBacked ==
    /\ \A i \in DOMAIN orders :
          LET s == orders[i].sheet  f == orders[i].form
          IN  /\ sheet[s].status = "verified" /\ sheet[s].order /\ sheet[s].form = f
              /\ f # None => form[f].status = "consumed" /\ form[f].consumed = s
                             /\ form[f].reserved = s
    /\ \A s \in Sheets : sheet[s].status = "verified" =>
          \E i \in DOMAIN orders : orders[i].sheet = s
    /\ \A f \in Forms : form[f].status = "consumed" =>
          \E i \in DOMAIN orders : orders[i].form = f

\* Once two papers with one token have been seen, no sheet of that token is, or
\* becomes, confirmable.
ConflictStopsForm ==
    \A f \in Forms : form[f].reason = "conflict" =>
        \A s \in Sheets : sheet[s].form = f => sheet[s].status = "rejected"

\* A prisoner has one valid form for a date at most, whoever issued it.
OneValidForm ==
    \A f, g \in Forms :
        /\ form[f].status = "issued" /\ form[g].status = "issued"
        /\ form[f].user = form[g].user /\ form[f].date = form[g].date
        => f = g

\* Orders, sheets and forms stay in step, and nobody pays twice.
OrdersSound == PaysOnce /\ OrdersBacked

\* At most one form can be confirmed, and none once its token is disputed.
FormsSound == ConflictStopsForm /\ OneValidForm

\* A verified or rejected sheet keeps its status and its order: no queue entry,
\* sweep, second scan, purge or late write of the processor takes it back.
DecidedStays ==
    [][\A s \in Sheets : sheet[s].status \in {"verified", "rejected"} =>
          /\ sheet'[s].status = sheet[s].status
          /\ sheet'[s].order = sheet[s].order]_vars

\* Every submitted sheet reaches an operator or is rejected, crashes and an
\* unavailable recognition service notwithstanding; only a database error in
\* the processor can leave it for the next boot.
SheetsSettle ==
    \A s \in Sheets : sheet[s].status \in Unprocessed
                        ~> (sheet[s].status \in Terminal \/ s \in stranded)

-----------------------------------------------------------------------------
(* Inductive invariant *)

SheetRows == [status: {"absent", "pending", "processing", "flagged", "verified", "rejected"},
              mode: Modes \cup {None}, date: Nat, paper: Forms \cup Templates \cup {None},
              form: Forms \cup {None}, template: Templates \cup {None}, attempts: Nat,
              due: BOOLEAN, processed: Nat \cup {None}, image: {None, "kept", "purged"},
              order: BOOLEAN]

FormRows == [status: {"absent", "issued", "void", "consumed"}, user: Users \cup {None}, date: Nat,
             reserved: Sheets \cup {None}, consumed: Sheets \cup {None},
             reason: {None, "reissued", "conflict"}]

OrderRows == [sheet: Sheets, form: Forms \cup {None}, user: Users \cup {None}]

\* Rows, memory and files have their types.
TypeOK ==
    /\ server \in [up: BOOLEAN, mode: Modes] /\ queue \in Seq(Sheets)
    /\ proc = Holding(proc.pc, proc.sheet, proc.row, proc.found)
    /\ proc.pc \in {"idle", "loaded", "marked", "recognised", "conflict"}
    /\ proc.sheet \in Sheets \cup {None} /\ proc.row \in SheetRows
    /\ DOMAIN proc.found \subseteq Sheets /\ proc.found \in [DOMAIN proc.found -> SheetRows]
    /\ sheet \in [Sheets -> SheetRows] /\ form \in [Forms -> FormRows]
    /\ template \in [Templates -> {"absent", "active", "retired"}]
    /\ active \in [Users -> BOOLEAN] /\ files \subseteq Sheets
    /\ orders \in Seq(OrderRows) /\ day \in Nat /\ stranded \subseteq Sheets /\ faults \in Nat

\* A sheet is bound to a form when it is flagged, and has its order when verified.
SheetsInOrder ==
    \A s \in Sheets :
        /\ sheet[s].status \in {"absent"} \cup Unprocessed => sheet[s].form = None
        /\ sheet[s].order <=> sheet[s].status = "verified"

\* Nobody decides a sheet the processor holds, and what it has read of a form
\* in conflict are still all the sheets of that form.
ProcessorHolds ==
    /\ proc.pc = "idle" => proc = Idle
    /\ proc.pc # "idle" => /\ proc.sheet \in Sheets /\ sheet[proc.sheet].status \in Unprocessed
                           /\ proc.row.form = None /\ ~proc.row.order
    /\ proc.pc = "conflict" =>
          /\ proc.row.paper \in Forms /\ form[proc.row.paper].status = "issued"
          /\ DOMAIN proc.found = {c \in Sheets : sheet[c].form = proc.row.paper} \cup {proc.sheet}

\* A form in conflict is void.
ConflictVoids == \A f \in Forms : form[f].reason = "conflict" => form[f].status = "void"

\* Inductive: what OrdersSound, FormsSound and DecidedStays rest on.
IInv ==
    /\ TypeOK /\ SheetsInOrder /\ ProcessorHolds /\ ConflictVoids
    /\ OrdersSound /\ FormsSound
=============================================================================
