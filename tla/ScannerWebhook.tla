--------------------------- MODULE ScannerWebhook ---------------------------
(***************************************************************************)
(* The manager's end of the scanner: receipts of callbacks, the sheets     *)
(* they open for review, the import of their images, the operators who     *)
(* decide, and the two services that delete files.                         *)
(*                                                                         *)
(* persistReceipt is split at its two advisory locks; a confirmation, a    *)
(* retry and the purge lock what they read, and are one step each.  An     *)
(* importer (one per backend process) claims a job in one transaction,     *)
(* downloads and writes the file without one, and records the outcome in   *)
(* another, fenced by the token of its claim.  reconcile reads the rows    *)
(* first and deletes files later.  What a confirmation checks of the       *)
(* result is in ScannerReview, what it does to money in OrdersLedger.      *)
(***************************************************************************)
EXTENDS Integers, FiniteSets

CONSTANTS
    Payloads,    \* callback bodies: event id, document revision, bytes, service date
    Requests,    \* deliveries handled at the same time
    Artifacts,   \* artifacts every result declares
    Source,      \* the one of kind 'source'
    Importers,   \* backend processes that import
    None,
    Mode,        \* SCAN_WORKFLOW_MODE
    MaxPast,     \* SCANNER_SERVICE_DATE_MAX_PAST_DAYS
    MaxFuture,   \* SCANNER_SERVICE_DATE_MAX_FUTURE_DAYS
    RetentionDays, \* SCAN_RETENTION_DAYS
    ArtifactDays,  \* SCANNER_ARTIFACT_RETENTION_DAYS
    MaxDay,      \* bound: days that pass
    MaxFaults    \* bound: failed transactions, crashes, transient download errors, retries

ASSUME WebhookAssumption ==
    /\ \A p \in Payloads : p.date \in Int
    /\ Source \in Artifacts /\ None \notin Importers \cup {"file", "purged"}
    /\ Mode \in {"legacy_omr", "scanner_shadow", "scanner_webhook"}
    /\ {MaxPast, MaxFuture, MaxDay, MaxFaults} \subseteq Nat
    /\ {RetentionDays, ArtifactDays} \subseteq Nat \ {0}

VARIABLES
    request,   \* what a receipt transaction has read
    event,     \* scanner_webhook_events, by event id
    sheet,     \* the sheet of an event
    job,       \* scanner_artifact_jobs
    importer,  \* what processJob holds in memory
    file,      \* the artifact files: absent, or younger or older than the grace period
    sweep,     \* what reconcile read
    day,
    faults,
    stray      \* history: files written by an importer whose claim was not its own any more

vars == <<request, event, sheet, job, importer, file, sweep, day, faults, stray>>

Fault == faults < MaxFaults /\ faults' = faults + 1

-----------------------------------------------------------------------------
(* Rows *)

Events == {p.event : p \in Payloads}

Evidence == Events \X Artifacts

NoEvent == [state |-> "absent", payload |-> None]

NoSheet == [status |-> "absent", processed |-> 0, image |-> None]

NoJob == [state |-> "absent", token |-> None, lease |-> FALSE, due |-> FALSE, path |-> FALSE]

NoRequest == [pc |-> "idle", payload |-> None, double |-> FALSE]

NoImport == [pc |-> "idle", job |-> None, outcome |-> None]

\* The states a job may still leave by itself.
Recoverable == {"pending", "processing", "retrying"}

ScannerReviewEnabled == Mode # "legacy_omr"

ScannerConfirmationEnabled == Mode = "scanner_webhook"

-----------------------------------------------------------------------------
(* Receipts *)

\* The three reads of persistReceipt that find the event: the same bytes are
\* acknowledged again, other bytes make the event a fault.
Recognised(p) ==
    LET same == event[p.event].payload = p
    IN  /\ event[p.event] # NoEvent
        /\ event' = IF same THEN event
                    ELSE [event EXCEPT ![p.event].state = "integrity_fault"]

\* pg_advisory_xact_lock: the keys are free when nobody past them has them.
EventKeyFree(e) ==
    \A r \in Requests : request[r].pc \in {"result", "commit"} => request[r].payload.event # e

ResultKeyFree(d) ==
    \A r \in Requests : request[r].pc = "commit" => request[r].payload.doc # d

\* serviceDateState
OutOfWindow(p) == p.date - day < -MaxPast \/ p.date - day > MaxFuture

Go(r, pc, p, double) ==
    request' = [request EXCEPT ![r] = [pc |-> pc, payload |-> p, double |-> double]]

\* What the DTO and the schema check ask of a body; anything else is answered 400.
WellFormed(p) == p.bytes # "malformed"

Deliver(r, p) ==
    /\ request[r] = NoRequest /\ WellFormed(p)
    /\ \/ Recognised(p) /\ UNCHANGED request
       \/ event[p.event] = NoEvent /\ Go(r, "event", p, FALSE) /\ UNCHANGED event
    /\ UNCHANGED <<sheet, job, importer, file, sweep, day, faults, stray>>

LockEvent(r) ==
    LET p == request[r].payload
    IN  /\ request[r].pc = "event"
        /\ EventKeyFree(p.event)
        /\ \/ Recognised(p) /\ request' = [request EXCEPT ![r] = NoRequest]
           \/ event[p.event] = NoEvent /\ Go(r, "result", p, FALSE)
              /\ UNCHANGED event
        /\ UNCHANGED <<sheet, job, importer, file, sweep, day, faults, stray>>

\* Mutant: the business key is not locked.
LockResultUnlocked(r) ==
    LET p == request[r].payload
    IN  /\ request[r].pc = "result"
        /\ event[p.event] = NoEvent
        /\ Go(r, "commit", p, \E e \in Events : event[e] # NoEvent /\ event[e].payload.doc = p.doc)
        /\ UNCHANGED <<event, sheet, job, importer, file, sweep, day, faults, stray>>

\* The third look for the event never finds it: whoever inserts it holds its key.
LockResult(r) ==
    LET p == request[r].payload
    IN  /\ request[r].pc = "result"
        /\ ResultKeyFree(p.doc)
        /\ event[p.event] = NoEvent
        /\ Go(r, "commit", p, \E e \in Events : event[e] # NoEvent /\ event[e].payload.doc = p.doc)
        /\ UNCHANGED <<event, sheet, job, importer, file, sweep, day, faults, stray>>

\* The Sheet a receipt opens: flagged, for review, its image still to come.
NewSheet == [status |-> "flagged", processed |-> day, image |-> None]

\* toArtifactJob: an address outside the configured origin fails at once.
NewJob(valid) ==
    [NoJob EXCEPT !.state = IF valid THEN "pending" ELSE "permanent_failed", !.due = TRUE]

\* The row, and for a result that is neither late nor a double its sheet and jobs.
CommitReceipt(r) ==
    LET p == request[r].payload  e == p.event
        held == request[r].double \/ OutOfWindow(p)
    IN  /\ request[r].pc = "commit" /\ event[e] = NoEvent
        /\ event' = [event EXCEPT ![e] =
                        [state |-> IF held THEN "quarantined" ELSE "received", payload |-> p]]
        /\ IF held \/ ~ScannerReviewEnabled
           THEN UNCHANGED <<sheet, job>>
           ELSE /\ sheet' = [sheet EXCEPT ![e] = NewSheet]
                /\ \E valid \in [Artifacts -> BOOLEAN] :
                      job' = [k \in Evidence |-> IF k[1] = e THEN NewJob(valid[k[2]]) ELSE job[k]]
        /\ request' = [request EXCEPT ![r] = NoRequest]
        /\ UNCHANGED <<importer, file, sweep, day, faults, stray>>

\* The transaction fails, or the backend dies: 503 or no answer, nothing written.
ReceiptFails(r) ==
    /\ request[r] # NoRequest /\ Fault
    /\ request' = [request EXCEPT ![r] = NoRequest]
    /\ UNCHANGED <<event, sheet, job, importer, file, sweep, day, stray>>

-----------------------------------------------------------------------------
(* Import of artifacts *)

\* Mutant: the lease of an importer that is gone is never looked at.
DueUnleased(k) == job[k].state \in {"pending", "retrying"} /\ job[k].due

Due(k) ==
    \/ job[k].state \in {"pending", "retrying"} /\ job[k].due
    \/ job[k].state = "processing" /\ ~job[k].lease

\* claimDue, one job at a time; skip_locked keeps two importers apart.
Claim(i, k) ==
    /\ ScannerReviewEnabled
    /\ importer[i] = NoImport /\ Due(k)
    /\ job' = [job EXCEPT ![k].state = "processing", ![k].token = i, ![k].lease = TRUE]
    /\ importer' = [importer EXCEPT ![i] = [pc |-> "claimed", job |-> k, outcome |-> None]]
    /\ UNCHANGED <<request, event, sheet, file, sweep, day, faults, stray>>

\* retentionExpired; every result of the model was produced on day 0.
RetentionExpired == day >= ArtifactDays

\* The final answers of the scanner or of the checks in processJob.  An
\* artifact the scanner no longer has is only missing once it has expired.
FinalOutcomes == {"integrity_fault", "permanent_failed"}
                   \cup (IF RetentionExpired THEN {"missing"} ELSE {})

\* The row of the job still carries the token of this importer.
OwnClaim(i) ==
    /\ job[importer[i].job].state = "processing"
    /\ job[importer[i].job].token = i

\* download and what processJob makes of it: a final failure, a reason to try
\* again, or the expected bytes, which are written at once.
Download(i) ==
    /\ importer[i].pc = "claimed"
    /\ \/ /\ \E o \in FinalOutcomes : importer' = [importer EXCEPT ![i].pc = "fetched",
                                                                  ![i].outcome = o]
          /\ UNCHANGED <<file, stray, faults>>
       \/ /\ Fault
          /\ importer' = [importer EXCEPT ![i].pc = "fetched", ![i].outcome = "retrying"]
          /\ UNCHANGED <<file, stray>>
       \/ /\ importer' = [importer EXCEPT ![i].pc = "fetched", ![i].outcome = "available"]
          /\ file' = [file EXCEPT ![importer[i].job] = "young"]
          /\ stray' = IF OwnClaim(i) THEN stray ELSE stray \cup {importer[i].job}
          /\ UNCHANGED faults
    /\ UNCHANGED <<request, event, sheet, job, sweep, day>>

\* Mutant: the update asks for the state but not for the token.
FinishUnfenced(i) ==
    LET k == importer[i].job  o == importer[i].outcome
    IN  /\ importer[i].pc = "fetched"
        /\ importer' = [importer EXCEPT ![i] = NoImport]
        /\ job' = [job EXCEPT ![k] = [state |-> o, token |-> None, lease |-> FALSE,
                                      due |-> o # "retrying", path |-> @.path \/ o = "available"]]
        /\ IF o = "available" /\ k[2] = Source
           THEN sheet' = [sheet EXCEPT ![k[1]].image = "file"]
           ELSE UNCHANGED sheet
        /\ UNCHANGED <<request, event, file, sweep, day, faults, stray>>

\* finish: only the claim with the token of the row may end it; the image of the
\* sheet follows the source artifact, whatever has become of the sheet.
Finish(i) ==
    LET k == importer[i].job  o == importer[i].outcome
    IN  /\ importer[i].pc = "fetched"
        /\ importer' = [importer EXCEPT ![i] = NoImport]
        /\ IF OwnClaim(i)
           THEN /\ job' = [job EXCEPT ![k] =
                              [state |-> o, token |-> None, lease |-> FALSE,
                               due |-> o # "retrying", path |-> @.path \/ o = "available"]]
                /\ IF o = "available" /\ k[2] = Source
                   THEN sheet' = [sheet EXCEPT ![k[1]].image = "file"]
                   ELSE UNCHANGED sheet
           ELSE UNCHANGED <<job, sheet>>
        /\ UNCHANGED <<request, event, file, sweep, day, faults, stray>>

\* A minute has passed since the claim: the importer is gone, or it is slower
\* than its download timeout allows for, which is a fault.
LeaseRunsOut(k) ==
    /\ job[k].lease
    /\ IF \E i \in Importers : importer[i].job = k THEN Fault ELSE UNCHANGED faults
    /\ job' = [job EXCEPT ![k].lease = FALSE]
    /\ UNCHANGED <<request, event, sheet, importer, file, sweep, day, stray>>

\* The delay of retry has passed.
RetryDue(k) ==
    /\ job[k].state = "retrying" /\ ~job[k].due
    /\ job' = [job EXCEPT ![k].due = TRUE]
    /\ UNCHANGED <<request, event, sheet, importer, file, sweep, day, faults, stray>>

\* The process of an importer dies, before or after it wrote the file.
ImporterDies(i) ==
    /\ importer[i] # NoImport /\ Fault
    /\ importer' = [importer EXCEPT ![i] = NoImport]
    /\ UNCHANGED <<request, event, sheet, job, file, sweep, day, stray>>

-----------------------------------------------------------------------------
(* Operators *)

\* confirmScanner: the order itself is OrdersLedger's.
ConfirmScanner(e) ==
    /\ ScannerConfirmationEnabled
    /\ event[e].state = "received"
    /\ sheet[e].status = "flagged"
    /\ sheet' = [sheet EXCEPT ![e].status = "verified"]
    /\ UNCHANGED <<request, event, job, importer, file, sweep, day, faults, stray>>

RejectScanner(e) ==
    /\ sheet[e].status = "flagged"
    /\ sheet' = [sheet EXCEPT ![e].status = "rejected", ![e].processed = day]
    /\ UNCHANGED <<request, event, job, importer, file, sweep, day, faults, stray>>

\* retryScannerArtifact, where it does something: an import that failed for good
\* is tried again while the scanner still keeps the artifact.
RetryScannerArtifact(k) ==
    /\ ~RetentionExpired /\ Fault
    /\ job[k].state \in {"missing", "permanent_failed", "integrity_fault"}
    /\ job' = [job EXCEPT ![k] = [state |-> "retrying", token |-> None, lease |-> FALSE,
                                  due |-> TRUE, path |-> FALSE]]
    /\ UNCHANGED <<request, event, sheet, importer, file, sweep, day, stray>>

-----------------------------------------------------------------------------
(* Deletion *)

Jobs(e) == {e} \X Artifacts

PurgeEligible(e) ==
    /\ sheet[e].status \in {"verified", "rejected"}
    /\ day - sheet[e].processed >= RetentionDays
    /\ sheet[e].image # "purged"
    /\ \A k \in Jobs(e) : job[k].state \notin Recoverable

Purged(k) == IF job[k].path THEN [job[k] EXCEPT !.path = FALSE, !.state = "purged"] ELSE job[k]

\* Mutant: the rows are committed, and then a deletion fails.
PurgeRowsFirst(e) ==
    /\ \E gone \in SUBSET Jobs(e) :
          file' = [k \in Evidence |-> IF k \in gone /\ job[k].path THEN "absent" ELSE file[k]]
    /\ job' = [k \in Evidence |-> IF k[1] = e THEN Purged(k) ELSE job[k]]
    /\ sheet' = [sheet EXCEPT ![e].image = "purged"]

\* purgeBatch, for one sheet: files, then rows; a failure in between leaves the
\* rows as they were.
PurgeFilesFirst(e) ==
    \/ /\ file' = [k \in Evidence |-> IF k[1] = e /\ job[k].path THEN "absent" ELSE file[k]]
       /\ job' = [k \in Evidence |-> IF k[1] = e THEN Purged(k) ELSE job[k]]
       /\ sheet' = [sheet EXCEPT ![e].image = "purged"]
    \/ /\ \E gone \in SUBSET Jobs(e) :
             file' = [k \in Evidence |-> IF k \in gone /\ job[k].path THEN "absent" ELSE file[k]]
       /\ UNCHANGED <<job, sheet>>

PurgeDue(e) ==
    /\ PurgeEligible(e)
    /\ PurgeFilesFirst(e)
    /\ UNCHANGED <<request, event, importer, sweep, day, faults, stray>>

\* reconcile reads which paths rows refer to ...
ReconcileReads ==
    /\ sweep = None
    /\ sweep' = {k \in Evidence : job[k].path}
    /\ UNCHANGED <<request, event, sheet, job, importer, file, day, faults, stray>>

\* ... and reconcileOrphans deletes what none did, if it is old enough.
ReconcileDeletes ==
    /\ sweep # None
    /\ file' = [k \in Evidence |-> IF k \notin sweep /\ file[k] = "old" THEN "absent" ELSE file[k]]
    /\ sweep' = None
    /\ UNCHANGED <<request, event, sheet, job, importer, day, faults, stray>>

\* Downloads, transactions and a sweep take minutes at most; the grace period is
\* a day.
Rest ==
    /\ sweep = None
    /\ \A i \in Importers : importer[i] = NoImport

\* The grace period of a file ends.
FileAges(k) ==
    /\ file[k] = "young" /\ Rest
    /\ file' = [file EXCEPT ![k] = "old"]
    /\ UNCHANGED <<request, event, sheet, job, importer, sweep, day, faults, stray>>

NextDay ==
    /\ day < MaxDay /\ Rest /\ \A r \in Requests : request[r] = NoRequest
    /\ day' = day + 1
    /\ file' = [k \in Evidence |-> IF file[k] = "young" THEN "old" ELSE file[k]]
    /\ UNCHANGED <<request, event, sheet, job, importer, sweep, faults, stray>>

-----------------------------------------------------------------------------

Init ==
    /\ request = [r \in Requests |-> NoRequest]
    /\ event = [e \in Events |-> NoEvent]
    /\ sheet = [e \in Events |-> NoSheet]
    /\ job = [k \in Evidence |-> NoJob]
    /\ importer = [i \in Importers |-> NoImport]
    /\ file = [k \in Evidence |-> "absent"]
    /\ sweep = None /\ day = 0 /\ faults = 0 /\ stray = {}

Receipt(r) == \/ \E p \in Payloads : Deliver(r, p)
              \/ LockEvent(r) \/ LockResult(r) \/ CommitReceipt(r) \/ ReceiptFails(r)

Import(i) == \/ \E k \in Evidence : Claim(i, k)
             \/ Download(i) \/ Finish(i)

Next ==
    \/ \E r \in Requests : Receipt(r)
    \/ \E i \in Importers : Import(i) \/ ImporterDies(i)
    \/ \E k \in Evidence : \/ LeaseRunsOut(k) \/ RetryDue(k) \/ RetryScannerArtifact(k)
                           \/ FileAges(k)
    \/ \E e \in Events : ConfirmScanner(e) \/ RejectScanner(e) \/ PurgeDue(e)
    \/ ReconcileReads \/ ReconcileDeletes \/ NextDay

Spec == Init /\ [][Next]_vars

\* The importer's cron and the sweep go on, and time passes; operators, callbacks
\* and faults need not happen.
FairSpec ==
    /\ Spec
    /\ \A i \in Importers :
          WF_vars(\E k \in Evidence : Claim(i, k)) /\ WF_vars(Download(i)) /\ WF_vars(Finish(i))
    /\ \A k \in Evidence : WF_vars(LeaseRunsOut(k)) /\ WF_vars(RetryDue(k)) /\ SF_vars(FileAges(k))
    /\ WF_vars(ReconcileReads) /\ WF_vars(ReconcileDeletes)

-----------------------------------------------------------------------------
(* Properties *)

\* However often, in whatever order and under however many event ids a document
\* revision is delivered, it opens one review at most, and never from a
\* quarantined receipt.
OneReviewPerRevision ==
    /\ \A d, e \in Events :
          sheet[d] # NoSheet /\ sheet[e] # NoSheet /\ d # e
          => event[d].payload.doc # event[e].payload.doc
    /\ \A e \in Events : sheet[e] # NoSheet => event[e].state \in {"received", "integrity_fault"}

\* An artifact shown as available is on disk until its sheet is due for the
\* purge, whatever stale importers, crashes and sweeps do; the sheet shows its
\* image exactly while the source artifact is available.
EvidenceKept ==
    \A e \in Events :
        /\ \A k \in Jobs(e) : job[k].state = "available" =>
              job[k].path /\ (file[k] # "absent" \/ PurgeEligible(e))
        /\ (sheet[e].image = "file") <=> (job[<<e, Source>>].state = "available")

\* A sheet that says its evidence was purged has none left on disk or on offer:
\* the comment in purgeBatch, "the DB never claims data was purged while files
\* remain".  It holds where the scanner keeps artifacts no longer than the
\* manager keeps sheets, and but for the file that an importer slower than its
\* lease writes behind the purge, which is the sweep's.
PurgedKeepsNothing ==
    \A e \in Events : sheet[e].image = "purged" =>
        \A k \in Jobs(e) : /\ job[k].state # "available"
                           /\ job[k].state = "purged" => file[k] = "absent" \/ k \in stray

\* What is loose settles: every import ends, in an image or in a failure an
\* operator can see, after lost leases and deaths, and a file that no row refers
\* to, left by an importer that died, is found again or deleted.
Loose(k) == job[k].state \in Recoverable \/ (file[k] # "absent" /\ ~job[k].path)

EvidenceSettles == \A k \in Evidence : Loose(k) ~> ~Loose(k)

-----------------------------------------------------------------------------
(* Refinement *)

\* The row of an event, and whether it has a sheet; what else the manager does to
\* the sheet is its own affair.
InboxView ==
    [e \in Events |-> [state |-> event[e].state, body |-> event[e].payload,
                       review |-> sheet[e] # NoSheet]]

Inbox == INSTANCE CallbackInbox WITH
    Bodies <- Payloads, Reviews <- ScannerReviewEnabled, inbox <- InboxView

\* The receipts, split at their locks and failing anywhere, together with all
\* that happens to sheets and files later, implement the one-step inbox.
CallbackInboxSpec == Inbox!Spec

-----------------------------------------------------------------------------
(* Inductive invariant *)

RequestMemories == [pc: {"idle", "event", "result", "commit"}, payload: Payloads \cup {None},
                    double: BOOLEAN]

EventRows == [state: {"absent", "received", "quarantined", "integrity_fault"},
              payload: Payloads \cup {None}]

SheetRows == [status: {"absent", "flagged", "verified", "rejected"}, processed: Nat,
              image: {None, "file", "purged"}]

Outcomes == {"available", "missing", "integrity_fault", "permanent_failed", "retrying"}

JobRows == [state: Outcomes \cup {"absent", "pending", "processing", "purged"},
            token: Importers \cup {None}, lease: BOOLEAN, due: BOOLEAN, path: BOOLEAN]

ImporterMemories == [pc: {"idle", "claimed", "fetched"}, job: Evidence \cup {None},
                     outcome: Outcomes \cup {None}]

\* Rows, memory and files have their types.
TypeOK ==
    /\ request \in [Requests -> RequestMemories] /\ event \in [Events -> EventRows]
    /\ sheet \in [Events -> SheetRows] /\ job \in [Evidence -> JobRows]
    /\ importer \in [Importers -> ImporterMemories]
    /\ file \in [Evidence -> {"absent", "young", "old"}]
    /\ sweep \in (SUBSET Evidence) \cup {None} /\ stray \subseteq Evidence
    /\ day \in Nat /\ faults \in Nat
    /\ \A r \in Requests : request[r].pc # "idle" => request[r].payload \in Payloads
    /\ \A i \in Importers :
          /\ importer[i].pc # "idle" => importer[i].job \in Evidence
          /\ importer[i].pc = "fetched" => importer[i].outcome \in Outcomes

\* A receipt past its first lock is the only one of its event, which has no row
\* yet; past its second it is the only one of its revision, and still right
\* about whether that has a row.
LocksHold ==
    /\ \A r \in Requests : request[r].pc \in {"result", "commit"} =>
          /\ event[request[r].payload.event] = NoEvent
          /\ \A s \in Requests \ {r} : request[s].pc \in {"result", "commit"} =>
                request[s].payload.event # request[r].payload.event
    /\ \A r \in Requests : request[r].pc = "commit" =>
          /\ \A s \in Requests \ {r} : request[s].pc = "commit" =>
                request[s].payload.doc # request[r].payload.doc
          /\ ~request[r].double =>
                \A e \in Events : event[e] # NoEvent =>
                    event[e].payload.doc # request[r].payload.doc

\* Only what a sheet shows is imported.
ImportsOfSheets == \A k \in Evidence : job[k].state # "absent" => sheet[k[1]] # NoSheet

\* Inductive: what OneReviewPerRevision rests on.
ReceiptsInv == TypeOK /\ LocksHold /\ OneReviewPerRevision /\ ImportsOfSheets

\* A row names a file exactly while it offers it.
PathsAreOfFiles == \A k \in Evidence : job[k].path <=> job[k].state = "available"

\* What an importer with the claim has downloaded is on disk, and younger than
\* the sweep touches; so is whatever the sweep has not seen a row of.
FilesGuarded ==
    /\ \A i \in Importers :
          importer[i].pc = "fetched" /\ importer[i].outcome = "available" /\ OwnClaim(i)
          => file[importer[i].job] = "young"
    /\ sweep # None =>
          \A k \in Evidence \ sweep : job[k].state = "available" => file[k] # "old"

\* A purged sheet stays out of the importers' reach, and so do its files.
PurgesStand ==
    /\ \A e \in Events : sheet[e].image = "purged" =>
          /\ sheet[e].status \in {"verified", "rejected"}
          /\ day - sheet[e].processed >= RetentionDays
          /\ \A k \in Jobs(e) : job[k].state \notin Recoverable \cup {"available"}
    /\ \A k \in Evidence : job[k].state = "purged" => file[k] = "absent" \/ k \in stray

(***************************************************************************)
(* Inductive where the scanner keeps artifacts no longer than the manager  *)
(* keeps sheets: what EvidenceKept and PurgedKeepsNothing rest on.         *)
(***************************************************************************)
EvidenceInv ==
    /\ TypeOK /\ PathsAreOfFiles /\ EvidenceKept /\ FilesGuarded /\ PurgesStand
=============================================================================
