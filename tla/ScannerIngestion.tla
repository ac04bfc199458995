-------------------------- MODULE ScannerIngestion --------------------------
(***************************************************************************)
(* The intake of the order scanner: files appear in a shared inbox, are    *)
(* copied, decoded and cut into crops, and become a source with its job,   *)
(* by way of a receipt from which a restart can finish the work.  A worker *)
(* then publishes the page with references the artifact API must serve.    *)
(*                                                                         *)
(* Bytes are a pair, the first and the second half of what was read: the   *)
(* halves of a torn copy differ.  The size and modification time by which  *)
(* the code tells versions of a file apart are one stamp.  A source has    *)
(* one page; the pages of a source are created in one transaction.  Leases *)
(* and delivery are in ScannerQueue.                                       *)
(***************************************************************************)
EXTENDS Integers, Sequences, FiniteSets

CONSTANTS
    Names,        \* paths in the inbox: 1, 2, ... in the order of the listing
    Scans,        \* what the scanner hardware writes
    Empty,        \* those of no bytes
    Oversized,    \* those above max_source_bytes
    Undecodable,  \* those decode_document refuses
    Unaligned,    \* those without the markers of a template
    Absent,       \* no file, no task, no row
    Stable,       \* polls after which an unchanged file is old enough
    MaxWrites,    \* bound: writes into the inbox
    MaxFailures,  \* bound: crashes, failing calls, disk filling up
    MaxDays,      \* bound: days
    MaxUpgrades   \* bound: restarts with another bundle

\* A source with its job.
SourceRows == [date : Nat, bundle : Nat, state : {"queued", "failed", "published"}]

ASSUME IngestionAssumption ==
    /\ IsFiniteSet(Names) /\ Names = 1..Cardinality(Names)
    /\ Empty \cup Oversized \cup Undecodable \cup Unaligned \subseteq Scans
    /\ {Stable, MaxWrites, MaxFailures, MaxDays, MaxUpgrades} \subseteq Nat /\ Stable > 0
    /\ Absent \notin SourceRows

VARIABLES
    files,       \* the shared directory
    clock,       \* stamps given out
    up,          \* whether the service runs
    bundle,      \* the bundle it was configured with
    day,
    full,        \* disk usage: "low", "middle" or "high" against the watermarks
    paused,      \* DiskPressureController._paused
    todo,        \* candidates of the poll in progress
    tracker,     \* StabilityTracker
    task,        \* the ingestion in progress
    replaying,   \* receipts the start has yet to replay
    staged,      \* staging files dead attempts left behind
    spool,       \* sources in the immutable store
    quarantine,
    crops,       \* sources whose crops are in the artifact store
    receipts,
    jobs,        \* source and job rows
    discovered,  \* source_discoveries
    rejected,    \* ingestion_rejections
    copies,      \* sources in the artifact store
    failures

ingestionVars == <<files, clock, up, bundle, day, full, paused, todo, tracker, task, replaying, staged, spool,
          quarantine, crops, receipts, jobs, discovered, rejected, copies, failures>>

shared == <<files, clock>>
store == <<spool, quarantine, crops, receipts>>
rows == <<jobs, discovered, rejected, copies>>
outer == <<up, bundle, day, full, failures>>

Bytes == Scans \X Scans

Decodes(b) == ~(b[1] = b[2] /\ b[1] \in Undecodable)
Aligned(b) == Decodes(b) /\ ~(b[1] = b[2] /\ b[1] \in Unaligned)

IngestionFault == failures < MaxFailures /\ failures' = failures + 1

Unseen == [stamp |-> Absent, count |-> 0]

-----------------------------------------------------------------------------
(* Outside the service: the inbox, the disk, the calendar *)

\* The scanner overwrites in place; a marker set for an older version stays.
Write(f, s) ==
    /\ clock < MaxWrites /\ clock' = clock + 1
    /\ files' = [files EXCEPT ![f] = [scan |-> s, stamp |-> clock + 1,
                                      ready |-> files[f] # Absent /\ files[f].ready]]
    /\ UNCHANGED <<outer, paused, todo, tracker, task, replaying, staged, store, rows>>

\* ready_suffix
MarkReady(f) ==
    /\ files[f] # Absent /\ ~files[f].ready
    /\ files' = [files EXCEPT ![f].ready = TRUE]
    /\ UNCHANGED <<clock, outer, paused, todo, tracker, task, replaying, staged, store, rows>>

Remove(f) ==
    /\ files[f] # Absent
    /\ files' = [files EXCEPT ![f] = Absent]
    /\ UNCHANGED <<clock, outer, paused, todo, tracker, task, replaying, staged, store, rows>>

DiskFills ==
    /\ full # "high" /\ IngestionFault
    /\ full' = "high"
    /\ UNCHANGED <<shared, up, bundle, day, paused, todo, tracker, task, replaying, staged, store, rows>>

DiskDrains ==
    /\ full # "low"
    /\ full' = IF full = "high" THEN "middle" ELSE "low"
    /\ UNCHANGED <<shared, up, bundle, day, failures, paused, todo, tracker, task, replaying, staged, store, rows>>

NextDay ==
    /\ day < MaxDays /\ day' = day + 1
    /\ UNCHANGED <<shared, up, bundle, full, failures, paused, todo, tracker, task, replaying, staged, store, rows>>

-----------------------------------------------------------------------------
(* Polling *)

\* Mutant: the low mark never ends a pause.
RefreshedStuck == paused \/ full = "high"

\* DiskPressureController.refresh
Refreshed == IF paused THEN full # "low" ELSE full = "high"

\* candidates: what is there, sorted by path.
Listing ==
    LET listed[n \in 0..Cardinality(Names)] ==
            IF n = 0 THEN <<>>
            ELSE IF files[n] = Absent THEN listed[n - 1]
            ELSE Append(listed[n - 1], [file |-> n, stamp |-> files[n].stamp])
    IN  listed[Cardinality(Names)]

\* _serve: one round of the main loop, up to the listing.
Poll ==
    /\ up /\ replaying = {} /\ todo = <<>>
    /\ paused' = Refreshed
    /\ todo' = IF paused' THEN <<>> ELSE Listing
    /\ UNCHANGED <<shared, outer, tracker, task, replaying, staged, store, rows>>

\* StabilityTracker.observe: looks at the file again, not at the listing.
Observed(f) ==
    CASE files[f] = Absent -> Unseen
      [] files[f] # Absent /\ tracker[f].stamp # files[f].stamp -> [stamp |-> files[f].stamp, count |-> 1]
      [] OTHER -> [tracker[f] EXCEPT !.count = IF @ < Stable THEN @ + 1 ELSE @]

Known(c) == c \in rejected \/ c \in discovered

Ready(c) == files[c.file] # Absent /\ files[c.file].ready

StablyThere(c) == Observed(c.file).count >= Stable /\ tracker[c.file].stamp # Absent /\ tracker[c.file].stamp = Observed(c.file).stamp

\* poll_once, for a candidate it passes over.
PassOver ==
    /\ up /\ task = Absent /\ todo # <<>>
    /\ LET c == Head(todo) IN
        /\ ~Ready(c) \/ Known(c) \/ ~StablyThere(c)
        /\ tracker' = IF Ready(c) /\ ~Known(c) THEN [tracker EXCEPT ![c.file] = Observed(c.file)] ELSE tracker
    /\ todo' = Tail(todo)
    /\ UNCHANGED <<shared, outer, paused, task, replaying, staged, store, rows>>

Fits(scan) == scan \notin Empty \cup Oversized

\* The candidate is done with, one way or the other.
DoneWith(c) ==
    /\ task' = Absent /\ todo' = Tail(todo)
    /\ tracker' = [tracker EXCEPT ![c.file] = Unseen]

\* ingest: the size that was listed is checked, which is that of the file as
\* it is, since a stable file has not changed since; then the first half is read.
StartCopy ==
    /\ up /\ task = Absent /\ todo # <<>>
    /\ LET c == Head(todo) IN
        /\ Ready(c) /\ ~Known(c) /\ StablyThere(c)
        /\ \/ /\ Fits(files[c.file].scan)
              /\ tracker' = [tracker EXCEPT ![c.file] = Observed(c.file)]
              /\ task' = [at |-> "copying", of |-> c, first |-> files[c.file].scan, bytes |-> Absent, date |-> day]
              /\ UNCHANGED <<todo, rejected>>
           \/ ~Fits(files[c.file].scan) /\ DoneWith(c) /\ rejected' = rejected \cup {c}
    /\ UNCHANGED <<shared, outer, paused, replaying, staged, store, jobs, discovered, copies>>

At(phase) == up /\ task # Absent /\ task.at = phase

Proceed(phase) == task' = [task EXCEPT !.at = phase] /\ UNCHANGED <<todo, tracker>>

NextCandidate == DoneWith(task.of)

\* Mutant: the rejection is filed under the file as it is now.
RejectCurrent ==
    /\ NextCandidate
    /\ rejected' = rejected \cup {[file |-> task.of.file,
                                   stamp |-> IF files[task.of.file] = Absent THEN task.of.stamp
                                             ELSE files[task.of.file].stamp]}

\* _reject files it under what was listed.
Reject == NextCandidate /\ rejected' = rejected \cup {task.of}

\* _copy_and_hash counts what it reads, and stops above the limit.
CopyRest ==
    /\ At("copying")
    /\ \/ /\ files[task.of.file] # Absent /\ files[task.of.file].scan \notin Oversized
          /\ task' = [task EXCEPT !.at = "copied", !.bytes = <<task.first, files[task.of.file].scan>>]
          /\ UNCHANGED <<todo, tracker, rejected>>
       \/ files[task.of.file] = Absent /\ Reject
       \/ files[task.of.file] # Absent /\ files[task.of.file].scan \in Oversized /\ Reject
    /\ UNCHANGED <<shared, outer, paused, replaying, staged, store, jobs, discovered, copies>>

\* Mutant: only a file that is gone is noticed.
UnchangedPresent == files[task.of.file] # Absent

\* after.st_size and st_mtime_ns against the observation
Unchanged == files[task.of.file] # Absent /\ files[task.of.file].stamp = task.of.stamp

CheckCopy ==
    /\ At("copied")
    /\ \/ Unchanged /\ Proceed("decoding") /\ UNCHANGED rejected
       \/ ~Unchanged /\ Reject
    /\ UNCHANGED <<shared, outer, paused, replaying, staged, store, jobs, discovered, copies>>

\* A source that cannot be decoded is kept in quarantine.
Decode ==
    /\ At("decoding")
    /\ \/ Decodes(task.bytes) /\ Proceed("cutting") /\ UNCHANGED <<quarantine, rejected>>
       \/ ~Decodes(task.bytes) /\ Reject /\ quarantine' = quarantine \cup {task.bytes}
    /\ UNCHANGED <<shared, outer, paused, replaying, staged, spool, crops, receipts, jobs, discovered, copies>>

\* write_crop_artifacts
Cut ==
    /\ At("cutting") /\ Proceed("receipt")
    /\ crops' = IF Aligned(task.bytes) THEN crops \cup {task.bytes} ELSE crops
    /\ UNCHANGED <<shared, outer, paused, replaying, staged, spool, quarantine, receipts, rows>>

WriteReceipt ==
    /\ At("receipt") /\ Proceed("promoting")
    /\ receipts' = receipts \cup {[of |-> task.of, bytes |-> task.bytes, date |-> task.date, bundle |-> bundle]}
    /\ UNCHANGED <<shared, outer, paused, replaying, staged, spool, quarantine, crops, rows>>

\* promote_staged
Promote ==
    /\ At("promoting") /\ Proceed("recording")
    /\ spool' = spool \cup {task.bytes}
    /\ UNCHANGED <<shared, outer, paused, replaying, staged, quarantine, crops, receipts, rows>>

\* create_source_documents_jobs: a source keeps its date, a document its bundle.
Agrees(r) == jobs[r.bytes] # Absent => jobs[r.bytes].date = r.date /\ jobs[r.bytes].bundle = r.bundle

Created(r) ==
    /\ jobs' = [jobs EXCEPT ![r.bytes] = IF @ = Absent THEN [date |-> r.date, bundle |-> r.bundle, state |-> "queued"] ELSE @]
    /\ discovered' = discovered \cup {r.of}

Record ==
    LET r == [of |-> task.of, bytes |-> task.bytes, date |-> task.date, bundle |-> bundle]
    IN  /\ At("recording")
        /\ \/ Agrees(r) /\ Created(r) /\ NextCandidate /\ UNCHANGED rejected
           \/ ~Agrees(r) /\ Reject /\ UNCHANGED <<jobs, discovered>>
        /\ UNCHANGED <<shared, outer, paused, replaying, staged, store, copies>>

\* A failing call: caught and turned into a rejection, which may fail as well,
\* except where the crops are written; there the service ends.
Caught == {"copying", "decoding", "receipt", "promoting", "recording"}

CallFails ==
    /\ up /\ task # Absent /\ task.at \in Caught /\ IngestionFault
    /\ \/ Reject
       \/ task.at = "recording" /\ NextCandidate /\ UNCHANGED rejected
    /\ UNCHANGED <<shared, up, bundle, day, full, paused, replaying, staged, store, jobs, discovered, copies>>

-----------------------------------------------------------------------------
(* Ends and starts of the service *)

Crash ==
    /\ up /\ IngestionFault
    /\ up' = FALSE /\ paused' = FALSE /\ todo' = <<>> /\ task' = Absent /\ replaying' = {}
    /\ tracker' = [f \in Names |-> Unseen]
    /\ staged' = IF task # Absent /\ task.at # "recording" THEN staged + 1 ELSE staged
    /\ UNCHANGED <<shared, bundle, day, full, store, rows>>

Upgrade ==
    /\ ~up /\ bundle < MaxUpgrades /\ bundle' = bundle + 1
    /\ UNCHANGED <<shared, up, day, full, failures, paused, todo, tracker, task, replaying, staged, store, rows>>

\* reconcile_staging removes only what is older than five minutes.
Swept == {0, staged}

\* reconcile_startup
Start ==
    /\ ~up /\ up' = TRUE
    /\ replaying' = receipts
    /\ staged' \in Swept
    /\ UNCHANGED <<shared, bundle, day, full, failures, paused, todo, tracker, task, store, rows>>

Durable(r) ==
    /\ r.date # Absent
    /\ r.bytes \in spool
    /\ Aligned(r.bytes) => r.bytes \in crops

Replay(r) ==
    /\ up /\ r \in replaying
    /\ replaying' = replaying \ {r}
    /\ \/ Durable(r) /\ Agrees(r) /\ Created(r)
       \/ ~(Durable(r) /\ Agrees(r)) /\ UNCHANGED <<jobs, discovered>>
    /\ UNCHANGED <<shared, outer, paused, todo, tracker, task, staged, store, rejected, copies>>

-----------------------------------------------------------------------------
(* The worker and the artifact API *)

\* processing_context: the spooled source, and the crop if the page was aligned.
Readable(b) == b \in spool /\ (Aligned(b) => b \in crops)

\* record_artifact: once the copy is on disk, the rows of the job name it.
WithCopy(b) == copies \cup {b}

\* PageProcessor.process: the source is copied before the result names it.
Publish(b) ==
    /\ up /\ replaying = {} /\ jobs[b] # Absent /\ jobs[b].state = "queued"
    /\ \/ /\ jobs[b].bundle # bundle
          /\ jobs' = [jobs EXCEPT ![b].state = "failed"] /\ UNCHANGED copies
       \/ /\ jobs[b].bundle = bundle /\ Readable(b)
          /\ copies' = WithCopy(b) /\ jobs' = [jobs EXCEPT ![b].state = "published"]
    /\ UNCHANGED <<shared, outer, paused, todo, tracker, task, replaying, staged, store, discovered, rejected>>

\* _serve_artifact finds and verifies every file a published result names.
Servable(b) == b \in copies /\ (Aligned(b) => b \in crops)

-----------------------------------------------------------------------------
IngestionInit ==
    /\ files = [f \in Names |-> Absent] /\ clock = 0
    /\ up = TRUE /\ bundle = 0 /\ day = 0 /\ full = "low" /\ paused = FALSE
    /\ todo = <<>> /\ tracker = [f \in Names |-> Unseen] /\ task = Absent /\ replaying = {} /\ staged = 0
    /\ spool = {} /\ quarantine = {} /\ crops = {} /\ receipts = {}
    /\ jobs = [b \in Bytes |-> Absent] /\ discovered = {} /\ rejected = {} /\ copies = {}
    /\ failures = 0

\* The steps of the service's own thread.
Serve ==
    \/ Poll \/ PassOver \/ StartCopy \/ CopyRest \/ CheckCopy \/ Decode \/ Cut
    \/ WriteReceipt \/ Promote \/ Record \/ \E r \in receipts : Replay(r)

IngestionNext ==
    \/ \E f \in Names : (\E s \in Scans : Write(f, s)) \/ MarkReady(f) \/ Remove(f)
    \/ DiskFills \/ DiskDrains \/ NextDay
    \/ Serve \/ CallFails \/ Crash \/ Upgrade \/ Start
    \/ \E b \in Bytes : Publish(b)

IngestionSpec == IngestionInit /\ [][IngestionNext]_ingestionVars

\* The loop keeps going, the unit restarts the service, workers take jobs.
FairIngestion == IngestionSpec /\ WF_ingestionVars(Serve) /\ WF_ingestionVars(Start) /\ \A b \in Bytes : WF_ingestionVars(Publish(b))

-----------------------------------------------------------------------------
(* Properties *)

\* A job is backed by what it needs: whole bytes the hardware wrote, neither
\* none nor too many, in the spool, with a receipt that could recreate it as it is; and what a published
\* result refers to can be fetched from the artifact API.
JobsBacked ==
    \A b \in Bytes : jobs[b] # Absent =>
        /\ b[1] = b[2] /\ Fits(b[1]) /\ b \in spool /\ (Aligned(b) => b \in crops)
        /\ \E r \in receipts : r.bytes = b /\ r.date = jobs[b].date /\ r.bundle = jobs[b].bundle
        /\ jobs[b].state = "published" => Servable(b)

\* Without a fault a file in the inbox is refused only for what it is: it is
\* empty or too large, or it does not decode and is in quarantine, or its bytes
\* were taken before.  That it was written to meanwhile, torn or grown while it
\* was copied, is held against the version listed, never against the file there now.
RejectedForCause ==
    \A f \in Names :
        /\ failures = 0 /\ files[f] # Absent
        /\ [file |-> f, stamp |-> files[f].stamp] \in rejected
        => LET b == <<files[f].scan, files[f].scan>>
           IN  ~Fits(files[f].scan) \/ (~Decodes(b) /\ b \in quarantine) \/ jobs[b] # Absent

\* A version of a file that is marked ready is taken or refused in the end,
\* unless it is replaced or removed or the disk stays above the low mark.
FilesSettle ==
    \A f \in Names, n \in 1..MaxWrites :
        LET there == files[f] # Absent /\ files[f].stamp = n /\ files[f].ready
            version == [file |-> f, stamp |-> n]
        IN  there ~> (~there \/ Known(version) \/ full # "low")
-----------------------------------------------------------------------------
(* Inductive invariant *)

Phases == {"copying", "copied", "decoding", "cutting", "receipt", "promoting", "recording"}

Versions == [file : Names, stamp : Nat]

Entries == [scan : Scans, stamp : Nat, ready : BOOLEAN]

Tasks == [at : Phases, of : Versions, first : Scans, bytes : Bytes \cup {Absent}, date : Nat]

IngestionReceipts == [of : Versions, bytes : Bytes, date : Nat, bundle : Nat]

\* Files, rows and what the service holds in memory have their types.
IngestionTypeOK ==
    /\ files \in [Names -> Entries \cup {Absent}] /\ {clock, bundle, day, failures} \subseteq Nat
    /\ todo \in Seq(Versions) /\ task \in Tasks \cup {Absent}
    /\ jobs \in [Bytes -> SourceRows \cup {Absent}]
    /\ receipts \subseteq IngestionReceipts /\ rejected \subseteq Versions

\* A stamp is given out once.
StampsGivenOut ==
    /\ \A f \in Names : files[f] # Absent => files[f].stamp <= clock
    /\ \A i \in 1..Len(todo) : todo[i].stamp <= clock
    /\ task # Absent => task.of.stamp <= clock
    /\ \A v \in rejected : v.stamp <= clock

\* The version that was listed is still the file.
StillThere(v) == files[v.file] # Absent /\ files[v.file].stamp = v.stamp

\* What the ingestion in progress knows of its bytes, step by step.
TaskSound ==
    task # Absent =>
        LET scan == files[task.of.file].scan
            b == task.bytes
        IN  /\ up /\ todo # <<>> /\ Fits(task.first)
            /\ task.at = "copying" /\ StillThere(task.of) => task.first = scan
            /\ task.at # "copying" => b \in Bytes /\ b[1] = task.first /\ (StillThere(task.of) => b = <<scan, scan>>)
            /\ task.at \notin {"copying", "copied"} => b[1] = b[2]
            /\ task.at \in {"receipt", "promoting", "recording"} => (Aligned(b) => b \in crops)
            /\ task.at \in {"promoting", "recording"}
                  => [of |-> task.of, bytes |-> b, date |-> task.date, bundle |-> bundle] \in receipts
            /\ task.at = "recording" => b \in spool

ReceiptsSound == \A r \in receipts : r.bytes[1] = r.bytes[2] /\ Fits(r.bytes[1])

\* Inductive: what JobsBacked and RejectedForCause rest on.
IngestionInvariant ==
    IngestionTypeOK /\ StampsGivenOut /\ TaskSound /\ ReceiptsSound /\ JobsBacked /\ RejectedForCause
=============================================================================
