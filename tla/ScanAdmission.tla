--------------------------- MODULE ScanAdmission ---------------------------
(***************************************************************************)
(* Admission of uploaded scans: ScanAdmissionService.enter and the release *)
(* it returns, around ScansService.submit, which inserts one sheet per     *)
(* image checksum, and the sheet queue that ScanProcessorService drains.   *)
(*                                                                         *)
(* Node runs one step at a time; a step ends where the code awaits the     *)
(* database or another upload.  A count of waiting sheets is a snapshot:   *)
(* rows may appear between the query and the decision made on its answer.  *)
(***************************************************************************)
EXTENDS Integers, Sequences, FiniteSets

CONSTANTS
    Uploads,        \* HTTP requests that may be in progress at once
    Credentials,    \* scan agents and operators
    Checksums,      \* image checksums; their number bounds the sheets
    MaxPending,     \* SCAN_MAX_PENDING
    MaxConcurrent,  \* SCAN_MAX_CONCURRENT_PER_CREDENTIAL
    RateLimit,      \* SCAN_RATE_LIMIT_PER_MINUTE
    None            \* nothing there

ASSUME AdmissionAssumption ==
    /\ MaxPending \in Nat /\ MaxConcurrent \in Nat /\ RateLimit \in Nat
    /\ None \notin Credentials \cup Checksums \cup {"pending", "processing", "done"}
    /\ IsFiniteSet(Uploads) /\ IsFiniteSet(Checksums)

VARIABLES
    sheets,     \* checksum -> None or the status of its row
    up,         \* what each upload holds in memory
    chain,      \* credential -> uploads in its lock chain, in order
    active,     \* credential -> admitted uploads not yet left
    recent,     \* credential -> admissions of the last minute
    checks,     \* pendingChecksInProgress
    inFlight,   \* inFlightPendingReservations
    deferred    \* deferredPendingReleases

vars == <<sheets, up, chain, active, recent, checks, inFlight, deferred>>

counters == <<checks, inFlight, deferred>>

Waiting == {k \in Checksums : sheets[k] \in {"pending", "processing"}}

Idle == [pc |-> "idle", cred |-> None, sum |-> None, seen |-> 0]

\* Uploads that a reservation stands for.
Holders == {u \in Uploads :
               up[u].pc \in {"counting", "counted", "reserved", "admitted", "saving", "inserted"}}

AtLeastZero(n) == IF n < 0 THEN 0 ELSE n

-----------------------------------------------------------------------------
(* ScanAdmissionService *)

\* enter: join the credential's chain of promises.
Enter(u, c, k) ==
    /\ up[u].pc = "idle"
    /\ up' = [up EXCEPT ![u] = [pc |-> "queued", cred |-> c, sum |-> k, seen |-> 0]]
    /\ chain' = [chain EXCEPT ![c] = Append(@, u)]
    /\ UNCHANGED <<sheets, active, recent, counters>>

Unlock(u) == chain' = [chain EXCEPT ![up[u].cred] = Tail(@)]

\* enterLocked up to the count, with the synchronous start of reservePendingSlot.
StartCheck(u) ==
    LET c == up[u].cred
        refused == recent[c] >= RateLimit \/ active[c] >= MaxConcurrent
    IN  /\ up[u].pc = "queued" /\ Head(chain[c]) = u
        /\ \/ /\ refused
              /\ up' = [up EXCEPT ![u] = Idle]
              /\ Unlock(u)
              /\ UNCHANGED counters
           \/ /\ ~refused
              /\ up' = [up EXCEPT ![u].pc = "counting"]
              /\ checks' = checks + 1
              /\ inFlight' = inFlight + 1
              /\ UNCHANGED <<chain, deferred>>
        /\ UNCHANGED <<sheets, active, recent>>

\* The database answers the count; the answer has yet to reach the upload.
Count(u) ==
    /\ up[u].pc = "counting"
    /\ up' = [up EXCEPT ![u].pc = "counted", ![u].seen = Cardinality(Waiting)]
    /\ UNCHANGED <<sheets, chain, active, recent, counters>>

\* Mutant: the deferred releases are forgotten.
EndCheckForgetful(held) ==
    /\ checks' = checks - 1
    /\ inFlight' = held
    /\ deferred' = IF checks = 1 THEN 0 ELSE deferred

\* The finally of reservePendingSlot; `held` reservations are left.
EndCheck(held) ==
    /\ checks' = checks - 1
    /\ inFlight' = IF checks = 1 THEN AtLeastZero(held - deferred) ELSE held
    /\ deferred' = IF checks = 1 THEN 0 ELSE deferred

\* Mutant: a full queue is refused without unlocking the credential.
DecideStuck(u) ==
    LET full == up[u].seen + inFlight > MaxPending
    IN  /\ up[u].pc = "counted"
        /\ up' = [up EXCEPT ![u] = IF full THEN Idle ELSE [@ EXCEPT !.pc = "reserved"]]
        /\ EndCheck(IF full THEN inFlight - 1 ELSE inFlight)
        /\ UNCHANGED <<chain, sheets, active, recent>>

\* Compare, with every reservation of this moment on top of the snapshot.
Decide(u) ==
    LET full == up[u].seen + inFlight > MaxPending
    IN  /\ up[u].pc = "counted"
        /\ \/ /\ full
              /\ up' = [up EXCEPT ![u] = Idle]
              /\ EndCheck(inFlight - 1)
              /\ Unlock(u)
           \/ /\ ~full
              /\ up' = [up EXCEPT ![u].pc = "reserved"]
              /\ EndCheck(inFlight)
              /\ UNCHANGED chain
        /\ UNCHANGED <<sheets, active, recent>>

\* The count fails: the reservation is given up and the error thrown.
CountFails(u) ==
    /\ up[u].pc = "counting"
    /\ up' = [up EXCEPT ![u] = Idle]
    /\ EndCheck(AtLeastZero(inFlight - 1))
    /\ Unlock(u)
    /\ UNCHANGED <<sheets, active, recent>>

\* releasePending: kept on the books while any count is undecided.
ReleasePending ==
    /\ deferred' = IF checks > 0 THEN deferred + 1 ELSE deferred
    /\ inFlight' = IF checks > 0 THEN inFlight ELSE AtLeastZero(inFlight - 1)
    /\ UNCHANGED checks

\* The rest of enterLocked: the storage watermark, then the books.
Admit(u) ==
    LET c == up[u].cred
    IN  /\ up[u].pc = "reserved"
        /\ Unlock(u)
        /\ \/ /\ up' = [up EXCEPT ![u] = Idle]        \* storage is full
              /\ ReleasePending
              /\ UNCHANGED <<active, recent>>
           \/ /\ up' = [up EXCEPT ![u].pc = "admitted"]
              /\ recent' = [recent EXCEPT ![c] = @ + 1]
              /\ active' = [active EXCEPT ![c] = @ + 1]
              /\ UNCHANGED counters
        /\ UNCHANGED sheets

\* The release that enter returned, in the finally of submit.
Leave(u) ==
    /\ up' = [up EXCEPT ![u] = Idle]
    /\ ReleasePending
    /\ active' = [active EXCEPT ![up[u].cred] = AtLeastZero(@ - 1)]
    /\ UNCHANGED <<chain, recent>>

-----------------------------------------------------------------------------
(* ScansService.submit *)

\* Validation, preflight and the lookup of the checksum, then the image file.
FindDuplicate(u) ==
    /\ up[u].pc = "admitted"
    /\ UNCHANGED sheets
    /\ \/ Leave(u)                                      \* any of them throws
       \/ /\ sheets[up[u].sum] = None
          /\ up' = [up EXCEPT ![u].pc = "saving"]
          /\ UNCHANGED <<chain, active, recent, counters>>

\* The unique checksum index lets one of two racing uploads through.
Insert(u) ==
    /\ up[u].pc = "saving"
    /\ \/ /\ sheets[up[u].sum] = None
          /\ sheets' = [sheets EXCEPT ![up[u].sum] = "pending"]
          /\ up' = [up EXCEPT ![u].pc = "inserted"]
          /\ UNCHANGED <<chain, active, recent, counters>>
       \/ Leave(u) /\ UNCHANGED sheets

\* enqueue, and the answer to the client.
Answer(u) ==
    /\ up[u].pc = "inserted"
    /\ Leave(u)
    /\ UNCHANGED sheets

-----------------------------------------------------------------------------
(* Around the uploads *)

\* The processor starts a sheet, puts it off to a later try, or is done with it.
Process(k) ==
    /\ \/ sheets[k] = "pending" /\ sheets' = [sheets EXCEPT ![k] = "processing"]
       \/ sheets[k] = "processing" /\ sheets' = [sheets EXCEPT ![k] = "pending"]
       \/ sheets[k] = "processing" /\ sheets' = [sheets EXCEPT ![k] = "done"]
    /\ UNCHANGED <<up, chain, active, recent, counters>>

\* An admission is more than a minute old.
MinutePasses(c) ==
    /\ recent[c] > 0
    /\ recent' = [recent EXCEPT ![c] = @ - 1]
    /\ UNCHANGED <<sheets, up, chain, active, counters>>

\* The backend restarts: the rows stay, everything in memory is gone.
Restart ==
    /\ up' = [u \in Uploads |-> Idle]
    /\ chain' = [c \in Credentials |-> << >>]
    /\ active' = [c \in Credentials |-> 0]
    /\ recent' = [c \in Credentials |-> 0]
    /\ checks' = 0 /\ inFlight' = 0 /\ deferred' = 0
    /\ UNCHANGED sheets

Init ==
    /\ sheets = [k \in Checksums |-> None]
    /\ up = [u \in Uploads |-> Idle]
    /\ chain = [c \in Credentials |-> << >>]
    /\ active = [c \in Credentials |-> 0]
    /\ recent = [c \in Credentials |-> 0]
    /\ checks = 0 /\ inFlight = 0 /\ deferred = 0

Advance(u) ==
    \/ StartCheck(u) \/ Count(u) \/ CountFails(u) \/ Decide(u) \/ Admit(u)
    \/ FindDuplicate(u) \/ Insert(u) \/ Answer(u)

Next ==
    \/ \E u \in Uploads :
          \/ \E c \in Credentials, k \in Checksums : Enter(u, c, k)
          \/ Advance(u)
    \/ \E k \in Checksums : Process(k)
    \/ \E c \in Credentials : MinutePasses(c)
    \/ Restart

Spec == Init /\ [][Next]_vars

-----------------------------------------------------------------------------
(***************************************************************************)
(* SCAN_MAX_PENDING is a hard bound: however the counts of overlapping     *)
(* uploads interleave with the inserts, no more sheets than that wait.     *)
(***************************************************************************)
QueueBounded == Cardinality(Waiting) <= MaxPending

(***************************************************************************)
(* Nothing leaks: the reservations on the books are those of the uploads   *)
(* in progress and the releases put off, and a release is only put off     *)
(* while a count is undecided, so an idle service has all its capacity.    *)
(***************************************************************************)
ReservationsAccounted ==
    /\ inFlight = Cardinality(Holders) + deferred
    /\ checks = Cardinality({u \in Uploads : up[u].pc \in {"counting", "counted"}})
    /\ deferred > 0 => checks > 0

(***************************************************************************)
(* Per-credential limits hold although the check and the count of an       *)
(* admission are separated by an await: the chain admits one at a time.    *)
(***************************************************************************)
CredentialBounded ==
    \A c \in Credentials :
        /\ active[c] = Cardinality({u \in Uploads : /\ up[u].cred = c
                                       /\ up[u].pc \in {"admitted", "saving", "inserted"}})
        /\ active[c] <= MaxConcurrent
        /\ recent[c] <= RateLimit

(***************************************************************************)
(* No refusal, failure or admission leaves a credential locked: whoever    *)
(* waits in a chain is behind an upload that is itself inside enter, and   *)
(* an upload is in the chain of its credential exactly while it is there.  *)
(***************************************************************************)
ChainServed ==
    /\ \A c \in Credentials : \A i \in 1..Len(chain[c]) :
          LET u == chain[c][i]
          IN  /\ up[u].cred = c
              /\ up[u].pc \in IF i = 1 THEN {"queued", "counting", "counted", "reserved"}
                                      ELSE {"queued"}
    /\ \A u \in Uploads : up[u].pc \in {"queued", "counting", "counted", "reserved"} =>
          \E i \in 1..Len(chain[up[u].cred]) : chain[up[u].cred][i] = u

(***************************************************************************)
(* The limits of admission hold at every interleaving, and no capacity is  *)
(* lost to a refusal, a failure or a late release.                         *)
(***************************************************************************)
CapacityHeld == QueueBounded /\ ReservationsAccounted /\ CredentialBounded

-----------------------------------------------------------------------------
(* Inductive invariant *)

Entering == {"queued", "counting", "counted", "reserved"}

Checking == {u \in Uploads : up[u].pc \in {"counting", "counted"}}

Promised == {u \in Uploads : up[u].pc \in {"reserved", "admitted", "saving"}}

Written == {u \in Uploads : up[u].pc = "inserted"}

ActiveOf(c) == {u \in Uploads : up[u].cred = c /\ up[u].pc \in {"admitted", "saving", "inserted"}}

UploadMemories == [pc: Entering \cup {"idle", "admitted", "saving", "inserted"},
                   cred: Credentials \cup {None}, sum: Checksums \cup {None}, seen: Nat]

\* Rows, memory and counters have their types.
TypeOK ==
    /\ sheets \in [Checksums -> {None, "pending", "processing", "done"}]
    /\ up \in [Uploads -> UploadMemories]
    /\ chain \in [Credentials -> Seq(Uploads)]
    /\ active \in [Credentials -> Nat] /\ recent \in [Credentials -> Nat]
    /\ checks \in Nat /\ inFlight \in Nat /\ deferred \in Nat

\* An upload in progress knows its credential and its checksum.
UploadsKnown ==
    \A u \in Uploads : up[u].pc # "idle" => up[u].cred \in Credentials /\ up[u].sum \in Checksums

\* The books, by what the uploads that hold a reservation may still do.
Books ==
    /\ inFlight = Cardinality(Checking) + Cardinality(Promised) + Cardinality(Written) + deferred
    /\ checks = Cardinality(Checking)
    /\ deferred > 0 => checks > 0

\* Every upload that was let through has room for its sheet.
RoomKept == Cardinality(Waiting) + Cardinality(Promised) <= MaxPending

\* What has been inserted since a snapshot is still on the books, held by an
\* upload or as a release put off.
SnapshotsCovered ==
    \A u \in Uploads : up[u].pc = "counted" =>
        Cardinality(Waiting) <= up[u].seen + Cardinality(Written) + deferred

\* The limits that were checked still have room when the books are written.
LimitsChecked ==
    /\ \A c \in Credentials :
          active[c] = Cardinality(ActiveOf(c)) /\ active[c] <= MaxConcurrent /\ recent[c] <= RateLimit
    /\ \A u \in Uploads : up[u].pc \in {"counting", "counted", "reserved"} =>
          active[up[u].cred] < MaxConcurrent /\ recent[up[u].cred] < RateLimit

\* Nobody is in a chain twice.
ChainOnce ==
    \A c \in Credentials : \A i, k \in 1..Len(chain[c]) : chain[c][i] = chain[c][k] => i = k

\* Inductive: what CapacityHeld and ChainServed rest on.
IInv ==
    /\ TypeOK /\ UploadsKnown /\ ChainServed /\ ChainOnce
    /\ Books /\ RoomKept /\ SnapshotsCovered /\ LimitsChecked
=============================================================================
