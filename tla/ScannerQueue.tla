---------------------------- MODULE ScannerQueue ----------------------------
(***************************************************************************)
(* The scanner service: the durable job queue and the callback outbox of   *)
(* storage.py, the worker processes of pipeline.py, the dispatcher of      *)
(* callbacks.py, the recovery loop of cli.py, and the manager's webhook    *)
(* as far as the scanner can see it.                                       *)
(*                                                                         *)
(* Every storage method is one BEGIN IMMEDIATE transaction, so one step.   *)
(* A lease is live until its time runs out; the heartbeat of a healthy     *)
(* worker renews it in time, and a late or dead heartbeat is a fault.      *)
(* Faults of the environment are limited by MaxFaults, so that "in the     *)
(* end" means: once the environment has stopped failing.                   *)
(***************************************************************************)
EXTENDS Integers, Sequences, FiniteSets

CONSTANTS
    Jobs,       \* pages; each is one document, one job and one event
    Workers,    \* worker processes of the service
    Limits,     \* values service.max_job_attempts may be configured to
    MaxFaults,  \* bound: faults of the environment
    MaxReplays, \* bound: manual replays of an event
    None        \* the SQL NULL

ASSUME ScannerAssumption ==
    /\ Limits # {} /\ Limits \subseteq Nat \ {0}
    /\ MaxFaults \in Nat /\ MaxReplays \in Nat
    /\ None \notin Jobs /\ None \notin Workers /\ None \notin Nat

VARIABLES
    job,        \* the jobs table
    queue,      \* jobs in the order of created_at
    worker,     \* what each worker process holds in memory
    event,      \* the outbox table, by job
    outbox,     \* events in the order of created_at
    sender,     \* what the callback dispatcher holds in memory
    wire,       \* callback requests under way to the manager
    inbox,      \* the manager's record of each event: body, or None, and fault
    limit,      \* max_job_attempts since the last start
    faults,     \* faults so far
    replays     \* manual replays so far

jobVars == <<job, queue, worker>>

eventVars == <<event, outbox, sender, wire, inbox, replays>>

vars == <<jobVars, eventVars, limit, faults>>

Fault == faults < MaxFaults /\ faults' = faults + 1

-----------------------------------------------------------------------------
(* Rows *)

NoJob == [state |-> "absent", attempts |-> 0, epoch |-> 0, owner |-> None, live |-> FALSE]

NoEvent == [state |-> "absent", epoch |-> 0, leased |-> FALSE, live |-> FALSE,
            due |-> FALSE, body |-> None]

IdleWorker == [pc |-> "idle", job |-> None, epoch |-> 0]

IdleSender == [pc |-> "idle", job |-> None, epoch |-> 0, answer |-> None]

Final == {"completed", "failed_permanent"}

Undelivered == {"pending", "retrying"}

\* ORDER BY created_at LIMIT 1.
IsOldest(j, seq, S) ==
    /\ j \in S
    /\ \E i \in 1..Len(seq) : seq[i] = j /\ \A k \in 1..(i - 1) : seq[k] \notin S

Exhausted(attempts, max) == attempts >= max

\* The state of a job whose attempt failed.
AfterFailure(attempts, retryable, max) ==
    IF retryable /\ ~Exhausted(attempts, max) THEN "failed_retryable" ELSE "failed_permanent"

\* Mutant: ownership is only a matter of the row's state.
OwnedByState(w) == job[worker[w].job].state = "processing"

\* _assert_owned_job: state, owner, epoch and an unexpired lease.
Owned(w) ==
    LET row == job[worker[w].job]
    IN  /\ row.state = "processing" /\ row.live
        /\ row.owner = w /\ row.epoch = worker[w].epoch

\* A worker process, whose heartbeat runs, is at work under the row's lease.
Attended(j) ==
    \E w \in Workers : /\ worker[w].pc \notin {"idle", "dead"}
                       /\ worker[w].job = j /\ worker[w].epoch = job[j].epoch

-----------------------------------------------------------------------------
(* Jobs and workers *)

\* create_source_documents_jobs; a page already there is left as it is.
Ingest(j) ==
    /\ job[j].state = "absent"
    /\ job' = [job EXCEPT ![j].state = "queued"]
    /\ queue' = Append(queue, j)
    /\ UNCHANGED <<worker, eventVars, limit, faults>>

\* _mark_exhausted_jobs: rows left behind by a limit that has been lowered.
Marked == [j \in Jobs |->
    IF job[j].state = "failed_retryable" /\ Exhausted(job[j].attempts, limit)
    THEN [job[j] EXCEPT !.state = "failed_permanent"]
    ELSE job[j]]

Eligible == {j \in Jobs : \/ job[j].state = "queued"
                          \/ /\ job[j].state = "failed_retryable"
                             /\ ~Exhausted(job[j].attempts, limit)}

ClaimJob(w) ==
    /\ worker[w].pc = "idle"
    /\ \/ \E j \in Jobs :
             /\ IsOldest(j, queue, Eligible)
             /\ job' = [Marked EXCEPT ![j] =
                           [state |-> "processing", attempts |-> job[j].attempts + 1,
                            epoch |-> job[j].epoch + 1, owner |-> w, live |-> TRUE]]
             /\ worker' = [worker EXCEPT ![w] = [pc |-> "claimed", job |-> j,
                                                 epoch |-> job[j].epoch + 1]]
       \/ /\ Eligible = {} /\ Marked # job
          /\ job' = Marked
          /\ UNCHANGED worker
    /\ UNCHANGED <<queue, eventVars, limit, faults>>

\* The worker drops what it was doing and returns to its loop.
Abandon(w) == worker' = [worker EXCEPT ![w] = IdleWorker] /\ UNCHANGED job

\* PageProcessor.process: record_artifact is fenced, errors are classified.
Process(w) ==
    /\ worker[w].pc = "claimed"
    /\ \/ Owned(w) /\ worker' = [worker EXCEPT ![w].pc = "done"] /\ UNCHANGED job
       \/ ~Owned(w) /\ Abandon(w)
       \/ \E pc \in {"permanent", "retryable"} :
             worker' = [worker EXCEPT ![w].pc = pc] /\ UNCHANGED job
    /\ UNCHANGED <<queue, eventVars, limit, faults>>

\* complete_job: result, outbox row and job state in one transaction; an
\* error of the database becomes a retryable failure of the job.
CompleteJob(w) ==
    LET j == worker[w].job
    IN  /\ worker[w].pc = "done"
        /\ \/ /\ Owned(w) /\ event[j].state = "absent"
              /\ job' = [job EXCEPT ![j].state = "completed", ![j].owner = None, ![j].live = FALSE]
              /\ event' = [event EXCEPT ![j] = [NoEvent EXCEPT !.state = "pending", !.due = TRUE,
                                                               !.body = worker[w].epoch]]
              /\ outbox' = Append(outbox, j)
              /\ worker' = [worker EXCEPT ![w] = IdleWorker]
           \/ /\ ~Owned(w)
              /\ Abandon(w)
              /\ UNCHANGED <<event, outbox>>
           \/ /\ Owned(w)
              /\ worker' = [worker EXCEPT ![w].pc = "retryable"]
              /\ UNCHANGED <<job, event, outbox>>
        /\ UNCHANGED <<queue, sender, wire, inbox, replays, limit, faults>>

\* Mutant: fail_job without _assert_owned_job.
FailJobUnfenced(w) ==
    LET j == worker[w].job
        retryable == worker[w].pc = "retryable"
    IN  /\ worker[w].pc \in {"permanent", "retryable"}
        /\ job' = [job EXCEPT ![j].state = AfterFailure(job[j].attempts, retryable, limit),
                              ![j].owner = None, ![j].live = FALSE]
        /\ worker' = [worker EXCEPT ![w] = IdleWorker]
        /\ UNCHANGED <<queue, eventVars, limit, faults>>

\* _fail_owned_job: fenced as well; an error code that is no identifier, or a
\* database error, leaves the row to the recovery of its lease.
FailJob(w) ==
    LET j == worker[w].job
        retryable == worker[w].pc = "retryable"
    IN  /\ worker[w].pc \in {"permanent", "retryable"}
        /\ \/ /\ Owned(w)
              /\ job' = [job EXCEPT ![j].state = AfterFailure(job[j].attempts, retryable, limit),
                                    ![j].owner = None, ![j].live = FALSE]
              /\ worker' = [worker EXCEPT ![w] = IdleWorker]
           \/ Abandon(w)
        /\ UNCHANGED <<queue, eventVars, limit, faults>>

\* A lease nobody renews runs out.
LeaseRunsOut(j) ==
    /\ job[j].live /\ ~Attended(j)
    /\ job' = [job EXCEPT ![j].live = FALSE]
    /\ UNCHANGED <<queue, worker, eventVars, limit, faults>>

\* The heartbeat of a working process is late or has died.
HeartbeatMissed(j) ==
    /\ job[j].live /\ Attended(j) /\ Fault
    /\ job' = [job EXCEPT ![j].live = FALSE]
    /\ UNCHANGED <<queue, worker, eventVars, limit>>

RecoveredJobs(max) == [j \in Jobs |->
    IF job[j].state = "processing" /\ ~job[j].live
    THEN [job[j] EXCEPT !.state = AfterFailure(job[j].attempts, TRUE, max), !.owner = None]
    ELSE job[j]]

\* Mutant: expired leases are recovered when the service starts, not after.
RecoverJobsNever == FALSE /\ UNCHANGED vars

\* recover_expired_leases, from the main loop.
RecoverJobs ==
    /\ RecoveredJobs(limit) # job
    /\ job' = RecoveredJobs(limit)
    /\ UNCHANGED <<queue, worker, eventVars, limit, faults>>

-----------------------------------------------------------------------------
(* Events and the dispatcher *)

Claimable ==
    {j \in Jobs : /\ event[j].state \in Undelivered /\ event[j].due
                  /\ ~event[j].leased \/ ~event[j].live}

ClaimOutbox ==
    /\ sender.pc = "idle"
    /\ \E j \in Jobs :
          /\ IsOldest(j, outbox, Claimable)
          /\ event' = [event EXCEPT ![j].epoch = @ + 1, ![j].leased = TRUE, ![j].live = TRUE]
          /\ sender' = [pc |-> "claimed", job |-> j, epoch |-> event[j].epoch + 1,
                        answer |-> None]
    /\ UNCHANGED <<jobVars, outbox, wire, inbox, replays, limit, faults>>

Answered(answer) == sender' = [sender EXCEPT !.pc = "answered", !.answer = answer]

\* deliver_once: a body over the limit is not sent.
Send ==
    /\ sender.pc = "claimed"
    /\ \/ /\ wire' = wire \cup {[job |-> sender.job, epoch |-> sender.epoch,
                                 body |-> event[sender.job].body]}
          /\ sender' = [sender EXCEPT !.pc = "sent"]
       \/ Answered("refused") /\ UNCHANGED wire
    /\ UNCHANGED <<jobVars, event, outbox, inbox, replays, limit, faults>>

Awaited(m) == sender.pc = "sent" /\ sender.job = m.job /\ sender.epoch = m.epoch

\* The answer reaches the dispatcher only if it still waits for it.
Reply(m, answer) == IF Awaited(m) THEN Answered(answer) ELSE UNCHANGED sender

\* ScannerWebhookService.receive: the first body of an event is recorded, the
\* same one again is a duplicate, another one an integrity fault (409).
Receive(m) ==
    /\ wire' = wire \ {m}
    /\ \/ /\ inbox[m.job].body \in {None, m.body}
          /\ inbox' = [inbox EXCEPT ![m.job].body = m.body]
          /\ \/ Reply(m, "ok") /\ UNCHANGED faults
             \/ Awaited(m) /\ Reply(m, "retry") /\ Fault           \* the answer is lost
       \/ /\ inbox[m.job].body \notin {None, m.body}
          /\ inbox' = [inbox EXCEPT ![m.job].fault = TRUE]
          /\ Reply(m, "refused")
          /\ UNCHANGED faults
    /\ UNCHANGED <<jobVars, event, outbox, replays, limit>>

\* The manager refuses for good (4xx), is unavailable (5xx), or the request is lost.
TurnAway(m) ==
    /\ wire' = wire \ {m}
    /\ \/ Reply(m, "refused") /\ UNCHANGED faults
       \/ Awaited(m) /\ Reply(m, "retry") /\ Fault
    /\ UNCHANGED <<jobVars, event, outbox, inbox, replays, limit>>

\* The dispatcher gives up on a request that is still under way.
TimeOut ==
    /\ sender.pc = "sent" /\ Fault
    /\ Answered("retry")
    /\ UNCHANGED <<jobVars, event, outbox, wire, inbox, replays, limit>>

\* _assert_owned_outbox; there is one dispatcher, so the owner is a flag.
OwnedEvent ==
    LET row == event[sender.job]
    IN  /\ row.state \in Undelivered /\ row.leased /\ row.live
        /\ row.epoch = sender.epoch

Outcome(answer) ==
    CASE answer = "ok"      -> "delivered"
      [] answer = "retry"   -> "retrying"
      [] answer = "refused" -> "blocked"

\* mark_outbox_delivered, schedule_outbox_retry, block_outbox; a lost lease or
\* any other error is logged and the loop goes on.
FinishAttempt ==
    /\ sender.pc = "answered"
    /\ sender' = IdleSender
    /\ \/ /\ OwnedEvent
          /\ event' = [event EXCEPT ![sender.job] =
                          [@ EXCEPT !.state = Outcome(sender.answer), !.leased = FALSE,
                                    !.live = FALSE, !.due = sender.answer # "retry"]]
          /\ UNCHANGED faults
       \/ ~OwnedEvent /\ UNCHANGED <<event, faults>>
       \/ OwnedEvent /\ Fault /\ UNCHANGED event
    /\ UNCHANGED <<jobVars, outbox, wire, inbox, replays, limit>>

\* The delay of RetryPolicy is over.
RetryDue(j) ==
    /\ event[j].state = "retrying" /\ ~event[j].due
    /\ event' = [event EXCEPT ![j].due = TRUE]
    /\ UNCHANGED <<jobVars, outbox, sender, wire, inbox, replays, limit, faults>>

InHand(j) == sender.pc # "idle" /\ sender.job = j /\ sender.epoch = event[j].epoch

EventLeaseRunsOut(j) ==
    /\ event[j].leased /\ event[j].live
    /\ InHand(j) => Fault
    /\ ~InHand(j) => UNCHANGED faults
    /\ event' = [event EXCEPT ![j].live = FALSE]
    /\ UNCHANGED <<jobVars, outbox, sender, wire, inbox, replays, limit>>

RecoveredEvents == [j \in Jobs |->
    IF event[j].state \in Undelivered /\ event[j].leased /\ ~event[j].live
    THEN [event[j] EXCEPT !.state = "retrying", !.leased = FALSE, !.due = TRUE]
    ELSE event[j]]

\* recover_expired_outbox_leases, from the main loop.
RecoverEvents ==
    /\ RecoveredEvents # event
    /\ event' = RecoveredEvents
    /\ UNCHANGED <<jobVars, outbox, sender, wire, inbox, replays, limit, faults>>

\* replay_outbox, from the command line: any event that is not leased.
ReplayOutbox(j) ==
    /\ event[j].state # "absent" /\ ~event[j].leased
    /\ replays < MaxReplays /\ replays' = replays + 1
    /\ event' = [event EXCEPT ![j].state = "pending", ![j].due = TRUE]
    /\ UNCHANGED <<jobVars, outbox, sender, wire, inbox, limit, faults>>

-----------------------------------------------------------------------------
(* Processes *)

\* One worker process dies; the service goes on without it, and nothing
\* replaces it before the next start.  The last one is assumed to survive.
WorkerDies(w) ==
    /\ \E v \in Workers \ {w} : worker[v].pc # "dead"
    /\ worker[w].pc # "dead" /\ Fault
    /\ worker' = [worker EXCEPT ![w] = [IdleWorker EXCEPT !.pc = "dead"]]
    /\ UNCHANGED <<job, queue, eventVars, limit>>

\* The service dies and systemd starts it again: memory is gone, requests
\* under way are not, and expired leases are recovered before any worker runs.
Restart ==
    /\ Fault
    /\ limit' \in Limits
    /\ job' = RecoveredJobs(limit')
    /\ event' = RecoveredEvents
    /\ worker' = [w \in Workers |-> IdleWorker]
    /\ sender' = IdleSender
    /\ UNCHANGED <<queue, outbox, wire, inbox, replays>>

-----------------------------------------------------------------------------
Init ==
    /\ job = [j \in Jobs |-> NoJob] /\ queue = << >>
    /\ worker = [w \in Workers |-> IdleWorker]
    /\ event = [j \in Jobs |-> NoEvent] /\ outbox = << >>
    /\ sender = IdleSender
    /\ wire = {} /\ inbox = [j \in Jobs |-> [body |-> None, fault |-> FALSE]]
    /\ limit \in Limits
    /\ faults = 0 /\ replays = 0

WorkerStep(w) == ClaimJob(w) \/ Process(w) \/ CompleteJob(w) \/ FailJob(w)

SenderStep == ClaimOutbox \/ Send \/ FinishAttempt

ManagerStep == \E m \in wire : Receive(m) \/ TurnAway(m)

TimeStep(j) == LeaseRunsOut(j) \/ EventLeaseRunsOut(j) \/ RetryDue(j)

Next ==
    \/ \E w \in Workers : WorkerStep(w) \/ WorkerDies(w)
    \/ SenderStep \/ ManagerStep \/ TimeOut
    \/ \E j \in Jobs :
          Ingest(j) \/ TimeStep(j) \/ HeartbeatMissed(j) \/ ReplayOutbox(j)
    \/ RecoverJobs \/ RecoverEvents
    \/ Restart

Spec == Init /\ [][Next]_vars

\* Live processes keep running, the main loop comes round to its recovery,
\* time passes, and a request under way is answered.  Pages need not arrive,
\* nobody need replay, and no fault need happen.
FairSpec ==
    /\ Spec
    /\ \A w \in Workers : WF_vars(WorkerStep(w))
    /\ WF_vars(SenderStep) /\ WF_vars(ManagerStep)
    /\ \A j \in Jobs : WF_vars(LeaseRunsOut(j)) /\ WF_vars(RetryDue(j))
                       /\ WF_vars(EventLeaseRunsOut(j))
    /\ WF_vars(RecoverJobs) /\ WF_vars(RecoverEvents)

-----------------------------------------------------------------------------
(* Properties *)

(***************************************************************************)
(* "jobs are never acknowledged before commit", and a stale worker is      *)
(* fenced: a page is completed exactly when its event is in the outbox,    *)
(* once, and the result is that of the latest claim of the job.            *)
(***************************************************************************)
OneResultPerPage ==
    \A j \in Jobs :
        /\ job[j].state = "completed" <=> event[j].state # "absent"
        /\ job[j].state = "completed" => event[j].body = job[j].epoch
        /\ Cardinality({i \in 1..Len(outbox) : outbox[i] = j}) <= 1

(***************************************************************************)
(* Whatever is retried, replayed or late, the manager records at most one  *)
(* body per event, the committed one: its integrity fault never fires, and *)
(* an event marked delivered has been recorded.                            *)
(***************************************************************************)
ReceiptsFaithful ==
    \A j \in Jobs :
        /\ ~inbox[j].fault
        /\ inbox[j].body # None => inbox[j].body = event[j].body
        /\ event[j].state = "delivered" => inbox[j].body # None

\* No crash, lease loss or lowered limit buys a job more claims than the
\* largest configured max_job_attempts.
AttemptsBounded ==
    \A j \in Jobs : \E max \in Limits : job[j].attempts <= max

\* One result per page on both sides, within the attempts.
ResultsSound == OneResultPerPage /\ ReceiptsFaithful /\ AttemptsBounded

\* A completed or permanently failed job never changes again: no late worker,
\* recovery or restart reopens it.
FinalJobsStay ==
    [][\A j \in Jobs : job[j].state \in Final => job'[j] = job[j]]_vars

\* Every page ends: processed, or given up after its attempts.
PagesEnd ==
    \A j \in Jobs : (job[j].state # "absent") ~> (job[j].state \in Final)

\* Every result reaches the manager, unless the manager refuses it for good.
EventsEnd ==
    \A j \in Jobs :
        (job[j].state = "completed") ~> (event[j].state \in {"delivered", "blocked"})

\* Nothing that came in is left behind, by the queue or by the outbox.
WorkEnds == PagesEnd /\ EventsEnd
-----------------------------------------------------------------------------
(* Inductive invariant *)

JobStates == {"absent", "queued", "processing", "completed", "failed_retryable",
              "failed_permanent"}

EventStates == {"absent", "pending", "retrying", "delivered", "blocked"}

JobRows == [state: JobStates, attempts: Nat, epoch: Nat,
            owner: Workers \cup {None}, live: BOOLEAN]

EventRows == [state: EventStates, epoch: Nat, leased: BOOLEAN, live: BOOLEAN,
              due: BOOLEAN, body: Nat \cup {None}]

WorkerMemories == [pc: {"idle", "claimed", "done", "permanent", "retryable", "dead"},
                   job: Jobs \cup {None}, epoch: Nat]

SenderMemories == [pc: {"idle", "claimed", "sent", "answered"}, job: Jobs \cup {None},
                   epoch: Nat, answer: {"ok", "retry", "refused", None}]

Requests == [job: Jobs, epoch: Nat, body: Nat \cup {None}]

Receipts == [body: Nat \cup {None}, fault: BOOLEAN]

\* Rows, memory and messages have their types.
TypeOK ==
    /\ job \in [Jobs -> JobRows] /\ queue \in Seq(Jobs)
    /\ worker \in [Workers -> WorkerMemories]
    /\ event \in [Jobs -> EventRows] /\ outbox \in Seq(Jobs)
    /\ sender \in SenderMemories
    /\ wire \subseteq Requests
    /\ inbox \in [Jobs -> Receipts]
    /\ limit \in Limits /\ faults \in Nat /\ replays \in Nat

\* Whoever is at work has a job.
WorkersHaveJobs ==
    \A w \in Workers : worker[w].pc \notin {"idle", "dead"} => worker[w].job \in Jobs

\* Only a job in processing has a lease, and a job has been claimed before it
\* counts attempts.
LeasesAreOfWork ==
    \A j \in Jobs :
        /\ job[j].live => job[j].state = "processing"
        /\ job[j].state \in {"absent", "queued"} => job[j].attempts = 0

\* The outbox lists each event once, from the commit of its result on.
OutboxIsOfResults ==
    /\ \A i, k \in 1..Len(outbox) : outbox[i] = outbox[k] => i = k
    /\ \A i \in 1..Len(outbox) : event[outbox[i]].state # "absent"
    /\ \A j \in Jobs :
          /\ job[j].state = "completed" <=> event[j].state # "absent"
          /\ job[j].state = "completed" => event[j].body = job[j].epoch

\* Whatever is being sent, under way or recorded is the committed body, and
\* the dispatcher believes in a receipt only after there is one.
SentIsCommitted ==
    /\ sender.pc # "idle" => sender.job \in Jobs /\ event[sender.job].state # "absent"
    /\ sender.pc = "answered" /\ sender.answer = "ok" => inbox[sender.job].body # None
    /\ sender.pc = "answered" => sender.answer \in {"ok", "retry", "refused"}
    /\ \A m \in wire : event[m.job].state # "absent" /\ m.body = event[m.job].body
    /\ \A j \in Jobs :
          /\ inbox[j].body # None => event[j].state # "absent" /\ inbox[j].body = event[j].body
          /\ ~inbox[j].fault
          /\ event[j].state = "delivered" => inbox[j].body # None

\* Inductive: what ResultsSound and FinalJobsStay rest on.
IInv ==
    /\ TypeOK /\ WorkersHaveJobs /\ LeasesAreOfWork
    /\ OutboxIsOfResults /\ SentIsCommitted /\ AttemptsBounded
=============================================================================
