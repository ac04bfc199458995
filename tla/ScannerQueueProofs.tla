------------------------- MODULE ScannerQueueProofs -------------------------
(***************************************************************************)
(* Proofs about the scanner service: of its queue and outbox               *)
(* (ScannerQueue), for any pages, workers, limits and faults, and of its   *)
(* intake (ScannerIngestion), for any files, writes, crashes and upgrades. *)
(***************************************************************************)
EXTENDS ScannerQueue, ScannerIngestion, FiniteSetTheorems, WellFoundedInduction, TLAPS

-----------------------------------------------------------------------------
(* Types *)

\* The outcome of a failed attempt is a state of a job.
LEMMA AfterFailureType ==
    ASSUME NEW attempts, NEW retryable, NEW max
    PROVE  AfterFailure(attempts, retryable, max) \in {"failed_retryable", "failed_permanent"}
BY DEF AfterFailure

\* The outcome of a delivery is a state of an event.
LEMMA OutcomeType ==
    ASSUME NEW answer \in {"ok", "retry", "refused"}
    PROVE  Outcome(answer) \in {"delivered", "retrying", "blocked"}
BY DEF Outcome

\* _mark_exhausted_jobs leaves rows of the jobs table.
LEMMA MarkedType ==
    ASSUME job \in [Jobs -> JobRows]
    PROVE  Marked \in [Jobs -> JobRows]
BY DEF Marked, JobRows, JobStates

\* So does the recovery of expired leases, under any limit.
LEMMA RecoveredJobsType ==
    ASSUME job \in [Jobs -> JobRows], NEW max
    PROVE  RecoveredJobs(max) \in [Jobs -> JobRows]
BY DEF RecoveredJobs, AfterFailure, JobRows, JobStates

\* And the recovery of expired leases of events.
LEMMA RecoveredEventsType ==
    ASSUME event \in [Jobs -> EventRows]
    PROVE  RecoveredEvents \in [Jobs -> EventRows]
BY DEF RecoveredEvents, EventRows, EventStates

\* A claim leaves a row of the jobs table.
LEMMA ClaimedType ==
    ASSUME job \in [Jobs -> JobRows], NEW w \in Workers, NEW j \in Jobs
    PROVE  [state |-> "processing", attempts |-> job[j].attempts + 1,
            epoch |-> job[j].epoch + 1, owner |-> w, live |-> TRUE] \in JobRows
BY DEF JobRows, JobStates

\* What the end of an attempt makes of a job.
LEMMA JobUpdates ==
    ASSUME job \in [Jobs -> JobRows], NEW j \in Jobs,
           NEW state \in {"completed", "failed_retryable", "failed_permanent"}
    PROVE  [job EXCEPT ![j].state = state, ![j].owner = None, ![j].live = FALSE]
               \in [Jobs -> JobRows]
BY ZenonT(30) DEF JobRows, JobStates

\* The outbox row that complete_job inserts.
LEMMA CommittedType ==
    ASSUME event \in [Jobs -> EventRows], worker \in [Workers -> WorkerMemories],
           NEW w \in Workers, NEW j \in Jobs
    PROVE  [event EXCEPT ![j] = [NoEvent EXCEPT !.state = "pending", !.due = TRUE,
                                               !.body = worker[w].epoch]]
               \in [Jobs -> EventRows]
BY DEF NoEvent, EventRows, EventStates, WorkerMemories

\* A claim of an event leaves an event.
LEMMA EventClaimType ==
    ASSUME event \in [Jobs -> EventRows], NEW j \in Jobs
    PROVE  [event EXCEPT ![j].epoch = @ + 1, ![j].leased = TRUE, ![j].live = TRUE]
               \in [Jobs -> EventRows]
<1>1. event[j].epoch + 1 \in Nat
    BY DEF EventRows
<1>2. [event[j] EXCEPT !.epoch = event[j].epoch + 1, !.leased = TRUE, !.live = TRUE] \in EventRows
    BY <1>1 DEF EventRows
<1> QED
    BY <1>2

\* So does the end of a delivery.
LEMMA EventEndType ==
    ASSUME event \in [Jobs -> EventRows], NEW j \in Jobs,
           NEW state \in {"delivered", "retrying", "blocked"}, NEW due \in BOOLEAN
    PROVE  [event EXCEPT ![j] = [@ EXCEPT !.state = state, !.leased = FALSE,
                                          !.live = FALSE, !.due = due]]
               \in [Jobs -> EventRows]
BY DEF EventRows, EventStates

\* Every step of a worker, the dispatcher, the manager or time keeps the types.
LEMMA TypeStep ==
    ASSUME TypeOK, WorkersHaveJobs, SentIsCommitted, [Next]_vars
    PROVE  TypeOK'
<1>J. job \in [Jobs -> JobRows]
    BY DEF TypeOK
<1>W. worker \in [Workers -> WorkerMemories]
    BY DEF TypeOK
<1>E. event \in [Jobs -> EventRows]
    BY DEF TypeOK
<1>Q. queue \in Seq(Jobs)
    BY DEF TypeOK
<1>O. outbox \in Seq(Jobs)
    BY DEF TypeOK
<1>S. sender \in SenderMemories
    BY DEF TypeOK
<1>R. wire \subseteq Requests
    BY DEF TypeOK
<1>I. inbox \in [Jobs -> Receipts]
    BY DEF TypeOK
<1>F. faults \in Nat /\ replays \in Nat
    BY DEF TypeOK
<1>H. \A w \in Workers : worker[w].pc \notin {"idle", "dead"} => worker[w].job \in Jobs
    BY DEF WorkersHaveJobs
<1>A. /\ sender.pc # "idle" => sender.job \in Jobs
      /\ sender.pc = "answered" => sender.answer \in {"ok", "retry", "refused"}
    BY DEF SentIsCommitted
<1>1. ASSUME NEW w \in Workers, ClaimJob(w)
      PROVE  TypeOK'
  <2>1. job' \in [Jobs -> JobRows]
    <3>1. CASE job' = Marked
        BY <1>J, <3>1, MarkedType
    <3>2. ASSUME NEW j \in Jobs,
                 job' = [Marked EXCEPT ![j] =
                            [state |-> "processing", attempts |-> job[j].attempts + 1,
                             epoch |-> job[j].epoch + 1, owner |-> w, live |-> TRUE]]
          PROVE  job' \in [Jobs -> JobRows]
        BY <1>J, <3>2, MarkedType, ClaimedType
    <3> QED
        BY <1>1, <3>1, <3>2 DEF ClaimJob
  <2>2. worker' \in [Workers -> WorkerMemories]
    <3>1. ASSUME NEW j \in Jobs,
                 worker' = [worker EXCEPT ![w] = [pc |-> "claimed", job |-> j,
                                                  epoch |-> job[j].epoch + 1]]
          PROVE  worker' \in [Workers -> WorkerMemories]
        BY <1>J, <1>W, <3>1 DEF JobRows, WorkerMemories
    <3> QED
        BY <1>W, <1>1, <3>1 DEF ClaimJob
  <2> QED
      BY <1>1, <2>1, <2>2 DEF TypeOK, ClaimJob, eventVars
<1>2. ASSUME NEW w \in Workers, Process(w)
      PROVE  TypeOK'
  <2>1. worker' \in [Workers -> WorkerMemories]
      BY <1>2, <1>W DEF Process, Abandon, WorkerMemories, IdleWorker
  <2> QED
      BY <1>2, <2>1 DEF TypeOK, Process, eventVars, Abandon
<1>3. ASSUME NEW w \in Workers, CompleteJob(w)
      PROVE  TypeOK'
  <2>1. job' \in [Jobs -> JobRows]
    <3>1. CASE job' = [job EXCEPT ![worker[w].job].state = "completed",
                                  ![worker[w].job].owner = None, ![worker[w].job].live = FALSE]
        BY <1>J, <1>H, <1>3, <3>1, JobUpdates DEF CompleteJob
    <3> QED
        BY <1>J, <1>3, <3>1 DEF CompleteJob, Abandon
  <2>2. event' \in [Jobs -> EventRows]
    <3>1. CASE event' = [event EXCEPT ![worker[w].job] =
                            [NoEvent EXCEPT !.state = "pending", !.due = TRUE,
                                            !.body = worker[w].epoch]]
        BY <1>E, <1>W, <1>H, <1>3, <3>1, CommittedType DEF CompleteJob
    <3> QED
        BY <1>E, <1>3, <3>1 DEF CompleteJob
  <2>3. outbox' \in Seq(Jobs)
    <3>1. worker[w].job \in Jobs
        BY <1>H, <1>3 DEF CompleteJob
    <3> QED
        BY <1>O, <1>3, <3>1, SMTT(30) DEF CompleteJob
  <2>4. worker' \in [Workers -> WorkerMemories]
    <3>1. CASE worker' = [worker EXCEPT ![w].pc = "retryable"]
        BY <1>W, <3>1 DEF WorkerMemories
    <3>2. CASE worker' = [worker EXCEPT ![w] = IdleWorker]
        BY <1>W, <3>2 DEF WorkerMemories, IdleWorker
    <3> QED
        BY <1>3, <3>1, <3>2 DEF CompleteJob, Abandon
  <2> QED
      BY <1>3, <2>1, <2>2, <2>3, <2>4 DEF TypeOK, CompleteJob
<1>4. ASSUME NEW w \in Workers, FailJob(w)
      PROVE  TypeOK'
  <2>1. job' \in [Jobs -> JobRows]
    <3>1. ASSUME NEW state \in {"failed_retryable", "failed_permanent"},
                 job' = [job EXCEPT ![worker[w].job].state = state,
                                    ![worker[w].job].owner = None, ![worker[w].job].live = FALSE]
          PROVE  job' \in [Jobs -> JobRows]
        BY <1>J, <1>H, <1>4, <3>1, JobUpdates DEF FailJob
    <3>2. AfterFailure(job[worker[w].job].attempts, worker[w].pc = "retryable", limit)
              \in {"failed_retryable", "failed_permanent"}
        BY AfterFailureType
    <3> QED
        BY <1>J, <1>4, <3>1, <3>2 DEF FailJob, Abandon
  <2>2. worker' \in [Workers -> WorkerMemories]
      BY <1>4, <1>W DEF FailJob, Abandon, WorkerMemories, IdleWorker
  <2> QED
      BY <1>4, <2>1, <2>2 DEF TypeOK, FailJob, eventVars
<1>5. ASSUME NEW w \in Workers, WorkerDies(w)
      PROVE  TypeOK'
  <2>1. worker' \in [Workers -> WorkerMemories]
      BY <1>5, <1>W DEF WorkerDies, WorkerMemories, IdleWorker
  <2>2. faults' \in Nat
      BY <1>5, <1>F DEF WorkerDies, Fault
  <2> QED
      BY <1>5, <2>1, <2>2 DEF TypeOK, WorkerDies, eventVars
<1>6. CASE ClaimOutbox
  <2>1. event' \in [Jobs -> EventRows]
    <3>1. ASSUME NEW j \in Jobs,
                 event' = [event EXCEPT ![j].epoch = @ + 1, ![j].leased = TRUE, ![j].live = TRUE]
          PROVE  event' \in [Jobs -> EventRows]
        BY <1>E, <3>1, EventClaimType
    <3> QED
        BY <1>6, <3>1 DEF ClaimOutbox
  <2>2. sender' \in SenderMemories
      BY <1>E, <1>6 DEF ClaimOutbox, EventRows, SenderMemories
  <2> QED
      BY <1>6, <2>1, <2>2 DEF TypeOK, ClaimOutbox, jobVars
<1>7. CASE Send
  <2>1. sender' \in SenderMemories
      BY <1>7, <1>S DEF Send, SenderMemories, Answered
  <2>2. wire' \subseteq Requests
      BY <1>R, <1>S, <1>E, <1>A, <1>7 DEF Send, Requests, SenderMemories, EventRows
  <2> QED
      BY <1>7, <2>1, <2>2 DEF TypeOK, Send, jobVars
<1>8. CASE FinishAttempt
  <2>1. sender' \in SenderMemories
      BY <1>8, <1>S DEF FinishAttempt, SenderMemories, IdleSender
  <2>2. event' \in [Jobs -> EventRows]
    <3>1. sender.job \in Jobs /\ sender.answer \in {"ok", "retry", "refused"}
        BY <1>A, <1>8 DEF FinishAttempt
    <3>2. (sender.answer # "retry") \in BOOLEAN
        OBVIOUS
    <3>3. [event EXCEPT ![sender.job] = [@ EXCEPT !.state = Outcome(sender.answer),
                                                  !.leased = FALSE, !.live = FALSE,
                                                  !.due = sender.answer # "retry"]]
              \in [Jobs -> EventRows]
        BY <1>E, <1>S, <3>1, <3>2, OutcomeType, EventEndType
    <3> QED
        BY <1>E, <1>8, <3>3 DEF FinishAttempt
  <2>3. faults' \in Nat
      BY <1>8, <1>F DEF FinishAttempt, Fault
  <2> QED
      BY <1>8, <2>1, <2>2, <2>3 DEF TypeOK, FinishAttempt, jobVars
<1>9. ASSUME NEW m \in wire, Receive(m)
      PROVE  TypeOK'
  <2>1. wire' \subseteq Requests
      BY <1>9, <1>R DEF Receive
  <2>2. inbox' \in [Jobs -> Receipts]
      BY <1>9, <1>I, <1>R, ZenonT(30) DEF Receive, Receipts, Requests
  <2>3. sender' \in SenderMemories
      BY <1>9, <1>S DEF Receive, SenderMemories, Reply, Answered, Awaited
  <2>4. faults' \in Nat
      BY <1>9, <1>F DEF Receive, Fault
  <2> QED
      BY <1>9, <2>1, <2>2, <2>3, <2>4 DEF TypeOK, Receive, jobVars
<1>10. ASSUME NEW m \in wire, TurnAway(m)
      PROVE  TypeOK'
  <2>1. wire' \subseteq Requests
      BY <1>10, <1>R DEF TurnAway
  <2>2. sender' \in SenderMemories
      BY <1>10, <1>S DEF TurnAway, SenderMemories, Reply, Answered, Awaited
  <2>3. faults' \in Nat
      BY <1>10, <1>F DEF TurnAway, Fault
  <2> QED
      BY <1>10, <2>1, <2>2, <2>3 DEF TypeOK, TurnAway, jobVars
<1>11. CASE TimeOut
  <2>1. sender' \in SenderMemories
      BY <1>11, <1>S DEF TimeOut, SenderMemories, Answered
  <2>2. faults' \in Nat
      BY <1>11, <1>F DEF TimeOut, Fault
  <2> QED
      BY <1>11, <2>1, <2>2 DEF TypeOK, TimeOut, jobVars
<1>12. ASSUME NEW j \in Jobs, Ingest(j)
      PROVE  TypeOK'
  <2>1. job' \in [Jobs -> JobRows]
      BY <1>12, <1>J DEF Ingest, JobRows, JobStates
  <2>2. queue' \in Seq(Jobs)
      BY <1>12, <1>Q DEF Ingest
  <2> QED
      BY <1>12, <2>1, <2>2 DEF TypeOK, Ingest, eventVars
<1>13. ASSUME NEW j \in Jobs, LeaseRunsOut(j)
      PROVE  TypeOK'
  <2>1. job' \in [Jobs -> JobRows]
      BY <1>13, <1>J DEF LeaseRunsOut, JobRows, JobStates
  <2> QED
      BY <1>13, <2>1 DEF TypeOK, LeaseRunsOut, eventVars
<1>14. ASSUME NEW j \in Jobs, EventLeaseRunsOut(j)
      PROVE  TypeOK'
  <2>1. event' \in [Jobs -> EventRows]
      BY <1>14, <1>E DEF EventLeaseRunsOut, EventRows, EventStates
  <2>2. faults' \in Nat
      BY <1>14, <1>F DEF EventLeaseRunsOut, Fault
  <2> QED
      BY <1>14, <2>1, <2>2 DEF TypeOK, EventLeaseRunsOut, jobVars
<1>15. ASSUME NEW j \in Jobs, RetryDue(j)
      PROVE  TypeOK'
  <2>1. event' \in [Jobs -> EventRows]
      BY <1>15, <1>E DEF RetryDue, EventRows, EventStates
  <2> QED
      BY <1>15, <2>1 DEF TypeOK, RetryDue, jobVars
<1>16. ASSUME NEW j \in Jobs, HeartbeatMissed(j)
      PROVE  TypeOK'
  <2>1. job' \in [Jobs -> JobRows]
      BY <1>16, <1>J DEF HeartbeatMissed, JobRows, JobStates
  <2>2. faults' \in Nat
      BY <1>16, <1>F DEF HeartbeatMissed, Fault
  <2> QED
      BY <1>16, <2>1, <2>2 DEF TypeOK, HeartbeatMissed, eventVars
<1>17. ASSUME NEW j \in Jobs, ReplayOutbox(j)
      PROVE  TypeOK'
  <2>1. event' \in [Jobs -> EventRows]
      BY <1>17, <1>E DEF ReplayOutbox, EventRows, EventStates
  <2>2. replays' \in Nat
      BY <1>17, <1>F DEF ReplayOutbox
  <2> QED
      BY <1>17, <2>1, <2>2 DEF TypeOK, ReplayOutbox, jobVars
<1>18. CASE RecoverJobs
  <2>1. job' \in [Jobs -> JobRows]
      BY <1>18, <1>J, RecoveredJobsType DEF RecoverJobs
  <2> QED
      BY <1>18, <2>1 DEF TypeOK, RecoverJobs, eventVars
<1>19. CASE RecoverEvents
  <2>1. event' \in [Jobs -> EventRows]
      BY <1>19, <1>E, RecoveredEventsType DEF RecoverEvents
  <2> QED
      BY <1>19, <2>1 DEF TypeOK, RecoverEvents, jobVars
<1>20. CASE Restart
  <2>1. job' \in [Jobs -> JobRows]
      BY <1>20, <1>J, RecoveredJobsType DEF Restart
  <2>2. event' \in [Jobs -> EventRows]
      BY <1>20, <1>E, RecoveredEventsType DEF Restart
  <2>3. worker' \in [Workers -> WorkerMemories]
      BY <1>20 DEF Restart, WorkerMemories, IdleWorker
  <2>4. sender' \in SenderMemories
      BY <1>20 DEF Restart, IdleSender, SenderMemories
  <2>5. limit' \in Limits
      BY <1>20 DEF Restart
  <2>6. faults' \in Nat
      BY <1>20, <1>F DEF Restart, Fault
  <2> QED
      BY <1>20, <2>1, <2>2, <2>3, <2>4, <2>5, <2>6 DEF TypeOK, Restart
<1>21. CASE UNCHANGED vars
    BY <1>21 DEF TypeOK, vars, jobVars, eventVars
<1> QED
    BY <1>1, <1>2, <1>3, <1>4, <1>5, <1>6, <1>7, <1>8, <1>9, <1>10, <1>11, <1>12, <1>13, <1>14, <1>15, <1>16, <1>17, <1>18, <1>19, <1>20, <1>21
    DEF Next, WorkerStep, SenderStep, ManagerStep, TimeStep
-----------------------------------------------------------------------------
(* What a step does to a row *)

\* The moves of a job: it comes in, is claimed, gives its result, fails, loses
\* its lease, or has its attempts used up by a lower limit.
JobMoves(j) ==
    \/ job'[j] = job[j]
    \/ /\ job[j].state = "absent"
       /\ job'[j] = [job[j] EXCEPT !.state = "queued"]
    \/ /\ \/ job[j].state = "queued"
          \/ job[j].state = "failed_retryable" /\ ~Exhausted(job[j].attempts, limit)
       /\ job'[j].state = "processing" /\ job'[j].attempts = job[j].attempts + 1
       /\ job'[j].epoch = job[j].epoch + 1
    \/ /\ job[j].state = "processing" /\ event[j].state = "absent"
       /\ job'[j] = [job[j] EXCEPT !.state = "completed", !.owner = None, !.live = FALSE]
       /\ event'[j].state = "pending" /\ event'[j].body = job[j].epoch
    \/ /\ job[j].state \in {"processing", "failed_retryable"}
       /\ job'[j].state \in {"failed_retryable", "failed_permanent"}
       /\ job'[j].attempts = job[j].attempts
       /\ job'[j].live = (job[j].live /\ job[j].state # "processing")
    \/ job[j].live /\ job'[j] = [job[j] EXCEPT !.live = FALSE]

\* The moves of an event: it is committed with its result, and from then on
\* keeps its body; it is delivered once the dispatcher has been told so.
EventMoves(j) ==
    \/ event'[j] = event[j]
    \/ /\ event[j].state = "absent" /\ job[j].state = "processing"
       /\ job'[j].state = "completed"
       /\ event'[j].state = "pending" /\ event'[j].body = job[j].epoch
    \/ /\ event'[j].state = "absent" <=> event[j].state = "absent"
       /\ event'[j].body = event[j].body
       /\ event'[j].state = "delivered" =>
             \/ event[j].state = "delivered"
             \/ sender.pc = "answered" /\ sender.job = j /\ sender.answer = "ok"

\* Every step moves every job in one of these ways.
LEMMA JobStep ==
    ASSUME TypeOK, WorkersHaveJobs, [Next]_vars, NEW j \in Jobs
    PROVE  JobMoves(j)
<1>J. job \in [Jobs -> JobRows]
    BY DEF TypeOK
<1>E. event \in [Jobs -> EventRows]
    BY DEF TypeOK
<1>W. worker \in [Workers -> WorkerMemories]
    BY DEF TypeOK
<1>0. CASE job' = job
    BY <1>0 DEF JobMoves
<1>1. ASSUME NEW w \in Workers, ClaimJob(w)
      PROVE  JobMoves(j)
  <2>1. CASE job' = Marked
      BY <1>J, <2>1 DEF JobMoves, Marked, JobRows
  <2>2. ASSUME NEW i \in Jobs, IsOldest(i, queue, Eligible),
               job' = [Marked EXCEPT ![i] =
                          [state |-> "processing", attempts |-> job[i].attempts + 1,
                           epoch |-> job[i].epoch + 1, owner |-> w, live |-> TRUE]]
        PROVE  JobMoves(j)
    <3>1. CASE i = j
      <4>1. \/ job[j].state = "queued"
            \/ job[j].state = "failed_retryable" /\ ~Exhausted(job[j].attempts, limit)
          BY <2>2, <3>1 DEF IsOldest, Eligible
      <4>2. job'[j] = [state |-> "processing", attempts |-> job[j].attempts + 1,
                       epoch |-> job[j].epoch + 1, owner |-> w, live |-> TRUE]
          BY <2>2, <3>1 DEF Marked
      <4> QED
          BY <4>1, <4>2 DEF JobMoves
    <3>2. CASE i # j
      <4>1. job'[j] = Marked[j]
          BY <2>2, <3>2 DEF Marked
      <4> QED
          BY <1>J, <4>1 DEF JobMoves, Marked, JobRows
    <3> QED
        BY <3>1, <3>2
  <2> QED
      BY <1>1, <2>1, <2>2 DEF ClaimJob
<1>2. ASSUME NEW w \in Workers, CompleteJob(w)
      PROVE  JobMoves(j)
  <2>1. CASE /\ Owned(w) /\ event[worker[w].job].state = "absent" /\ worker[w].job \in Jobs
             /\ job' = [job EXCEPT ![worker[w].job].state = "completed",
                                   ![worker[w].job].owner = None, ![worker[w].job].live = FALSE]
             /\ event' = [event EXCEPT ![worker[w].job] =
                             [NoEvent EXCEPT !.state = "pending", !.due = TRUE,
                                             !.body = worker[w].epoch]]
    <3>1. CASE worker[w].job = j
      <4>1. job[j].state = "processing" /\ job[j].epoch = worker[w].epoch
          BY <2>1, <3>1 DEF Owned
      <4>2. job'[j] = [job[j] EXCEPT !.state = "completed", !.owner = None, !.live = FALSE]
          BY <1>J, <2>1, <3>1
      <4>3. event'[j].state = "pending" /\ event'[j].body = worker[w].epoch
          BY <1>E, <2>1, <3>1 DEF NoEvent
      <4> QED
          BY <2>1, <3>1, <4>1, <4>2, <4>3 DEF JobMoves
    <3>2. CASE worker[w].job # j
        BY <1>J, <2>1, <3>2 DEF JobMoves
    <3> QED
        BY <3>1, <3>2
  <2>2. worker[w].job \in Jobs
      BY <1>2 DEF CompleteJob, WorkersHaveJobs
  <2> QED
      BY <1>0, <1>2, <2>1, <2>2 DEF CompleteJob, Abandon
<1>3. ASSUME NEW w \in Workers, FailJob(w)
      PROVE  JobMoves(j)
  <2>1. CASE /\ Owned(w) /\ worker[w].job \in Jobs
             /\ job' = [job EXCEPT ![worker[w].job].state =
                                       AfterFailure(job[worker[w].job].attempts,
                                                    worker[w].pc = "retryable", limit),
                                   ![worker[w].job].owner = None, ![worker[w].job].live = FALSE]
    <3>1. CASE worker[w].job = j
        BY <1>J, <2>1, <3>1, AfterFailureType DEF Owned, JobMoves, JobRows
    <3>2. CASE worker[w].job # j
        BY <1>J, <2>1, <3>2 DEF JobMoves
    <3> QED
        BY <3>1, <3>2
  <2>2. worker[w].job \in Jobs
      BY <1>3 DEF FailJob, WorkersHaveJobs
  <2> QED
      BY <1>0, <1>3, <2>1, <2>2 DEF FailJob, Abandon
<1>4. ASSUME NEW i \in Jobs, Ingest(i)
      PROVE  JobMoves(j)
    BY <1>J, <1>4 DEF Ingest, JobMoves
<1>5. ASSUME NEW i \in Jobs, LeaseRunsOut(i) \/ HeartbeatMissed(i)
      PROVE  JobMoves(j)
    BY <1>J, <1>5 DEF LeaseRunsOut, HeartbeatMissed, JobMoves
<1>6. ASSUME NEW max, job' = RecoveredJobs(max)
      PROVE  JobMoves(j)
  <2>1. CASE job[j].state = "processing" /\ ~job[j].live
    <3>1. job'[j] = [job[j] EXCEPT !.state = AfterFailure(job[j].attempts, TRUE, max),
                                   !.owner = None]
        BY <1>6, <2>1 DEF RecoveredJobs
    <3>2. /\ job'[j].state = AfterFailure(job[j].attempts, TRUE, max)
          /\ job'[j].attempts = job[j].attempts /\ job'[j].live = job[j].live
        BY <1>J, <3>1 DEF JobRows
    <3>3. job'[j].live = FALSE
        BY <1>J, <2>1, <3>2 DEF JobRows
    <3>4. job'[j].state \in {"failed_retryable", "failed_permanent"}
        BY <3>2, AfterFailureType
    <3> QED
        BY <2>1, <3>2, <3>3, <3>4 DEF JobMoves
  <2>2. CASE ~(job[j].state = "processing" /\ ~job[j].live)
      BY <1>6, <2>2 DEF RecoveredJobs, JobMoves
  <2> QED
      BY <2>1, <2>2
<1> QED
    BY <1>0, <1>1, <1>2, <1>3, <1>4, <1>5, <1>6
    DEF Next, vars, jobVars, WorkerStep, SenderStep, ManagerStep, TimeStep, Process, Abandon,
        WorkerDies, ClaimOutbox, Send, FinishAttempt, Receive, TurnAway, TimeOut,
        EventLeaseRunsOut, RetryDue, ReplayOutbox, RecoverJobs, RecoverEvents, Restart

\* And every event.
LEMMA EventStep ==
    ASSUME TypeOK, WorkersHaveJobs, SentIsCommitted, [Next]_vars, NEW j \in Jobs
    PROVE  EventMoves(j)
<1>J. job \in [Jobs -> JobRows]
    BY DEF TypeOK
<1>E. event \in [Jobs -> EventRows]
    BY DEF TypeOK
<1>S. sender \in SenderMemories
    BY DEF TypeOK
<1>A. sender.pc = "answered" => sender.answer \in {"ok", "retry", "refused"}
    BY DEF SentIsCommitted
<1>0. CASE event' = event
    BY <1>0 DEF EventMoves
<1>1. ASSUME NEW w \in Workers, CompleteJob(w)
      PROVE  EventMoves(j)
  <2>1. CASE /\ Owned(w) /\ event[worker[w].job].state = "absent" /\ worker[w].job \in Jobs
             /\ job' = [job EXCEPT ![worker[w].job].state = "completed",
                                   ![worker[w].job].owner = None, ![worker[w].job].live = FALSE]
             /\ event' = [event EXCEPT ![worker[w].job] =
                             [NoEvent EXCEPT !.state = "pending", !.due = TRUE,
                                             !.body = worker[w].epoch]]
    <3>1. CASE worker[w].job = j
      <4>1. job[j].state = "processing" /\ job[j].epoch = worker[w].epoch
          BY <2>1, <3>1 DEF Owned
      <4>2. job'[j].state = "completed"
          BY <1>J, <2>1, <3>1 DEF JobRows
      <4>3. event'[j].state = "pending" /\ event'[j].body = worker[w].epoch
          BY <1>E, <2>1, <3>1 DEF NoEvent
      <4> QED
          BY <2>1, <3>1, <4>1, <4>2, <4>3 DEF EventMoves
    <3>2. CASE worker[w].job # j
        BY <1>E, <2>1, <3>2 DEF EventMoves
    <3> QED
        BY <3>1, <3>2
  <2>2. worker[w].job \in Jobs
      BY <1>1 DEF CompleteJob, WorkersHaveJobs
  <2> QED
      BY <1>0, <1>1, <2>1, <2>2 DEF CompleteJob
<1>2. CASE ClaimOutbox
    BY <1>E, <1>2 DEF ClaimOutbox, IsOldest, Claimable, Undelivered, EventMoves, EventRows
<1>3. CASE FinishAttempt
  <2>1. CASE /\ OwnedEvent
             /\ event' = [event EXCEPT ![sender.job] =
                             [@ EXCEPT !.state = Outcome(sender.answer), !.leased = FALSE,
                                       !.live = FALSE, !.due = sender.answer # "retry"]]
    <3>1. CASE sender.job = j
      <4>1. event[j].state # "absent"
          BY <2>1, <3>1 DEF OwnedEvent, Undelivered
      <4>2. event'[j].state = Outcome(sender.answer) /\ event'[j].body = event[j].body
          BY <1>E, <2>1, <3>1 DEF EventRows
      <4>3. sender.answer \in {"ok", "retry", "refused"}
          BY <1>3, <1>S, <1>A DEF FinishAttempt, SenderMemories
      <4>4. Outcome(sender.answer) # "absent"
            /\ (Outcome(sender.answer) = "delivered" => sender.answer = "ok")
          BY <4>3 DEF Outcome
      <4> QED
          BY <1>3, <3>1, <4>1, <4>2, <4>4 DEF EventMoves, FinishAttempt
    <3>2. CASE sender.job # j
        BY <1>E, <2>1, <3>2 DEF EventMoves
    <3> QED
        BY <3>1, <3>2
  <2> QED
      BY <1>0, <1>3, <2>1 DEF FinishAttempt
<1>4. ASSUME NEW i \in Jobs, EventLeaseRunsOut(i)
      PROVE  EventMoves(j)
    BY <1>E, <1>4 DEF EventLeaseRunsOut, EventMoves, EventRows
<1>5. ASSUME NEW i \in Jobs, RetryDue(i)
      PROVE  EventMoves(j)
    BY <1>E, <1>5 DEF RetryDue, EventMoves, EventRows
<1>6. ASSUME NEW i \in Jobs, ReplayOutbox(i)
      PROVE  EventMoves(j)
    BY <1>E, <1>6 DEF ReplayOutbox, EventMoves, EventRows
<1>7. CASE event' = RecoveredEvents
    BY <1>E, <1>7 DEF RecoveredEvents, Undelivered, EventMoves, EventRows
<1> QED
    BY <1>0, <1>1, <1>2, <1>3, <1>4, <1>5, <1>6, <1>7
    DEF Next, vars, eventVars, WorkerStep, SenderStep, ManagerStep, TimeStep, ClaimJob, Process,
        FailJob, WorkerDies, Send, Receive, TurnAway, TimeOut, Ingest, LeaseRunsOut,
        HeartbeatMissed, RecoverJobs, RecoverEvents, Restart

-----------------------------------------------------------------------------
(* Invariants *)

\* Whoever is at work has a job.
LEMMA WorkersStep ==
    ASSUME TypeOK, WorkersHaveJobs, [Next]_vars
    PROVE  WorkersHaveJobs'
<1>W. worker \in [Workers -> WorkerMemories]
    BY DEF TypeOK
<1> SUFFICES ASSUME NEW v \in Workers, worker'[v].pc \notin {"idle", "dead"}
             PROVE  worker'[v].job \in Jobs
    BY DEF WorkersHaveJobs
<1>0. CASE worker' = worker
    BY <1>0 DEF WorkersHaveJobs
<1>1. ASSUME NEW w \in Workers, NEW pc, worker' = [worker EXCEPT ![w].pc = pc],
             worker[w].pc \in {"claimed", "done"}
      PROVE  worker'[v].job \in Jobs
  <2>1. worker[w].job \in Jobs
      BY <1>1 DEF WorkersHaveJobs
  <2>2. worker'[v].job = worker[v].job
      BY <1>W, <1>1 DEF WorkerMemories
  <2>3. v # w => worker'[v] = worker[v]
      BY <1>W, <1>1
  <2> QED
      BY <2>1, <2>2, <2>3 DEF WorkersHaveJobs
<1>2. ASSUME NEW w \in Workers, NEW m, worker' = [worker EXCEPT ![w] = m],
             m.pc \in {"idle", "dead"} \/ m.job \in Jobs
      PROVE  worker'[v].job \in Jobs
    BY <1>W, <1>2 DEF WorkersHaveJobs
<1>3. ASSUME NEW w \in Workers, ClaimJob(w)
      PROVE  worker'[v].job \in Jobs
  <2>1. ASSUME NEW j \in Jobs,
               worker' = [worker EXCEPT ![w] = [pc |-> "claimed", job |-> j,
                                                epoch |-> job[j].epoch + 1]]
        PROVE  worker'[v].job \in Jobs
      BY <1>2, <2>1
  <2> QED
      BY <1>0, <1>3, <2>1 DEF ClaimJob
<1>I. IdleWorker.pc = "idle" /\ [IdleWorker EXCEPT !.pc = "dead"].pc = "dead"
    BY DEF IdleWorker
<1>4. ASSUME NEW w \in Workers, Process(w) \/ CompleteJob(w) \/ FailJob(w) \/ WorkerDies(w)
      PROVE  worker'[v].job \in Jobs
  <2>1. CASE Process(w)
      BY <1>I, <1>1, <1>2, <2>1 DEF Process, Abandon
  <2>2. CASE CompleteJob(w)
      BY <1>I, <1>1, <1>2, <2>2 DEF CompleteJob, Abandon
  <2>3. CASE FailJob(w)
      BY <1>I, <1>2, <2>3 DEF FailJob, Abandon
  <2>4. CASE WorkerDies(w)
      BY <1>I, <1>2, <2>4 DEF WorkerDies
  <2> QED
      BY <1>4, <2>1, <2>2, <2>3, <2>4
<1>5. CASE Restart
    BY <1>I, <1>5 DEF Restart
<1> QED
    BY <1>0, <1>3, <1>4, <1>5
    DEF Next, vars, jobVars, WorkerStep, SenderStep, ManagerStep, TimeStep, ClaimOutbox, Send,
        FinishAttempt, Receive, TurnAway, TimeOut, Ingest, LeaseRunsOut, HeartbeatMissed,
        EventLeaseRunsOut, RetryDue, ReplayOutbox, RecoverJobs, RecoverEvents

\* Only a job in processing has a lease.
LEMMA LeasesStep ==
    ASSUME TypeOK, LeasesAreOfWork, \A j \in Jobs : JobMoves(j)
    PROVE  LeasesAreOfWork'
<1>J. job \in [Jobs -> JobRows]
    BY DEF TypeOK
<1> SUFFICES ASSUME NEW j \in Jobs
             PROVE  /\ job'[j].live => job'[j].state = "processing"
                    /\ job'[j].state \in {"absent", "queued"} => job'[j].attempts = 0
    BY DEF LeasesAreOfWork
<1>1. /\ job[j].live => job[j].state = "processing"
      /\ job[j].state \in {"absent", "queued"} => job[j].attempts = 0
    BY DEF LeasesAreOfWork
<1>2. job[j] \in JobRows
    BY <1>J
<1>3. JobMoves(j)
    OBVIOUS
<1> QED
    BY <1>1, <1>2, <1>3 DEF JobMoves, JobRows

\* No job is claimed beyond the largest limit.
LEMMA AttemptsStep ==
    ASSUME TypeOK, LeasesAreOfWork, AttemptsBounded, \A j \in Jobs : JobMoves(j)
    PROVE  AttemptsBounded'
<1>J. job \in [Jobs -> JobRows] /\ limit \in Limits
    BY DEF TypeOK
<1> SUFFICES ASSUME NEW j \in Jobs
             PROVE  \E max \in Limits : job'[j].attempts <= max
    BY DEF AttemptsBounded
<1>1. job[j].state = "queued" => job[j].attempts = 0
    BY DEF LeasesAreOfWork
<1>2. job[j] \in JobRows
    BY <1>J
<1>3. JobMoves(j)
    OBVIOUS
<1>4. CASE job'[j].attempts = job[j].attempts
    BY <1>4 DEF AttemptsBounded
<1>5. CASE /\ \/ job[j].state = "queued"
              \/ job[j].state = "failed_retryable" /\ ~Exhausted(job[j].attempts, limit)
           /\ job'[j].attempts = job[j].attempts + 1
  <2>1. limit \in Nat \ {0} /\ job[j].attempts \in Nat
      BY <1>J, <1>2, ScannerAssumption DEF JobRows
  <2>2. job[j].attempts < limit
      BY <1>1, <1>5, <2>1 DEF Exhausted
  <2>3. job'[j].attempts <= limit
      BY <1>5, <2>1, <2>2
  <2> QED
      BY <1>J, <2>3
<1> QED
    BY <1>2, <1>3, <1>4, <1>5 DEF JobMoves, JobRows

\* The outbox lists each result once, and lists no other event.
LEMMA OutboxStep ==
    ASSUME TypeOK, WorkersHaveJobs, OutboxIsOfResults, [Next]_vars,
           \A j \in Jobs : JobMoves(j) /\ EventMoves(j)
    PROVE  OutboxIsOfResults'
<1>T. /\ job \in [Jobs -> JobRows] /\ event \in [Jobs -> EventRows]
      /\ outbox \in Seq(Jobs)
    BY DEF TypeOK
<1>1. ASSUME NEW j \in Jobs
      PROVE  /\ job'[j].state = "completed" <=> event'[j].state # "absent"
             /\ job'[j].state = "completed" => event'[j].body = job'[j].epoch
  <2>1. /\ job[j].state = "completed" <=> event[j].state # "absent"
        /\ job[j].state = "completed" => event[j].body = job[j].epoch
      BY DEF OutboxIsOfResults
  <2>2. JobMoves(j) /\ EventMoves(j)
      OBVIOUS
  <2>3. job[j] \in JobRows
      BY <1>T
  <2> QED
      BY <2>1, <2>2, <2>3 DEF JobMoves, EventMoves, JobRows
<1>2. ASSUME NEW j \in Jobs, event[j].state # "absent"
      PROVE  event'[j].state # "absent"
  <2>1. EventMoves(j)
      OBVIOUS
  <2> QED
      BY <1>2, <2>1 DEF EventMoves
<1> DEFINE Listed == /\ \A i, k \in 1..Len(outbox') : outbox'[i] = outbox'[k] => i = k
                     /\ \A i \in 1..Len(outbox') : event'[outbox'[i]].state # "absent"
<1>3. Listed
  <2>0. /\ \A i, k \in 1..Len(outbox) : outbox[i] = outbox[k] => i = k
        /\ \A i \in 1..Len(outbox) : outbox[i] \in Jobs /\ event[outbox[i]].state # "absent"
      BY <1>T DEF OutboxIsOfResults
  <2>1. CASE outbox' = outbox
      BY <1>2, <2>0, <2>1
  <2>2. ASSUME NEW j \in Jobs, event[j].state = "absent", event'[j].state = "pending",
               outbox' = Append(outbox, j)
        PROVE  Listed
    <3>1. /\ Len(outbox') = Len(outbox) + 1 /\ Len(outbox) \in Nat
          /\ outbox'[Len(outbox) + 1] = j
          /\ \A i \in 1..Len(outbox) : outbox'[i] = outbox[i]
        BY <1>T, <2>2
    <3>2. \A i \in 1..Len(outbox) : outbox[i] # j
        BY <2>0, <2>2
    <3>3. ASSUME NEW i \in 1..Len(outbox')
          PROVE  i \in 1..Len(outbox) \/ i = Len(outbox) + 1
        BY <3>1
    <3> QED
        BY <1>2, <2>0, <2>2, <3>1, <3>2, <3>3
  <2>3. ASSUME NEW w \in Workers, CompleteJob(w)
        PROVE  Listed
    <3>1. worker[w].job \in Jobs
        BY <2>3 DEF CompleteJob, WorkersHaveJobs
    <3>2. CASE /\ event[worker[w].job].state = "absent"
               /\ event' = [event EXCEPT ![worker[w].job] =
                               [NoEvent EXCEPT !.state = "pending", !.due = TRUE,
                                               !.body = worker[w].epoch]]
               /\ outbox' = Append(outbox, worker[w].job)
      <4>1. event'[worker[w].job].state = "pending"
          BY <1>T, <3>1, <3>2 DEF NoEvent
      <4> QED
          BY <2>2, <3>1, <3>2, <4>1
    <3> QED
        BY <2>1, <2>3, <3>2 DEF CompleteJob
  <2> QED
      BY <2>1, <2>3
      DEF Next, vars, eventVars, WorkerStep, SenderStep, ManagerStep, TimeStep, ClaimJob, Process,
          FailJob, WorkerDies, ClaimOutbox, Send, FinishAttempt, Receive, TurnAway, TimeOut,
          Ingest, LeaseRunsOut, HeartbeatMissed, EventLeaseRunsOut, RetryDue, ReplayOutbox,
          RecoverJobs, RecoverEvents, Restart
<1> QED
    BY <1>1, <1>3 DEF OutboxIsOfResults

\* What is sent, under way or recorded is the committed body.
LEMMA SentStep ==
    ASSUME TypeOK, WorkersHaveJobs, OutboxIsOfResults, SentIsCommitted, [Next]_vars,
           \A j \in Jobs : EventMoves(j)
    PROVE  SentIsCommitted'
<1>T. /\ event \in [Jobs -> EventRows] /\ sender \in SenderMemories /\ wire \subseteq Requests
      /\ inbox \in [Jobs -> Receipts]
    BY DEF TypeOK
<1>S. /\ sender.pc # "idle" => sender.job \in Jobs /\ event[sender.job].state # "absent"
      /\ sender.pc = "answered" /\ sender.answer = "ok" => inbox[sender.job].body # None
      /\ sender.pc = "answered" => sender.answer \in {"ok", "retry", "refused"}
    BY DEF SentIsCommitted
<1>R. ASSUME NEW m \in wire
      PROVE  m.job \in Jobs /\ event[m.job].state # "absent" /\ m.body = event[m.job].body
    BY <1>T DEF SentIsCommitted, Requests
<1>I. ASSUME NEW j \in Jobs
      PROVE  /\ inbox[j].body # None => event[j].state # "absent" /\ inbox[j].body = event[j].body
             /\ ~inbox[j].fault
             /\ event[j].state = "delivered" => inbox[j].body # None
    BY DEF SentIsCommitted
<1>E. ASSUME NEW j \in Jobs, event[j].state # "absent"
      PROVE  /\ event'[j].state # "absent" /\ event'[j].body = event[j].body
             /\ event'[j].state = "delivered" =>
                   \/ event[j].state = "delivered"
                   \/ sender.pc = "answered" /\ sender.job = j /\ sender.answer = "ok"
  <2>1. EventMoves(j)
      OBVIOUS
  <2> QED
      BY <1>E, <2>1 DEF EventMoves
<1>N. ASSUME NEW j \in Jobs, event'[j].state = "delivered"
      PROVE  event[j].state # "absent"
  <2>1. EventMoves(j)
      OBVIOUS
  <2> QED
      BY <1>N, <2>1 DEF EventMoves
<1>B. ASSUME NEW m \in wire
      PROVE  m.body # None
  <2>1. m.job \in Jobs /\ event[m.job].state # "absent" /\ m.body = event[m.job].body
      BY <1>R
  <2>2. event[m.job].body = job[m.job].epoch
      BY <2>1 DEF OutboxIsOfResults
  <2>3. job[m.job].epoch \in Nat
      BY <2>1 DEF TypeOK, JobRows
  <2> QED
      BY <2>1, <2>2, <2>3, ScannerAssumption
<1> DEFINE
    Sender == /\ sender'.pc # "idle" =>
                    sender'.job \in Jobs /\ event'[sender'.job].state # "absent"
              /\ sender'.pc = "answered" /\ sender'.answer = "ok" =>
                    inbox'[sender'.job].body # None
              /\ sender'.pc = "answered" => sender'.answer \in {"ok", "retry", "refused"}
    Wire == \A m \in wire' : event'[m.job].state # "absent" /\ m.body = event'[m.job].body
    Inbox == \A j \in Jobs :
                /\ inbox'[j].body # None =>
                      event'[j].state # "absent" /\ inbox'[j].body = event'[j].body
                /\ ~inbox'[j].fault
                /\ event'[j].state = "delivered" => inbox'[j].body # None
<1>1. wire' \subseteq wire => Wire
    BY <1>R, <1>E
<1>2. inbox' = inbox => Inbox
    BY <1>S, <1>I, <1>E, <1>N
<1>3. sender' = sender /\ inbox' = inbox => Sender
    BY <1>S, <1>E
<1>4. CASE UNCHANGED <<sender, wire, inbox>>
    BY <1>1, <1>2, <1>3, <1>4 DEF SentIsCommitted
<1>5. CASE ClaimOutbox
  <2>1. Sender
    <3>1. PICK j \in Jobs :
              /\ event[j].state # "absent"
              /\ sender' = [pc |-> "claimed", job |-> j, epoch |-> event[j].epoch + 1,
                            answer |-> None]
        BY <1>5 DEF ClaimOutbox, IsOldest, Claimable, Undelivered
    <3> QED
        BY <1>E, <3>1
  <2>2. UNCHANGED <<wire, inbox>>
      BY <1>5 DEF ClaimOutbox
  <2> QED
      BY <1>1, <1>2, <2>1, <2>2 DEF SentIsCommitted
<1>6. CASE Send
  <2>1. /\ sender.job \in Jobs /\ event[sender.job].state # "absent"
        /\ UNCHANGED <<event, inbox>>
      BY <1>6, <1>S DEF Send
  <2>2. Sender
    <3>1. CASE sender' = [sender EXCEPT !.pc = "sent"]
        BY <1>T, <2>1, <3>1 DEF SenderMemories
    <3>2. CASE sender' = [sender EXCEPT !.pc = "answered", !.answer = "refused"]
      <4>1. sender'.job = sender.job /\ sender'.answer = "refused"
          BY <1>T, <3>2 DEF SenderMemories
      <4> QED
          BY <2>1, <4>1
    <3> QED
        BY <1>6, <3>1, <3>2 DEF Send, Answered
  <2>3. Wire
    <3>1. wire' \subseteq wire \cup {[job |-> sender.job, epoch |-> sender.epoch,
                                      body |-> event[sender.job].body]}
        BY <1>6 DEF Send
    <3> QED
        BY <1>R, <2>1, <3>1
  <2> QED
      BY <1>2, <2>1, <2>2, <2>3 DEF SentIsCommitted
<1>7. CASE FinishAttempt
  <2>1. sender'.pc = "idle" /\ UNCHANGED <<wire, inbox>>
      BY <1>7 DEF FinishAttempt, IdleSender
  <2> QED
      BY <1>1, <1>2, <2>1 DEF SentIsCommitted
<1>8. ASSUME NEW m \in wire, NEW answer \in {"ok", "retry", "refused"},
             UNCHANGED event, Reply(m, answer),
             \/ inbox' = inbox
             \/ inbox' = [inbox EXCEPT ![m.job].body = m.body],
             answer = "ok" => inbox'[m.job].body # None
      PROVE  Sender
  <2>1. m.job \in Jobs /\ event[m.job].state # "absent"
      BY <1>R
  <2>2. ASSUME NEW j \in Jobs, inbox[j].body # None
        PROVE  inbox'[j].body # None
    <3>1. CASE inbox' = inbox
        BY <2>2, <3>1
    <3>2. CASE inbox' = [inbox EXCEPT ![m.job].body = m.body]
      <4>1. CASE j = m.job
          BY <1>T, <1>B, <3>2, <4>1 DEF Receipts
      <4>2. CASE j # m.job
          BY <1>T, <2>2, <3>2, <4>2
      <4> QED
          BY <4>1, <4>2
    <3> QED
        BY <1>8, <3>1, <3>2
  <2>3. CASE sender' = sender
      BY <1>S, <1>8, <2>2, <2>3
  <2>4. CASE Awaited(m) /\ sender' = [sender EXCEPT !.pc = "answered", !.answer = answer]
    <3>1. sender'.job = m.job /\ sender'.pc = "answered" /\ sender'.answer = answer
        BY <1>T, <2>4 DEF Awaited, SenderMemories
    <3> QED
        BY <1>8, <2>1, <3>1
  <2> QED
      BY <1>8, <2>3, <2>4 DEF Reply, Answered
<1>9. ASSUME NEW m \in wire, Receive(m)
      PROVE  SentIsCommitted'
  <2>1. m.job \in Jobs /\ event[m.job].state # "absent" /\ m.body = event[m.job].body
      BY <1>R
  <2>2. inbox[m.job].body \in {None, m.body}
      BY <1>I, <2>1
  <2>3. UNCHANGED event /\ wire' \subseteq wire
      BY <1>9 DEF Receive
  <2>4. inbox' = [inbox EXCEPT ![m.job].body = m.body]
      BY <1>9, <2>2 DEF Receive
  <2>5. inbox'[m.job].body = m.body /\ inbox'[m.job].fault = inbox[m.job].fault
      BY <1>T, <2>1, <2>4 DEF Receipts
  <2>6. \A j \in Jobs : j # m.job => inbox'[j] = inbox[j]
      BY <1>T, <2>4
  <2>7. Inbox
    <3> SUFFICES ASSUME NEW j \in Jobs
                 PROVE  /\ inbox'[j].body # None =>
                              event'[j].state # "absent" /\ inbox'[j].body = event'[j].body
                        /\ ~inbox'[j].fault
                        /\ event'[j].state = "delivered" => inbox'[j].body # None
        OBVIOUS
    <3>1. CASE j = m.job
        BY <1>B, <1>I, <2>1, <2>3, <2>5, <3>1
    <3>2. CASE j # m.job
        BY <1>I, <2>3, <2>6, <3>2
    <3> QED
        BY <3>1, <3>2
  <2>8. Reply(m, "ok") \/ Reply(m, "retry")
      BY <1>9, <2>2 DEF Receive
  <2>9. Sender
      BY <1>8, <1>B, <2>3, <2>4, <2>5, <2>8
  <2> QED
      BY <1>1, <2>3, <2>7, <2>9 DEF SentIsCommitted
<1>10. ASSUME NEW m \in wire, TurnAway(m)
       PROVE  SentIsCommitted'
  <2>1. UNCHANGED <<event, inbox>> /\ wire' \subseteq wire
      BY <1>10 DEF TurnAway
  <2>2. Reply(m, "refused") \/ Reply(m, "retry")
      BY <1>10 DEF TurnAway
  <2>3. Sender
      BY <1>8, <2>1, <2>2
  <2> QED
      BY <1>1, <1>2, <2>1, <2>3 DEF SentIsCommitted
<1>11. CASE TimeOut
  <2>1. UNCHANGED <<wire, event, inbox>> /\ sender.pc = "sent"
        /\ sender' = [sender EXCEPT !.pc = "answered", !.answer = "retry"]
      BY <1>11 DEF TimeOut, Answered
  <2>2. sender'.job = sender.job /\ sender'.answer = "retry"
      BY <1>T, <2>1 DEF SenderMemories
  <2>3. Sender
      BY <1>S, <2>1, <2>2
  <2> QED
      BY <1>1, <1>2, <2>1, <2>3 DEF SentIsCommitted
<1>12. CASE Restart
  <2>1. sender'.pc = "idle" /\ UNCHANGED <<wire, inbox>>
      BY <1>12 DEF Restart, IdleSender
  <2> QED
      BY <1>1, <1>2, <2>1 DEF SentIsCommitted
<1> QED
    BY <1>4, <1>5, <1>6, <1>7, <1>9, <1>10, <1>11, <1>12
    DEF Next, vars, eventVars, WorkerStep, SenderStep, ManagerStep, TimeStep, ClaimJob, Process,
        CompleteJob, FailJob, WorkerDies, Ingest, LeaseRunsOut, HeartbeatMissed,
        EventLeaseRunsOut, RetryDue, ReplayOutbox, RecoverJobs, RecoverEvents

\* No row, no message and no one at work: the invariant holds of the empty store.
LEMMA InitIInv ==
    ASSUME Init
    PROVE  IInv
<1>1. TypeOK
    BY ScannerAssumption
    DEF Init, TypeOK, NoJob, NoEvent, IdleWorker, IdleSender, JobRows, JobStates, EventRows,
        EventStates, WorkerMemories, SenderMemories, Receipts
<1>2. WorkersHaveJobs /\ LeasesAreOfWork
    BY DEF Init, WorkersHaveJobs, LeasesAreOfWork, IdleWorker, NoJob
<1>3. OutboxIsOfResults
    BY DEF Init, OutboxIsOfResults, NoJob, NoEvent
<1>4. SentIsCommitted
    BY DEF Init, SentIsCommitted, IdleSender, NoEvent
<1>5. AttemptsBounded
  <2>1. PICK max \in Limits : max \in Nat
      BY ScannerAssumption
  <2> QED
      BY <2>1 DEF Init, AttemptsBounded, NoJob
<1> QED
    BY <1>1, <1>2, <1>3, <1>4, <1>5 DEF IInv

\* The invariant is inductive.
LEMMA NextIInv ==
    ASSUME IInv, [Next]_vars
    PROVE  IInv'
<1>1. TypeOK /\ WorkersHaveJobs /\ LeasesAreOfWork /\ OutboxIsOfResults /\ SentIsCommitted
      /\ AttemptsBounded
    BY DEF IInv
<1>2. \A j \in Jobs : JobMoves(j) /\ EventMoves(j)
    BY <1>1, JobStep, EventStep
<1> QED
    BY <1>1, <1>2, TypeStep, WorkersStep, LeasesStep, AttemptsStep, OutboxStep, SentStep DEF IInv

\* An injective outbox lists an event at most once.
LEMMA ListedOnce ==
    ASSUME OutboxIsOfResults, NEW j
    PROVE  Cardinality({i \in 1..Len(outbox) : outbox[i] = j}) <= 1
<1> DEFINE S == {i \in 1..Len(outbox) : outbox[i] = j}
<1>0. \A i, k \in 1..Len(outbox) : outbox[i] = outbox[k] => i = k
    BY DEF OutboxIsOfResults
<1>1. CASE S = {}
  <2>1. Cardinality(S) = 0
      BY <1>1, FS_EmptySet
  <2> QED
      BY <2>1
<1>2. ASSUME NEW i \in S
      PROVE  Cardinality(S) <= 1
  <2>1. S = {i}
      BY <1>0, <1>2
  <2>2. Cardinality(S) = 1
      BY <2>1, FS_Singleton
  <2> QED
      BY <2>2
<1> QED
    BY <1>1, <1>2

\* The inductive invariant gives the safety property of the run.
LEMMA IInvGivesResults ==
    ASSUME IInv
    PROVE  ResultsSound
<1>1. OneResultPerPage
  <2>1. ASSUME NEW j \in Jobs
        PROVE  Cardinality({i \in 1..Len(outbox) : outbox[i] = j}) <= 1
      BY ListedOnce DEF IInv
  <2> QED
      BY <2>1 DEF IInv, OutboxIsOfResults, OneResultPerPage
<1>2. ReceiptsFaithful
    BY DEF IInv, SentIsCommitted, ReceiptsFaithful
<1> QED
    BY <1>1, <1>2 DEF IInv, ResultsSound

-----------------------------------------------------------------------------
(* Theorems *)

\* In every reachable state of the scanner service, the invariant holds.
THEOREM IInvHolds == Spec => []IInv
<1>1. Init => IInv
    BY InitIInv
<1>2. IInv /\ [Next]_vars => IInv'
    BY NextIInv
<1> QED
    BY <1>1, <1>2, PTL DEF Spec

\* Whatever crashes, expires, is retried or arrives late: one result per page
\* on both sides, the one that was committed, within the configured attempts.
THEOREM ResultsAreSound == Spec => []ResultsSound
<1>1. IInv => ResultsSound
    BY IInvGivesResults
<1> QED
    BY <1>1, IInvHolds, PTL

\* A job that ended is never touched again, by whomever.
THEOREM FinalJobsAreFinal == Spec => FinalJobsStay
<1>1. IInv /\ [Next]_vars => [\A j \in Jobs : job[j].state \in Final => job'[j] = job[j]]_vars
  <2> SUFFICES ASSUME IInv, [Next]_vars, NEW j \in Jobs, job[j].state \in Final
               PROVE  job'[j] = job[j]
      OBVIOUS
  <2>1. JobMoves(j)
      BY JobStep DEF IInv
  <2>2. ~job[j].live
      BY DEF IInv, LeasesAreOfWork, Final
  <2> QED
      BY <2>1, <2>2 DEF JobMoves, Final
<1> QED
    BY <1>1, IInvHolds, PTL DEF Spec, FinalJobsStay

-----------------------------------------------------------------------------
(* Least elements *)

Less == {pair \in Nat \X Nat : pair[1] < pair[2]}

\* A set of natural numbers has a least element, unless it is empty.
LEMMA LeastOf ==
    ASSUME NEW N, N \subseteq Nat, N # {}
    PROVE  \E n \in N : \A m \in N : n <= m
<1>1. Less = OpToRel(<, Nat)
    BY Zenon DEF Less, OpToRel
<1>2. IsWellFoundedOn(Less, Nat)
    BY <1>1, NatLessThanWellFounded, Zenon
<1>3. PICK n \in N : \A m \in N : <<m, n>> \notin Less
    BY <1>2, WFMin
<1>4. \A m \in N : ~(m < n)
    BY <1>3 DEF Less
<1> QED
    BY <1>4

-----------------------------------------------------------------------------
(* ScannerIngestion: the listing *)

\* What is listed so far, for every name up to n.
Lists(f, n) ==
    f = [i \in 0..n |->
            IF i = 0 THEN <<>>
            ELSE IF files[i] = Absent THEN f[i - 1]
            ELSE Append(f[i - 1], [file |-> i, stamp |-> files[i].stamp])]

\* There is such a function: the recursion of Listing is well founded.
LEMMA ListsExists ==
    ASSUME NEW size \in Nat
    PROVE  \E f : Lists(f, size)
<1> DEFINE Bad == {n \in Nat : ~\E f : Lists(f, n)}
<1>1. SUFFICES ASSUME Bad # {}
               PROVE  FALSE
    OBVIOUS
<1>2. PICK n \in Bad : \A m \in Bad : n <= m
    BY <1>1, LeastOf
<1>3. n # 0
    <2>1. Lists([i \in 0..0 |-> <<>>], 0)
        BY DEF Lists
    <2> QED
        BY <2>1
<1>4. n - 1 \in Nat /\ n - 1 \notin Bad
    BY <1>2, <1>3
<1>5. PICK f : Lists(f, n - 1)
    BY <1>4
<1> DEFINE step(i, prev) == IF files[i] = Absent THEN prev
                            ELSE Append(prev, [file |-> i, stamp |-> files[i].stamp])
<1> DEFINE g == [i \in 0..n |-> IF i = n THEN step(n, f[n - 1]) ELSE f[i]]
<1>6. \A i \in 0..n : g[i] = IF i = 0 THEN <<>> ELSE step(i, g[i - 1])
    <2> SUFFICES ASSUME NEW i \in 0..n
                 PROVE  g[i] = IF i = 0 THEN <<>> ELSE step(i, g[i - 1])
        OBVIOUS
    <2>1. CASE i = n
        <3>1. g[i - 1] = f[n - 1]
            BY <2>1, <1>2, <1>3
        <3> QED
            BY <2>1, <3>1, <1>3
    <2>2. CASE i # n
        <3>1. i \in 0..(n - 1) /\ g[i] = f[i]
            BY <2>2
        <3>2. i # 0 => g[i - 1] = f[i - 1]
            BY <2>2
        <3> QED
            BY <3>1, <3>2, <1>5 DEF Lists
    <2> QED
        BY <2>1, <2>2
<1>7. g = [i \in 0..n |-> IF i = 0 THEN <<>> ELSE step(i, g[i - 1])]
    BY <1>6
<1>8. Lists(g, n)
    BY <1>7 DEF Lists
<1> QED
    BY <1>8

\* Listing lists versions, with stamps that were given out.
LEMMA ListingType ==
    ASSUME IngestionAssumption, IngestionTypeOK, StampsGivenOut
    PROVE  Listing \in Seq({v \in Versions : v.stamp <= clock})
<1> DEFINE size == Cardinality(Names)
           S == {v \in Versions : v.stamp <= clock}
           listed == CHOOSE f : Lists(f, size)
<1>0. size \in Nat /\ Names = 1..size
    BY FS_CardinalityType DEF IngestionAssumption
<1>1. Lists(listed, size)
    BY <1>0, ListsExists
<1>2. Listing = listed[size]
    BY DEF Listing, Lists
<1> HIDE DEF listed
<1>3. \A n \in 0..size : listed[n] \in Seq(S)
    <2> DEFINE Bad == {n \in 0..size : listed[n] \notin Seq(S)}
    <2>1. SUFFICES ASSUME Bad # {}
                   PROVE  FALSE
        OBVIOUS
    <2>2. Bad \subseteq Nat
        BY <1>0
    <2>3. PICK n \in Bad : \A m \in Bad : n <= m
        BY <2>1, <2>2, LeastOf
    <2>4. n # 0
        BY <2>3, <1>1, <1>0 DEF Lists
    <2>5. n - 1 \in 0..size /\ listed[n - 1] \in Seq(S)
        BY <2>3, <2>4, <1>0
    <2>6. listed[n] = IF files[n] = Absent THEN listed[n - 1]
                      ELSE Append(listed[n - 1], [file |-> n, stamp |-> files[n].stamp])
        BY <1>1, <2>4, <1>0 DEF Lists
    <2>7. n \in Names
        BY <2>4, <1>0
    <2>8. files[n] # Absent => [file |-> n, stamp |-> files[n].stamp] \in S
        BY <2>7 DEF IngestionTypeOK, StampsGivenOut, Entries, Versions
    <2> HIDE DEF S
    <2>9. listed[n] \in Seq(S)
        <3>1. CASE files[n] = Absent
            BY <3>1, <2>5, <2>6
        <3>2. CASE files[n] # Absent
            BY <3>2, <2>5, <2>6, <2>8
        <3> QED
            BY <3>1, <3>2
    <2> QED
        BY <2>3, <2>9
<1> QED
    BY <1>0, <1>2, <1>3

-----------------------------------------------------------------------------
(* ScannerIngestion: the invariant *)

\* The state the invariant is about.
ingestionState ==
    <<files, clock, up, bundle, todo, task, spool, quarantine, crops, receipts, jobs, rejected, copies, failures>>

\* Steps that change none of it, but perhaps the day.
LEMMA IngestionFrame ==
    ASSUME IngestionInvariant, UNCHANGED ingestionState, day' \in Nat
    PROVE  IngestionInvariant'
<1> USE DEF ingestionState
<1>1. IngestionTypeOK'
    BY DEF IngestionInvariant, IngestionTypeOK
<1>2. StampsGivenOut'
    BY DEF IngestionInvariant, StampsGivenOut
<1>3. TaskSound'
    BY DEF IngestionInvariant, TaskSound, StillThere, Aligned, Decodes
<1>4. ReceiptsSound'
    BY DEF IngestionInvariant, ReceiptsSound
<1>5. JobsBacked'
    BY DEF IngestionInvariant, JobsBacked, Servable, Aligned, Decodes
<1>6. RejectedForCause'
    BY DEF IngestionInvariant, RejectedForCause, Decodes
<1> QED
    BY <1>1, <1>2, <1>3, <1>4, <1>5, <1>6 DEF IngestionInvariant

\* What JobsBacked reads is kept.
LEMMA JobsFrame ==
    ASSUME JobsBacked, jobs' = jobs, spool \subseteq spool', crops \subseteq crops',
           receipts \subseteq receipts', copies' = copies
    PROVE  JobsBacked'
BY DEF JobsBacked, Servable, Aligned, Decodes

\* The ingestion goes on; what it knows must be shown anew.
LEMMA FilesFrame ==
    ASSUME IngestionInvariant, UNCHANGED <<files, clock, bundle, todo, rejected, jobs, failures>>,
           quarantine \subseteq quarantine', task' \in Tasks, day' = day,
           task # Absent, task'.of = task.of,
           receipts' \subseteq IngestionReceipts
    PROVE  /\ IngestionTypeOK' /\ StampsGivenOut' /\ RejectedForCause'
<1>1. IngestionTypeOK'
    BY DEF IngestionInvariant, IngestionTypeOK
<1>2. StampsGivenOut'
    BY DEF IngestionInvariant, StampsGivenOut
<1>3. RejectedForCause'
    BY DEF IngestionInvariant, RejectedForCause, Decodes
<1> QED
    BY <1>1, <1>2, <1>3

\* The file changes under the ingestion: what holds of the version listed
\* is not said of another.
LEMMA WriteSafe ==
    ASSUME IngestionAssumption, IngestionInvariant, NEW f \in Names, NEW s \in Scans, Write(f, s)
    PROVE  IngestionInvariant'
<1> DEFINE new == [scan |-> s, stamp |-> clock + 1, ready |-> files[f] # Absent /\ files[f].ready]
<1>1. /\ clock' = clock + 1 /\ files' = [files EXCEPT ![f] = new]
      /\ UNCHANGED <<up, bundle, day, failures, todo, task, spool, quarantine, crops, receipts, jobs, rejected, copies>>
    BY DEF Write, outer, store, rows
<1>2. IngestionTypeOK /\ StampsGivenOut /\ TaskSound /\ ReceiptsSound /\ JobsBacked /\ RejectedForCause
    BY DEF IngestionInvariant
<1>3. new \in Entries
    BY <1>2 DEF Entries, IngestionTypeOK
<1> HIDE DEF new
<1>4. IngestionTypeOK'
    BY <1>1, <1>2, <1>3 DEF IngestionTypeOK
<1>5. new.stamp = clock + 1
    BY DEF new
<1>6. StampsGivenOut'
    <2>1. clock \in Nat /\ \A v \in Versions : v.stamp \in Nat
        BY <1>2 DEF IngestionTypeOK, Versions
    <2>2. \A g \in Names : files'[g] # Absent => files'[g].stamp <= clock'
        BY <1>1, <1>2, <1>5, <2>1 DEF StampsGivenOut, IngestionTypeOK, Entries
    <2>3. \A i \in 1..Len(todo) : todo[i] \in Versions
        BY <1>2 DEF IngestionTypeOK
    <2>4. task # Absent => task.of \in Versions
        BY <1>2 DEF IngestionTypeOK, Tasks
    <2>5. rejected \subseteq Versions
        BY <1>2 DEF IngestionTypeOK
    <2>6. \A n \in Nat : n <= clock => n <= clock'
        BY <1>1, <2>1
    <2> QED
        BY <1>1, <1>2, <2>1, <2>2, <2>3, <2>4, <2>5, <2>6 DEF StampsGivenOut
<1>7. \A v \in Versions : v.stamp <= clock /\ StillThere(v)' => StillThere(v) /\ files'[v.file] = files[v.file]
    BY <1>1, <1>2, <1>5 DEF StillThere, Versions, IngestionTypeOK
<1>8. TaskSound'
    <2> SUFFICES ASSUME task # Absent
                 PROVE  TaskSound'
        BY <1>1 DEF TaskSound
    <2>1. task.of \in Versions /\ task.of.stamp <= clock
        BY <1>2 DEF IngestionTypeOK, Tasks, StampsGivenOut
    <2>2. StillThere(task.of)' => StillThere(task.of) /\ files'[task.of.file] = files[task.of.file]
        BY <1>1, <1>7, <2>1
    <2> QED
        BY <1>1, <1>2, <2>2 DEF TaskSound, Aligned, Decodes
<1>9. ReceiptsSound'
    BY <1>1, <1>2 DEF ReceiptsSound
<1>10. JobsBacked'
    BY <1>1, <1>2, JobsFrame
<1>11. RejectedForCause'
    <2> SUFFICES ASSUME NEW g \in Names, failures = 0, files'[g] # Absent,
                        [file |-> g, stamp |-> files'[g].stamp] \in rejected
                 PROVE  files'[g] = files[g]
        BY <1>1, <1>2 DEF RejectedForCause, Decodes
    <2>1. PICK v \in rejected : v = [file |-> g, stamp |-> files'[g].stamp]
        OBVIOUS
    <2>2. v \in Versions /\ v.stamp <= clock /\ v.file = g /\ v.stamp = files'[g].stamp
        BY <2>1, <1>2 DEF IngestionTypeOK, StampsGivenOut
    <2>3. StillThere(v)'
        BY <2>2 DEF StillThere
    <2> QED
        BY <2>2, <2>3, <1>7
<1> QED
    BY <1>4, <1>6, <1>8, <1>9, <1>10, <1>11 DEF IngestionInvariant

\* Marking a file ready, or removing it, gives it no other bytes.
LEMMA MarkSafe ==
    ASSUME IngestionAssumption, IngestionInvariant, NEW f \in Names, MarkReady(f) \/ Remove(f)
    PROVE  IngestionInvariant'
<1>1. /\ files' \in [Names -> Entries \cup {Absent}]
      /\ UNCHANGED <<clock, up, bundle, day, failures, todo, task, spool, quarantine, crops, receipts, jobs, rejected, copies>>
    BY DEF MarkReady, Remove, outer, store, rows, IngestionInvariant, IngestionTypeOK, Entries
<1>2. IngestionTypeOK /\ StampsGivenOut /\ TaskSound /\ ReceiptsSound /\ JobsBacked /\ RejectedForCause
    BY DEF IngestionInvariant
<1>3. \A g \in Names : files'[g] # Absent => /\ files[g] # Absent
                                             /\ files'[g].stamp = files[g].stamp /\ files'[g].scan = files[g].scan
    BY <1>2 DEF MarkReady, Remove, IngestionTypeOK, Entries
<1>4. IngestionTypeOK'
    BY <1>1, <1>2 DEF IngestionTypeOK
<1>5. StampsGivenOut'
    BY <1>1, <1>2, <1>3 DEF StampsGivenOut
<1>6. TaskSound'
    <2> SUFFICES ASSUME task # Absent
                 PROVE  TaskSound'
        BY <1>1 DEF TaskSound
    <2>1. task.of.file \in Names
        BY <1>2 DEF IngestionTypeOK, Tasks, Versions
    <2>2. StillThere(task.of)' => StillThere(task.of) /\ files'[task.of.file].scan = files[task.of.file].scan
        BY <1>1, <1>3, <2>1 DEF StillThere
    <2> QED
        BY <1>1, <1>2, <2>2 DEF TaskSound, Aligned, Decodes
<1>7. ReceiptsSound'
    BY <1>1, <1>2 DEF ReceiptsSound
<1>8. JobsBacked'
    BY <1>1, <1>2, JobsFrame
<1>9. RejectedForCause'
    BY <1>1, <1>2, <1>3 DEF RejectedForCause, Decodes
<1> QED
    BY <1>4, <1>5, <1>6, <1>7, <1>8, <1>9 DEF IngestionInvariant

\* The rest of a sequence.
LEMMA TailType ==
    ASSUME NEW S, NEW s \in Seq(S), s # <<>>
    PROVE  /\ Tail(s) \in Seq(S)
           /\ \A i \in 1..Len(Tail(s)) : i + 1 \in 1..Len(s) /\ Tail(s)[i] = s[i + 1]
OBVIOUS

\* The next candidate's turn.
LEMMA CandidateDone ==
    ASSUME IngestionInvariant, todo # <<>>, todo' = Tail(todo), task' = Absent,
           UNCHANGED <<files, clock, bundle, day, receipts>>, failures' \in Nat,
           jobs' \in [Bytes -> SourceRows \cup {Absent}],
           rejected' \subseteq Versions, \A v \in rejected' : v.stamp <= clock
    PROVE  IngestionTypeOK' /\ StampsGivenOut' /\ TaskSound' /\ ReceiptsSound'
<1>1. todo' \in Seq(Versions) /\ \A i \in 1..Len(todo') : i + 1 \in 1..Len(todo) /\ todo'[i] = todo[i + 1]
    BY TailType DEF IngestionInvariant, IngestionTypeOK
<1>2. IngestionTypeOK'
    BY <1>1 DEF IngestionInvariant, IngestionTypeOK
<1>3. StampsGivenOut'
    BY <1>1 DEF IngestionInvariant, StampsGivenOut
<1>4. TaskSound' /\ ReceiptsSound'
    BY DEF IngestionInvariant, TaskSound, ReceiptsSound
<1> QED
    BY <1>2, <1>3, <1>4

\* What there was cause to refuse, there still is.
LEMMA CauseFrame ==
    ASSUME IngestionTypeOK, RejectedForCause, UNCHANGED <<files, rejected>>, failures' = 0 => failures = 0,
           quarantine \subseteq quarantine', \A b \in Bytes : jobs[b] # Absent => jobs'[b] # Absent
    PROVE  RejectedForCause'
<1>1. \A f \in Names : files[f] # Absent => <<files[f].scan, files[f].scan>> \in Bytes
    BY DEF IngestionTypeOK, Entries, Bytes
<1> QED
    BY <1>1 DEF RejectedForCause, Decodes

\* A rejection for cause, or after a fault.
LEMMA RejectSafe ==
    ASSUME IngestionInvariant, task # Absent, Reject,
           UNCHANGED <<files, clock, bundle, day, spool, crops, receipts, jobs, copies>>, failures' \in Nat,
           failures' = 0 => failures = 0, quarantine \subseteq quarantine',
           failures' = 0 /\ StillThere(task.of) =>
               LET b == <<files[task.of.file].scan, files[task.of.file].scan>>
               IN  ~Fits(files[task.of.file].scan) \/ (~Decodes(b) /\ b \in quarantine') \/ jobs[b] # Absent
    PROVE  IngestionInvariant'
<1>1. task' = Absent /\ todo' = Tail(todo) /\ rejected' = rejected \cup {task.of}
    BY DEF Reject, NextCandidate, DoneWith
<1>2. task.of \in Versions /\ task.of.stamp <= clock /\ todo # <<>>
    BY DEF IngestionInvariant, IngestionTypeOK, Tasks, StampsGivenOut, TaskSound
<1>3. IngestionTypeOK' /\ StampsGivenOut' /\ TaskSound' /\ ReceiptsSound'
    <2>1. rejected' \subseteq Versions /\ \A v \in rejected' : v.stamp <= clock
        BY <1>1, <1>2 DEF IngestionInvariant, IngestionTypeOK, StampsGivenOut
    <2>2. jobs' \in [Bytes -> SourceRows \cup {Absent}]
        BY DEF IngestionInvariant, IngestionTypeOK
    <2> QED
        BY <1>1, <1>2, <2>1, <2>2, CandidateDone
<1>4. JobsBacked'
    BY JobsFrame DEF IngestionInvariant
<1>5. RejectedForCause'
    <2> SUFFICES ASSUME NEW f \in Names, failures' = 0, files[f] # Absent,
                        [file |-> f, stamp |-> files[f].stamp] \in rejected'
                 PROVE  LET b == <<files[f].scan, files[f].scan>>
                        IN  ~Fits(files[f].scan) \/ (~Decodes(b) /\ b \in quarantine') \/ jobs[b] # Absent
        BY DEF RejectedForCause, Decodes
    <2>1. CASE [file |-> f, stamp |-> files[f].stamp] \in rejected
        BY <2>1 DEF IngestionInvariant, RejectedForCause
    <2>2. CASE [file |-> f, stamp |-> files[f].stamp] = task.of
        <3>1. task.of.file = f /\ StillThere(task.of)
            BY <2>2 DEF StillThere
        <3> QED
            BY <3>1
    <2> QED
        BY <1>1, <2>1, <2>2
<1> QED
    BY <1>3, <1>4, <1>5 DEF IngestionInvariant

\* A poll lists what is there; nothing is in progress then.
LEMMA PollSafe ==
    ASSUME IngestionAssumption, IngestionInvariant, Poll
    PROVE  IngestionInvariant'
<1> DEFINE S == {v \in Versions : v.stamp <= clock}
<1>1. todo' \in Seq(Versions) /\ \A i \in 1..Len(todo') : todo'[i].stamp <= clock
    <2>1. todo' = <<>> \/ todo' = Listing
        BY DEF Poll
    <2>2. todo' \in Seq(S)
        <3>1. Listing \in Seq(S)
            BY ListingType DEF IngestionInvariant
        <3>2. <<>> \in Seq(S)
            OBVIOUS
        <3> QED
            BY <2>1, <3>1, <3>2, Zenon
    <2>3. \A i \in 1..Len(todo') : todo'[i] \in S
        <3> HIDE DEF S
        <3> QED
            BY <2>2
    <2>4. Len(todo') \in Nat /\ todo' = [i \in 1..Len(todo') |-> todo'[i]]
        <3> HIDE DEF S
        <3> QED
            BY <2>2
    <2>5. todo' \in Seq(Versions)
        BY <2>3, <2>4
    <2> QED
        BY <2>3, <2>5
<1>2. task = Absent /\ UNCHANGED <<files, clock, up, bundle, day, task, spool, quarantine, crops, receipts,
                                   jobs, rejected, copies, failures>>
    BY DEF Poll, shared, outer, store, rows, IngestionInvariant, TaskSound
<1>3. IngestionTypeOK'
    BY <1>1, <1>2 DEF IngestionInvariant, IngestionTypeOK
<1>4. StampsGivenOut'
    BY <1>1, <1>2 DEF IngestionInvariant, StampsGivenOut
<1>5. TaskSound' /\ ReceiptsSound'
    BY <1>2 DEF IngestionInvariant, TaskSound, ReceiptsSound
<1>6. JobsBacked'
    BY <1>2, JobsFrame DEF IngestionInvariant
<1>7. RejectedForCause'
    BY <1>2, CauseFrame DEF IngestionInvariant
<1> QED
    BY <1>3, <1>4, <1>5, <1>6, <1>7 DEF IngestionInvariant

\* A candidate that is passed over is forgotten.
LEMMA PassOverSafe ==
    ASSUME IngestionInvariant, PassOver
    PROVE  IngestionInvariant'
<1>1. /\ todo # <<>> /\ todo' = Tail(todo) /\ task = Absent
      /\ UNCHANGED <<files, clock, up, bundle, day, task, spool, quarantine, crops, receipts,
                      jobs, rejected, copies, failures>>
    BY DEF PassOver, shared, outer, store, rows
<1>2. IngestionTypeOK' /\ StampsGivenOut' /\ TaskSound' /\ ReceiptsSound'
    <2>1. /\ failures' \in Nat /\ jobs' \in [Bytes -> SourceRows \cup {Absent}]
          /\ rejected' \subseteq Versions /\ \A v \in rejected' : v.stamp <= clock
        BY <1>1 DEF IngestionInvariant, IngestionTypeOK, StampsGivenOut
    <2> QED
        BY <1>1, <2>1, CandidateDone
<1>3. JobsBacked'
    BY <1>1, JobsFrame DEF IngestionInvariant
<1>4. RejectedForCause'
    BY <1>1, CauseFrame DEF IngestionInvariant
<1> QED
    BY <1>2, <1>3, <1>4 DEF IngestionInvariant

\* The copy starts with the file as it is, which may not be what was listed;
\* one that does not fit is refused at once.
LEMMA StartCopySafe ==
    ASSUME IngestionInvariant, StartCopy
    PROVE  IngestionInvariant'
<1> DEFINE c == Head(todo)
           scan == files[c.file].scan
<1>1. /\ todo # <<>> /\ up /\ files[c.file] # Absent
      /\ UNCHANGED <<files, clock, up, bundle, day, spool, quarantine, crops, receipts, jobs, copies, failures>>
    BY DEF StartCopy, Ready, shared, outer, store
<1>2. c = todo[1] /\ 1 \in 1..Len(todo) /\ c \in Versions
    BY <1>1 DEF IngestionInvariant, IngestionTypeOK
<1>3. c.stamp <= clock
    BY <1>2 DEF IngestionInvariant, StampsGivenOut
<1>4. \/ Fits(scan) /\ UNCHANGED <<todo, rejected>>
            /\ task' = [at |-> "copying", of |-> c, first |-> scan, bytes |-> Absent, date |-> day]
      \/ ~Fits(scan) /\ task' = Absent /\ todo' = Tail(todo) /\ rejected' = rejected \cup {c}
    BY DEF StartCopy, DoneWith
<1>5. JobsBacked'
    BY <1>1, JobsFrame DEF IngestionInvariant
<1> HIDE DEF c, scan
<1>6. CASE Fits(scan) /\ UNCHANGED <<todo, rejected>>
            /\ task' = [at |-> "copying", of |-> c, first |-> scan, bytes |-> Absent, date |-> day]
    <2>1. task' \in Tasks
        <3>1. files[c.file] \in Entries
            BY <1>1, <1>2 DEF IngestionInvariant, IngestionTypeOK, Versions
        <3>2. scan \in Scans /\ day \in Nat
            BY <3>1 DEF scan, Entries, IngestionInvariant, IngestionTypeOK
        <3> QED
            BY <1>2, <1>6, <3>2 DEF Tasks, Phases
    <2>2. task'.of = c /\ task'.at = "copying" /\ task'.first = scan
        BY <1>6
    <2>3. IngestionTypeOK'
        BY <1>1, <1>6, <2>1 DEF IngestionInvariant, IngestionTypeOK
    <2>4. StampsGivenOut'
        BY <1>1, <1>3, <1>6, <2>2 DEF IngestionInvariant, StampsGivenOut
    <2>5. TaskSound'
        BY <1>1, <1>6, <2>2 DEF TaskSound, scan
    <2>6. ReceiptsSound'
        BY <1>1 DEF IngestionInvariant, ReceiptsSound
    <2>7. RejectedForCause'
        BY <1>1, <1>6, CauseFrame DEF IngestionInvariant
    <2> QED
        BY <1>5, <2>3, <2>4, <2>5, <2>6, <2>7 DEF IngestionInvariant
<1>7. CASE ~Fits(scan) /\ task' = Absent /\ todo' = Tail(todo) /\ rejected' = rejected \cup {c}
    <2>1. /\ failures' \in Nat /\ jobs' \in [Bytes -> SourceRows \cup {Absent}]
          /\ rejected' \subseteq Versions /\ \A v \in rejected' : v.stamp <= clock
        BY <1>1, <1>2, <1>3, <1>7 DEF IngestionInvariant, IngestionTypeOK, StampsGivenOut
    <2>2. IngestionTypeOK' /\ StampsGivenOut' /\ TaskSound' /\ ReceiptsSound'
        BY <1>1, <1>7, <2>1, CandidateDone
    <2>3. RejectedForCause'
        <3> SUFFICES ASSUME NEW f \in Names, failures = 0, files[f] # Absent,
                            [file |-> f, stamp |-> files[f].stamp] \in rejected'
                     PROVE  LET b == <<files[f].scan, files[f].scan>>
                            IN  ~Fits(files[f].scan) \/ (~Decodes(b) /\ b \in quarantine) \/ jobs[b] # Absent
            BY <1>1 DEF RejectedForCause, Decodes
        <3>1. CASE [file |-> f, stamp |-> files[f].stamp] \in rejected
            BY <3>1 DEF IngestionInvariant, RejectedForCause
        <3>2. CASE [file |-> f, stamp |-> files[f].stamp] = c
            <4>1. c.file = f
                BY <3>2
            <4> QED
                BY <4>1, <1>7 DEF scan
        <3> QED
            BY <1>7, <3>1, <3>2
    <2> QED
        BY <1>5, <2>2, <2>3 DEF IngestionInvariant
<1> QED
    BY <1>4, <1>6, <1>7

\* Between the phases the task keeps its candidate, first half and date.
LEMMA ProceedType ==
    ASSUME IngestionTypeOK, task # Absent, NEW phase \in Phases, task' = [task EXCEPT !.at = phase]
    PROVE  /\ task' \in Tasks /\ task'.at = phase /\ task'.of = task.of
           /\ task'.bytes = task.bytes /\ task'.date = task.date /\ task'.first = task.first
BY DEF IngestionTypeOK, Tasks

\* The second half is read from the file as it is by then.
LEMMA CopyRestSafe ==
    ASSUME IngestionInvariant, CopyRest
    PROVE  IngestionInvariant'
<1>1. /\ task # Absent /\ up /\ task.at = "copying"
      /\ UNCHANGED <<files, clock, up, bundle, day, spool, quarantine, crops, receipts, jobs, copies, failures>>
    BY DEF CopyRest, At, shared, outer, store
<1>2. task \in Tasks /\ task.of \in Versions /\ task.first \in Scans /\ Fits(task.first) /\ todo # <<>> /\ failures \in Nat
    BY <1>1 DEF IngestionInvariant, IngestionTypeOK, Tasks, TaskSound
<1>3. CASE /\ files[task.of.file] # Absent /\ files[task.of.file].scan \notin Oversized
           /\ task' = [task EXCEPT !.at = "copied", !.bytes = <<task.first, files[task.of.file].scan>>]
           /\ UNCHANGED <<todo, tracker, rejected>>
    <2> DEFINE scan == files[task.of.file].scan
               b == <<task.first, scan>>
    <2>1. scan \in Scans
        <3>1. files[task.of.file] \in Entries
            BY <1>2, <1>3 DEF IngestionInvariant, IngestionTypeOK, Versions
        <3> QED
            BY <3>1 DEF Entries
    <2>2. b \in Bytes
        BY <1>2, <2>1 DEF Bytes
    <2>3. task' \in Tasks /\ task'.at = "copied" /\ task'.of = task.of /\ task'.bytes = b /\ task'.first = task.first
        BY <1>2, <1>3, <2>2 DEF Tasks, Phases
    <2>4. IngestionTypeOK' /\ StampsGivenOut' /\ RejectedForCause'
        BY <1>1, <1>3, <2>3, FilesFrame DEF IngestionInvariant, IngestionTypeOK
    <2>5. TaskSound'
        <3>1. StillThere(task.of) => task.first = scan
            BY <1>1 DEF IngestionInvariant, TaskSound
        <3>2. StillThere(task.of)' <=> StillThere(task.of)
            BY <1>1, <2>3 DEF StillThere
        <3> QED
            BY <1>1, <1>2, <1>3, <2>2, <2>3, <3>1, <3>2 DEF TaskSound
    <2>6. ReceiptsSound'
        BY <1>1 DEF IngestionInvariant, ReceiptsSound
    <2>7. JobsBacked'
        BY <1>1, JobsFrame DEF IngestionInvariant
    <2> QED
        BY <2>4, <2>5, <2>6, <2>7 DEF IngestionInvariant
<1>4. CASE files[task.of.file] = Absent /\ Reject
    <2>1. ~StillThere(task.of)
        BY <1>4 DEF StillThere
    <2> QED
        BY <1>1, <1>2, <1>4, <2>1, RejectSafe
<1>5. CASE files[task.of.file] # Absent /\ files[task.of.file].scan \in Oversized /\ Reject
    <2>1. ~Fits(files[task.of.file].scan)
        BY <1>5 DEF Fits
    <2> QED
        BY <1>1, <1>2, <1>5, <2>1, RejectSafe
<1> QED
    BY <1>3, <1>4, <1>5 DEF CopyRest

\* An unchanged stamp says that both halves are of one version.
LEMMA CheckCopySafe ==
    ASSUME IngestionInvariant, CheckCopy
    PROVE  IngestionInvariant'
<1>1. /\ task # Absent /\ up /\ task.at = "copied"
      /\ UNCHANGED <<files, clock, up, bundle, day, spool, quarantine, crops, receipts, jobs, copies, failures>>
    BY DEF CheckCopy, At, shared, outer, store
<1>2. /\ IngestionTypeOK /\ todo # <<>> /\ failures \in Nat
      /\ task.bytes \in Bytes /\ task.bytes[1] = task.first /\ Fits(task.first)
      /\ StillThere(task.of) => task.bytes = <<files[task.of.file].scan, files[task.of.file].scan>>
    BY <1>1 DEF IngestionInvariant, IngestionTypeOK, TaskSound
<1>3. CASE Unchanged /\ Proceed("decoding") /\ UNCHANGED rejected
    <2>1. task' = [task EXCEPT !.at = "decoding"] /\ UNCHANGED <<todo, rejected>>
        BY <1>3 DEF Proceed
    <2>2. task' \in Tasks /\ task'.at = "decoding" /\ task'.of = task.of /\ task'.bytes = task.bytes /\ task'.first = task.first
        BY <1>1, <1>2, <2>1, ProceedType DEF Phases
    <2>3. IngestionTypeOK' /\ StampsGivenOut' /\ RejectedForCause'
        BY <1>1, <1>2, <2>1, <2>2, FilesFrame DEF IngestionTypeOK
    <2>4. TaskSound'
        <3>1. StillThere(task.of) /\ (StillThere(task.of)' <=> StillThere(task.of))
            BY <1>1, <1>3, <2>2 DEF StillThere, Unchanged
        <3> QED
            BY <1>1, <1>2, <2>1, <2>2, <3>1 DEF TaskSound
    <2>5. ReceiptsSound'
        BY <1>1 DEF IngestionInvariant, ReceiptsSound
    <2>6. JobsBacked'
        BY <1>1, JobsFrame DEF IngestionInvariant
    <2> QED
        BY <2>3, <2>4, <2>5, <2>6 DEF IngestionInvariant
<1>4. CASE ~Unchanged /\ Reject
    <2>1. ~StillThere(task.of)
        BY <1>4 DEF StillThere, Unchanged
    <2> QED
        BY <1>1, <1>2, <1>4, <2>1, RejectSafe
<1> QED
    BY <1>3, <1>4 DEF CheckCopy

\* What is refused because it does not decode is in quarantine.
LEMMA DecodeSafe ==
    ASSUME IngestionInvariant, Decode
    PROVE  IngestionInvariant'
<1>1. /\ task # Absent /\ up /\ task.at = "decoding"
      /\ UNCHANGED <<files, clock, up, bundle, day, spool, crops, receipts, jobs, copies, failures>>
    BY DEF Decode, At, shared, outer
<1>2. /\ IngestionTypeOK /\ todo # <<>> /\ failures \in Nat
      /\ task.bytes \in Bytes /\ task.bytes[1] = task.bytes[2] /\ task.bytes[1] = task.first /\ Fits(task.first)
      /\ StillThere(task.of) => task.bytes = <<files[task.of.file].scan, files[task.of.file].scan>>
    BY <1>1 DEF IngestionInvariant, IngestionTypeOK, TaskSound
<1>3. CASE Decodes(task.bytes) /\ Proceed("cutting") /\ UNCHANGED <<quarantine, rejected>>
    <2>1. task' = [task EXCEPT !.at = "cutting"] /\ UNCHANGED <<todo, rejected, quarantine>>
        BY <1>3 DEF Proceed
    <2>2. task' \in Tasks /\ task'.at = "cutting" /\ task'.of = task.of /\ task'.bytes = task.bytes /\ task'.first = task.first
        BY <1>1, <1>2, <2>1, ProceedType DEF Phases
    <2>3. IngestionTypeOK' /\ StampsGivenOut' /\ RejectedForCause'
        BY <1>1, <1>2, <2>1, <2>2, FilesFrame DEF IngestionTypeOK
    <2>4. TaskSound'
        <3>1. StillThere(task.of)' <=> StillThere(task.of)
            BY <1>1, <2>2 DEF StillThere
        <3> QED
            BY <1>1, <1>2, <2>1, <2>2, <3>1 DEF TaskSound
    <2>5. ReceiptsSound'
        BY <1>1 DEF IngestionInvariant, ReceiptsSound
    <2>6. JobsBacked'
        BY <1>1, JobsFrame DEF IngestionInvariant
    <2> QED
        BY <2>3, <2>4, <2>5, <2>6 DEF IngestionInvariant
<1>4. CASE ~Decodes(task.bytes) /\ Reject /\ quarantine' = quarantine \cup {task.bytes}
    BY <1>1, <1>2, <1>4, RejectSafe
<1> QED
    BY <1>3, <1>4 DEF Decode

\* Crops, receipt and source are kept one after the other.
LEMMA KeepSafe ==
    ASSUME IngestionInvariant, Cut \/ WriteReceipt \/ Promote
    PROVE  IngestionInvariant'
<1> DEFINE receipt == [of |-> task.of, bytes |-> task.bytes, date |-> task.date, bundle |-> bundle]
<1>1. /\ task # Absent /\ up /\ task.at \in {"cutting", "receipt", "promoting"}
      /\ UNCHANGED <<files, clock, up, bundle, day, todo, quarantine, jobs, rejected, copies, failures>>
    BY DEF Cut, WriteReceipt, Promote, At, Proceed, shared, outer, rows
<1>2. /\ IngestionTypeOK /\ todo # <<>> /\ receipts \subseteq IngestionReceipts
      /\ task.bytes \in Bytes /\ task.bytes[1] = task.bytes[2] /\ task.bytes[1] = task.first /\ Fits(task.first)
      /\ StillThere(task.of) => task.bytes = <<files[task.of.file].scan, files[task.of.file].scan>>
      /\ task.at \in {"receipt", "promoting"} => (Aligned(task.bytes) => task.bytes \in crops)
      /\ task.at = "promoting" => receipt \in receipts
    BY <1>1 DEF IngestionInvariant, IngestionTypeOK, TaskSound
<1>3. receipt \in IngestionReceipts
    BY <1>1, <1>2 DEF IngestionReceipts, IngestionTypeOK, Tasks
<1>4. receipts' \subseteq IngestionReceipts /\ ReceiptsSound'
    <2>1. receipts' = receipts \/ receipts' = receipts \cup {receipt}
        BY DEF Cut, WriteReceipt, Promote
    <2>2. receipt.bytes[1] = receipt.bytes[2] /\ Fits(receipt.bytes[1])
        BY <1>2
    <2> HIDE DEF receipt
    <2> QED
        BY <1>2, <1>3, <2>1, <2>2 DEF IngestionInvariant, ReceiptsSound
<1>5. PICK phase \in {"receipt", "promoting", "recording"} :
          /\ task' = [task EXCEPT !.at = phase]
          /\ phase = "receipt" => Cut
          /\ phase = "promoting" => WriteReceipt
          /\ phase = "recording" => Promote
    BY DEF Cut, WriteReceipt, Promote, Proceed
<1>6. task' \in Tasks /\ task'.at = phase /\ task'.of = task.of /\ task'.bytes = task.bytes /\ task'.date = task.date /\ task'.first = task.first
    BY <1>1, <1>2, <1>5, ProceedType DEF Phases
<1>7. IngestionTypeOK' /\ StampsGivenOut' /\ RejectedForCause'
    BY <1>1, <1>2, <1>4, <1>6, FilesFrame
<1>8. TaskSound'
    <2>1. StillThere(task.of)' <=> StillThere(task.of)
        BY <1>1, <1>6 DEF StillThere
    <2>2. Aligned(task.bytes) => task.bytes \in crops'
        BY <1>1, <1>2 DEF Cut, WriteReceipt, Promote, At
    <2>3. phase \in {"promoting", "recording"} => receipt \in receipts'
        BY <1>2, <1>5 DEF WriteReceipt, Promote, At
    <2>4. phase = "recording" => task.bytes \in spool'
        BY <1>5 DEF Promote
    <2> QED
        BY <1>1, <1>2, <1>6, <2>1, <2>2, <2>3, <2>4 DEF TaskSound, Aligned, Decodes
<1>9. JobsBacked'
    <2>1. spool \subseteq spool' /\ crops \subseteq crops' /\ receipts \subseteq receipts'
        BY DEF Cut, WriteReceipt, Promote
    <2> QED
        BY <1>1, <2>1, JobsFrame DEF IngestionInvariant
<1> QED
    BY <1>4, <1>7, <1>8, <1>9 DEF IngestionInvariant

\* A job made from a receipt is backed by it.
LEMMA CreatedBacked ==
    ASSUME IngestionAssumption, IngestionInvariant, NEW r \in receipts, Created(r),
           r.bytes \in spool, Aligned(r.bytes) => r.bytes \in crops, UNCHANGED <<spool, crops, receipts, copies>>
    PROVE  /\ jobs' \in [Bytes -> SourceRows \cup {Absent}] /\ JobsBacked'
           /\ \A b \in Bytes : jobs[b] # Absent => jobs'[b] # Absent
<1> DEFINE new == [date |-> r.date, bundle |-> r.bundle, state |-> "queued"]
<1>1. r \in IngestionReceipts /\ r.bytes \in Bytes /\ r.bytes[1] = r.bytes[2] /\ Fits(r.bytes[1])
    BY DEF IngestionInvariant, IngestionTypeOK, IngestionReceipts, ReceiptsSound
<1>2. new \in SourceRows /\ new # Absent
    BY <1>1 DEF SourceRows, IngestionReceipts, IngestionAssumption
<1>3. jobs \in [Bytes -> SourceRows \cup {Absent}]
    BY DEF IngestionInvariant, IngestionTypeOK
<1>4. jobs' = [jobs EXCEPT ![r.bytes] = IF jobs[r.bytes] = Absent THEN new ELSE jobs[r.bytes]]
    BY DEF Created
<1>5. new.date = r.date /\ new.bundle = r.bundle /\ new.state # "published"
    OBVIOUS
<1> HIDE DEF new
<1>6. jobs' \in [Bytes -> SourceRows \cup {Absent}]
    BY <1>1, <1>2, <1>3, <1>4
<1>7. \A b \in Bytes : jobs'[b] = IF b = r.bytes /\ jobs[b] = Absent THEN new ELSE jobs[b]
    BY <1>3, <1>4
<1>8. JobsBacked'
    <2> SUFFICES ASSUME NEW b \in Bytes, jobs'[b] # Absent
                 PROVE  /\ b[1] = b[2] /\ Fits(b[1]) /\ b \in spool /\ (Aligned(b) => b \in crops)
                        /\ \E s \in receipts : s.bytes = b /\ s.date = jobs'[b].date /\ s.bundle = jobs'[b].bundle
                        /\ jobs'[b].state = "published" => Servable(b)
        BY DEF JobsBacked, Servable, Aligned, Decodes
    <2>1. CASE b = r.bytes /\ jobs[b] = Absent
        BY <2>1, <1>1, <1>5, <1>7
    <2>2. CASE ~(b = r.bytes /\ jobs[b] = Absent)
        BY <2>2, <1>7 DEF IngestionInvariant, JobsBacked
    <2> QED
        BY <2>1, <2>2
<1> QED
    BY <1>2, <1>6, <1>7, <1>8

\* A file is recorded, or refused because its bytes were taken before.
LEMMA RecordSafe ==
    ASSUME IngestionAssumption, IngestionInvariant, Record
    PROVE  IngestionInvariant'
<1> DEFINE r == [of |-> task.of, bytes |-> task.bytes, date |-> task.date, bundle |-> bundle]
<1>1. /\ task # Absent /\ up /\ task.at = "recording"
      /\ UNCHANGED <<files, clock, up, bundle, day, spool, quarantine, crops, receipts, copies, failures>>
    BY DEF Record, At, shared, outer, store
<1>2. /\ IngestionTypeOK /\ todo # <<>> /\ failures \in Nat
      /\ task.bytes \in spool /\ (Aligned(task.bytes) => task.bytes \in crops)
      /\ r \in receipts /\ r.bytes = task.bytes
      /\ StillThere(task.of) => task.bytes = <<files[task.of.file].scan, files[task.of.file].scan>>
    BY <1>1 DEF IngestionInvariant, IngestionTypeOK, TaskSound
<1> HIDE DEF r
<1>3. CASE Agrees(r) /\ Created(r) /\ NextCandidate /\ UNCHANGED rejected
    <2>1. /\ jobs' \in [Bytes -> SourceRows \cup {Absent}] /\ JobsBacked'
          /\ \A b \in Bytes : jobs[b] # Absent => jobs'[b] # Absent
        BY <1>1, <1>2, <1>3, CreatedBacked
    <2>2. IngestionTypeOK' /\ StampsGivenOut' /\ TaskSound' /\ ReceiptsSound'
        <3>1. rejected' \subseteq Versions /\ \A v \in rejected' : v.stamp <= clock
            BY <1>3 DEF IngestionInvariant, IngestionTypeOK, StampsGivenOut
        <3> QED
            BY <1>1, <1>2, <1>3, <2>1, <3>1, CandidateDone DEF NextCandidate, DoneWith
    <2>3. RejectedForCause'
        BY <1>1, <1>2, <1>3, <2>1, CauseFrame DEF IngestionInvariant
    <2> QED
        BY <2>1, <2>2, <2>3 DEF IngestionInvariant
<1>4. CASE ~Agrees(r) /\ Reject /\ UNCHANGED <<jobs, discovered>>
    <2>1. jobs[task.bytes] # Absent
        BY <1>2, <1>4 DEF Agrees
    <2> QED
        BY <1>1, <1>2, <1>4, <2>1, RejectSafe
<1> QED
    BY <1>3, <1>4 DEF Record, r

\* A failing call is a fault, whatever becomes of the candidate.
LEMMA CallFailsSafe ==
    ASSUME IngestionInvariant, CallFails
    PROVE  IngestionInvariant'
<1>1. /\ task # Absent
      /\ UNCHANGED <<files, clock, up, bundle, day, spool, quarantine, crops, receipts, jobs, copies>>
      /\ failures' = failures + 1
    BY DEF CallFails, IngestionFault, shared, store
<1>2. IngestionTypeOK /\ todo # <<>> /\ failures' \in Nat /\ failures' # 0
    BY <1>1 DEF IngestionInvariant, IngestionTypeOK, TaskSound
<1>3. CASE Reject
    BY <1>1, <1>2, <1>3, RejectSafe
<1>4. CASE NextCandidate /\ UNCHANGED rejected
    <2>1. /\ jobs' \in [Bytes -> SourceRows \cup {Absent}]
          /\ rejected' \subseteq Versions /\ \A v \in rejected' : v.stamp <= clock
        BY <1>1, <1>4 DEF IngestionInvariant, IngestionTypeOK, StampsGivenOut
    <2>2. IngestionTypeOK' /\ StampsGivenOut' /\ TaskSound' /\ ReceiptsSound'
        BY <1>1, <1>2, <1>4, <2>1, CandidateDone DEF NextCandidate, DoneWith
    <2>3. JobsBacked'
        BY <1>1, JobsFrame DEF IngestionInvariant
    <2>4. RejectedForCause'
        BY <1>2 DEF RejectedForCause
    <2> QED
        BY <2>2, <2>3, <2>4 DEF IngestionInvariant
<1> QED
    BY <1>3, <1>4 DEF CallFails

\* A crash forgets what was in memory; a full disk is a fault as well.
LEMMA FaultSafe ==
    ASSUME IngestionInvariant, Crash \/ DiskFills
    PROVE  IngestionInvariant'
<1>1. /\ UNCHANGED <<files, clock, bundle, day, spool, quarantine, crops, receipts, jobs, rejected, copies>>
      /\ failures' = failures + 1
      /\ (todo' = <<>> /\ task' = Absent) \/ UNCHANGED <<up, todo, task>>
    BY DEF Crash, DiskFills, IngestionFault, shared, store, rows
<1>2. failures' \in Nat /\ failures' # 0
    BY <1>1 DEF IngestionInvariant, IngestionTypeOK
<1>3. IngestionTypeOK'
    <2>1. todo' \in Seq(Versions) /\ task' \in Tasks \cup {Absent}
        <3>1. <<>> \in Seq(Versions)
            OBVIOUS
        <3> QED
            BY <1>1, <3>1 DEF IngestionInvariant, IngestionTypeOK
    <2> QED
        BY <1>1, <1>2, <2>1 DEF IngestionInvariant, IngestionTypeOK
<1>4. StampsGivenOut'
    BY <1>1 DEF IngestionInvariant, StampsGivenOut
<1>5. TaskSound'
    BY <1>1 DEF IngestionInvariant, TaskSound, StillThere, Aligned, Decodes
<1>6. ReceiptsSound'
    BY <1>1 DEF IngestionInvariant, ReceiptsSound
<1>7. JobsBacked'
    BY <1>1, JobsFrame DEF IngestionInvariant
<1>8. RejectedForCause'
    BY <1>2 DEF RejectedForCause
<1> QED
    BY <1>3, <1>4, <1>5, <1>6, <1>7, <1>8 DEF IngestionInvariant

\* The service is down between versions, so nothing is in progress then.
LEMMA RestartSafe ==
    ASSUME IngestionInvariant, Upgrade \/ Start
    PROVE  IngestionInvariant'
<1>1. /\ UNCHANGED <<files, clock, day, todo, task, spool, quarantine, crops, receipts, jobs, rejected, copies, failures>>
      /\ bundle' \in Nat
      /\ task = Absent
    BY DEF Upgrade, Start, shared, store, rows, IngestionInvariant, IngestionTypeOK, TaskSound
<1>2. IngestionTypeOK'
    BY <1>1 DEF IngestionInvariant, IngestionTypeOK
<1>3. StampsGivenOut' /\ TaskSound' /\ ReceiptsSound'
    BY <1>1 DEF IngestionInvariant, StampsGivenOut, TaskSound, ReceiptsSound
<1>4. JobsBacked'
    BY <1>1, JobsFrame DEF IngestionInvariant
<1>5. RejectedForCause'
    BY <1>1, CauseFrame DEF IngestionInvariant
<1> QED
    BY <1>2, <1>3, <1>4, <1>5 DEF IngestionInvariant

\* A receipt is replayed only where everything it speaks of is there.
LEMMA ReplaySafe ==
    ASSUME IngestionAssumption, IngestionInvariant, NEW r \in receipts, Replay(r)
    PROVE  IngestionInvariant'
<1>1. UNCHANGED <<files, clock, up, bundle, day, todo, task, spool, quarantine, crops, receipts, rejected, copies, failures>>
    BY DEF Replay, shared, outer, store
<1>2. /\ jobs' \in [Bytes -> SourceRows \cup {Absent}] /\ JobsBacked'
      /\ \A b \in Bytes : jobs[b] # Absent => jobs'[b] # Absent
    <2>1. CASE Durable(r) /\ Created(r)
        BY <1>1, <2>1, CreatedBacked DEF Durable
    <2>2. CASE UNCHANGED jobs
        BY <1>1, <2>2, JobsFrame DEF IngestionInvariant, IngestionTypeOK
    <2> QED
        BY <2>1, <2>2 DEF Replay
<1>3. IngestionTypeOK'
    BY <1>1, <1>2 DEF IngestionInvariant, IngestionTypeOK
<1>4. StampsGivenOut' /\ ReceiptsSound'
    BY <1>1 DEF IngestionInvariant, StampsGivenOut, ReceiptsSound
<1>5. TaskSound'
    BY <1>1 DEF IngestionInvariant, TaskSound, StillThere, Aligned, Decodes
<1>6. RejectedForCause'
    BY <1>1, <1>2, CauseFrame DEF IngestionInvariant
<1> QED
    BY <1>2, <1>3, <1>4, <1>5, <1>6 DEF IngestionInvariant

\* A worker changes the state of a job, and publishes what can be fetched.
LEMMA PublishSafe ==
    ASSUME IngestionAssumption, IngestionInvariant, NEW b \in Bytes, Publish(b)
    PROVE  IngestionInvariant'
<1>1. /\ UNCHANGED <<files, clock, up, bundle, day, todo, task, spool, quarantine, crops, receipts, rejected, failures>>
      /\ jobs[b] # Absent /\ copies \subseteq copies'
    BY DEF Publish, WithCopy, shared, outer, store
<1>2. PICK state \in {"failed", "published"} :
          /\ jobs' = [jobs EXCEPT ![b].state = state]
          /\ state = "published" => b \in copies'
    BY DEF Publish, WithCopy
<1>3. jobs \in [Bytes -> SourceRows \cup {Absent}] /\ jobs[b] \in SourceRows
    BY <1>1 DEF IngestionInvariant, IngestionTypeOK
<1>4. [jobs[b] EXCEPT !.state = state] \in SourceRows
    BY <1>3 DEF SourceRows
<1>5. jobs' \in [Bytes -> SourceRows \cup {Absent}] /\ jobs'[b] = [jobs[b] EXCEPT !.state = state] /\ jobs'[b] # Absent
    BY <1>2, <1>3, <1>4 DEF IngestionAssumption
<1>6. jobs'[b].date = jobs[b].date /\ jobs'[b].bundle = jobs[b].bundle /\ jobs'[b].state = state
    BY <1>3, <1>5 DEF SourceRows
<1>7. \A c \in Bytes : c # b => jobs'[c] = jobs[c]
    BY <1>2, <1>3
<1>8. IngestionTypeOK'
    BY <1>1, <1>5 DEF IngestionInvariant, IngestionTypeOK
<1>9. StampsGivenOut' /\ ReceiptsSound'
    BY <1>1 DEF IngestionInvariant, StampsGivenOut, ReceiptsSound
<1>10. TaskSound'
    BY <1>1 DEF IngestionInvariant, TaskSound, StillThere, Aligned, Decodes
<1>11. JobsBacked'
    <2> SUFFICES ASSUME NEW c \in Bytes, jobs'[c] # Absent
                 PROVE  /\ c[1] = c[2] /\ Fits(c[1]) /\ c \in spool /\ (Aligned(c) => c \in crops)
                        /\ \E s \in receipts : s.bytes = c /\ s.date = jobs'[c].date /\ s.bundle = jobs'[c].bundle
                        /\ jobs'[c].state = "published" => c \in copies' /\ (Aligned(c) => c \in crops)
        BY <1>1 DEF JobsBacked, Servable, Aligned, Decodes
    <2>1. CASE c = b
        BY <2>1, <1>1, <1>2, <1>6 DEF IngestionInvariant, JobsBacked
    <2>2. CASE c # b
        BY <2>2, <1>1, <1>7 DEF IngestionInvariant, JobsBacked, Servable
    <2> QED
        BY <2>1, <2>2
<1>12. RejectedForCause'
    BY <1>1, <1>5, <1>7, CauseFrame DEF IngestionInvariant
<1> QED
    BY <1>8, <1>9, <1>10, <1>11, <1>12 DEF IngestionInvariant

\* The inductive invariant holds.
THEOREM IngestionHolds ==
    IngestionSpec => []IngestionInvariant
<1>1. IngestionInit => IngestionInvariant
    <2> SUFFICES ASSUME IngestionInit
                 PROVE  IngestionInvariant
        OBVIOUS
    <2> USE DEF IngestionInit
    <2>1. IngestionTypeOK
        BY DEF IngestionTypeOK
    <2>2. StampsGivenOut /\ TaskSound /\ ReceiptsSound /\ JobsBacked /\ RejectedForCause
        BY DEF StampsGivenOut, TaskSound, ReceiptsSound, JobsBacked, RejectedForCause
    <2> QED
        BY <2>1, <2>2 DEF IngestionInvariant
<1>2. IngestionInvariant /\ [IngestionNext]_ingestionVars => IngestionInvariant'
    <2> SUFFICES ASSUME IngestionInvariant, [IngestionNext]_ingestionVars
                 PROVE  IngestionInvariant'
        OBVIOUS
    <2>1. CASE UNCHANGED ingestionVars
        <3>1. UNCHANGED ingestionState /\ day' \in Nat
            BY <2>1 DEF ingestionVars, ingestionState, IngestionInvariant, IngestionTypeOK
        <3> QED
            BY <3>1, IngestionFrame
    <2>2. ASSUME NEW f \in Names, (\E s \in Scans : Write(f, s)) \/ MarkReady(f) \/ Remove(f)
          PROVE  IngestionInvariant'
        BY <2>2, IngestionAssumption, WriteSafe, MarkSafe
    <2>3. CASE DiskDrains \/ NextDay
        <3>1. UNCHANGED ingestionState /\ day' \in Nat
            BY <2>3 DEF DiskDrains, NextDay, shared, store, rows, ingestionState, IngestionInvariant, IngestionTypeOK
        <3> QED
            BY <3>1, IngestionFrame
    <2>4. CASE Serve
        BY <2>4, IngestionAssumption, PollSafe, PassOverSafe, StartCopySafe, CopyRestSafe, CheckCopySafe, DecodeSafe, KeepSafe,
           RecordSafe, ReplaySafe DEF Serve
    <2>5. CASE CallFails \/ Crash \/ DiskFills
        BY <2>5, CallFailsSafe, FaultSafe
    <2>6. CASE Upgrade \/ Start
        BY <2>6, RestartSafe
    <2>7. ASSUME NEW b \in Bytes, Publish(b)
          PROVE  IngestionInvariant'
        BY <2>7, IngestionAssumption, PublishSafe
    <2> QED
        BY <2>1, <2>2, <2>3, <2>4, <2>5, <2>6, <2>7 DEF IngestionNext
<1> QED
    BY <1>1, <1>2, PTL DEF IngestionSpec

\* A job is backed by whole bytes, its crops and a receipt from which it could
\* be made again, through torn copies, crashes at every step and upgrades.
THEOREM JobsAreBacked ==
    IngestionSpec => []JobsBacked
<1>1. IngestionInvariant => JobsBacked
    BY DEF IngestionInvariant
<1> QED
    BY <1>1, IngestionHolds, PTL

\* Without a fault a file is refused only for what it is.
THEOREM RefusedForCause ==
    IngestionSpec => []RejectedForCause
<1>1. IngestionInvariant => RejectedForCause
    BY DEF IngestionInvariant
<1> QED
    BY <1>1, IngestionHolds, PTL
=============================================================================
