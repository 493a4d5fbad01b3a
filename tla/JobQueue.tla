------------------------------ MODULE JobQueue ------------------------------
(***************************************************************************)
(* Admission, dispatch and completion of background jobs in one process:  *)
(* AgentJobOrchestrator (jobs/src/agent_job_orchestrator.py).             *)
(*                                                                         *)
(* Every job is submitted by a caller thread of its own and executed by a *)
(* thread of a ThreadPoolExecutor; stage[j] says which statement of the   *)
(* submit or run method the thread serving j executes next.  The backlog  *)
(* is bounded by a semaphore (permits); the depth reported to callers is  *)
(* the length of a separate deque (inflight), which the threads change in *)
(* steps of their own.                                                     *)
(***************************************************************************)
EXTENDS Integers, Sequences, FiniteSets

CONSTANTS
    FileJobs,       \* jobs submitted by submit_file_job
    AttachJobs,     \* jobs submitted by submit_attachment_job
    Capacity,       \* max(1, max_pending_jobs)
    MaxWorkers,     \* threads of the executor
    Threshold       \* failures that trip the circuit breaker

Jobs == FileJobs \cup AttachJobs

ASSUME JobQueueAssumption ==
    /\ IsFiniteSet(FileJobs) /\ IsFiniteSet(AttachJobs)
    /\ FileJobs \cap AttachJobs = {}
    /\ Capacity \in Nat \ {0}
    /\ MaxWorkers \in Nat \ {0}
    /\ Threshold \in Nat \ {0}

VARIABLES
    stage,      \* stage[j]: where the thread serving j stands
    permits,    \* value of the _admission semaphore
    inflight,   \* length of the _inflight deque
    queue,      \* the executor's FIFO of submitted, not yet begun jobs
    record,     \* record[j]: the job record on disk
    failures,   \* failures in the circuit breaker's window
    down,       \* the executor was shut down
    disk        \* "sound", or "faulty": save_job may raise OutputWriteError

vars == <<stage, permits, inflight, queue, record, failures, down, disk>>

SubmitStages == {"reserved", "guarded", "saved", "entered"}
WorkerStages == {"dispatching", "executing", "running",
                 "succeeded", "recorded", "failed", "releasing"}
\* Stages a thread can be in between _reserve_capacity and _admission.release().
LiveStages == SubmitStages \cup WorkerStages \cup {"queued", "rejecting", "rejected", "popped"}
\* Admitted jobs whose slot no statement of the code will return.
StrandedStages == {"leaked", "orphaned", "cancelled"}
Stages == LiveStages \cup StrandedStages \cup {"new", "refused", "over"}

Records == {"none", "pending", "started", "done", "failed"}

TypeOK ==
    /\ stage \in [Jobs -> Stages]
    /\ permits \in Nat
    /\ inflight \in Nat
    /\ queue \in Seq(Jobs)
    /\ record \in [Jobs -> Records]
    /\ failures \in Nat
    /\ down \in BOOLEAN
    /\ disk \in {"sound", "faulty"}

-----------------------------------------------------------------------------
(* State formulae *)

In(S) == {j \in Jobs : stage[j] \in S}
Holding == In(LiveStages \cup StrandedStages)
\* "popped" jobs still occupy their worker thread: Future completes after release().
Working == In(WorkerStages \cup {"popped"})
\* Jobs a worker ever began: "over" is also reached from a rejection, which has no record.
Begun == Working \cup {j \in Jobs : stage[j] = "over" /\ record[j] # "none"}
Go(j, from, to) == stage[j] = from /\ stage' = [stage EXCEPT ![j] = to]

-----------------------------------------------------------------------------
(* The submitting thread *)

Init ==
    /\ stage = [j \in Jobs |-> "new"]
    /\ permits = Capacity
    /\ inflight = 0
    /\ queue = <<>>
    /\ record = [j \in Jobs |-> "none"]
    /\ failures = 0
    /\ down = FALSE
    /\ disk \in {"sound", "faulty"}

\* Mutant: the semaphore is not consulted.
ReserveUnbounded(j) ==
    /\ Go(j, "new", "reserved")
    /\ permits' = IF permits > 0 THEN permits - 1 ELSE 0
    /\ UNCHANGED <<inflight, queue, record, failures, down, disk>>

\* acquire(blocking=False) succeeds.
ReserveCapacity(j) ==
    /\ permits > 0
    /\ Go(j, "new", "reserved")
    /\ permits' = permits - 1
    /\ UNCHANGED <<inflight, queue, record, failures, down, disk>>

\* acquire(blocking=False) fails: JobQueueFullError.
RefuseFull(j) ==
    /\ permits = 0
    /\ Go(j, "new", "refused")
    /\ UNCHANGED <<permits, inflight, queue, record, failures, down, disk>>

GuardSubmit(j) ==
    /\ Go(j, "reserved", IF failures >= Threshold THEN "rejecting" ELSE "guarded")
    /\ UNCHANGED <<permits, inflight, queue, record, failures, down, disk>>

\* save_job of the submit record; a raised error leaves the reserved slot behind.
SaveSubmitted(j) ==
    /\ \/ Go(j, "guarded", "saved") /\ record' = [record EXCEPT ![j] = "pending"]
       \/ disk = "faulty" /\ Go(j, "guarded", "leaked") /\ record' = record
    /\ UNCHANGED <<permits, inflight, queue, failures, down, disk>>

\* Only _submit_file calls _enter_flight.
EnterFlight(j) ==
    /\ j \in FileJobs
    /\ Go(j, "saved", "entered")
    /\ inflight' = inflight + 1
    /\ UNCHANGED <<permits, queue, record, failures, down, disk>>

\* executor.submit raises RuntimeError once the executor was shut down.
Dispatch(j) ==
    /\ Go(j, IF j \in FileJobs THEN "entered" ELSE "saved",
             IF down THEN "orphaned" ELSE "queued")
    /\ queue' = IF down THEN queue ELSE Append(queue, j)
    /\ UNCHANGED <<permits, inflight, record, failures, down, disk>>

-----------------------------------------------------------------------------
(* The worker thread *)

\* An idle worker takes the oldest work item.
Take(j) ==
    /\ queue # <<>> /\ j = Head(queue)
    /\ Cardinality(Working) < MaxWorkers
    /\ Go(j, "queued", "dispatching")
    /\ queue' = Tail(queue)
    /\ UNCHANGED <<permits, inflight, record, failures, down, disk>>

\* Mutant: the worker waits for the breaker to close as well.
GuardDispatchByBreaker(j) ==
    /\ failures < Threshold
    /\ Go(j, "dispatching", "executing")
    /\ UNCHANGED <<permits, inflight, queue, record, failures, down, disk>>

\* The limiter grants a start after an arbitrary wait.
GuardDispatch(j) ==
    /\ Go(j, "dispatching", "executing")
    /\ UNCHANGED <<permits, inflight, queue, record, failures, down, disk>>

\* _save_started runs before the try block: an error goes straight to finally.
SaveStarted(j) ==
    /\ \/ Go(j, "executing", "running") /\ record' = [record EXCEPT ![j] = "started"]
       \/ disk = "faulty" /\ Go(j, "executing", "releasing") /\ record' = record
    /\ UNCHANGED <<permits, inflight, queue, failures, down, disk>>

RunFails(j) ==
    /\ Go(j, "running", "failed")
    /\ failures' = failures + 1
    /\ UNCHANGED <<permits, inflight, queue, record, down, disk>>

RunSucceeds(j) ==
    /\ Go(j, "running", "succeeded")
    /\ UNCHANGED <<permits, inflight, queue, record, failures, down, disk>>

\* _save_success clears the breaker before it writes the record.
RecordSuccess(j) ==
    /\ Go(j, "succeeded", "recorded")
    /\ failures' = 0
    /\ UNCHANGED <<permits, inflight, queue, record, down, disk>>

\* Mutant: only a success is persisted.
SaveSuccessOnly(j) ==
    /\ Go(j, "failed", "releasing") \/ Go(j, "recorded", "releasing")
    /\ record' = IF stage[j] = "failed" THEN record ELSE [record EXCEPT ![j] = "done"]
    /\ UNCHANGED <<permits, inflight, queue, failures, down, disk>>

SaveTerminal(j) ==
    /\ Go(j, "failed", "releasing") \/ Go(j, "recorded", "releasing")
    /\ \/ record' = [record EXCEPT ![j] = IF stage[j] = "failed" THEN "failed" ELSE "done"]
       \/ disk = "faulty" /\ record' = record
    /\ UNCHANGED <<permits, inflight, queue, failures, down, disk>>

\* Mutant: a run that ends leaves its token behind.
PopOnRejectionOnly(j) ==
    /\ Go(j, "releasing", "popped") \/ Go(j, "rejecting", "rejected")
    /\ inflight' = IF stage[j] = "rejecting" /\ inflight > 0 THEN inflight - 1 ELSE inflight
    /\ UNCHANGED <<permits, queue, record, failures, down, disk>>

\* _release_capacity, first half: pop any token if there is one.  Both the
\* finally of a run and a guard rejection come here.
PopToken(j) ==
    /\ Go(j, "releasing", "popped") \/ Go(j, "rejecting", "rejected")
    /\ inflight' = IF inflight > 0 THEN inflight - 1 ELSE 0
    /\ UNCHANGED <<permits, queue, record, failures, down, disk>>

\* Mutant: the except branch of a guard rejection forgets the semaphore.
ReleaseAfterRunOnly(j) ==
    /\ Go(j, "popped", "over") \/ Go(j, "rejected", "over")
    /\ permits' = IF stage[j] = "popped" THEN permits + 1 ELSE permits
    /\ UNCHANGED <<inflight, queue, record, failures, down, disk>>

\* _release_capacity, second half.
ReleasePermit(j) ==
    /\ Go(j, "popped", "over") \/ Go(j, "rejected", "over")
    /\ permits' = permits + 1
    /\ UNCHANGED <<inflight, queue, record, failures, down, disk>>

-----------------------------------------------------------------------------
(* The shutdown verb and the breaker's clock *)

\* Mutant: the futures are cancelled and stay in the queue.
ShutdownKeepingQueue ==
    /\ ~down
    /\ down' = TRUE
    /\ stage' = [j \in Jobs |-> IF stage[j] = "queued" THEN "cancelled" ELSE stage[j]]
    /\ UNCHANGED <<permits, inflight, queue, record, failures, disk>>

\* shutdown(False, cancel_futures=True) drains the queue and lets running jobs be.
Shutdown ==
    /\ ~down
    /\ down' = TRUE
    /\ stage' = [j \in Jobs |-> IF stage[j] = "queued" THEN "cancelled" ELSE stage[j]]
    /\ queue' = <<>>
    /\ UNCHANGED <<permits, inflight, record, failures, disk>>

\* The oldest failure leaves the breaker's sliding window.
FailureExpires ==
    /\ failures > 0
    /\ failures' = failures - 1
    /\ UNCHANGED <<stage, permits, inflight, queue, record, down, disk>>

-----------------------------------------------------------------------------
Submit(j) ==
    \/ ReserveCapacity(j) \/ RefuseFull(j) \/ GuardSubmit(j)
    \/ SaveSubmitted(j) \/ EnterFlight(j) \/ Dispatch(j)

Work(j) ==
    \/ Take(j) \/ GuardDispatch(j) \/ SaveStarted(j)
    \/ RunFails(j) \/ RunSucceeds(j) \/ RecordSuccess(j) \/ SaveTerminal(j)

Release(j) == PopToken(j) \/ ReleasePermit(j)

Next == Shutdown \/ FailureExpires \/ \E j \in Jobs : Submit(j) \/ Work(j) \/ Release(j)

\* Threads that can move eventually do; nobody has to shut the process down.
\* A caller thread need not submit, but once admitted it runs on.
Fairness == \A j \in Jobs : WF_vars(stage[j] # "new" /\ (Submit(j) \/ Work(j) \/ Release(j)))

Spec == Init /\ [][Next]_vars
FairSpec == Spec /\ Fairness

-----------------------------------------------------------------------------
(* Properties *)

\* Every slot of the backlog is free or held by exactly one job: no path of
\* submission, refusal, failed write, run or shutdown returns a slot twice or
\* takes one it does not account for (_reserve_capacity / _release_capacity).
SlotConservation == permits + Cardinality(Holding) = Capacity

\* File jobs that have pushed their token and not yet popped one.
Entered == {j \in FileJobs : stage[j] \in
               {"entered", "queued", "orphaned", "cancelled"} \cup WorkerStages}

\* The reported depth never exceeds the jobs that really are in flight, so the
\* "N of M slots in use" of a refusal is never above M (queue_depth,
\* JobQueueFullError), whichever thread pops whose token.
DepthNeverOverReports == inflight <= Cardinality(Entered)

\* The executor's queue holds every dispatched job once and nothing else, so a
\* job can neither run twice nor be forgotten by the workers.
QueueIsExact ==
    /\ \A i \in 1 .. Len(queue) : stage[queue[i]] = "queued"
    /\ \A i, k \in 1 .. Len(queue) : queue[i] = queue[k] => i = k
    /\ \A j \in In({"queued"}) : \E i \in 1 .. Len(queue) : queue[i] = j

\* A slot comes back only after the outcome is on disk: when the writes
\* succeed, a job whose worker let go of it has a terminal record, and a
\* submission the guard rejected has none.
SettledBeforeRelease ==
    \A j \in Jobs : stage[j] \in {"releasing", "popped"} /\ disk = "sound"
                        => record[j] \in {"done", "failed"}

\* AgentJobOrchestrator is a bounded backlog: its admitted jobs are those
\* between acquire and release of the semaphore.
Backlog == INSTANCE BoundedBacklog WITH
    admitted <- Holding,
    seen     <- Jobs \ In({"new", "refused"}),
    running  <- Working,
    begun    <- Begun,
    closed   <- down
RefinesBacklog == Backlog!Spec

\* Once its record is saved a job ends with its slot returned, unless the
\* process is shut down: no job waits for ever behind the limiter, the breaker
\* or other jobs.
DispatchedJobEnds ==
    \A j \in Jobs : stage[j] \in {"saved", "entered", "queued"} ~> stage[j] = "over" \/ down

-----------------------------------------------------------------------------
(* What a docstring says and the code does not do *)

=============================================================================
