--------------------------- MODULE JobQueueProofs ---------------------------
(***************************************************************************)
(* Proofs about JobQueue for any number of jobs, slots and workers.        *)
(***************************************************************************)
EXTENDS JobQueue, FiniteSetTheorems, TLAPS

-----------------------------------------------------------------------------
(* Helpers *)

\* The set of jobs is finite, and so is every set of jobs in given stages.
LEMMA InFinite == ASSUME NEW S PROVE IsFiniteSet(In(S)) /\ Cardinality(In(S)) \in Nat
<1>1. IsFiniteSet(Jobs)
  BY JobQueueAssumption, FS_Union DEF Jobs
<1>2. In(S) \in SUBSET Jobs
  BY DEF In
<1> QED
  BY <1>1, <1>2, FS_Subset, FS_CardinalityType

\* A finite set that gains or loses at most the element x.
LEMMA CountChange ==
  ASSUME NEW A, IsFiniteSet(A), NEW B, NEW x, B = A \cup {x} \/ B = A \ {x}
  PROVE  Cardinality(B) = Cardinality(A) + (IF x \in B THEN 1 ELSE 0) - (IF x \in A THEN 1 ELSE 0)
<1>1. Cardinality(A) \in Nat
  BY FS_CardinalityType
<1>2. CASE B = A \cup {x}
  <2>1. Cardinality(B) = IF x \in A THEN Cardinality(A) ELSE Cardinality(A) + 1
    BY <1>2, FS_AddElement
  <2> QED
    BY <1>1, <1>2, <2>1
<1>3. CASE B = A \ {x}
  <2>1. Cardinality(B) = IF x \in A THEN Cardinality(A) - 1 ELSE Cardinality(A)
    BY <1>3, FS_RemoveElement
  <2> QED
    BY <1>1, <1>3, <2>1
<1> QED
  BY <1>2, <1>3

-----------------------------------------------------------------------------
(* Type correctness *)

\* Every variable keeps its type: no counter goes below zero and only
\* dispatched jobs enter the executor's queue.
THEOREM TypeInvariant == Spec => []TypeOK
<1>1. Init => TypeOK
  <2>1. Capacity \in Nat
    BY JobQueueAssumption
  <2>2. <<>> \in Seq(Jobs)
    OBVIOUS
  <2> SUFFICES ASSUME Init PROVE TypeOK
    OBVIOUS
  <2>3. stage \in [Jobs -> Stages]
    BY DEF Init, Stages
  <2>4. record \in [Jobs -> Records]
    BY DEF Init, Records
  <2>5. permits \in Nat /\ inflight \in Nat /\ failures \in Nat
    BY <2>1 DEF Init
  <2>6. queue \in Seq(Jobs)
    BY <2>2 DEF Init
  <2> QED
    BY <2>3, <2>4, <2>5, <2>6 DEF Init, TypeOK
<1>2. TypeOK /\ [Next]_vars => TypeOK'
  <2> SUFFICES ASSUME TypeOK, [Next]_vars PROVE TypeOK'
    OBVIOUS
  <2> USE DEF TypeOK, Stages, LiveStages, SubmitStages, WorkerStages, StrandedStages, Records, Go
  <2>1. ASSUME NEW j \in Jobs, Submit(j) PROVE TypeOK'
    <3>1. CASE ReserveCapacity(j)  BY <3>1 DEF ReserveCapacity
    <3>2. CASE RefuseFull(j)  BY <3>2 DEF RefuseFull
    <3>3. CASE GuardSubmit(j)  BY <3>3 DEF GuardSubmit
    <3>4. CASE SaveSubmitted(j)  BY <3>4 DEF SaveSubmitted
    <3>5. CASE EnterFlight(j)  BY <3>5 DEF EnterFlight
    <3>6. CASE Dispatch(j)  BY <3>6 DEF Dispatch
    <3> QED
      BY <2>1, <3>1, <3>2, <3>3, <3>4, <3>5, <3>6 DEF Submit
  <2>2. ASSUME NEW j \in Jobs, Work(j) PROVE TypeOK'
    <3>1. CASE Take(j)  BY <3>1 DEF Take
    <3>2. CASE GuardDispatch(j)  BY <3>2 DEF GuardDispatch
    <3>3. CASE SaveStarted(j)  BY <3>3 DEF SaveStarted
    <3>4. CASE RunFails(j)  BY <3>4 DEF RunFails
    <3>5. CASE RunSucceeds(j)  BY <3>5 DEF RunSucceeds
    <3>6. CASE RecordSuccess(j)  BY <3>6 DEF RecordSuccess
    <3>7. CASE SaveTerminal(j)  BY <3>7 DEF SaveTerminal
    <3> QED
      BY <2>2, <3>1, <3>2, <3>3, <3>4, <3>5, <3>6, <3>7 DEF Work
  <2>3. ASSUME NEW j \in Jobs, Release(j) PROVE TypeOK'
    BY <2>3 DEF Release, PopToken, ReleasePermit
  <2>4. CASE Shutdown  BY <2>4 DEF Shutdown
  <2>5. CASE FailureExpires  BY <2>5 DEF FailureExpires
  <2>6. CASE UNCHANGED vars  BY <2>6 DEF vars
  <2> QED
    BY <2>1, <2>2, <2>3, <2>4, <2>5, <2>6 DEF Next
<1> QED
  BY <1>1, <1>2, PTL DEF Spec

-----------------------------------------------------------------------------
(* Conservation of the backlog's slots *)

Held == LiveStages \cup StrandedStages

\* A move into, out of or inside the admitted stages, counted.
LEMMA HoldingCount ==
  ASSUME TypeOK, NEW j \in Jobs, NEW from, NEW to, Go(j, from, to)
  PROVE  Cardinality(Holding)' = Cardinality(Holding)
             + (IF to \in Held THEN 1 ELSE 0) - (IF from \in Held THEN 1 ELSE 0)
<1>1. IsFiniteSet(Holding)
  BY InFinite DEF Holding
<1>2. Holding = {k \in Jobs : stage[k] \in Held} /\ Holding' = {k \in Jobs : stage'[k] \in Held}
  BY DEF Holding, Held, In
<1>3. stage[j] = from /\ \A k \in Jobs : stage'[k] = IF k = j THEN to ELSE stage[k]
  BY DEF Go, TypeOK
<1>4. Holding' = IF to \in Held THEN Holding \cup {j} ELSE Holding \ {j}
  BY <1>2, <1>3
<1>5. j \in Holding <=> from \in Held
  BY <1>2, <1>3
<1>6. Holding' = Holding \cup {j} \/ Holding' = Holding \ {j}
  BY <1>4
<1>7. j \in Holding' <=> to \in Held
  BY <1>4
<1> QED
  BY <1>1, <1>5, <1>6, <1>7, CountChange

\* Free slots and admitted jobs always add up to the capacity.
THEOREM SlotsConserved == Spec => []SlotConservation
<1>1. Init => SlotConservation
  <2> SUFFICES ASSUME Init PROVE SlotConservation
    OBVIOUS
  <2>1. Holding = {}
    BY DEF Init, Holding, In, LiveStages, SubmitStages, WorkerStages, StrandedStages
  <2> QED
    BY <2>1, FS_EmptySet, JobQueueAssumption DEF Init, SlotConservation
<1>2. TypeOK /\ SlotConservation /\ [Next]_vars => SlotConservation'
  <2> SUFFICES ASSUME TypeOK, SlotConservation, [Next]_vars PROVE SlotConservation'
    OBVIOUS
  <2>0. Cardinality(Holding) \in Nat /\ permits \in Nat /\ Capacity \in Nat
    BY InFinite, JobQueueAssumption DEF Holding, TypeOK
  <2> USE DEF Held, LiveStages, SubmitStages, WorkerStages, StrandedStages
  \* A move among admitted stages that leaves the semaphore alone.
  <2>1. ASSUME NEW j \in Jobs, NEW from \in Held, NEW to \in Held, Go(j, from, to), permits' = permits
        PROVE  SlotConservation'
    <3>1. Cardinality(Holding)' = Cardinality(Holding)
      BY <2>0, <2>1, HoldingCount
    <3> QED
      BY <2>1, <3>1 DEF SlotConservation
  <2>2. ASSUME NEW j \in Jobs, Submit(j) PROVE SlotConservation'
    <3>1. CASE ReserveCapacity(j)
      <4>1. Cardinality(Holding)' = Cardinality(Holding) + 1
        BY <2>0, <3>1, HoldingCount DEF ReserveCapacity
      <4> QED
        BY <2>0, <3>1, <4>1 DEF ReserveCapacity, SlotConservation
    <3>2. CASE RefuseFull(j)
      <4>1. Cardinality(Holding)' = Cardinality(Holding)
        BY <2>0, <3>2, HoldingCount DEF RefuseFull
      <4> QED
        BY <3>2, <4>1 DEF RefuseFull, SlotConservation
    <3>3. CASE GuardSubmit(j)  BY <2>1, <3>3 DEF GuardSubmit
    <3>4. CASE SaveSubmitted(j)  BY <2>1, <3>4 DEF SaveSubmitted
    <3>5. CASE EnterFlight(j)  BY <2>1, <3>5 DEF EnterFlight
    <3>6. CASE Dispatch(j)  BY <2>1, <3>6 DEF Dispatch
    <3> QED
      BY <2>2, <3>1, <3>2, <3>3, <3>4, <3>5, <3>6 DEF Submit
  <2>3. ASSUME NEW j \in Jobs, Work(j) PROVE SlotConservation'
    BY <2>1, <2>3 DEF Work, Take, GuardDispatch, SaveStarted, RunFails, RunSucceeds,
                      RecordSuccess, SaveTerminal
  <2>4. ASSUME NEW j \in Jobs, Release(j) PROVE SlotConservation'
    <3>1. CASE PopToken(j)  BY <2>1, <3>1 DEF PopToken
    <3>2. CASE ReleasePermit(j)
      <4>1. Cardinality(Holding)' = Cardinality(Holding) - 1
        BY <2>0, <3>2, HoldingCount DEF ReleasePermit
      <4> QED
        BY <2>0, <3>2, <4>1 DEF ReleasePermit, SlotConservation
    <3> QED
      BY <2>4, <3>1, <3>2 DEF Release
  <2>5. CASE Shutdown
    <3>1. Holding' = Holding
      BY <2>5 DEF Shutdown, Holding, In, TypeOK
    <3> QED
      BY <2>5, <3>1 DEF Shutdown, SlotConservation
  <2>6. CASE FailureExpires  BY <2>6 DEF FailureExpires, SlotConservation, Holding, In
  <2>7. CASE UNCHANGED vars  BY <2>7 DEF vars, SlotConservation, Holding, In
  <2> QED
    BY <2>2, <2>3, <2>4, <2>5, <2>6, <2>7 DEF Next
<1> QED
  BY <1>1, <1>2, TypeInvariant, PTL DEF Spec

-----------------------------------------------------------------------------
(* The executor's queue *)

\* The queue holds every dispatched job once, and nothing else.
THEOREM QueueExact == Spec => []QueueIsExact
<1>1. Init => QueueIsExact
  BY DEF Init, QueueIsExact, In
<1>2. TypeOK /\ QueueIsExact /\ [Next]_vars => QueueIsExact'
  <2> SUFFICES ASSUME TypeOK, QueueIsExact, [Next]_vars PROVE QueueIsExact'
    OBVIOUS
  \* A move that neither starts nor ends in the queue.
  <2>1. ASSUME NEW j \in Jobs, NEW from, NEW to, Go(j, from, to),
               from # "queued", to # "queued", queue' = queue
        PROVE  QueueIsExact'
    BY <2>1 DEF Go, QueueIsExact, In, TypeOK
  <2>2. ASSUME NEW j \in Jobs, Dispatch(j) PROVE QueueIsExact'
    <3>1. CASE down
      BY <2>1, <2>2, <3>1 DEF Dispatch
    <3>2. CASE ~down
      <4>1. /\ stage[j] # "queued"
            /\ stage' = [stage EXCEPT ![j] = "queued"]
            /\ queue' = Append(queue, j)
        BY <2>2, <3>2 DEF Dispatch, Go
      <4>2. /\ Len(queue') = Len(queue) + 1
            /\ \A i \in 1 .. Len(queue) : queue'[i] = queue[i]
            /\ queue'[Len(queue) + 1] = j
            /\ Len(queue) \in Nat
        BY <4>1 DEF TypeOK
      <4>3. \A i \in 1 .. Len(queue) : queue[i] \in Jobs /\ queue[i] # j
        BY <4>1 DEF TypeOK, QueueIsExact
      <4>4. \A i \in 1 .. Len(queue') : stage'[queue'[i]] = "queued"
        BY <4>1, <4>2, <4>3 DEF TypeOK, QueueIsExact
      <4>5. \A i, k \in 1 .. Len(queue') : queue'[i] = queue'[k] => i = k
        BY <4>2, <4>3 DEF QueueIsExact
      <4>6. \A m \in In({"queued"})' : \E i \in 1 .. Len(queue') : queue'[i] = m
        BY <4>1, <4>2 DEF QueueIsExact, In, TypeOK
      <4> QED
        BY <4>4, <4>5, <4>6 DEF QueueIsExact
    <3> QED
      BY <3>1, <3>2 DEF TypeOK
  <2>3. ASSUME NEW j \in Jobs, Take(j) PROVE QueueIsExact'
    <3>1. /\ queue # <<>> /\ queue[1] = j
          /\ stage' = [stage EXCEPT ![j] = "dispatching"]
          /\ queue' = Tail(queue)
      BY <2>3 DEF Take, Go, TypeOK
    <3>2. /\ Len(queue) \in Nat \ {0}
          /\ Len(queue') = Len(queue) - 1
          /\ \A i \in 1 .. Len(queue') : queue'[i] = queue[i + 1] /\ i + 1 \in 2 .. Len(queue)
      BY <3>1 DEF TypeOK
    <3>3. \A i \in 2 .. Len(queue) : queue[i] \in Jobs /\ queue[i] # j
      BY <3>1, <3>2 DEF TypeOK, QueueIsExact
    <3>4. \A i \in 1 .. Len(queue') : stage'[queue'[i]] = "queued"
      BY <3>1, <3>2, <3>3 DEF TypeOK, QueueIsExact
    <3>5. \A i, k \in 1 .. Len(queue') : queue'[i] = queue'[k] => i = k
      BY <3>2 DEF QueueIsExact
    <3>6. ASSUME NEW m \in In({"queued"})' PROVE \E i \in 1 .. Len(queue') : queue'[i] = m
      <4>1. m \in In({"queued"}) /\ m # j
        BY <3>1, <3>6 DEF In, TypeOK
      <4>2. PICK i \in 1 .. Len(queue) : queue[i] = m
        BY <4>1 DEF QueueIsExact
      <4>3. i # 1
        BY <3>1, <4>1, <4>2
      <4>4. i - 1 \in 1 .. Len(queue') /\ (i - 1) + 1 = i
        BY <3>2, <4>2, <4>3
      <4> QED
        BY <3>2, <4>2, <4>4
    <3> QED
      BY <3>4, <3>5, <3>6 DEF QueueIsExact
  <2>4. ASSUME NEW j \in Jobs, Submit(j) PROVE QueueIsExact'
    BY <2>1, <2>2, <2>4 DEF Submit, ReserveCapacity, RefuseFull, GuardSubmit, SaveSubmitted, EnterFlight
  <2>5. ASSUME NEW j \in Jobs, Work(j) PROVE QueueIsExact'
    BY <2>1, <2>3, <2>5 DEF Work, GuardDispatch, SaveStarted, RunFails, RunSucceeds,
                            RecordSuccess, SaveTerminal
  <2>6. ASSUME NEW j \in Jobs, Release(j) PROVE QueueIsExact'
    BY <2>1, <2>6 DEF Release, PopToken, ReleasePermit
  <2>7. CASE Shutdown
    BY <2>7 DEF Shutdown, QueueIsExact, In, TypeOK
  <2>8. CASE FailureExpires
    BY <2>8 DEF FailureExpires, QueueIsExact, In
  <2>9. CASE UNCHANGED vars
    BY <2>9 DEF vars, QueueIsExact, In
  <2> QED
    BY <2>4, <2>5, <2>6, <2>7, <2>8, <2>9 DEF Next
<1> QED
  BY <1>1, <1>2, TypeInvariant, PTL DEF Spec

-----------------------------------------------------------------------------
(* Records *)

\* On a sound disk a worker that lets go of a job has settled its record.
THEOREM Settled == Spec => []SettledBeforeRelease
<1>1. Init => SettledBeforeRelease
  BY DEF Init, SettledBeforeRelease
<1>2. TypeOK /\ SettledBeforeRelease /\ [Next]_vars => SettledBeforeRelease'
  <2> SUFFICES ASSUME TypeOK, SettledBeforeRelease, [Next]_vars PROVE SettledBeforeRelease'
    OBVIOUS
  <2> USE DEF TypeOK, SettledBeforeRelease, Go
  <2>1. ASSUME NEW j \in Jobs, Submit(j) PROVE SettledBeforeRelease'
    BY <2>1 DEF Submit, ReserveCapacity, RefuseFull, GuardSubmit, SaveSubmitted, EnterFlight, Dispatch
  <2>2. ASSUME NEW j \in Jobs, Work(j) PROVE SettledBeforeRelease'
    BY <2>2 DEF Work, Take, GuardDispatch, SaveStarted, RunFails, RunSucceeds, RecordSuccess, SaveTerminal
  <2>3. ASSUME NEW j \in Jobs, Release(j) PROVE SettledBeforeRelease'
    BY <2>3 DEF Release, PopToken, ReleasePermit
  <2>4. CASE Shutdown  BY <2>4 DEF Shutdown
  <2>5. CASE FailureExpires  BY <2>5 DEF FailureExpires
  <2>6. CASE UNCHANGED vars  BY <2>6 DEF vars
  <2> QED
    BY <2>1, <2>2, <2>3, <2>4, <2>5, <2>6 DEF Next
<1> QED
  BY <1>1, <1>2, TypeInvariant, PTL DEF Spec

-----------------------------------------------------------------------------
(* The reported depth *)

FlightStages == {"entered", "queued", "orphaned", "cancelled"} \cup WorkerStages

\* The file jobs in flight after a move of one job, counted.
LEMMA EnteredCount ==
  ASSUME TypeOK, NEW j \in Jobs, NEW from, NEW to, Go(j, from, to)
  PROVE  /\ Cardinality(Entered) \in Nat
         /\ Cardinality(Entered)' = Cardinality(Entered)
                + (IF j \in FileJobs /\ to \in FlightStages THEN 1 ELSE 0)
                - (IF j \in FileJobs /\ from \in FlightStages THEN 1 ELSE 0)
<1>1. IsFiniteSet(Entered)
  BY JobQueueAssumption, FS_Subset DEF Entered
<1>2. /\ Entered = {k \in FileJobs : stage[k] \in FlightStages}
      /\ Entered' = {k \in FileJobs : stage'[k] \in FlightStages}
  BY DEF Entered, FlightStages
<1>3. stage[j] = from /\ \A k \in Jobs : stage'[k] = IF k = j THEN to ELSE stage[k]
  BY DEF Go, TypeOK
<1>4. Entered' = IF j \in FileJobs /\ to \in FlightStages THEN Entered \cup {j} ELSE Entered \ {j}
  BY <1>2, <1>3 DEF Jobs
<1>5. j \in Entered <=> j \in FileJobs /\ from \in FlightStages
  BY <1>2, <1>3
<1>6. Entered' = Entered \cup {j} \/ Entered' = Entered \ {j}
  BY <1>4
<1>7. j \in Entered' <=> j \in FileJobs /\ to \in FlightStages
  BY <1>4
<1>8. Cardinality(Entered) \in Nat
  BY <1>1, FS_CardinalityType
<1> QED
  BY <1>1, <1>5, <1>6, <1>7, <1>8, CountChange

\* queue_depth never reports more jobs than are in flight, although the tokens
\* and the stages change in separate steps and any thread pops any token.
THEOREM DepthBounded == Spec => []DepthNeverOverReports
<1>1. Init => DepthNeverOverReports
  <2> SUFFICES ASSUME Init PROVE DepthNeverOverReports
    OBVIOUS
  <2>1. Entered = {}
    BY DEF Init, Entered, WorkerStages, Jobs
  <2> QED
    BY <2>1, FS_EmptySet DEF Init, DepthNeverOverReports
<1>2. TypeOK /\ DepthNeverOverReports /\ [Next]_vars => DepthNeverOverReports'
  <2> SUFFICES ASSUME TypeOK, DepthNeverOverReports, [Next]_vars PROVE DepthNeverOverReports'
    OBVIOUS
  <2>0. inflight \in Nat
    BY DEF TypeOK
  <2> USE DEF FlightStages, WorkerStages
  \* A move that leaves the tokens alone and keeps a file job in flight.
  <2>1. ASSUME NEW j \in Jobs, NEW from, NEW to, Go(j, from, to), inflight' = inflight,
               j \in FileJobs /\ from \in FlightStages => to \in FlightStages
        PROVE  DepthNeverOverReports'
    <3>1. Cardinality(Entered) \in Nat /\ Cardinality(Entered)' \in Nat
          /\ Cardinality(Entered)' >= Cardinality(Entered)
      BY <2>1, EnteredCount
    <3> QED
      BY <2>0, <2>1, <3>1 DEF DepthNeverOverReports
  <2>2. ASSUME NEW j \in Jobs, EnterFlight(j) PROVE DepthNeverOverReports'
    <3>1. Cardinality(Entered) \in Nat /\ Cardinality(Entered)' = Cardinality(Entered) + 1
      BY <2>2, EnteredCount DEF EnterFlight
    <3> QED
      BY <2>0, <2>2, <3>1 DEF EnterFlight, DepthNeverOverReports
  <2>3. ASSUME NEW j \in Jobs, PopToken(j) PROVE DepthNeverOverReports'
    <3>1. CASE Go(j, "rejecting", "rejected")
      <4>1. Cardinality(Entered) \in Nat /\ Cardinality(Entered)' = Cardinality(Entered)
        BY <3>1, EnteredCount
      <4> QED
        BY <2>0, <2>3, <4>1 DEF PopToken, DepthNeverOverReports
    <3>2. CASE Go(j, "releasing", "popped")
      <4>1. Cardinality(Entered) \in Nat
            /\ Cardinality(Entered)' = IF j \in FileJobs THEN Cardinality(Entered) - 1 ELSE Cardinality(Entered)
        BY <3>2, EnteredCount
      <4>2. j \in FileJobs => Cardinality(Entered) - 1 \in Nat
        <5>1. SUFFICES ASSUME j \in FileJobs PROVE j \in Entered
          BY <4>1, InFinite, JobQueueAssumption, FS_Subset, FS_EmptySet DEF Entered
        <5> QED
          BY <3>2, <5>1 DEF Entered, Go
      <4> QED
        BY <2>0, <2>3, <4>1, <4>2 DEF PopToken, DepthNeverOverReports
    <3> QED
      BY <2>3, <3>1, <3>2 DEF PopToken
  <2>4. ASSUME NEW j \in Jobs, Submit(j) PROVE DepthNeverOverReports'
    BY <2>1, <2>2, <2>4 DEF Submit, ReserveCapacity, RefuseFull, GuardSubmit, SaveSubmitted, Dispatch
  <2>5. ASSUME NEW j \in Jobs, Work(j) PROVE DepthNeverOverReports'
    BY <2>1, <2>5 DEF Work, Take, GuardDispatch, SaveStarted, RunFails, RunSucceeds,
                      RecordSuccess, SaveTerminal
  <2>6. ASSUME NEW j \in Jobs, Release(j) PROVE DepthNeverOverReports'
    BY <2>1, <2>3, <2>6 DEF Release, ReleasePermit
  <2>7. CASE Shutdown
    <3>1. Entered' = Entered
      BY <2>7 DEF Shutdown, Entered, TypeOK, Jobs
    <3> QED
      BY <2>7, <3>1 DEF Shutdown, DepthNeverOverReports
  <2>8. CASE FailureExpires
    BY <2>8 DEF FailureExpires, DepthNeverOverReports, Entered
  <2>9. CASE UNCHANGED vars
    BY <2>9 DEF vars, DepthNeverOverReports, Entered
  <2> QED
    BY <2>4, <2>5, <2>6, <2>7, <2>8, <2>9 DEF Next
<1> QED
  BY <1>1, <1>2, TypeInvariant, PTL DEF Spec

-----------------------------------------------------------------------------
(* The orchestrator implements the bounded backlog *)

Unrecorded == {"new", "refused", "reserved", "guarded", "leaked", "rejecting", "rejected"}

\* What the refinement mapping rests on: a record exists from the submit write
\* on, so "over" with a record means that a worker began the job; and an
\* executor that is shut down has nothing queued.
MappingInv ==
    /\ \A j \in Jobs : stage[j] \in Unrecorded => record[j] = "none"
    /\ \A j \in Jobs : stage[j] \notin Unrecorded \cup {"over"} => record[j] # "none"
    /\ down => queue = <<>>

\* The invariant behind the refinement mapping holds throughout.
THEOREM MappingInvariant == Spec => []MappingInv
<1>1. Init => MappingInv
  BY DEF Init, MappingInv, Unrecorded
<1>2. TypeOK /\ MappingInv /\ [Next]_vars => MappingInv'
  <2> SUFFICES ASSUME TypeOK, MappingInv, [Next]_vars PROVE MappingInv'
    OBVIOUS
  <2> USE DEF MappingInv, TypeOK, Go, Unrecorded
  <2>1. ASSUME NEW j \in Jobs, Submit(j) PROVE MappingInv'
    BY <2>1 DEF Submit, ReserveCapacity, RefuseFull, GuardSubmit, SaveSubmitted, EnterFlight, Dispatch
  <2>2. ASSUME NEW j \in Jobs, Work(j) PROVE MappingInv'
    BY <2>2 DEF Work, Take, GuardDispatch, SaveStarted, RunFails, RunSucceeds, RecordSuccess, SaveTerminal
  <2>3. ASSUME NEW j \in Jobs, Release(j) PROVE MappingInv'
    BY <2>3 DEF Release, PopToken, ReleasePermit
  <2>4. CASE Shutdown  BY <2>4 DEF Shutdown
  <2>5. CASE FailureExpires  BY <2>5 DEF FailureExpires
  <2>6. CASE UNCHANGED vars  BY <2>6 DEF vars
  <2> QED
    BY <2>1, <2>2, <2>3, <2>4, <2>5, <2>6 DEF Next
<1> QED
  BY <1>1, <1>2, TypeInvariant, PTL DEF Spec

\* The instance of the abstract module counts as this one does.
LEMMA SameCardinality == \A S : Backlog!Cardinality(S) = Cardinality(S)
BY DEF Backlog!Cardinality, Cardinality

Running == WorkerStages \cup {"popped"}
Seen == Jobs \ In({"new", "refused"})

\* What three sets of the mapping become when one job moves.
LEMMA MappedMove ==
  ASSUME TypeOK, NEW j \in Jobs, NEW from, NEW to, Go(j, from, to)
  PROVE  /\ j \in Holding <=> from \in Held
         /\ Holding' = IF to \in Held THEN Holding \cup {j} ELSE Holding \ {j}
         /\ j \in Seen <=> from \notin {"new", "refused"}
         /\ Seen' = IF to \notin {"new", "refused"} THEN Seen \cup {j} ELSE Seen \ {j}
         /\ j \in Working <=> from \in Running
         /\ Working' = IF to \in Running THEN Working \cup {j} ELSE Working \ {j}
<1>1. stage[j] = from /\ \A k \in Jobs : stage'[k] = IF k = j THEN to ELSE stage[k]
  BY DEF Go, TypeOK
<1>2. /\ Holding = {k \in Jobs : stage[k] \in Held} /\ Holding' = {k \in Jobs : stage'[k] \in Held}
      /\ Working = {k \in Jobs : stage[k] \in Running} /\ Working' = {k \in Jobs : stage'[k] \in Running}
      /\ Seen = {k \in Jobs : stage[k] \notin {"new", "refused"}}
      /\ Seen' = {k \in Jobs : stage'[k] \notin {"new", "refused"}}
  BY DEF Holding, Held, Working, Running, Seen, In
<1>3. /\ j \in Holding <=> from \in Held
      /\ Holding' = IF to \in Held THEN Holding \cup {j} ELSE Holding \ {j}
  BY <1>1, <1>2
<1>4. /\ j \in Seen <=> from \notin {"new", "refused"}
      /\ Seen' = IF to \notin {"new", "refused"} THEN Seen \cup {j} ELSE Seen \ {j}
  BY <1>1, <1>2
<1>5. /\ j \in Working <=> from \in Running
      /\ Working' = IF to \in Running THEN Working \cup {j} ELSE Working \ {j}
  BY <1>1, <1>2
<1> QED
  BY <1>3, <1>4, <1>5

\* What the fourth becomes: "over" counts as begun if there is a record.
LEMMA BegunMove ==
  ASSUME TypeOK, NEW j \in Jobs, NEW from, NEW to, Go(j, from, to),
         \A k \in Jobs \ {j} : record'[k] = record[k]
  PROVE  /\ j \in Begun <=> (from \in Running \/ (from = "over" /\ record[j] # "none"))
         /\ (to \in Running \/ (to = "over" /\ record'[j] # "none")) => Begun' = Begun \cup {j}
         /\ ~(to \in Running \/ (to = "over" /\ record'[j] # "none")) => Begun' = Begun \ {j}
<1>1. stage[j] = from /\ \A k \in Jobs : stage'[k] = IF k = j THEN to ELSE stage[k]
  BY DEF Go, TypeOK
<1>2. /\ Working = {k \in Jobs : stage[k] \in Running}
      /\ Working' = {k \in Jobs : stage'[k] \in Running}
  BY DEF Working, Running, In
<1>3. \A k : k \in Begun <=> k \in Jobs /\ (stage[k] \in Running \/ (stage[k] = "over" /\ record[k] # "none"))
  BY <1>2 DEF Begun
<1>4. \A k : k \in Begun' <=> k \in Jobs /\ (stage'[k] \in Running \/ (stage'[k] = "over" /\ record'[k] # "none"))
  BY <1>2 DEF Begun
<1>5. Begun \subseteq Jobs /\ Begun' \subseteq Jobs
  BY <1>3, <1>4
<1>6. j \in Begun <=> (from \in Running \/ (from = "over" /\ record[j] # "none"))
  BY <1>1, <1>3
<1>7. j \in Begun' <=> (to \in Running \/ (to = "over" /\ record'[j] # "none"))
  BY <1>1, <1>4
<1>8. ASSUME NEW k, k # j PROVE k \in Begun' <=> k \in Begun
  BY <1>1, <1>3, <1>4, <1>8
<1>9. j \in Begun' => Begun' = Begun \cup {j}
  BY <1>5, <1>8
<1>10. j \notin Begun' => Begun' = Begun \ {j}
  BY <1>5, <1>8
<1> QED
  BY <1>6, <1>7, <1>9, <1>10

\* A move inside one abstract state is a stuttering step of the backlog.
LEMMA MappedStutter ==
  ASSUME TypeOK, NEW j \in Jobs, NEW from, NEW to, Go(j, from, to), down' = down,
         \A k \in Jobs \ {j} : record'[k] = record[k],
         from \in Held <=> to \in Held, from \in Running <=> to \in Running,
         from # "over", to # "over",
         from \in {"new", "refused"} <=> to \in {"new", "refused"}
  PROVE  UNCHANGED Backlog!vars
<1>1. Holding' = Holding
  BY MappedMove
<1>2. Seen' = Seen
  BY MappedMove
<1>3. Working' = Working
  BY MappedMove
<1>4. Begun' = Begun
  BY BegunMove
<1> QED
  BY <1>1, <1>2, <1>3, <1>4 DEF Backlog!vars, Seen

\* AgentJobOrchestrator implements BoundedBacklog: at most Capacity jobs in the
\* system, at most MaxWorkers running, none begun twice or after shutdown.
THEOREM BacklogRefined == Spec => RefinesBacklog
<1>1. Init => Backlog!Init
  <2> SUFFICES ASSUME Init PROVE Backlog!Init
    OBVIOUS
  <2>1. \A j \in Jobs : stage[j] = "new"
    BY DEF Init
  <2>2. Holding = {} /\ Working = {} /\ Begun = {}
    BY <2>1 DEF Holding, Working, Begun, In, LiveStages, SubmitStages, WorkerStages, StrandedStages
  <2>3. Seen = {}
    BY <2>1 DEF Seen, In
  <2> QED
    BY <2>2, <2>3 DEF Init, Backlog!Init, Seen
<1>2. /\ TypeOK /\ SlotConservation /\ QueueIsExact /\ MappingInv
      /\ [Next]_vars
      => [Backlog!Next]_(Backlog!vars)
  <2> SUFFICES ASSUME TypeOK, SlotConservation, QueueIsExact, MappingInv, [Next]_vars
               PROVE  [Backlog!Next]_(Backlog!vars)
    OBVIOUS
  <2> USE DEF Held, Running, LiveStages, SubmitStages, WorkerStages, StrandedStages
  <2>1. ASSUME NEW j \in Jobs, Submit(j) PROVE [Backlog!Next]_(Backlog!vars)
    <3>1. CASE ReserveCapacity(j)
      <4>1. /\ Holding' = Holding \cup {j} /\ Seen' = Seen \cup {j}
            /\ Working' = Working /\ Begun' = Begun /\ j \notin Seen
        <5>1. Go(j, "new", "reserved") /\ record' = record
          BY <3>1 DEF ReserveCapacity
        <5>2. Begun' = Begun
          BY <5>1, BegunMove
        <5>3. Holding' = Holding \cup {j} /\ Seen' = Seen \cup {j} /\ j \notin Seen
          BY <5>1, MappedMove
        <5>4. Working' = Working
          BY <5>1, MappedMove
        <5> QED
          BY <5>2, <5>3, <5>4
      <4>2. Cardinality(Holding) < Capacity
        BY <3>1, InFinite, JobQueueAssumption DEF ReserveCapacity, SlotConservation, TypeOK, Holding
      <4>3. Backlog!Admit(j)
        <5>1. j \notin Seen /\ Cardinality(Holding) < Capacity
          BY <4>1, <4>2
        <5>2. down' = down
          BY <3>1 DEF ReserveCapacity
        <5> QED
          BY <4>1, <5>1, <5>2, SameCardinality DEF Backlog!Admit, Seen
      <4> QED
        BY <4>3 DEF Backlog!Next
    <3>2. CASE RefuseFull(j)  BY <3>2, MappedStutter DEF RefuseFull
    <3>3. CASE GuardSubmit(j)  BY <3>3, MappedStutter DEF GuardSubmit
    <3>4. CASE SaveSubmitted(j)  BY <3>4, MappedStutter DEF SaveSubmitted, TypeOK
    <3>5. CASE EnterFlight(j)  BY <3>5, MappedStutter DEF EnterFlight
    <3>6. CASE Dispatch(j)  BY <3>6, MappedStutter DEF Dispatch
    <3> QED
      BY <2>1, <3>1, <3>2, <3>3, <3>4, <3>5, <3>6 DEF Submit
  <2>2. ASSUME NEW j \in Jobs, Work(j) PROVE [Backlog!Next]_(Backlog!vars)
    <3>1. CASE Take(j)
      <4>1. /\ Holding' = Holding /\ Seen' = Seen /\ j \in Holding /\ j \notin Begun
            /\ Working' = Working \cup {j} /\ Begun' = Begun \cup {j}
        <5>1. Go(j, "queued", "dispatching") /\ record' = record
          BY <3>1 DEF Take
        <5>2. Begun' = Begun \cup {j} /\ j \notin Begun
          BY <5>1, BegunMove
        <5>3. Holding' = Holding /\ Seen' = Seen /\ j \in Holding
          BY <5>1, MappedMove
        <5>4. Working' = Working \cup {j}
          BY <5>1, MappedMove
        <5> QED
          BY <5>2, <5>3, <5>4
      <4>2. ~down /\ down' = down /\ Cardinality(Working) < MaxWorkers
        BY <3>1 DEF Take, MappingInv
      <4>3. Backlog!Begin(j)
        BY <4>1, <4>2, SameCardinality DEF Backlog!Begin, Seen
      <4> QED
        BY <4>3 DEF Backlog!Next
    <3>2. CASE GuardDispatch(j)  BY <3>2, MappedStutter DEF GuardDispatch
    <3>3. CASE SaveStarted(j)  BY <3>3, MappedStutter DEF SaveStarted, TypeOK
    <3>4. CASE RunFails(j)  BY <3>4, MappedStutter DEF RunFails
    <3>5. CASE RunSucceeds(j)  BY <3>5, MappedStutter DEF RunSucceeds
    <3>6. CASE RecordSuccess(j)  BY <3>6, MappedStutter DEF RecordSuccess
    <3>7. CASE SaveTerminal(j)  BY <3>7, MappedStutter DEF SaveTerminal, TypeOK
    <3> QED
      BY <2>2, <3>1, <3>2, <3>3, <3>4, <3>5, <3>6, <3>7 DEF Work
  <2>3. ASSUME NEW j \in Jobs, Release(j) PROVE [Backlog!Next]_(Backlog!vars)
    <3>1. CASE PopToken(j)  BY <3>1, MappedStutter DEF PopToken
    <3>2. CASE ReleasePermit(j)
      <4>1. stage[j] = "popped" => record[j] # "none"
        BY DEF MappingInv, Unrecorded
      <4>2. stage[j] = "rejected" => record[j] = "none"
        BY DEF MappingInv, Unrecorded
      <4>3. CASE Go(j, "popped", "over")
        <5>1. /\ Holding' = Holding \ {j} /\ Seen' = Seen /\ j \in Holding /\ j \in Working
              /\ Working' = Working \ {j} /\ Begun' = Begun
          <6>1. stage[j] = "popped" /\ record' = record
            BY <3>2, <4>3 DEF ReleasePermit, Go
          <6>2. Begun' = Begun
            BY <4>1, <4>3, <6>1, BegunMove
          <6>3. Holding' = Holding \ {j} /\ Seen' = Seen /\ j \in Holding
            BY <4>3, MappedMove
          <6>4. Working' = Working \ {j} /\ j \in Working
            BY <4>3, MappedMove
          <6> QED
            BY <6>2, <6>3, <6>4
        <5>2. Backlog!Leave(j)
          BY <3>2, <5>1 DEF Backlog!Leave, ReleasePermit, Seen
        <5> QED
          BY <5>2 DEF Backlog!Next
      <4>4. CASE Go(j, "rejected", "over")
        <5>1. /\ Holding' = Holding \ {j} /\ Seen' = Seen /\ j \in Holding /\ j \notin Working
              /\ Working' = Working \ {j} /\ Begun' = Begun /\ j \notin Begun
          <6>1. stage[j] = "rejected" /\ record' = record
            BY <3>2, <4>4 DEF ReleasePermit, Go
          <6>2. Begun' = Begun /\ j \notin Begun
            BY <4>2, <4>4, <6>1, BegunMove
          <6>3. Holding' = Holding \ {j} /\ Seen' = Seen /\ j \in Holding
            BY <4>4, MappedMove
          <6>4. Working' = Working \ {j} /\ j \notin Working
            BY <4>4, MappedMove
          <6> QED
            BY <6>2, <6>3, <6>4
        <5>2. Backlog!Leave(j)
          BY <3>2, <5>1 DEF Backlog!Leave, ReleasePermit, Seen
        <5> QED
          BY <5>2 DEF Backlog!Next
      <4> QED
        BY <3>2, <4>3, <4>4 DEF ReleasePermit
    <3> QED
      BY <2>3, <3>1, <3>2 DEF Release
  <2>4. CASE Shutdown
    <3>1. \A k \in Jobs : stage'[k] = IF stage[k] = "queued" THEN "cancelled" ELSE stage[k]
      BY <2>4 DEF Shutdown
    <3>2. Holding' = Holding /\ Working' = Working
      BY <3>1 DEF Holding, Working, In
    <3>3. Seen' = Seen
      BY <3>1 DEF Seen, In
    <3>4. Begun' = Begun
      BY <2>4, <3>1, <3>2 DEF Begun, Shutdown
    <3>5. Backlog!Close
      BY <2>4, <3>2, <3>3, <3>4 DEF Backlog!Close, Shutdown, Seen
    <3> QED
      BY <3>5 DEF Backlog!Next
  <2>5. CASE FailureExpires
    BY <2>5 DEF FailureExpires, Backlog!vars, Holding, Working, Begun, In
  <2>6. CASE UNCHANGED vars
    BY <2>6 DEF vars, Backlog!vars, Holding, Working, Begun, In
  <2> QED
    BY <2>1, <2>2, <2>3, <2>4, <2>5, <2>6 DEF Next
<1> QED
  BY <1>1, <1>2, TypeInvariant, SlotsConserved, QueueExact, MappingInvariant, PTL
     DEF Spec, RefinesBacklog, Backlog!Spec
=============================================================================
