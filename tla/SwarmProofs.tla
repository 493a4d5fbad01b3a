---------------------------- MODULE SwarmProofs ----------------------------
(***************************************************************************)
(* Proofs about Swarm for any number of roles, browsers and attempts.      *)
(***************************************************************************)
EXTENDS Swarm, TLAPS

\* The labels from which a leg still updates the snapshot.
Active == {"begin", "loop", "limited", "executing", "raised"}

\* What a leg's update makes of the snapshot.
LEMMA UpdateType ==
  ASSUME NEW s \in Snapshots, NEW r \in Roles, NEW st \in LegStatus
  PROVE  /\ MarkProgress(s, r, st) \in Snapshots
         /\ MarkProgress(s, r, st).leg = [s.leg EXCEPT ![r] = st]
BY DEF MarkProgress, Snapshots, RunStatus, LegStatus

\* What a cancel makes of the snapshot.
LEMMA CancelType ==
  ASSUME NEW s \in Snapshots
  PROVE  /\ MarkCancelled(s) \in Snapshots
         /\ MarkCancelled(s).run = "cancelled"
         /\ \A r \in Roles : MarkCancelled(s).leg[r] \in Settled
         /\ \A r \in Roles : s.leg[r] \in Finished => MarkCancelled(s).leg[r] = s.leg[r]
BY DEF MarkCancelled, Snapshots, RunStatus, LegStatus, Finished, Settled

-----------------------------------------------------------------------------
(* Steps by kind *)

\* A leg's step: it updates the snapshot on its way from an active label, or
\* leaves the snapshot alone.
LegUpdates(r) == \E st \in LegStatus :
    /\ pc[r] \in Active
    /\ IF st \in Settled THEN pc'[r] \in {"end", "tryEnd"} ELSE pc'[r] \in Active
    /\ mem' = MarkProgress(mem, r, st)
    /\ copy' = [copy EXCEPT ![r] = MarkProgress(mem, r, st)]

LegKeeps(r) ==
    /\ mem' = mem /\ copy' = copy
    /\ pc[r] \in Active \cup {"waiting"}
    /\ pc'[r] \in Active

\* Every step of a leg is of one of the two kinds.
LEMMA LegStep ==
  ASSUME TypeOK, NEW r \in Roles, Leg(r)
  PROVE  /\ LegUpdates(r) \/ LegKeeps(r)
         /\ pc' = [pc EXCEPT ![r] = pc'[r]]
         /\ pc'[r] \in Labels
         /\ UNCHANGED <<unmoved, event>>
         /\ attempt' \in [Roles -> 1 .. MaxAttempts] /\ tripped' \in BOOLEAN
<1> USE DEF TypeOK, Go, Active, Labels, LegStatus, Settled, Update, Revise, LegUpdates, LegKeeps
<1>1. CASE Take(r)  BY <1>1 DEF Take
<1>2. CASE Enter(r)  BY <1>2 DEF Enter
<1>3. CASE SeeCancel(r)  BY <1>3 DEF SeeCancel
<1>4. CASE SeeBreaker(r)  BY <1>4 DEF SeeBreaker
<1>5. CASE Throttle(r)  BY <1>5 DEF Throttle, Doing
<1>6. CASE Launch(r)  BY <1>6 DEF Launch, Doing
<1>7. CASE Succeed(r)  BY <1>7 DEF Succeed
<1>8. CASE RunRaises(r)
  <2>1. pc[r] = "executing" /\ pc' = [pc EXCEPT ![r] = "raised"]
    BY <1>8 DEF RunRaises
  <2>2. LegKeeps(r)
    BY <1>8, <2>1 DEF RunRaises
  <2> QED
    BY <1>8, <2>1, <2>2 DEF RunRaises
<1>9. CASE Retry(r)
  <2>1. pc[r] \in {"executing", "raised"} /\ pc' = [pc EXCEPT ![r] = "loop"]
    BY <1>9 DEF Retry
  <2>2. LegKeeps(r)
    BY <1>9, <2>1 DEF Retry
  <2>3. attempt[r] + 1 \in 1 .. MaxAttempts
    <3>1. attempt[r] \in 1 .. MaxAttempts /\ attempt[r] < MaxAttempts
      BY <1>9 DEF Retry
    <3> QED
      BY <3>1, SwarmAssumption
  <2>4. attempt' \in [Roles -> 1 .. MaxAttempts]
    BY <1>9, <2>3 DEF Retry
  <2>5. tripped' \in BOOLEAN
    BY <1>9 DEF Retry, CountFailure
  <2> QED
    BY <1>9, <2>1, <2>2, <2>4, <2>5 DEF Retry
<1>10. CASE Fail(r)  BY <1>10 DEF Fail, CountFailure
<1>11. CASE Abort(r)  BY <1>11 DEF Abort
<1> QED
  BY <1>1, <1>2, <1>3, <1>4, <1>5, <1>6, <1>7, <1>8, <1>9, <1>10, <1>11 DEF Leg

-----------------------------------------------------------------------------
(* Type correctness *)

\* Every variable keeps its type; in particular no leg exceeds its attempts.
THEOREM SwarmTypes == Spec => []TypeOK
<1>1. Init => TypeOK
  <2> SUFFICES ASSUME Init PROVE TypeOK
    OBVIOUS
  <2>1. mem \in Snapshots
    BY DEF Init, Snapshots, RunStatus, LegStatus
  <2>2. 1 \in 1 .. MaxAttempts
    BY SwarmAssumption
  <2> QED
    BY <2>1, <2>2 DEF Init, TypeOK, Labels
<1>2. TypeOK /\ [Next]_vars => TypeOK'
  <2> SUFFICES ASSUME TypeOK, [Next]_vars PROVE TypeOK'
    OBVIOUS
  <2> USE DEF TypeOK
  <2>1. CASE Start
    <3>1. CASE OpenRun  BY <3>1 DEF OpenRun, Threads
    <3>2. CASE SetRunning
      <4>1. [mem EXCEPT !.run = "running"] \in Snapshots
        BY DEF Snapshots, RunStatus
      <4> QED
        BY <3>2, <4>1 DEF SetRunning, Revise, Threads
    <3>3. ASSUME NEW r \in Roles, Submit(r) PROVE TypeOK'
      BY <3>3 DEF Submit, Go, Labels
    <3> QED
      BY <2>1, <3>1, <3>2, <3>3 DEF Start
  <2>2. CASE Cancel  BY <2>2 DEF Cancel
  <2>3. CASE Cancelling
    <3>1. ASSUME NEW r \in Roles, SetEvent(r) PROVE TypeOK'
      BY <3>1 DEF SetEvent
    <3>2. CASE MarkRun
      BY <3>2, CancelType DEF MarkRun, Revise, Threads
    <3>3. CASE Release  BY <3>3 DEF Release, Labels
    <3> QED
      BY <2>3, <3>1, <3>2, <3>3 DEF Cancelling
  <2>4. CASE BreakerCloses  BY <2>4 DEF BreakerCloses, unmoved
  <2>5. ASSUME NEW r \in Roles, Leg(r) PROVE TypeOK'
    <3>1. mem' \in Snapshots /\ copy' \in [Threads -> Snapshots \cup {None}]
      <4>1. CASE LegUpdates(r)
        <5>1. PICK st \in LegStatus : /\ mem' = MarkProgress(mem, r, st)
                                      /\ copy' = [copy EXCEPT ![r] = MarkProgress(mem, r, st)]
          BY <4>1 DEF LegUpdates
        <5>2. MarkProgress(mem, r, st) \in Snapshots
          BY UpdateType
        <5> QED
          BY <5>1, <5>2 DEF Threads
      <4>2. CASE LegKeeps(r)  BY <4>2 DEF LegKeeps
      <4> QED
        BY <2>5, <4>1, <4>2, LegStep
    <3> QED
      BY <2>5, <3>1, LegStep DEF unmoved
  <2>6. ASSUME NEW t \in Threads, Write(t) PROVE TypeOK'
    <3>1. CASE Persist(t)  BY <3>1 DEF Persist
    <3>2. CASE PersistFails(t)  BY <3>2 DEF PersistFails, Labels
    <3> QED
      BY <2>6, <3>1, <3>2 DEF Write
  <2>7. CASE UNCHANGED vars  BY <2>7 DEF vars
  <2> QED
    BY <2>1, <2>2, <2>3, <2>4, <2>5, <2>6, <2>7 DEF Next
<1> QED
  BY <1>1, <1>2, PTL DEF Spec

-----------------------------------------------------------------------------
(* The inductive invariant *)

\* Before start has marked the run running, nothing else has happened.
BeforeStart ==
    /\ starter = "idle" => copy[Starter] = None
    /\ starter = "opened" => published
    /\ starter \in {"idle", "opened"} =>
          /\ canceller = "idle" /\ copy[Canceller] = None
          /\ mem.run = "queued"
          /\ \A r \in Roles : mem.leg[r] = "queued" /\ pc[r] = "unsubmitted" /\ copy[r] = None
    /\ disk = "sound" /\ canceller # "idle" => starter = "returned"

\* On a sound disk a leg's thread is over exactly when its outcome stands, except
\* that a cancel settles legs ahead of their threads.
LegsSettle ==
    disk = "sound" => \A r \in Roles :
        /\ mem.leg[r] \in Finished => pc[r] \in Over
        /\ mem.leg[r] = "cancelled" /\ mem.run # "cancelled" => pc[r] \in Over
        /\ pc[r] \in Over => mem.leg[r] \in Settled
        /\ canceller = "releasing" /\ pc[r] = "waiting" => mem.leg[r] \in Settled

\* Whoever can see a cancelled run can see every cancel event set.
EventsFirst ==
    \/ \A r \in Roles : event[r]
    \/ /\ mem.run # "cancelled"
       /\ canceller \notin {"marking", "releasing"}
       /\ starter \in {"idle", "opened"} \/ published

SwarmInv == BeforeStart /\ LegsSettle /\ EventsFirst /\ RunMatchesLegs

\* How a leg's update moves the run's status.
LEMMA UpdateRun ==
  ASSUME NEW s \in Snapshots, NEW r \in Roles, NEW st \in LegStatus
  PROVE  LET n == MarkProgress(s, r, st) IN
         /\ n.run = "cancelled" <=> s.run = "cancelled"
         /\ s.run # "cancelled" /\ (\A q \in Roles : n.leg[q] = "completed") => n.run = "completed"
         /\ s.run # "cancelled" /\ (\A q \in Roles : n.leg[q] \in Settled)
               /\ ~(\A q \in Roles : n.leg[q] = "completed") => n.run = "partial"
         /\ ~(\A q \in Roles : n.leg[q] \in Settled) => n.run = s.run
BY DEF MarkProgress, Snapshots, RunStatus, LegStatus, Settled

\* The invariant holds of an empty run.
LEMMA InvInit == Init => SwarmInv
<1> SUFFICES ASSUME Init PROVE SwarmInv
  OBVIOUS
<1>1. BeforeStart
  BY DEF Init, BeforeStart, Threads
<1>2. LegsSettle
  BY DEF Init, LegsSettle, Finished, Over
<1>3. EventsFirst
  BY DEF Init, EventsFirst
<1>4. RunMatchesLegs
  BY SwarmAssumption DEF Init, RunMatchesLegs, Settled
<1> QED
  BY <1>1, <1>2, <1>3, <1>4 DEF SwarmInv

\* A leg's step preserves the invariant.
LEMMA InvLeg ==
  ASSUME TypeOK, SwarmInv, NEW r \in Roles, Leg(r)
  PROVE  SwarmInv'
<1>1. /\ LegUpdates(r) \/ LegKeeps(r)
      /\ pc' = [pc EXCEPT ![r] = pc'[r]]
      /\ UNCHANGED <<unmoved, event>>
  BY LegStep
<1>2. starter' = starter /\ canceller' = canceller /\ published' = published /\ disk' = disk /\ event' = event
  BY <1>1 DEF unmoved
<1>3. pc[r] \in Active \cup {"waiting"}
  BY <1>1 DEF LegUpdates, LegKeeps
<1>4. starter \notin {"idle", "opened"}
  BY <1>3 DEF SwarmInv, BeforeStart, Active
<1>5. BeforeStart'
  BY <1>2, <1>4 DEF SwarmInv, BeforeStart
<1>6. \A q \in Roles : q # r => pc'[q] = pc[q]
  BY <1>1 DEF TypeOK
<1>7. CASE LegKeeps(r)
  <2>1. mem' = mem /\ pc'[r] \in Active
    BY <1>7 DEF LegKeeps
  <2>2. LegsSettle'
    BY <1>2, <1>3, <1>6, <2>1 DEF SwarmInv, LegsSettle, Active, Over
  <2>3. EventsFirst'
    BY <1>2, <2>1 DEF SwarmInv, EventsFirst
  <2>4. RunMatchesLegs'
    BY <1>2, <2>1 DEF SwarmInv, RunMatchesLegs
  <2> QED
    BY <1>5, <2>2, <2>3, <2>4 DEF SwarmInv
<1>8. CASE LegUpdates(r)
  <2>1. PICK st \in LegStatus :
          /\ pc[r] \in Active
          /\ IF st \in Settled THEN pc'[r] \in {"end", "tryEnd"} ELSE pc'[r] \in Active
          /\ mem' = MarkProgress(mem, r, st)
    BY <1>8 DEF LegUpdates
  <2>2. mem \in Snapshots
    BY DEF TypeOK
  <2>3. /\ mem' \in Snapshots
        /\ mem'.leg[r] = st
        /\ \A q \in Roles : q # r => mem'.leg[q] = mem.leg[q]
    <3>1. mem.leg \in [Roles -> LegStatus]
      BY <2>2 DEF Snapshots
    <3>2. mem' \in Snapshots /\ mem'.leg = [mem.leg EXCEPT ![r] = st]
      BY <2>1, <2>2, UpdateType
    <3> QED
      BY <3>1, <3>2
  <2>4. /\ mem'.run = "cancelled" <=> mem.run = "cancelled"
        /\ mem.run # "cancelled" /\ (\A q \in Roles : mem'.leg[q] = "completed") => mem'.run = "completed"
        /\ mem.run # "cancelled" /\ (\A q \in Roles : mem'.leg[q] \in Settled)
              /\ ~(\A q \in Roles : mem'.leg[q] = "completed") => mem'.run = "partial"
        /\ ~(\A q \in Roles : mem'.leg[q] \in Settled) => mem'.run = mem.run
    BY <2>1, <2>2, UpdateRun
  <2>5. LegsSettle'
    <3> SUFFICES ASSUME disk = "sound", NEW q \in Roles
                 PROVE  /\ mem'.leg[q] \in Finished => pc'[q] \in Over
                        /\ mem'.leg[q] = "cancelled" /\ mem'.run # "cancelled" => pc'[q] \in Over
                        /\ pc'[q] \in Over => mem'.leg[q] \in Settled
                        /\ canceller = "releasing" /\ pc'[q] = "waiting" => mem'.leg[q] \in Settled
      BY <1>2 DEF LegsSettle
    <3>1. CASE q = r
      BY <2>1, <2>3, <3>1 DEF Active, Over, Settled, Finished
    <3>2. CASE q # r
      BY <1>6, <2>3, <2>4, <3>2 DEF SwarmInv, LegsSettle
    <3> QED
      BY <3>1, <3>2
  <2>6. EventsFirst'
    BY <1>2, <2>4 DEF SwarmInv, EventsFirst
  <2>7. RunMatchesLegs'
    <3> SUFFICES ASSUME disk = "sound" PROVE RunMatchesLegs'
      BY <1>2 DEF RunMatchesLegs
    <3>1. ~(\A q \in Roles : mem.leg[q] = "completed")
      BY <2>1 DEF SwarmInv, LegsSettle, Active, Over, Finished
    <3>2. mem.run \notin {"completed", "partial"}
      BY <2>1, <3>1 DEF SwarmInv, LegsSettle, RunMatchesLegs, Active, Over, Settled, Finished
    <3>3. (\A q \in Roles : mem'.leg[q] = "completed") => \A q \in Roles : mem'.leg[q] \in Settled
      BY DEF Settled
    <3>4. mem'.run = "completed" => \A q \in Roles : mem'.leg[q] = "completed"
      BY <2>4, <3>2, <3>3
    <3>5. mem'.run = "partial" => /\ \A q \in Roles : mem'.leg[q] \in Settled
                                  /\ ~(\A q \in Roles : mem'.leg[q] = "completed")
      BY <2>4, <3>2, <3>3
    <3>6. mem'.run \in {"queued", "running"} => ~(\A q \in Roles : mem'.leg[q] \in Settled)
      BY <2>4, <3>2, <3>3
    <3> QED
      BY <3>4, <3>5, <3>6 DEF RunMatchesLegs
  <2> QED
    BY <1>5, <2>5, <2>6, <2>7 DEF SwarmInv
<1> QED
  BY <1>1, <1>7, <1>8

\* Every other step preserves it, so every step does.
LEMMA InvNext ==
  ASSUME TypeOK, SwarmInv, [Next]_vars
  PROVE  SwarmInv'
<1> USE DEF SwarmInv
<1>1. CASE Start
  <2>1. CASE OpenRun
    <3>1. BeforeStart'
      <4>1. /\ copy' = [copy EXCEPT ![Starter] = mem] /\ published' = TRUE
            /\ starter = "idle" /\ starter' = "opened"
            /\ UNCHANGED <<canceller, pc, mem, disk>>
        BY <2>1 DEF OpenRun
      <4>2. Starter # Canceller /\ \A r \in Roles : r # Starter
        BY SwarmAssumption DEF Starter, Canceller
      <4>3. copy'[Canceller] = copy[Canceller] /\ \A r \in Roles : copy'[r] = copy[r]
        BY <4>1, <4>2 DEF TypeOK, Threads
      <4> QED
        BY <4>1, <4>3 DEF BeforeStart
    <3>2. LegsSettle' /\ EventsFirst' /\ RunMatchesLegs'
      BY <2>1 DEF OpenRun, LegsSettle, EventsFirst, RunMatchesLegs
    <3> QED
      BY <3>1, <3>2
  <2>2. CASE SetRunning
    <3>1. /\ mem' = [mem EXCEPT !.run = "running"] /\ starter = "opened" /\ starter' = "running"
          /\ UNCHANGED <<canceller, pc, event, published, disk>>
      BY <2>2 DEF SetRunning, Revise
    <3>2. mem'.run = "running" /\ mem'.leg = mem.leg
      BY <3>1 DEF TypeOK, Snapshots
    <3>3. canceller = "idle" /\ published /\ \A r \in Roles : mem.leg[r] = "queued" /\ pc[r] = "unsubmitted"
      BY <3>1 DEF BeforeStart
    <3>4. BeforeStart'
      BY <3>1, <3>3 DEF BeforeStart
    <3>5. LegsSettle'
      BY <3>1, <3>2, <3>3 DEF LegsSettle, Over, Finished
    <3>6. EventsFirst'
      BY <3>1, <3>2, <3>3 DEF EventsFirst
    <3>7. RunMatchesLegs'
      BY <3>2, <3>3, SwarmAssumption DEF RunMatchesLegs, Settled
    <3> QED
      BY <3>4, <3>5, <3>6, <3>7
  <2>3. ASSUME NEW r \in Roles, Submit(r) PROVE SwarmInv'
    <3>1. /\ pc' = [pc EXCEPT ![r] = "waiting"] /\ pc[r] = "unsubmitted"
          /\ starter = "running" /\ starter' \in {"returned", "running"}
          /\ UNCHANGED <<canceller, event, published, mem, disk>>
      BY <2>3 DEF Submit, Go
    <3>2. \A q \in Roles : pc'[q] = IF q = r THEN "waiting" ELSE pc[q]
      BY <3>1 DEF TypeOK
    <3>3. BeforeStart'
      BY <3>1 DEF BeforeStart
    <3>4. LegsSettle'
      BY <3>1, <3>2 DEF LegsSettle, BeforeStart, Over
    <3>5. EventsFirst' /\ RunMatchesLegs'
      BY <3>1 DEF EventsFirst, RunMatchesLegs
    <3> QED
      BY <3>3, <3>4, <3>5
  <2> QED
    BY <1>1, <2>1, <2>2, <2>3 DEF Start
<1>2. CASE Cancel
  <2>1. BeforeStart'
    BY <1>2 DEF Cancel, BeforeStart
  <2>2. LegsSettle' /\ EventsFirst' /\ RunMatchesLegs'
    BY <1>2 DEF Cancel, LegsSettle, EventsFirst, RunMatchesLegs
  <2> QED
    BY <2>1, <2>2
<1>3. CASE Cancelling
  <2>1. ASSUME NEW r \in Roles, SetEvent(r) PROVE SwarmInv'
    <3>1. \A q \in Roles : event[q] => event'[q]
      BY <2>1 DEF SetEvent, TypeOK
    <3>2. BeforeStart' /\ LegsSettle' /\ RunMatchesLegs'
      BY <2>1 DEF SetEvent, BeforeStart, LegsSettle, RunMatchesLegs
    <3>3. EventsFirst'
      BY <2>1, <3>1 DEF SetEvent, EventsFirst
    <3> QED
      BY <3>2, <3>3
  <2>2. CASE MarkRun
    <3>1. /\ mem' = MarkCancelled(mem) /\ canceller \in {"marking", "setting"} /\ canceller' = "releasing"
          /\ UNCHANGED <<starter, pc, event, published, disk>>
      BY <2>2 DEF MarkRun, Revise
    <3>2. mem \in Snapshots
      BY DEF TypeOK
    <3>3. /\ mem'.run = "cancelled"
          /\ \A r \in Roles : mem'.leg[r] \in Settled
          /\ \A r \in Roles : mem.leg[r] \in Finished => mem'.leg[r] = mem.leg[r]
      BY <3>1, <3>2, CancelType
    <3>4. \A r \in Roles : event[r]
      BY <2>2 DEF MarkRun, EventsFirst
    <3>5. BeforeStart'
      BY <3>1 DEF BeforeStart
    <3>6. LegsSettle'
      <4> SUFFICES ASSUME disk = "sound", NEW r \in Roles
                   PROVE  mem'.leg[r] \in Finished => pc[r] \in Over
        BY <3>1, <3>3 DEF LegsSettle
      <4> QED
        BY <3>1, <3>2 DEF MarkCancelled, LegsSettle, Finished
    <3>7. EventsFirst' /\ RunMatchesLegs'
      BY <3>1, <3>3, <3>4 DEF EventsFirst, RunMatchesLegs
    <3> QED
      BY <3>5, <3>6, <3>7
  <2>3. CASE Release
    <3>1. /\ pc' = [r \in Roles |-> IF published /\ pc[r] = "waiting" THEN "dropped" ELSE pc[r]]
          /\ canceller = "releasing" /\ canceller' = "idle"
          /\ UNCHANGED <<starter, event, mem, disk>>
      BY <2>3 DEF Release
    <3>2. starter \notin {"idle", "opened"}
      BY <3>1 DEF BeforeStart
    <3>3. BeforeStart'
      BY <3>1, <3>2 DEF BeforeStart
    <3>4. LegsSettle'
      BY <3>1 DEF LegsSettle, Over
    <3>5. EventsFirst' /\ RunMatchesLegs'
      BY <3>1 DEF EventsFirst, RunMatchesLegs
    <3> QED
      BY <3>3, <3>4, <3>5
  <2> QED
    BY <1>3, <2>1, <2>2, <2>3 DEF Cancelling
<1>4. CASE BreakerCloses
  BY <1>4 DEF BreakerCloses, unmoved, BeforeStart, LegsSettle, EventsFirst, RunMatchesLegs
<1>5. ASSUME NEW r \in Roles, Leg(r) PROVE SwarmInv'
  BY <1>5, InvLeg
<1>6. ASSUME NEW t \in Threads, Persist(t) PROVE SwarmInv'
  <2>1. BeforeStart'
    BY <1>6 DEF Persist, BeforeStart, TypeOK, Threads
  <2>2. LegsSettle' /\ EventsFirst' /\ RunMatchesLegs'
    BY <1>6 DEF Persist, LegsSettle, EventsFirst, RunMatchesLegs
  <2> QED
    BY <2>1, <2>2
<1>7. ASSUME NEW t \in Threads, PersistFails(t) PROVE SwarmInv'
  <2>1. /\ disk = "faulty" /\ copy[t] # None
        /\ starter' = IF t = Starter THEN "raised" ELSE starter
        /\ canceller' = IF t = Canceller THEN "raised" ELSE canceller
        /\ \A r \in Roles : t # r => pc'[r] = pc[r]
        /\ \A q \in Threads : q # t => copy'[q] = copy[q]
        /\ UNCHANGED <<event, published, mem, disk>>
    BY <1>7 DEF PersistFails, TypeOK
  <2>2. BeforeStart'
    <3>1. ASSUME starter' \in {"idle", "opened"} PROVE FALSE
      <4>1. starter' = starter /\ t # Starter
        BY <2>1, <3>1
      <4>2. copy[Canceller] = None /\ \A r \in Roles : copy[r] = None
        BY <3>1, <4>1 DEF BeforeStart
      <4> QED
        BY <2>1, <4>1, <4>2 DEF Threads
    <3> QED
      BY <2>1, <3>1 DEF BeforeStart
  <2>3. EventsFirst'
    <3>1. starter' \notin {"idle", "opened"} => starter \notin {"idle", "opened"} \/ published
      BY <2>1 DEF BeforeStart
    <3> QED
      BY <2>1, <3>1 DEF EventsFirst
  <2>4. LegsSettle' /\ RunMatchesLegs'
    BY <2>1 DEF LegsSettle, RunMatchesLegs
  <2> QED
    BY <2>2, <2>3, <2>4
<1>8. CASE UNCHANGED vars
  BY <1>8 DEF vars, BeforeStart, LegsSettle, EventsFirst, RunMatchesLegs
<1> QED
  BY <1>1, <1>2, <1>3, <1>4, <1>5, <1>6, <1>7, <1>8 DEF Next, Write

-----------------------------------------------------------------------------
(* The properties *)

\* The invariant holds in every reachable state.
THEOREM SwarmInvariant == Spec => []SwarmInv
<1>1. TypeOK /\ TypeOK' /\ SwarmInv /\ [Next]_vars => SwarmInv'
  BY InvNext
<1> QED
  BY <1>1, InvInit, SwarmTypes, PTL DEF Spec

\* The run's status agrees with its legs', however mark_agent_progress of the
\* legs, set_run_state and mark_cancelled interleave.
THEOREM RunAgreesWithLegs == Spec => []RunMatchesLegs
<1>1. SwarmInv => RunMatchesLegs
  BY DEF SwarmInv
<1> QED
  BY <1>1, SwarmInvariant, PTL

\* No leg is left unsettled once nothing runs.
THEOREM RestSettled == Spec => []RestIsSettled
<1>1. SwarmInv => RestIsSettled
  BY DEF SwarmInv, LegsSettle, RestIsSettled
<1> QED
  BY <1>1, SwarmInvariant, PTL

\* A cancelled run stays cancelled, whatever its legs still report.
THEOREM CancelIsFinal == Spec => CancelledStays
<1>1. TypeOK /\ SwarmInv /\ [Next]_vars => (mem.run = "cancelled" => mem'.run = "cancelled")
  <2> SUFFICES ASSUME TypeOK, SwarmInv, [Next]_vars, mem.run = "cancelled"
               PROVE  mem'.run = "cancelled"
    OBVIOUS
  <2> USE DEF TypeOK
  <2>1. CASE Start
    BY <2>1 DEF Start, OpenRun, SetRunning, Submit, SwarmInv, BeforeStart
  <2>2. CASE Cancel  BY <2>2 DEF Cancel
  <2>3. CASE Cancelling
    BY <2>3, CancelType DEF Cancelling, SetEvent, MarkRun, Release, Revise
  <2>4. CASE BreakerCloses  BY <2>4 DEF BreakerCloses
  <2>5. ASSUME NEW r \in Roles, Leg(r) PROVE mem'.run = "cancelled"
    <3>1. CASE LegUpdates(r)  BY <3>1, UpdateRun DEF LegUpdates
    <3>2. CASE LegKeeps(r)  BY <3>2 DEF LegKeeps
    <3> QED
      BY <2>5, <3>1, <3>2, LegStep
  <2>6. ASSUME NEW t \in Threads, Write(t) PROVE mem'.run = "cancelled"
    BY <2>6 DEF Write, Persist, PersistFails
  <2>7. CASE UNCHANGED vars  BY <2>7 DEF vars
  <2> QED
    BY <2>1, <2>2, <2>3, <2>4, <2>5, <2>6, <2>7 DEF Next
<1>2. TypeOK /\ SwarmInv /\ [Next]_vars => [mem.run = "cancelled" => mem'.run = "cancelled"]_vars
  BY <1>1
<1> QED
  BY <1>2, SwarmTypes, SwarmInvariant, PTL DEF Spec, CancelledStays

\* A finished leg's outcome outlives every later step.
THEOREM FinishedLegKeeps == Spec => OutcomeKept
<1> DEFINE kept == disk = "sound" => \A r \in Roles : mem.leg[r] \in Finished => mem'.leg[r] = mem.leg[r]
<1>1. TypeOK /\ SwarmInv /\ [Next]_vars => kept
  <2> SUFFICES ASSUME TypeOK, SwarmInv, [Next]_vars, disk = "sound",
                      NEW q \in Roles, mem.leg[q] \in Finished
               PROVE  mem'.leg[q] = mem.leg[q]
    OBVIOUS
  <2>0. mem \in Snapshots
    BY DEF TypeOK
  <2>1. CASE Start
    BY <2>0, <2>1 DEF Start, OpenRun, SetRunning, Submit, Revise, Snapshots
  <2>2. CASE Cancel  BY <2>2 DEF Cancel
  <2>3. CASE Cancelling
    BY <2>0, <2>3, CancelType DEF Cancelling, SetEvent, MarkRun, Release, Revise
  <2>4. CASE BreakerCloses  BY <2>4 DEF BreakerCloses
  <2>5. ASSUME NEW r \in Roles, Leg(r) PROVE mem'.leg[q] = mem.leg[q]
    <3>1. CASE LegUpdates(r)
      <4>1. PICK st \in LegStatus : mem' = MarkProgress(mem, r, st)
        BY <3>1 DEF LegUpdates
      <4>2. mem'.leg = [mem.leg EXCEPT ![r] = st]
        BY <2>0, <4>1, UpdateType
      <4>3. pc[r] \notin Over
        BY <3>1 DEF LegUpdates, Active, Over
      <4>4. r # q
        BY <4>3 DEF SwarmInv, LegsSettle
      <4> QED
        BY <2>0, <4>2, <4>4 DEF Snapshots
    <3>2. CASE LegKeeps(r)  BY <3>2 DEF LegKeeps
    <3> QED
      BY <2>5, <3>1, <3>2, LegStep
  <2>6. ASSUME NEW t \in Threads, Write(t) PROVE mem'.leg[q] = mem.leg[q]
    BY <2>6 DEF Write, Persist, PersistFails
  <2>7. CASE UNCHANGED vars  BY <2>7 DEF vars
  <2> QED
    BY <2>1, <2>2, <2>3, <2>4, <2>5, <2>6, <2>7 DEF Next
<1>2. TypeOK /\ SwarmInv /\ [Next]_vars => [kept]_vars
  BY <1>1
<1> QED
  BY <1>2, SwarmTypes, SwarmInvariant, PTL DEF Spec, OutcomeKept

\* Once the run is cancelled no leg enters a browser: the cancel verb sets every
\* event before it marks the snapshot, and Launch looks at the event.
THEOREM CancelStopsLaunches == Spec => NoLaunchOnceCancelled
<1> DEFINE quiet == mem.run = "cancelled" => \A r \in Roles : pc[r] # "executing" => pc'[r] # "executing"
<1>1. TypeOK /\ SwarmInv /\ [Next]_vars => quiet
  <2> SUFFICES ASSUME TypeOK, SwarmInv, [Next]_vars, mem.run = "cancelled",
                      NEW q \in Roles, pc[q] # "executing"
               PROVE  pc'[q] # "executing"
    OBVIOUS
  <2>0. \A r \in Roles : event[r]
    BY DEF SwarmInv, EventsFirst
  <2> USE DEF TypeOK
  <2>1. CASE Start
    BY <2>1 DEF Start, OpenRun, SetRunning, Submit, Go
  <2>2. CASE Cancel  BY <2>2 DEF Cancel
  <2>3. CASE Cancelling
    BY <2>3 DEF Cancelling, SetEvent, MarkRun, Release
  <2>4. CASE BreakerCloses  BY <2>4 DEF BreakerCloses
  <2>5. ASSUME NEW r \in Roles, Leg(r) PROVE pc'[q] # "executing"
    BY <2>0, <2>5 DEF Leg, Go, Take, Enter, SeeCancel, SeeBreaker, Throttle, Launch,
       Succeed, RunRaises, Retry, Fail, Abort
  <2>6. ASSUME NEW t \in Threads, Write(t) PROVE pc'[q] # "executing"
    BY <2>6 DEF Write, Persist, PersistFails
  <2>7. CASE UNCHANGED vars  BY <2>7 DEF vars
  <2> QED
    BY <2>1, <2>2, <2>3, <2>4, <2>5, <2>6, <2>7 DEF Next
<1>2. TypeOK /\ SwarmInv /\ [Next]_vars => [quiet]_vars
  BY <1>1
<1> QED
  BY <1>2, SwarmTypes, SwarmInvariant, PTL DEF Spec, NoLaunchOnceCancelled
=============================================================================
