-------------------------- MODULE JobRecordsProofs --------------------------
(***************************************************************************)
(* Proofs about JobRecords for any jobs, processes, pids and lease.        *)
(***************************************************************************)
EXTENDS JobRecords, TLAPS

\* What a record may be.
Records == [st : {"none", "pending", "started"} \cup Terminal,
            age : 0 .. Lease + 1, pid : Pids \cup {NoPid}]

\* The types, without what they say about unowned records.
Types ==
    /\ proc \in [Procs -> {"off", "up", "dead"}]
    /\ pid \in [Procs -> Pids \cup {NoPid}]
    /\ sweep \in [Procs -> [st : {"idle", "busy", "done"}, left : SUBSET Jobs,
                            judged : SUBSET Jobs, lost : SUBSET Jobs]]
    /\ rec \in [Jobs -> Records]
    /\ owner \in [Jobs -> Procs \cup {NoProc}]
    /\ work \in [Jobs -> {"none", "queued", "running", "joining", "saving", "settled", "lost"}]
    /\ beat \in [Jobs -> {"off", "idle", "read", "dead"}]
    /\ timer \in [Jobs -> 0 .. Lease + host.wait + 1]
    /\ host \in Hosts

Pending(j) == work[j] \in {"queued", "running", "joining", "saving"}

\* A process has a pid once it runs; while pids are not recycled it is its own.
PidsKept ==
    /\ \A p \in Procs : proc[p] = "off" <=> pid[p] = NoPid
    /\ ~host.pidReuse => \A p, q \in Procs : pid[p] = pid[q] /\ pid[p] # NoPid => p = q

\* A record names its owner's pid; an unsettled job is lost exactly when its
\* owner has died; only the owner's living threads beat.
Owned == \A j \in Jobs :
    /\ work[j] = "none" => rec[j].st = "none" /\ rec[j].pid = NoPid /\ owner[j] = NoProc
    /\ work[j] # "none" =>
         /\ owner[j] \in Procs /\ proc[owner[j]] # "off"
         /\ rec[j].st # "none" /\ rec[j].pid = pid[owner[j]]
    /\ Pending(j) => proc[owner[j]] = "up"
    /\ work[j] = "lost" => proc[owner[j]] = "dead"
    /\ work[j] \in {"none", "queued", "lost"} => beat[j] = "off"

\* The sweep judges submitted jobs only.
Swept == \A p \in Procs : \A j \in sweep[p].judged : work[j] # "none"

RecordsInv == Types /\ PidsKept /\ Owned /\ Swept

\* The invariant holds before any job is submitted.
LEMMA RecordsInit == Init => RecordsInv
BY JobRecordsAssumption
   DEF Init, RecordsInv, Types, Records, PidsKept, Owned, Pending, Swept, Idle, Terminal, NoProc, NoPid

\* A write keeps records well formed and changes no other record.
LEMMA WriteType ==
  ASSUME Types, NEW j \in Jobs, NEW st \in {"none", "pending", "started"} \cup Terminal,
         NEW n \in Pids \cup {NoPid}, Write(j, st, n)
  PROVE  /\ rec' \in [Jobs -> Records]
         /\ rec'[j] = [st |-> st, age |-> 0, pid |-> n]
         /\ \A i \in Jobs : i # j => rec'[i] = rec[i]
BY JobRecordsAssumption DEF Types, Write, Records, Terminal

\* A tick changes nothing of a record but its age.
LEMMA TickType ==
  ASSUME Types, Tick
  PROVE  /\ rec' \in [Jobs -> Records]
         /\ timer' \in [Jobs -> 0 .. Lease + host.wait + 1]
         /\ \A j \in Jobs : rec'[j].st = rec[j].st /\ rec'[j].pid = rec[j].pid
<1> USE JobRecordsAssumption DEF Types
<1>1. ASSUME NEW j \in Jobs PROVE Least(rec[j].age + 1, Lease + 1) \in 0 .. Lease + 1
  BY DEF Least, Records
<1>2. ASSUME NEW j \in Jobs
      PROVE  Least(timer[j] + 1, Lease + host.wait + 1) \in 0 .. Lease + host.wait + 1
  BY DEF Least
<1>3. rec' = [j \in Jobs |-> IF Exists(j)
                             THEN [rec[j] EXCEPT !.age = Least(rec[j].age + 1, Lease + 1)]
                             ELSE rec[j]]
  BY DEF Tick
<1>4. \A j \in Jobs : rec'[j] \in Records /\ rec'[j].st = rec[j].st /\ rec'[j].pid = rec[j].pid
  <2> SUFFICES ASSUME NEW j \in Jobs
               PROVE  rec'[j] \in Records /\ rec'[j].st = rec[j].st /\ rec'[j].pid = rec[j].pid
    OBVIOUS
  <2> DEFINE age == Least(rec[j].age + 1, Lease + 1)
  <2>1. rec[j] \in Records /\ age \in 0 .. Lease + 1
    BY <1>1
  <2>2. rec'[j] = IF Exists(j) THEN [rec[j] EXCEPT !.age = age] ELSE rec[j]
    BY <1>3
  <2> HIDE DEF age, Types
  <2> QED
    BY <2>1, <2>2 DEF Records
<1>5. timer' \in [Jobs -> 0 .. Lease + host.wait + 1]
  BY <1>2 DEF Tick
<1> QED
  BY <1>3, <1>4, <1>5

\* What each step writes, as a function of the record it found.
LEMMA Written ==
  ASSUME Types, NEW j \in Jobs, NEW st \in {"none", "pending", "started"} \cup Terminal,
         Write(j, st, rec[j].pid)
  PROVE  /\ rec' \in [Jobs -> Records]
         /\ rec'[j] = [st |-> st, age |-> 0, pid |-> rec[j].pid]
         /\ \A i \in Jobs : i # j => rec'[i] = rec[i]
<1>1. rec[j].pid \in Pids \cup {NoPid}
  BY DEF Types, Records
<1> QED
  BY <1>1, WriteType

\* The sweep's steps by what they do to sweep[p] and to the records.
SweepMoves(p) ==
    /\ UNCHANGED <<proc, pid, owner, work, beat, timer, host>>
    /\ sweep' = [sweep EXCEPT ![p] = sweep'[p]]
    /\ sweep'[p] \in [st : {"idle", "busy", "done"}, left : SUBSET Jobs,
                       judged : SUBSET Jobs, lost : SUBSET Jobs]

\* A sweep writes nothing but the verdict on a job it judged a zombie.
LEMMA SweepStep ==
  ASSUME Types, NEW p \in Procs, Sweep(p)
  PROVE  /\ SweepMoves(p)
         /\ \/ rec' = rec /\ \A j \in sweep'[p].judged : j \in sweep[p].judged \/ IsZombie(j)
            \/ \E j \in sweep[p].judged :
                   rec' = [rec EXCEPT ![j].st = "zombie"] /\ sweep'[p].judged = {}
<1> DEFINE States == [st : {"idle", "busy", "done"}, left : SUBSET Jobs,
                      judged : SUBSET Jobs, lost : SUBSET Jobs]
<1>0. sweep \in [Procs -> States] /\ sweep[p] \in States /\ Idle \in States
  BY DEF Types, Idle
<1>1. CASE StartSweep(p)
  BY <1>1 DEF Types, SweepMoves, StartSweep
<1>2. CASE EndSweep(p)
  <2> DEFINE next == [sweep[p] EXCEPT !.st = "done"]
  <2>1. /\ sweep' = [sweep EXCEPT ![p] = next] /\ sweep[p].judged = {}
        /\ UNCHANGED <<proc, pid, rec, owner, work, beat, timer, host>>
    BY <1>2 DEF EndSweep
  <2>2. next \in States /\ next.judged = sweep[p].judged
    BY <1>0
  <2> HIDE DEF next
  <2>3. sweep'[p] = next /\ sweep' = [sweep EXCEPT ![p] = sweep'[p]]
    BY <1>0, <2>1
  <2> QED
    BY <2>1, <2>2, <2>3 DEF SweepMoves
<1>3. CASE SweepFails(p)
  <2>1. sweep' = [sweep EXCEPT ![p] = Idle]
    BY <1>3 DEF SweepFails
  <2>2. sweep'[p] = Idle /\ sweep' = [sweep EXCEPT ![p] = sweep'[p]]
    BY <1>0, <2>1
  <2>3. UNCHANGED <<proc, pid, rec, owner, work, beat, timer, host>>
    BY <1>3 DEF SweepFails
  <2>4. SweepMoves(p) /\ Idle.judged = {}
    BY <1>0, <2>2, <2>3 DEF SweepMoves, Idle
  <2> QED
    BY <2>2, <2>3, <2>4
<1>4. ASSUME NEW j \in Jobs, Judge(p, j)
      PROVE  SweepMoves(p) /\ rec' = rec /\ \A i \in sweep'[p].judged : IsZombie(i)
  <2> DEFINE verdict == IF IsZombie(j) THEN {j} ELSE {}
             next == [sweep[p] EXCEPT !.left = @ \ {j}, !.judged = verdict]
  <2>1. verdict \subseteq Jobs /\ \A i \in verdict : IsZombie(i)
    OBVIOUS
  <2>2. sweep' = [sweep EXCEPT ![p] = next]
    BY <1>4 DEF Judge
  <2>3. UNCHANGED <<proc, pid, rec, owner, work, beat, timer, host>>
    BY <1>4 DEF Judge
  <2> HIDE DEF verdict
  <2>4. next \in States /\ next.judged = verdict
    BY <1>0, <2>1
  <2> HIDE DEF next
  <2>5. sweep'[p] = next /\ sweep' = [sweep EXCEPT ![p] = sweep'[p]]
    BY <1>0, <2>2
  <2> QED
    BY <2>1, <2>3, <2>4, <2>5 DEF SweepMoves
<1>5. ASSUME NEW j \in Jobs, MarkZombie(p, j)
      PROVE  SweepMoves(p) /\ rec' = [rec EXCEPT ![j].st = "zombie"]
             /\ j \in sweep[p].judged /\ sweep'[p].judged = {}
  BY <1>5 DEF Types, SweepMoves, MarkZombie
<1> QED
  BY <1>1, <1>2, <1>3, <1>4, <1>5 DEF Sweep

\* That verdict changes the status of one record, and nothing else of it.
LEMMA ZombieType ==
  ASSUME Types, NEW j \in Jobs
  PROVE  /\ [rec EXCEPT ![j].st = "zombie"] \in [Jobs -> Records]
         /\ [rec EXCEPT ![j].st = "zombie"][j].st = "zombie"
         /\ [rec EXCEPT ![j].st = "zombie"][j].pid = rec[j].pid
         /\ \A i \in Jobs : i # j => [rec EXCEPT ![j].st = "zombie"][i] = rec[i]
BY DEF Types, Records, Terminal

\* The worker's and the heartbeat's steps: they are the owner's, they leave the
\* other jobs alone, and the record keeps its pid.
JobMoves(j) ==
    /\ UNCHANGED <<proc, pid, sweep, owner, host>>
    /\ rec' \in [Jobs -> Records] /\ rec'[j].pid = rec[j].pid
    /\ \A i \in Jobs : i # j => rec'[i] = rec[i]
    /\ work' = [work EXCEPT ![j] = work'[j]]
    /\ beat' = [beat EXCEPT ![j] = beat'[j]]
    /\ timer' = [timer EXCEPT ![j] = timer'[j]] /\ timer'[j] \in {0, timer[j]}

\* A job's worker moves on only while the job is pending, and its writes name no
\* status but those of a run.
LEMMA WorkerStep ==
  ASSUME Types, NEW j \in Jobs, Worker(j)
  PROVE  /\ JobMoves(j) /\ Pending(j)
         /\ work'[j] \in {"running", "joining", "saving", "settled"}
         /\ beat'[j] \in {"off", "idle", "read", "dead"}
         /\ rec'[j].st = rec[j].st \/ rec'[j].st \in {"started", "done", "failed"}
<1> USE DEF JobMoves, Pending
<1>t. Types
  OBVIOUS
<1>1. CASE Begin(j)
  <2>1. Write(j, "started", rec[j].pid)
    BY <1>1 DEF Begin
  <2>2. /\ rec' \in [Jobs -> Records]
        /\ rec'[j] = [st |-> "started", age |-> 0, pid |-> rec[j].pid]
        /\ \A i \in Jobs : i # j => rec'[i] = rec[i]
    BY <2>1, Written
  <2>3. /\ UNCHANGED <<proc, pid, sweep, owner, host>>
        /\ work[j] = "queued" /\ work' = [work EXCEPT ![j] = "running"]
        /\ beat' = [beat EXCEPT ![j] = "idle"] /\ timer' = [timer EXCEPT ![j] = 0]
    BY <1>1 DEF Begin
  <2> QED
    BY <2>2, <2>3 DEF Types
<1>2. CASE RunEnds(j)  BY <1>2 DEF RunEnds, Types
<1>3. CASE Join(j)  BY <1>3 DEF Join, Types
<1>4. CASE SaveTerminal(j)
  <2>1. PICK st \in {"done", "failed"} : Write(j, st, rec[j].pid)
    BY <1>4 DEF SaveTerminal
  <2>2. st \in {"none", "pending", "started"} \cup Terminal
    BY DEF Terminal
  <2>3. /\ rec' \in [Jobs -> Records]
        /\ rec'[j] = [st |-> st, age |-> 0, pid |-> rec[j].pid]
        /\ \A i \in Jobs : i # j => rec'[i] = rec[i]
    BY <2>1, <2>2, Written
  <2>4. /\ UNCHANGED <<proc, pid, sweep, owner, beat, timer, host>>
        /\ work[j] = "saving" /\ work' = [work EXCEPT ![j] = "settled"]
    BY <1>4 DEF SaveTerminal
  <2> QED
    BY <2>3, <2>4 DEF Types
<1> QED
  BY <1>1, <1>2, <1>3, <1>4 DEF Worker

\* A heartbeat restamps a running job; a late one still writes what it read.
LEMMA HeartbeatStep ==
  ASSUME Types, NEW j \in Jobs, Heartbeat(j)
  PROVE  /\ JobMoves(j) /\ work'[j] = work[j]
         /\ \/ work[j] = "running" /\ beat'[j] \in {"idle", "read"} /\ rec' = rec
            \/ beat[j] = "read" /\ beat'[j] \in {"off", "idle", "dead"}
         /\ rec'[j].st = rec[j].st \/ rec'[j].st = "started"
<1> USE DEF JobMoves
<1>1. CASE BeatRead(j)  BY <1>1 DEF BeatRead, Types
<1>2. CASE BeatWrite(j)
  <2>1. Write(j, "started", rec[j].pid)
    BY <1>2 DEF BeatWrite
  <2>2. /\ rec' \in [Jobs -> Records]
        /\ rec'[j] = [st |-> "started", age |-> 0, pid |-> rec[j].pid]
        /\ \A i \in Jobs : i # j => rec'[i] = rec[i]
    BY <2>1, Written
  <2>3. /\ UNCHANGED <<proc, pid, sweep, owner, work, timer, host>> /\ beat[j] = "read"
        /\ beat' = [beat EXCEPT ![j] = beat'[j]] /\ beat'[j] \in {"off", "idle"}
    BY <1>2 DEF BeatWrite, Types
  <2> QED
    BY <2>2, <2>3 DEF Types
<1>3. CASE BeatDies(j)  BY <1>3 DEF BeatDies, Types
<1> QED
  BY <1>1, <1>2, <1>3 DEF Heartbeat

\* The types hold, whatever a step does.
LEMMA TypesStep ==
  ASSUME Types, [Next]_vars PROVE Types'
<1> USE JobRecordsAssumption
<1>1. CASE Tick
  BY <1>1, TickType DEF Tick, Types
<1>2. ASSUME NEW p \in Procs, Start(p) PROVE Types'
  BY <1>2 DEF Start, Types
<1>3. ASSUME NEW p \in Procs, Crash(p) PROVE Types'
  BY <1>3 DEF Crash, Types, Idle
<1>4. ASSUME NEW p \in Procs, Sweep(p) PROVE Types'
  <2>1. rec' \in [Jobs -> Records]
    <3>1. \A j \in sweep[p].judged : [rec EXCEPT ![j].st = "zombie"] \in [Jobs -> Records]
      BY ZombieType DEF Types
    <3>2. rec' = rec \/ \E j \in sweep[p].judged : rec' = [rec EXCEPT ![j].st = "zombie"]
      BY <1>4, SweepStep
    <3>3. rec \in [Jobs -> Records]
      BY DEF Types
    <3> QED
      BY <3>1, <3>2, <3>3
  <2>2. SweepMoves(p)
    BY <1>4, SweepStep
  <2> QED
    BY <2>1, <2>2 DEF Types, SweepMoves
<1>5. ASSUME NEW p \in Procs, NEW j \in Jobs, Submit(p, j) PROVE Types'
  <2>1. Write(j, "pending", pid[p]) /\ pid[p] \in Pids \cup {NoPid}
    BY <1>5 DEF Submit, Types
  <2>2. rec' \in [Jobs -> Records]
    BY <2>1, WriteType
  <2>3. /\ UNCHANGED <<proc, pid, sweep, beat, host>> /\ owner' = [owner EXCEPT ![j] = p]
        /\ work' = [work EXCEPT ![j] = "queued"] /\ timer' = [timer EXCEPT ![j] = 0]
    BY <1>5 DEF Submit
  <2>4. timer' \in [Jobs -> 0 .. Lease + host.wait + 1]
    BY <2>3 DEF Types
  <2> QED
    BY <2>2, <2>3, <2>4 DEF Types
<1>6. ASSUME NEW j \in Jobs, Worker(j) PROVE Types'
  <2>1. timer'[j] \in 0 .. Lease + host.wait + 1
    BY <1>6, WorkerStep DEF JobMoves, Types
  <2> QED
    BY <1>6, <2>1, WorkerStep DEF JobMoves, Types
<1>7. ASSUME NEW j \in Jobs, Heartbeat(j) PROVE Types'
  <2>1. timer'[j] \in 0 .. Lease + host.wait + 1
    BY <1>7, HeartbeatStep DEF JobMoves, Types
  <2>2. beat'[j] \in {"off", "idle", "read", "dead"} /\ work' = work
    BY <1>7, HeartbeatStep DEF JobMoves, Types
  <2>3. JobMoves(j)
    BY <1>7, HeartbeatStep
  <2> QED
    BY <2>1, <2>2, <2>3 DEF JobMoves, Types
<1>8. CASE UNCHANGED vars
  BY <1>8 DEF vars, Types
<1> QED
  BY <1>1, <1>2, <1>3, <1>4, <1>5, <1>6, <1>7, <1>8 DEF Next

\* So do the rules about pids and owners.
LEMMA OwnedStep ==
  ASSUME RecordsInv, [Next]_vars PROVE PidsKept' /\ Owned' /\ Swept'
<1> DEFINE Kept == PidsKept' /\ Owned' /\ Swept'
<1>t. Types
  BY DEF RecordsInv
<1> USE JobRecordsAssumption DEF PidsKept, Owned, Swept, Pending, NoProc, NoPid
<1>o. PidsKept /\ Owned /\ Swept
  BY DEF RecordsInv
<1>1. CASE Tick
  <2>1. \A j \in Jobs : rec'[j].st = rec[j].st /\ rec'[j].pid = rec[j].pid
    BY <1>1, <1>t, TickType
  <2> QED
    BY <1>1, <1>o, <2>1 DEF Tick
<1>2. ASSUME NEW p \in Procs, Start(p) PROVE Kept
  <2>1. PICK n \in Pids : /\ \A q \in Procs : pid[q] = n => host.pidReuse /\ proc[q] = "dead"
                          /\ pid' = [pid EXCEPT ![p] = n]
    BY <1>2 DEF Start
  <2>2. \A j \in Jobs : work[j] # "none" => owner[j] # p
    BY <1>2, <1>o DEF Start
  <2>3. proc' = [proc EXCEPT ![p] = "up"] /\ UNCHANGED <<sweep, rec, owner, work, beat, timer, host>>
    BY <1>2 DEF Start
  <2>4. PidsKept'
    BY <1>t, <1>o, <2>1, <2>3 DEF Types
  <2>5. Owned'
    BY <1>t, <1>o, <2>1, <2>2, <2>3 DEF Types
  <2> QED
    BY <1>o, <2>3, <2>4, <2>5
<1>3. ASSUME NEW p \in Procs, Crash(p) PROVE Kept
  BY <1>3, <1>t, <1>o DEF Crash, Types, Idle
<1>4. ASSUME NEW p \in Procs, Sweep(p) PROVE Kept
  <2>1. SweepMoves(p)
    BY <1>4, <1>t, SweepStep
  <2>2. \A j \in sweep'[p].judged : j \in Jobs /\ work[j] # "none"
    BY <1>4, <1>t, <1>o, SweepStep DEF IsZombie, SweepMoves
  <2>3. Swept'
    BY <1>t, <1>o, <2>1, <2>2 DEF SweepMoves, Types
  <2>4. \A j \in Jobs : /\ rec'[j].pid = rec[j].pid
                        /\ rec'[j].st = "none" <=> rec[j].st = "none"
    <3>1. CASE rec' = rec  BY <3>1
    <3>2. ASSUME NEW j \in sweep[p].judged, rec' = [rec EXCEPT ![j].st = "zombie"]
          PROVE  \A i \in Jobs : /\ rec'[i].pid = rec[i].pid
                                 /\ rec'[i].st = "none" <=> rec[i].st = "none"
      <4>1. j \in Jobs /\ work[j] # "none" /\ rec[j].st # "none"
        BY <1>t, <1>o DEF Types
      <4> QED
        BY <1>t, <3>2, <4>1, ZombieType
    <3> QED
      BY <1>4, <1>t, <3>1, <3>2, SweepStep
  <2> QED
    BY <1>o, <2>1, <2>3, <2>4 DEF SweepMoves
<1>5. ASSUME NEW p \in Procs, NEW j \in Jobs, Submit(p, j) PROVE Kept
  <2>1. Write(j, "pending", pid[p]) /\ pid[p] \in Pids /\ proc[p] = "up"
    BY <1>5, <1>t, <1>o DEF Submit, Types
  <2>2. /\ rec'[j] = [st |-> "pending", age |-> 0, pid |-> pid[p]]
        /\ \A i \in Jobs : i # j => rec'[i] = rec[i]
    BY <2>1, <1>t, WriteType
  <2>3. /\ work[j] = "none" /\ work' = [work EXCEPT ![j] = "queued"]
        /\ owner' = [owner EXCEPT ![j] = p] /\ UNCHANGED <<proc, pid, sweep, beat, host>>
    BY <1>5 DEF Submit
  <2> QED
    BY <1>t, <1>o, <2>1, <2>2, <2>3 DEF Types
<1>6. ASSUME NEW j \in Jobs, Worker(j) PROVE Kept
  <2>1. /\ JobMoves(j) /\ Pending(j) /\ work'[j] \in {"running", "joining", "saving", "settled"}
        /\ rec'[j].st = rec[j].st \/ rec'[j].st \in {"started", "done", "failed"}
    BY <1>6, <1>t, WorkerStep
  <2> QED
    BY <1>t, <1>o, <2>1 DEF JobMoves, Types
<1>7. ASSUME NEW j \in Jobs, Heartbeat(j) PROVE Kept
  <2>1. /\ JobMoves(j) /\ work'[j] = work[j] /\ work[j] \notin {"none", "queued", "lost"}
        /\ rec'[j].st = rec[j].st \/ rec'[j].st = "started"
    BY <1>7, <1>t, <1>o, HeartbeatStep
  <2> QED
    BY <1>t, <1>o, <2>1 DEF JobMoves, Types
<1>8. CASE UNCHANGED vars
  BY <1>8, <1>o DEF vars
<1> QED
  BY <1>1, <1>2, <1>3, <1>4, <1>5, <1>6, <1>7, <1>8 DEF Next

\* Records, pids and owners agree.
THEOREM RecordsAgree == Spec => []RecordsInv
<1>1. RecordsInv /\ [Next]_vars => RecordsInv'
  BY TypesStep, OwnedStep DEF RecordsInv
<1> QED
  BY <1>1, RecordsInit, PTL DEF Spec

\* Every variable keeps its type, and a record on disk is owned by some pid.
THEOREM JobRecordsTypes == Spec => []TypeOK
<1>1. RecordsInv => TypeOK
  BY DEF RecordsInv, Types, PidsKept, Owned, TypeOK, Records
<1> QED
  BY <1>1, RecordsAgree, PTL

-----------------------------------------------------------------------------
(* The first poll after a restart *)

\* A behaviour stays under the condition it began with.
LEMMA HostKept == [Next]_vars => host' = host
BY DEF Next, Tick, Start, Crash, Sweep, StartSweep, EndSweep, SweepFails, Judge, MarkZombie,
       Submit, Worker, Begin, RunEnds, Join, SaveTerminal, Heartbeat, BeatRead, BeatWrite,
       BeatDies, vars


\* A job that was lost when the sweep looked is settled, or has still to be judged
\* or marked; a sweep that is over has nothing left to do.
SweepSound == \A p \in Procs :
    /\ sweep[p].st # "busy" => sweep[p].left = {} /\ sweep[p].judged = {}
    /\ \A i, k \in sweep[p].judged : i = k
    /\ \A j \in sweep[p].lost :
         /\ work[j] = "lost"
         /\ rec[j].st \in Terminal \/ j \in sweep[p].left \/ j \in sweep[p].judged

\* The owner of a lost job is dead and nobody else has its pid, so that a sweep
\* finds it or finds it settled.
LEMMA LostIsFound ==
  ASSUME RecordsInv, ~host.pidReuse, NEW j \in Jobs, work[j] = "lost"
  PROVE  IsZombie(j) \/ rec[j].st \in Terminal
<1>1. /\ rec[j].st # "none" /\ rec[j].pid = pid[owner[j]] /\ owner[j] \in Procs
      /\ proc[owner[j]] = "dead" /\ pid[owner[j]] # NoPid
  BY DEF RecordsInv, PidsKept, Owned
<1>2. \A q \in Procs : pid[q] = pid[owner[j]] => q = owner[j]
  BY <1>1 DEF RecordsInv, PidsKept
<1>3. ~Answers(rec[j].pid)
  BY <1>1, <1>2 DEF Answers
<1>4. rec[j].st \in {"none", "pending", "started"} \cup Terminal
  BY DEF RecordsInv, Types, Records
<1> QED
  BY <1>1, <1>3, <1>4 DEF IsZombie

\* Nobody but a sweep writes a lost job's record.
LEMMA LostRecordStays ==
  ASSUME RecordsInv, Next, NEW j \in Jobs, work[j] = "lost"
  PROVE  work'[j] = "lost" /\ (rec'[j].st = rec[j].st \/ rec'[j].st = "zombie")
<1>t. Types /\ Owned
  BY DEF RecordsInv
<1>1. CASE Tick
  BY <1>1, <1>t, TickType DEF Tick
<1>2. ASSUME NEW p \in Procs, Start(p) PROVE work' = work /\ rec' = rec
  BY <1>2 DEF Start
<1>3. ASSUME NEW p \in Procs, Crash(p) PROVE work'[j] = "lost" /\ rec' = rec
  BY <1>3 DEF Crash
<1>4. ASSUME NEW p \in Procs, Sweep(p)
      PROVE  work' = work /\ (rec'[j].st = rec[j].st \/ rec'[j].st = "zombie")
  <2>1. work' = work
    BY <1>4, <1>t, SweepStep DEF SweepMoves
  <2>2. ASSUME NEW i \in sweep[p].judged, rec' = [rec EXCEPT ![i].st = "zombie"]
        PROVE  rec'[j].st = rec[j].st \/ rec'[j].st = "zombie"
    <3>1. i \in Jobs
      BY <1>t DEF Types
    <3> QED
      BY <1>t, <2>2, <3>1, ZombieType
  <2> QED
    BY <1>4, <1>t, <2>1, <2>2, SweepStep
<1>5. ASSUME NEW p \in Procs, NEW i \in Jobs, Submit(p, i)
      PROVE  work'[j] = "lost" /\ rec'[j] = rec[j]
  <2>1. i # j /\ Write(i, "pending", pid[p])
    BY <1>5 DEF Submit
  <2> QED
    BY <1>5, <1>t, <2>1 DEF Submit, Types, Write
<1>6. ASSUME NEW i \in Jobs, Worker(i) PROVE work'[j] = "lost" /\ rec'[j] = rec[j]
  <2>1. JobMoves(i) /\ i # j
    BY <1>6, <1>t, WorkerStep DEF Pending
  <2> QED
    BY <1>t, <2>1 DEF JobMoves, Types
<1>7. ASSUME NEW i \in Jobs, Heartbeat(i) PROVE work'[j] = "lost" /\ rec'[j] = rec[j]
  <2>1. JobMoves(i) /\ i # j
    BY <1>7, <1>t, HeartbeatStep DEF Owned
  <2> QED
    BY <1>t, <2>1 DEF JobMoves, Types
<1> QED
  BY <1>1, <1>2, <1>3, <1>4, <1>5, <1>6, <1>7 DEF Next

\* The sweep's bookkeeping is kept by every step.
LEMMA SweepSoundStep ==
  ASSUME RecordsInv, ~host.pidReuse, SweepSound, [Next]_vars PROVE SweepSound'
<1>t. Types /\ Owned
  BY DEF RecordsInv
<1>s. ASSUME Next PROVE \A j \in Jobs : work[j] = "lost" =>
          work'[j] = "lost" /\ (rec[j].st \in Terminal => rec'[j].st \in Terminal)
  BY <1>s, LostRecordStays DEF Terminal
<1>l. \A p \in Procs : sweep[p].lost \subseteq Jobs /\ sweep[p].judged \subseteq Jobs
  BY <1>t DEF Types
<1>1. ASSUME Next, sweep' = sweep PROVE SweepSound'
  BY <1>1, <1>s, <1>l DEF SweepSound
<1>2. ASSUME NEW p \in Procs, Crash(p) PROVE SweepSound'
  <2>1. Next /\ sweep' = [sweep EXCEPT ![p] = Idle]
    BY <1>2 DEF Next, Crash
  <2> QED
    BY <1>t, <2>1, <1>s, <1>l DEF SweepSound, Idle, Types
<1>3. ASSUME NEW p \in Procs, Sweep(p) PROVE SweepSound'
  <2>1. Next
    BY <1>3 DEF Next
  <2>2. SweepMoves(p) /\ \A q \in Procs : q # p => sweep'[q] = sweep[q]
    BY <1>3, <1>t, SweepStep DEF SweepMoves, Types
  <2> DEFINE Sound(q) ==
      /\ sweep[q].st # "busy" => sweep[q].left = {} /\ sweep[q].judged = {}
      /\ \A i, k \in sweep[q].judged : i = k
      /\ \A j \in sweep[q].lost :
           /\ work[j] = "lost"
           /\ rec[j].st \in Terminal \/ j \in sweep[q].left \/ j \in sweep[q].judged
  <2>3. \A q \in Procs : q # p => Sound(q)'
    BY <2>1, <2>2, <1>s, <1>l DEF SweepSound
  <2>4. Sound(p)
    BY DEF SweepSound
  <2>5. Sound(p)'
    <3>1. CASE StartSweep(p)
      <4>1. /\ sweep'[p].st = "busy" /\ sweep'[p].judged = {} /\ work' = work /\ rec' = rec
            /\ sweep'[p].left = {j \in Jobs : Exists(j)}
            /\ sweep'[p].lost = {j \in Jobs : work[j] = "lost"}
        BY <3>1, <1>t DEF StartSweep, Types
      <4>2. \A j \in Jobs : work[j] = "lost" => Exists(j)
        BY <1>t DEF Owned, Exists
      <4> QED
        BY <4>1, <4>2
    <3>2. CASE EndSweep(p)
      <4>1. /\ sweep'[p].st = "done" /\ sweep'[p].judged = {} /\ sweep'[p].left = {}
            /\ sweep'[p].lost = sweep[p].lost
            /\ sweep[p].judged = {} /\ sweep[p].left = {} /\ work' = work /\ rec' = rec
        BY <3>2, <1>t DEF EndSweep, Types
      <4> QED
        BY <2>4, <4>1
    <3>3. CASE SweepFails(p)
      BY <3>3, <1>t DEF SweepFails, Idle, Types
    <3>4. ASSUME NEW j \in Jobs, Judge(p, j) PROVE Sound(p)'
      <4> DEFINE verdict == IF IsZombie(j) THEN {j} ELSE {}
      <4>1. /\ sweep' = [sweep EXCEPT ![p].left = @ \ {j}, ![p].judged = verdict]
            /\ sweep[p].judged = {} /\ j \in sweep[p].left /\ work' = work /\ rec' = rec
        BY <3>4 DEF Judge
      <4>2. (\A i, k \in verdict : i = k) /\ (IsZombie(j) => j \in verdict)
        OBVIOUS
      <4> HIDE DEF verdict
      <4>3. /\ sweep'[p].st = sweep[p].st /\ sweep'[p].lost = sweep[p].lost
            /\ sweep'[p].left = sweep[p].left \ {j} /\ sweep'[p].judged = verdict
        BY <4>1, <1>t DEF Types
      <4>4. sweep[p].st = "busy"
        BY <2>4, <4>1
      <4>5. work[j] = "lost" => IsZombie(j) \/ rec[j].st \in Terminal
        BY LostIsFound
      <4> QED
        BY <2>4, <4>1, <4>2, <4>3, <4>4, <4>5
    <3>5. ASSUME NEW j \in Jobs, MarkZombie(p, j) PROVE Sound(p)'
      <4>1. /\ sweep' = [sweep EXCEPT ![p].judged = {}] /\ j \in sweep[p].judged
            /\ work' = work /\ rec' = [rec EXCEPT ![j].st = "zombie"]
        BY <3>5 DEF MarkZombie
      <4>2. /\ sweep'[p].st = sweep[p].st /\ sweep'[p].lost = sweep[p].lost
            /\ sweep'[p].left = sweep[p].left /\ sweep'[p].judged = {}
        BY <4>1, <1>t DEF Types
      <4>3. sweep[p].judged = {j}
        BY <2>4, <4>1
      <4>4. rec'[j].st \in Terminal /\ \A i \in Jobs : i # j => rec'[i] = rec[i]
        BY <4>1, <1>t, ZombieType DEF Terminal
      <4> QED
        BY <2>4, <4>1, <4>2, <4>3, <4>4, <1>l
    <3> QED
      BY <1>3, <3>1, <3>2, <3>3, <3>4, <3>5 DEF Sweep
  <2> QED
    BY <2>3, <2>5 DEF SweepSound
<1>4. ASSUME Next PROVE sweep' = sweep \/ \E p \in Procs : Crash(p) \/ Sweep(p)
  BY <1>4, <1>t, WorkerStep, HeartbeatStep DEF Next, Tick, Start, Submit, JobMoves
<1>5. CASE UNCHANGED vars
  BY <1>5 DEF vars, SweepSound
<1> QED
  BY <1>1, <1>2, <1>3, <1>4, <1>5

\* Before a process answers its first poll, every job lost by the time it looked
\* has a terminal record, also when earlier sweeps failed half-way
\* (ensure_reconciled sets its flag after the loop).
THEOREM FirstPollIsHonest == Spec => []FirstPollSeesNoLostJob
<1>1. Init => (~host.pidReuse => SweepSound)
  BY DEF Init, SweepSound, Idle
<1>2. RecordsInv /\ (~host.pidReuse => SweepSound) /\ [Next]_vars => (~host.pidReuse => SweepSound)'
  BY HostKept, SweepSoundStep
<1>3. (~host.pidReuse => SweepSound) => FirstPollSeesNoLostJob
  BY DEF SweepSound, FirstPollSeesNoLostJob
<1> QED
  BY <1>1, <1>2, <1>3, RecordsAgree, PTL DEF Spec

-----------------------------------------------------------------------------
(* Live jobs on an orderly host *)

\* Where a job's thread stands says what its record says and how old its stamp
\* may be: no older than the job waits, and than a heartbeat period once it runs.
LiveJob(j) ==
    /\ work[j] = "queued" =>
         rec[j].st = "pending" /\ rec[j].age <= timer[j] /\ timer[j] <= host.wait
    /\ work[j] = "running" =>
         /\ rec[j].st = "started" /\ rec[j].age <= Period /\ timer[j] <= Period
         /\ beat[j] = "read" \/ (beat[j] = "idle" /\ rec[j].age <= timer[j])
    /\ work[j] = "joining" =>
         rec[j].st = "started" /\ rec[j].age <= Period /\ timer[j] = 0 /\ beat[j] # "dead"
    /\ work[j] = "saving" => rec[j].st = "started" /\ rec[j].age <= Period /\ beat[j] = "off"
    /\ work[j] = "settled" => rec[j].st \in {"done", "failed"} /\ beat[j] = "off"
    /\ work[j] = "lost" => rec[j].st \notin {"done", "failed"}

\* Only lost jobs are judged zombies.
JudgedLost == \A p \in Procs : \A j \in sweep[p].judged : work[j] = "lost"

LiveInv == (\A j \in Jobs : LiveJob(j)) /\ JudgedLost

\* Heartbeats come within a lease.
LEMMA PeriodBounds == Period \in Nat /\ 0 < Period /\ Period < Lease
BY JobRecordsAssumption DEF Period

\* The verdict on a live job is never "zombie".
LEMMA LiveIsNoZombie ==
  ASSUME RecordsInv, LiveInv, Orderly, NEW j \in Jobs, IsZombie(j)
  PROVE  work[j] = "lost"
<1> USE DEF RecordsInv, Types, Owned, Pending, PidsKept
<1>1. work[j] # "none" /\ work[j] # "settled"
  BY DEF IsZombie, LiveInv, LiveJob
<1>2. ASSUME Pending(j) PROVE FALSE
  <2>1. Answers(rec[j].pid)
    BY <1>2 DEF Answers
  <2>2. host.wait \in Nat /\ host.wait <= Lease
    BY JobRecordsAssumption DEF Orderly
  <2>3. rec[j].age \in 0 .. Lease + 1 /\ timer[j] \in 0 .. Lease + host.wait + 1
    BY DEF Records
  <2>4. rec[j].age <= Lease
    BY <1>2, <2>2, <2>3, PeriodBounds, JobRecordsAssumption DEF LiveInv, LiveJob
  <2> QED
    BY <2>1, <2>3, <2>4, JobRecordsAssumption DEF IsZombie
<1> QED
  BY <1>1, <1>2

\* A step of one job's threads keeps the other jobs as they are.
LEMMA LiveFrame ==
  ASSUME Types, LiveInv, NEW j \in Jobs, JobMoves(j), LiveJob(j)', work[j] = "lost" => work'[j] = "lost"
  PROVE  LiveInv'
<1>1. \A i \in Jobs : i # j => /\ rec'[i] = rec[i] /\ work'[i] = work[i]
                              /\ beat'[i] = beat[i] /\ timer'[i] = timer[i]
  BY DEF JobMoves, Types
<1>2. host' = host /\ sweep' = sweep
  BY DEF JobMoves
<1>3. \A i \in Jobs : i # j => LiveJob(i)'
  BY <1>1, <1>2 DEF LiveInv, LiveJob
<1>4. JudgedLost'
  BY <1>1, <1>2 DEF LiveInv, JudgedLost, Types
<1> QED
  BY <1>3, <1>4 DEF LiveInv

\* The invariant of the live jobs holds at the start.
LEMMA LiveInit == Init => LiveInv
BY DEF Init, LiveInv, LiveJob, JudgedLost, Idle

\* Every step keeps it while the host is orderly.
LEMMA LiveStep ==
  ASSUME RecordsInv, LiveInv, Orderly, [Next]_vars PROVE LiveInv'
<1>t. Types /\ Owned
  BY DEF RecordsInv
<1>o. host.wait \in Nat /\ host.wait <= Lease /\ ~host.faults /\ ~host.slow /\ Lease \in Nat
  BY <1>t, JobRecordsAssumption DEF Orderly, Types
<1>v. \A j \in Jobs : LiveJob(j) /\ JudgedLost
  BY DEF LiveInv
<1>n. \A j \in Jobs : /\ rec[j].age \in 0 .. Lease + 1
                      /\ timer[j] \in 0 .. Lease + host.wait + 1
  BY <1>t DEF Types, Records
<1>1. CASE Tick
  <2>1. ASSUME NEW j \in Jobs PROVE LiveJob(j)'
    <3>1. /\ MayTick(j) /\ work'[j] = work[j] /\ beat'[j] = beat[j] /\ host' = host
          /\ rec'[j].st = rec[j].st
      BY <1>1, <1>t, TickType DEF Tick
    <3>2. work[j] # "none" => rec'[j].age <= rec[j].age + 1
      <4>1. rec'[j] = IF Exists(j)
                      THEN [rec[j] EXCEPT !.age = Least(rec[j].age + 1, Lease + 1)] ELSE rec[j]
        BY <1>1 DEF Tick
      <4>2. rec[j] \in Records
        BY <1>t DEF Types
      <4> QED
        BY <4>1, <4>2, <1>n, <1>o DEF Least, Records
    <3>3. work[j] \in {"queued", "running"} => timer'[j] = Least(timer[j] + 1, Lease + host.wait + 1)
      BY <1>1 DEF Tick
    <3>4. rec'[j].age \in 0 .. Lease + 1
      BY <1>1, <1>t, TickType DEF Records
    <3>5. CASE work[j] = "queued"
      <4>1. timer[j] < host.wait /\ timer'[j] = timer[j] + 1
        BY <3>1, <3>3, <3>5, <1>n, <1>o DEF MayTick, Least
      <4> QED
        BY <3>1, <3>2, <3>4, <3>5, <4>1, <1>v, <1>n, <1>o DEF LiveJob
    <3>6. CASE work[j] = "running"
      <4>1. beat[j] = "idle" /\ timer[j] < Period /\ timer'[j] = timer[j] + 1
        BY <3>1, <3>3, <3>6, <1>v, <1>n, <1>o, PeriodBounds DEF MayTick, Least, LiveJob
      <4> QED
        BY <3>1, <3>2, <3>4, <3>6, <4>1, <1>v, <1>n, PeriodBounds DEF LiveJob
    <3>7. CASE work[j] \notin {"queued", "running"}
      BY <3>1, <3>7, <1>v, <1>o DEF MayTick, LiveJob
    <3> QED
      BY <3>5, <3>6, <3>7
  <2>2. JudgedLost'
    BY <1>1, <1>v DEF Tick, LiveInv, JudgedLost
  <2> QED
    BY <2>1, <2>2 DEF LiveInv
<1>2. ASSUME NEW p \in Procs, Start(p) PROVE LiveInv'
  BY <1>2 DEF Start, LiveInv, LiveJob, JudgedLost
<1>3. ASSUME NEW p \in Procs, Crash(p) PROVE LiveInv'
  <2>1. ASSUME NEW j \in Jobs PROVE LiveJob(j)'
    <3>1. UNCHANGED <<rec, timer, host>>
      BY <1>3 DEF Crash
    <3>2. CASE owner[j] = p /\ work[j] # "settled"
      <4>1. work'[j] = "lost"
        BY <1>3, <3>2 DEF Crash
      <4>2. work[j] # "none"
        BY <3>2, <1>t, JobRecordsAssumption DEF Owned, NoProc
      <4>3. rec[j].st \notin {"done", "failed"}
        BY <3>2, <4>2, <1>v, <1>t DEF LiveJob, Types
      <4> QED
        BY <3>1, <4>1, <4>3 DEF LiveJob
    <3>3. CASE owner[j] = p /\ work[j] = "settled"
      <4>1. work'[j] = "settled" /\ beat'[j] = "off"
        BY <1>3, <3>3 DEF Crash
      <4> QED
        BY <3>1, <3>3, <4>1, <1>v DEF LiveJob
    <3>4. CASE owner[j] # p
      <4>1. work'[j] = work[j] /\ beat'[j] = beat[j]
        BY <1>3, <3>4 DEF Crash
      <4> QED
        BY <3>1, <4>1, <1>v DEF LiveJob
    <3> QED
      BY <3>2, <3>3, <3>4
  <2>2. JudgedLost'
    <3>1. \A j \in Jobs : work[j] = "lost" => work'[j] = "lost"
      BY <1>3 DEF Crash
    <3>2. \A q \in Procs : sweep'[q].judged \subseteq sweep[q].judged /\ sweep[q].judged \subseteq Jobs
      BY <1>3, <1>t DEF Crash, Types, Idle
    <3> QED
      BY <3>1, <3>2 DEF LiveInv, JudgedLost
  <2> QED
    BY <2>1, <2>2 DEF LiveInv
<1>4. ASSUME NEW p \in Procs, Sweep(p) PROVE LiveInv'
  <2>1. SweepMoves(p)
    BY <1>4, <1>t, SweepStep
  <2>2. \A j \in sweep'[p].judged : j \in Jobs /\ work[j] = "lost"
    <3>1. \A j \in sweep'[p].judged : j \in Jobs
      BY <2>1 DEF SweepMoves
    <3>2. \A j \in sweep'[p].judged : j \in sweep[p].judged \/ IsZombie(j)
      BY <1>4, <1>t, SweepStep
    <3> QED
      BY <3>1, <3>2, <1>v, LiveIsNoZombie DEF LiveInv, JudgedLost
  <2>3. JudgedLost'
    BY <1>t, <2>1, <2>2 DEF SweepMoves, Types, LiveInv, JudgedLost
  <2>4. ASSUME NEW j \in Jobs PROVE LiveJob(j)'
    <3>1. UNCHANGED <<work, beat, timer, host>>
      BY <2>1 DEF SweepMoves
    <3>2. rec'[j] = rec[j] \/ (work[j] = "lost" /\ rec'[j].st = "zombie")
      <4>1. ASSUME NEW i \in sweep[p].judged, rec' = [rec EXCEPT ![i].st = "zombie"]
            PROVE  rec'[j] = rec[j] \/ (work[j] = "lost" /\ rec'[j].st = "zombie")
        <5>1. i \in Jobs /\ work[i] = "lost"
          BY <1>t DEF Types, LiveInv, JudgedLost
        <5> QED
          BY <1>t, <4>1, <5>1, ZombieType
      <4> QED
        BY <1>4, <1>t, <4>1, SweepStep
    <3> QED
      BY <3>1, <3>2, <1>v DEF LiveJob
  <2> QED
    BY <2>3, <2>4 DEF LiveInv
<1>5. ASSUME NEW p \in Procs, NEW j \in Jobs, Submit(p, j) PROVE LiveInv'
  <2>1. Write(j, "pending", pid[p]) /\ pid[p] \in Pids \cup {NoPid}
    BY <1>5, <1>t DEF Submit, Types
  <2>2. /\ rec'[j] = [st |-> "pending", age |-> 0, pid |-> pid[p]]
        /\ \A i \in Jobs : i # j => rec'[i] = rec[i]
    BY <2>1, <1>t, WriteType
  <2>3. /\ work[j] = "none" /\ work' = [work EXCEPT ![j] = "queued"]
        /\ timer' = [timer EXCEPT ![j] = 0] /\ UNCHANGED <<sweep, beat, host>>
    BY <1>5 DEF Submit
  <2>4. \A i \in Jobs : LiveJob(i)'
    BY <1>t, <1>o, <1>v, <2>2, <2>3 DEF LiveJob, Types
  <2>5. JudgedLost'
    BY <1>t, <2>3 DEF LiveInv, JudgedLost, Types
  <2> QED
    BY <2>4, <2>5 DEF LiveInv
<1>6. ASSUME NEW j \in Jobs, Worker(j) PROVE LiveInv'
  <2>1. JobMoves(j) /\ work[j] # "lost"
    BY <1>6, <1>t, WorkerStep DEF Pending
  <2>2. LiveJob(j)'
    <3>0. host' = host /\ LiveJob(j)
      BY <2>1, <1>v DEF JobMoves
    <3>1. CASE Begin(j)
      <4>1. Write(j, "started", rec[j].pid)
        BY <3>1 DEF Begin
      <4>2. rec'[j] = [st |-> "started", age |-> 0, pid |-> rec[j].pid]
        BY <4>1, <1>t, Written
      <4>3. work'[j] = "running" /\ beat'[j] = "idle" /\ timer'[j] = 0
        BY <3>1, <1>t DEF Begin, Types
      <4> QED
        BY <4>2, <4>3, PeriodBounds DEF LiveJob
    <3>2. CASE RunEnds(j)
      <4>1. /\ work[j] = "running" /\ work'[j] = "joining" /\ timer'[j] = 0
            /\ beat'[j] = beat[j] /\ rec' = rec
        BY <3>2, <1>t DEF RunEnds, Types
      <4> QED
        BY <3>0, <4>1 DEF LiveJob
    <3>3. CASE Join(j)
      <4>1. /\ work[j] = "joining" /\ work'[j] = "saving" /\ rec' = rec
            /\ beat[j] = "read" => timer[j] >= Lease
            /\ beat'[j] = IF beat[j] = "read" THEN "read" ELSE "off"
        BY <3>3, <1>t DEF Join, Types
      <4>2. beat[j] # "read"
        BY <3>0, <4>1, PeriodBounds, <1>o DEF LiveJob
      <4> QED
        BY <3>0, <4>1, <4>2 DEF LiveJob
    <3>4. CASE SaveTerminal(j)
      <4>1. PICK st \in {"done", "failed"} : Write(j, st, rec[j].pid)
        BY <3>4 DEF SaveTerminal
      <4>2. st \in {"none", "pending", "started"} \cup Terminal
        BY DEF Terminal
      <4>3. rec'[j] = [st |-> st, age |-> 0, pid |-> rec[j].pid]
        BY <4>1, <4>2, <1>t, Written
      <4>4. work[j] = "saving" /\ work'[j] = "settled" /\ beat'[j] = beat[j]
        BY <3>4, <1>t DEF SaveTerminal, Types
      <4> QED
        BY <3>0, <4>3, <4>4 DEF LiveJob
    <3> QED
      BY <1>6, <3>1, <3>2, <3>3, <3>4 DEF Worker
  <2> QED
    BY <1>t, <2>1, <2>2, LiveFrame
<1>7. ASSUME NEW j \in Jobs, Heartbeat(j) PROVE LiveInv'
  <2>1. JobMoves(j) /\ work'[j] = work[j]
    BY <1>7, <1>t, HeartbeatStep
  <2>2. LiveJob(j)'
    <3>0. host' = host /\ LiveJob(j)
      BY <2>1, <1>v DEF JobMoves
    <3>1. CASE BeatRead(j)
      <4>1. work[j] = "running" /\ beat[j] = "idle" /\ timer'[j] = 0 /\ rec' = rec
            /\ beat'[j] = IF rec[j].st \in Terminal THEN "idle" ELSE "read"
        BY <3>1, <1>t DEF BeatRead, Types
      <4> QED
        BY <3>0, <2>1, <4>1, PeriodBounds DEF LiveJob, Terminal
    <3>2. CASE BeatWrite(j)
      <4>1. Write(j, "started", rec[j].pid)
        BY <3>2 DEF BeatWrite
      <4>2. rec'[j] = [st |-> "started", age |-> 0, pid |-> rec[j].pid]
        BY <4>1, <1>t, Written
      <4>3. /\ beat[j] = "read" /\ timer'[j] = timer[j]
            /\ beat'[j] = IF work[j] \in {"saving", "settled"} THEN "off" ELSE "idle"
        BY <3>2, <1>t DEF BeatWrite, Types
      <4>4. work[j] \in {"running", "joining"}
        BY <3>0, <4>3, <1>t DEF LiveJob, Owned, Types
      <4> QED
        BY <3>0, <2>1, <4>2, <4>3, <4>4, PeriodBounds, <1>n DEF LiveJob
    <3>3. CASE BeatDies(j)
      BY <3>3, <1>o DEF BeatDies
    <3> QED
      BY <1>7, <3>1, <3>2, <3>3 DEF Heartbeat
  <2> QED
    BY <1>t, <2>1, <2>2, LiveFrame
<1>8. CASE UNCHANGED vars
  BY <1>8 DEF vars, LiveInv, LiveJob, JudgedLost
<1> QED
  BY <1>1, <1>2, <1>3, <1>4, <1>5, <1>6, <1>7, <1>8 DEF Next

\* While nothing fails and no thread waits longer than a lease, the record of a
\* live job is as young as its heartbeat, and only lost jobs are judged zombies
\* (_heartbeat_loop, sweep_zombies).
THEOREM LiveInvariant == Spec => [](Orderly => LiveInv)
<1>1. Init => (Orderly => LiveInv)
  BY LiveInit
<1>2. RecordsInv /\ (Orderly => LiveInv) /\ [Next]_vars => (Orderly => LiveInv)'
  BY HostKept, LiveStep DEF Orderly
<1> QED
  BY <1>1, <1>2, RecordsAgree, PTL DEF Spec

\* Whoever sweeps, however late and however pids are reused: a job whose owner
\* lives and restamps it is never declared dead, for any lease that leaves room
\* for a heartbeat and any waiting time within it.
THEOREM LiveJobsKept == Spec => []LiveNeverReconciled
<1>1. RecordsInv /\ (Orderly => LiveInv) => LiveNeverReconciled
  <2> SUFFICES ASSUME RecordsInv, LiveInv, NEW j \in Jobs, rec[j].st = "zombie"
               PROVE  work[j] = "lost"
    BY DEF LiveNeverReconciled
  <2>1. work[j] # "none" /\ work[j] \in {"none", "queued", "running", "joining", "saving", "settled", "lost"}
    BY DEF RecordsInv, Owned, Types
  <2> QED
    BY <2>1 DEF LiveInv, LiveJob
<1> QED
  BY <1>1, RecordsAgree, LiveInvariant, PTL

\* An outcome a poller may have read is never rewritten: starts, beats and
\* terminal writes find an incomplete record, and a sweep judges lost jobs only.
THEOREM OutcomesFinal == Spec => TerminalIsFinal
<1>1. ASSUME RecordsInv, LiveInv, Orderly, [Next]_vars, NEW j \in Jobs, rec[j].st \in Terminal
      PROVE  rec'[j].st = rec[j].st
  <2>t. Types /\ Owned /\ LiveJob(j)
    BY <1>1 DEF RecordsInv, LiveInv
  <2> USE <1>1, <2>t
  <2>0. work[j] \in {"settled", "lost"} /\ rec[j].st # "started" /\ rec[j].st # "none"
    BY DEF Terminal, LiveJob, Owned, Types
  <2>1. CASE work[j] = "lost" /\ Next
    <3>1. rec[j].st = "zombie"
      BY <2>1 DEF LiveJob, Terminal
    <3> QED
      BY <2>1, <3>1, LostRecordStays
  <2>2. CASE work[j] = "settled" /\ Next
    <3>1. CASE Tick  BY <3>1, TickType
    <3>2. ASSUME NEW p \in Procs, Start(p) \/ Crash(p) PROVE rec' = rec
      BY <3>2 DEF Start, Crash
    <3>3. ASSUME NEW p \in Procs, Sweep(p) PROVE rec'[j] = rec[j]
      <4>1. ASSUME NEW i \in sweep[p].judged, rec' = [rec EXCEPT ![i].st = "zombie"]
            PROVE  rec'[j] = rec[j]
        <5>1. i \in Jobs /\ i # j
          BY <2>2 DEF LiveInv, JudgedLost, Types
        <5> QED
          BY <4>1, <5>1, ZombieType
      <4> QED
        BY <3>3, <4>1, SweepStep
    <3>4. ASSUME NEW p \in Procs, NEW i \in Jobs, Submit(p, i) PROVE rec'[j] = rec[j]
      <4>1. i # j /\ Write(i, "pending", pid[p])
        BY <2>2, <3>4 DEF Submit
      <4> QED
        BY <4>1 DEF Write, Types
    <3>5. ASSUME NEW i \in Jobs, Worker(i) PROVE rec'[j] = rec[j]
      BY <2>2, <3>5, WorkerStep DEF JobMoves, Pending
    <3>6. ASSUME NEW i \in Jobs, Heartbeat(i) PROVE rec'[j] = rec[j]
      <4>1. JobMoves(i) /\ i # j
        BY <2>2, <3>6, HeartbeatStep DEF LiveJob
      <4> QED
        BY <4>1 DEF JobMoves
    <3> QED
      BY <2>2, <3>1, <3>2, <3>3, <3>4, <3>5, <3>6 DEF Next
  <2>3. CASE UNCHANGED vars  BY <2>3 DEF vars
  <2> QED
    BY <2>0, <2>1, <2>2, <2>3
<1>2. RecordsInv /\ (Orderly => LiveInv) /\ [Next]_vars =>
        [Orderly => \A j \in Jobs : rec[j].st \in Terminal => rec'[j].st = rec[j].st]_vars
  BY <1>1
<1> QED
  BY <1>2, RecordsAgree, LiveInvariant, PTL DEF Spec, TerminalIsFinal

=============================================================================
