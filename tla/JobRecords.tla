----------------------------- MODULE JobRecords -----------------------------
(***************************************************************************)
(* The job records on disk, shared by every process on the host:           *)
(* JobStorage (jobs/src/capabilities_job_storage.py), the worker that owns *)
(* a record and its heartbeat thread (agent_job_orchestrator.py), and the  *)
(* zombie sweep each process runs once, on its first read.                 *)
(*                                                                         *)
(* Time is counted in ticks.  A record carries the age of its heartbeat    *)
(* stamp rather than the stamp; ages stop at Lease + 1, the first age the  *)
(* sweep calls stale.                                                      *)
(***************************************************************************)
EXTENDS Integers, FiniteSets

CONSTANTS
    Jobs, Procs, Pids,
    Lease,          \* JOB_HEARTBEAT_LEASE_SEC, in ticks
    Hosts           \* the conditions considered; a behaviour has one of them:
                    \*   wait      ticks a job may wait for a worker and the limiter
                    \*   pidReuse  a new process may get the pid of a dead one
                    \*   faults    a write by the heartbeat or the sweep may raise
                    \*   slow      a write by the worker or its heartbeat may take
                    \*             any number of ticks

ASSUME JobRecordsAssumption ==
    /\ Lease \in Nat \ {0, 1}
    /\ Hosts \subseteq [wait : Nat, pidReuse : BOOLEAN, faults : BOOLEAN, slow : BOOLEAN]
    /\ "nobody" \notin Procs /\ "none" \notin Pids

VARIABLES
    proc,       \* proc[p]: "off", "up" or "dead"
    pid,        \* pid[p]: what os.getpid() returns in p
    sweep,      \* sweep[p]: progress of ensure_reconciled in p
    rec,        \* rec[j]: the record file
    owner,      \* owner[j]: the process whose orchestrator j was submitted to
    work,       \* work[j]: where the worker thread of j stands
    beat,       \* beat[j]: where the heartbeat thread of j stands
    timer,      \* timer[j]: ticks j queued, since the last beat, or joining
    host        \* the condition this behaviour is under

vars == <<proc, pid, sweep, rec, owner, work, beat, timer, host>>

NoProc == "nobody"
NoPid == "none"
Period == Lease \div 2
Terminal == {"done", "failed", "zombie"}
Idle == [st |-> "idle", left |-> {}, judged |-> {}, lost |-> {}]

TypeOK ==
    /\ proc \in [Procs -> {"off", "up", "dead"}]
    /\ pid \in [Procs -> Pids \cup {NoPid}]
    /\ sweep \in [Procs -> [st : {"idle", "busy", "done"}, left : SUBSET Jobs,
                            judged : SUBSET Jobs, lost : SUBSET Jobs]]
    /\ rec \in [Jobs -> [st : {"none", "pending", "started"} \cup Terminal,
                         age : 0 .. Lease + 1, pid : Pids \cup {NoPid}]]
    /\ \A j \in Jobs : rec[j].pid = NoPid <=> rec[j].st = "none"  \* the sweep skips unowned records
    /\ owner \in [Jobs -> Procs \cup {NoProc}]
    /\ work \in [Jobs -> {"none", "queued", "running", "joining", "saving", "settled", "lost"}]
    /\ beat \in [Jobs -> {"off", "idle", "read", "dead"}]
    /\ timer \in [Jobs -> 0 .. Lease + host.wait + 1]
    /\ host \in Hosts

Init ==
    /\ proc = [p \in Procs |-> "off"]
    /\ pid = [p \in Procs |-> NoPid]
    /\ sweep = [p \in Procs |-> Idle]
    /\ rec = [j \in Jobs |-> [st |-> "none", age |-> 0, pid |-> NoPid]]
    /\ owner = [j \in Jobs |-> NoProc]
    /\ work = [j \in Jobs |-> "none"]
    /\ beat = [j \in Jobs |-> "off"]
    /\ timer = [j \in Jobs |-> 0]
    /\ host \in Hosts

-----------------------------------------------------------------------------
\* os.kill(pid, 0) answers.
Answers(n) == \E p \in Procs : proc[p] = "up" /\ pid[p] = n

\* Mutants: the lease is up a tick early; only started records count; only the
\* heartbeat counts.
IsZombieAtLease(j) == rec[j].st \in {"pending", "started"} /\ (~Answers(rec[j].pid) \/ rec[j].age >= Lease)
IsZombieStartedOnly(j) == rec[j].st = "started" /\ (~Answers(rec[j].pid) \/ rec[j].age > Lease)
IsZombieByLease(j) == rec[j].st \in {"pending", "started"} /\ rec[j].age > Lease

\* The verdict of reconcile_zombies on the record it has read.
IsZombie(j) ==
    /\ rec[j].st \in {"pending", "started"}
    /\ ~Answers(rec[j].pid) \/ rec[j].age > Lease

Exists(j) == rec[j].st # "none"
Write(j, st, n) == rec' = [rec EXCEPT ![j] = [st |-> st, age |-> 0, pid |-> n]]

-----------------------------------------------------------------------------
(* Processes *)

Start(p) ==
    /\ proc[p] = "off"
    /\ \E n \in Pids :
         /\ \A q \in Procs : pid[q] = n => host.pidReuse /\ proc[q] = "dead"
         /\ pid' = [pid EXCEPT ![p] = n]
    /\ proc' = [proc EXCEPT ![p] = "up"]
    /\ UNCHANGED <<sweep, rec, owner, work, beat, timer, host>>

\* The process dies with its threads; its unsettled jobs are lost.
Crash(p) ==
    LET unsettled == {j \in Jobs : owner[j] = p /\ work[j] # "settled"} IN
    /\ proc[p] = "up"
    /\ proc' = [proc EXCEPT ![p] = "dead"]
    /\ sweep' = [sweep EXCEPT ![p] = Idle]
    /\ work' = [j \in Jobs |-> IF j \in unsettled THEN "lost" ELSE work[j]]
    /\ beat' = [j \in Jobs |-> IF owner[j] = p THEN "off" ELSE beat[j]]
    /\ UNCHANGED <<pid, rec, owner, timer, host>>

-----------------------------------------------------------------------------
(* The owner of a record *)

\* Submission persists the record and stamps it; then the job waits its turn.
Submit(p, j) ==
    /\ proc[p] = "up" /\ work[j] = "none"
    /\ Write(j, "pending", pid[p])
    /\ owner' = [owner EXCEPT ![j] = p]
    /\ work' = [work EXCEPT ![j] = "queued"]
    /\ timer' = [timer EXCEPT ![j] = 0]
    /\ UNCHANGED <<proc, pid, sweep, beat, host>>

\* get_job (after this process's sweep), _save_started, heartbeat.start().
\* The record is overwritten whatever it says by now.
Begin(j) ==
    /\ work[j] = "queued" /\ sweep[owner[j]].st = "done"
    /\ Write(j, "started", rec[j].pid)
    /\ work' = [work EXCEPT ![j] = "running"]
    /\ beat' = [beat EXCEPT ![j] = "idle"]
    /\ timer' = [timer EXCEPT ![j] = 0]
    /\ UNCHANGED <<proc, pid, sweep, owner, host>>

\* _refresh_heartbeat reads the record half a lease after the last beat and
\* returns early if it is completed.
BeatRead(j) ==
    /\ work[j] = "running" /\ beat[j] = "idle" /\ timer[j] >= Period
    /\ beat' = [beat EXCEPT ![j] = IF rec[j].st \in Terminal THEN "idle" ELSE "read"]
    /\ timer' = [timer EXCEPT ![j] = 0]
    /\ UNCHANGED <<proc, pid, sweep, rec, owner, work, host>>

\* The rewrite is of the copy that was read: an incomplete record.
BeatWrite(j) ==
    /\ beat[j] = "read"
    /\ Write(j, "started", rec[j].pid)
    /\ beat' = [beat EXCEPT ![j] = IF work[j] \in {"saving", "settled"} THEN "off" ELSE "idle"]
    /\ UNCHANGED <<proc, pid, sweep, owner, work, timer, host>>

\* An error in the thread's target ends the thread.
BeatDies(j) ==
    /\ host.faults /\ beat[j] = "read"
    /\ beat' = [beat EXCEPT ![j] = "dead"]
    /\ UNCHANGED <<proc, pid, sweep, rec, owner, work, timer, host>>

\* The prompt run returns or raises: stop.set().
RunEnds(j) ==
    /\ work[j] = "running"
    /\ work' = [work EXCEPT ![j] = "joining"]
    /\ timer' = [timer EXCEPT ![j] = 0]
    /\ UNCHANGED <<proc, pid, sweep, rec, owner, beat, host>>

\* Mutant: stop.set() without join().
JoinNot(j) ==
    /\ work[j] = "joining"
    /\ work' = [work EXCEPT ![j] = "saving"]
    /\ beat' = [beat EXCEPT ![j] = IF beat[j] = "read" THEN "read" ELSE "off"]
    /\ UNCHANGED <<proc, pid, sweep, rec, owner, timer, host>>

\* heartbeat.join(timeout = lease): the thread has ended, or the wait is over.
Join(j) ==
    /\ work[j] = "joining"
    /\ beat[j] = "read" => timer[j] >= Lease
    /\ work' = [work EXCEPT ![j] = "saving"]
    /\ beat' = [beat EXCEPT ![j] = IF beat[j] = "read" THEN "read" ELSE "off"]
    /\ UNCHANGED <<proc, pid, sweep, rec, owner, timer, host>>

SaveTerminal(j) ==
    /\ work[j] = "saving"
    /\ \E st \in {"done", "failed"} : Write(j, st, rec[j].pid)
    /\ work' = [work EXCEPT ![j] = "settled"]
    /\ UNCHANGED <<proc, pid, sweep, owner, beat, timer, host>>

-----------------------------------------------------------------------------
(* ensure_reconciled, on the first get_job or list_jobs of a process *)

StartSweep(p) ==
    /\ proc[p] = "up" /\ sweep[p].st = "idle"
    /\ sweep' = [sweep EXCEPT ![p] =
           [st |-> "busy", left |-> {j \in Jobs : Exists(j)}, judged |-> {},
            lost |-> {j \in Jobs : work[j] = "lost"}]]
    /\ UNCHANGED <<proc, pid, rec, owner, work, beat, timer, host>>

\* One turn of the loop up to the decision.
Judge(p, j) ==
    /\ j \in sweep[p].left /\ sweep[p].judged = {}
    /\ sweep' = [sweep EXCEPT ![p].left = @ \ {j},
                              ![p].judged = IF IsZombie(j) THEN {j} ELSE {}]
    /\ UNCHANGED <<proc, pid, rec, owner, work, beat, timer, host>>

\* save_job of the failed copy; the copy keeps the stamp it was read with.
MarkZombie(p, j) ==
    /\ j \in sweep[p].judged
    /\ rec' = [rec EXCEPT ![j].st = "zombie"]
    /\ sweep' = [sweep EXCEPT ![p].judged = {}]
    /\ UNCHANGED <<proc, pid, owner, work, beat, timer, host>>

\* An error in that write leaves the flag unset: the next read sweeps again.
SweepFails(p) ==
    /\ host.faults /\ sweep[p].judged # {}
    /\ sweep' = [sweep EXCEPT ![p] = Idle]
    /\ UNCHANGED <<proc, pid, rec, owner, work, beat, timer, host>>

EndSweep(p) ==
    /\ sweep[p].st = "busy" /\ sweep[p].left = {} /\ sweep[p].judged = {}
    /\ sweep' = [sweep EXCEPT ![p].st = "done"]
    /\ UNCHANGED <<proc, pid, rec, owner, work, beat, timer, host>>

-----------------------------------------------------------------------------
(* Time *)

\* Nothing due is still undone: beats are punctual to a tick, a beat or a
\* terminal write takes less than one unless the disk is slow, and queued
\* jobs start in time.
MayTick(j) ==
    /\ work[j] = "queued" => timer[j] < host.wait
    /\ work[j] = "running" /\ beat[j] = "idle" => timer[j] < Period
    /\ beat[j] = "read" \/ work[j] = "saving" => host.slow
    /\ work[j] = "joining" => beat[j] = "read"

Least(a, b) == IF a < b THEN a ELSE b

Tick ==
    /\ \A j \in Jobs : MayTick(j)
    /\ rec' = [j \in Jobs |->
          IF Exists(j) THEN [rec[j] EXCEPT !.age = Least(@ + 1, Lease + 1)] ELSE rec[j]]
    /\ timer' = [j \in Jobs |->
          IF work[j] \in {"queued", "running", "joining"}
          THEN Least(timer[j] + 1, Lease + host.wait + 1) ELSE timer[j]]
    /\ UNCHANGED <<proc, pid, sweep, owner, work, beat, host>>

-----------------------------------------------------------------------------
Worker(j) == Begin(j) \/ RunEnds(j) \/ Join(j) \/ SaveTerminal(j)
Heartbeat(j) == BeatRead(j) \/ BeatWrite(j) \/ BeatDies(j)
Sweep(p) ==
    \/ StartSweep(p) \/ EndSweep(p) \/ SweepFails(p)
    \/ \E j \in Jobs : Judge(p, j) \/ MarkZombie(p, j)

Next ==
    \/ Tick
    \/ \E p \in Procs : Start(p) \/ Crash(p) \/ Sweep(p) \/ \E j \in Jobs : Submit(p, j)
    \/ \E j \in Jobs : Worker(j) \/ Heartbeat(j)

Spec == Init /\ [][Next]_vars

\* A process that polls finishes its sweep.
FairSpec == Spec /\ \A p \in Procs : WF_vars(Sweep(p))

-----------------------------------------------------------------------------
(* Properties *)

\* Jobs start within a lease and writes neither fail nor hang.
Orderly == host.wait <= Lease /\ ~host.faults /\ ~host.slow

\* A job whose worker is alive is never reconciled: neither while it waits for
\* a worker (stamped at submit) nor while its heartbeat thread restamps it,
\* whoever sweeps and whatever pids mean.
LiveNeverReconciled == Orderly => \A j \in Jobs : rec[j].st = "zombie" => work[j] = "lost"

\* A terminal record is final: no start, no late heartbeat and no sweep working
\* on an old copy rewrites an outcome a poller may already have read.
TerminalIsFinal ==
    [][Orderly => \A j \in Jobs : rec[j].st \in Terminal => rec'[j].st = rec[j].st]_vars

\* "Every record whose worker died reaches a terminal state before the first
\* poll after restart": when a process has swept, each job that was lost when it
\* looked is terminal, also when earlier sweeps failed half-way.
FirstPollSeesNoLostJob ==
    ~host.pidReuse => \A p \in Procs : sweep[p].st = "done" =>
        \A j \in sweep[p].lost : rec[j].st \in Terminal

\* A process that has not polled yet settles every job lost by then, unless it
\* dies first: the poller of a restarted server does not wait for ever.
LostJobSettles ==
    \A p \in Procs, j \in Jobs :
        (~host.pidReuse /\ ~host.faults /\ proc[p] = "up" /\ sweep[p].st = "idle" /\ work[j] = "lost")
            ~> (rec[j].st \in Terminal \/ proc[p] = "dead")

=============================================================================
