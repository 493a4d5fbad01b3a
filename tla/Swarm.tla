------------------------------- MODULE Swarm -------------------------------
(***************************************************************************)
(* One fan-out run: SwarmRunner starts a leg per role on a thread pool,    *)
(* SwarmRegistry keeps the snapshot that legs, pollers and the cancel verb *)
(* share, SwarmCancelRunner cancels.                                       *)
(*                                                                         *)
(* revise() changes the snapshot in memory under the registry lock and     *)
(* writes the copy it made to manifest.json after it has let the lock go:  *)
(* here a step of its thread on mem, which leaves copy[t], and later a     *)
(* step Persist(t).  A thread does nothing else while its copy is pending. *)
(***************************************************************************)
EXTENDS Integers, FiniteSets

CONSTANTS
    Roles,          \* discovered role templates, one leg each
    Browsers,       \* threads of the run's executor
    MaxAttempts     \* attempts of a leg

ASSUME SwarmAssumption ==
    /\ IsFiniteSet(Roles) /\ Roles # {}
    /\ {"starter", "canceller"} \cap Roles = {}
    /\ Browsers \in Nat \ {0}
    /\ MaxAttempts \in Nat \ {0}

VARIABLES
    starter,    \* progress of SwarmRunner.start
    canceller,  \* progress of SwarmCancelRunner.cancel
    pc,         \* pc[r]: where the thread of leg r stands
    attempt,    \* attempt[r]: the loop's attempt number
    event,      \* event[r]: the leg's cancel event is set
    published,  \* the registry still holds the run's events and executor
    mem,        \* the registry's snapshot: [run, leg]
    copy,       \* copy[t]: the snapshot thread t has still to write, or None
    manifest,   \* the snapshot manifest.json holds, or None
    tripped,    \* the circuit breaker is open
    disk        \* "sound", or "faulty": write_manifest may raise

vars == <<starter, canceller, pc, attempt, event, published, mem, copy, manifest, tripped, disk>>
unmoved == <<starter, canceller, published, manifest, disk>>    \* what no leg changes

None == [run |-> "none", leg |-> [r \in Roles |-> "queued"]]
Starter == "starter"
Canceller == "canceller"
Threads == Roles \cup {Starter, Canceller}

LegStatus == {"queued", "running", "retrying", "completed", "failed", "cancelled"}
Finished == {"completed", "failed"}
Settled == {"completed", "failed", "cancelled"}
RunStatus == {"queued", "running", "completed", "partial", "cancelled"}
Snapshots == [run : RunStatus, leg : [Roles -> LegStatus]]

\* A leg's thread: before its pool thread, in the loop, after its last update.
Labels == {"unsubmitted", "waiting", "dropped", "begin", "loop", "limited",
           "executing", "raised", "tryEnd", "end", "dead"}
Over == {"tryEnd", "end", "dead", "dropped"}

TypeOK ==
    /\ starter \in {"idle", "opened", "running", "returned", "raised"}
    /\ canceller \in {"idle", "setting", "marking", "releasing", "raised"}
    /\ pc \in [Roles -> Labels]
    /\ attempt \in [Roles -> 1 .. MaxAttempts]
    /\ event \in [Roles -> BOOLEAN]
    /\ published \in BOOLEAN
    /\ mem \in Snapshots
    /\ copy \in [Threads -> Snapshots \cup {None}]
    /\ manifest \in Snapshots \cup {None}
    /\ tripped \in BOOLEAN
    /\ disk \in {"sound", "faulty"}

Init ==
    /\ starter = "idle" /\ canceller = "idle"
    /\ pc = [r \in Roles |-> "unsubmitted"]
    /\ attempt = [r \in Roles |-> 1]
    /\ event = [r \in Roles |-> FALSE]
    /\ published = FALSE
    /\ mem = [run |-> "queued", leg |-> [r \in Roles |-> "queued"]]
    /\ copy = [t \in Threads |-> None]
    /\ manifest = None
    /\ tripped = FALSE
    /\ disk \in {"sound", "faulty"}

-----------------------------------------------------------------------------
(* The snapshot transforms *)

\* Mutant: the run settles by the legs as they were before the update.
MarkProgressLate(s, r, st) ==
    LET legs == [s.leg EXCEPT ![r] = st] IN
    [leg |-> legs,
     run |-> IF s.run # "cancelled" /\ \A q \in Roles : s.leg[q] \in Settled
             THEN IF \A q \in Roles : legs[q] = "completed" THEN "completed" ELSE "partial"
             ELSE s.run]

\* Mutant: a late leg flips a cancelled run.
MarkProgressAnyway(s, r, st) ==
    LET legs == [s.leg EXCEPT ![r] = st] IN
    [leg |-> legs,
     run |-> IF \A q \in Roles : legs[q] \in Settled
             THEN IF \A q \in Roles : legs[q] = "completed" THEN "completed" ELSE "partial"
             ELSE s.run]

\* mark_agent_progress
MarkProgress(s, r, st) ==
    LET legs == [s.leg EXCEPT ![r] = st] IN
    [leg |-> legs,
     run |-> IF s.run # "cancelled" /\ \A q \in Roles : legs[q] \in Settled
             THEN IF \A q \in Roles : legs[q] = "completed" THEN "completed" ELSE "partial"
             ELSE s.run]

\* Mutant: every leg is marked, the finished ones too.
MarkCancelledAll(s) == [run |-> "cancelled", leg |-> [r \in Roles |-> "cancelled"]]

\* Mutant: only legs at work are marked.
MarkCancelledActive(s) ==
    [run |-> "cancelled",
     leg |-> [r \in Roles |-> IF s.leg[r] \in Finished \cup {"queued"} THEN s.leg[r] ELSE "cancelled"]]

\* mark_cancelled: whatever the run's status was.
MarkCancelled(s) ==
    [run |-> "cancelled",
     leg |-> [r \in Roles |-> IF s.leg[r] \in Finished THEN s.leg[r] ELSE "cancelled"]]

\* revise() up to the end of the locked block.
Revise(t, s) == mem' = s /\ copy' = [copy EXCEPT ![t] = s]
Update(r, st) == Revise(r, MarkProgress(mem, r, st))

Go(r, from, to) == pc[r] = from /\ copy[r] = None /\ pc' = [pc EXCEPT ![r] = to]

-----------------------------------------------------------------------------
(* The manifest *)

Persist(t) ==
    /\ copy[t] # None
    /\ manifest' = copy[t]
    /\ copy' = [copy EXCEPT ![t] = None]
    /\ UNCHANGED <<starter, canceller, pc, attempt, event, published, mem, tripped, disk>>

\* write_manifest raises.  Inside the leg's try block the error is handled like
\* one of the prompt run; elsewhere it ends the thread or leaves the call.
PersistFails(t) ==
    /\ disk = "faulty" /\ copy[t] # None
    /\ copy' = [copy EXCEPT ![t] = None]
    /\ starter' = IF t = Starter THEN "raised" ELSE starter
    /\ canceller' = IF t = Canceller THEN "raised" ELSE canceller
    /\ pc' = [r \in Roles |-> IF t # r THEN pc[r] ELSE IF pc[r] = "tryEnd" THEN "raised" ELSE "dead"]
    /\ UNCHANGED <<attempt, event, published, mem, manifest, tripped, disk>>

-----------------------------------------------------------------------------
(* SwarmRunner.start *)

OpenRun ==
    /\ starter = "idle"
    /\ starter' = "opened"
    /\ published' = TRUE
    /\ copy' = [copy EXCEPT ![Starter] = mem]
    /\ UNCHANGED <<canceller, pc, attempt, event, mem, manifest, tripped, disk>>

SetRunning ==
    /\ starter = "opened" /\ copy[Starter] = None
    /\ starter' = "running"
    /\ Revise(Starter, [mem EXCEPT !.run = "running"])
    /\ UNCHANGED <<canceller, pc, attempt, event, published, manifest, tripped, disk>>

Submit(r) ==
    /\ starter = "running" /\ copy[Starter] = None
    /\ Go(r, "unsubmitted", "waiting")
    /\ starter' = IF \A q \in Roles \ {r} : pc[q] # "unsubmitted" THEN "returned" ELSE "running"
    /\ UNCHANGED <<canceller, attempt, event, published, mem, copy, manifest, tripped, disk>>

-----------------------------------------------------------------------------
(* A leg: _run_agent_isolated *)

Take(r) ==
    /\ Cardinality({q \in Roles : pc[q] \notin Over \cup {"unsubmitted", "waiting"} \/ copy[q] # None}) < Browsers
    /\ Go(r, "waiting", "begin")
    /\ UNCHANGED <<unmoved, attempt, event, mem, copy, tripped>>

\* The leg reads its event and the attachment from the registry.
Enter(r) ==
    \/ /\ published
       /\ Go(r, "begin", "loop")
       /\ UNCHANGED <<unmoved, attempt, event, mem, copy, tripped>>
    \/ /\ ~published
       /\ Go(r, "begin", "end")
       /\ Update(r, "cancelled")
       /\ UNCHANGED <<unmoved, attempt, event, tripped>>

SeeCancel(r) ==
    /\ event[r]
    /\ Go(r, "loop", "end") \/ Go(r, "limited", "end")
    /\ Update(r, "cancelled")
    /\ UNCHANGED <<unmoved, attempt, event, tripped>>

\* Mutant: the leg gives up without a word.
SeeBreakerQuietly(r) ==
    /\ ~event[r] /\ tripped
    /\ Go(r, "loop", "end")
    /\ UNCHANGED <<unmoved, attempt, event, mem, copy, tripped>>

SeeBreaker(r) ==
    /\ ~event[r] /\ tripped
    /\ Go(r, "loop", "end")
    /\ Update(r, "failed")
    /\ UNCHANGED <<unmoved, attempt, event, tripped>>

Doing(r) == IF attempt[r] = 1 THEN "running" ELSE "retrying"

\* try_acquire names a wait: the leg waits on its event that long.
Throttle(r) ==
    /\ ~event[r] /\ ~tripped
    /\ Go(r, "loop", "limited")
    /\ Update(r, Doing(r))
    /\ UNCHANGED <<unmoved, attempt, event, tripped>>

\* Either the limiter had a slot, or the wait is over and no cancel came.
Launch(r) ==
    /\ ~event[r]
    /\ \/ ~tripped /\ Go(r, "loop", "executing")
       \/ Go(r, "limited", "executing")
    /\ Update(r, Doing(r))
    /\ UNCHANGED <<unmoved, attempt, event, tripped>>

Succeed(r) ==
    /\ Go(r, "executing", "tryEnd")
    /\ tripped' = FALSE
    /\ Update(r, "completed")
    /\ UNCHANGED <<unmoved, attempt, event>>

RunRaises(r) ==
    /\ Go(r, "executing", "raised")
    /\ UNCHANGED <<unmoved, attempt, event, mem, copy, tripped>>

\* record_failure: it may be the one that trips the breaker.
CountFailure == tripped' \in {tripped, TRUE}

\* A retryable failure text or exception with attempts left.
Retry(r) ==
    /\ attempt[r] < MaxAttempts
    /\ \/ Go(r, "executing", "loop")
       \/ ~event[r] /\ Go(r, "raised", "loop")
    /\ CountFailure
    /\ attempt' = [attempt EXCEPT ![r] = @ + 1]
    /\ UNCHANGED <<unmoved, event, mem, copy>>

\* A failure that is not retryable, or the last attempt's.
Fail(r) ==
    /\ \/ Go(r, "executing", "tryEnd")
       \/ ~event[r] /\ Go(r, "raised", "end")
    /\ CountFailure
    /\ Update(r, "failed")
    /\ UNCHANGED <<unmoved, attempt, event>>

Abort(r) ==
    /\ event[r]
    /\ Go(r, "raised", "end")
    /\ Update(r, "cancelled")
    /\ UNCHANGED <<unmoved, attempt, event, tripped>>

\* A failure leaves the breaker's window, or another run's success clears it.
BreakerCloses ==
    /\ tripped
    /\ tripped' = FALSE
    /\ UNCHANGED <<unmoved, pc, attempt, event, mem, copy>>

-----------------------------------------------------------------------------
(* SwarmCancelRunner.cancel, callable once start has returned the run's id *)

Cancel ==
    /\ starter = "returned" /\ canceller = "idle"
    /\ canceller' = IF published THEN "setting" ELSE "marking"
    /\ UNCHANGED <<starter, pc, attempt, event, published, mem, copy, manifest, tripped, disk>>

SetEvent(r) ==
    /\ canceller = "setting" /\ ~event[r]
    /\ event' = [event EXCEPT ![r] = TRUE]
    /\ UNCHANGED <<starter, canceller, pc, attempt, published, mem, copy, manifest, tripped, disk>>

\* Mutant: the snapshot is marked before the events are set.
MarkRunEarly ==
    /\ canceller \in {"marking", "setting"}
    /\ canceller' = "releasing"
    /\ Revise(Canceller, MarkCancelled(mem))
    /\ UNCHANGED <<starter, pc, attempt, event, published, manifest, tripped, disk>>

\* All events are set and their browser contexts told to close.
MarkRun ==
    /\ \/ canceller = "marking"
       \/ canceller = "setting" /\ \A r \in Roles : event[r]
    /\ canceller' = "releasing"
    /\ Revise(Canceller, MarkCancelled(mem))
    /\ UNCHANGED <<starter, pc, attempt, event, published, manifest, tripped, disk>>

\* release() and executor.shutdown(wait=False, cancel_futures=True).
Release ==
    /\ canceller = "releasing" /\ copy[Canceller] = None
    /\ canceller' = "idle"
    /\ published' = FALSE
    /\ pc' = [r \in Roles |-> IF published /\ pc[r] = "waiting" THEN "dropped" ELSE pc[r]]
    /\ UNCHANGED <<starter, attempt, event, mem, copy, manifest, tripped, disk>>

-----------------------------------------------------------------------------
Start == OpenRun \/ SetRunning \/ \E r \in Roles : Submit(r)
Leg(r) ==
    \/ Take(r) \/ Enter(r) \/ SeeCancel(r) \/ SeeBreaker(r) \/ Throttle(r) \/ Launch(r)
    \/ Succeed(r) \/ RunRaises(r) \/ Retry(r) \/ Fail(r) \/ Abort(r)
Cancelling == (\E r \in Roles : SetEvent(r)) \/ MarkRun \/ Release
Write(t) == Persist(t) \/ PersistFails(t)

Next ==
    \/ Start \/ Cancel \/ Cancelling \/ BreakerCloses
    \/ \E r \in Roles : Leg(r)
    \/ \E t \in Threads : Write(t)

Spec == Init /\ [][Next]_vars

\* Threads run on; a prompt run ends (its waits are bounded) and so does a wait
\* on the limiter.  Nobody has to start a run or to cancel it.
FairSpec ==
    /\ Spec
    /\ WF_vars(starter # "idle" /\ Start) /\ WF_vars(Cancelling)
    /\ \A r \in Roles : WF_vars(Leg(r))
    /\ \A t \in Threads : WF_vars(Write(t))

-----------------------------------------------------------------------------
(* Properties *)

\* The run's status agrees with its legs: completed and partial only when every
\* leg has settled, and not "running" once they all have (mark_agent_progress,
\* a read-decide-write under the registry lock, racing between legs and cancel).
RunMatchesLegs ==
    LET all(S) == \A r \in Roles : mem.leg[r] \in S IN
    disk = "sound" =>
        /\ mem.run = "completed" => all({"completed"})
        /\ mem.run = "partial" => all(Settled) /\ ~all({"completed"})
        /\ mem.run \in {"queued", "running"} => ~all(Settled)

\* A cancelled run stays cancelled: "a leg that was already in flight when the
\* cancel landed must not flip the run back to running or partial".
CancelledStays == [][mem.run = "cancelled" => mem'.run = "cancelled"]_vars

\* A finished leg keeps its outcome, through cancels and updates of its
\* siblings: "a cancel never rewrites work that actually completed".
OutcomeKept ==
    [][disk = "sound" => \A r \in Roles : mem.leg[r] \in Finished => mem'.leg[r] = mem.leg[r]]_vars

\* When nothing runs any more, every leg shows an outcome: no leg is left
\* "running" in the snapshot pollers read, in particular none that reported
\* progress after the cancel had marked it.
RestIsSettled ==
    (disk = "sound" /\ canceller = "idle" /\ \A r \in Roles : pc[r] \in Over)
        => \A r \in Roles : mem.leg[r] \in Settled

\* Every run that was started settles, whatever its legs' failures.
RunSettles == (starter = "returned" /\ disk = "sound") ~> mem.run \in {"completed", "partial", "cancelled"}

\* Once the snapshot says cancelled no leg goes on to a browser, not from a
\* retry, a wait on the limiter or the queue: "prevent queued work from running".
NoLaunchOnceCancelled ==
    [][mem.run = "cancelled" => \A r \in Roles : pc[r] # "executing" => pc'[r] # "executing"]_vars

-----------------------------------------------------------------------------
(* What docstrings say and the code does not do *)

=============================================================================
