--------------------------- MODULE BoundedBacklog ---------------------------
(***************************************************************************)
(* What AgentJobOrchestrator promises its callers, without saying how: at  *)
(* most Capacity jobs are in the system, at most MaxWorkers of them run,   *)
(* a job is admitted once and begins once, and nothing begins after the    *)
(* orchestrator is shut down.                                              *)
(***************************************************************************)
EXTENDS Integers, FiniteSets

CONSTANTS Jobs, Capacity, MaxWorkers

VARIABLES
    admitted,   \* jobs that hold a backlog slot
    seen,       \* jobs that were ever admitted
    running,    \* jobs a worker has begun and not yet given up
    begun,      \* jobs a worker ever began
    closed      \* the shutdown verb was executed

vars == <<admitted, seen, running, begun, closed>>

Init ==
    /\ admitted = {} /\ seen = {}
    /\ running = {} /\ begun = {}
    /\ closed = FALSE

Admit(j) ==
    /\ j \notin seen
    /\ Cardinality(admitted) < Capacity
    /\ admitted' = admitted \cup {j}
    /\ seen' = seen \cup {j}
    /\ UNCHANGED <<running, begun, closed>>

Begin(j) ==
    /\ ~closed
    /\ j \in admitted \ begun
    /\ Cardinality(running) < MaxWorkers
    /\ running' = running \cup {j}
    /\ begun' = begun \cup {j}
    /\ UNCHANGED <<admitted, seen, closed>>

\* The worker gives the slot back; a refused submission does so without running.
Leave(j) ==
    /\ j \in admitted
    /\ j \in running \/ j \notin begun
    /\ admitted' = admitted \ {j}
    /\ running' = running \ {j}
    /\ UNCHANGED <<seen, begun, closed>>

Close ==
    /\ closed' = TRUE
    /\ UNCHANGED <<admitted, seen, running, begun>>

Next == Close \/ \E j \in Jobs : Admit(j) \/ Begin(j) \/ Leave(j)

Spec == Init /\ [][Next]_vars
=============================================================================
