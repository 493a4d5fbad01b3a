---------------------------- MODULE MCJobRecords ----------------------------
(* Instances of JobRecords for TLC. *)
EXTENDS JobRecords

CONSTANTS j1, j2, p1, p2, n1, n2

Sound == [wait |-> Lease, pidReuse |-> FALSE, faults |-> FALSE, slow |-> FALSE]

\* An orderly host, one that recycles pids, and one whose disk fails now and then.
PassHosts == {Sound, [Sound EXCEPT !.pidReuse = TRUE], [Sound EXCEPT !.faults = TRUE]}
=============================================================================
