----------------------------- MODULE MCJobQueue -----------------------------
(* Instances of JobQueue for TLC: two file jobs and an attachment job. *)
EXTENDS JobQueue

CONSTANTS f1, f2, a1
=============================================================================
