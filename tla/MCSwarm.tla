------------------------------ MODULE MCSwarm ------------------------------
(* Instances of Swarm for TLC. *)
EXTENDS Swarm

CONSTANTS r1, r2
=============================================================================
