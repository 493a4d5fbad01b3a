----------------------------- MODULE MCProfiles -----------------------------
(* A profile used by a few runs of any kind, wired either way.               *)
EXTENDS Profiles, TLC

BothWirings == {"direct", "prepared"}
Direct == {"direct"}
Symmetry == Permutations(Runs)
=============================================================================
