--------------------------- MODULE MCAtomicWrite ---------------------------
(* Instances of AtomicWrite for TLC: two or three concurrent calls. *)
EXTENDS AtomicWrite

CONSTANTS w1, w2, w3

\* Manifest, pool and job records, on sound and on faulty disks.
AllUses == [locked : BOOLEAN, ownTemp : BOOLEAN, faults : BOOLEAN]
=============================================================================
