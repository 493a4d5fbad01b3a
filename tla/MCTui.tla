------------------------------- MODULE MCTui -------------------------------
(* Two slots and two runs; two swarms; a pool of two sessions; one setting.   *)
EXTENDS Tui

CONSTANTS s1, s2
=============================================================================
