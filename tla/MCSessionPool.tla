-------------------------- MODULE MCSessionPool ---------------------------
(* Instances of SessionPool for TLC.                                         *)
EXTENDS SessionPool

CONSTANTS server, cli, a, b

\* The Brave master carries the display name of the first own profile.
DisplayName == [x \in Paths |-> "work"]
=============================================================================
