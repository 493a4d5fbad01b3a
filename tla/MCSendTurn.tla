----------------------------- MODULE MCSendTurn -----------------------------
(* Small instances of SendTurn.                                              *)
EXTENDS SendTurn
=============================================================================
