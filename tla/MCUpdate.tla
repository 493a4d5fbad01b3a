------------------------------ MODULE MCUpdate ------------------------------
(* Small instances of Update.                                                *)
EXTENDS Update
=============================================================================
