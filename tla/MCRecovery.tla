----------------------------- MODULE MCRecovery -----------------------------
(* A small instance of the recovery of one child. *)
EXTENDS Recovery
=============================================================================
