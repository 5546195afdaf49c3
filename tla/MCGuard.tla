------------------------------- MODULE MCGuard -------------------------------
(* A small instance of the guard. *)
EXTENDS Guard
=============================================================================
