----------------------------- MODULE MCRecording -----------------------------
(* A small instance of the recordings. *)
EXTENDS Recording
=============================================================================
