----------------------------- MODULE MCHeadless -----------------------------
(* Small instances of the headless supervisor. *)
EXTENDS Headless
=============================================================================
