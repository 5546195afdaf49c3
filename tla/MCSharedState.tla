---------------------------- MODULE MCSharedState ----------------------------
(* A TUI with children, and a headless supervisor or a viewer. *)
EXTENDS SharedState, TLC
=============================================================================
