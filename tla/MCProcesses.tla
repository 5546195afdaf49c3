----------------------------- MODULE MCProcesses -----------------------------
(* A small instance of the processes pane. *)
EXTENDS Processes
=============================================================================
