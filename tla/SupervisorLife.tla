--------------------------- MODULE SupervisorLife ---------------------------
(***************************************************************************)
(* The supervisor core implements Lifecycle: the refinement mapping.  The  *)
(* number of processes started for a child is no variable of the code; it  *)
(* follows from restart_count, which counts failures, and the state.       *)
(***************************************************************************)
EXTENDS Supervisor

Phase ==
    [c \in Children |->
        CASE state[c] = "Running"    -> "up"
          [] state[c] = "Stopping"   -> "ending"
          [] state[c] = "Restarting" -> "down"
          [] state[c] = "Completed"  -> "completed"
          [] state[c] = "Failed"     -> "failed"
          [] OTHER                   -> IF mpc = "spawning" THEN "fresh"  \* Stopped
                                                           ELSE "abandoned"]

\* A failure that ended a process is counted in restart_count; a process
\* that has not ended, or ended well, is one more.
Starts ==
    [c \in Children |->
        restartCount[c] + IF Phase[c] \in {"up", "ending", "completed", "abandoned"}
                          THEN 1 ELSE 0]

Open == mpc \notin ShutPhases

Life == INSTANCE Lifecycle WITH phase <- Phase, starts <- Starts, open <- Open

\* Whatever kills, exits and restarts happen in whatever order, the managed
\* children live as Lifecycle says: a command is started at most
\* MaxRestarts + 1 times, never after the shutdown began, never again after
\* Completed or Failed, and never Completed once spm chose to kill it
\* (handle_child_exit, the restart loop and shutdown_children).
ImplementsLifecycle == Life!Spec
=============================================================================
