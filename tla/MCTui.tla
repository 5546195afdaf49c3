-------------------------------- MODULE MCTui --------------------------------
(* Small instances of the supervisor with its TUI. *)
EXTENDS Tui

\* Of the channel, the TUI only sees whether a Notice is in it (Drain), and
\* no other action reads it.
UpdateWaits == \E i \in DOMAIN chan : chan[i] = Notice

UpToChan ==
    <<state, pid, restartCount, timer, leader, members, shutdown, mpc, cur, polls,
      out, UpdateWaits, lock, front, stateFile, spm, uiVars>>
=============================================================================
