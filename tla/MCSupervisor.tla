---------------------------- MODULE MCSupervisor ----------------------------
(* Small instances of the supervisor core. *)
EXTENDS SupervisorLife

\* Everything but the channel.  No action of Supervisor but FrontReceive
\* reads chan, and FrontReceive changes nothing else, so states that differ
\* in chan alone have the same future for every other variable.
AllButChan ==
    <<state, pid, restartCount, timer, leader, members, shutdown, mpc, cur, polls,
      out, lock, front, stateFile, spm>>
=============================================================================
