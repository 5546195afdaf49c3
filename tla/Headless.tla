------------------------------ MODULE Headless ------------------------------
(***************************************************************************)
(* spm run --headless: the supervisor core with the main thread of         *)
(* run_supervisor_headless, which prints the JSON event log and decides    *)
(* when the program ends, and the fairness the operating system provides.  *)
(***************************************************************************)
EXTENDS Supervisor

VARIABLES
    main,    \* the main thread: "recv", "drain", "check", "leaving"
    log,     \* per child, the events of it that were printed, in order
    reasons  \* reasons of the shutdown lines printed, in order

mainVars == <<main, log, reasons>>
headVars == <<state, pid, restartCount, timer, leader, members, shutdown, mpc, cur,
              polls, out, chan, lock, front, stateFile, spm, main, log, reasons>>

HeadInit ==
    /\ Init
    /\ main = "recv"
    /\ log = [c \in Children |-> <<>>]
    /\ reasons = <<>>

-----------------------------------------------------------------------------
(* The main thread *)

SignalShutdown == Ev("shutdown", 0, 0)

\* Print an event: it goes to the log of its child.
Printed(e) == [c \in Children |-> IF c = e.child THEN Append(log[c], e) ELSE log[c]]

\* signal_shutdown, set with the line that SignalShutdown prints.
SawShutdown_Ignored == FALSE  \* mutant: no arm for the event
SawShutdown == reasons # <<>>

\* Mutant: a requested shutdown ends the program at once.
AllTerminal_OrShutdown == shutdown \/ \A c \in Children : state[c] \in Terminal
AllTerminal == \A c \in Children : state[c] \in Terminal

\* Mutant of MainReceive: what else is in the channel is thrown away.
MainReceive_DropsRest ==
    /\ FrontReady /\ main \in {"recv", "drain"}
    /\ chan # <<>>
    /\ log' = Printed(Head(chan))
    /\ reasons' = IF Head(chan) = SignalShutdown THEN Append(reasons, "signal")
                                                 ELSE reasons
    /\ main' = "drain"
    /\ chan' = <<>>
    /\ UNCHANGED <<childVars, kernelVars, shutdown, mpc, cur, polls, out, lock,
                   front, stateFile, spm>>

\* recv for the first event of a batch, try_recv for the others.  A batch is
\* printed when it is complete; as main does nothing else before that, the
\* line is written here with the event.
MainReceive ==
    /\ FrontReady /\ main \in {"recv", "drain"}
    /\ chan # <<>>
    /\ log' = Printed(Head(chan))
    /\ reasons' = IF Head(chan) = SignalShutdown THEN Append(reasons, "signal")
                                                 ELSE reasons
    /\ main' = "drain"
    /\ chan' = Tail(chan)
    /\ UNCHANGED <<childVars, kernelVars, shutdown, mpc, cur, polls, out, lock,
                   front, stateFile, spm>>

\* try_recv finds the channel empty.  A batch with SignalShutdown ends the
\* loop; any other one makes main look at the children.
MainDrained ==
    /\ FrontReady /\ main = "drain"
    /\ chan = <<>>
    /\ IF SawShutdown
       THEN stateFile' = FALSE /\ main' = "leaving"
       ELSE main' = "check" /\ UNCHANGED stateFile
    /\ UNCHANGED <<childVars, kernelVars, shutdown, mpc, cur, polls, out, chan, lock,
                   front, spm, log, reasons>>

\* Under the mutex: when every child is Completed or Failed, print the
\* shutdown line, remove the state file and leave the loop.
MainCheck ==
    /\ FrontReady /\ main = "check"
    /\ lock = "free"
    /\ IF AllTerminal
       THEN /\ reasons' = Append(reasons, IF shutdown THEN "signal" ELSE "all_terminal")
            /\ stateFile' = FALSE
            /\ main' = "leaving"
       ELSE /\ main' = "recv"
            /\ UNCHANGED <<reasons, stateFile>>
    /\ UNCHANGED <<childVars, kernelVars, shutdown, mpc, cur, polls, out, chan,
                   lock, front, spm, log>>

\* main returns and the process ends, the monitor thread with it.
MainLeave ==
    /\ main = "leaving"
    /\ FrontExit
    /\ UNCHANGED mainVars

Main == MainReceive \/ MainDrained \/ MainCheck \/ MainLeave

-----------------------------------------------------------------------------
StartUpStep == StartUp /\ UNCHANGED mainVars
MonitorStep == Monitor /\ UNCHANGED mainVars
EnvironmentStep == Environment /\ UNCHANGED mainVars

\* Nothing is left to do once the process has ended.
Ended == spm # "up" /\ UNCHANGED headVars

HeadNext == StartUpStep \/ MonitorStep \/ EnvironmentStep \/ Main \/ Ended

HeadSpec == HeadInit /\ [][HeadNext]_headVars

\* Both threads keep running, a SIGKILL takes effect, time passes.  Main gets
\* to the end of the channel and to the mutex although the monitor sends and
\* locks again and again: the monitor sleeps a full second in every iteration,
\* without the mutex.
Fairness ==
    /\ WF_headVars(StartUpStep)
    /\ WF_headVars(MonitorStep)
    /\ WF_headVars(MainReceive)
    /\ SF_headVars(MainDrained)
    /\ SF_headVars(MainCheck)
    /\ WF_headVars(MainLeave)
    /\ WF_headVars(LeaderKilled /\ UNCHANGED mainVars)
    /\ WF_headVars(BackoffElapses /\ UNCHANGED mainVars)

FairSpec == HeadSpec /\ Fairness

-----------------------------------------------------------------------------
(* Properties of the end of the program *)

\* main and the monitor stay within the behaviour Supervisor allows to any
\* front end, so its theorems hold here.
ImplementsSupervisor == Spec

\* The log ends with exactly one shutdown line, whichever of the two paths
\* leads out of the loop and however a signal races the last exit
\* (run_supervisor_headless; SignalShutdown is the other source of the line).
OneShutdownLine ==
    /\ Len(reasons) <= 1
    /\ spm = "exited" => Len(reasons) = 1

\* Once spm has exited no command it started still runs: each leader was
\* reaped or has a SIGKILL pending.
NoOrphanLeader == spm = "exited" => \A p \in Pids : leader[p] # "alive"

\* When the signal path ended the program, nothing that was sent is missing
\* from the log: the last line of every child tells its final state.
Said(c, type) == log[c] # <<>> /\ log[c][Len(log[c])].type = type
SignalLogComplete ==
    spm = "exited" /\ mpc = "done" /\ out = <<>> /\ chan = <<>> =>
        \A c \in Children :
            /\ state[c] = "Completed" => Said(c, "completed")
            /\ state[c] = "Failed" => Said(c, "failed") \/ log[c] = <<>>

\* The lines that may follow a line of a child: a start, at most the kills
\* decided for it, its exit, and what came of the exit.
Follows(a, b) ==
    CASE a = "spawn"       -> b \in {"restart", "health_kill", "guard_kill", "exit"}
      [] a = "restart"     -> b \in {"health_kill", "guard_kill", "exit"}
      [] a = "health_kill" -> b = "exit"
      [] a = "guard_kill"  -> b = "exit"
      [] a = "exit"        -> b \in {"completed", "failed", "spawn"}
      [] OTHER             -> FALSE

\* The log of each child reads as a life from its spawn: no event is
\* duplicated, none comes out of order, nothing follows completed or failed,
\* and each kill hits a process that was started and has not exited (the sends
\* of spawn_monitor_thread and handle_child_exit, drained in batches by main).
LogReadsAsLife ==
    \A c \in Children :
        /\ log[c] # <<>> => log[c][1].type = "spawn"
        /\ \A i \in 1..(Len(log[c]) - 1) : Follows(log[c][i].type, log[c][i + 1].type)

-----------------------------------------------------------------------------
(* Liveness *)

\* A signal after startup ends the program.
SignalEnds == shutdown ~> spm = "exited"

\* The program ends once every command is Completed or Failed.
TerminalEnds == (spm = "up" /\ AllTerminal) ~> spm # "up"

\* A child that spm decided to kill does not stay Stopping.
StoppingEnds ==
    \A c \in Children : (spm = "up" /\ state[c] = "Stopping") ~>
        (spm # "up" \/ state[c] # "Stopping")

\* A child that waits for its restart gets it, or Failed, unless spm shuts down.
RestartHappens ==
    \A c \in Children : (spm = "up" /\ state[c] = "Restarting") ~>
        (spm # "up" \/ shutdown \/ state[c] # "Restarting")

-----------------------------------------------------------------------------
(* What the documentation and the tests say and the code does not do *)

\* tests/failing_tests.sh: a clean exit emits a completed event.
CompletedIsPrinted ==
    spm = "exited" => \A c \in Children : state[c] = "Completed" => Said(c, "completed")

\* tests/integration_test.sh TEST 9: the entire process tree is killed on
\* shutdown.
TreeKilled == spm = "exited" /\ mpc = "done" => members = {}
=============================================================================
