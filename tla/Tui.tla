--------------------------------- MODULE Tui ---------------------------------
(***************************************************************************)
(* spm run in a terminal: the supervisor core with the main thread of      *)
(* run_supervisor_app.  It works on a copy of the children that it renews   *)
(* on StateUpdate, restarts a child under the mutex, and kills one from    *)
(* the confirmation dialog without it.  main.rs 609-1125.                  *)
(*                                                                         *)
(* What is only shown (panes, sorting, filter, alerts, log, recordings) is *)
(* left out, and so are the processes that spm does not manage.  Of the     *)
(* children of other instances, which are appended to the copy, it only     *)
(* matters whether one has not ended.                                      *)
(***************************************************************************)
EXTENDS SupervisorLife

CONSTANT Alone   \* no other instance of spm shares its children with this one

ASSUME AloneAssumption == Alone \in BOOLEAN

VARIABLES
    ui,       \* where the loop of the main thread is
    copy,     \* app.managed_children: state and pid of each child
    dialog,   \* the pgid in app.confirm_kill, NoPid if no dialog is open
    request,  \* app.restart_requested, 0 for None
    saw,      \* saw_state_update
    running,  \* app.running
    quit      \* history: the user quit

uiVars == <<ui, copy, dialog, request, saw, running, quit>>
tuiVars == <<state, pid, restartCount, timer, leader, members, shutdown, mpc, cur,
             polls, out, chan, lock, front, stateFile, spm,
             ui, copy, dialog, request, saw, running, quit>>

Places == {"enter", "keys", "killing", "drain", "serve", "serving", "copy", "draw"}

\* managed.lock().clone()
CopyOfChildren == [c \in Children |-> [state |-> state[c], pid |-> pid[c]]]

TuiInit ==
    /\ Init
    /\ ui = "enter"
    /\ copy = CopyOfChildren
    /\ dialog = NoPid
    /\ request = 0
    /\ saw = FALSE
    /\ running = TRUE
    /\ quit = FALSE

-----------------------------------------------------------------------------
(* The keys of one turn of the loop *)

AtUi(place) == FrontReady /\ ui = place

\* The first copy, on the way into the loop.
Enter ==
    /\ AtUi("enter")
    /\ lock = "free"
    /\ copy' = CopyOfChildren
    /\ ui' = "keys"
    /\ UNCHANGED <<vars, dialog, request, saw, running, quit>>

\* k: ask whether to kill the group the copy names.
KeyKill ==
    /\ AtUi("keys") /\ dialog = NoPid
    /\ \E c \in Children :
          /\ copy[c].pid # NoPid
          /\ dialog' = copy[c].pid
    /\ UNCHANGED <<vars, ui, copy, request, saw, running, quit>>

\* n or Esc.
KeyNo ==
    /\ AtUi("keys") /\ dialog # NoPid
    /\ dialog' = NoPid
    /\ UNCHANGED <<vars, ui, copy, request, saw, running, quit>>

\* y: SIGTERM to whatever group has the number now, and sleep for 3 s; nothing
\* more if there is no such group.
KeyYes ==
    /\ AtUi("keys") /\ dialog # NoPid
    /\ IF leader[dialog] # "none" \/ dialog \in members
       THEN ui' = "killing" /\ UNCHANGED dialog
       ELSE dialog' = NoPid /\ UNCHANGED ui
    /\ UNCHANGED <<vars, copy, request, saw, running, quit>>

\* SIGKILL to whatever group has the number 3 s later.  Neither the mutex nor
\* the state of the child is touched.
DialogKill ==
    /\ AtUi("killing")
    /\ KillGroups({dialog})
    /\ dialog' = NoPid
    /\ ui' = "keys"
    /\ UNCHANGED <<childVars, shutdown, mpc, cur, polls, out, chan, lock, front,
                   stateFile, spm, copy, request, saw, running, quit>>

\* r: ask for a restart of a child that has a pid in the copy.  A request for a
\* child of another instance finds none at its index later on.
KeyRestart ==
    /\ AtUi("keys") /\ dialog = NoPid
    /\ \E c \in Children :
          /\ copy[c].pid # NoPid
          /\ request' = c
    /\ UNCHANGED <<vars, ui, copy, dialog, saw, running, quit>>

\* q or Esc: request_shutdown, and leave the loop after this turn.
KeyQuit ==
    /\ AtUi("keys") /\ dialog = NoPid
    /\ shutdown' = TRUE
    /\ running' = FALSE
    /\ quit' = TRUE
    /\ UNCHANGED <<childVars, kernelVars, mpc, cur, polls, out, chan, lock, front,
                   stateFile, spm, ui, copy, dialog, request, saw>>

NoMoreKeys ==
    /\ AtUi("keys")
    /\ ui' = "drain"
    /\ UNCHANGED <<vars, copy, dialog, request, saw, running, quit>>

Keys == KeyKill \/ KeyNo \/ KeyYes \/ KeyRestart \/ KeyQuit

-----------------------------------------------------------------------------
(* The rest of the turn *)

\* try_recv until the channel is empty.  Every Notice stands for a StateUpdate
\* here: a report of the guard or of a health check is followed by one in the
\* same iteration of the monitor.  SignalShutdown is ignored.
Drain ==
    /\ AtUi("drain")
    /\ saw' = \E i \in DOMAIN chan : chan[i] = Notice
    /\ chan' = <<>>
    /\ ui' = "serve"
    /\ UNCHANGED <<childVars, kernelVars, shutdown, mpc, cur, polls, out, lock, front,
                   stateFile, spm, copy, dialog, request, running, quit>>

\* Take the restart request.  The child is found by its index; the pgid is the
\* one it has now.
Serve_Unguarded ==  \* mutant: a child without a pgid is marked Stopping too
    /\ AtUi("serve") /\ request # 0
    /\ lock = "free"
    /\ IF pid[request] # NoPid
       THEN /\ lock' = "front" /\ front' = request /\ ui' = "serving"
            /\ UNCHANGED state
       ELSE /\ state' = [state EXCEPT ![request] = "Stopping"]
            /\ ui' = "copy" /\ UNCHANGED <<lock, front>>
    /\ request' = 0
    /\ UNCHANGED <<pid, restartCount, timer, kernelVars, shutdown, mpc, cur, polls, out,
                   chan, stateFile, spm, copy, dialog, saw, running, quit>>
Serve ==
    /\ AtUi("serve") /\ request # 0
    /\ lock = "free"
    /\ IF pid[request] # NoPid
       THEN lock' = "front" /\ front' = request /\ ui' = "serving"
       ELSE ui' = "copy" /\ UNCHANGED <<lock, front>>
    /\ request' = 0
    /\ UNCHANGED <<childVars, kernelVars, shutdown, mpc, cur, polls, out, chan,
                   stateFile, spm, copy, dialog, saw, running, quit>>

\* The end of kill_process_group and the new state, still under the mutex.
ServeKill ==
    /\ ui = "serving"
    /\ FrontKill
    /\ ui' = "copy"
    /\ UNCHANGED <<copy, dialog, request, saw, running, quit>>

NoRequest ==
    /\ AtUi("serve") /\ request = 0
    /\ ui' = "copy"
    /\ UNCHANGED <<vars, copy, dialog, request, saw, running, quit>>

\* Renew the copy and append the children of the other instances to it; leave
\* the loop when all in it have ended.
AllEnded_NotUp(children) ==  \* mutant: one that is being killed has ended
    \A c \in Children : children[c].state # "Running"
AllEnded(children) == \A c \in Children : children[c].state \in Terminal

StillRunning_Overwritten(others) ==  \* mutant: app.running is assigned, not cleared
    ~(AllEnded(CopyOfChildren) /\ ~others)
StillRunning(others) == running /\ ~(AllEnded(CopyOfChildren) /\ ~others)

Renew ==
    /\ AtUi("copy") /\ saw
    /\ lock = "free"
    /\ copy' = CopyOfChildren
    /\ \E others \in {FALSE, ~Alone} : running' = StillRunning(others)
    /\ ui' = "draw"
    /\ UNCHANGED <<vars, dialog, request, saw, quit>>

NoUpdate ==
    /\ AtUi("copy") /\ ~saw
    /\ ui' = "draw"
    /\ UNCHANGED <<vars, copy, dialog, request, saw, running, quit>>

NextTurn ==
    /\ AtUi("draw") /\ running
    /\ ui' = "keys"
    /\ UNCHANGED <<vars, copy, dialog, request, saw, running, quit>>

\* run_supervisor_app returns and so does main: the monitor thread ends with
\* the process, wherever it is.
Leave ==
    /\ ui = "draw" /\ ~running
    /\ FrontExit
    /\ UNCHANGED uiVars

\* The steps that need no key and no mutex.
Loop ==
    \/ NoMoreKeys \/ DialogKill \/ Drain \/ NoRequest \/ ServeKill
    \/ NoUpdate \/ NextTurn \/ Leave

-----------------------------------------------------------------------------
CoreStep == (StartUp \/ Monitor) /\ UNCHANGED uiVars
WorldStep == Environment /\ UNCHANGED uiVars

\* Nothing is left to do once the process has ended.
TuiEnded == spm # "up" /\ UNCHANGED tuiVars

TuiNext == CoreStep \/ WorldStep \/ Enter \/ Keys \/ Serve \/ Renew \/ Loop \/ TuiEnded

TuiSpec == TuiInit /\ [][TuiNext]_tuiVars

\* The threads keep running, SIGKILL takes effect, time passes.  The main
\* thread gets the mutex, which the monitor leaves free for a second in every
\* iteration, and the user pauses now and then.
TuiFairness ==
    /\ WF_tuiVars(CoreStep)
    /\ WF_tuiVars(Loop) /\ SF_tuiVars(NoMoreKeys)
    /\ SF_tuiVars(Enter) /\ SF_tuiVars(Serve) /\ SF_tuiVars(Renew)
    /\ WF_tuiVars(LeaderKilled /\ UNCHANGED uiVars)
    /\ WF_tuiVars(BackoffElapses /\ UNCHANGED uiVars)

TuiFairSpec == TuiSpec /\ TuiFairness

-----------------------------------------------------------------------------
\* Also with a user who restarts children on the word of an old copy and
\* kills groups behind the monitor's back, every command lives as Lifecycle
\* says (run_supervisor_app against spawn_monitor_thread).
TuiImplementsLifecycle == Life!Spec

\* When the TUI ends by itself every command is Completed or Failed and no
\* process of one is left, although it decides that on a copy (main.rs
\* 1068-1086).
EndsClean ==
    spm = "exited" /\ ~quit =>
        /\ \A c \in Children : state[c] \in Terminal
        /\ \A p \in Pids : leader[p] \notin Ours

\* Quitting ends the program, however the monitor, a kill that takes 3 s or a
\* restart asked for in the same turn come in between.
QuitEnds == quit ~> spm # "up"

\* README, Exit Behavior: the supervisor exits when all processes are Completed
\* or Failed.
TuiTerminalEnds ==
    (spm = "up" /\ \A c \in Children : state[c] \in Terminal) ~> spm # "up"
=============================================================================
