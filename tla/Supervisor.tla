----------------------------- MODULE Supervisor -----------------------------
(***************************************************************************)
(* The supervisor core of spm: the managed children behind one mutex, the   *)
(* monitor thread that reaps, kills, restarts and finally shuts them down,  *)
(* and the kernel facts they depend on (process groups, zombies, pid       *)
(* reuse, SIGKILL).  monitor.rs, supervisor.rs and process.rs.              *)
(*                                                                         *)
(* The decisions of the health checker and of the OOM guard are left open  *)
(* here: any Running child may be killed by either.  The main thread is an  *)
(* arbitrary front end that may drain the channel, restart a child under   *)
(* the mutex, or end the program; Headless refines it.                      *)
(***************************************************************************)
EXTENDS Integers, Sequences, FiniteSets

CONSTANTS
    N,               \* number of managed commands
    Pids,            \* the process ids the kernel can hand out
    NoPid,           \* None, for child.pid and child.pgid
    MaxRestarts,     \* guard.config.max_restarts
    ShutdownPolls,   \* waits of 100 ms after SIGTERM (50 in the code)
    Forkers,         \* children whose command leaves further group members
    Reusable         \* pids that unrelated processes may also take (bound)

Children == 1..N

ASSUME NAssumption == N \in Nat \ {0}
ASSUME PidAssumption == NoPid \notin Pids
ASSUME RestartAssumption == MaxRestarts \in Nat
ASSUME PollAssumption == ShutdownPolls \in Nat \ {0}
ASSUME ScopeAssumption == Forkers \subseteq Children /\ Reusable \subseteq Pids

VARIABLES
    state,         \* child.state
    pid,           \* child.pid; child.pgid is always assigned the same value
    restartCount,  \* child.restart_count
    timer,         \* child.backoff.restart_at: None, in the future, or passed
    leader,        \* kernel: what pid p is, the process spawned as p above all
    members,       \* kernel: group ids with a live member besides the leader
    shutdown,      \* SHUTDOWN_REQUESTED
    mpc,           \* where the supervisor is: startup, then the monitor thread
    cur,           \* the child a for-loop of the supervisor has reached
    polls,         \* waits made so far by shutdown_children
    out,           \* sends of the current step not yet made, in order
    chan,          \* the mpsc channel from the monitor to the main thread
    lock,          \* holder of the mutex around the managed children
    front,         \* child the front end is restarting, 0 if none
    stateFile,     \* whether /tmp/spm-state-<pid>.json exists
    spm            \* the spm process: "up", "exited" or "killed"

childVars  == <<state, pid, restartCount, timer>>
kernelVars == <<leader, members>>
vars == <<state, pid, restartCount, timer, leader, members, shutdown, mpc, cur,
          polls, out, chan, lock, front, stateFile, spm>>

-----------------------------------------------------------------------------
(* Values *)

ChildStates == {"Running", "Stopping", "Stopped", "Restarting", "Completed", "Failed"}

\* The states in which a child has a process to signal and to wait for.
Live == {"Running", "Stopping"}

\* The states a child never leaves.
Terminal == {"Completed", "Failed"}

Timers == {"unset", "waiting", "due"}

\* "dying" has a SIGKILL pending; "zero" and "error" are zombies by exit
\* status; a "foreign" process is none of spm's; "shot" is one that spm hit.
Leaders == {"none", "alive", "dying", "zero", "error", "foreign", "shot"}
Ours    == {"alive", "dying", "zero", "error"}
Zombies == {"zero", "error"}

\* Where the supervisor can be.  It holds the mutex in Iteration and in Draining.
Startup    == {"spawning", "announcing", "handlers"}
Iteration  == {"reap", "health", "healthKill", "guard", "guardKill", "restart",
               "publish", "release"}
Draining   == {"sdSleep", "sdReap", "sdKill"}
ShutPhases == {"sdTerm", "done"} \cup Draining
Labels     == Startup \cup {"top", "sleep"} \cup Iteration \cup ShutPhases

EventTypes == {"spawn", "restart", "exit", "completed", "failed", "guard_kill",
               "health_kill", "shutdown", "notice"}

\* killed_by as printed: by the guard or by nobody; see ExitEvent.
Event == [type : EventTypes, child : 0..N, count : Nat, by : {"none", "guard"}]

Ev(type, c, count) == [type |-> type, child |-> c, count |-> count, by |-> "none"]

\* The events that carry nothing about a child's life: StateUpdate and the
\* guard and health reports.  They wake the main thread and no more.
Notice == Ev("notice", 0, 0)

\* A send, with a Notice behind a Notice merged (receiving two in a row is
\* the same as receiving one).
Enqueue(q, e) ==
    IF e = Notice /\ q # <<>> /\ q[Len(q)] = Notice THEN q ELSE Append(q, e)

FreePids == {p \in Pids : leader[p] = "none" /\ p \notin members}

-----------------------------------------------------------------------------
Init ==
    /\ state = [c \in Children |-> "Stopped"]
    /\ pid = [c \in Children |-> NoPid]
    /\ restartCount = [c \in Children |-> 0]
    /\ timer = [c \in Children |-> "unset"]
    /\ leader = [p \in Pids |-> "none"]
    /\ members = {}
    /\ shutdown = FALSE
    /\ mpc = "spawning"
    /\ cur = 1
    /\ polls = 0
    /\ out = <<>>
    /\ chan = <<>>
    /\ lock = "free"
    /\ front = 0
    /\ stateFile = FALSE
    /\ spm = "up"

-----------------------------------------------------------------------------
(* Pieces shared by several actions *)

\* spawn_child: setsid makes the new process the leader of a group of its
\* own, whose id is its pid.
SpawnAs(c, p) ==
    /\ pid' = [pid EXCEPT ![c] = p]
    /\ state' = [state EXCEPT ![c] = "Running"]
    /\ leader' = [leader EXCEPT ![p] = "alive"]

\* kill(-p, SIGKILL): every member of group p, whoever that now is.
KillGroups_Never(P) == UNCHANGED <<leader, members>>  \* mutant: only SIGTERM is sent
KillGroups(P) ==
    /\ leader' = [p \in Pids |->
                     IF p \notin P THEN leader[p]
                     ELSE CASE leader[p] = "alive"   -> "dying"
                            [] leader[p] = "foreign" -> "shot"
                            [] OTHER                 -> leader[p]]
    /\ members' = members \ P

\* The Exit event.  last_exit is overwritten with killed_by_health = false
\* before the event reads it, so a kill of either kind is the guard's.
ExitEvent(c) ==
    [Ev("exit", c, 0) EXCEPT !.by = IF state[c] = "Stopping" THEN "guard" ELSE "none"]

\* backoff.should_restart, asked with the failure counted.
ShouldRestart(c) == restartCount[c] + 1 <= MaxRestarts

\* backoff.schedule_restart and its undoing.
ScheduleRestart_Never(c) == timer  \* mutant: forgotten
ScheduleRestart(c) == [timer EXCEPT ![c] = "waiting"]
ClearRestart(c) == [timer EXCEPT ![c] = "unset"]

\* child.pid = None; child.pgid = None.
ClearPid_Never(c) == pid  \* mutant: forgotten
ClearPid(c) == [pid EXCEPT ![c] = NoPid]

FailedEvents_None(c, count) == <<>>  \* mutant: not sent
FailedEvents(c, count) == <<Ev("failed", c, count)>>

\* handle_child_exit once waitpid returned child c's process with status s.
Completes(c) ==
    /\ state' = [state EXCEPT ![c] = "Completed"]
    /\ timer' = ClearRestart(c)
    /\ out' = <<ExitEvent(c), Ev("completed", c, 0)>>
    /\ UNCHANGED restartCount

Retries(c) ==
    /\ state' = [state EXCEPT ![c] = "Restarting"]
    /\ timer' = ScheduleRestart(c)
    /\ out' = <<ExitEvent(c)>>
    /\ restartCount' = [restartCount EXCEPT ![c] = @ + 1]

GivesUp(c) ==
    /\ state' = [state EXCEPT ![c] = "Failed"]
    /\ timer' = ClearRestart(c)
    /\ out' = <<ExitEvent(c)>> \o FailedEvents(c, restartCount[c] + 1)
    /\ restartCount' = [restartCount EXCEPT ![c] = @ + 1]

HandleExit(c, s, allowRestart) ==
    /\ pid' = ClearPid(c)
    /\ leader' = [leader EXCEPT ![pid[c]] = "none"]
    /\ IF s = "zero" /\ state[c] # "Stopping" THEN Completes(c)
       ELSE IF allowRestart /\ ShouldRestart(c) THEN Retries(c)
       ELSE GivesUp(c)

\* One turn of reap_zombies: waitpid(-1, WNOHANG) returns some zombie.
ReapOne(allowRestart) ==
    \E p \in Pids :
        /\ leader[p] \in Zombies
        /\ \/ \E c \in Children :
                 /\ pid[c] = p
                 /\ HandleExit(c, leader[p], allowRestart)
           \/ /\ \A c \in Children : pid[c] # p
              /\ leader' = [leader EXCEPT ![p] = "none"]
              /\ UNCHANGED <<state, pid, restartCount, timer, out>>

\* waitpid has nothing more to return.
NoZombie == \A p \in Pids : leader[p] \notin Zombies

-----------------------------------------------------------------------------
(* Startup, in the main thread: run_supervisor *)

SpawnInitial ==
    /\ mpc = "spawning" /\ spm = "up"
    /\ cur \in Children
    /\ \/ \E p \in FreePids : SpawnAs(cur, p)
       \/ /\ state' = [state EXCEPT ![cur] = "Failed"]
          /\ UNCHANGED <<pid, leader>>
    /\ cur' = cur + 1
    /\ UNCHANGED <<restartCount, timer, members, shutdown, mpc, polls, out, chan,
                   lock, front, stateFile, spm>>

SpawnsDone ==
    /\ mpc = "spawning" /\ spm = "up"
    /\ cur > N
    /\ mpc' = "announcing"
    /\ cur' = 1
    /\ UNCHANGED <<childVars, kernelVars, shutdown, polls, out, chan, lock, front,
                   stateFile, spm>>

\* The Spawn event of a child with a pid; none for one that failed to start.
Announce ==
    /\ mpc = "announcing" /\ spm = "up"
    /\ cur \in Children
    /\ chan' = IF pid[cur] # NoPid THEN Append(chan, Ev("spawn", cur, 0)) ELSE chan
    /\ cur' = cur + 1
    /\ UNCHANGED <<childVars, kernelVars, shutdown, mpc, polls, out, lock, front,
                   stateFile, spm>>

\* The monitor thread is started and the front end entered.
StartMonitor ==
    /\ mpc = "announcing" /\ spm = "up"
    /\ cur > N
    /\ mpc' = "handlers"
    /\ UNCHANGED <<childVars, kernelVars, shutdown, cur, polls, out, chan, lock, front,
                   stateFile, spm>>

StartUp == SpawnInitial \/ SpawnsDone \/ Announce \/ StartMonitor

-----------------------------------------------------------------------------
(* The monitor thread.  Each action but MonitorSend waits for the sends of  *)
(* the action before it.                                                   *)

At(label) == mpc = label /\ spm = "up" /\ out = <<>>

MonitorSend ==
    /\ spm = "up" /\ out # <<>>
    /\ chan' = Enqueue(chan, Head(out))
    /\ out' = Tail(out)
    /\ UNCHANGED <<childVars, kernelVars, shutdown, mpc, cur, polls, lock, front,
                   stateFile, spm>>

\* From here on SIGINT and SIGTERM only set SHUTDOWN_REQUESTED.
InstallHandlers ==
    /\ At("handlers")
    /\ mpc' = "top"
    /\ UNCHANGED <<childVars, kernelVars, shutdown, cur, polls, out, chan, lock,
                   front, stateFile, spm>>

\* The flag is read once per iteration, before the one second of sleep.
CheckFlag ==
    /\ At("top")
    /\ mpc' = IF shutdown THEN "sdTerm" ELSE "sleep"
    /\ UNCHANGED <<childVars, kernelVars, shutdown, cur, polls, out, chan, lock,
                   front, stateFile, spm>>

\* The sleep is over and managed.lock() returns.
AcquireLock ==
    /\ At("sleep")
    /\ lock = "free"
    /\ lock' = "monitor"
    /\ mpc' = "reap"
    /\ UNCHANGED <<childVars, kernelVars, shutdown, cur, polls, out, chan, front,
                   stateFile, spm>>

Reap ==
    /\ At("reap")
    /\ ReapOne(TRUE)
    /\ UNCHANGED <<members, shutdown, mpc, cur, polls, chan, lock, front,
                   stateFile, spm>>

ReapDone ==
    /\ At("reap")
    /\ NoZombie
    /\ mpc' = "health"
    /\ cur' = 1
    /\ UNCHANGED <<childVars, kernelVars, shutdown, polls, out, chan, lock, front,
                   stateFile, spm>>

\* health.tick leaves child cur alone, or reports HealthOk or HealthFail.
HealthPass ==
    /\ At("health")
    /\ cur \in Children
    /\ \/ out' = <<>>
       \/ state[cur] = "Running" /\ out' = <<Notice>>
    /\ cur' = cur + 1
    /\ UNCHANGED <<childVars, kernelVars, shutdown, mpc, polls, chan, lock, front,
                   stateFile, spm>>

\* health.tick finds child cur Unhealthy: announce the kill, SIGTERM its
\* group and sleep 3 s.  What SIGTERM does is up to the command (LeaderExits,
\* MembersExit), which may well ignore it.
HealthTerm ==
    /\ At("health")
    /\ cur \in Children
    /\ state[cur] = "Running" /\ pid[cur] # NoPid
    /\ out' = <<Ev("health_kill", cur, 0)>>
    /\ mpc' = "healthKill"
    /\ UNCHANGED <<childVars, kernelVars, shutdown, cur, polls, chan, lock, front,
                   stateFile, spm>>

\* The end of kill_process_group: SIGKILL what is left of the group.  An
\* unreaped leader keeps the group in existence, so kill(-pgid, 0) succeeds.
HealthKill ==
    /\ At("healthKill")
    /\ KillGroups({pid[cur]})
    /\ state' = [state EXCEPT ![cur] = "Stopping"]
    /\ mpc' = "health"
    /\ cur' = cur + 1
    /\ UNCHANGED <<pid, restartCount, timer, shutdown, polls, out, chan, lock,
                   front, stateFile, spm>>

HealthDone ==
    /\ At("health")
    /\ cur > N
    /\ mpc' = "guard"
    /\ UNCHANGED <<childVars, kernelVars, shutdown, cur, polls, out, chan, lock,
                   front, stateFile, spm>>

\* guard.evaluate returns None, Warning or Exhausted.
GuardPass ==
    /\ At("guard")
    /\ out' \in {<<>>, <<Notice>>}
    /\ mpc' = "restart"
    /\ cur' = 1
    /\ UNCHANGED <<childVars, kernelVars, shutdown, polls, chan, lock, front,
                   stateFile, spm>>

\* guard.evaluate returns Kill; select_victim only takes Running children.
\* The emergency kill is this one with no time before GuardKill.
GuardTerm ==
    /\ At("guard")
    /\ \E v \in Children :
          /\ state[v] = "Running" /\ pid[v] # NoPid
          /\ cur' = v
          /\ out' = <<Ev("guard_kill", v, 0)>>
    /\ mpc' = "guardKill"
    /\ UNCHANGED <<childVars, kernelVars, shutdown, polls, chan, lock, front,
                   stateFile, spm>>

GuardKill ==
    /\ At("guardKill")
    /\ KillGroups({pid[cur]})
    /\ state' = [state EXCEPT ![cur] = "Stopping"]
    /\ mpc' = "restart"
    /\ cur' = 1
    /\ UNCHANGED <<pid, restartCount, timer, shutdown, polls, out, chan, lock,
                   front, stateFile, spm>>

Due(c) == state[c] = "Restarting" /\ timer[c] = "due"

RestartSkip ==
    /\ At("restart")
    /\ cur \in Children
    /\ ~Due(cur)
    /\ cur' = cur + 1
    /\ UNCHANGED <<childVars, kernelVars, shutdown, mpc, polls, out, chan, lock,
                   front, stateFile, spm>>

RestartEvents_Swapped(c) ==  \* mutant
    <<Ev("restart", c, restartCount[c]), Ev("spawn", c, 0)>>
RestartEvents(c) == <<Ev("spawn", c, 0), Ev("restart", c, restartCount[c])>>

RestartSpawn ==
    /\ At("restart")
    /\ cur \in Children
    /\ Due(cur)
    /\ timer' = ClearRestart(cur)
    /\ \/ /\ \E p \in FreePids : SpawnAs(cur, p)
          /\ out' = RestartEvents(cur)
       \/ /\ state' = [state EXCEPT ![cur] = "Failed"]
          /\ out' = FailedEvents(cur, restartCount[cur])
          /\ UNCHANGED <<pid, leader>>
    /\ cur' = cur + 1
    /\ UNCHANGED <<restartCount, members, shutdown, mpc, polls, chan, lock, front,
                   stateFile, spm>>

RestartDone ==
    /\ At("restart")
    /\ cur > N
    /\ mpc' = "publish"
    /\ UNCHANGED <<childVars, kernelVars, shutdown, cur, polls, out, chan, lock,
                   front, stateFile, spm>>

\* Mutant of Publish: no StateUpdate.
Publish_Silent ==
    /\ At("publish")
    /\ stateFile' = TRUE
    /\ mpc' = "release"
    /\ UNCHANGED <<childVars, kernelVars, shutdown, cur, polls, out, chan, lock,
                   front, spm>>

\* write_shared_state, then StateUpdate, both before the mutex is dropped.
Publish ==
    /\ At("publish")
    /\ stateFile' = TRUE
    /\ out' = <<Notice>>
    /\ mpc' = "release"
    /\ UNCHANGED <<childVars, kernelVars, shutdown, cur, polls, chan, lock, front,
                   spm>>

ReleaseLock ==
    /\ At("release")
    /\ lock' = "free"
    /\ mpc' = "top"
    /\ UNCHANGED <<childVars, kernelVars, shutdown, cur, polls, out, chan, front,
                   stateFile, spm>>

-----------------------------------------------------------------------------
(* shutdown_children, under the mutex *)

\* SIGTERM to the group of every Running or Stopping child.
ShutdownTerm ==
    /\ At("sdTerm")
    /\ lock = "free"
    /\ lock' = "monitor"
    /\ mpc' = "sdSleep"
    /\ UNCHANGED <<childVars, kernelVars, shutdown, cur, polls, out, chan, front,
                   stateFile, spm>>

ShutdownSleep ==
    /\ At("sdSleep")
    /\ polls' = polls + 1
    /\ mpc' = "sdReap"
    /\ UNCHANGED <<childVars, kernelVars, shutdown, cur, out, chan, lock, front,
                   stateFile, spm>>

\* Mutant of ShutdownReap: reap_zombies is called with allow_restart.
ShutdownReap_Restarts ==
    /\ At("sdReap")
    /\ ReapOne(TRUE)
    /\ UNCHANGED <<members, shutdown, mpc, cur, polls, chan, lock, front,
                   stateFile, spm>>

ShutdownReap ==
    /\ At("sdReap")
    /\ ReapOne(FALSE)
    /\ UNCHANGED <<members, shutdown, mpc, cur, polls, chan, lock, front,
                   stateFile, spm>>

AllDead == \A c \in Children : state[c] \notin Live

PollsSpent_OneMore == polls > ShutdownPolls  \* mutant
PollsSpent == polls = ShutdownPolls

ShutdownPolled ==
    /\ At("sdReap")
    /\ NoZombie
    /\ mpc' = IF AllDead \/ PollsSpent THEN "sdKill" ELSE "sdSleep"
    /\ UNCHANGED <<childVars, kernelVars, shutdown, cur, polls, out, chan, lock,
                   front, stateFile, spm>>

\* SIGKILL the groups that are left and forget them; remove the state file;
\* drop the mutex; then send SignalShutdown and end the thread.
ShutdownKill ==
    /\ At("sdKill")
    /\ KillGroups({pid[c] : c \in {d \in Children : state[d] \in Live}})
    /\ state' = [c \in Children |-> IF state[c] \in Live THEN "Stopped" ELSE state[c]]
    /\ pid' = [c \in Children |-> IF state[c] \in Live THEN NoPid ELSE pid[c]]
    /\ stateFile' = FALSE
    /\ lock' = "free"
    /\ out' = <<Ev("shutdown", 0, 0)>>
    /\ mpc' = "done"
    /\ UNCHANGED <<restartCount, timer, shutdown, cur, polls, chan, front, spm>>

Monitor ==
    \/ MonitorSend \/ InstallHandlers \/ CheckFlag \/ AcquireLock
    \/ Reap \/ ReapDone
    \/ HealthPass \/ HealthTerm \/ HealthKill \/ HealthDone
    \/ GuardPass \/ GuardTerm \/ GuardKill
    \/ RestartSkip \/ RestartSpawn \/ RestartDone
    \/ Publish \/ ReleaseLock
    \/ ShutdownTerm \/ ShutdownSleep \/ ShutdownReap \/ ShutdownPolled \/ ShutdownKill

-----------------------------------------------------------------------------
(* The kernel, the commands and the passing of time: outside src/ *)

\* A command ends by itself or because of a SIGTERM it does not ignore.  One
\* that was already ending may still report success under a SIGKILL.
LeaderExits ==
    /\ \E p \in Pids, s \in Zombies :
          /\ leader[p] = "alive" \/ (leader[p] = "dying" /\ s = "zero")
          /\ leader' = [leader EXCEPT ![p] = s]
    /\ UNCHANGED <<childVars, members, shutdown, mpc, cur, polls, out, chan, lock,
                   front, stateFile, spm>>

\* A pending SIGKILL takes effect.
LeaderKilled ==
    /\ \E p \in Pids :
          /\ leader[p] = "dying"
          /\ leader' = [leader EXCEPT ![p] = "error"]
    /\ UNCHANGED <<childVars, members, shutdown, mpc, cur, polls, out, chan, lock,
                   front, stateFile, spm>>

Forks ==
    /\ \E c \in Forkers :
          /\ pid[c] # NoPid
          /\ leader[pid[c]] = "alive"
          /\ pid[c] \notin members
          /\ members' = members \cup {pid[c]}
    /\ UNCHANGED <<childVars, leader, shutdown, mpc, cur, polls, out, chan, lock,
                   front, stateFile, spm>>

MembersExit ==
    /\ \E p \in members : members' = members \ {p}
    /\ UNCHANGED <<childVars, leader, shutdown, mpc, cur, polls, out, chan, lock,
                   front, stateFile, spm>>

\* An unrelated process starts with a pid nobody uses, or ends.
ForeignProcess ==
    /\ \E p \in Reusable :
          \/ /\ p \in FreePids
             /\ leader' = [leader EXCEPT ![p] = "foreign"]
          \/ /\ leader[p] = "foreign"
             /\ leader' = [leader EXCEPT ![p] = "none"]
    /\ UNCHANGED <<childVars, members, shutdown, mpc, cur, polls, out, chan, lock,
                   front, stateFile, spm>>

\* restart_at passes.
BackoffElapses ==
    /\ spm = "up"
    /\ \E c \in Children :
          /\ timer[c] = "waiting"
          /\ timer' = [timer EXCEPT ![c] = "due"]
    /\ UNCHANGED <<state, pid, restartCount, kernelVars, shutdown, mpc, cur, polls,
                   out, chan, lock, front, stateFile, spm>>

\* SIGINT or SIGTERM.  Before the handlers are installed it kills spm.
TermSignal ==
    /\ spm = "up"
    /\ IF mpc \in Startup
       THEN spm' = "killed" /\ UNCHANGED shutdown
       ELSE ~shutdown /\ shutdown' = TRUE /\ UNCHANGED spm
    /\ UNCHANGED <<childVars, kernelVars, mpc, cur, polls, out, chan, lock, front,
                   stateFile>>

Environment ==
    \/ LeaderExits \/ LeaderKilled \/ Forks \/ MembersExit
    \/ ForeignProcess \/ BackoffElapses \/ TermSignal

-----------------------------------------------------------------------------
(* An arbitrary front end on the main thread *)

FrontReady == spm = "up" /\ mpc \notin {"spawning", "announcing"} /\ lock # "front"

FrontReceive ==
    /\ FrontReady
    /\ chan # <<>>
    /\ chan' = Tail(chan)
    /\ UNCHANGED <<childVars, kernelVars, shutdown, mpc, cur, polls, out, lock,
                   front, stateFile, spm>>

\* The TUI's restart key: take the mutex and SIGTERM the group ...
FrontRestart ==
    /\ FrontReady
    /\ lock = "free"
    /\ \E c \in Children :
          /\ pid[c] # NoPid
          /\ front' = c
    /\ lock' = "front"
    /\ UNCHANGED <<childVars, kernelVars, shutdown, mpc, cur, polls, out, chan,
                   stateFile, spm>>

\* ... then, 3 s later and still under the mutex, SIGKILL what is left.
FrontKill ==
    /\ spm = "up" /\ lock = "front"
    /\ KillGroups({pid[front]})
    /\ state' = [state EXCEPT ![front] = "Stopping"]
    /\ front' = 0
    /\ lock' = "free"
    /\ UNCHANGED <<pid, restartCount, timer, shutdown, mpc, cur, polls, out, chan,
                   stateFile, spm>>

\* remove_shared_state, called by the headless front end before it ends.
FrontRemove ==
    /\ FrontReady
    /\ stateFile' = FALSE
    /\ UNCHANGED <<childVars, kernelVars, shutdown, mpc, cur, polls, out, chan,
                   lock, front, spm>>

\* main returns, which ends the monitor thread wherever it is.
FrontExit ==
    /\ FrontReady
    /\ spm' = "exited"
    /\ UNCHANGED <<childVars, kernelVars, shutdown, mpc, cur, polls, out, chan,
                   lock, front, stateFile>>

FrontEnd == FrontReceive \/ FrontRestart \/ FrontKill \/ FrontRemove \/ FrontExit

-----------------------------------------------------------------------------
Next == StartUp \/ Monitor \/ Environment \/ FrontEnd

Spec == Init /\ [][Next]_vars

-----------------------------------------------------------------------------
(* Properties *)

ChildTypeOK ==
    /\ state \in [Children -> ChildStates]
    /\ pid \in [Children -> Pids \cup {NoPid}]
    /\ restartCount \in [Children -> Nat]
    /\ timer \in [Children -> Timers]
    /\ leader \in [Pids -> Leaders]
    /\ members \subseteq Pids

ControlTypeOK ==
    /\ shutdown \in BOOLEAN
    /\ mpc \in Labels
    /\ cur \in 1..(N + 1)
    /\ polls \in 0..ShutdownPolls
    /\ out \in Seq(Event)
    /\ chan \in Seq(Event)
    /\ lock \in {"free", "monitor", "front"}
    /\ front \in 0..N
    /\ stateFile \in BOOLEAN
    /\ spm \in {"up", "exited", "killed"}

\* Every variable has its type; in particular the waits of shutdown_children
\* never exceed their number and no loop runs past the last child.
TypeOK == ChildTypeOK /\ ControlTypeOK

\* A child has a pid exactly while it is Running or Stopping, and that pid is
\* the unreaped leader spm started for it and for no other child: no signal
\* the supervisor sends through child.pgid can reach a recycled pid
\* (monitor.rs: handle_child_exit clears both before the zombie's number is
\* used again).
PidNamesOwnLeader ==
    /\ \A c \in Children : pid[c] # NoPid <=> state[c] \in Live
    /\ \A c \in Children : pid[c] # NoPid => leader[pid[c]] \in Ours
    /\ \A c, d \in Children : pid[c] = pid[d] /\ pid[c] # NoPid => c = d

\* No SIGKILL of the supervisor ever hits a process it did not start
\* (process.rs: kill_process_group on a pgid read under the mutex).
NothingForeignShot == \A p \in Pids : leader[p] # "shot"

\* A child marked Stopping has no group member left that could outlive the
\* kill: its leader is ended or has a SIGKILL pending, so that reap_zombies
\* will see it end (monitor.rs 434-435, 497-499, main.rs 1061-1062).
StoppingIsDying ==
    \A c \in Children :
        state[c] = "Stopping" => /\ leader[pid[c]] \in Ours \ {"alive"}
                                 /\ pid[c] \notin members

\* No process is forgotten: a leader that no child names has been sent
\* SIGKILL by the end of shutdown_children, so none is left running, whatever
\* the front end did meanwhile.
NoStrayLeader ==
    \A p \in Pids :
        leader[p] \in Ours /\ (\A c \in Children : pid[c] # p) =>
            mpc = "done" /\ leader[p] # "alive"

\* A child waiting for its restart always has a restart time, and only such a
\* child has one: no child stays Restarting for ever and none that ended for
\* good is started again (handle_child_exit and the restart loop of
\* spawn_monitor_thread).
RestartIsPending ==
    \A c \in Children : state[c] = "Restarting" <=> timer[c] # "unset"

\* A child is restarted MaxRestarts times at most (should_restart), counting
\* the failures in restart_count.
RestartBound ==
    \A c \in Children :
        /\ restartCount[c] <= MaxRestarts + 1
        /\ state[c] \in Live \cup {"Restarting"} => restartCount[c] <= MaxRestarts
=============================================================================
