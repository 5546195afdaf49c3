-------------------------- MODULE SupervisorProofs --------------------------
(***************************************************************************)
(* Proofs about the supervisor core, for every number of children, every   *)
(* set of pids, every MaxRestarts and every ShutdownPolls: its inductive    *)
(* invariant, then, by the mapping of SupervisorLife, that it implements    *)
(* Lifecycle.                                                              *)
(***************************************************************************)
EXTENDS SupervisorLife, TLAPS

-----------------------------------------------------------------------------
(* The inductive invariant: the properties of Supervisor and what ties the *)
(* mutex, the loop cursor and the startup to the program counter.          *)

Held == Iteration \cup Draining

LockInv ==
    /\ lock = "monitor" <=> mpc \in Held
    /\ lock = "front" <=> front # 0
    /\ front # 0 => pid[front] # NoPid

CursorInv ==
    mpc \in {"healthKill", "guardKill"} =>
        cur \in Children /\ state[cur] = "Running"

StartupInv ==
    /\ mpc = "spawning" => \A c \in Children : /\ state[c] = "Stopped" <=> c >= cur
                                               /\ restartCount[c] = 0
    /\ mpc \notin {"spawning", "done"} => \A c \in Children : state[c] # "Stopped"

PollsInv ==
    /\ mpc \notin {"sdSleep", "sdReap", "sdKill", "done"} => polls = 0
    /\ mpc = "sdSleep" => polls < ShutdownPolls

\* What holds of the children and their processes ...
DataInv ==
    /\ ChildTypeOK
    /\ PidNamesOwnLeader
    /\ StoppingIsDying
    /\ NoStrayLeader
    /\ RestartIsPending
    /\ RestartBound

\* ... and of the threads.
ControlInv ==
    /\ ControlTypeOK
    /\ LockInv
    /\ CursorInv
    /\ StartupInv
    /\ PollsInv

IInv == DataInv /\ ControlInv

-----------------------------------------------------------------------------
(* Lemmas about the operators *)

LEMMA NoPidIsNoPid == \A p \in Pids : p # NoPid
  BY PidAssumption

LEMMA ChildrenAreNumbers == Children \subseteq 1..N /\ 1..N \subseteq Nat
  BY NAssumption DEF Children

\* Every event the actions send has the type of an event.
LEMMA EvType ==
  ASSUME NEW type \in EventTypes, NEW c \in 0..N, NEW n \in Nat
  PROVE  Ev(type, c, n) \in Event
  BY DEF Ev, Event

LEMMA NoticeType == Notice \in Event
  BY NAssumption DEF Notice, Ev, Event, EventTypes

LEMMA ExitEventType ==
  ASSUME NEW c \in Children
  PROVE  ExitEvent(c) \in Event
  BY NAssumption DEF ExitEvent, Ev, Event, EventTypes, Children

LEMMA EnqueueType ==
  ASSUME NEW q \in Seq(Event), NEW e \in Event
  PROVE  Enqueue(q, e) \in Seq(Event)
  BY DEF Enqueue

\* What a SIGKILL to the groups of children does to the kernel's state.
LEMMA KillGroupsType ==
  ASSUME leader \in [Pids -> Leaders], members \subseteq Pids,
         NEW P, KillGroups(P)
  PROVE  leader' \in [Pids -> Leaders] /\ members' \subseteq Pids
  BY DEF KillGroups, Leaders

-----------------------------------------------------------------------------
(* What the steps that touch a child or a process preserve *)

\* A step that leaves them alone.
LEMMA DataFrame ==
  ASSUME DataInv, UNCHANGED <<childVars, kernelVars>>, mpc = "done" => mpc' = "done"
  PROVE  DataInv'
  BY DEF DataInv, ChildTypeOK, PidNamesOwnLeader, StoppingIsDying,
         NoStrayLeader, RestartIsPending, RestartBound, childVars, kernelVars

\* A process is started for a child that has none.
LEMMA DataSpawn ==
  ASSUME DataInv, NEW c \in Children, NEW p \in FreePids, SpawnAs(c, p),
         pid[c] = NoPid, restartCount[c] <= MaxRestarts,
         timer' = [timer EXCEPT ![c] = "unset"],
         UNCHANGED <<restartCount, members, mpc>>
  PROVE  DataInv'
<1> USE NoPidIsNoPid DEF DataInv, SpawnAs, FreePids
<1>1. ChildTypeOK'
  BY DEF ChildTypeOK, ChildStates, Leaders, Timers
<1>2. PidNamesOwnLeader'
  BY DEF ChildTypeOK, PidNamesOwnLeader, Live, Ours
<1>3. StoppingIsDying'
  BY DEF ChildTypeOK, PidNamesOwnLeader, StoppingIsDying, Live, Ours
<1>4. NoStrayLeader'
  BY DEF ChildTypeOK, PidNamesOwnLeader, NoStrayLeader, Ours
<1>5. RestartIsPending' /\ RestartBound'
  BY RestartAssumption DEF ChildTypeOK, RestartIsPending, RestartBound, Live, Timers
<1>6. QED
  BY <1>1, <1>2, <1>3, <1>4, <1>5

\* Starting one fails.
LEMMA DataRefuse ==
  ASSUME DataInv, NEW c \in Children, pid[c] = NoPid,
         restartCount[c] <= MaxRestarts,
         state' = [state EXCEPT ![c] = "Failed"],
         timer' = [timer EXCEPT ![c] = "unset"],
         UNCHANGED <<pid, restartCount, leader, members, mpc>>
  PROVE  DataInv'
<1> USE NoPidIsNoPid DEF DataInv
<1>1. ChildTypeOK'
  BY DEF ChildTypeOK, ChildStates, Timers
<1>2. PidNamesOwnLeader' /\ StoppingIsDying' /\ NoStrayLeader'
  BY DEF ChildTypeOK, PidNamesOwnLeader, StoppingIsDying, NoStrayLeader, Live
<1>3. RestartIsPending' /\ RestartBound'
  BY RestartAssumption DEF ChildTypeOK, RestartIsPending, RestartBound, Live, Timers
<1>4. QED
  BY <1>1, <1>2, <1>3

\* The group of a child is shot under the mutex and the child marked Stopping.
LEMMA DataKill ==
  ASSUME DataInv, NEW c \in Children, pid[c] # NoPid,
         KillGroups({pid[c]}),
         state' = [state EXCEPT ![c] = "Stopping"],
         UNCHANGED <<pid, restartCount, timer>>, mpc = "done" => mpc' = "done"
  PROVE  DataInv'
<1> USE NoPidIsNoPid DEF DataInv
<1>1. \A p \in Pids : p # pid[c] => leader'[p] = leader[p]
  BY DEF KillGroups, ChildTypeOK
<1>2. /\ pid[c] \in Pids
      /\ leader'[pid[c]] = IF leader[pid[c]] = "alive" THEN "dying" ELSE leader[pid[c]]
      /\ leader[pid[c]] \in Ours
  BY DEF KillGroups, ChildTypeOK, PidNamesOwnLeader, Ours
<1>3. members' = members \ {pid[c]}
  BY DEF KillGroups
<1>4. ChildTypeOK'
  BY <1>3, KillGroupsType DEF ChildTypeOK, ChildStates
<1>5. PidNamesOwnLeader'
  BY <1>1, <1>2 DEF ChildTypeOK, PidNamesOwnLeader, Live, Ours
<1>6. StoppingIsDying'
  BY <1>1, <1>2, <1>3 DEF ChildTypeOK, PidNamesOwnLeader, StoppingIsDying, Live, Ours
<1>7. NoStrayLeader'
  BY <1>1, <1>2 DEF ChildTypeOK, NoStrayLeader, Ours
<1>8. RestartIsPending' /\ RestartBound'
  BY DEF ChildTypeOK, PidNamesOwnLeader, RestartIsPending, RestartBound, Live, Timers
<1>9. QED
  BY <1>4, <1>5, <1>6, <1>7, <1>8

\* A process is reaped, and handle_child_exit settles its child.
LEMMA DataExit ==
  ASSUME DataInv, NEW c \in Children, NEW allow \in BOOLEAN,
         pid[c] # NoPid, leader[pid[c]] \in Zombies,
         HandleExit(c, leader[pid[c]], allow),
         UNCHANGED <<members, mpc>>
  PROVE  /\ DataInv'
         /\ out' \in Seq(Event)
         /\ state' \in [Children -> ChildStates]
         /\ \A d \in Children : d # c => state'[d] = state[d]
         /\ state'[c] \in {"Completed", "Restarting", "Failed"}
<1> USE NoPidIsNoPid DEF DataInv, HandleExit
<1>1. /\ pid' = [pid EXCEPT ![c] = NoPid]
      /\ leader' = [leader EXCEPT ![pid[c]] = "none"]
      /\ pid[c] \in Pids /\ state[c] \in Live
  BY DEF ClearPid, ChildTypeOK, PidNamesOwnLeader
<1>2. \/ /\ state' = [state EXCEPT ![c] = "Completed"]
         /\ timer' = [timer EXCEPT ![c] = "unset"]
         /\ restartCount' = restartCount
      \/ /\ state' = [state EXCEPT ![c] = "Restarting"]
         /\ timer' = [timer EXCEPT ![c] = "waiting"]
         /\ restartCount' = [restartCount EXCEPT ![c] = @ + 1]
         /\ restartCount[c] + 1 <= MaxRestarts
      \/ /\ state' = [state EXCEPT ![c] = "Failed"]
         /\ timer' = [timer EXCEPT ![c] = "unset"]
         /\ restartCount' = [restartCount EXCEPT ![c] = @ + 1]
  BY DEF Completes, Retries, GivesUp, ShouldRestart, ClearRestart, ScheduleRestart
<1>3. /\ state' \in [Children -> ChildStates]
      /\ \A d \in Children : d # c => state'[d] = state[d]
      /\ state'[c] \in {"Completed", "Restarting", "Failed"}
  BY <1>2 DEF ChildTypeOK, ChildStates
<1>4. ChildTypeOK'
  BY <1>1, <1>2, <1>3 DEF ChildTypeOK, Timers, Leaders
<1>5. PidNamesOwnLeader'
  BY <1>1, <1>3 DEF ChildTypeOK, PidNamesOwnLeader, Live, Ours
<1>6. StoppingIsDying'
  BY <1>1, <1>3 DEF ChildTypeOK, PidNamesOwnLeader, StoppingIsDying, Live
<1>7. NoStrayLeader'
  BY <1>1 DEF ChildTypeOK, NoStrayLeader, Ours
<1>8. RestartIsPending' /\ RestartBound'
  BY <1>1, <1>2, RestartAssumption
     DEF ChildTypeOK, RestartIsPending, RestartBound, Live, Timers
<1>9. out' \in Seq(Event)
  <2>1. restartCount[c] + 1 \in Nat
    BY DEF ChildTypeOK
  <2>2. Ev("completed", c, 0) \in Event /\ Ev("failed", c, restartCount[c] + 1) \in Event
    BY <2>1, EvType DEF Children, EventTypes
  <2>3. out' \in {<<ExitEvent(c), Ev("completed", c, 0)>>, <<ExitEvent(c)>>,
                  <<ExitEvent(c)>> \o <<Ev("failed", c, restartCount[c] + 1)>>}
    BY DEF Completes, Retries, GivesUp, FailedEvents
  <2>4. ExitEvent(c) \in Event
    BY ExitEventType
  <2>5. \A e, f \in Event : <<e, f>> \in Seq(Event) /\ <<e>> \in Seq(Event)
                           /\ <<e>> \o <<f>> \in Seq(Event)
    OBVIOUS
  <2> HIDE DEF HandleExit
  <2>6. QED
    BY <2>2, <2>3, <2>4, <2>5
<1>10. QED
  BY <1>3, <1>4, <1>5, <1>6, <1>7, <1>8, <1>9

\* A turn of reap_zombies.
LEMMA DataReap ==
  ASSUME DataInv, out \in Seq(Event), NEW allow \in BOOLEAN, ReapOne(allow),
         UNCHANGED <<members, mpc>>
  PROVE  /\ DataInv'
         /\ out' \in Seq(Event)
         /\ (\A c \in Children : state[c] # "Stopped") =>
               (\A c \in Children : state'[c] # "Stopped")
<1>1. PICK p \in Pids :
         /\ leader[p] \in Zombies
         /\ \/ \E c \in Children : pid[c] = p /\ HandleExit(c, leader[p], allow)
            \/ /\ \A c \in Children : pid[c] # p
               /\ leader' = [leader EXCEPT ![p] = "none"]
               /\ UNCHANGED <<state, pid, restartCount, timer, out>>
  BY DEF ReapOne
<1>2. CASE \E c \in Children : pid[c] = p /\ HandleExit(c, leader[p], allow)
  <2>1. PICK c \in Children : pid[c] = p /\ HandleExit(c, leader[p], allow)
    BY <1>2
  <2>2. pid[c] # NoPid
    BY <2>1, NoPidIsNoPid
  <2>3. QED
    BY <1>1, <2>1, <2>2, DataExit
<1>3. CASE /\ \A c \in Children : pid[c] # p
           /\ leader' = [leader EXCEPT ![p] = "none"]
           /\ UNCHANGED <<state, pid, restartCount, timer, out>>
  BY <1>1, <1>3, NoPidIsNoPid
     DEF DataInv, ChildTypeOK, PidNamesOwnLeader, StoppingIsDying,
         NoStrayLeader, RestartIsPending, RestartBound, Leaders, Ours
<1>4. QED
  BY <1>1, <1>2, <1>3

\* The end of shutdown_children.
LEMMA DataShutdownKill ==
  ASSUME DataInv, ShutdownKill
  PROVE  DataInv'
<1> USE NoPidIsNoPid DEF DataInv
<1> DEFINE L == {c \in Children : state[c] \in Live}
           P == {pid[c] : c \in L}
<1>1. /\ state' = [c \in Children |-> IF state[c] \in Live THEN "Stopped" ELSE state[c]]
      /\ pid' = [c \in Children |-> IF state[c] \in Live THEN NoPid ELSE pid[c]]
      /\ UNCHANGED <<restartCount, timer>>
      /\ mpc' = "done"
      /\ KillGroups(P)
  BY DEF ShutdownKill
<1>2. \A p \in P : leader[p] \in Ours
  BY DEF PidNamesOwnLeader, Live
<1>3. \A c \in Children : pid[c] # NoPid => pid[c] \in P
  BY DEF PidNamesOwnLeader
<1>4. /\ \A p \in Pids : p \notin P => leader'[p] = leader[p]
      /\ \A p \in Pids : p \in P => leader'[p] \in Ours \ {"alive"}
      /\ members' \subseteq members
  <2>1. \A p \in Pids : leader'[p] = IF p \notin P THEN leader[p]
                                     ELSE IF leader[p] = "alive" THEN "dying"
                                     ELSE IF leader[p] = "foreign" THEN "shot"
                                     ELSE leader[p]
    BY <1>1 DEF KillGroups
  <2>2. members' \subseteq members
    BY <1>1 DEF KillGroups
  <2>3. QED
    BY <2>1, <2>2, <1>2 DEF Ours
<1>5. \A c \in Children : pid'[c] = NoPid /\ state'[c] \notin Live
  BY <1>1 DEF PidNamesOwnLeader, Live
<1>6. ChildTypeOK'
  BY <1>1, KillGroupsType DEF ChildTypeOK, ChildStates
<1>7. PidNamesOwnLeader' /\ StoppingIsDying'
  BY <1>5 DEF PidNamesOwnLeader, StoppingIsDying, Live
<1>8. NoStrayLeader'
  BY <1>1, <1>3, <1>4 DEF NoStrayLeader, Ours
<1>9. RestartIsPending' /\ RestartBound'
  BY <1>1 DEF ChildTypeOK, RestartIsPending, RestartBound, Live
<1>10. QED
  BY <1>6, <1>7, <1>8, <1>9

\* The steps of the kernel and of the commands.
LEMMA DataKernel ==
  ASSUME DataInv, LeaderExits \/ LeaderKilled \/ Forks \/ MembersExit \/ ForeignProcess
  PROVE  DataInv'
<1> USE NoPidIsNoPid DEF DataInv, childVars
<1>1. CASE LeaderExits
  BY <1>1 DEF LeaderExits, ChildTypeOK, PidNamesOwnLeader,
     StoppingIsDying, NoStrayLeader, RestartIsPending, RestartBound, Leaders, Ours, Zombies
<1>2. CASE LeaderKilled
  BY <1>2 DEF LeaderKilled, ChildTypeOK, PidNamesOwnLeader,
     StoppingIsDying, NoStrayLeader, RestartIsPending, RestartBound, Leaders, Ours
<1>3. CASE Forks
  BY <1>3, ScopeAssumption DEF Forks, ChildTypeOK, PidNamesOwnLeader,
     StoppingIsDying, NoStrayLeader, RestartIsPending, RestartBound, Live, Ours
<1>4. CASE MembersExit
  BY <1>4 DEF MembersExit, ChildTypeOK, PidNamesOwnLeader,
     StoppingIsDying, NoStrayLeader, RestartIsPending, RestartBound
<1>5. CASE ForeignProcess
  <2>1. PICK p \in Pids : /\ leader[p] \in {"none", "foreign"}
                          /\ \E w \in {"none", "foreign"} :
                                leader' = [leader EXCEPT ![p] = w]
    BY <1>5, ScopeAssumption DEF ForeignProcess, FreePids
  <2>2. UNCHANGED <<state, pid, restartCount, timer, members, mpc>>
    BY <1>5 DEF ForeignProcess
  <2>3. QED
    BY <2>1, <2>2 DEF ChildTypeOK, PidNamesOwnLeader,
       StoppingIsDying, NoStrayLeader, RestartIsPending, RestartBound, Leaders, Live, Ours
<1>6. QED
  BY <1>1, <1>2, <1>3, <1>4, <1>5

LEMMA DataBackoff ==
  ASSUME DataInv, BackoffElapses
  PROVE  DataInv'
<1>1. PICK c \in Children : timer[c] = "waiting" /\ timer' = [timer EXCEPT ![c] = "due"]
  BY DEF BackoffElapses
<1>2. UNCHANGED <<state, pid, restartCount, leader, members, mpc>>
  BY DEF BackoffElapses, kernelVars
<1>3. QED
  BY <1>1, <1>2 DEF DataInv, ChildTypeOK, PidNamesOwnLeader,
     StoppingIsDying, NoStrayLeader, RestartIsPending, RestartBound, Timers

-----------------------------------------------------------------------------
(* What the other variables keep, action by action *)

\* Every action keeps the events in order of sending and of the right type.
LEMMA QueueType ==
  /\ <<>> \in Seq(Event)
  /\ \A e \in Event : <<e>> \in Seq(Event)
  /\ \A e, f \in Event : <<e, f>> \in Seq(Event)
  OBVIOUS

\* The steps of the startup.
LEMMA StartUpIInvStep ==
  ASSUME IInv, StartUp
  PROVE  IInv'
<1> USE NAssumption, PollAssumption
    DEF IInv, ControlInv, ControlTypeOK, LockInv, CursorInv, StartupInv, PollsInv, Held,
        Startup, Iteration, Draining, ShutPhases, Labels, Children
<1>1. CASE SpawnInitial
  <2>1. /\ DataInv /\ cur \in Children /\ state[cur] = "Stopped" /\ restartCount[cur] = 0
        /\ pid[cur] = NoPid /\ timer[cur] = "unset" /\ timer' = timer
        /\ front # 0 => front \in Children
    <3>1. cur \in Children /\ cur >= cur /\ mpc = "spawning" /\ timer' = timer
      BY <1>1 DEF SpawnInitial
    <3>2. state[cur] = "Stopped" /\ restartCount[cur] = 0
      BY <3>1
    <3>3. pid[cur] = NoPid
      BY <3>1, <3>2 DEF DataInv, PidNamesOwnLeader, Live
    <3>4. timer[cur] = "unset"
      BY <3>1, <3>2 DEF DataInv, RestartIsPending
    <3>5. QED
      BY <3>1, <3>2, <3>3, <3>4
  <2>2. timer' = [timer EXCEPT ![cur] = "unset"]
    BY <2>1 DEF DataInv, ChildTypeOK
  <2>3. CASE \E p \in FreePids : SpawnAs(cur, p)
    <3>1. PICK p \in FreePids : SpawnAs(cur, p)
      BY <2>3
    <3>2. DataInv'
      <4> HIDE NAssumption, PollAssumption
             DEF IInv, ControlInv, ControlTypeOK, LockInv, CursorInv, StartupInv, PollsInv,
                 Held, Startup, Iteration, Draining, ShutPhases, Labels, Children
      <4>1. UNCHANGED <<restartCount, members, mpc>>
        BY <1>1 DEF SpawnInitial
      <4>2. restartCount[cur] <= MaxRestarts
        BY <2>1, RestartAssumption
      <4>3. QED
        BY <2>1, <2>2, <3>1, <4>1, <4>2, DataSpawn
    <3>3. ControlInv'
      <4>1. LockInv'
        BY <1>1, <2>1, <3>1, NoPidIsNoPid
           DEF SpawnInitial, SpawnAs, FreePids, DataInv, ChildTypeOK
      <4>2. StartupInv'
        BY <1>1, <2>1, <3>1 DEF SpawnInitial, SpawnAs, DataInv, ChildTypeOK
      <4>3. ControlTypeOK' /\ CursorInv' /\ PollsInv'
        BY <1>1 DEF SpawnInitial
      <4>4. QED
        BY <4>1, <4>2, <4>3
    <3>4. QED
      BY <3>2, <3>3
  <2>4. CASE /\ state' = [state EXCEPT ![cur] = "Failed"]
             /\ UNCHANGED <<pid, leader>>
    <3>1. DataInv'
      <4> HIDE NAssumption, PollAssumption
             DEF IInv, ControlInv, ControlTypeOK, LockInv, CursorInv, StartupInv, PollsInv,
                 Held, Startup, Iteration, Draining, ShutPhases, Labels, Children
      <4>1. UNCHANGED <<restartCount, members, mpc>>
        BY <1>1 DEF SpawnInitial
      <4>2. restartCount[cur] <= MaxRestarts
        BY <2>1, RestartAssumption
      <4>3. QED
        BY <2>1, <2>2, <2>4, <4>1, <4>2, DataRefuse
    <3>2. ControlInv'
      BY <1>1, <2>1, <2>4 DEF SpawnInitial, DataInv, ChildTypeOK
    <3>3. QED
      BY <3>1, <3>2
  <2>5. QED
    BY <1>1, <2>3, <2>4 DEF SpawnInitial
<1>2. CASE SpawnsDone
  <2>1. DataInv'
    BY <1>2, DataFrame DEF SpawnsDone
  <2>2. ControlInv'
    BY <1>2 DEF SpawnsDone, childVars, kernelVars
  <2>3. QED
    BY <2>1, <2>2
<1>3. CASE Announce
  <2>1. DataInv'
    BY <1>3, DataFrame DEF Announce
  <2>2. Ev("spawn", cur, 0) \in Event
    BY <1>3, EvType DEF Announce, EventTypes
  <2>3. ControlInv'
    BY <1>3, <2>2 DEF Announce, childVars, kernelVars
  <2>4. QED
    BY <2>1, <2>3
<1>4. CASE StartMonitor
  <2>1. DataInv'
    BY <1>4, DataFrame DEF StartMonitor
  <2>2. ControlInv'
    BY <1>4 DEF StartMonitor, childVars, kernelVars
  <2>3. QED
    BY <2>1, <2>2
<1>5. QED
  BY <1>1, <1>2, <1>3, <1>4 DEF StartUp

\* The steps of the monitor thread that touch no child.
LEMMA MonitorControlIInvStep ==
  ASSUME IInv,
         \/ MonitorSend \/ InstallHandlers \/ CheckFlag \/ AcquireLock \/ ReapDone
         \/ HealthPass \/ HealthTerm \/ HealthDone \/ GuardPass \/ GuardTerm
         \/ RestartSkip \/ RestartDone \/ Publish \/ ReleaseLock
         \/ ShutdownTerm \/ ShutdownSleep \/ ShutdownPolled
  PROVE  IInv'
<1> USE NAssumption, PollAssumption, QueueType, NoticeType
    DEF IInv, ControlInv, ControlTypeOK, LockInv, CursorInv, StartupInv, PollsInv, Held,
        Startup, Iteration, Draining, ShutPhases, Labels, Children, At, childVars
<1>1. DataInv'
  BY DataFrame DEF MonitorSend, InstallHandlers, CheckFlag, AcquireLock, ReapDone,
     HealthPass, HealthTerm, HealthDone, GuardPass, GuardTerm, RestartSkip, RestartDone,
     Publish, ReleaseLock, ShutdownTerm, ShutdownSleep, ShutdownPolled
<1>2. CASE MonitorSend
  <2>1. Head(out) \in Event /\ Tail(out) \in Seq(Event)
    BY <1>2 DEF MonitorSend
  <2>2. Enqueue(chan, Head(out)) \in Seq(Event)
    BY <2>1, EnqueueType
  <2>3. QED
    BY <1>1, <1>2, <2>1, <2>2 DEF MonitorSend
<1>3. CASE InstallHandlers
  BY <1>1, <1>3 DEF InstallHandlers
<1>4. CASE CheckFlag
  BY <1>1, <1>4 DEF CheckFlag
<1>5. CASE AcquireLock
  BY <1>1, <1>5 DEF AcquireLock
<1>6. CASE ReapDone
  BY <1>1, <1>6 DEF ReapDone
<1>7. CASE HealthPass
  <2>1. out' \in Seq(Event)
    BY <1>7 DEF HealthPass
  <2>2. QED
    BY <1>1, <1>7, <2>1 DEF HealthPass
<1>8. CASE HealthTerm
  <2>1. \A c \in Children : Ev("health_kill", c, 0) \in Event
    BY EvType DEF EventTypes
  <2>2. QED
    BY <1>1, <1>8, <2>1 DEF HealthTerm
<1>9. CASE HealthDone
  BY <1>1, <1>9 DEF HealthDone
<1>10. CASE GuardPass
  <2>1. out' \in Seq(Event)
    BY <1>10 DEF GuardPass
  <2>2. QED
    BY <1>1, <1>10, <2>1 DEF GuardPass
<1>11. CASE GuardTerm
  <2>1. \A c \in Children : Ev("guard_kill", c, 0) \in Event
    BY EvType DEF EventTypes
  <2>2. QED
    BY <1>1, <1>11, <2>1 DEF GuardTerm
<1>12. CASE RestartSkip
  BY <1>1, <1>12 DEF RestartSkip
<1>13. CASE RestartDone
  BY <1>1, <1>13 DEF RestartDone
<1>14. CASE Publish
  BY <1>1, <1>14 DEF Publish
<1>15. CASE ReleaseLock
  BY <1>1, <1>15 DEF ReleaseLock
<1>16. CASE ShutdownTerm
  BY <1>1, <1>16 DEF ShutdownTerm
<1>17. CASE ShutdownSleep
  BY <1>1, <1>17 DEF ShutdownSleep
<1>18. CASE ShutdownPolled
  BY <1>1, <1>18 DEF ShutdownPolled, PollsSpent
<1> HIDE NAssumption, PollAssumption, QueueType, NoticeType
         DEF IInv, ControlInv, ControlTypeOK, LockInv, CursorInv, StartupInv, PollsInv,
             Held, Startup, Iteration, Draining, ShutPhases, Labels, Children
<1>19. QED
  BY <1>2, <1>3, <1>4, <1>5, <1>6, <1>7, <1>8, <1>9, <1>10, <1>11, <1>12, <1>13,
     <1>14, <1>15, <1>16, <1>17, <1>18

\* The steps of the monitor thread that change a child or a process.
LEMMA MonitorDataIInvStep ==
  ASSUME IInv,
         \/ Reap \/ HealthKill \/ GuardKill \/ RestartSpawn
         \/ ShutdownReap \/ ShutdownKill
  PROVE  IInv'
<1> USE NAssumption, PollAssumption DEF IInv
<1>1. ASSUME Reap \/ ShutdownReap
      PROVE  IInv'
  <2>1. PICK allow \in BOOLEAN : ReapOne(allow)
    BY <1>1 DEF Reap, ShutdownReap
  <2>2. /\ mpc \in {"reap", "sdReap"} /\ out \in Seq(Event)
        /\ UNCHANGED <<members, shutdown, mpc, cur, polls, chan, lock, front, stateFile,
                       spm>>
    BY <1>1 DEF Reap, ShutdownReap, At, ControlInv, ControlTypeOK
  <2>3. /\ DataInv'
        /\ out' \in Seq(Event)
        /\ (\A c \in Children : state[c] # "Stopped") =>
              (\A c \in Children : state'[c] # "Stopped")
    BY <2>1, <2>2, DataReap
  <2>4. front = 0
    BY <2>2 DEF ControlInv, LockInv, Held, Iteration, Draining
  <2>5. QED
    BY <2>2, <2>3, <2>4
       DEF ControlInv, ControlTypeOK, LockInv, CursorInv, StartupInv, PollsInv
<1>2. ASSUME HealthKill \/ GuardKill
      PROVE  IInv'
  <2>1. /\ cur \in Children /\ mpc \in {"healthKill", "guardKill"}
        /\ mpc' \in {"health", "restart"} /\ cur' \in {1, cur + 1}
        /\ KillGroups({pid[cur]})
        /\ state' = [state EXCEPT ![cur] = "Stopping"]
        /\ UNCHANGED <<pid, restartCount, timer, shutdown, polls, out, chan, lock, front,
                       stateFile, spm>>
    BY <1>2 DEF HealthKill, GuardKill, At, ControlInv, CursorInv
  <2>2. pid[cur] # NoPid /\ state \in [Children -> ChildStates]
    BY <2>1 DEF ControlInv, CursorInv, DataInv, ChildTypeOK, PidNamesOwnLeader, Live
  <2>3. DataInv'
    BY <2>1, <2>2, DataKill
  <2>4. \A c \in Children : state[c] # "Stopped" => state'[c] # "Stopped"
    BY <2>1, <2>2
  <2>5. cur' \in 1..(N + 1)
    BY <2>1 DEF Children
  <2>6. QED
    BY <2>1, <2>3, <2>4, <2>5
       DEF ControlInv, ControlTypeOK, LockInv, CursorInv, StartupInv, PollsInv, Held,
           Iteration, Draining, Labels
<1>3. CASE RestartSpawn
  <2>1. /\ cur \in Children /\ mpc = "restart" /\ state[cur] = "Restarting"
        /\ timer' = [timer EXCEPT ![cur] = "unset"]
        /\ cur' = cur + 1
        /\ UNCHANGED <<restartCount, members, shutdown, mpc, polls, chan, lock, front,
                       stateFile, spm>>
    BY <1>3 DEF RestartSpawn, At, Due, ClearRestart
  <2>2. /\ pid[cur] = NoPid /\ restartCount[cur] <= MaxRestarts
        /\ restartCount[cur] \in Nat /\ state \in [Children -> ChildStates]
    BY <2>1 DEF DataInv, ChildTypeOK, PidNamesOwnLeader, RestartBound, Live
  <2>3. CASE /\ \E p \in FreePids : SpawnAs(cur, p)
             /\ out' = RestartEvents(cur)
    <3>1. PICK p \in FreePids : SpawnAs(cur, p)
      BY <2>3
    <3>2. DataInv'
      BY <2>1, <2>2, <3>1, DataSpawn
    <3>3. out' \in Seq(Event)
      <4>1. /\ Ev("spawn", cur, 0) \in Event
            /\ Ev("restart", cur, restartCount[cur]) \in Event
        BY <2>1, <2>2, EvType DEF EventTypes, Children
      <4>2. QED
        BY <2>3, <4>1, QueueType DEF RestartEvents
    <3>4. \A c \in Children : state[c] # "Stopped" => state'[c] # "Stopped"
      BY <2>1, <2>2, <3>1 DEF SpawnAs
    <3>5. QED
      BY <2>1, <3>2, <3>3, <3>4
         DEF ControlInv, ControlTypeOK, LockInv, CursorInv, StartupInv, PollsInv, Held,
             Iteration, Draining, Children
  <2>4. CASE /\ state' = [state EXCEPT ![cur] = "Failed"]
             /\ out' = FailedEvents(cur, restartCount[cur])
             /\ UNCHANGED <<pid, leader>>
    <3>1. DataInv'
      BY <2>1, <2>2, <2>4, DataRefuse
    <3>2. out' \in Seq(Event)
      <4>1. Ev("failed", cur, restartCount[cur]) \in Event
        BY <2>1, <2>2, EvType DEF EventTypes, Children
      <4>2. QED
        BY <2>4, <4>1, QueueType DEF FailedEvents
    <3>3. \A c \in Children : state[c] # "Stopped" => state'[c] # "Stopped"
      BY <2>1, <2>2, <2>4
    <3>4. QED
      BY <2>1, <3>1, <3>2, <3>3
         DEF ControlInv, ControlTypeOK, LockInv, CursorInv, StartupInv, PollsInv, Held,
             Iteration, Draining, Children
  <2>5. QED
    BY <1>3, <2>3, <2>4 DEF RestartSpawn
<1>4. CASE ShutdownKill
  <2>1. DataInv'
    BY <1>4, DataShutdownKill
  <2>2. out' \in Seq(Event)
    BY <1>4, EvType, QueueType DEF ShutdownKill, EventTypes
  <2>3. /\ mpc = "sdKill" /\ mpc' = "done" /\ lock' = "free"
        /\ UNCHANGED <<shutdown, cur, polls, chan, front, spm>>
        /\ stateFile' = FALSE
    BY <1>4 DEF ShutdownKill, At
  <2>4. front = 0
    BY <2>3 DEF ControlInv, LockInv, Held, Draining
  <2>5. QED
    BY <2>1, <2>2, <2>3, <2>4
       DEF ControlInv, ControlTypeOK, LockInv, CursorInv, StartupInv, PollsInv, Held,
           Iteration, Draining, Labels, ShutPhases
<1>5. QED
  BY <1>1, <1>2, <1>3, <1>4

\* The steps of the kernel, the commands, the clock and the user's signals.
LEMMA EnvironmentIInvStep ==
  ASSUME IInv, Environment
  PROVE  IInv'
<1>1. ASSUME LeaderExits \/ LeaderKilled \/ Forks \/ MembersExit \/ ForeignProcess
      PROVE  IInv'
  <2>1. DataInv'
    BY <1>1, DataKernel DEF IInv
  <2>2. UNCHANGED <<childVars, shutdown, mpc, cur, polls, out, chan, lock, front,
                    stateFile, spm>>
    BY <1>1 DEF LeaderExits, LeaderKilled, Forks, MembersExit, ForeignProcess
  <2>3. QED
    BY <2>1, <2>2 DEF IInv, ControlInv, ControlTypeOK, LockInv, CursorInv, StartupInv,
       PollsInv, childVars
<1>2. CASE BackoffElapses
  <2>1. DataInv'
    BY <1>2, DataBackoff DEF IInv
  <2>2. QED
    BY <1>2, <2>1 DEF BackoffElapses, IInv, ControlInv, ControlTypeOK, LockInv, CursorInv,
       StartupInv, PollsInv
<1>3. CASE TermSignal
  <2>1. DataInv'
    BY <1>3, DataFrame DEF TermSignal, IInv
  <2>2. QED
    BY <1>3, <2>1 DEF TermSignal, IInv, ControlInv, ControlTypeOK, LockInv, CursorInv,
       StartupInv, PollsInv, childVars
<1>4. QED
  BY <1>1, <1>2, <1>3 DEF Environment

\* The steps of the front end.
LEMMA FrontEndIInvStep ==
  ASSUME IInv, FrontEnd
  PROVE  IInv'
<1> USE DEF IInv
<1>1. CASE FrontKill
  <2>1. /\ lock = "front" /\ front # 0 /\ front \in Children /\ pid[front] # NoPid
        /\ mpc \notin Held
    BY <1>1, NAssumption DEF FrontKill, ControlInv, ControlTypeOK, LockInv, Children
  <2>2. state \in [Children -> ChildStates] /\ state[front] \in Live
    BY <2>1 DEF DataInv, ChildTypeOK, PidNamesOwnLeader
  <2>3. DataInv'
    BY <1>1, <2>1, DataKill DEF FrontKill
  <2>4. mpc = "spawning" => \A c \in Children : state'[c] = "Stopped" <=> c >= cur
    BY <1>1, <2>1, <2>2 DEF FrontKill, ControlInv, StartupInv, Live
  <2>5. mpc \notin {"healthKill", "guardKill"}
    BY <2>1 DEF Held, Iteration
  <2>6. \A c \in Children : state[c] # "Stopped" => state'[c] # "Stopped"
    BY <1>1, <2>1, <2>2 DEF FrontKill
  <2>7. QED
    BY <1>1, <2>1, <2>3, <2>4, <2>5, <2>6, NAssumption
       DEF FrontKill, ControlInv, ControlTypeOK, LockInv, CursorInv, StartupInv, PollsInv
<1>2. ASSUME FrontReceive \/ FrontRestart \/ FrontRemove \/ FrontExit
      PROVE  IInv'
  <2>1. DataInv'
    BY <1>2, DataFrame DEF FrontReceive, FrontRestart, FrontRemove, FrontExit
  <2>2. CASE FrontRestart
    BY <2>1, <2>2, NAssumption DEF FrontRestart, FrontReady, ControlInv, ControlTypeOK,
       LockInv, CursorInv, StartupInv, PollsInv, childVars, Children
  <2>3. ASSUME FrontReceive \/ FrontRemove \/ FrontExit
        PROVE  IInv'
    <3>1. UNCHANGED <<childVars, kernelVars, shutdown, mpc, cur, polls, out, lock, front>>
      BY <2>3 DEF FrontReceive, FrontRemove, FrontExit
    <3>2. chan' \in Seq(Event)
      BY <2>3, QueueType
         DEF FrontReceive, FrontRemove, FrontExit, ControlInv, ControlTypeOK
    <3>3. stateFile' \in BOOLEAN /\ spm' \in {"up", "exited", "killed"}
      BY <2>3 DEF FrontReceive, FrontRemove, FrontExit, ControlInv, ControlTypeOK
    <3>4. QED
      BY <2>1, <3>1, <3>2, <3>3
         DEF ControlInv, ControlTypeOK, LockInv, CursorInv, StartupInv, PollsInv, childVars
  <2>4. QED
    BY <1>2, <2>2, <2>3
<1>3. QED
  BY <1>1, <1>2 DEF FrontEnd

-----------------------------------------------------------------------------
(* The invariant *)

LEMMA InitIInv == Init => IInv
<1> SUFFICES ASSUME Init
             PROVE  IInv
  OBVIOUS
<1>1. DataInv
  BY RestartAssumption DEF Init, DataInv, ChildTypeOK, ChildStates, Timers, Leaders,
     PidNamesOwnLeader, StoppingIsDying, NoStrayLeader,
     RestartIsPending, RestartBound, Live, Ours
<1>2. ControlInv
  <2>1. ControlTypeOK
    <3>1. cur \in 1..(N + 1) /\ polls \in 0..ShutdownPolls /\ front \in 0..N
      BY NAssumption, PollAssumption DEF Init
    <3>2. out \in Seq(Event) /\ chan \in Seq(Event)
      BY QueueType DEF Init
    <3>3. shutdown \in BOOLEAN /\ stateFile \in BOOLEAN /\ mpc \in Labels
      BY DEF Init, Labels, Startup
    <3>4. QED
      BY <3>1, <3>2, <3>3 DEF Init, ControlTypeOK
  <2>2. LockInv /\ CursorInv /\ PollsInv
    BY DEF Init, LockInv, CursorInv, PollsInv, Held, Iteration, Draining
  <2>3. StartupInv
    BY NAssumption DEF Init, StartupInv, Children
  <2>4. QED
    BY <2>1, <2>2, <2>3 DEF ControlInv
<1>3. QED
  BY <1>1, <1>2 DEF IInv

LEMMA NextIInv == IInv /\ [Next]_vars => IInv'
<1>1. ASSUME IInv, Next
      PROVE  IInv'
  BY <1>1, StartUpIInvStep, MonitorControlIInvStep, MonitorDataIInvStep,
     EnvironmentIInvStep, FrontEndIInvStep
     DEF Next, Monitor
<1>2. ASSUME IInv, UNCHANGED vars
      PROVE  IInv'
  <2>1. DataInv'
    BY <1>2, DataFrame DEF IInv, vars, childVars, kernelVars
  <2>2. QED
    BY <1>2, <2>1 DEF IInv, vars, ControlInv, ControlTypeOK, LockInv, CursorInv,
       StartupInv, PollsInv
<1>3. QED
  BY <1>1, <1>2

\* The supervisor signals no groups but those its children name, which are
\* its own.
LEMMA NobodyShotStep ==
  ASSUME IInv, NothingForeignShot, [Next]_vars
  PROVE  NothingForeignShot'
<1> USE DEF NothingForeignShot
<1>1. leader \in [Pids -> Leaders]
  BY DEF IInv, DataInv, ChildTypeOK
<1>2. ASSUME NEW P, \A p \in P : leader[p] \in Ours, KillGroups(P)
      PROVE  NothingForeignShot'
  BY <1>1, <1>2 DEF KillGroups, Ours
<1>3. CASE HealthKill \/ GuardKill \/ FrontKill
  <2>1. PICK c \in Children : pid[c] # NoPid /\ KillGroups({pid[c]})
    <3>1. CASE FrontKill
      <4>1. front \in Children /\ pid[front] # NoPid
        BY <3>1, NAssumption
           DEF FrontKill, IInv, ControlInv, ControlTypeOK, LockInv, Children
      <4>2. KillGroups({pid[front]})
        BY <3>1 DEF FrontKill
      <4>3. QED
        BY <4>1, <4>2
    <3>2. CASE HealthKill \/ GuardKill
      <4>1. cur \in Children /\ state[cur] = "Running" /\ KillGroups({pid[cur]})
        BY <3>2 DEF HealthKill, GuardKill, At, IInv, ControlInv, CursorInv
      <4>2. pid[cur] # NoPid
        BY <4>1 DEF IInv, DataInv, PidNamesOwnLeader, Live
      <4>3. QED
        BY <4>1, <4>2
    <3>3. QED
      BY <1>3, <3>1, <3>2
  <2>2. leader[pid[c]] \in Ours
    BY <2>1 DEF IInv, DataInv, PidNamesOwnLeader
  <2>3. QED
    BY <1>2, <2>1, <2>2
<1>4. CASE ShutdownKill
  <2> DEFINE P == {pid[c] : c \in {d \in Children : state[d] \in Live}}
  <2>1. \A p \in P : leader[p] \in Ours
    BY DEF IInv, DataInv, PidNamesOwnLeader
  <2>2. KillGroups(P)
    BY <1>4 DEF ShutdownKill
  <2> HIDE DEF P
  <2>3. QED
    BY <1>2, <2>1, <2>2
<1>5. CASE SpawnInitial \/ RestartSpawn
  BY <1>1, <1>5 DEF SpawnInitial, RestartSpawn, SpawnAs
<1>6. CASE Reap \/ ShutdownReap
  BY <1>1, <1>6 DEF Reap, ShutdownReap, ReapOne, HandleExit
<1>7. CASE LeaderExits \/ LeaderKilled \/ ForeignProcess
  BY <1>1, <1>7 DEF LeaderExits, LeaderKilled, ForeignProcess, Zombies
<1>8. ASSUME \/ SpawnsDone \/ Announce \/ StartMonitor \/ MonitorSend \/ InstallHandlers
             \/ CheckFlag \/ AcquireLock \/ ReapDone \/ HealthPass \/ HealthTerm \/ HealthDone
             \/ GuardPass \/ GuardTerm \/ RestartSkip \/ RestartDone \/ Publish
             \/ ReleaseLock \/ ShutdownTerm \/ ShutdownSleep \/ ShutdownPolled
             \/ Forks \/ MembersExit \/ BackoffElapses \/ TermSignal
             \/ FrontReceive \/ FrontRestart \/ FrontRemove \/ FrontExit
             \/ UNCHANGED vars
      PROVE  NothingForeignShot'
  <2>1. leader' = leader
    BY <1>8 DEF SpawnsDone, Announce, StartMonitor, MonitorSend, InstallHandlers, CheckFlag,
       AcquireLock, ReapDone, HealthPass, HealthTerm, HealthDone, GuardPass, GuardTerm,
       RestartSkip, RestartDone, Publish, ReleaseLock, ShutdownTerm, ShutdownSleep,
       ShutdownPolled, Forks, MembersExit, BackoffElapses, TermSignal, FrontReceive,
       FrontRestart, FrontRemove, FrontExit, kernelVars, vars
  <2>2. QED
    BY <2>1
<1>9. QED
  BY <1>3, <1>4, <1>5, <1>6, <1>7, <1>8 DEF Next, StartUp, Monitor, Environment, FrontEnd

\* The inductive invariant holds for ever.
THEOREM Invariance == Spec => []IInv
  BY InitIInv, NextIInv, PTL DEF Spec

\* Every variable of the supervisor core has its type: shutdown_children
\* makes no more than ShutdownPolls waits, no loop over the children runs
\* past the last, and the channel holds nothing but events.
THEOREM TypeCorrect == Spec => []TypeOK
<1>1. IInv => TypeOK
  BY DEF IInv, DataInv, ControlInv, TypeOK
<1>2. QED
  BY <1>1, Invariance, PTL

\* spawn_child, handle_child_exit and shutdown_children keep child.pid equal
\* to the unreaped leader started for that child, whatever pids the kernel
\* recycles.
THEOREM PidsAreOwn == Spec => []PidNamesOwnLeader
<1>1. IInv => PidNamesOwnLeader
  BY DEF IInv, DataInv
<1>2. QED
  BY <1>1, Invariance, PTL

\* kill_process_group, called under the mutex, never hits a process group
\* that spm did not start.
THEOREM NobodyElseShot == Spec => []NothingForeignShot
<1>1. Init => NothingForeignShot
  BY DEF Init, NothingForeignShot
<1>2. IInv /\ NothingForeignShot /\ [Next]_vars => NothingForeignShot'
  BY NobodyShotStep
<1>3. QED
  BY <1>1, <1>2, Invariance, PTL DEF Spec

\* A child marked Stopping has no process left without a SIGKILL pending.
THEOREM StoppingEndsSoon == Spec => []StoppingIsDying
<1>1. IInv => StoppingIsDying
  BY DEF IInv, DataInv
<1>2. QED
  BY <1>1, Invariance, PTL

\* No process is forgotten before the end of shutdown_children, and none that
\* was not shot after it.
THEOREM NoneForgotten == Spec => []NoStrayLeader
<1>1. IInv => NoStrayLeader
  BY DEF IInv, DataInv
<1>2. QED
  BY <1>1, Invariance, PTL

\* restart_at is set exactly while the state is Restarting.
THEOREM RestartScheduled == Spec => []RestartIsPending
<1>1. IInv => RestartIsPending
  BY DEF IInv, DataInv
<1>2. QED
  BY <1>1, Invariance, PTL

\* handle_child_exit never lets restart_count pass --max-restarts and restarts.
THEOREM RestartsBounded == Spec => []RestartBound
<1>1. IInv => RestartBound
  BY DEF IInv, DataInv
<1>2. QED
  BY <1>1, Invariance, PTL

-----------------------------------------------------------------------------
(* The core implements Lifecycle *)

lvars == <<Phase, Starts, Open>>

-----------------------------------------------------------------------------
(* The mapping, child by child *)

\* What a child does not do leaves its phase alone.
LEMMA SamePhase ==
  ASSUME IInv, NEW d \in Children, state'[d] = state[d],
         mpc' = mpc \/ state[d] # "Stopped"
  PROVE  Phase'[d] = Phase[d]
<1>1. state[d] \in ChildStates
  BY DEF IInv, DataInv, ChildTypeOK
<1>2. QED
  BY <1>1 DEF Phase, ChildStates

LEMMA SameStarts ==
  ASSUME NEW d \in Children, Phase'[d] = Phase[d], restartCount'[d] = restartCount[d]
  PROVE  Starts'[d] = Starts[d]
  BY DEF Starts

\* Phase is a function, so one child's step is an EXCEPT of it.
LEMMA OnePhase ==
  ASSUME NEW c \in Children, NEW ph, Phase'[c] = ph,
         \A d \in Children : d # c => Phase'[d] = Phase[d]
  PROVE  Phase' = [Phase EXCEPT ![c] = ph]
<1>1. /\ Phase' = [d \in Children |-> Phase'[d]]
      /\ Phase = [d \in Children |-> Phase[d]]
  BY DEF Phase
<1>2. QED
  BY <1>1

LEMMA AllStarts ==
  ASSUME \A d \in Children : Starts'[d] = Starts[d]
  PROVE  Starts' = Starts
<1>1. /\ Starts' = [d \in Children |-> Starts'[d]]
      /\ Starts = [d \in Children |-> Starts[d]]
  BY DEF Starts
<1>2. QED
  BY <1>1

LEMMA AllPhases ==
  ASSUME \A d \in Children : Phase'[d] = Phase[d]
  PROVE  Phase' = Phase
<1>1. /\ Phase' = [d \in Children |-> Phase'[d]]
      /\ Phase = [d \in Children |-> Phase[d]]
  BY DEF Phase
<1>2. QED
  BY <1>1

\* The phase each state stands for.
LEMMA PhaseOf ==
  ASSUME NEW c \in Children
  PROVE  /\ state[c] = "Running" => Phase[c] = "up"
         /\ state[c] = "Stopping" => Phase[c] = "ending"
         /\ state[c] = "Restarting" => Phase[c] = "down"
         /\ state[c] = "Completed" => Phase[c] = "completed"
         /\ state[c] = "Failed" => Phase[c] = "failed"
         /\ state[c] = "Stopped" /\ mpc = "spawning" => Phase[c] = "fresh"
         /\ state[c] = "Stopped" /\ mpc # "spawning" => Phase[c] = "abandoned"
  BY DEF Phase

LEMMA PhaseOfNext ==
  ASSUME NEW c \in Children
  PROVE  /\ state'[c] = "Running" => Phase'[c] = "up"
         /\ state'[c] = "Stopping" => Phase'[c] = "ending"
         /\ state'[c] = "Restarting" => Phase'[c] = "down"
         /\ state'[c] = "Completed" => Phase'[c] = "completed"
         /\ state'[c] = "Failed" => Phase'[c] = "failed"
         /\ state'[c] = "Stopped" /\ mpc' # "spawning" => Phase'[c] = "abandoned"
  BY DEF Phase

\* ... and the number of processes started, from the failures counted.
LEMMA StartsOf ==
  ASSUME NEW c \in Children, restartCount[c] \in Nat
  PROVE  /\ Phase[c] \in {"up", "ending", "completed", "abandoned"} =>
               Starts[c] = restartCount[c] + 1
         /\ Phase[c] \in {"fresh", "down", "failed"} => Starts[c] = restartCount[c]
  BY DEF Starts

LEMMA StartsOfNext ==
  ASSUME NEW c \in Children, restartCount'[c] \in Nat
  PROVE  /\ Phase'[c] \in {"up", "ending", "completed", "abandoned"} =>
               Starts'[c] = restartCount'[c] + 1
         /\ Phase'[c] \in {"fresh", "down", "failed"} => Starts'[c] = restartCount'[c]
  BY DEF Starts

-----------------------------------------------------------------------------
(* Kinds of steps *)

\* A step that changes no child's state and begins no shutdown stutters.
LEMMA Stutter ==
  ASSUME IInv, UNCHANGED <<state, restartCount>>, Open' = Open,
         mpc' = mpc \/ \A d \in Children : state[d] # "Stopped"
  PROVE  UNCHANGED lvars
<1>1. \A d \in Children : Phase'[d] = Phase[d] /\ Starts'[d] = Starts[d]
  BY SamePhase, SameStarts
<1>2. QED
  BY <1>1, AllPhases, AllStarts DEF lvars

\* A process is started, the first time or again, or cannot be.
LEMMA StartStep ==
  ASSUME IInv, NEW c \in Children, Open, mpc' = mpc,
         (state[c] = "Stopped" /\ mpc = "spawning") \/ state[c] = "Restarting",
         UNCHANGED restartCount,
         \A d \in Children : d # c => state'[d] = state[d],
         state'[c] \in {"Running", "Failed"}
  PROVE  Life!Next
<1>1. \A d \in Children : d # c => Phase'[d] = Phase[d] /\ Starts'[d] = Starts[d]
  BY SamePhase, SameStarts
<1>2. Phase[c] \in {"fresh", "down"} /\ restartCount[c] \in Nat
  BY PhaseOf DEF IInv, DataInv, ChildTypeOK
<1>3. Open' = Open
  BY DEF Open
<1>4. CASE state'[c] = "Running"
  <2>1. Phase'[c] = "up" /\ Starts'[c] = Starts[c] + 1
    BY <1>2, <1>4, PhaseOfNext, StartsOf, StartsOfNext
  <2>2. Phase' = [Phase EXCEPT ![c] = "up"]
    BY <1>1, <2>1, OnePhase
  <2>3. Starts' = [Starts EXCEPT ![c] = @ + 1]
    <3>1. /\ Starts' = [d \in Children |-> Starts'[d]]
          /\ Starts = [d \in Children |-> Starts[d]]
      BY DEF Starts
    <3>2. QED
      BY <1>1, <2>1, <3>1
  <2>4. Life!Start(c)
    BY <1>2, <1>3, <2>2, <2>3 DEF Life!Start, Life!Becomes
  <2>5. QED
    BY <2>4 DEF Life!Next
<1>5. CASE state'[c] = "Failed"
  <2>1. Phase'[c] = "failed" /\ Starts'[c] = Starts[c]
    BY <1>2, <1>5, PhaseOfNext, StartsOf, StartsOfNext
  <2>2. Phase' = [Phase EXCEPT ![c] = "failed"] /\ Starts' = Starts
    BY <1>1, <2>1, OnePhase, AllStarts
  <2>3. Life!Refuse(c)
    BY <1>2, <1>3, <2>2 DEF Life!Refuse, Life!Becomes
  <2>4. QED
    BY <2>3 DEF Life!Next
<1>6. QED
  BY <1>4, <1>5

\* A live child is shot and marked Stopping, perhaps once more.
LEMMA StopStep ==
  ASSUME IInv, NEW c \in Children, mpc' = mpc \/ \A d \in Children : state[d] # "Stopped",
         Open' = Open, state[c] \in Live,
         state' = [state EXCEPT ![c] = "Stopping"], UNCHANGED restartCount
  PROVE  [Life!Next]_lvars
<1>1. state \in [Children -> ChildStates] /\ restartCount[c] \in Nat
  BY DEF IInv, DataInv, ChildTypeOK
<1>2. CASE state[c] = "Stopping"
  <2>1. state' = state
    BY <1>1, <1>2
  <2>2. QED
    BY <2>1, Stutter
<1>3. CASE state[c] = "Running"
  <2>1. \A d \in Children : d # c => Phase'[d] = Phase[d] /\ Starts'[d] = Starts[d]
    BY <1>1, SamePhase, SameStarts
  <2>2. Phase[c] = "up" /\ Phase'[c] = "ending"
    BY <1>1, <1>3, PhaseOf, PhaseOfNext
  <2>3. Starts'[c] = Starts[c]
    BY <1>1, <2>2, StartsOf, StartsOfNext
  <2>4. Phase' = [Phase EXCEPT ![c] = "ending"] /\ Starts' = Starts
    BY <2>1, <2>2, <2>3, OnePhase, AllStarts
  <2>5. Life!Stop(c)
    BY <2>2, <2>4 DEF Life!Stop, Life!Becomes
  <2>6. QED
    BY <2>5 DEF Life!Next
<1>4. QED
  BY <1>2, <1>3 DEF Live

\* handle_child_exit: restarts are allowed exactly while no shutdown began.
LEMMA ExitStep ==
  ASSUME IInv, NEW c \in Children, NEW allow \in BOOLEAN, allow <=> Open,
         pid[c] # NoPid, HandleExit(c, leader[pid[c]], allow), mpc' = mpc
  PROVE  Life!Next
<1>1. /\ state \in [Children -> ChildStates]
      /\ restartCount \in [Children -> Nat]
      /\ state[c] \in Live
  BY DEF IInv, DataInv, ChildTypeOK, PidNamesOwnLeader
<1>2. Phase[c] \in {"up", "ending"} /\ (Phase[c] = "up" <=> state[c] = "Running")
  BY <1>1, PhaseOf DEF Live
<1>3. Starts[c] = restartCount[c] + 1
  BY <1>1, <1>2, StartsOf
<1>4. Open' = Open
  BY DEF Open
<1>5. ASSUME NEW s \in {"Completed", "Restarting", "Failed"},
             state' = [state EXCEPT ![c] = s],
             restartCount' = [restartCount EXCEPT ![c] = IF s = "Completed" THEN @ ELSE @ + 1]
      PROVE  /\ Phase' = [Phase EXCEPT ![c] = CASE s = "Completed" -> "completed"
                                                [] s = "Restarting" -> "down"
                                                [] s = "Failed" -> "failed"]
             /\ Starts' = Starts
  <2>1. \A d \in Children : d # c => Phase'[d] = Phase[d] /\ Starts'[d] = Starts[d]
    BY <1>1, <1>5, SamePhase, SameStarts
  <2>2. /\ s = "Completed" => Phase'[c] = "completed"
        /\ s = "Restarting" => Phase'[c] = "down"
        /\ s = "Failed" => Phase'[c] = "failed"
    BY <1>1, <1>5, PhaseOfNext
  <2>3. Starts'[c] = Starts[c]
    BY <1>1, <1>3, <1>5, <2>2, StartsOfNext
  <2>4. QED
    BY <2>1, <2>2, <2>3, OnePhase, AllStarts
<1>6. CASE Completes(c) /\ state[c] # "Stopping"
  <2>1. /\ state' = [state EXCEPT ![c] = "Completed"]
        /\ restartCount' = [restartCount EXCEPT ![c] = @]
    BY <1>1, <1>6 DEF Completes
  <2>2. Phase' = [Phase EXCEPT ![c] = "completed"] /\ Starts' = Starts
    BY <1>5, <2>1
  <2>3. Life!Complete(c)
    BY <1>1, <1>2, <1>4, <1>6, <2>2 DEF Life!Complete, Life!Becomes, Live
  <2>4. QED
    BY <2>3 DEF Life!Next
<1>7. CASE Retries(c) /\ allow /\ ShouldRestart(c)
  <2>1. /\ state' = [state EXCEPT ![c] = "Restarting"]
        /\ restartCount' = [restartCount EXCEPT ![c] = @ + 1]
    BY <1>7 DEF Retries
  <2>2. Phase' = [Phase EXCEPT ![c] = "down"] /\ Starts' = Starts
    BY <1>5, <2>1
  <2>3. Life!MayRestart(c)
    BY <1>3, <1>7 DEF Life!MayRestart, ShouldRestart
  <2>4. Life!Fall(c)
    BY <1>2, <1>4, <2>2, <2>3 DEF Life!Fall, Life!Becomes
  <2>5. QED
    BY <2>4 DEF Life!Next
<1>8. CASE GivesUp(c) /\ ~(allow /\ ShouldRestart(c))
  <2>1. /\ state' = [state EXCEPT ![c] = "Failed"]
        /\ restartCount' = [restartCount EXCEPT ![c] = @ + 1]
    BY <1>8 DEF GivesUp
  <2>2. Phase' = [Phase EXCEPT ![c] = "failed"] /\ Starts' = Starts
    BY <1>5, <2>1
  <2>3. ~Life!MayRestart(c)
    BY <1>3, <1>8 DEF Life!MayRestart, ShouldRestart
  <2>4. Life!Fall(c)
    BY <1>2, <1>4, <2>2, <2>3 DEF Life!Fall, Life!Becomes
  <2>5. QED
    BY <2>4 DEF Life!Next
<1>9. QED
  BY <1>6, <1>7, <1>8 DEF HandleExit

-----------------------------------------------------------------------------
(* Every step *)

\* The steps of the supervisor that touch no child: only CheckFlag, when it
\* finds the flag set, is a step of Lifecycle.
LEMMA QuietStep ==
  ASSUME IInv, UNCHANGED childVars,
         \/ SpawnsDone \/ Announce \/ StartMonitor
         \/ MonitorSend \/ InstallHandlers \/ CheckFlag \/ AcquireLock \/ ReapDone
         \/ HealthPass \/ HealthTerm \/ HealthDone \/ GuardPass \/ GuardTerm
         \/ RestartSkip \/ RestartDone \/ Publish \/ ReleaseLock
         \/ ShutdownTerm \/ ShutdownSleep \/ ShutdownPolled
  PROVE  [Life!Next]_lvars
<1>1. UNCHANGED <<state, restartCount>>
  BY DEF childVars
<1>2. mpc' = mpc \/ \A d \in Children : state[d] # "Stopped"
  <2>1. CASE SpawnsDone
    BY <2>1, NAssumption
       DEF SpawnsDone, IInv, ControlInv, ControlTypeOK, StartupInv, Children
  <2>2. CASE Announce \/ MonitorSend \/ mpc \notin {"spawning", "done"}
    BY <2>2 DEF Announce, MonitorSend, IInv, ControlInv, StartupInv
  <2>3. QED
    BY <2>1, <2>2 DEF StartMonitor, InstallHandlers, CheckFlag, AcquireLock, ReapDone,
       HealthPass, HealthTerm, HealthDone, GuardPass, GuardTerm, RestartSkip, RestartDone,
       Publish, ReleaseLock, ShutdownTerm, ShutdownSleep, ShutdownPolled, At
<1>3. CASE CheckFlag /\ shutdown
  <2>1. Open /\ ~Open'
    BY <1>3 DEF CheckFlag, At, Open, ShutPhases, Draining
  <2>2. Phase' = Phase /\ Starts' = Starts
    BY <1>1, <1>2, SamePhase, SameStarts, AllPhases, AllStarts
  <2>3. Open' = FALSE
    BY <2>1 DEF Open
  <2>4. Life!Close
    BY <2>1, <2>2, <2>3 DEF Life!Close
  <2>5. QED
    BY <2>4 DEF Life!Next
<1>4. CASE ~(CheckFlag /\ shutdown)
  <2>1. Open' = Open
    BY <1>4 DEF SpawnsDone, Announce, MonitorSend, StartMonitor, InstallHandlers, CheckFlag,
       AcquireLock, ReapDone, HealthPass, HealthTerm, HealthDone, GuardPass, GuardTerm,
       RestartSkip, RestartDone, Publish, ReleaseLock, ShutdownTerm, ShutdownSleep,
       ShutdownPolled, At, Open, ShutPhases, Draining
  <2>2. QED
    BY <1>1, <1>2, <2>1, Stutter
<1>5. QED
  BY <1>3, <1>4

LEMMA QuietUnchanged ==
  ASSUME \/ SpawnsDone \/ Announce \/ StartMonitor
         \/ MonitorSend \/ InstallHandlers \/ CheckFlag \/ AcquireLock \/ ReapDone
         \/ HealthPass \/ HealthTerm \/ HealthDone \/ GuardPass \/ GuardTerm
         \/ RestartSkip \/ RestartDone \/ Publish \/ ReleaseLock
         \/ ShutdownTerm \/ ShutdownSleep \/ ShutdownPolled
  PROVE  UNCHANGED childVars
  BY DEF SpawnsDone, Announce, MonitorSend, StartMonitor, InstallHandlers, CheckFlag,
     AcquireLock, ReapDone, HealthPass, HealthTerm, HealthDone, GuardPass, GuardTerm,
     RestartSkip, RestartDone, Publish, ReleaseLock, ShutdownTerm, ShutdownSleep,
     ShutdownPolled

\* The end of shutdown_children gives up on every child that is left.
LEMMA AbandonStep ==
  ASSUME IInv, ShutdownKill
  PROVE  Life!Next
<1>1. /\ mpc = "sdKill" /\ mpc' = "done" /\ UNCHANGED restartCount
      /\ state' = [c \in Children |-> IF state[c] \in Live THEN "Stopped" ELSE state[c]]
  BY DEF ShutdownKill, At
<1>2. ~Open /\ Open' = Open
  BY <1>1 DEF Open, ShutPhases, Draining
<1>3. \A c \in Children : state[c] \in ChildStates \ {"Stopped"} /\ restartCount[c] \in Nat
  BY <1>1 DEF IInv, DataInv, ChildTypeOK, ControlInv, StartupInv
<1>4. ASSUME NEW c \in Children
      PROVE  /\ Phase'[c] = IF Phase[c] \in {"up", "ending"} THEN "abandoned" ELSE Phase[c]
             /\ Starts'[c] = Starts[c]
  <2>1. CASE state[c] \in Live
    <3>1. Phase[c] \in {"up", "ending"} /\ Phase'[c] = "abandoned"
      BY <1>1, <2>1, PhaseOf, PhaseOfNext DEF Live
    <3>2. QED
      BY <1>1, <1>3, <3>1, StartsOf, StartsOfNext
  <2>2. CASE state[c] \notin Live
    <3>1. Phase'[c] = Phase[c] /\ Phase[c] \notin {"up", "ending"}
      BY <1>1, <1>3, <2>2, PhaseOf, PhaseOfNext DEF Live, ChildStates
    <3>2. QED
      BY <1>1, <3>1, SameStarts
  <2>3. QED
    BY <2>1, <2>2
<1>5. Phase' = [c \in Children |->
                  IF Phase[c] \in {"up", "ending"} THEN "abandoned" ELSE Phase[c]]
  <2>1. Phase' = [c \in Children |-> Phase'[c]]
    BY DEF Phase
  <2>2. QED
    BY <1>4, <2>1
<1>6. Life!Abandon
  BY <1>2, <1>4, <1>5, AllStarts DEF Life!Abandon
<1>7. QED
  BY <1>6 DEF Life!Next

\* Each turn of reap_zombies, in the loop or in the shutdown.
LEMMA ReapStep ==
  ASSUME IInv, Reap \/ ShutdownReap
  PROVE  [Life!Next]_lvars
<1>1. PICK allow \in BOOLEAN : ReapOne(allow) /\ (allow <=> Open) /\ mpc' = mpc
  <2>1. CASE Reap
    BY <2>1 DEF Reap, At, Open, ShutPhases, Draining
  <2>2. CASE ShutdownReap
    BY <2>2 DEF ShutdownReap, At, Open, ShutPhases, Draining
  <2>3. QED
    BY <2>1, <2>2
<1>2. CASE \E p \in Pids, c \in Children : pid[c] = p /\ HandleExit(c, leader[p], allow)
  <2>1. PICK c \in Children : pid[c] \in Pids /\ HandleExit(c, leader[pid[c]], allow)
    BY <1>2
  <2>2. QED
    BY <1>1, <2>1, ExitStep, NoPidIsNoPid
<1>3. CASE UNCHANGED <<state, pid, restartCount, timer, out>>
  <2>1. Open' = Open
    BY <1>1 DEF Open
  <2>2. QED
    BY <1>1, <1>3, <2>1, Stutter
<1>4. QED
  BY <1>1, <1>2, <1>3 DEF ReapOne

LEMMA LifeStep == IInv /\ [Next]_vars => [Life!Next]_lvars
<1> SUFFICES ASSUME IInv, [Next]_vars
             PROVE  [Life!Next]_lvars
  OBVIOUS
<1>1. CASE SpawnInitial
  <2>1. /\ cur \in Children /\ mpc = "spawning" /\ mpc' = mpc
        /\ UNCHANGED restartCount
    BY <1>1 DEF SpawnInitial
  <2>2. state[cur] = "Stopped" /\ Open
    BY <2>1, NAssumption
       DEF IInv, ControlInv, ControlTypeOK, StartupInv, Children, Open, ShutPhases, Draining
  <2>3. /\ \A d \in Children : d # cur => state'[d] = state[d]
        /\ state'[cur] \in {"Running", "Failed"}
    BY <1>1, <2>1 DEF SpawnInitial, SpawnAs, IInv, DataInv, ChildTypeOK
  <2>4. QED
    BY <2>1, <2>2, <2>3, StartStep
<1>2. CASE RestartSpawn
  <2>1. /\ cur \in Children /\ mpc = "restart" /\ mpc' = mpc
        /\ UNCHANGED restartCount /\ state[cur] = "Restarting"
    BY <1>2 DEF RestartSpawn, At, Due
  <2>2. Open
    BY <2>1 DEF Open, ShutPhases, Draining
  <2>3. /\ \A d \in Children : d # cur => state'[d] = state[d]
        /\ state'[cur] \in {"Running", "Failed"}
    BY <1>2, <2>1 DEF RestartSpawn, SpawnAs, IInv, DataInv, ChildTypeOK
  <2>4. QED
    BY <2>1, <2>2, <2>3, StartStep
<1>3. CASE HealthKill \/ GuardKill
  <2>1. /\ mpc \in {"healthKill", "guardKill"} /\ mpc' \in {"health", "restart"}
        /\ state' = [state EXCEPT ![cur] = "Stopping"] /\ UNCHANGED restartCount
    BY <1>3 DEF HealthKill, GuardKill, At
  <2>2. cur \in Children /\ state[cur] \in Live /\ \A d \in Children : state[d] # "Stopped"
    BY <2>1 DEF IInv, ControlInv, CursorInv, StartupInv, Live
  <2>3. Open' = Open
    BY <2>1 DEF Open, ShutPhases, Draining
  <2>4. QED
    BY <2>1, <2>2, <2>3, StopStep
<1>4. CASE FrontKill
  <2>1. /\ front \in Children /\ state[front] \in Live /\ mpc' = mpc
        /\ state' = [state EXCEPT ![front] = "Stopping"] /\ UNCHANGED restartCount
    BY <1>4, NAssumption DEF FrontKill, IInv, ControlInv, ControlTypeOK, LockInv, DataInv,
       PidNamesOwnLeader, Children
  <2>2. Open' = Open
    BY <2>1 DEF Open
  <2>3. QED
    BY <2>1, <2>2, StopStep
<1>5. CASE Reap \/ ShutdownReap
  BY <1>5, ReapStep
<1>6. CASE ShutdownKill
  BY <1>6, AbandonStep
<1>7. ASSUME \/ Environment
             \/ FrontReceive \/ FrontRestart \/ FrontRemove \/ FrontExit
             \/ UNCHANGED vars
      PROVE  [Life!Next]_lvars
  <2>1. UNCHANGED <<state, restartCount, mpc>>
    BY <1>7 DEF Environment, LeaderExits, LeaderKilled, Forks, MembersExit, ForeignProcess,
       BackoffElapses, TermSignal, FrontReceive, FrontRestart, FrontRemove, FrontExit, vars,
       childVars
  <2>2. Open' = Open
    BY <2>1 DEF Open
  <2>3. QED
    BY <2>1, <2>2, Stutter
<1>8. CASE \/ SpawnsDone \/ Announce \/ StartMonitor
           \/ MonitorSend \/ InstallHandlers \/ CheckFlag \/ AcquireLock \/ ReapDone
           \/ HealthPass \/ HealthTerm \/ HealthDone \/ GuardPass \/ GuardTerm
           \/ RestartSkip \/ RestartDone \/ Publish \/ ReleaseLock
           \/ ShutdownTerm \/ ShutdownSleep \/ ShutdownPolled
  BY <1>8, QuietUnchanged, QuietStep
<1>9. QED
  BY <1>1, <1>2, <1>3, <1>4, <1>5, <1>6, <1>7, <1>8 DEF Next, StartUp, Monitor, FrontEnd

LEMMA LifeInit == Init => Life!Init
<1> SUFFICES ASSUME Init
             PROVE  Life!Init
  OBVIOUS
<1>1. \A c \in Children : Phase[c] = "fresh" /\ Starts[c] = 0
  BY PhaseOf, StartsOf DEF Init
<1>2. Phase = [c \in Children |-> "fresh"]
  BY <1>1 DEF Phase
<1>3. Starts = [c \in Children |-> 0]
  BY <1>1 DEF Starts
<1>4. Open = TRUE
  BY DEF Init, Open, ShutPhases, Draining
<1>5. QED
  BY <1>2, <1>3, <1>4 DEF Life!Init

\* Whatever the threads, the commands and the kernel do, the managed
\* children live the life the README promises: at most MaxRestarts + 1 starts,
\* none once the shutdown began, none after Completed or Failed.
THEOREM Refinement == Spec => ImplementsLifecycle
<1>1. IInv /\ [Next]_vars => [Life!Next]_(Life!lifeVars)
  BY LifeStep DEF lvars, Life!lifeVars
<1>2. QED
  BY <1>1, LifeInit, Invariance, PTL DEF Spec, ImplementsLifecycle, Life!Spec

-----------------------------------------------------------------------------
(* What follows from the life cycle alone: the ends and starts of commands  *)

\* When all commands are Completed or Failed they stay so.
LEMMA TerminalStays ==
  ASSUME IInv, IInv', [Life!Next]_lvars, \A c \in Children : state[c] \in Terminal
  PROVE  \A c \in Children : state'[c] \in Terminal
<1>1. \A c \in Children : Phase[c] \in {"completed", "failed"}
  BY PhaseOf DEF Terminal
<1>2. Phase' = Phase
  <2>1. Phase = [c \in Children |-> Phase[c]]
    BY DEF Phase
  <2>2. QED
    BY <1>1, <2>1 DEF Life!Next, Life!Start, Life!Refuse, Life!Stop, Life!Complete,
       Life!Fall, Life!Close, Life!Abandon, lvars
<1>3. ASSUME NEW c \in Children
      PROVE  state'[c] \in Terminal
  <2>1. state'[c] \in ChildStates
    BY DEF IInv, DataInv, ChildTypeOK
  <2>2. Phase'[c] \in {"completed", "failed"}
    BY <1>1, <1>2
  <2>3. state'[c] = "Stopped" => Phase'[c] \in {"fresh", "abandoned"}
    BY DEF Phase
  <2>4. QED
    BY <2>1, <2>2, <2>3, PhaseOfNext DEF ChildStates, Terminal
<1>4. QED
  BY <1>3

\* The starts left are spent one by one: none before the first, and one more
\* is allowed to a command that waits for its restart.
LifeInv ==
    /\ Phase \in [Children -> Life!Phases]
    /\ Starts \in [Children -> Nat]
    /\ \A c \in Children : /\ Starts[c] <= MaxRestarts + 1
                           /\ Phase[c] = "fresh" => Starts[c] = 0
                           /\ Phase[c] = "down" => Starts[c] <= MaxRestarts

LEMMA LifeInvStep ==
  ASSUME LifeInv, [Life!Next]_(Life!lifeVars)
  PROVE  LifeInv'
<1> USE RestartAssumption DEF LifeInv, Life!Phases
<1>1. ASSUME NEW c \in Children, Life!Start(c)
      PROVE  LifeInv'
  BY <1>1 DEF Life!Start, Life!Becomes
<1>2. ASSUME NEW c \in Children, Life!Refuse(c) \/ Life!Stop(c) \/ Life!Complete(c)
      PROVE  LifeInv'
  BY <1>2 DEF Life!Refuse, Life!Stop, Life!Complete, Life!Becomes
<1>3. ASSUME NEW c \in Children, Life!Fall(c)
      PROVE  LifeInv'
  BY <1>3 DEF Life!Fall, Life!MayRestart, Life!Becomes
<1>4. CASE Life!Close \/ Life!Abandon \/ UNCHANGED Life!lifeVars
  BY <1>4 DEF Life!Close, Life!Abandon, Life!lifeVars
<1>5. QED
  BY <1>1, <1>2, <1>3, <1>4 DEF Life!Next

\* Restarts spent one at a time, by handle_child_exit, add up to no more than
\* --max-restarts and the first start: of anything that lives as Lifecycle
\* says, and so, by Refinement, of the core.
LEMMA LifeBound == ImplementsLifecycle => []Life!StartBound
<1>1. Life!Init => LifeInv
  BY RestartAssumption DEF Life!Init, LifeInv, Life!Phases
<1>2. LifeInv /\ [Life!Next]_(Life!lifeVars) => LifeInv'
  BY LifeInvStep
<1>3. LifeInv => Life!StartBound
  BY DEF LifeInv, Life!StartBound
<1>4. QED
  BY <1>1, <1>2, <1>3, PTL DEF ImplementsLifecycle, Life!Spec

\* monitor.rs 713: no command is started more than --max-restarts times after
\* its first start, counted by processes and not by restart_count.
THEOREM StartsBounded == Spec => []Life!StartBound
  BY Refinement, LifeBound, PTL
=============================================================================
