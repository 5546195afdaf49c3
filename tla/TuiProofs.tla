------------------------------ MODULE TuiProofs ------------------------------
(***************************************************************************)
(* Proofs about the supervisor with its TUI, for every value of the        *)
(* constants: the keys, the copies and the dialog of the main thread keep  *)
(* the invariant of the core, all of it except that they may shoot a       *)
(* stranger; so the commands live as Lifecycle says, and the program does  *)
(* not end by itself before they have ended.                               *)
(***************************************************************************)
EXTENDS Tui, SupervisorProofs

-----------------------------------------------------------------------------
(* The inductive invariant, beyond that of the core *)

\* The main thread holds the mutex exactly while it serves a restart, and what
\* it works on are children, their states and their pids.
UiInv ==
    /\ ui \in Places
    /\ copy \in [Children -> [state : ChildStates, pid : Pids \cup {NoPid}]]
    /\ dialog \in Pids \cup {NoPid}
    /\ request \in 0..N
    /\ saw \in BOOLEAN /\ running \in BOOLEAN /\ quit \in BOOLEAN
    /\ ui = "serving" <=> lock = "front"

\* The loop ends by itself only when all commands have ended.
EndInv ==
    /\ ~running /\ ~quit => \A c \in Children : state[c] \in Terminal
    /\ spm = "exited" => ~running

\* A process that survives shutdown_children leaves its child Stopped.
AbandonInv ==
    mpc = "done" /\ (\E p \in Pids : leader[p] \in Ours) =>
        \E c \in Children : state[c] = "Stopped"

TuiInv == UiInv /\ EndInv /\ AbandonInv

-----------------------------------------------------------------------------
(* The steps of the main thread, as the core sees them *)

\* A step that only reads what the core keeps.
Looks == Enter \/ KeyKill \/ KeyNo \/ KeyYes \/ KeyRestart \/ NoMoreKeys
         \/ NoRequest \/ Renew \/ NoUpdate \/ NextTurn

LEMMA LooksOnly ==
  ASSUME Looks \/ TuiEnded \/ UNCHANGED tuiVars
  PROVE  UNCHANGED vars
  BY DEF Looks, Enter, KeyKill, KeyNo, KeyYes, KeyRestart, NoMoreKeys, NoRequest, Renew,
     NoUpdate, NextTurn, TuiEnded, vars, tuiVars

\* The three steps that no front end of Supervisor makes.
Beyond == DialogKill \/ KeyQuit \/ Drain

LEMMA StepsOfCore ==
  ASSUME IInv, UiInv, [TuiNext]_tuiVars
  PROVE  [Next]_vars \/ Beyond
<1>1. CASE CoreStep \/ WorldStep
  BY <1>1 DEF CoreStep, WorldStep, Next
<1>2. CASE Looks \/ TuiEnded \/ UNCHANGED tuiVars
  BY <1>2, LooksOnly
<1>3. CASE Serve
  <2>1. CASE pid[request] # NoPid
    <3>1. request \in Children
      BY <1>3, NAssumption DEF Serve, UiInv, Children
    <3>2. FrontRestart
      BY <1>3, <2>1, <3>1 DEF Serve, AtUi, FrontRestart, childVars, kernelVars
    <3>3. QED
      BY <3>2 DEF Next, FrontEnd
  <2>2. CASE pid[request] = NoPid
    BY <1>3, <2>2 DEF Serve, vars, childVars, kernelVars
  <2>3. QED
    BY <2>1, <2>2
<1>4. CASE ServeKill \/ Leave
  BY <1>4 DEF ServeKill, Leave, Next, FrontEnd
<1>5. QED
  BY <1>1, <1>2, <1>3, <1>4 DEF TuiNext, Keys, Loop, Looks, Beyond

\* What the dialog kills may be anybody's, but a child it hits is not lost: it
\* stays the leader its child names until it is reaped.
LEMMA DialogKillKeepsData ==
  ASSUME DataInv, DialogKill
  PROVE  DataInv'
<1> USE DEF DataInv
<1>1. /\ KillGroups({dialog}) /\ UNCHANGED <<state, pid, restartCount, timer, mpc>>
      /\ leader \in [Pids -> Leaders] /\ members \subseteq Pids
  BY DEF DialogKill, childVars, ChildTypeOK
<1>2. /\ \A p \in Pids : leader'[p] \in Ours <=> leader[p] \in Ours
      /\ \A p \in Pids : leader'[p] = "alive" => leader[p] = "alive"
      /\ members' \subseteq members
  BY <1>1 DEF KillGroups, Ours
<1>3. ChildTypeOK'
  BY <1>1, KillGroupsType DEF ChildTypeOK
<1>4. PidNamesOwnLeader'
  BY <1>1, <1>2 DEF PidNamesOwnLeader, ChildTypeOK
<1>5. StoppingIsDying'
  BY <1>1, <1>2 DEF StoppingIsDying, PidNamesOwnLeader, ChildTypeOK, Live, Ours
<1>6. NoStrayLeader'
  BY <1>1, <1>2 DEF NoStrayLeader
<1>7. RestartIsPending' /\ RestartBound'
  BY <1>1 DEF RestartIsPending, RestartBound
<1>8. QED
  BY <1>3, <1>4, <1>5, <1>6, <1>7

LEMMA BeyondStep ==
  ASSUME IInv, Beyond
  PROVE  IInv' /\ UNCHANGED <<state, restartCount, mpc>>
<1>1. UNCHANGED <<childVars, mpc, cur, polls, out, lock, front, stateFile, spm>>
  BY DEF Beyond, DialogKill, KeyQuit, Drain
<1>2. DataInv'
  <2>1. CASE DialogKill
    BY <2>1, DialogKillKeepsData DEF IInv
  <2>2. CASE KeyQuit \/ Drain
    BY <2>2, DataFrame DEF KeyQuit, Drain, IInv
  <2>3. QED
    BY <2>1, <2>2 DEF Beyond
<1>3. chan' \in Seq(Event) /\ shutdown' \in BOOLEAN
  <2>1. chan \in Seq(Event) /\ shutdown \in BOOLEAN
    BY DEF IInv, ControlInv, ControlTypeOK
  <2>2. /\ chan' \in {chan, <<>>} /\ shutdown' \in {shutdown, TRUE}
    BY DEF Beyond, DialogKill, KeyQuit, Drain
  <2>3. QED
    BY <2>1, <2>2, QueueType
<1>4. ControlInv'
  BY <1>1, <1>3 DEF IInv, ControlInv, ControlTypeOK, LockInv, CursorInv, StartupInv,
     PollsInv, childVars
<1>5. QED
  BY <1>1, <1>2, <1>4 DEF IInv, childVars

LEMMA CoreInvStep ==
  ASSUME IInv, UiInv, [TuiNext]_tuiVars
  PROVE  IInv' /\ [Life!Next]_lvars
<1>1. CASE [Next]_vars
  BY <1>1, NextIInv, LifeStep
<1>2. CASE Beyond
  <2>1. IInv' /\ UNCHANGED <<state, restartCount, mpc>>
    BY <1>2, BeyondStep
  <2>2. Open' = Open
    BY <2>1 DEF Open
  <2>3. QED
    BY <2>1, <2>2, Stutter
<1>3. QED
  BY <1>1, <1>2, StepsOfCore
-----------------------------------------------------------------------------
(* The rest of the invariant, step by step *)

\* The monitor and the world around do not see to the front end's mutex, and
\* do not make main return.
LEMMA CoreLeavesFront ==
  ASSUME StartUp \/ Monitor \/ Environment
  PROVE  front' = front /\ spm' \in {spm, "killed"}
  BY DEF StartUp, Monitor, Environment, SpawnInitial, SpawnsDone, Announce, StartMonitor,
     MonitorSend, InstallHandlers, CheckFlag, AcquireLock, Reap, ReapDone, HealthPass,
     HealthTerm, HealthKill, HealthDone, GuardPass, GuardTerm, GuardKill, RestartSkip,
     RestartSpawn, RestartDone, Publish, ReleaseLock, ShutdownTerm, ShutdownSleep,
     ShutdownReap, ShutdownPolled, ShutdownKill, LeaderExits, LeaderKilled, Forks,
     MembersExit, ForeignProcess, BackoffElapses, TermSignal

LEMMA UiStep ==
  ASSUME IInv, IInv', UiInv, [TuiNext]_tuiVars
  PROVE  UiInv'
<1> USE DEF UiInv
<1>1. CASE CoreStep \/ WorldStep
  <2>1. UNCHANGED uiVars /\ front' = front
    BY <1>1, CoreLeavesFront DEF CoreStep, WorldStep
  <2>2. lock' = "front" <=> lock = "front"
    BY <2>1 DEF IInv, ControlInv, LockInv
  <2>3. QED
    BY <2>1, <2>2 DEF uiVars
<1>2. CASE Enter \/ Renew
  <2>1. /\ copy' = CopyOfChildren /\ ui' \in {"keys", "draw"} /\ ui # "serving"
        /\ UNCHANGED <<vars, dialog, request, saw, quit>> /\ running' \in BOOLEAN
    BY <1>2 DEF Enter, Renew, AtUi, StillRunning
  <2>2. copy' \in [Children -> [state : ChildStates, pid : Pids \cup {NoPid}]]
    BY <2>1 DEF CopyOfChildren, IInv, DataInv, ChildTypeOK
  <2>3. QED
    BY <2>1, <2>2 DEF vars, Places
<1>3. CASE KeyKill \/ KeyNo \/ KeyYes \/ KeyRestart \/ KeyQuit
  <2>1. /\ ui = "keys" /\ ui' \in {"keys", "killing"}
        /\ lock' = lock /\ UNCHANGED <<copy, saw>>
        /\ running' \in {running, FALSE} /\ quit' \in {quit, TRUE}
    BY <1>3 DEF KeyKill, KeyNo, KeyYes, KeyRestart, KeyQuit, AtUi, vars
  <2>2. dialog' \in Pids \cup {NoPid}
    BY <1>3 DEF KeyKill, KeyNo, KeyYes, KeyRestart, KeyQuit
  <2>3. request' \in 0..N
    BY <1>3, NAssumption DEF KeyKill, KeyNo, KeyYes, KeyRestart, KeyQuit, Children
  <2>4. QED
    BY <2>1, <2>2, <2>3 DEF Places
<1>4. CASE NoMoreKeys \/ NoRequest \/ NoUpdate \/ NextTurn
  <2>1. /\ ui # "serving" /\ ui' \in Places \ {"serving"} /\ UNCHANGED lock
        /\ UNCHANGED <<copy, dialog, request, saw, running, quit>>
    BY <1>4 DEF NoMoreKeys, NoRequest, NoUpdate, NextTurn, AtUi, Places, vars
  <2>2. QED
    BY <2>1
<1>5. CASE DialogKill \/ Drain
  <2>1. /\ ui # "serving" /\ ui' \in Places \ {"serving"} /\ UNCHANGED lock
        /\ UNCHANGED <<copy, request, running, quit>>
        /\ dialog' \in Pids \cup {NoPid} /\ saw' \in BOOLEAN
    BY <1>5 DEF DialogKill, Drain, AtUi, Places
  <2>2. QED
    BY <2>1
<1>6. CASE Serve
  BY <1>6, NAssumption DEF Serve, AtUi, Places
<1>7. CASE ServeKill
  BY <1>7 DEF ServeKill, FrontKill, Places
<1>8. CASE Leave \/ TuiEnded \/ UNCHANGED tuiVars
  <2>1. UNCHANGED <<uiVars, lock>>
    BY <1>8 DEF Leave, FrontExit, TuiEnded, uiVars, tuiVars
  <2>2. QED
    BY <2>1 DEF uiVars
<1>9. QED
  BY <1>1, <1>2, <1>3, <1>4, <1>5, <1>6, <1>7, <1>8 DEF TuiNext, Keys, Loop

LEMMA EndStep ==
  ASSUME IInv, IInv', [Life!Next]_lvars, UiInv, EndInv, [TuiNext]_tuiVars
  PROVE  EndInv'
<1> DEFINE Over == \A c \in Children : state[c] \in Terminal
<1>1. Over => Over'
  BY TerminalStays
<1>2. CASE Renew
  <2>1. /\ running' \in {running, FALSE} /\ UNCHANGED <<vars, quit>>
        /\ running /\ ~running' => AllEnded(CopyOfChildren)
    BY <1>2 DEF Renew, StillRunning, UiInv
  <2>2. AllEnded(CopyOfChildren) => Over
    BY DEF AllEnded, CopyOfChildren
  <2>3. ~running' => ~running \/ Over
    BY <2>1, <2>2 DEF UiInv
  <2>4. spm' = spm
    BY <2>1 DEF vars
  <2>5. ~running /\ ~quit => Over
    BY DEF EndInv
  <2> HIDE DEF Over
  <2>6. ~running' /\ ~quit' => Over'
    BY <1>1, <2>1, <2>3, <2>5
  <2>7. spm' = "exited" => ~running'
    BY <2>1, <2>4 DEF EndInv
  <2>8. QED
    BY <2>6, <2>7 DEF EndInv, Over
<1>3. CASE KeyQuit
  BY <1>3 DEF KeyQuit, EndInv
<1>4. CASE Leave
  BY <1>1, <1>4 DEF Leave, FrontExit, uiVars, EndInv
<1>5. ASSUME ~Renew, ~KeyQuit, ~Leave
      PROVE  EndInv'
  <2>1. UNCHANGED <<running, quit>> /\ spm' \in {spm, "killed"}
    <3>1. CASE CoreStep \/ WorldStep
      BY <3>1, CoreLeavesFront DEF CoreStep, WorldStep, uiVars
    <3>2. CASE ~(CoreStep \/ WorldStep)
      BY <1>5, <3>2 DEF TuiNext, Keys, Loop, Enter, KeyKill, KeyNo, KeyYes, KeyRestart,
         NoMoreKeys, NoRequest, NoUpdate, NextTurn, DialogKill, Drain, Serve, ServeKill,
         FrontKill, TuiEnded, vars, tuiVars
    <3>3. QED
      BY <3>1, <3>2
  <2>2. QED
    BY <1>1, <2>1 DEF EndInv
<1>6. QED
  BY <1>2, <1>3, <1>4, <1>5

\* No process is started after the shutdown has begun.
LEMMA OursAreOld ==
  ASSUME IInv, [Next]_vars \/ Beyond, mpc \in ShutPhases
  PROVE  \A p \in Pids : leader'[p] \in Ours => leader[p] \in Ours
<1>1. leader \in [Pids -> Leaders]
  BY DEF IInv, DataInv, ChildTypeOK
<1>2. ASSUME NEW P, KillGroups(P)
      PROVE  \A p \in Pids : leader'[p] \in Ours => leader[p] \in Ours
  BY <1>1, <1>2 DEF KillGroups, Ours
<1>3. CASE HealthKill \/ GuardKill \/ FrontKill \/ ShutdownKill \/ DialogKill
  BY <1>2, <1>3 DEF HealthKill, GuardKill, FrontKill, ShutdownKill, DialogKill
<1>4. CASE Reap \/ ShutdownReap
  BY <1>1, <1>4 DEF Reap, ShutdownReap, ReapOne, HandleExit, Ours
<1>5. CASE LeaderExits \/ LeaderKilled \/ ForeignProcess
  BY <1>1, <1>5 DEF LeaderExits, LeaderKilled, ForeignProcess, Zombies, Ours
<1>6. ~SpawnInitial /\ ~RestartSpawn
  BY DEF SpawnInitial, RestartSpawn, At, ShutPhases, Draining
<1>7. ASSUME \/ SpawnsDone \/ Announce \/ StartMonitor \/ MonitorSend \/ InstallHandlers
             \/ CheckFlag \/ AcquireLock \/ ReapDone \/ HealthPass \/ HealthTerm \/ HealthDone
             \/ GuardPass \/ GuardTerm \/ RestartSkip \/ RestartDone \/ Publish
             \/ ReleaseLock \/ ShutdownTerm \/ ShutdownSleep \/ ShutdownPolled
             \/ Forks \/ MembersExit \/ BackoffElapses \/ TermSignal
             \/ FrontReceive \/ FrontRestart \/ FrontRemove \/ FrontExit
             \/ KeyQuit \/ Drain \/ UNCHANGED vars
      PROVE  leader' = leader
  BY <1>7 DEF SpawnsDone, Announce, StartMonitor, MonitorSend, InstallHandlers, CheckFlag,
     AcquireLock, ReapDone, HealthPass, HealthTerm, HealthDone, GuardPass, GuardTerm,
     RestartSkip, RestartDone, Publish, ReleaseLock, ShutdownTerm, ShutdownSleep,
     ShutdownPolled, Forks, MembersExit, BackoffElapses, TermSignal, FrontReceive,
     FrontRestart, FrontRemove, FrontExit, KeyQuit, Drain, kernelVars, vars
<1>8. QED
  BY <1>3, <1>4, <1>5, <1>6, <1>7
     DEF Next, StartUp, Monitor, Environment, FrontEnd, Beyond

\* shutdown_children is the only way to its end.
LEMMA OnlyShutdownEnds ==
  ASSUME [Next]_vars \/ Beyond, mpc # "done", mpc' = "done"
  PROVE  ShutdownKill
  BY DEF Beyond, Next, StartUp, Monitor, Environment, FrontEnd, SpawnInitial, SpawnsDone,
     Announce, StartMonitor, MonitorSend, InstallHandlers, CheckFlag, AcquireLock, Reap,
     ReapDone, HealthPass, HealthTerm, HealthKill, HealthDone, GuardPass, GuardTerm,
     GuardKill, RestartSkip, RestartSpawn, RestartDone, Publish, ReleaseLock, ShutdownTerm,
     ShutdownSleep, ShutdownReap, ShutdownPolled, LeaderExits, LeaderKilled, Forks,
     MembersExit, ForeignProcess, BackoffElapses, TermSignal, FrontReceive, FrontRestart,
     FrontKill, FrontRemove, FrontExit, DialogKill, KeyQuit, Drain, vars

LEMMA AbandonedRemain ==
  ASSUME IInv, IInv', [Life!Next]_lvars, AbandonInv, [Next]_vars \/ Beyond
  PROVE  AbandonInv'
<1> SUFFICES ASSUME mpc' = "done", NEW p \in Pids, leader'[p] \in Ours
             PROVE  \E c \in Children : state'[c] = "Stopped"
  BY DEF AbandonInv
<1>1. CASE mpc # "done"
  <2>1. ShutdownKill
    BY <1>1, OnlyShutdownEnds
  <2>2. leader[p] \in Ours
    BY <2>1, OursAreOld DEF ShutdownKill, At, ShutPhases, Draining
  <2>3. PICK c \in Children : pid[c] = p
    BY <1>1, <2>2 DEF IInv, DataInv, NoStrayLeader
  <2>4. state[c] \in Live
    BY <2>3, NoPidIsNoPid DEF IInv, DataInv, PidNamesOwnLeader
  <2>5. QED
    BY <2>1, <2>4 DEF ShutdownKill
<1>2. CASE mpc = "done"
  <2>1. leader[p] \in Ours
    BY <1>2, OursAreOld DEF ShutPhases
  <2>2. PICK c \in Children : state[c] = "Stopped"
    BY <1>2, <2>1 DEF AbandonInv
  <2>3. Phase[c] = "abandoned" /\ Phase = [d \in Children |-> Phase[d]]
    BY <1>2, <2>2, PhaseOf DEF Phase
  <2>4. Phase'[c] = "abandoned"
    BY <2>3 DEF Life!Next, Life!Start, Life!Refuse, Life!Stop, Life!Complete, Life!Fall,
       Life!Close, Life!Abandon, Life!Becomes, lvars
  <2>5. state'[c] \in ChildStates
    BY DEF IInv, DataInv, ChildTypeOK
  <2>6. QED
    BY <2>4, <2>5, PhaseOfNext DEF ChildStates
<1>3. QED
  BY <1>1, <1>2

LEMMA TuiInvariance == TuiSpec => [](IInv /\ TuiInv)
<1>1. TuiInit => IInv /\ TuiInv
  <2> SUFFICES ASSUME TuiInit
               PROVE  IInv /\ TuiInv
    OBVIOUS
  <2>1. IInv
    BY InitIInv DEF TuiInit
  <2>2. copy \in [Children -> [state : ChildStates, pid : Pids \cup {NoPid}]]
    BY <2>1 DEF TuiInit, CopyOfChildren, IInv, DataInv, ChildTypeOK
  <2>3. UiInv
    <3>1. /\ ui = "enter" /\ dialog = NoPid /\ request = 0 /\ lock = "free"
          /\ saw = FALSE /\ running = TRUE /\ quit = FALSE
      BY DEF TuiInit, Init
    <3>2. dialog \in Pids \cup {NoPid} /\ request \in 0..N /\ ui \in Places
      BY <3>1, NAssumption DEF Places
    <3>3. saw \in BOOLEAN /\ running \in BOOLEAN /\ quit \in BOOLEAN
      BY <3>1
    <3>4. ui = "serving" <=> lock = "front"
      BY <3>1
    <3>5. QED
      BY <2>2, <3>2, <3>3, <3>4, Zenon DEF UiInv
  <2>4. EndInv /\ AbandonInv
    BY DEF TuiInit, Init, EndInv, AbandonInv
  <2>5. QED
    BY <2>1, <2>3, <2>4 DEF TuiInv
<1>2. IInv /\ TuiInv /\ [TuiNext]_tuiVars => (IInv /\ TuiInv)'
  BY CoreInvStep, StepsOfCore, UiStep, EndStep, AbandonedRemain DEF TuiInv
<1>3. QED
  BY <1>1, <1>2, PTL DEF TuiSpec

-----------------------------------------------------------------------------
\* With a user who restarts children on the word of an old copy, and kills
\* groups without the mutex, each command still lives as the README promises.
THEOREM TuiLives == TuiSpec => TuiImplementsLifecycle
<1>1. TuiInit => Life!Init
  BY LifeInit DEF TuiInit
<1>2. IInv /\ TuiInv /\ [TuiNext]_tuiVars => [Life!Next]_(Life!lifeVars)
  BY CoreInvStep DEF TuiInv, lvars, Life!lifeVars
<1>3. QED
  BY <1>1, <1>2, TuiInvariance, PTL DEF TuiSpec, TuiImplementsLifecycle, Life!Spec

\* run_supervisor_app ends by itself only when every command is Completed or
\* Failed for good and no process of one is left, although it decides that on
\* a copy of the children.
THEOREM TuiEndsClean == TuiSpec => []EndsClean
<1>1. IInv /\ TuiInv => EndsClean
  <2> SUFFICES ASSUME IInv, TuiInv, spm = "exited", ~quit
               PROVE  /\ \A c \in Children : state[c] \in Terminal
                      /\ \A p \in Pids : leader[p] \notin Ours
    BY DEF EndsClean
  <2>1. \A c \in Children : state[c] \in Terminal
    BY DEF TuiInv, EndInv
  <2>2. ASSUME NEW p \in Pids, leader[p] \in Ours
        PROVE  FALSE
    <3>1. \A c \in Children : pid[c] # p
      BY <2>1, NoPidIsNoPid DEF IInv, DataInv, PidNamesOwnLeader, Terminal, Live
    <3>2. mpc = "done"
      BY <2>2, <3>1 DEF IInv, DataInv, NoStrayLeader
    <3>3. QED
      BY <2>1, <2>2, <3>2 DEF TuiInv, AbandonInv, Terminal
  <2>3. QED
    BY <2>1, <2>2
<1>2. QED
  BY <1>1, TuiInvariance, PTL

\* Whatever the user does in the TUI, the children's pids stay their own and
\* no process is forgotten; only NothingForeignShot is lost, to the dialog.
THEOREM TuiKeepsCore ==
  TuiSpec => [](PidNamesOwnLeader /\ StoppingIsDying /\ NoStrayLeader /\ RestartIsPending
                /\ RestartBound)
<1>1. IInv => PidNamesOwnLeader /\ StoppingIsDying /\ NoStrayLeader /\ RestartIsPending
              /\ RestartBound
  BY DEF IInv, DataInv
<1>2. QED
  BY <1>1, TuiInvariance, PTL
=============================================================================
