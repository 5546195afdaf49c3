--------------------------- MODULE HeadlessProofs ---------------------------
(***************************************************************************)
(* Proofs about the headless program, for every value of the constants:    *)
(* its two threads stay within what Supervisor allows, so the theorems     *)
(* about the core hold of the whole program; the program ends as it        *)
(* should; and what it prints about a command tells the command's life.    *)
(***************************************************************************)
EXTENDS Headless, SupervisorProofs, SequenceTheorems

-----------------------------------------------------------------------------
(* The inductive invariant *)

HasShutdown(queue) == \E i \in DOMAIN queue : queue[i] = SignalShutdown

\* SignalShutdown is sent by a monitor thread that has nothing left to do,
\* once, and after all other events ...
SignalInv ==
    /\ HasShutdown(out) \/ HasShutdown(chan) => mpc = "done"
    /\ HasShutdown(out) => ~HasShutdown(chan) /\ Len(out) = 1
    /\ \A i \in DOMAIN chan : chan[i] = SignalShutdown => i = Len(chan) /\ out = <<>>
    /\ mpc = "done" => ~stateFile

\* ... and no child with a process.
DoneInv == mpc = "done" => AllDead

\* The main loop is left once, for one of two reasons.
LeaveInv ==
    /\ main \in {"recv", "check"} => reasons = <<>>
    /\ main = "drain" /\ reasons # <<>> =>
           /\ Len(reasons) = 1 /\ mpc = "done"
           /\ ~HasShutdown(chan) /\ ~HasShutdown(out)
    /\ main = "leaving" => Len(reasons) = 1 /\ (mpc = "done" \/ AllTerminal)
    /\ main # "leaving" => spm # "exited" /\ main \in {"recv", "drain", "check"}

HeadInv == SignalInv /\ DoneInv /\ LeaveInv

-----------------------------------------------------------------------------
(* The inductive invariant of the log.  The story of a child is what is    *)
(* printed of it, then what waits in the channel, then what the monitor is *)
(* about to send.                                                          *)

Queue == chan \o out

\* No event of child c was due yet.
Untold(c) == mpc = "spawning" \/ (mpc = "announcing" /\ c >= cur)

\* What the last event of a child can have been, "none" if there is none: its
\* state tells.  A command that could not be started is Failed without an event.
LastTypes(c) ==
    IF Untold(c) THEN {"none"}
    ELSE CASE state[c] = "Running" ->
                  (IF mpc = "healthKill" /\ cur = c THEN {"health_kill"}
                   ELSE IF mpc = "guardKill" /\ cur = c THEN {"guard_kill"}
                   ELSE {"spawn", "restart"})
           [] state[c] = "Stopping"   -> {"health_kill", "guard_kill"}
           [] state[c] = "Restarting" -> {"exit"}
           [] state[c] = "Completed"  -> {"completed"}
           [] state[c] = "Failed"     -> {"failed", "none"}
           [] OTHER -> {"spawn", "restart", "health_kill", "guard_kill"}

LastLine(lines) == IF lines = <<>> THEN "none" ELSE lines[Len(lines)].type

Succeeds(a, b) == IF a = "none" THEN b = "spawn" ELSE Follows(a, b)

Lines(q, c) == {i \in DOMAIN q : q[i].child = c}

\* After a story that ended with type a, the events of c in q carry it on, and
\* it ends with one of the types S.
Tells(a, q, c, S) ==
    /\ \A j \in Lines(q, c) : (\A k \in Lines(q, c) : j <= k) => Succeeds(a, q[j].type)
    /\ \A i, j \in Lines(q, c) :
           i < j /\ (\A k \in Lines(q, c) : k <= i \/ j <= k) =>
               Follows(q[i].type, q[j].type)
    /\ \A i \in Lines(q, c) : (\A k \in Lines(q, c) : k <= i) => q[i].type \in S
    /\ Lines(q, c) = {} => a \in S

LogInv ==
    /\ log \in [Children -> Seq(Event)]
    /\ LogReadsAsLife
    /\ \A c \in Children : Tells(LastLine(log[c]), Queue, c, LastTypes(c))

\* What is about to be sent: a Notice comes alone, and the startup in the main
\* thread sends without waiting.  Nobody is killed before the monitor runs.
SendInv ==
    /\ \A i \in DOMAIN out : out[i] = Notice => Len(out) = 1
    /\ mpc \in {"spawning", "announcing"} =>
           out = <<>> /\ \A c \in Children : state[c] \in {"Stopped", "Running", "Failed"}

StoryInv == LogInv /\ SendInv

-----------------------------------------------------------------------------
(* SignalShutdown in the queues *)

LEMMA NoShutdownIn ==
  /\ ~HasShutdown(<<>>)
  /\ \A e : HasShutdown(<<e>>) => e = SignalShutdown
  /\ \A e, f : HasShutdown(<<e, f>>) => e = SignalShutdown \/ f = SignalShutdown
  BY DEF HasShutdown

LEMMA OtherEvents ==
  /\ \A t, c, n : t # "shutdown" => Ev(t, c, n) # SignalShutdown
  /\ \A c : ExitEvent(c) # SignalShutdown
  /\ Notice # SignalShutdown
  BY DEF Ev, ExitEvent, SignalShutdown, Notice

LEMMA AppendShutdown ==
  ASSUME NEW q \in Seq(Event), NEW e \in Event, HasShutdown(Append(q, e))
  PROVE  HasShutdown(q) \/ e = SignalShutdown
  BY DEF HasShutdown

LEMMA HeadShutdown ==
  ASSUME NEW q \in Seq(Event), q # <<>>
  PROVE  /\ Head(q) = SignalShutdown => HasShutdown(q)
         /\ HasShutdown(Tail(q)) => HasShutdown(q)
  BY DEF HasShutdown

\* Only the end of shutdown_children leads to a SignalShutdown.
LEMMA SendsNoShutdown ==
  ASSUME IInv, StartUp \/ Monitor, ~ShutdownKill
  PROVE  /\ HasShutdown(out') => HasShutdown(out)
         /\ HasShutdown(chan') => HasShutdown(out) \/ HasShutdown(chan)
<1>1. out \in Seq(Event) /\ chan \in Seq(Event)
  BY DEF IInv, ControlInv, ControlTypeOK
<1>2. CASE MonitorSend
  <2>1. out # <<>> /\ chan' = Enqueue(chan, Head(out)) /\ out' = Tail(out)
    BY <1>2 DEF MonitorSend
  <2>2. Head(out) \in Event
    BY <1>1, <2>1
  <2>3. QED
    BY <1>1, <2>1, <2>2, HeadShutdown, AppendShutdown DEF Enqueue
<1>3. CASE Announce
  <2>1. Ev("spawn", cur, 0) \in Event
    BY <1>3, EvType DEF Announce, EventTypes, Children
  <2>2. QED
    BY <1>1, <1>3, <2>1, AppendShutdown, OtherEvents DEF Announce
<1>4. CASE Reap \/ ShutdownReap
  <2>1. chan' = chan
    BY <1>4 DEF Reap, ShutdownReap
  <2>2. PICK allow \in BOOLEAN : ReapOne(allow)
    BY <1>4 DEF Reap, ShutdownReap
  <2>3. CASE out' = out
    BY <2>1, <2>3
  <2>4. CASE \E c \in Children, s \in Zombies, a \in BOOLEAN : HandleExit(c, s, a)
    <3>1. PICK c \in Children :
             out' \in {<<ExitEvent(c), Ev("completed", c, 0)>>, <<ExitEvent(c)>>,
                       <<ExitEvent(c), Ev("failed", c, restartCount[c] + 1)>>}
      BY <2>4 DEF HandleExit, Completes, Retries, GivesUp, FailedEvents
    <3>2. ~HasShutdown(out')
      BY <3>1, NoShutdownIn, OtherEvents
    <3>3. QED
      BY <2>1, <3>2
  <2>5. QED
    BY <2>2, <2>3, <2>4 DEF ReapOne
<1>5. CASE RestartSpawn
  <2>1. chan' = chan
    BY <1>5 DEF RestartSpawn
  <2>2. out' \in {<<Ev("spawn", cur, 0), Ev("restart", cur, restartCount[cur])>>,
                  <<Ev("failed", cur, restartCount[cur])>>}
    BY <1>5 DEF RestartSpawn, RestartEvents, FailedEvents
  <2>3. QED
    BY <2>1, <2>2, NoShutdownIn, OtherEvents
<1>6. CASE HealthPass \/ HealthTerm \/ GuardPass \/ GuardTerm \/ Publish
  <2>1. chan' = chan
    BY <1>6 DEF HealthPass, HealthTerm, GuardPass, GuardTerm, Publish
  <2>2. \/ out' \in {<<>>, <<Notice>>}
        \/ \E c \in Children : out' \in {<<Ev("health_kill", c, 0)>>,
                                         <<Ev("guard_kill", c, 0)>>}
    BY <1>6 DEF HealthPass, HealthTerm, GuardPass, GuardTerm, Publish
  <2>3. QED
    BY <2>1, <2>2, NoShutdownIn, OtherEvents
<1>7. ASSUME \/ SpawnInitial \/ SpawnsDone \/ StartMonitor \/ InstallHandlers \/ CheckFlag
             \/ AcquireLock \/ ReapDone \/ HealthKill \/ HealthDone \/ GuardKill
             \/ RestartSkip \/ RestartDone \/ ReleaseLock
             \/ ShutdownTerm \/ ShutdownSleep \/ ShutdownPolled
      PROVE  UNCHANGED <<out, chan>>
  BY <1>7 DEF SpawnInitial, SpawnsDone, StartMonitor, InstallHandlers, CheckFlag,
     AcquireLock, ReapDone, HealthKill, HealthDone, GuardKill, RestartSkip, RestartDone,
     ReleaseLock, ShutdownTerm, ShutdownSleep, ShutdownPolled
<1>8. QED
  BY <1>2, <1>3, <1>4, <1>5, <1>6, <1>7 DEF StartUp, Monitor

-----------------------------------------------------------------------------
(* The ends of children, from Lifecycle *)

\* After the shutdown no child has a process again.
LEMMA DeadStays ==
  ASSUME IInv, IInv', [Life!Next]_lvars, mpc = "done", AllDead
  PROVE  AllDead'
<1>1. \A c \in Children : Phase[c] \notin {"up", "ending"}
  BY PhaseOf DEF AllDead, Live, Phase
<1>2. ~Open
  BY DEF Open, ShutPhases
<1>3. \A c \in Children : Phase'[c] \notin {"up", "ending"}
  <2>1. Phase = [c \in Children |-> Phase[c]]
    BY DEF Phase
  <2>2. QED
    BY <1>1, <1>2, <2>1 DEF Life!Next, Life!Start, Life!Refuse, Life!Stop, Life!Complete,
       Life!Fall, Life!Close, Life!Abandon, lvars
<1>4. QED
  BY <1>3, PhaseOfNext DEF AllDead, Live

-----------------------------------------------------------------------------
(* Every step *)

\* What main does is what Supervisor allows a front end to do.
LEMMA MainStaysInBounds ==
  ASSUME IInv, HeadInv, [HeadNext]_headVars
  PROVE  [Next]_vars
<1>1. CASE MainReceive
  <2>1. FrontReceive
    BY <1>1 DEF MainReceive, FrontReceive
  <2>2. QED
    BY <2>1 DEF Next, FrontEnd
<1>2. CASE MainDrained \/ MainCheck
  <2>1. CASE stateFile' = FALSE
    <3>1. FrontRemove
      BY <1>2, <2>1 DEF MainDrained, MainCheck, FrontRemove
    <3>2. QED
      BY <3>1 DEF Next, FrontEnd
  <2>2. CASE UNCHANGED stateFile
    BY <1>2, <2>2 DEF MainDrained, MainCheck, vars, childVars, kernelVars
  <2>3. QED
    BY <1>2, <2>1, <2>2 DEF MainDrained, MainCheck
<1>3. CASE MainLeave
  BY <1>3 DEF MainLeave, Next, FrontEnd
<1>4. CASE StartUpStep \/ MonitorStep \/ EnvironmentStep
  BY <1>4 DEF StartUpStep, MonitorStep, EnvironmentStep, Next
<1>5. CASE UNCHANGED headVars
  BY <1>5 DEF headVars, vars
<1>6. QED
  BY <1>1, <1>2, <1>3, <1>4, <1>5 DEF HeadNext, Main, Ended

\* A step of main or of the environment changes no child and sends nothing.
LEMMA OthersLeaveChildren ==
  ASSUME [HeadNext]_headVars, ~StartUpStep, ~MonitorStep
  PROVE  /\ UNCHANGED <<state, mpc, cur, out>>
         /\ UNCHANGED <<chan, log>> \/ MainReceive
         /\ stateFile' \in {stateFile, FALSE}
<1>1. CASE Main
  BY <1>1 DEF Main, MainReceive, MainDrained, MainCheck, MainLeave, FrontExit, childVars,
     mainVars
<1>2. CASE EnvironmentStep
  BY <1>2 DEF EnvironmentStep, Environment, LeaderExits, LeaderKilled, Forks, MembersExit,
     ForeignProcess, BackoffElapses, TermSignal, childVars, mainVars
<1>3. CASE UNCHANGED headVars
  BY <1>3 DEF headVars
<1>4. QED
  BY <1>1, <1>2, <1>3 DEF HeadNext, Ended

\* mpc stays "done", and only ShutdownKill leads there.
LEMMA DoneStays ==
  ASSUME [HeadNext]_headVars
  PROVE  (mpc = "done" <=> mpc' = "done") \/ ShutdownKill
<1>1. CASE ~StartUpStep /\ ~MonitorStep
  BY <1>1, OthersLeaveChildren
<1>2. CASE StartUpStep \/ MonitorStep
  BY <1>2 DEF StartUpStep, MonitorStep, StartUp, Monitor, SpawnInitial, SpawnsDone,
     Announce, StartMonitor, MonitorSend, InstallHandlers, CheckFlag, AcquireLock, Reap,
     ReapDone, HealthPass, HealthTerm, HealthKill, HealthDone, GuardPass, GuardTerm,
     GuardKill, RestartSkip, RestartSpawn, RestartDone, Publish, ReleaseLock, ShutdownTerm,
     ShutdownSleep, ShutdownReap, ShutdownPolled, At
<1>3. QED
  BY <1>1, <1>2

\* A monitor thread that is done only makes the sends that are left.
LEMMA DoneSends ==
  ASSUME StartUp \/ Monitor, mpc = "done"
  PROVE  MonitorSend
  BY DEF StartUp, Monitor, SpawnInitial, SpawnsDone, Announce, StartMonitor,
     InstallHandlers, CheckFlag, AcquireLock, Reap, ReapDone, HealthPass, HealthTerm,
     HealthKill, HealthDone, GuardPass, GuardTerm, GuardKill, RestartSkip, RestartSpawn,
     RestartDone, Publish, ReleaseLock, ShutdownTerm, ShutdownSleep, ShutdownReap,
     ShutdownPolled, ShutdownKill, At

LEMMA SignalStep ==
  ASSUME IInv, HeadInv, [HeadNext]_headVars
  PROVE  SignalInv'
<1> USE DEF HeadInv, SignalInv
<1>1. out \in Seq(Event) /\ chan \in Seq(Event)
  BY DEF IInv, ControlInv, ControlTypeOK
<1>2. CASE ~StartUpStep /\ ~MonitorStep
  <2>1. UNCHANGED <<mpc, out>> /\ (stateFile' = stateFile \/ stateFile' = FALSE)
    BY <1>2, OthersLeaveChildren
  <2>2. CASE chan' = chan
    BY <2>1, <2>2 DEF HasShutdown
  <2>3. CASE chan # <<>> /\ chan' = Tail(chan)
    <3>1. HasShutdown(chan') => HasShutdown(chan)
      BY <1>1, <2>3, HeadShutdown
    <3>2. ASSUME NEW i \in DOMAIN chan', chan'[i] = SignalShutdown
          PROVE  i = Len(chan') /\ out' = <<>>
      <4>1. /\ i + 1 \in DOMAIN chan /\ chan[i + 1] = chan'[i]
            /\ Len(chan') = Len(chan) - 1
        BY <1>1, <2>3, <3>2
      <4>2. QED
        BY <1>1, <2>1, <3>2, <4>1
    <3>3. QED
      BY <2>1, <3>1, <3>2 DEF HasShutdown
  <2>4. QED
    BY <1>2, <2>2, <2>3, OthersLeaveChildren DEF MainReceive
<1>3. CASE MonitorSend
  <2>1. /\ out # <<>> /\ chan' = Enqueue(chan, Head(out)) /\ out' = Tail(out)
        /\ UNCHANGED <<mpc, stateFile>>
    BY <1>3 DEF MonitorSend
  <2>2. Head(out) \in Event /\ ~HasShutdown(chan)
    BY <1>1, <2>1 DEF HasShutdown
  <2>3. CASE HasShutdown(out)
    <3>1. Len(out) = 1 /\ Head(out) = SignalShutdown /\ Tail(out) = <<>>
      BY <1>1, <2>1, <2>3 DEF HasShutdown
    <3>2. chan' = Append(chan, SignalShutdown)
      BY <2>1, <3>1, OtherEvents DEF Enqueue
    <3>3. \A i \in DOMAIN chan' : chan'[i] = SignalShutdown => i = Len(chan')
      BY <1>1, <2>2, <3>1, <3>2 DEF HasShutdown
    <3>4. ~HasShutdown(out')
      BY <2>1, <3>1, NoShutdownIn
    <3>5. QED
      BY <2>1, <2>3, <3>1, <3>3, <3>4
  <2>4. CASE ~HasShutdown(out)
    <3>1. Head(out) # SignalShutdown /\ ~HasShutdown(Tail(out))
      BY <1>1, <2>1, <2>4, HeadShutdown
    <3>2. ~HasShutdown(chan')
      BY <1>1, <2>1, <2>2, <3>1, AppendShutdown DEF Enqueue
    <3>3. QED
      BY <2>1, <3>1, <3>2 DEF HasShutdown
  <2>5. QED
    BY <2>3, <2>4
<1>4. CASE (StartUpStep \/ MonitorStep) /\ ~MonitorSend
  <2>1. (StartUp \/ Monitor) /\ mpc # "done"
    BY <1>4, DoneSends DEF StartUpStep, MonitorStep
  <2>2. ~HasShutdown(out) /\ ~HasShutdown(chan)
    BY <2>1
  <2>3. CASE ShutdownKill
    <3>1. out' = <<SignalShutdown>> /\ chan' = chan /\ mpc' = "done" /\ ~stateFile'
      BY <2>3 DEF ShutdownKill, SignalShutdown
    <3>2. QED
      BY <2>2, <3>1 DEF HasShutdown
  <2>4. CASE ~ShutdownKill
    <3>1. ~HasShutdown(out') /\ ~HasShutdown(chan')
      BY <2>1, <2>2, <2>4, SendsNoShutdown
    <3>2. mpc' # "done"
      BY <1>4, <2>1, <2>4, DoneStays
    <3>3. QED
      BY <3>1, <3>2 DEF HasShutdown
  <2>5. QED
    BY <2>3, <2>4
<1>5. QED
  BY <1>2, <1>3, <1>4

LEMMA HeadInvStep ==
  ASSUME IInv, HeadInv, [HeadNext]_headVars
  PROVE  IInv' /\ HeadInv'
<1>1. [Next]_vars
  BY MainStaysInBounds
<1>2. IInv' /\ [Life!Next]_lvars
  BY <1>1, NextIInv, LifeStep
<1>3. SignalInv'
  BY SignalStep
<1>4. DoneInv'
  <2>1. CASE ShutdownKill
    BY <2>1 DEF ShutdownKill, DoneInv, AllDead, Live
  <2>2. CASE mpc = "done" <=> mpc' = "done"
    BY <1>2, <2>2, DeadStays DEF HeadInv, DoneInv
  <2>3. QED
    BY <2>1, <2>2, DoneStays
<1>5. LeaveInv'
  <2> USE DEF HeadInv, LeaveInv
  <2>1. /\ mpc = "done" \/ AllTerminal => mpc' = "done" \/ AllTerminal'
        /\ mpc = "done" => mpc' = "done"
    BY <1>2, TerminalStays, DoneStays DEF ShutdownKill, AllTerminal
  <2>2. CASE MainReceive
    <3>1. /\ main \in {"recv", "drain"} /\ main' = "drain" /\ spm' = spm /\ mpc' = mpc
          /\ chan # <<>> /\ chan' = Tail(chan) /\ out' = out
          /\ reasons' = IF Head(chan) = SignalShutdown THEN Append(reasons, "signal")
                                                       ELSE reasons
      BY <2>2 DEF MainReceive
    <3>2. chan \in Seq(Event) /\ (HasShutdown(chan') => HasShutdown(chan))
      BY <3>1, HeadShutdown DEF IInv, ControlInv, ControlTypeOK
    <3>3. CASE Head(chan) = SignalShutdown
      <4>1. chan[1] = SignalShutdown /\ 1 \in DOMAIN chan
        BY <3>1, <3>2, <3>3
      <4>2. HasShutdown(chan) /\ Len(chan) = 1 /\ out = <<>>
        BY <4>1 DEF SignalInv, HasShutdown
      <4>3. Tail(chan) = <<>> /\ mpc = "done" /\ reasons = <<>>
        BY <3>1, <3>2, <4>2 DEF SignalInv
      <4>4. reasons' = <<"signal">>
        BY <3>1, <3>3, <4>3
      <4>5. QED
        BY <3>1, <4>2, <4>3, <4>4, NoShutdownIn
    <3>4. CASE Head(chan) # SignalShutdown
      BY <3>1, <3>2, <3>4 DEF HasShutdown
    <3>5. QED
      BY <3>3, <3>4
  <2>3. CASE MainDrained
    BY <2>3 DEF MainDrained, SawShutdown
  <2>4. CASE MainCheck
    <3>1. CASE AllTerminal
      <4>1. /\ main = "check" /\ main' = "leaving" /\ state' = state
            /\ reasons' \in {<<"signal">>, <<"all_terminal">>}
        BY <2>4, <3>1 DEF MainCheck, childVars
      <4>2. Len(reasons') = 1 /\ AllTerminal'
        BY <3>1, <4>1 DEF AllTerminal
      <4>3. QED
        BY <4>1, <4>2
    <3>2. CASE ~AllTerminal
      BY <2>4, <3>2 DEF MainCheck
    <3>3. QED
      BY <3>1, <3>2
  <2>5. CASE MainLeave
    BY <2>1, <2>5 DEF MainLeave, FrontExit, mainVars
  <2>6. ASSUME StartUpStep \/ MonitorStep \/ EnvironmentStep \/ UNCHANGED headVars
        PROVE  LeaveInv'
    <3>1. UNCHANGED mainVars /\ (spm' = spm \/ spm' = "killed")
      BY <2>6 DEF StartUpStep, MonitorStep, EnvironmentStep, headVars, mainVars, StartUp,
         Monitor, SpawnInitial, SpawnsDone, Announce, StartMonitor, MonitorSend,
         InstallHandlers, CheckFlag, AcquireLock, Reap, ReapDone, HealthPass, HealthTerm,
         HealthKill, HealthDone, GuardPass, GuardTerm, GuardKill, RestartSkip,
         RestartSpawn, RestartDone, Publish, ReleaseLock, ShutdownTerm, ShutdownSleep,
         ShutdownReap, ShutdownPolled, ShutdownKill, Environment, LeaderExits,
         LeaderKilled, Forks, MembersExit, ForeignProcess, BackoffElapses, TermSignal
    <3>2. main = "drain" /\ reasons # <<>> => ~HasShutdown(chan') /\ ~HasShutdown(out')
      <4> HAVE main = "drain" /\ reasons # <<>>
      <4>1. mpc = "done" /\ ~HasShutdown(chan) /\ ~HasShutdown(out)
        OBVIOUS
      <4>2. CASE StartUp \/ Monitor
        BY <4>1, <4>2, DoneSends, SendsNoShutdown DEF MonitorSend, ShutdownKill, At
      <4>3. CASE ~(StartUp \/ Monitor)
        <5>1. EnvironmentStep \/ UNCHANGED headVars
          BY <2>6, <4>3 DEF StartUpStep, MonitorStep
        <5>2. UNCHANGED <<chan, out>>
          BY <5>1 DEF EnvironmentStep, headVars, Environment, LeaderExits, LeaderKilled,
             Forks, MembersExit, ForeignProcess, BackoffElapses, TermSignal
        <5>3. QED
          BY <4>1, <5>2 DEF HasShutdown
      <4>4. QED
        BY <4>2, <4>3
    <3>3. QED
      BY <2>1, <3>1, <3>2 DEF mainVars
  <2>7. QED
    BY <2>2, <2>3, <2>4, <2>5, <2>6 DEF HeadNext, Main, Ended
<1>6. QED
  BY <1>2, <1>3, <1>4, <1>5 DEF HeadInv

-----------------------------------------------------------------------------
(* The story of a child, as its events are sent, received and printed *)

\* An event of another child, or of none, does not matter.
LEMMA TellsOther ==
  ASSUME NEW q \in Seq(Event), NEW e \in Event, NEW c \in Children, NEW a, NEW S,
         e.child # c
  PROVE  Tells(a, Append(q, e), c, S) <=> Tells(a, q, c, S)
<1> DEFINE r == Append(q, e)
<1>1. /\ Len(q) \in Nat /\ DOMAIN q = 1..Len(q) /\ DOMAIN r = 1..(Len(q) + 1)
      /\ \A k \in 1..Len(q) : r[k] = q[k]
      /\ r[Len(q) + 1] = e
  OBVIOUS
<1> HIDE DEF r
<1>2. Lines(r, c) = Lines(q, c) /\ \A k \in Lines(q, c) : r[k] = q[k]
  BY <1>1 DEF Lines
<1> DEFINE L == Lines(q, c)
<1> HIDE DEF L
<1>3. Tells(a, r, c, S) <=> Tells(a, q, c, S)
  BY <1>2 DEF Tells, L
<1>4. QED
  BY <1>3 DEF r

\* An event of the child goes on where its story ended.
LEMMA TellsOn ==
  ASSUME NEW q \in Seq(Event), NEW e \in Event, NEW c \in Children, NEW a, NEW S, NEW T,
         Tells(a, q, c, S), e.child = c,
         \A b \in S : Succeeds(b, e.type), e.type \in T
  PROVE  Tells(a, Append(q, e), c, T)
<1> DEFINE r == Append(q, e)
           n == Len(q) + 1
<1>1. /\ Len(q) \in Nat /\ DOMAIN q = 1..Len(q) /\ DOMAIN r = 1..(Len(q) + 1)
      /\ \A k \in 1..Len(q) : r[k] = q[k]
      /\ r[n] = e
  OBVIOUS
<1>2. \A k \in 1..Len(q) : q[k].type # "none"
  <2>1. \A k \in 1..Len(q) : q[k] \in Event
    OBVIOUS
  <2>2. \A f \in Event : f.type # "none"
    BY DEF Event, EventTypes
  <2>3. QED
    BY <2>1, <2>2
<1> HIDE DEF r
<1>3. /\ Lines(r, c) = Lines(q, c) \cup {n}
      /\ \A k \in Lines(q, c) : k \in 1..Len(q) /\ k < n /\ r[k] = q[k]
  BY <1>1 DEF Lines
<1>4. ASSUME NEW j \in Lines(r, c), \A k \in Lines(r, c) : j <= k
      PROVE  Succeeds(a, r[j].type)
  <2>1. CASE j \in Lines(q, c)
    BY <1>3, <1>4, <2>1 DEF Tells
  <2>2. CASE j = n
    <3>1. \A k \in Lines(q, c) : n <= k /\ k < n /\ k \in Nat
      BY <1>1, <1>3, <1>4, <2>2
    <3>2. Lines(q, c) = {}
      BY <1>1, <3>1
    <3>3. QED
      BY <1>1, <2>2, <3>2 DEF Tells
  <2>3. QED
    BY <1>3, <2>1, <2>2
<1>5. ASSUME NEW i \in Lines(r, c), NEW j \in Lines(r, c), i < j,
             \A k \in Lines(r, c) : k <= i \/ j <= k
      PROVE  Follows(r[i].type, r[j].type)
  <2>1. i \in Lines(q, c)
    BY <1>1, <1>3, <1>5
  <2>2. CASE j \in Lines(q, c)
    BY <1>3, <1>5, <2>1, <2>2 DEF Tells
  <2>3. CASE j = n
    <3>1. \A k \in Lines(q, c) : k <= i
      BY <1>1, <1>3, <1>5, <2>3
    <3>2. q[i].type \in S
      BY <2>1, <3>1 DEF Tells
    <3>3. QED
      BY <1>1, <1>2, <1>3, <2>1, <2>3, <3>2 DEF Succeeds
  <2>4. QED
    BY <1>3, <2>2, <2>3
<1>6. ASSUME NEW i \in Lines(r, c), \A k \in Lines(r, c) : k <= i
      PROVE  r[i].type \in T
  BY <1>1, <1>3, <1>6
<1>7. Tells(a, r, c, T)
  BY <1>3, <1>4, <1>5, <1>6 DEF Tells
<1>8. QED
  BY <1>7 DEF r

\* The end of a story may be known less exactly.
LEMMA TellsLess ==
  ASSUME NEW q, NEW c, NEW a, NEW S, NEW T, Tells(a, q, c, S), S \subseteq T
  PROVE  Tells(a, q, c, T)
  BY DEF Tells

\* The first event of a queue is taken out and told.
LEMMA TellsFirst ==
  ASSUME NEW q \in Seq(Event), q # <<>>, NEW c \in Children, NEW a, NEW S,
         Tells(a, q, c, S)
  PROVE  /\ Head(q).child = c => /\ Succeeds(a, Head(q).type)
                                 /\ Tells(Head(q).type, Tail(q), c, S)
         /\ Head(q).child # c => Tells(a, Tail(q), c, S)
<1> DEFINE r == Tail(q)
<1>1. /\ Len(q) \in Nat \ {0} /\ Head(q) = q[1]
      /\ DOMAIN q = 1..Len(q) /\ DOMAIN r = 1..(Len(q) - 1)
      /\ \A k \in 1..(Len(q) - 1) : r[k] = q[k + 1]
  OBVIOUS
<1>2. q[1].type # "none"
  <2>1. q[1] \in Event
    BY <1>1
  <2>2. QED
    BY <2>1 DEF Event, EventTypes
<1> HIDE DEF r
<1>3. /\ \A k \in Lines(r, c) : k \in Nat \ {0} /\ k + 1 \in Lines(q, c) /\ r[k] = q[k + 1]
      /\ \A k \in Lines(q, c) : k \in Nat \ {0} /\ (k = 1 \/ k - 1 \in Lines(r, c))
      /\ 1 \in Lines(q, c) <=> Head(q).child = c
  BY <1>1 DEF Lines
<1>4. ASSUME NEW i \in Lines(r, c), NEW j \in Lines(r, c), i < j,
             \A k \in Lines(r, c) : k <= i \/ j <= k
      PROVE  Follows(r[i].type, r[j].type)
  <2>1. ASSUME NEW k \in Lines(q, c)
        PROVE  k <= i + 1 \/ j + 1 <= k
    <3>1. i \in Nat /\ j \in Nat /\ k \in Nat \ {0}
      BY <1>3
    <3>2. k = 1 \/ k - 1 <= i \/ j <= k - 1
      BY <1>3, <1>4
    <3>3. QED
      BY <3>1, <3>2
  <2>2. i + 1 < j + 1
    BY <1>3, <1>4
  <2>3. QED
    BY <1>3, <1>4, <2>1, <2>2 DEF Tells
<1>5. ASSUME NEW i \in Lines(r, c), \A k \in Lines(r, c) : k <= i
      PROVE  r[i].type \in S
  <2>1. \A k \in Lines(q, c) : k <= i + 1
    BY <1>3, <1>5
  <2>2. QED
    BY <1>3, <2>1 DEF Tells
<1>6. CASE Head(q).child = c
  <2>1. Succeeds(a, q[1].type)
    BY <1>3, <1>6 DEF Tells
  <2>2. ASSUME NEW j \in Lines(r, c), \A k \in Lines(r, c) : j <= k
        PROVE  Succeeds(q[1].type, r[j].type)
    <3>1. \A k \in Lines(q, c) : k <= 1 \/ j + 1 <= k
      BY <1>3, <2>2
    <3>2. 1 < j + 1
      BY <1>3, <2>2
    <3>3. Follows(q[1].type, q[j + 1].type)
      BY <1>3, <1>6, <2>2, <3>1, <3>2 DEF Tells
    <3>4. QED
      BY <1>2, <1>3, <3>3 DEF Succeeds
  <2>3. Lines(r, c) = {} => q[1].type \in S
    <3> HAVE Lines(r, c) = {}
    <3>1. \A k \in Lines(q, c) : k <= 1
      BY <1>3
    <3>2. QED
      BY <1>3, <1>6, <3>1 DEF Tells
  <2>4. Tells(q[1].type, r, c, S)
    BY <1>4, <1>5, <2>2, <2>3 DEF Tells
  <2>5. QED
    BY <1>1, <1>6, <2>1, <2>4 DEF r
<1>7. CASE Head(q).child # c
  <2>1. ASSUME NEW j \in Lines(r, c), \A k \in Lines(r, c) : j <= k
        PROVE  Succeeds(a, r[j].type)
    <3>1. \A k \in Lines(q, c) : j + 1 <= k
      BY <1>3, <1>7, <2>1
    <3>2. QED
      BY <1>3, <3>1 DEF Tells
  <2>2. Lines(r, c) = {} => a \in S
    <3> HAVE Lines(r, c) = {}
    <3>1. Lines(q, c) = {}
      BY <1>3, <1>7
    <3>2. QED
      BY <3>1 DEF Tells
  <2>3. Tells(a, r, c, S)
    BY <1>4, <1>5, <2>1, <2>2 DEF Tells
  <2>4. QED
    BY <1>7, <2>3 DEF r
<1>8. QED
  BY <1>6, <1>7

LEMMA QueueOf ==
  ASSUME NEW q \in Seq(Event), NEW e \in Event, NEW f \in Event
  PROVE  /\ q \o <<>> = q
         /\ q \o <<e>> = Append(q, e)
         /\ q \o <<e, f>> = Append(Append(q, e), f)
         /\ Append(q, e) \in Seq(Event)
  OBVIOUS

\* A send moves an event along the queue; a Notice may be merged.
LEMMA QueueOfSend ==
  ASSUME IInv, SendInv, MonitorSend
  PROVE  Queue' \in Seq(Event) /\ (Queue' = Queue \/ Queue = Append(Queue', Notice))
<1>1. /\ out \in Seq(Event) /\ chan \in Seq(Event) /\ out # <<>>
      /\ chan' = Enqueue(chan, Head(out)) /\ out' = Tail(out)
  BY DEF MonitorSend, IInv, ControlInv, ControlTypeOK
<1>2. Head(out) \in Event /\ Tail(out) \in Seq(Event) /\ out = <<Head(out)>> \o Tail(out)
  BY <1>1
<1>3. CASE chan' = Append(chan, Head(out))
  <2>1. Append(chan, Head(out)) = chan \o <<Head(out)>> /\ <<Head(out)>> \in Seq(Event)
    BY <1>1, <1>2, QueueOf
  <2>2. (chan \o <<Head(out)>>) \o Tail(out) = chan \o (<<Head(out)>> \o Tail(out))
    <3>1. \A q, r, t \in Seq(Event) : (q \o r) \o t = q \o (r \o t)
      BY ConcatAssociative
    <3>2. QED
      BY <1>1, <1>2, <2>1, <3>1, Zenon
  <2>3. Queue' = Queue
    BY <1>1, <1>2, <1>3, <2>1, <2>2, Zenon DEF Queue
  <2>4. Queue \in Seq(Event)
    BY <1>1 DEF Queue
  <2>5. QED
    BY <2>3, <2>4
<1>4. CASE Head(out) = Notice /\ chan' = chan
  <2>1. Len(out) = 1
    BY <1>1, <1>4 DEF SendInv
  <2>2. out = <<Notice>> /\ Tail(out) = <<>>
    BY <1>1, <1>4, <2>1
  <2>3. Queue = Append(chan, Notice) /\ Queue' = chan
    BY <1>1, <1>4, <2>2, NoticeType, QueueOf DEF Queue
  <2>4. QED
    BY <1>1, <2>3
<1>5. QED
  BY <1>1, <1>3, <1>4 DEF Enqueue

\* What comes of an event's being due, or two, for a child.
LEMMA StoryOne ==
  ASSUME NEW q \in Seq(Event), NEW e \in Event, NEW c \in Children, NEW a, NEW S, NEW T,
         Tells(a, q, c, S),
         e.child # c => S \subseteq T,
         e.child = c => e.type \in T /\ \A b \in S : Succeeds(b, e.type)
  PROVE  Tells(a, Append(q, e), c, T)
<1>1. CASE e.child = c
  BY <1>1, TellsOn
<1>2. CASE e.child # c
  <2>1. Tells(a, Append(q, e), c, S)
    BY <1>2, TellsOther
  <2>2. QED
    BY <1>2, <2>1, TellsLess
<1>3. QED
  BY <1>1, <1>2

LEMMA StoryTwo ==
  ASSUME NEW q \in Seq(Event), NEW e \in Event, NEW f \in Event, NEW c \in Children,
         NEW a, NEW S, NEW T, Tells(a, q, c, S), e.child = f.child,
         e.child # c => S \subseteq T,
         e.child = c => /\ \A b \in S : Succeeds(b, e.type)
                       /\ Succeeds(e.type, f.type)
                       /\ f.type \in T
  PROVE  Tells(a, Append(Append(q, e), f), c, T)
<1> DEFINE U == IF e.child = c THEN {e.type} ELSE S
<1>1. Tells(a, Append(q, e), c, U)
  BY StoryOne
<1>2. Append(q, e) \in Seq(Event)
  OBVIOUS
<1>3. /\ f.child # c => U \subseteq T
      /\ f.child = c => f.type \in T /\ \A b \in U : Succeeds(b, f.type)
  OBVIOUS
<1> HIDE DEF U
<1>4. QED
  BY <1>1, <1>2, <1>3, StoryOne

-----------------------------------------------------------------------------
(* The steps of the supervisor, and the story each child's events tell *)

Story(c) == Tells(LastLine(log[c]), Queue, c, LastTypes(c))

\* A step without events, one with one, and one with two of the same child.
LEMMA StoryQuiet ==
  ASSUME NEW c \in Children, Story(c), UNCHANGED <<Queue, log>>,
         LastTypes(c) \subseteq LastTypes(c)'
  PROVE  Story(c)'
  BY TellsLess DEF Story

LEMMA StoryEvent ==
  ASSUME NEW c \in Children, Story(c), Queue \in Seq(Event), log' = log,
         NEW e \in Event, Queue' = Append(Queue, e),
         e.child # c => LastTypes(c) \subseteq LastTypes(c)',
         e.child = c => /\ e.type \in LastTypes(c)'
                        /\ \A b \in LastTypes(c) : Succeeds(b, e.type)
  PROVE  Story(c)'
<1> DEFINE S == LastTypes(c)
           T == LastTypes(c)'
<1>1. Tells(LastLine(log[c]), Queue, c, S)
  BY DEF Story
<1> HIDE DEF S, T
<1>2. Tells(LastLine(log[c]), Append(Queue, e), c, T)
  BY <1>1, StoryOne DEF S, T
<1>3. QED
  BY <1>2 DEF Story, T

LEMMA StoryEvents ==
  ASSUME NEW c \in Children, Story(c), Queue \in Seq(Event), log' = log,
         NEW e \in Event, NEW f \in Event, Queue' = Append(Append(Queue, e), f),
         e.child = f.child,
         e.child # c => LastTypes(c) \subseteq LastTypes(c)',
         e.child = c => /\ \A b \in LastTypes(c) : Succeeds(b, e.type)
                        /\ Succeeds(e.type, f.type)
                        /\ f.type \in LastTypes(c)'
  PROVE  Story(c)'
<1> DEFINE S == LastTypes(c)
           T == LastTypes(c)'
<1>1. Tells(LastLine(log[c]), Queue, c, S)
  BY DEF Story
<1> HIDE DEF S, T
<1>2. Tells(LastLine(log[c]), Append(Append(Queue, e), f), c, T)
  BY <1>1, StoryTwo DEF S, T
<1>3. QED
  BY <1>2 DEF Story, T

\* What the events of a step do to the queue when none was waiting to be sent.
LEMMA QueueGrows ==
  ASSUME chan \in Seq(Event), out = <<>>
  PROVE  /\ Queue = chan
         /\ chan' = chan /\ out' = <<>> => Queue' = Queue
         /\ \A e \in Event :
               /\ chan' = chan /\ out' = <<e>> => Queue' = Append(Queue, e)
               /\ chan' = Append(chan, e) /\ out' = <<>> => Queue' = Append(Queue, e)
         /\ \A e, f \in Event :
               chan' = chan /\ out' = <<e, f>> => Queue' = Append(Append(Queue, e), f)
<1>1. Queue = chan
  BY QueueOf DEF Queue
<1>2. chan' = chan /\ out' = <<>> => Queue' = Queue
  BY <1>1, QueueOf DEF Queue
<1>3. ASSUME NEW e \in Event
      PROVE  /\ chan' = chan /\ out' = <<e>> => Queue' = Append(Queue, e)
             /\ chan' = Append(chan, e) /\ out' = <<>> => Queue' = Append(Queue, e)
  <2>1. Queue' = chan' \o out'
    BY DEF Queue
  <2>2. Append(chan, e) \in Seq(Event)
    BY QueueOf
  <2>3. /\ chan \o <<e>> = Append(chan, e)
        /\ Append(chan, e) \o <<>> = Append(chan, e)
    BY <2>2, QueueOf
  <2>4. QED
    BY <1>1, <2>1, <2>3
<1>4. ASSUME NEW e \in Event, NEW f \in Event, chan' = chan, out' = <<e, f>>
      PROVE  Queue' = Append(Append(Queue, e), f)
  <2>1. Queue' = chan' \o out'
    BY DEF Queue
  <2>2. chan \o <<e, f>> = Append(Append(chan, e), f)
    BY QueueOf
  <2>3. QED
    BY <1>1, <1>4, <2>1, <2>2
<1>5. QED
  BY <1>1, <1>2, <1>3, <1>4

\* What happens to other children is no part of a child's story.
LEMMA SameTypes ==
  ASSUME NEW c \in Children, state'[c] = state[c], Untold(c)' <=> Untold(c),
         (mpc' = "healthKill" /\ cur' = c) <=> (mpc = "healthKill" /\ cur = c),
         (mpc' = "guardKill" /\ cur' = c) <=> (mpc = "guardKill" /\ cur = c)
  PROVE  LastTypes(c)' = LastTypes(c)
  BY DEF LastTypes

\* The last event of a child that has a process lets its exit follow.
LEMMA LiveTypes ==
  ASSUME NEW c \in Children, ~Untold(c), state[c] \in Live
  PROVE  \A b \in LastTypes(c) : Succeeds(b, "exit")
  BY DEF LastTypes, Live, Succeeds, Follows

\* What the startup in the main thread sends: spawn, for each child that was
\* started; none for the others, which are Failed.
LEMMA StartUpTells ==
  ASSUME IInv, StoryInv, StartUp, log' = log
  PROVE  (\A c \in Children : Story(c)') /\ SendInv'
<1> USE DEF StoryInv, LogInv, SendInv
<1>1. /\ \A c \in Children : Story(c)
      /\ out = <<>> /\ chan \in Seq(Event) /\ Queue \in Seq(Event)
      /\ \A c \in Children : state[c] \in {"Stopped", "Running", "Failed"}
      /\ \A c \in Children : c \in Nat
  BY ChildrenAreNumbers, QueueGrows DEF StartUp, SpawnInitial, SpawnsDone, Announce,
     StartMonitor, Story, IInv, ControlInv, ControlTypeOK
<1>2. CASE SpawnInitial
  <2>1. /\ out' = out /\ chan' = chan /\ mpc = "spawning" /\ mpc' = mpc
        /\ state' \in [Children -> ChildStates]
        /\ state' \in {[state EXCEPT ![cur] = "Running"], [state EXCEPT ![cur] = "Failed"]}
    BY <1>2 DEF SpawnInitial, SpawnAs, IInv, DataInv, ChildTypeOK, ChildStates
  <2>2. \A c \in Children : LastTypes(c)' = LastTypes(c)
    BY <2>1 DEF LastTypes, Untold
  <2>3. Queue' = Queue
    BY <2>1 DEF Queue
  <2>4. \A c \in Children : state'[c] \in {"Stopped", "Running", "Failed"}
    BY <1>1, <2>1 DEF IInv, DataInv, ChildTypeOK
  <2>5. QED
    BY <1>1, <2>1, <2>2, <2>3, <2>4, StoryQuiet
<1>3. CASE SpawnsDone \/ StartMonitor
  <2>1. /\ UNCHANGED <<out, chan, state>>
        /\ \/ mpc = "spawning" /\ mpc' = "announcing" /\ cur' = 1
           \/ mpc = "announcing" /\ cur > N /\ mpc' = "handlers" /\ cur' = cur
        /\ cur \in Nat
    BY <1>3, NAssumption
       DEF SpawnsDone, StartMonitor, childVars, IInv, ControlInv, ControlTypeOK
  <2>2. \A c \in Children : Untold(c)' <=> Untold(c)
    BY <2>1, NAssumption DEF Untold, Children
  <2>3. \A c \in Children : LastTypes(c)' = LastTypes(c)
    BY <2>1, <2>2, SameTypes
  <2>4. Queue' = Queue
    BY <2>1 DEF Queue
  <2>5. QED
    BY <1>1, <2>1, <2>3, <2>4, StoryQuiet
<1>4. CASE Announce
  <2>1. /\ UNCHANGED <<out, state, mpc>> /\ mpc = "announcing"
        /\ cur \in Children /\ cur' = cur + 1
        /\ chan' = IF pid[cur] # NoPid THEN Append(chan, Ev("spawn", cur, 0)) ELSE chan
    BY <1>4 DEF Announce, childVars
  <2>2. PICK d \in Children : d = cur
    BY <2>1
  <2>3. ASSUME NEW c \in Children, c # d
        PROVE  LastTypes(c)' = LastTypes(c)
    <3>1. Untold(c)' <=> Untold(c)
      BY <1>1, <2>1, <2>3, <2>2 DEF Untold
    <3>2. QED
      BY <2>1, <3>1, SameTypes
  <2>4. /\ Untold(d) /\ ~Untold(d)'
        /\ LastTypes(d) = {"none"}
    BY <1>1, <2>1, <2>2 DEF Untold, LastTypes
  <2>5. state[d] \in {"Running", "Failed"} /\ (pid[d] # NoPid <=> state[d] = "Running")
    BY <1>1, <2>1, <2>2 DEF IInv, DataInv, ControlInv, StartupInv, PidNamesOwnLeader, Live
  <2>6. CASE pid[d] # NoPid
    <3> DEFINE e == Ev("spawn", d, 0)
    <3>1. e \in Event /\ e.child = d /\ e.type = "spawn"
      BY EvType DEF EventTypes, Children, Ev
    <3>2. Queue' = Append(Queue, e)
      BY <1>1, <2>1, <2>6, <2>2, <3>1, QueueGrows
    <3>3. "spawn" \in LastTypes(d)'
      BY <2>1, <2>2, <2>4, <2>5, <2>6 DEF LastTypes
    <3>4. \A b \in LastTypes(d) : Succeeds(b, "spawn")
      BY <2>4 DEF Succeeds
    <3> HIDE DEF e
    <3>5. \A c \in Children : Story(c)'
      BY <1>1, <2>3, <3>1, <3>2, <3>3, <3>4, StoryEvent
    <3>6. QED
      BY <1>1, <2>1, <3>5
  <2>7. CASE pid[d] = NoPid
    <3>1. "none" \in LastTypes(d)'
      BY <2>1, <2>2, <2>4, <2>5, <2>7 DEF LastTypes
    <3>2. \A c \in Children : LastTypes(c) \subseteq LastTypes(c)'
      BY <2>3, <2>4, <3>1
    <3>3. Queue' = Queue
      BY <2>1, <2>7, <2>2 DEF Queue
    <3>4. QED
      BY <1>1, <2>1, <3>2, <3>3, StoryQuiet
  <2>8. QED
    BY <2>6, <2>7
<1>5. QED
  BY <1>2, <1>3, <1>4 DEF StartUp

\* The sends and receipts of an exit: of a child of which an event was told
\* and that has a process, exit, and what comes of it.
LEMMA ExitTells ==
  ASSUME IInv, StoryInv, out = <<>>, NEW d \in Children, NEW s \in Zombies,
         NEW allow \in BOOLEAN, pid[d] # NoPid, HandleExit(d, s, allow),
         mpc \in {"reap", "sdReap"}, UNCHANGED <<chan, mpc, cur, log>>
  PROVE  (\A c \in Children : Story(c)') /\ SendInv'
<1>1. /\ \A c \in Children : Story(c)
      /\ chan \in Seq(Event) /\ Queue \in Seq(Event)
      /\ restartCount[d] \in Nat /\ state \in [Children -> ChildStates]
      /\ state[d] \in Live
  BY QueueGrows DEF StoryInv, LogInv, Story, IInv, ControlInv, ControlTypeOK, DataInv,
     ChildTypeOK, PidNamesOwnLeader
<1>2. \A c \in Children : ~Untold(c) /\ ~Untold(c)'
  BY DEF Untold
<1>3. \A b \in LastTypes(d) : Succeeds(b, "exit")
  BY <1>1, <1>2, LiveTypes
<1> DEFINE e == ExitEvent(d)
           done == Ev("completed", d, 0)
           fail == Ev("failed", d, restartCount[d] + 1)
<1>4. /\ e \in Event /\ e.child = d /\ e.type = "exit"
      /\ done \in Event /\ done.child = d /\ done.type = "completed"
      /\ fail \in Event /\ fail.child = d /\ fail.type = "failed"
  <2>1. e \in Event /\ e.child = d /\ e.type = "exit"
    BY ExitEventType DEF ExitEvent, Ev
  <2>2. restartCount[d] + 1 \in Nat /\ d \in 0..N
    BY <1>1 DEF Children
  <2>3. QED
    BY <2>1, <2>2, EvType DEF EventTypes, Ev
<1>5. \/ state' = [state EXCEPT ![d] = "Completed"] /\ out' = <<e, done>>
      \/ state' = [state EXCEPT ![d] = "Restarting"] /\ out' = <<e>>
      \/ state' = [state EXCEPT ![d] = "Failed"] /\ out' = <<e, fail>>
  BY DEF HandleExit, Completes, Retries, GivesUp, FailedEvents
<1>6. e # Notice /\ done # Notice /\ fail # Notice
  BY <1>4 DEF Notice, Ev
<1> HIDE DEF e, done, fail
<1>7. SendInv'
  <2>1. \A i \in DOMAIN out' : out'[i] # Notice
    BY <1>5, <1>6
  <2>2. QED
    BY <2>1 DEF SendInv
<1>8. ASSUME NEW c \in Children, c # d
      PROVE  LastTypes(c)' = LastTypes(c)
  <2>1. state'[c] = state[c]
    BY <1>1, <1>5, <1>8
  <2>2. QED
    BY <1>2, <2>1, SameTypes
<1>9. CASE state' = [state EXCEPT ![d] = "Completed"] /\ out' = <<e, done>>
  <2>1. "completed" \in LastTypes(d)' /\ Succeeds("exit", "completed")
    BY <1>1, <1>2, <1>9 DEF LastTypes, Succeeds, Follows
  <2>2. Queue' = Append(Append(Queue, e), done)
    BY <1>1, <1>4, <1>9, QueueGrows
  <2>3. \A c \in Children : Story(c)'
    BY <1>1, <1>3, <1>4, <1>8, <2>1, <2>2, StoryEvents
  <2>4. QED
    BY <1>7, <2>3
<1>10. CASE state' = [state EXCEPT ![d] = "Restarting"] /\ out' = <<e>>
  <2>1. "exit" \in LastTypes(d)'
    BY <1>1, <1>2, <1>10 DEF LastTypes
  <2>2. Queue' = Append(Queue, e)
    BY <1>1, <1>4, <1>10, QueueGrows
  <2>3. \A c \in Children : Story(c)'
    BY <1>1, <1>3, <1>4, <1>8, <2>1, <2>2, StoryEvent
  <2>4. QED
    BY <1>7, <2>3
<1>11. CASE state' = [state EXCEPT ![d] = "Failed"] /\ out' = <<e, fail>>
  <2>1. "failed" \in LastTypes(d)' /\ Succeeds("exit", "failed")
    BY <1>1, <1>2, <1>11 DEF LastTypes, Succeeds, Follows
  <2>2. Queue' = Append(Append(Queue, e), fail)
    BY <1>1, <1>4, <1>11, QueueGrows
  <2>3. \A c \in Children : Story(c)'
    BY <1>1, <1>3, <1>4, <1>8, <2>1, <2>2, StoryEvents
  <2>4. QED
    BY <1>7, <2>3
<1>12. QED
  BY <1>5, <1>9, <1>10, <1>11

\* The monitor's steps without an event; a kill that was announced comes true
\* without one.
LEMMA SilentTells ==
  ASSUME IInv, StoryInv, log' = log,
         \/ InstallHandlers \/ CheckFlag \/ AcquireLock \/ ReapDone \/ HealthKill
         \/ HealthDone \/ GuardKill \/ RestartSkip \/ RestartDone \/ ReleaseLock
         \/ ShutdownTerm \/ ShutdownSleep \/ ShutdownPolled
  PROVE  (\A c \in Children : Story(c)') /\ SendInv'
<1>1. /\ \A c \in Children : Story(c)
      /\ state \in [Children -> ChildStates]
  BY DEF StoryInv, LogInv, Story, IInv, DataInv, ChildTypeOK
<1>2. /\ UNCHANGED <<out, chan>> /\ out = <<>>
      /\ mpc \notin {"spawning", "announcing"} /\ mpc' \notin {"spawning", "announcing"}
      /\ mpc' \notin {"healthKill", "guardKill"}
      /\ \/ state' = state /\ mpc \notin {"healthKill", "guardKill"}
         \/ /\ mpc \in {"healthKill", "guardKill"}
            /\ state' = [state EXCEPT ![cur] = "Stopping"]
  BY DEF InstallHandlers, CheckFlag, AcquireLock, ReapDone, HealthKill, HealthDone,
     GuardKill, RestartSkip, RestartDone, ReleaseLock, ShutdownTerm, ShutdownSleep,
     ShutdownPolled, At, childVars
<1>3. ASSUME NEW c \in Children
      PROVE  LastTypes(c) \subseteq LastTypes(c)'
  <2>1. ~Untold(c) /\ ~Untold(c)'
    BY <1>2 DEF Untold
  <2>2. CASE mpc \in {"healthKill", "guardKill"} /\ c = cur
    <3>1. state[c] = "Running" /\ state'[c] = "Stopping"
      BY <1>1, <1>2, <2>2 DEF IInv, ControlInv, CursorInv
    <3>2. QED
      BY <2>1, <2>2, <3>1 DEF LastTypes
  <2>3. CASE ~(mpc \in {"healthKill", "guardKill"} /\ c = cur)
    <3>1. state'[c] = state[c]
      BY <1>1, <1>2, <2>3
    <3>2. LastTypes(c)' = LastTypes(c)
      BY <1>2, <2>1, <2>3, <3>1, SameTypes
    <3>3. QED
      BY <3>2
  <2>4. QED
    BY <2>2, <2>3
<1>4. Queue' = Queue
  BY <1>2 DEF Queue
<1>5. \A c \in Children : Story(c)'
  <2>1. log' = log
    OBVIOUS
  <2>2. QED
    BY <1>1, <1>3, <1>4, <2>1, StoryQuiet
<1>6. SendInv'
  <2>1. mpc' \notin {"spawning", "announcing"}
    BY <1>2
  <2>2. DOMAIN out' = {}
    BY <1>2
  <2>3. QED
    BY <2>1, <2>2 DEF SendInv
<1>7. QED
  BY <1>5, <1>6

\* The reports that are about no child's life.
LEMMA NoticeTells ==
  ASSUME IInv, StoryInv, log' = log, HealthPass \/ GuardPass \/ Publish
  PROVE  (\A c \in Children : Story(c)') /\ SendInv'
<1>1. /\ \A c \in Children : Story(c)
      /\ UNCHANGED <<state, chan>> /\ out = <<>> /\ out' \in {<<>>, <<Notice>>}
      /\ chan \in Seq(Event) /\ Queue \in Seq(Event)
      /\ mpc \notin {"spawning", "announcing", "healthKill", "guardKill"}
      /\ mpc' \notin {"spawning", "announcing", "healthKill", "guardKill"}
  BY QueueGrows DEF StoryInv, LogInv, Story, HealthPass, GuardPass, Publish, At, childVars,
     IInv, ControlInv, ControlTypeOK
<1>2. Notice \in Event /\ \A c \in Children : Notice.child # c
  BY NoticeType DEF Notice, Ev, Children
<1>3. \A c \in Children : LastTypes(c)' = LastTypes(c)
  BY <1>1, SameTypes DEF Untold
<1>4. CASE out' = <<>>
  <2>1. Queue' = Queue
    BY <1>1, <1>4, QueueGrows
  <2>2. \A c \in Children : Story(c)'
    BY <1>1, <1>3, <2>1, StoryQuiet
  <2>3. mpc' \notin {"spawning", "announcing"} /\ DOMAIN out' = {}
    BY <1>1, <1>4
  <2>4. SendInv'
    BY <2>3 DEF SendInv
  <2>5. QED
    BY <2>2, <2>4
<1>5. CASE out' = <<Notice>>
  <2>1. Queue' = Append(Queue, Notice)
    BY <1>1, <1>2, <1>5, QueueGrows
  <2>2. \A c \in Children : Story(c)'
    BY <1>1, <1>2, <1>3, <2>1, StoryEvent
  <2>3. SendInv'
    BY <1>1, <1>5 DEF SendInv
  <2>4. QED
    BY <2>2, <2>3
<1>6. QED
  BY <1>1, <1>4, <1>5

\* A kill is announced for a process that was started.
LEMMA KillTells ==
  ASSUME IInv, StoryInv, log' = log, HealthTerm \/ GuardTerm
  PROVE  (\A c \in Children : Story(c)') /\ SendInv'
<1>1. PICK d \in Children, type \in {"health_kill", "guard_kill"} :
         /\ state[d] = "Running" /\ state' = state /\ cur' = d
         /\ mpc \in {"health", "guard"}
         /\ mpc' = IF type = "health_kill" THEN "healthKill" ELSE "guardKill"
         /\ chan' = chan /\ out = <<>> /\ out' = <<Ev(type, d, 0)>>
  <2>1. CASE HealthTerm
    BY <2>1 DEF HealthTerm, At, childVars
  <2>2. CASE GuardTerm
    BY <2>2 DEF GuardTerm, At, childVars
  <2>3. QED
    BY <2>1, <2>2
<1>2. /\ \A c \in Children : Story(c)
      /\ chan \in Seq(Event) /\ Queue \in Seq(Event)
  BY <1>1, QueueGrows DEF StoryInv, LogInv, Story, IInv, ControlInv, ControlTypeOK
<1> DEFINE e == Ev(type, d, 0)
<1>3. e \in Event /\ e.child = d /\ e.type = type /\ e # Notice
  BY EvType DEF EventTypes, Children, Ev, Notice
<1>4. Queue' = Append(Queue, e)
  BY <1>1, <1>2, <1>3, QueueGrows
<1>5. /\ type \in LastTypes(d)'
      /\ \A b \in LastTypes(d) : Succeeds(b, type)
  BY <1>1 DEF LastTypes, Untold, Succeeds, Follows
<1>6. ASSUME NEW c \in Children, c # d
      PROVE  LastTypes(c)' = LastTypes(c)
  BY <1>1, <1>6, SameTypes DEF Untold
<1> HIDE DEF e
<1>7. \A c \in Children : Story(c)'
  BY <1>1, <1>2, <1>3, <1>4, <1>5, <1>6, StoryEvent
<1>8. SendInv'
  <2>1. out' = <<e>>
    BY <1>1 DEF e
  <2>2. QED
    BY <1>1, <1>3, <2>1 DEF SendInv
<1>9. QED
  BY <1>7, <1>8

\* A restart follows an exit: spawn and restart, or failed.
LEMMA RestartTells ==
  ASSUME IInv, StoryInv, log' = log, RestartSpawn
  PROVE  (\A c \in Children : Story(c)') /\ SendInv'
<1>1. PICK d \in Children : d = cur
  BY DEF RestartSpawn
<1> DEFINE e == Ev("spawn", d, 0)
           f == Ev("restart", d, restartCount[d])
           g == Ev("failed", d, restartCount[d])
<1>2. /\ \A c \in Children : Story(c)
      /\ chan \in Seq(Event) /\ out = <<>> /\ Queue \in Seq(Event)
      /\ restartCount[d] \in Nat /\ state \in [Children -> ChildStates]
      /\ state[d] = "Restarting"
  BY <1>1, QueueGrows DEF RestartSpawn, At, Due, StoryInv, LogInv, Story, IInv, ControlInv,
     ControlTypeOK, DataInv, ChildTypeOK
<1>3. /\ e \in Event /\ e.child = d /\ e.type = "spawn"
      /\ f \in Event /\ f.child = d /\ f.type = "restart"
      /\ g \in Event /\ g.child = d /\ g.type = "failed"
      /\ Notice \notin {e, f, g}
  BY <1>2, EvType DEF EventTypes, Children, Ev, Notice
<1>4. /\ mpc = "restart" /\ mpc' = mpc /\ chan' = chan
      /\ \/ state' = [state EXCEPT ![d] = "Running"] /\ out' = <<e, f>>
         \/ state' = [state EXCEPT ![d] = "Failed"] /\ out' = <<g>>
  BY <1>1 DEF RestartSpawn, At, SpawnAs, RestartEvents, FailedEvents
<1>5. ~Untold(d) /\ ~Untold(d)' /\ LastTypes(d) = {"exit"}
  BY <1>2, <1>4 DEF Untold, LastTypes
<1>6. ASSUME NEW c \in Children, c # d
      PROVE  LastTypes(c)' = LastTypes(c)
  <2>1. state'[c] = state[c]
    BY <1>2, <1>4, <1>6
  <2>2. QED
    BY <1>4, <2>1, SameTypes DEF Untold
<1> HIDE DEF e, f, g
<1>7. SendInv'
  <2>1. \A i \in DOMAIN out' : out'[i] # Notice
    BY <1>3, <1>4
  <2>2. QED
    BY <1>4, <2>1 DEF SendInv
<1>8. CASE state' = [state EXCEPT ![d] = "Running"] /\ out' = <<e, f>>
  <2>1. /\ "restart" \in LastTypes(d)'
        /\ Succeeds("exit", "spawn") /\ Succeeds("spawn", "restart")
    BY <1>2, <1>4, <1>5, <1>8 DEF LastTypes, Succeeds, Follows
  <2>2. Queue' = Append(Append(Queue, e), f)
    BY <1>2, <1>3, <1>4, <1>8, QueueGrows
  <2>3. \A c \in Children : Story(c)'
    BY <1>2, <1>3, <1>5, <1>6, <2>1, <2>2, StoryEvents
  <2>4. QED
    BY <1>7, <2>3
<1>9. CASE state' = [state EXCEPT ![d] = "Failed"] /\ out' = <<g>>
  <2>1. "failed" \in LastTypes(d)' /\ Succeeds("exit", "failed")
    BY <1>2, <1>4, <1>5, <1>9 DEF LastTypes, Succeeds, Follows
  <2>2. Queue' = Append(Queue, g)
    BY <1>2, <1>3, <1>4, <1>9, QueueGrows
  <2>3. \A c \in Children : Story(c)'
    BY <1>2, <1>3, <1>5, <1>6, <2>1, <2>2, StoryEvent
  <2>4. QED
    BY <1>7, <2>3
<1>10. QED
  BY <1>4, <1>8, <1>9

\* The end of shutdown_children: what it gives up on has no further event.
LEMMA ShutdownTells ==
  ASSUME IInv, StoryInv, log' = log, ShutdownKill
  PROVE  (\A c \in Children : Story(c)') /\ SendInv'
<1>1. /\ \A c \in Children : Story(c)
      /\ chan \in Seq(Event) /\ out = <<>> /\ chan' = chan /\ out' = <<SignalShutdown>>
      /\ Queue \in Seq(Event)
      /\ mpc = "sdKill" /\ mpc' = "done"
      /\ state' = [c \in Children |-> IF state[c] \in Live THEN "Stopped" ELSE state[c]]
  BY QueueGrows DEF ShutdownKill, SignalShutdown, At, StoryInv, LogInv, Story, IInv,
     ControlInv, ControlTypeOK
<1>2. /\ SignalShutdown \in Event /\ SignalShutdown # Notice
      /\ \A c \in Children : SignalShutdown.child # c
  BY EvType, NAssumption DEF SignalShutdown, EventTypes, Children, Ev, Notice
<1>3. ASSUME NEW c \in Children
      PROVE  LastTypes(c) \subseteq LastTypes(c)'
  <2>1. ~Untold(c) /\ ~Untold(c)'
    BY <1>1 DEF Untold
  <2>2. CASE state[c] \in Live
    BY <1>1, <2>1, <2>2 DEF LastTypes, Live
  <2>3. CASE state[c] \notin Live
    <3>1. state'[c] = state[c]
      BY <1>1, <2>3
    <3>2. LastTypes(c)' = LastTypes(c)
      BY <1>1, <2>1, <3>1, SameTypes
    <3>3. QED
      BY <3>2
  <2>4. QED
    BY <2>2, <2>3
<1>4. Queue' = Append(Queue, SignalShutdown)
  BY <1>1, <1>2, QueueGrows
<1>5. \A c \in Children : Story(c)'
  BY <1>1, <1>2, <1>3, <1>4, StoryEvent
<1>6. SendInv'
  BY <1>1, <1>2 DEF SendInv
<1>7. QED
  BY <1>5, <1>6

LEMMA MonitorTells ==
  ASSUME IInv, StoryInv, log' = log, Monitor
  PROVE  (\A c \in Children : Story(c)') /\ SendInv'
<1>1. CASE MonitorSend
  <2>1. /\ Queue' \in Seq(Event) /\ (Queue' = Queue \/ Queue = Append(Queue', Notice))
        /\ Notice \in Event /\ \A c \in Children : Notice.child # c
    BY <1>1, QueueOfSend, NoticeType DEF StoryInv, Notice, Ev, Children
  <2>2. /\ out # <<>> /\ out' = Tail(out) /\ out \in Seq(Event)
        /\ UNCHANGED <<state, mpc, cur>>
    BY <1>1 DEF MonitorSend, childVars, IInv, ControlInv, ControlTypeOK
  <2>3. ASSUME NEW c \in Children
        PROVE  Story(c)'
    <3>1. LastTypes(c)' = LastTypes(c) /\ LastLine(log[c])' = LastLine(log[c])
      BY <2>2 DEF LastTypes, Untold, LastLine
    <3>2. Tells(LastLine(log[c]), Queue, c, LastTypes(c))
      BY DEF StoryInv, LogInv
    <3>3. Tells(LastLine(log[c]), Queue', c, LastTypes(c))
      BY <2>1, <3>2, TellsOther
    <3>4. QED
      BY <3>1, <3>3 DEF Story
  <2>4. SendInv'
    <3>1. mpc \notin {"spawning", "announcing"}
      BY <2>2 DEF StoryInv, SendInv
    <3>2. ASSUME NEW i \in DOMAIN out', out'[i] = Notice
          PROVE  FALSE
      <4>1. i + 1 \in DOMAIN out /\ out[i + 1] = Notice /\ i \in Nat \ {0}
        BY <2>2, <3>2
      <4>2. Len(out) = 1
        BY <4>1 DEF StoryInv, SendInv
      <4>3. QED
        BY <2>2, <4>1, <4>2
    <3>3. QED
      BY <2>2, <3>1, <3>2 DEF SendInv
  <2>5. QED
    BY <2>3, <2>4
<1>2. CASE Reap \/ ShutdownReap
  <2>1. /\ out = <<>> /\ mpc \in {"reap", "sdReap"} /\ UNCHANGED <<chan, mpc, cur>>
        /\ \E allow \in BOOLEAN : ReapOne(allow)
    BY <1>2 DEF Reap, ShutdownReap, At
  <2>2. CASE \E d \in Children, s \in Zombies, allow \in BOOLEAN :
                pid[d] # NoPid /\ HandleExit(d, s, allow)
    BY <2>1, <2>2, ExitTells
  <2>3. CASE UNCHANGED <<state, out>>
    <3>1. \A c \in Children : LastTypes(c)' = LastTypes(c)
      BY <2>1, <2>3 DEF LastTypes, Untold
    <3>2. Queue' = Queue
      BY <2>1, <2>3 DEF Queue
    <3>3. \A c \in Children : Story(c)'
      BY <3>1, <3>2, StoryQuiet DEF StoryInv, LogInv, Story
    <3>4. QED
      BY <2>1, <2>3, <3>3 DEF SendInv, StoryInv
  <2>4. QED
    BY <2>1, <2>2, <2>3, NoPidIsNoPid DEF ReapOne
<1>3. QED
  BY <1>1, <1>2, SilentTells, NoticeTells, KillTells, RestartTells, ShutdownTells
     DEF Monitor

\* main takes the first event out of the channel and prints it.
LEMMA ReceiveTells ==
  ASSUME IInv, StoryInv, MainReceive
  PROVE  /\ \A c \in Children : Story(c)'
         /\ log' \in [Children -> Seq(Event)]
         /\ LogReadsAsLife'
<1> DEFINE e == Head(chan)
<1>1. /\ chan \in Seq(Event) /\ out \in Seq(Event) /\ chan # <<>>
      /\ chan' = Tail(chan) /\ UNCHANGED <<out, state, mpc, cur>>
      /\ log' = [c \in Children |-> IF c = e.child THEN Append(log[c], e) ELSE log[c]]
      /\ log \in [Children -> Seq(Event)]
  BY DEF MainReceive, Printed, childVars, IInv, ControlInv, ControlTypeOK, StoryInv, LogInv
<1>2. /\ e \in Event /\ Queue \in Seq(Event) /\ Queue # <<>>
      /\ Head(Queue) = e /\ Tail(Queue) = Queue'
  <2>1. e \in Event /\ Tail(chan) \in Seq(Event) /\ chan = <<e>> \o Tail(chan)
    BY <1>1
  <2>2. Queue = chan \o out /\ Queue' = Tail(chan) \o out
    BY <1>1 DEF Queue
  <2>3. \A q, r, t \in Seq(Event) : (q \o r) \o t = q \o (r \o t)
    BY ConcatAssociative
  <2>4. <<e>> \in Seq(Event) /\ Tail(chan) \o out \in Seq(Event)
    BY <1>1, <2>1
  <2> HIDE DEF e
  <2>5. Queue = <<e>> \o Queue'
    <3>1. (<<e>> \o Tail(chan)) \o out = <<e>> \o (Tail(chan) \o out)
      BY <1>1, <2>1, <2>3, <2>4, Zenon
    <3>2. chan \o out = (<<e>> \o Tail(chan)) \o out
      BY <2>1, Zenon
    <3>3. QED
      BY <2>2, <3>1, <3>2, Zenon
  <2>6. \A q \in Seq(Event) : /\ <<e>> \o q \in Seq(Event) /\ <<e>> \o q # <<>>
                             /\ Head(<<e>> \o q) = e /\ Tail(<<e>> \o q) = q
    BY <2>1
  <2>7. QED
    BY <2>1, <2>2, <2>4, <2>5, <2>6
<1> HIDE DEF e
<1>3. ASSUME NEW c \in Children
      PROVE  /\ Story(c)'
             /\ log'[c] \in Seq(Event)
             /\ log'[c] # <<>> => log'[c][1].type = "spawn"
             /\ \A i \in 1..(Len(log'[c]) - 1) :
                   Follows(log'[c][i].type, log'[c][i + 1].type)
  <2>1. /\ Tells(LastLine(log[c]), Queue, c, LastTypes(c))
        /\ log[c] \in Seq(Event)
        /\ log[c] # <<>> => log[c][1].type = "spawn"
        /\ \A i \in 1..(Len(log[c]) - 1) : Follows(log[c][i].type, log[c][i + 1].type)
    BY <1>1 DEF StoryInv, LogInv, LogReadsAsLife
  <2>2. LastTypes(c)' = LastTypes(c)
    BY <1>1 DEF LastTypes, Untold
  <2>3. CASE e.child # c
    <3>1. log'[c] = log[c] /\ LastLine(log[c])' = LastLine(log[c])
      BY <1>1, <2>3 DEF LastLine
    <3>2. Tells(LastLine(log[c]), Queue', c, LastTypes(c))
      BY <1>2, <2>1, <2>3, TellsFirst
    <3>3. Story(c)'
      BY <2>2, <3>1, <3>2 DEF Story
    <3>4. QED
      BY <2>1, <3>1, <3>3
  <2>4. CASE e.child = c
    <3> DEFINE r == Append(log[c], e)
               n == Len(log[c])
    <3>1. log'[c] = r
      BY <1>1, <2>4
    <3>2. /\ Succeeds(LastLine(log[c]), e.type)
          /\ Tells(e.type, Queue', c, LastTypes(c))
      BY <1>2, <2>1, <2>4, TellsFirst
    <3>3. /\ r \in Seq(Event) /\ n \in Nat /\ Len(r) = n + 1 /\ r # <<>>
          /\ \A k \in 1..n : r[k] = log[c][k]
          /\ r[n + 1] = e
          /\ n = 0 <=> log[c] = <<>>
      BY <1>2, <2>1
    <3>4. LastLine(log[c]) = IF n = 0 THEN "none" ELSE log[c][n].type
      BY <3>3 DEF LastLine
    <3>5. \A k \in 1..n : log[c][k].type # "none"
      <4>1. \A k \in 1..n : log[c][k] \in Event
        BY <2>1
      <4>2. QED
        BY <4>1 DEF Event, EventTypes
    <3> HIDE DEF r, n
    <3>6. LastLine(r) = e.type
      BY <3>3 DEF LastLine
    <3>7. Story(c)'
      BY <2>2, <3>1, <3>2, <3>6 DEF Story
    <3>8. r[1].type = "spawn"
      <4>1. CASE n = 0
        BY <3>2, <3>3, <3>4, <4>1 DEF Succeeds
      <4>2. CASE n # 0
        BY <2>1, <3>3, <4>2
      <4>3. QED
        BY <4>1, <4>2
    <3>9. ASSUME NEW i \in 1..n
          PROVE  Follows(r[i].type, r[i + 1].type)
      <4>1. CASE i = n
        <5>1. n # 0 /\ n \in 1..n
          BY <3>3, <4>1
        <5>2. LastLine(log[c]) = log[c][n].type /\ log[c][n].type # "none"
          BY <3>4, <3>5, <5>1
        <5>3. Follows(log[c][n].type, e.type)
          BY <3>2, <5>2 DEF Succeeds
        <5>4. QED
          BY <3>3, <4>1, <5>1, <5>3
      <4>2. CASE i # n
        <5>1. i \in 1..(n - 1) /\ i + 1 \in 1..n
          BY <3>3, <4>2
        <5>2. QED
          BY <2>1, <3>3, <5>1 DEF n
      <4>3. QED
        BY <4>1, <4>2
    <3>10. QED
      BY <3>1, <3>3, <3>7, <3>8, <3>9
  <2>5. QED
    BY <2>3, <2>4
<1>4. DOMAIN log' = Children /\ log' = [c \in Children |-> log'[c]]
  BY <1>1
<1>5. log' \in [Children -> Seq(Event)]
  BY <1>3, <1>4
<1>6. LogReadsAsLife'
  BY <1>3 DEF LogReadsAsLife
<1>7. QED
  BY <1>3, <1>5, <1>6

LEMMA StoryInvStep ==
  ASSUME IInv, StoryInv, [HeadNext]_headVars
  PROVE  StoryInv'
<1>1. CASE StartUpStep \/ MonitorStep
  <2>1. log' = log
    BY <1>1 DEF StartUpStep, MonitorStep, mainVars
  <2>2. (\A c \in Children : Story(c)') /\ SendInv'
    BY <1>1, <2>1, StartUpTells, MonitorTells DEF StartUpStep, MonitorStep
  <2>3. log' \in [Children -> Seq(Event)] /\ LogReadsAsLife'
    BY <2>1 DEF StoryInv, LogInv, LogReadsAsLife
  <2>4. QED
    BY <2>2, <2>3 DEF StoryInv, LogInv, Story
<1>2. CASE ~StartUpStep /\ ~MonitorStep
  <2>1. UNCHANGED <<state, mpc, cur, out>> /\ (UNCHANGED <<chan, log>> \/ MainReceive)
    BY <1>2, OthersLeaveChildren
  <2>2. SendInv'
    BY <2>1 DEF StoryInv, SendInv
  <2>3. CASE MainReceive
    BY <2>2, <2>3, ReceiveTells DEF StoryInv, LogInv, Story
  <2>4. CASE UNCHANGED <<chan, log>>
    <3>1. /\ \A c \in Children : LastTypes(c)' = LastTypes(c)
          /\ Queue' = Queue
      BY <2>1, <2>4 DEF LastTypes, Untold, Queue
    <3>2. \A c \in Children : Story(c)'
      BY <2>4, <3>1 DEF Story, StoryInv, LogInv
    <3>3. log' \in [Children -> Seq(Event)] /\ LogReadsAsLife'
      BY <2>4 DEF StoryInv, LogInv, LogReadsAsLife
    <3>4. QED
      BY <2>2, <3>2, <3>3 DEF StoryInv, LogInv, Story
  <2>5. QED
    BY <2>1, <2>3, <2>4
<1>3. QED
  BY <1>1, <1>2

LEMMA StoryInit ==
  ASSUME HeadInit
  PROVE  StoryInv
<1>1. /\ log = [c \in Children |-> <<>>] /\ Queue = <<>> /\ mpc = "spawning"
      /\ out = <<>> /\ \A c \in Children : state[c] = "Stopped"
  BY DEF HeadInit, Init, Queue
<1>2. log \in [Children -> Seq(Event)] /\ LogReadsAsLife
  BY <1>1 DEF LogReadsAsLife
<1>3. ASSUME NEW c \in Children
      PROVE  Tells(LastLine(log[c]), Queue, c, LastTypes(c))
  <2>1. LastLine(log[c]) = "none" /\ LastTypes(c) = {"none"} /\ Lines(Queue, c) = {}
    BY <1>1 DEF LastLine, LastTypes, Untold, Lines
  <2>2. QED
    BY <2>1 DEF Tells
<1>4. SendInv
  BY <1>1 DEF SendInv
<1>5. QED
  BY <1>2, <1>3, <1>4 DEF StoryInv, LogInv

LEMMA HeadInvariance == HeadSpec => [](IInv /\ HeadInv)
<1>1. HeadInit => IInv /\ HeadInv
  <2> SUFFICES ASSUME HeadInit
               PROVE  IInv /\ HeadInv
    OBVIOUS
  <2>1. IInv
    BY InitIInv DEF HeadInit
  <2>2. SignalInv /\ DoneInv
    BY NoShutdownIn DEF HeadInit, Init, SignalInv, DoneInv
  <2>3. LeaveInv
    BY DEF HeadInit, Init, LeaveInv
  <2>4. QED
    BY <2>1, <2>2, <2>3 DEF HeadInv
<1>2. IInv /\ HeadInv /\ [HeadNext]_headVars => (IInv /\ HeadInv)'
  BY HeadInvStep
<1>3. QED
  BY <1>1, <1>2, PTL DEF HeadSpec

LEMMA StoryInvariance == HeadSpec => [](IInv /\ StoryInv)
<1>1. HeadInit => StoryInv
  BY StoryInit
<1>2. IInv /\ StoryInv /\ [HeadNext]_headVars => StoryInv'
  BY StoryInvStep
<1>3. QED
  BY <1>1, <1>2, HeadInvariance, PTL DEF HeadSpec

-----------------------------------------------------------------------------
\* run_supervisor_headless is one of the front ends Supervisor allows: what
\* holds of the core with any front end holds of the headless program.
THEOREM HeadlessRefines == HeadSpec => ImplementsSupervisor
<1>1. HeadInit => Init
  BY DEF HeadInit
<1>2. IInv /\ HeadInv /\ [HeadNext]_headVars => [Next]_vars
  BY MainStaysInBounds
<1>3. QED
  BY <1>1, <1>2, HeadInvariance, PTL DEF HeadSpec, ImplementsSupervisor, Spec

\* What README.md promises of a command (spm run --headless) holds of the whole
\* headless program: each command lives as Lifecycle says.
COROLLARY HeadlessLives == HeadSpec => ImplementsLifecycle
BY HeadlessRefines, Refinement, PTL DEF ImplementsSupervisor

\* run_supervisor_headless prints one shutdown line, on both its ways out.
THEOREM ShutdownLineOnce == HeadSpec => []OneShutdownLine
<1>1. HeadInv => OneShutdownLine
  <2>1. Len(<<>>) = 0
    OBVIOUS
  <2>2. CASE main = "leaving"
    BY <2>2 DEF HeadInv, LeaveInv, OneShutdownLine
  <2>3. CASE main # "leaving" /\ reasons = <<>>
    BY <2>1, <2>3 DEF HeadInv, LeaveInv, OneShutdownLine
  <2>4. CASE main # "leaving" /\ reasons # <<>>
    <3> SUFFICES ASSUME HeadInv
                 PROVE  OneShutdownLine
      OBVIOUS
    <3>1. main = "drain" /\ spm # "exited"
      BY <2>4 DEF HeadInv, LeaveInv
    <3>2. Len(reasons) = 1
      BY <2>4, <3>1 DEF HeadInv, LeaveInv
    <3>3. QED
      BY <3>1, <3>2 DEF OneShutdownLine
  <2>5. QED
    BY <2>2, <2>3, <2>4
<1>2. QED
  BY <1>1, HeadInvariance, PTL

\* When the headless program returns from main, no process it started is
\* left without a SIGKILL, for any number of commands and any timing of the
\* signal.
THEOREM NoLeaderOrphaned == HeadSpec => []NoOrphanLeader
<1>1. IInv /\ HeadInv => NoOrphanLeader
  <2> SUFFICES ASSUME IInv, HeadInv, spm = "exited", NEW p \in Pids, leader[p] = "alive"
               PROVE  FALSE
    BY DEF NoOrphanLeader
  <2>1. mpc = "done" \/ AllTerminal
    BY DEF HeadInv, LeaveInv
  <2>2. PICK c \in Children : pid[c] = p
    BY DEF IInv, DataInv, NoStrayLeader, Ours
  <2>3. state[c] \in Live
    BY <2>2, NoPidIsNoPid DEF IInv, DataInv, PidNamesOwnLeader
  <2>4. QED
    BY <2>1, <2>3 DEF HeadInv, DoneInv, AllDead, AllTerminal, Live, Terminal
<1>2. QED
  BY <1>1, HeadInvariance, PTL

\* What main prints of a child reads as a life from its spawn, for any number
\* of commands, restarts and kills, and however far main is behind.
THEOREM LogTellsLives == HeadSpec => []LogReadsAsLife
<1>1. StoryInv => LogReadsAsLife
  BY DEF StoryInv, LogInv
<1>2. QED
  BY <1>1, StoryInvariance, PTL

\* What the monitor thread sent before a signal ended the program is printed:
\* the log of each child tells how it ended.
THEOREM SignalTellsAll == HeadSpec => []SignalLogComplete
<1>1. IInv /\ StoryInv => SignalLogComplete
  <2> SUFFICES ASSUME IInv, StoryInv, mpc = "done", out = <<>>, chan = <<>>,
                      NEW c \in Children
               PROVE  /\ state[c] = "Completed" => Said(c, "completed")
                      /\ state[c] = "Failed" => Said(c, "failed") \/ log[c] = <<>>
    BY DEF SignalLogComplete
  <2>1. Lines(Queue, c) = {}
    BY DEF Lines, Queue
  <2>2. LastLine(log[c]) \in LastTypes(c)
    BY <2>1 DEF StoryInv, LogInv, Tells
  <2>3. ~Untold(c)
    BY DEF Untold
  <2>4. CASE state[c] = "Completed"
    <3>1. LastLine(log[c]) = "completed"
      BY <2>2, <2>3, <2>4 DEF LastTypes
    <3>2. QED
      BY <2>4, <3>1 DEF LastLine, Said
  <2>5. CASE state[c] = "Failed"
    <3>1. LastLine(log[c]) \in {"failed", "none"}
      BY <2>2, <2>3, <2>5 DEF LastTypes
    <3>2. log[c] # <<>> => LastLine(log[c]) # "none"
      <4>1. log[c] \in Seq(Event)
        BY DEF StoryInv, LogInv
      <4>2. log[c] # <<>> => log[c][Len(log[c])] \in Event
        BY <4>1
      <4>3. QED
        BY <4>2 DEF LastLine, Event, EventTypes
    <3>3. QED
      BY <2>5, <3>1, <3>2 DEF LastLine, Said
  <2>6. QED
    BY <2>4, <2>5
<1>2. QED
  BY <1>1, StoryInvariance, PTL
=============================================================================
