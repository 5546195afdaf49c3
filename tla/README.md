# A formal model of session-process-monitor

`spm run "cmd" ...` starts commands, watches the memory of the pod, kills the
heaviest command before the platform does, restarts what was killed or failed,
and ends when nothing is left to do. This directory holds TLA+ modules of that
supervisor, configurations with which TLC checks small instances of them, and
proofs which TLAPS checks for instances of any size.

Paths below are relative to the repository (`src/monitor.rs`, `src/main.rs`,
...); PROJECT.json maps each definition to its lines.

- [The system](#the-system)
- [The modules and how they correspond to the code](#the-modules-and-how-they-correspond-to-the-code)
- [What each run checks](#what-each-run-checks)
- [Fairness](#fairness)
- [What is proved](#what-is-proved)
- [Where the program and its documentation disagree](#where-the-program-and-its-documentation-disagree)
- [What is not modelled](#what-is-not-modelled)
- [Plan](#plan)

## The system

### Components

| Component | State | Operations |
|---|---|---|
| Managed children (`supervisor.rs`) | `Arc<Mutex<Vec<ManagedChild>>>`: state, pid and pgid, restart count, backoff, health, last exit | `spawn_child` (own session, hence own process group), `schedule_restart`, `reset_if_stable`, `should_restart` |
| Monitor thread (`monitor.rs`) | its place in the loop; it owns the sending end of the channel | per iteration: read the flag, sleep 1 s, lock, sample USS, reap, health ticks, guard, restarts, write the state file, send `StateUpdate`, unlock; at the end `shutdown_children` |
| Health checker (`health.rs`) | per child: status, port, failures, clocks, baseline of ports | `tick`, `reset` |
| OOM guard (`guard.rs`, `policy.rs`) | ticks above the threshold, last kill | `evaluate`, `select_victim` |
| Kills (`process.rs`) | none | `kill_process_group`: SIGTERM, 3 s, SIGKILL; `terminate_process` the same for one pid |
| Headless front end (`main.rs` 1127-1193) | batch of events; log | receive a batch, print it, look at the children, leave |
| TUI front end (`main.rs` 609-1125) | `App`: a copy of the children, dialog, restart request, `running` | keys, drain the channel, serve the restart request, renew the copy, draw |
| Signals (`monitor.rs` 10-22) | `SHUTDOWN_REQUESTED` | the handler sets it |
| Shared state (`monitor.rs`, `app.rs`) | `/tmp/spm-state-<pid>.json` | written by temporary file and rename, removed at the end; other instances read it and remove what is older than 5 s |
| Recordings (`recording.rs`, `replay.rs`) | rolling window of snapshots, watched pids, files | snapshot per tick, save on exit of a watched pid, prune by age and size |
| Processes pane (`app.rs` `tick`, `proc.rs`) | CPU and disk samples by pid, growth windows by pid, kill dialog | `collect_processes`, `compute_growth_rate`, `terminate_process` |
| Memory reader (`cgroup.rs`) | none | `read_pod_memory`: the files of cgroup v2 or v1 |
| Drawing (`ui.rs`), arguments (`main.rs`) | none | pure input and output |

### How they interact

Two threads share the children (mutex), the guard (mutex), the flag (atomic) and
a channel from the monitor to the main thread. The monitor holds the children's
mutex for a whole iteration but its second of sleep, also while it probes
endpoints and waits for killed groups. The main thread takes it to look at the
children, to copy them, and (TUI) to kill a group on `r`. The kill dialog of the
TUI kills without it. Instances of spm, each a process of its own, share the
directory `/tmp` and nothing else: no lock, and names made of recycled pids.
When the main thread returns, the process ends and the
monitor with it, wherever it is. The kernel takes part as well: a number names a
process until that process is reaped and may name another one at once after.

### What is hard here

- A pid or pgid is a number, read now and used 3 s later. It must not have been
  recycled in between, and nobody else's group may be shot.
- Kill, exit, reaping, restart and shutdown of one child are steps of four
  actors (monitor, main, command, kernel) in any order. The child must not be
  forgotten alive, restarted after its end, restarted too often or kept
  `Stopping` or `Restarting` for ever.
- The end of the program is decided by the main thread from what it saw, while
  the monitor goes on: two ways out of the headless loop, a state file written
  by one thread and removed by the other, events still to be sent.
- Guard, health checker and backoff each relate clocks set at different places
  (last kill, last check, stable since, restart at).
- Signals may arrive before the handlers are installed, during a shutdown, or
  together with the last exit.
- State files outlive an instance that was killed, and a reader removes by name
  what it read as too old, while the owner renames a new file into place.
- Samples, growth windows, watched pids and debounce are kept by pid, and the
  pid may belong to another process at the next tick.

### What makes each component correct

Children and monitor: the supervisor's idea of its children agrees with the
kernel's, and each command lives as README.md describes. Headless: one shutdown
line, an ordered log, nothing left running. TUI: the same life of the commands
whatever the user does with an old copy, and an end. Guard: kills far enough
apart, of the right child, and not starved while a heavy child is there. Health: no kill for a predecessor's
failures; silence is noticed. Backoff: delays double, up to the cap, until the
process was stable. Shared state: what a TUI shows of others is recent, its rows
name the right children, files come back and go. Recordings: one per watch, no
seen exit missed, the cap kept. Processes pane: the figures shown of a process
are its own. PROJECT.json lists each hazard at its line with the
properties that would catch it.

## The modules and how they correspond to the code

```
Lifecycle   <--implements--  Supervisor  <--implements--  Headless
   ^                         (+ SupervisorLife, the mapping)
   +---------implements----  Tui (extends SupervisorLife)
Recovery       one child: health, ports, backoff, clocks
Guard          the memory reader, the guard and its victims, clocks
SharedState    the state files of several instances and their readers
Recording      the TUI's processes, watched pids and recordings
Processes      the TUI's samples by pid, terminate_process
*Proofs        theorems about the module they are named after
               (SupervisorProofs: SupervisorLife as well)
```

**Supervisor** is the core: the children behind the mutex, the monitor thread,
the startup, the kernel, and an *arbitrary* front end. `mpc` is where the
supervisor is: `spawning`, `announcing`, `handlers` in `run_supervisor`, then
the loop of `spawn_monitor_thread` (`top`, `sleep`, `reap`, `health`, `guard`,
`restart`, `publish`, `release`), then `shutdown_children` (`sdTerm`, `sdSleep`,
`sdReap`, `sdKill`). `cur` is the child a for-loop has reached. Each send is a
step of its own (`out`, `MonitorSend`), so that the main thread can see any
prefix. `kill_process_group` is two steps, the SIGTERM (`HealthTerm`,
`GuardTerm`, `FrontRestart`) and the SIGKILL 3 s later, because everything else
may happen in between; what a SIGTERM does is up to the command, which may exit
or ignore it. `leader[p]` is what pid `p` is for the kernel: one of ours, alive,
with a SIGKILL pending, or a zombie with its exit status; `foreign`; or `shot`, a foreign
process that a SIGKILL of spm hit. `members` are the groups that have a live
member besides their leader. The decisions of health checker and guard are left
open (any Running child may be killed by either): what holds here holds for
every policy. `pgid` is always assigned together with `pid` and has its value,
so one variable stands for both. `StateUpdate` and the guard and health reports
are one event `Notice`.

**Lifecycle** is the abstract specification: per command a phase and the number
of processes started for it, no threads, pids or locks. **SupervisorLife** maps
the core to it.

**Headless** adds the main thread of `run_supervisor_headless` to Supervisor:
`recv`, then `drain` as long as `try_recv` finds an event (`MainReceive` takes
one, the monitor may send in between), `check` when the channel is empty
(`MainDrained`), `leaving`. With it come what it has printed per child (`log`),
the shutdown lines (`reasons`), and fairness. It takes the place of the
arbitrary front end, and `ImplementsSupervisor` says that it does nothing that
one could not do.

**Tui** adds the main thread of `run_supervisor_app` instead: `copy` is
`app.managed_children`, `dialog` the pgid in `confirm_kill`, `request` is
`restart_requested`, and `ui` is the place in the loop. Its `DialogKill` is no
step of Supervisor's front end: it kills without the mutex and leaves the
child's state alone. So the theorems about the core are not inherited; TuiProofs
proves them again from the same invariant, all but `NothingForeignShot`, which
the dialog does break.

**Recovery** follows one child through `HealthState::tick`, `BackoffState` and
the iterations that drive both, with clocks. Ports of the network namespace
belong to the child, to others, or to nobody.

**Guard** is `Guard::evaluate` and `select_victim`, one action per way through
`evaluate`, alternating with arbitrary changes of memory, children and time. The
readings come through `read_pod_memory` (`PodMemories`): either hierarchy of
cgroups or none, each file with a number, with `max` or missing. Percentages are
compared without the division.

**SharedState** is `write_shared_state`, `read_shared_state`,
`read_other_instances_state` and `remove_shared_state` of several instances, each
named by its pid, which a later instance may have again. A file is the age of its
timestamp. `Create` and `Write` are the two halves of a write, with a kill, a
removal or a full disk in between; `Visit` reads one file of a scan and
`RemoveStale` removes it by name, with anything in between. The two readers
differ in `Names` and `Kept`: the one of a supervisor leaves out its own file and
appends to the rows it has, the one of a read-only TUI replaces them. `Renew`
is the supervisor's new copy after a `StateUpdate`.

**Recording** is the other half of the TUI: `App::tick` with its list of
processes (`shown`), the filter, the watched pids, the rolling window (`kept`)
and the recordings with their cap (`files`), and the keys of the Live, list and
replay modes. A process is a pid and the number of its birth, so that the model
knows of a recycled pid what the code cannot know. A snapshot is counted and a
file is as large as it has snapshots; the cap is in snapshots too. The time
since the last recording of a pid passes with the ticks, which are at least a
second apart.

**Processes** is the same tick seen from its samples (`cpu`, `disk`, `windows`),
all kept by pid, and the kill dialog for processes spm does not manage: `KeyYes`
is the SIGTERM of `terminate_process`, `ForceKill` its check and SIGKILL 3 s
later. The counters of a process are one number; history variables (`base`,
`blind`, `kept`) say what the process with a pid really did since it was last
listed, and the samples of a window are marked as its own or another's.

## What each run checks

Safety and liveness that hold:

| Run | Instance | What it shows |
|---|---|---|
| `core_safety` | 2 commands, 3 pids of which 2 may be taken by unrelated processes, 1 restart, 2 polls, one command that forks | `PidNamesOwnLeader`, `NothingForeignShot`, `StoppingIsDying`, `NoStrayLeader`, and the refinement `ImplementsLifecycle`: no interleaving of kills, exits, restarts, recycled pids, signals and front end confuses supervisor and kernel |
| `headless` | 1 command, 1 restart, 1 poll | the log of a command reads as a life (`LogReadsAsLife`) and after a signal is complete (`SignalLogComplete`); exactly one shutdown line (`OneShutdownLine`), nothing left running (`NoOrphanLeader`); Headless implements Supervisor; `StoppingEnds`, `RestartHappens`, `SignalEnds`, `TerminalEnds` |
| `guard` | 2 children, grace 2, cooldown 3, a u8 of 2 bits, both cgroup hierarchies | `KillsAreSpaced`, `KillsNeedPressure`, `VictimIsHeaviest`, `PressureKills` |
| `recovery` | 2 ports, threshold 3, interval 2, delays 1-3, stability 3 | `KillsAreEarned`, `DelaysDouble`, `SilenceIsNoticed`, `DiscoveryEnds`; after a restart only the child's own port is probed (`RestartProbesOwnPort`) |
| `tui` | 1 command, 1 restart, other instances of spm present or not | `TuiImplementsLifecycle`, `EndsClean`, `QuitEnds` |
| `recording` | 2 pids of 2 processes each, 2 watches, window 2, cap 3 | `OncePerWatch`, `SeenExitIsSaved`, `RoomIsMade`, `PlaysInRange` |
| `shared_state` | 2 instances: a TUI with 2 children; a headless supervisor with 2 or a read-only TUI | rows name the children they show (`RowsNameChildren`), none is of an instance long gone (`NoGhostRows`); the file of a live instance comes back (`LiveFileReturns`), that of a dead one goes (`DeadFileGoes`), and so do its rows (`DeadLeavesRows`) |
| `processes` | 2 pids, recycled at will, window 2 | `RatesAreOwn`, `GrowthIsOwn`, `ConfirmedDies` |

The type invariants (`TypeOK`, `GuardTypeOK`, `RecTypeOK`, `RecordingTypeOK`,
`SharedTypeOK`, `ProcTypeOK`) are theorems. Two are checked by the runs as well,
because a bound is at stake in them that the code must keep: the polls of the
shutdown (`TypeOK`) and the u8 of the guard (`GuardTypeOK`). Three plain
invariants (`RestartIsPending`, `RestartBound`, `SamplesAreListed`) are theorems
too, parts of inductive invariants, and no run repeats them. The types of the
variables Tui adds are part of its inductive invariant (`UiInv` in TuiProofs).

Statements of the documentation and the tests that the program does not keep:

| Run | Statement |
|---|---|
| `completed_is_printed` | a clean exit emits a `completed` event |
| `tree_killed` | the whole process tree is killed on shutdown |
| `tui_terminal_ends` | the supervisor exits when all processes are Completed or Failed |
| `exit_is_recorded` | when a watched process exits, the recording is saved |

### Bounds and why they are enough

- *Commands.* Two let a kill, a reaping or a restart of one happen between any
  two steps of another, and let two children compete for a pid. The children
  do not interact otherwise. `headless` and `tui` have one: the liveness they
  check is of a single child or of the end of the program, and all else that they
  check is proved for any number of commands.
- *Pids.* Three pids for two commands: both run, and a third number is taken,
  released and recycled, by a foreign process or by a restart. With fewer pids
  `SpawnInitial` and `RestartSpawn` still may fail, as in the code.
- *Restarts.* With `MaxRestarts` 1 a command has a restart and a failure beyond
  it. The code compares only, and `RestartBound` is proved for every limit.
- *Polls.* `ShutdownPolls` is 50 in the code and 1 or 2 here: a child may end
  before the first, between two, after the last, or never.
- *Guard.* `U8Max` is 3 with a grace of 2, so that saturation, grace and
  cooldown all come into play; with a limit of 200, usages of 150 and 156 are at
  the threshold and at the emergency threshold (75 % and 78 %), an unreadable
  usage is below both, and limits of 0, of none and above `V1Unlimited` occur.
- *Recovery.* `Horizon` 6 is where elapsed times stop: no comparison in the
  code looks further (the assumption `RecoveryAssumption` says so). Delay 1, 2,
  3, 3: doubled, capped, and capped again.
- *SharedState.* A file is read by the one and written by the other instance, or
  by each of the two; more instances only add rows, and `RowsNameChildren` and
  `NoGhostRows` are proved for any number. `MaxAge` 0 leaves a timestamp fresh for
  the second it was written in: an iteration of the writer may last longer, as it
  may last longer than 5 s in the code. `MaxRows` 5 lets ticks append the other's
  two rows once and once more before the next copy.
- *Processes.* A window of 2 is full after two listings and keeps a predecessor's
  sample for one; a process works once (`MaxWork`) before, between or after
  listings. Pids do not interact but through the failing reads of a tick.
- *Tui.* One pid, so that a recycled number is always the next process of the
  same command, which is what makes an old dialog dangerous.
- *Recording.* A window of 2 fills and rolls. Under a cap of 3 one recording of 2
  snapshots fits and a second one evicts it, while two recordings of one fit
  together. Two watches are two of one pid, one after the other (what the
  debounce and `OncePerWatch` are about), or two pids at once, whose recordings
  come in the same tick. Two processes per pid are enough to recycle it.

The configuration of `core_safety` says `CHECK_DEADLOCK FALSE`: the system really
stops once `spm` has ended and the commands with it. Headless and Tui have an
explicit step for that, so deadlock is checked there.

### Views

Two MC modules identify states that cannot be told apart. `AllButChan`
(core): no action but `FrontReceive` reads the channel and that one changes
nothing else. `UpToChan` (tui): the TUI sees of the channel only whether it holds
a `StateUpdate`. In each case states with the same view have the same successors
up to the view, and the properties depend on the view only.

## Fairness

- Weak fairness of the monitor's steps and of the main thread's own: both
  threads are scheduled, and neither blocks for ever outside the mutex.
- *Strong* fairness where the main thread needs the mutex (`MainCheck`, `Enter`,
  `Serve`, `Renew`): the monitor takes it again in every iteration, but sleeps a
  full second without it in between, so a waiting thread gets it. Weak fairness
  would not do, as the action is disabled again and again. For the same reason of
  `MainDrained`: the monitor sends again and again, but in its second of sleep
  `try_recv` comes to the end of the channel.
- Weak fairness of `LeaderKilled` (a pending SIGKILL takes effect) and of
  `BackoffElapses` (time passes).
- Strong fairness of `NoMoreKeys` in Tui: the user does not type without a pause
  for ever; `event::poll(0)` then returns false.
- None for commands (a command may run for ever and ignore SIGTERM), for the
  user, for signals, or for `Elapse` in Recovery: an iteration takes however long
  it takes, but the sleep at its head lets time pass.
- Guard and Recovery: the monitor goes on iterating.
- SharedState: time passes, threads of both kinds go on; *strong* fairness of
  `Create`, because creating a file may fail and fail again but not for ever, and
  of `Renew`, because the main thread takes the `StateUpdate` between two scans of
  its ticks. None for starts, ends and kills of instances.
- Processes: the main thread wakes up from its 3 s (`ForceKill`), and SIGKILL takes
  effect (`Killed`). The latter is not true of pid 1 of a pod: the kernel drops
  signals from inside a pid namespace to its init unless init handles them, and SIGKILL
  in any case. The pane lists it like any other and `terminate_process`, unlike the
  guard, does not look whether a pid is protected; it then reports a kill that did
  not happen. `Pids` are those of the other processes, so `ConfirmedDies` says
  nothing of pid 1.

## What is proved

All theorems hold for every value of the constants that satisfies the named
assumptions of the modules: any number of commands and pids, any restart limit,
any thresholds, intervals and delays.

| Theorem | Module | Property |
|---|---|---|
| `TypeCorrect` | SupervisorProofs | `TypeOK` |
| `PidsAreOwn` | SupervisorProofs | `PidNamesOwnLeader` |
| `NobodyElseShot` | SupervisorProofs | `NothingForeignShot` |
| `StoppingEndsSoon` | SupervisorProofs | `StoppingIsDying` |
| `NoneForgotten` | SupervisorProofs | `NoStrayLeader` |
| `RestartScheduled` | SupervisorProofs | `RestartIsPending` |
| `RestartsBounded` | SupervisorProofs | `RestartBound` |
| `Refinement` | SupervisorProofs | `ImplementsLifecycle` |
| `StartsBounded` | SupervisorProofs | the core starts a command at most MaxRestarts + 1 times |
| `HeadlessRefines` | HeadlessProofs | `ImplementsSupervisor` |
| `HeadlessLives` | HeadlessProofs | `ImplementsLifecycle`, of the headless program |
| `ShutdownLineOnce` | HeadlessProofs | `OneShutdownLine` |
| `NoLeaderOrphaned` | HeadlessProofs | `NoOrphanLeader` |
| `LogTellsLives` | HeadlessProofs | `LogReadsAsLife` |
| `SignalTellsAll` | HeadlessProofs | `SignalLogComplete` |
| `TuiLives` | TuiProofs | `TuiImplementsLifecycle` |
| `TuiEndsClean` | TuiProofs | `EndsClean` |
| `TuiKeepsCore` | TuiProofs | with the TUI, `PidNamesOwnLeader`, `StoppingIsDying`, `NoStrayLeader`, `RestartIsPending`, `RestartBound` |
| `GuardTypeCorrect`, `KillsSpaced`, `KillsUnderPressure`, `HeaviestIsVictim` | GuardProofs | `GuardTypeOK`, `KillsAreSpaced`, `KillsNeedPressure`, `VictimIsHeaviest` |
| `RecTypeCorrect`, `KillEarned`, `DelayDoubling`, `RestartProbesOwn` | RecoveryProofs | `RecTypeOK`, `KillsAreEarned`, `DelaysDouble`, `RestartProbesOwnPort` |
| `SharedTypeCorrect`, `IndicesNameChildren`, `NoGhosts` | SharedStateProofs | `SharedTypeOK`, `RowsNameChildren`, `NoGhostRows` |
| `ProcTypeCorrect`, `RatesOwn`, `GrowthOwn`, `SamplesListed` | ProcessesProofs | `ProcTypeOK`, `RatesAreOwn`, `GrowthIsOwn`, `SamplesAreListed` |
| `RecordingTypeCorrect`, `PlayingInRange`, `RecordedOnce`, `SeenExitSaved`, `RoomMade` | RecordingProofs | `RecordingTypeOK`, `PlaysInRange`, `OncePerWatch`, `SeenExitIsSaved`, `RoomIsMade` |

**The core.** None of the invariants is inductive alone. That the pid of a
Running child is its own leader (`PidNamesOwnLeader`) is preserved by the two
halves of a kill only because the monitor holds the mutex in between, so that
nobody else reaps or changes the child (`CursorInv`, `LockInv`). That a signal
hits nobody else follows step by step (`NobodyShotStep`) but is not part of the
invariant, since the dialog of the TUI breaks it. The type of `polls` needs to
know where it is reset (`PollsInv`), and `NoStrayLeader` needs to know which
children are still `Stopped` in the startup (`StartupInv`). `IInv` is the
conjunction; it is shown to hold initially and to be preserved by each action,
separately for the data and the threads (`SupervisorProofs`).

**The life cycle.** `Refinement` shows that each action of the core is a step of
Lifecycle or a stutter under the mapping of SupervisorLife, with `IInv` as the
invariant: the mapped number of starts is right only because restart counts and
states agree. Lifecycle itself bounds the starts, so the
README's promise about `--max-restarts` follows for any number of commands
(`StartsBounded`).

**Headless.** `HeadlessRefines`: each of main's steps is one of the arbitrary
front end (`MainStaysInBounds`), so all of the above holds of the headless
program. The end of the program needs more: `HeadInv` says when
`SignalShutdown` is under way (once, after the monitor is done), that a shutdown
leaves no child Live, and that main leaves only after one of its two reasons.

The log is proved by the *story* of a child: what was printed about it, then
what is in the channel, then what the monitor has yet to send (`StoryInv`). A
send or a receipt moves a line along and leaves the story as it is; only the
step that decides something adds to it, and the last line of the story must fit
the state it leaves (`LastTypes`). So `LogTellsLives` holds of every prefix the
main thread has read, and `SignalTellsAll` when it has read the whole. `SendInv`
adds that a `Notice` is sent alone, so that merging it with one in the channel
takes no other event along.

**TUI.** The main thread only looks, or makes a step of the arbitrary front end,
or one of three beyond it (`Beyond`): it drains the whole channel, it quits, and
it kills by dialog. `IInv` survives the three, since a SIGKILL that hits a leader
leaves a leader that is dying, whatever its child's state; the mapping to
Lifecycle does not see them (`TuiLives`). `TuiEndsClean` needs to know that the
loop ends by itself only after `Renew` has copied children that were all Terminal,
which then stay so (`EndInv`), and that what the shutdown abandons belongs to a
child that is `Stopped`, hence not Terminal (`AbandonInv`).

**Guard.** Inductive invariant `GuardInv`: unless there was no kill yet, the
ticks counted since the last kill are covered by time since the end of the
cooldown (`Spacing`). Each counted evaluation lies after the cooldown and a unit
of time after the one before it. `Counting` covers each tick by a high reading:
`KillsUnderPressure` rests on it, and holds although iterations without a limit
and in the cooldown leave the count alone.

**Recovery.** `RecInv` is `RecTypeOK`, `Earned` (the failures of a Healthy child
are covered by silence of the *current* process, one interval each) and
`Growing` (the delay to come is twice the previous one, up to the cap, unless
the process was stable). `Earned` is why the health state must be replaced at a
restart, and `Growing` is why stable_since must be set by the spawn.
`RestartProbesOwn` needs `RecTypeOK` only: what is detected without a baseline is
listened on by the child.

**SharedState.** `NoGhosts` follows from `Dated`: a timestamp, in a file or in
the `.tmp`, is at least as old as the time since its instance ended, and files
and deaths grow older together. `IndicesNameChildren` follows from `Indexed`,
which speaks of the rows a scan has found as well as of those shown: both go on
where the rows before them end, and a supervisor's own rows are the first `Kids`.
It needs `Owned`, that a scan is open only in a TUI and that a supervisor's TUI
never has fewer rows than children.

**Processes.** `Sampled`: a sample under a pid is at least the counter its process
had when it was last listed (`base`), whoever the sample was taken of; a
predecessor's larger sample shows too little, never too much. `Windowed`: the
last `kept` samples of a window are of the process itself, so that a window of
that length holds no other.

**Recording.** `Spent`: recordings and watches that are still on add up to no more
than the watches asked for, since a pid is unwatched in the step that may save
it. `Passed`: a listed pid was not saved in the tick that listed it, so that its
debounce has a second less to go, and the second between ticks does the rest.
`Room`: the files fit. Their total is the number of snapshots stored (`Stored`), so
that a file removed leaves no more by an injection (`RemovalFrees`), and the newest
alone takes no more than its size (`OneStored`), so that a smallest cut keeps it
(`CappedKeepsNewest`).

Out of the prover's reach and left to TLC: everything about fairness
(`StoppingEnds`, `RestartHappens`, `SignalEnds`, `TerminalEnds`, `QuitEnds`,
`PressureKills`, `SilenceIsNoticed`, `DiscoveryEnds`, `LiveFileReturns`,
`DeadFileGoes`, `DeadLeavesRows`, `ConfirmedDies`). Every safety property that a run
checks and that holds is a theorem.

## Where the program and its documentation disagree

Each of the first four has a run that ends in the counterexample.

1. *Lost last events* (`completed_is_printed`). The headless main thread drains a
   batch, then looks at the children, and leaves if all have ended. What the
   monitor sends after the batch (the `exit` and `completed` of the last child,
   whose reaping is what main sees) is never printed. tests/failing_tests.sh:51.
2. *Survivors of a shutdown* (`tree_killed`). A group whose leader ended after
   SIGTERM gets no SIGKILL, also if others in it ignored the signal.
   tests/integration_test.sh:300.
3. *TUI after SIGTERM* (`tui_terminal_ends`). The monitor ends all commands and
   itself; the TUI ignores `SignalShutdown`, gets no `StateUpdate` any more and
   stays until somebody quits it. README.md:98.
4. *Unrecorded exits* (`exit_is_recorded`). The tick looks for exits in the Live
   mode only but renews the list of pids in every mode. A watched process that
   exits while recordings are listed or replayed is missing from that list on
   return: it is never recorded and stays watched. README.md:103.

Others, visible in the models but without a run:

- *State file left behind.* Main removes the file and returns; the monitor may
  write it again before the process is gone (`HeadlessLeaves`, `Write`;
  tests/failing_tests_6.sh:42). It is not shown for long and goes when a TUI looks
  (`NoGhostRows`, `DeadFileGoes`).
- *Foreign ports.* A first process is compared with the ports of the whole network
  namespace at its spawn, so, if any was open then, a port that anybody opens
  afterwards is taken for its own; it may be killed for the failures of another
  (`Detected`; README.md:74).
  After a restart ownership is checked (`RestartProbesOwnPort`).
- An exit with code 0 of a child that is already `Stopping` counts as a failure
  (README.md:96 says Completed). Lifecycle allows it, as the kill was decided.
- `failed` reports one restart more than happened, as the failure is counted
  before it is refused (tests/failing_tests_6.sh:147). No property speaks of the
  number reported; `ImplementsLifecycle` bounds the starts.
- The exit after a health kill is reported as killed by the guard: `last_exit` is
  overwritten before it is read (`ExitEvent`; tests/failing_tests_6.sh:51).
- A signal before the handlers are installed kills spm and leaves the commands
  that were started, in sessions of their own (`TermSignal` in `Startup`;
  README.md:99).
- An unknown memory limit does not reset the count of ticks, so they need not be
  consecutive (`EvalNoLimit`; README.md:65).
- *Light victims.* If no Running child has `MIN_KILL_USS`, `select_victim` falls
  back to all of them (policy.rs:47-49; `Candidates`), so under pressure that lasts
  the guard goes on to kill the small ones. tests/failing_tests_4.sh:128-136 (F4-09)
  says that it "should skip low-USS victims or add a minimum USS threshold", and
  tests/failing_tests_3.sh:97 (F3-06) that a kill of the heavy process must leave the
  small one alone. `PressureKills` claims kills only while there is a Running child of
  at least `MIN_KILL_USS`; `VictimIsHeaviest` says whom a kill hits, fallback
  included, and not that there should be one.
- The emergency kill is at 78 % and above, not above it; the state file is
  `/tmp/spm-state-<pid>.json`, not `/tmp/spm-state.json` (README.md).
- `q` asks for a shutdown and returns at once; the monitor is gone before it can
  signal anybody unless it was in the middle of it.
- A watched process whose pid is recycled between two ticks is not missed, and
  the watch goes on for the new one (`Gone`). A process that the filter begins
  to hide is recorded as if it had exited, and is watched no more.
- The kill dialog uses the pgid of its copy without the mutex, and `y` may hit
  the next process of the command, or whoever has the number by then. So may
  `terminate_process` with its pid (`KeyYes`, `ForceKill`). No property of Tui or
  Processes forbids it: `NothingForeignShot` is of kills under the mutex.
- A full disk makes `write_shared_state` rename an empty file into place; if the
  instance is killed then, no reader ever removes it, as it has no timestamp
  (`Renamed`, `Doomed`). Nor does anybody remove the `.json.tmp` of a writer that
  was killed half-way.
- Each tick of a supervisor's TUI appends the rows of the others again, and only a
  `StateUpdate` clears them: once its monitor has ended they grow by every tick
  (`TickScan`, which `MaxRows` bounds in the model).
- A tick that cannot read `/proc/<pid>/io` takes the process's bytes for 0, and the
  next rate counts all it ever read and wrote (`blind` in `RatesAreOwn`).
- A usage that cannot be read is a usage of 0: it restarts the guard's count of
  ticks (`UsageIn`, `EvalBelow`), while a limit that cannot be read leaves it.

## What is not modelled

- Of the TUI's display, sorting, status messages and the selection in the list of
  processes: `Watch` and `KeyKill` take any process that is listed.
- Of recordings, a file that cannot be written, the removal by age when the
  program starts, what a snapshot holds, the speed of the playback, and
  recordings that other instances save.
- Of state files, all but timestamp and number of children; clocks that are set
  back; `/tmp` that cannot be listed.
- The CPU quota, PSS and USS, which are read and shown.
- In Processes, pid 1 of the pod (see Fairness).
- Of the JSON log, formatting and escaping; of an event, what carries nothing
  about a command's life (USS, percentages, endpoints, reasons).
- `total_kills` and `logged_unlimited` of the guard, which are reported only, and
  a guard that is switched off.
- Poisoned mutexes: a panic under the lock is not part of any model.
- A group kill that fails with EPERM, and `setsid` failing: the commands are children
  of the same user.
- Parsing of the lines of `/proc` and cgroup files, argument parsing, drawing, and the copying
  of the commands' output.
- Threads of the output readers: they share nothing with the rest.

## Plan

Done: Supervisor, Lifecycle and the refinement, Headless, Guard with the memory
reader, Recovery, Tui, Recording, SharedState, Processes; the proofs listed above.

Next, in this order:

1. The safety halves of the liveness properties: the counters that bound how long
   a child stays Stopping (polls, iterations) as invariants.
2. In Recording, files that cannot be written and the removal by age at the start.
3. One model of a TUI that shows both its own children and those of others
   (Tui with SharedState), to follow a restart request to a remote row.
