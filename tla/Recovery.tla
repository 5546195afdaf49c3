------------------------------ MODULE Recovery ------------------------------
(***************************************************************************)
(* One managed child through failures and restarts: its health state       *)
(* (HealthState::tick, port discovery and probes), its backoff             *)
(* (BackoffState) and the iterations of the monitor that drive both.       *)
(* health.rs, supervisor.rs and monitor.rs 403-580.                        *)
(*                                                                         *)
(* The other children, like every other process of the pod, are "other"   *)
(* owners of listening ports.  restart_count is in Supervisor; here a      *)
(* failure may be the last one at any time.  Time is counted in units and  *)
(* an elapsed time is not followed beyond Horizon.                         *)
(***************************************************************************)
EXTENDS Integers

CONSTANTS
    Ports,           \* ports somebody in the pod may listen on
    NoPort,          \* None, for health.port
    DiscoveryLimit,  \* 30 s
    Interval,        \* 5 s between the probes of a Healthy child
    FirstDelay,      \* 1 s, the first value of current_delay
    MaxDelay,        \* 30 s
    Stability,       \* backoff.stability_threshold, 60 s
    Horizon          \* elapsed times saturate here (bound)

FailureThreshold == 3

ASSUME RecoveryAssumption ==
    /\ NoPort \notin Ports
    /\ DiscoveryLimit \in Nat /\ Interval \in Nat /\ Stability \in Nat \ {0}
    /\ FirstDelay \in Nat \ {0} /\ MaxDelay \in Nat /\ FirstDelay <= MaxDelay
    /\ Horizon \in Nat
    /\ DiscoveryLimit < Horizon /\ Stability <= Horizon /\ MaxDelay <= Horizon
    /\ FailureThreshold * Interval <= Horizon

VARIABLES
    step,      \* where the monitor's iteration is
    child,     \* child.state
    alive,     \* kernel: whether the process of the child still runs
    owner,     \* kernel: who listens on each port
    health,    \* child.health
    delay,     \* backoff.current_delay
    wait,      \* time left to backoff.restart_at, or Never
    stable,    \* stable_since.elapsed()
    age,       \* history: time since the process of the child was started
    quiet,     \* history: time since the endpoint last answered this process
    previous   \* history: the delay of the last restart, 0 before the first

recVars == <<step, child, alive, owner, health, delay, wait, stable, age, quiet,
             previous>>

Never == -1   \* None, for an instant

Steps    == {"reap", "tick", "guard", "restart", "sleep"}
Statuses == {"Discovering", "Probing", "Healthy", "Unhealthy", "NotApplicable"}
Owners   == {"free", "own", "other"}

Listening == {p \in Ports : owner[p] # "free"}

AtMost(n, bound) == IF n < bound THEN n ELSE bound

\* HealthState::new, with the ports of new_with_baseline.
NewHealth(baseline) ==
    [status |-> "Discovering", port |-> NoPort, failures |-> 0,
     since |-> Never, checked |-> Never, baseline |-> baseline]

\* The process was spawned by run_supervisor.  Its baseline is what listens
\* in the whole network namespace, unless it has ended and shows nothing.
RecInit ==
    /\ step = "sleep"
    /\ child = "Running"
    /\ alive \in BOOLEAN
    /\ owner \in [Ports -> IF alive THEN Owners ELSE Owners \ {"own"}]
    /\ health = NewHealth(IF alive THEN Listening ELSE {})
    /\ delay = FirstDelay
    /\ wait = Never
    /\ stable = 0
    /\ age = 0
    /\ quiet = Never
    /\ previous = 0

-----------------------------------------------------------------------------
(* Time *)

Older(t) == IF t = Never THEN Never ELSE AtMost(t + 1, Horizon)

\* One unit passes.
TimePasses ==
    /\ health' = [health EXCEPT !.since = Older(@), !.checked = Older(@)]
    /\ wait' = IF wait > 0 THEN wait - 1 ELSE wait
    /\ stable' = Older(stable)
    /\ age' = Older(age)
    /\ quiet' = Older(quiet)

\* The sleep of one second at the head of the loop.
Sleep ==
    /\ step = "sleep"
    /\ step' = "reap"
    /\ TimePasses
    /\ UNCHANGED <<child, alive, owner, delay, previous>>

\* The rest of the iteration takes time as well: probes, kills, other children.
Elapse ==
    /\ step # "sleep"
    /\ TimePasses
    /\ UNCHANGED <<step, child, alive, owner, delay, previous>>

-----------------------------------------------------------------------------
(* One iteration of the monitor *)

Goes(from, to) == step = from /\ step' = to

\* Nothing to reap.
ReapPass ==
    /\ Goes("reap", "tick")
    /\ alive \/ child \notin {"Running", "Stopping"}
    /\ UNCHANGED <<child, alive, owner, health, delay, wait, stable, age, quiet,
                   previous>>

\* handle_child_exit without a restart: Completed, or no restart left.
ReapEnd ==
    /\ Goes("reap", "tick")
    /\ ~alive /\ child \in {"Running", "Stopping"}
    /\ child' = "ended"
    /\ UNCHANGED <<alive, owner, health, delay, wait, stable, age, quiet, previous>>

\* schedule_restart: wait current_delay and double it.
Doubled == AtMost(2 * delay, MaxDelay)

ReapRestart ==
    /\ Goes("reap", "tick")
    /\ ~alive /\ child \in {"Running", "Stopping"}
    /\ child' = "Restarting"
    /\ wait' = delay
    /\ previous' = delay
    /\ delay' = Doubled
    /\ UNCHANGED <<alive, owner, health, stable, age, quiet>>

\* Unhealthy: kill the group.  The process ends by SIGTERM or SIGKILL.
HealthKills == child' = "Stopping"

\* tick does nothing: not Running, or at the end of its states.  Unhealthy is
\* acted upon by every iteration that finds it.
TickIdle ==
    /\ Goes("tick", "guard")
    /\ child # "Running" \/ health.status \in {"NotApplicable", "Unhealthy"}
    /\ IF child = "Running" /\ health.status = "Unhealthy"
       THEN HealthKills
       ELSE UNCHANGED child
    /\ UNCHANGED <<alive, owner, health, delay, wait, stable, age, quiet, previous>>

\* The ports tick finds.  With a baseline, all of the namespace that are not
\* in it, whoever listens there; without one, those of the process and its
\* descendants.  A zombie shows none.
Detected ==
    IF ~alive THEN {}
    ELSE IF health.baseline # {} THEN Listening \ health.baseline
    ELSE {p \in Ports : owner[p] = "own"}

\* discovering_since, set by the first tick.
Discovering_Always == 0  \* mutant: set by every tick
Discovering == IF health.since = Never THEN 0 ELSE health.since

TickDiscover ==
    /\ Goes("tick", "guard")
    /\ child = "Running" /\ health.status = "Discovering"
    /\ IF Discovering > DiscoveryLimit
       THEN health' = [health EXCEPT !.since = Discovering, !.status = "NotApplicable"]
       ELSE IF Detected = {}
       THEN health' = [health EXCEPT !.since = Discovering]
       ELSE \E p \in Detected :
              health' = [health EXCEPT !.since = Discovering, !.port = p,
                                       !.status = "Probing"]
    /\ UNCHANGED <<child, alive, owner, delay, wait, stable, age, quiet, previous>>

\* A probe succeeds only if somebody listens, and may fail all the same.
TickProbe ==
    /\ Goes("tick", "guard")
    /\ child = "Running" /\ health.status = "Probing"
    /\ \/ UNCHANGED <<health, quiet>>
       \/ /\ owner[health.port] # "free"
          /\ health' = [health EXCEPT !.status = "Healthy", !.failures = 0]
          /\ quiet' = 0
    /\ UNCHANGED <<child, alive, owner, delay, wait, stable, age, previous>>

CheckDue == health.checked = Never \/ health.checked >= Interval

TickNotDue ==
    /\ Goes("tick", "guard")
    /\ child = "Running" /\ health.status = "Healthy" /\ ~CheckDue
    /\ UNCHANGED <<child, alive, owner, health, delay, wait, stable, age, quiet,
                   previous>>

\* last_check = now, written before the probe.
Checking_Forgotten == health  \* mutant: last_check is not written
Checking == [health EXCEPT !.checked = 0]

TickAnswered ==
    /\ Goes("tick", "guard")
    /\ child = "Running" /\ health.status = "Healthy" /\ CheckDue
    /\ owner[health.port] # "free"
    /\ health' = [Checking EXCEPT !.failures = 0]
    /\ quiet' = 0
    /\ UNCHANGED <<child, alive, owner, delay, wait, stable, age, previous>>

Failures_Restarted == 1  \* mutant: the count starts anew with each failure
Failures == health.failures + 1

\* The last of FailureThreshold failures in a row makes the child Unhealthy,
\* which kills it at once.
TickFailed ==
    /\ Goes("tick", "guard")
    /\ child = "Running" /\ health.status = "Healthy" /\ CheckDue
    /\ IF Failures >= FailureThreshold
       THEN /\ health' = [Checking EXCEPT !.failures = Failures, !.status = "Unhealthy"]
            /\ HealthKills
       ELSE /\ health' = [Checking EXCEPT !.failures = Failures]
            /\ UNCHANGED child
    /\ UNCHANGED <<alive, owner, delay, wait, stable, age, quiet, previous>>

\* The guard may choose the child as its victim.
GuardTurn ==
    /\ Goes("guard", "restart")
    /\ child' \in {child} \cup (IF child = "Running" THEN {"Stopping"} ELSE {})
    /\ UNCHANGED <<alive, owner, health, delay, wait, stable, age, quiet, previous>>

\* reset_if_stable, for a Running child.
AfterReset ==
    IF child = "Running" /\ stable >= Stability THEN FirstDelay ELSE delay

NoRestart ==
    /\ Goes("restart", "sleep")
    /\ ~(child = "Restarting" /\ wait = 0)
    /\ delay' = AfterReset
    /\ UNCHANGED <<child, alive, owner, health, wait, stable, age, quiet, previous>>

\* spawn_child sets stable_since and a health state with a baseline; reset
\* replaces that by one without.
AtRestart_Kept == health  \* mutant: the health state is kept
AtRestart_Baseline == NewHealth(Listening)  \* mutant: with a new baseline
AtRestart == NewHealth({})
StableSince_Kept == stable  \* mutant: stable_since is not set again
StableSince == 0

Restart ==
    /\ Goes("restart", "sleep")
    /\ child = "Restarting" /\ wait = 0
    /\ child' = "Running"
    /\ alive' = TRUE
    /\ health' = AtRestart
    /\ stable' = StableSince
    /\ age' = 0
    /\ wait' = Never
    /\ quiet' = Never
    /\ UNCHANGED <<owner, delay, previous>>

RestartFails ==
    /\ Goes("restart", "sleep")
    /\ child = "Restarting" /\ wait = 0
    /\ child' = "ended"
    /\ wait' = Never
    /\ UNCHANGED <<alive, owner, health, delay, stable, age, quiet, previous>>

Tick ==
    \/ TickIdle \/ TickDiscover \/ TickProbe
    \/ TickNotDue \/ TickAnswered \/ TickFailed

MonitorTurn ==
    \/ Sleep
    \/ ReapPass \/ ReapEnd \/ ReapRestart
    \/ Tick \/ GuardTurn
    \/ NoRestart \/ Restart \/ RestartFails

-----------------------------------------------------------------------------
(* The command and the other processes of the pod: outside src/ *)

Listen ==
    /\ \E p \in Ports :
          /\ owner[p] = "free"
          /\ \E o \in {"other"} \cup (IF alive THEN {"own"} ELSE {}) :
                owner' = [owner EXCEPT ![p] = o]
    /\ UNCHANGED <<step, child, alive, health, delay, wait, stable, age, quiet, previous>>

Unlisten ==
    /\ \E p \in Listening : owner' = [owner EXCEPT ![p] = "free"]
    /\ UNCHANGED <<step, child, alive, health, delay, wait, stable, age, quiet, previous>>

\* The process ends; a descendant that lives on may keep its ports.
Exit ==
    /\ alive
    /\ alive' = FALSE
    /\ \E heir \in {"free", "other"} :
          owner' = [p \in Ports |-> IF owner[p] = "own" THEN heir ELSE owner[p]]
    /\ UNCHANGED <<step, child, health, delay, wait, stable, age, quiet, previous>>

Surroundings == Elapse \/ Listen \/ Unlisten \/ Exit

RecNext == MonitorTurn \/ Surroundings

RecSpec == RecInit /\ [][RecNext]_recVars

\* The monitor keeps iterating.
RecFairSpec == RecSpec /\ WF_recVars(MonitorTurn)

-----------------------------------------------------------------------------
Elapsed == Never..Horizon

\* Every variable has its type; in particular the delay stays between its
\* first value and max_delay, and the count of failures within its threshold.
RecTypeOK ==
    /\ step \in Steps
    /\ child \in {"Running", "Stopping", "Restarting", "ended"}
    /\ alive \in BOOLEAN
    /\ owner \in [Ports -> Owners]
    /\ health \in [status : Statuses, port : Ports \cup {NoPort},
                   failures : 0..FailureThreshold, since : Elapsed, checked : Elapsed,
                   baseline : SUBSET Ports]
    /\ delay \in FirstDelay..MaxDelay
    /\ wait \in Never..MaxDelay
    /\ stable \in 0..Horizon
    /\ age \in 0..Horizon
    /\ quiet \in Elapsed
    /\ previous \in 0..MaxDelay

HealthKilled == step = "tick" /\ child = "Running" /\ child' = "Stopping"

\* The health checker kills only a process whose endpoint answered it, never
\* one for the failures of its predecessor, and only after the endpoint was
\* silent for FailureThreshold probes, an interval apart each (tick, and the
\* new health state of every restart).
KillsAreEarned ==
    [][HealthKilled => quiet >= (FailureThreshold - 1) * Interval]_recVars

Rescheduled == child # "Restarting" /\ child' = "Restarting"

\* Each restart waits twice as long as the one before it, up to max_delay;
\* only a process that itself ran for the stability threshold starts over
\* (schedule_restart, reset_if_stable and stable_since, set by three
\* different places).
DelaysDouble ==
    [][Rescheduled =>
          \/ previous = 0 /\ wait' = FirstDelay
          \/ previous # 0 /\ wait' = AtMost(2 * previous, MaxDelay)
          \/ age >= Stability /\ wait' = FirstDelay]_recVars

\* A Healthy child whose endpoint went silent for good does not stay Healthy:
\* it answers again and again, or it is killed or ends.
SilenceIsNoticed ==
    []<>(child # "Running" \/ health.status # "Healthy" \/ quiet = 0)

\* No child is Discovering for ever: a port is found, or the limit passes.
DiscoveryEnds == []<>(child # "Running" \/ health.status # "Discovering")

\* After a restart the port that is probed is one the new process bound itself,
\* whatever was bound and released in the pod meanwhile; only the first process
\* of a command may be given the port of another (reset without a baseline
\* against new_with_baseline; README, Health Checking).
RestartProbesOwnPort ==
    [][previous # 0 /\ health.status = "Discovering" /\ health'.status = "Probing" =>
          owner[health'.port] = "own"]_recVars
=============================================================================
