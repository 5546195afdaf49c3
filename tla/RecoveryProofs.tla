--------------------------- MODULE RecoveryProofs ---------------------------
(***************************************************************************)
(* The recovery of a child, for all delays, intervals and ports: types,    *)
(* when the health checker kills, and how the restart delays grow.         *)
(***************************************************************************)
EXTENDS Recovery, TLAPS

\* A Healthy child has answered since it was started, and each failure
\* counted since the last answer adds an interval of silence.
Earned ==
    /\ health.status \in {"Discovering", "Probing", "NotApplicable"} =>
          health.failures = 0
    /\ health.status = "Healthy" =>
          /\ quiet # Never
          /\ health.failures \in 0..2
          /\ health.failures # 0 => health.checked # Never
          /\ health.failures = 1 => quiet = Horizon \/ quiet >= health.checked
          /\ health.failures = 2 => quiet = Horizon \/ quiet >= Interval + health.checked
    /\ health.status = "Unhealthy" => child # "Running"
    /\ health.status \in {"Probing", "Healthy"} => health.port \in Ports

\* What current_delay is, from what the last restart waited.
Growing ==
    /\ stable = age
    /\ \/ previous = 0 /\ delay = FirstDelay
       \/ previous # 0 /\ delay = AtMost(2 * previous, MaxDelay)
       \/ previous # 0 /\ delay = FirstDelay /\ age >= Stability /\ child # "Restarting"
    /\ child = "Restarting" => previous # 0

RecInv == RecTypeOK /\ Earned /\ Growing

LEMMA OlderIs ==
  ASSUME NEW t \in Elapsed
  PROVE  /\ Older(t) \in Elapsed
         /\ Older(t) = Never <=> t = Never
         /\ t # Never => /\ t \in 0..Horizon
                         /\ Older(t) = IF t < Horizon THEN t + 1 ELSE Horizon
                         /\ Older(t) >= t
BY RecoveryAssumption DEF Elapsed, Older, AtMost, Never

Healths == [status : Statuses, port : Ports \cup {NoPort},
            failures : 0..FailureThreshold, since : Elapsed, checked : Elapsed,
            baseline : SUBSET Ports]

LEMMA DoubledIs == RecTypeOK => Doubled \in FirstDelay..MaxDelay
BY RecoveryAssumption DEF RecTypeOK, Doubled, AtMost

\* The passing of time preserves the invariant: all elapsed times grow alike.
LEMMA TimeStep ==
  ASSUME RecInv, TimePasses, UNCHANGED <<child, alive, owner, delay, previous>>,
         step' \in Steps
  PROVE  RecInv'
<1> USE RecoveryAssumption
<1>1. /\ health' = [health EXCEPT !.since = Older(health.since),
                                  !.checked = Older(health.checked)]
      /\ health.since \in Elapsed /\ health.checked \in Elapsed /\ quiet \in Elapsed
      /\ stable \in Elapsed \ {Never} /\ age = stable
      /\ quiet' = Older(quiet) /\ stable' = Older(stable) /\ age' = Older(age)
  BY DEF TimePasses, RecInv, RecTypeOK, Growing, Elapsed, Never
<1>2. /\ Older(health.since) \in Elapsed /\ Older(health.checked) \in Elapsed
      /\ Older(quiet) \in Elapsed /\ Older(stable) \in Elapsed \ {Never}
      /\ Older(stable) >= stable
  BY <1>1, OlderIs
<1>3. RecTypeOK'
  <2>1. wait' \in Never..MaxDelay
    BY DEF TimePasses, RecInv, RecTypeOK, Never
  <2>2. stable' \in 0..Horizon /\ age' \in 0..Horizon
    BY <1>1, <1>2 DEF Elapsed, Never
  <2>3. health' \in [status : Statuses, port : Ports \cup {NoPort},
                     failures : 0..FailureThreshold, since : Elapsed, checked : Elapsed,
                     baseline : SUBSET Ports]
    BY <1>1, <1>2 DEF RecInv, RecTypeOK
  <2>4. QED
    BY <1>1, <1>2, <2>1, <2>2, <2>3 DEF RecInv, RecTypeOK
<1>4. Earned'
  <2>1. /\ health'.status = health.status /\ health'.failures = health.failures
        /\ health'.port = health.port /\ health'.checked = Older(health.checked)
    BY <1>1 DEF RecInv, RecTypeOK
  <2>2. health.status = "Healthy" =>
          /\ quiet \in 0..Horizon
          /\ quiet' = IF quiet < Horizon THEN quiet + 1 ELSE Horizon
          /\ quiet' # Never
    BY <1>1, OlderIs DEF RecInv, Earned, Never
  <2>3. health.status = "Healthy" /\ health.failures # 0 =>
          /\ health.checked \in 0..Horizon
          /\ health'.checked =
                IF health.checked < Horizon THEN health.checked + 1 ELSE Horizon
          /\ health'.checked # Never
    BY <1>1, <2>1, OlderIs DEF RecInv, Earned, Never
  <2>4. health.status = "Healthy" =>
          /\ health.failures = 1 => quiet' = Horizon \/ quiet' >= health'.checked
          /\ health.failures = 2 =>
               quiet' = Horizon \/ quiet' >= Interval + health'.checked
    BY <2>2, <2>3, RecoveryAssumption DEF RecInv, Earned
  <2>5. QED
    BY <1>1, <2>1, <2>2, <2>3, <2>4 DEF RecInv, Earned
<1>5. Growing'
  BY <1>1, <1>2 DEF RecInv, RecTypeOK, Growing, Elapsed, Never
<1>6. QED
  BY <1>3, <1>4, <1>5 DEF RecInv

LEMMA ReapStep ==
  ASSUME RecInv, ReapPass \/ ReapEnd \/ ReapRestart
  PROVE  RecInv'
<1> USE RecoveryAssumption DEF RecInv, RecTypeOK, Earned, Growing, Goes, Steps
<1>1. CASE ReapPass
  BY <1>1 DEF ReapPass
<1>2. CASE ReapEnd
  BY <1>2 DEF ReapEnd
<1>3. CASE ReapRestart
  <2>1. Doubled \in FirstDelay..MaxDelay
    BY DoubledIs
  <2>2. QED
    BY <1>3, <2>1 DEF ReapRestart, Doubled, Never
<1>4. QED
  BY <1>1, <1>2, <1>3

LEMMA TickStep ==
  ASSUME RecInv, Tick
  PROVE  RecInv'
<1> DEFINE Typed(st, n) ==
      /\ health' \in Healths
      /\ health'.status = st /\ health'.failures = n /\ health'.port = health.port
      /\ health'.checked \in {health.checked, 0}
<1>h. health \in Healths /\ 0 \in 0..FailureThreshold
  BY DEF RecInv, RecTypeOK, Healths, FailureThreshold
<1>q. 0 \in Elapsed /\ 0 # Never
  BY RecoveryAssumption DEF Elapsed, Never
<1>r. RecTypeOK' <=> /\ step' \in Steps
                     /\ child' \in {"Running", "Stopping", "Restarting", "ended"}
                     /\ alive' \in BOOLEAN
                     /\ owner' \in [Ports -> Owners]
                     /\ health' \in Healths
                     /\ delay' \in FirstDelay..MaxDelay
                     /\ wait' \in Never..MaxDelay
                     /\ stable' \in 0..Horizon
                     /\ age' \in 0..Horizon
                     /\ quiet' \in Elapsed
                     /\ previous' \in 0..MaxDelay
  BY DEF RecTypeOK, Healths
<1> USE RecoveryAssumption DEF RecInv, RecTypeOK, Earned, Growing, Goes, Steps
<1>1. CASE TickIdle
  BY <1>1 DEF TickIdle, HealthKills
<1>2. CASE TickDiscover
  <2>1. Discovering \in Elapsed
    BY DEF Discovering, Elapsed, Never
  <2>2. Detected \subseteq Ports
    BY DEF Detected, Listening
  <2>3. QED
    BY <1>2, <2>1, <2>2 DEF TickDiscover, Statuses
<1>3. CASE TickProbe
  <2>1. CASE UNCHANGED <<health, quiet>>
    BY <1>3, <2>1 DEF TickProbe
  <2>2. CASE /\ health' = [health EXCEPT !.status = "Healthy", !.failures = 0]
             /\ quiet' = 0
    <3>1. health' = [health EXCEPT !.checked = health.checked, !.failures = 0,
                                   !.status = "Healthy"]
      BY <2>2
    <3>2. Typed("Healthy", 0)
      <4> HIDE DEF RecInv, RecTypeOK, Earned, Growing, Goes, Steps
      <4>1. QED
        BY <3>1, <1>h, <1>q DEF Healths, Statuses
    <3>3. QED
      BY <1>3, <1>q, <2>2, <3>2, <1>r DEF TickProbe
  <2>3. QED
    BY <1>3, <2>1, <2>2 DEF TickProbe
<1>4. CASE TickNotDue
  BY <1>4 DEF TickNotDue
<1>5. CASE TickAnswered
  <2>1. health' = [health EXCEPT !.checked = 0, !.failures = 0, !.status = "Healthy"]
    BY <1>5 DEF TickAnswered, Checking
  <2>2. Typed("Healthy", 0)
    <3> HIDE DEF RecInv, RecTypeOK, Earned, Growing, Goes, Steps
    <3>1. QED
      BY <2>1, <1>h, <1>q DEF Healths, Statuses
  <2>3. QED
    BY <1>5, <1>q, <1>r, <2>2 DEF TickAnswered
<1>6. CASE TickFailed
  <2>1. /\ health.failures \in 0..2 /\ Failures \in 1..3 /\ Failures = health.failures + 1
        /\ health.status = "Healthy" /\ quiet # Never
    BY <1>6 DEF TickFailed, Failures
  <2>2. health.failures # 0 => health.checked >= Interval
    BY <1>6, <2>1 DEF TickFailed, CheckDue
  <2>3. UNCHANGED <<alive, owner, delay, wait, stable, age, quiet, previous>>
        /\ step' = "guard"
    BY <1>6 DEF TickFailed
  <2>4. CASE Failures >= FailureThreshold
    <3>1. /\ health' = [health EXCEPT !.checked = 0, !.failures = Failures,
                                      !.status = "Unhealthy"]
          /\ child' = "Stopping"
      BY <1>6, <2>4 DEF TickFailed, HealthKills, Checking
    <3>2. Typed("Unhealthy", Failures)
      <4> HIDE DEF RecInv, RecTypeOK, Earned, Growing, Goes, Steps
      <4>1. Failures \in 0..FailureThreshold
        BY <2>1 DEF FailureThreshold
      <4>2. QED
        BY <3>1, <4>1, <1>h, <1>q DEF Healths, Statuses
    <3>3. RecTypeOK'
      BY <2>3, <3>1, <3>2, <1>r
    <3>4. QED
      BY <2>3, <3>1, <3>2, <3>3
  <2>5. CASE ~(Failures >= FailureThreshold)
    <3>1. /\ health' = [health EXCEPT !.checked = 0, !.failures = Failures]
          /\ UNCHANGED child /\ Failures \in 1..2
      BY <1>6, <2>1, <2>5 DEF TickFailed, Checking, FailureThreshold
    <3>2. Typed("Healthy", Failures) /\ health'.checked = 0
      <4> HIDE DEF RecInv, RecTypeOK, Earned, Growing, Goes, Steps
      <4>1. Failures \in 0..FailureThreshold
        BY <2>1 DEF FailureThreshold
      <4>2. QED
        BY <2>1, <3>1, <4>1, <1>h, <1>q DEF Healths
    <3>3. quiet \in 0..Horizon
      BY <2>1 DEF Elapsed, Never
    <3>4. Failures = 2 => quiet = Horizon \/ quiet >= Interval
      BY <2>1, <2>2, <3>3 DEF Elapsed, Never
    <3>5. Earned'
      BY <2>1, <2>3, <3>1, <3>2, <3>3, <3>4, <1>r DEF Never
    <3>6. RecTypeOK'
      BY <2>3, <3>1, <3>2, <1>r
    <3>7. QED
      BY <2>3, <3>1, <3>5, <3>6
  <2>6. QED
    BY <2>4, <2>5
<1>7. QED
  BY <1>1, <1>2, <1>3, <1>4, <1>5, <1>6 DEF Tick

LEMMA RestartStep ==
  ASSUME RecInv, NoRestart \/ Restart \/ RestartFails
  PROVE  RecInv'
<1> USE RecoveryAssumption DEF RecInv, RecTypeOK, Earned, Growing, Goes, Steps
<1>1. CASE NoRestart
  BY <1>1 DEF NoRestart, AfterReset
<1>2. CASE Restart
  BY <1>2 DEF Restart, AtRestart, StableSince, NewHealth, Statuses, Elapsed, Never,
     FailureThreshold
<1>3. CASE RestartFails
  BY <1>3 DEF RestartFails, Never
<1>4. QED
  BY <1>1, <1>2, <1>3

LEMMA RecInvStep ==
  ASSUME RecInv, [RecNext]_recVars
  PROVE  RecInv'
<1>1. CASE Sleep \/ Elapse
  <2>1. /\ TimePasses /\ UNCHANGED <<child, alive, owner, delay, previous>>
        /\ step' \in Steps
    BY <1>1 DEF Sleep, Elapse, RecInv, RecTypeOK, Steps
  <2>2. QED
    BY <2>1, TimeStep
<1>2. CASE ReapPass \/ ReapEnd \/ ReapRestart
  BY <1>2, ReapStep
<1>3. CASE Tick
  BY <1>3, TickStep
<1>4. CASE GuardTurn
  BY <1>4 DEF GuardTurn, Goes, RecInv, RecTypeOK, Earned, Growing, Steps
<1>5. CASE NoRestart \/ Restart \/ RestartFails
  BY <1>5, RestartStep
<1>6. CASE Listen \/ Unlisten \/ Exit
  <2>1. owner' \in [Ports -> Owners] /\ alive' \in BOOLEAN
    BY <1>6 DEF Listen, Unlisten, Exit, RecInv, RecTypeOK, Owners
  <2>2. UNCHANGED <<step, child, health, delay, wait, stable, age, quiet, previous>>
    BY <1>6 DEF Listen, Unlisten, Exit
  <2>3. QED
    BY <2>1, <2>2 DEF RecInv, RecTypeOK, Earned, Growing
<1>7. CASE UNCHANGED recVars
  BY <1>7 DEF recVars, RecInv, RecTypeOK, Earned, Growing
<1>8. QED
  BY <1>1, <1>2, <1>3, <1>4, <1>5, <1>6, <1>7 DEF RecNext, MonitorTurn, Surroundings

LEMMA RecInvariance == RecSpec => []RecInv
<1>1. RecInit => RecInv
  BY RecoveryAssumption DEF RecInit, RecInv, RecTypeOK, Earned, Growing, NewHealth,
     Listening, Steps, Statuses, Owners, Elapsed, Never, FailureThreshold
<1>2. RecInv /\ [RecNext]_recVars => RecInv'
  BY RecInvStep
<1>3. QED
  BY <1>1, <1>2, PTL DEF RecSpec

\* health.rs and supervisor.rs: the fields of HealthState and BackoffState
\* keep their types and the delay its bounds, for every configuration.
THEOREM RecTypeCorrect == RecSpec => []RecTypeOK
<1>1. RecInv => RecTypeOK
  BY DEF RecInv
<1>2. QED
  BY <1>1, RecInvariance, PTL

\* health.rs, tick: a kill takes an answer and FailureThreshold failed probes,
\* an interval apart, of the same process.
THEOREM KillEarned == RecSpec => KillsAreEarned
<1>1. RecInv /\ [RecNext]_recVars =>
        [HealthKilled => quiet >= (FailureThreshold - 1) * Interval]_recVars
  <2>1. SUFFICES ASSUME RecInv, [RecNext]_recVars, HealthKilled
                 PROVE  quiet >= (FailureThreshold - 1) * Interval
    OBVIOUS
  <2>2. TickFailed /\ Failures >= FailureThreshold
    BY <2>1 DEF HealthKilled, RecInv, Earned, RecNext, MonitorTurn, Surroundings, Tick, Sleep,
       ReapPass, ReapEnd, ReapRestart, TickIdle, TickDiscover, TickProbe, TickNotDue,
       TickAnswered, TickFailed, GuardTurn, NoRestart, Restart, RestartFails, Elapse, Listen,
       Unlisten, Exit, Goes, recVars
  <2>3. /\ health.status = "Healthy" /\ health.failures = 2 /\ health.checked # Never
        /\ health.checked >= Interval
    BY <2>1, <2>2 DEF TickFailed, Failures, FailureThreshold, CheckDue, RecInv, Earned
  <2>4. quiet = Horizon \/ quiet >= Interval + health.checked
    BY <2>1, <2>3 DEF RecInv, Earned
  <2>5. QED
    BY <2>1, <2>3, <2>4, RecoveryAssumption DEF RecInv, RecTypeOK, FailureThreshold,
       Elapsed, Never
<1>2. QED
  BY <1>1, RecInvariance, PTL DEF RecSpec, KillsAreEarned

\* supervisor.rs, BackoffState: the delays double up to max_delay and start
\* over only after a process that ran for the stability threshold.
THEOREM DelayDoubling == RecSpec => DelaysDouble
<1> DEFINE Doubles ==
      \/ previous = 0 /\ wait' = FirstDelay
      \/ previous # 0 /\ wait' = AtMost(2 * previous, MaxDelay)
      \/ age >= Stability /\ wait' = FirstDelay
<1>1. RecInv /\ [RecNext]_recVars => [Rescheduled => Doubles]_recVars
  <2>1. SUFFICES ASSUME RecInv, [RecNext]_recVars, Rescheduled
                 PROVE  Doubles
    OBVIOUS
  <2>2. ReapRestart
    BY <2>1 DEF Rescheduled, RecInv, RecNext, MonitorTurn, Surroundings, Tick, Sleep,
       ReapPass, ReapEnd, TickIdle, TickDiscover, TickProbe, TickNotDue, TickAnswered,
       TickFailed, HealthKills, GuardTurn, NoRestart, Restart, RestartFails, Elapse, Listen,
       Unlisten, Exit, recVars
  <2>3. wait' = delay
    BY <2>2 DEF ReapRestart
  <2>4. QED
    BY <2>1, <2>3 DEF RecInv, Growing
<1>2. QED
  BY <1>1, RecInvariance, PTL DEF RecSpec, DelaysDouble

\* A process started by a restart has no baseline.
Unbased == previous # 0 /\ child = "Running" => health.baseline = {}

LEMMA UnbasedStep ==
  ASSUME RecInv, Unbased, [RecNext]_recVars
  PROVE  Unbased'
<1>1. health \in Healths
  BY DEF RecInv, RecTypeOK, Healths
<1>2. CASE Restart
  BY <1>2 DEF Restart, AtRestart, NewHealth, Unbased
<1>3. CASE ReapRestart
  BY <1>3 DEF ReapRestart, Unbased
<1>4. CASE ReapPass \/ ReapEnd \/ GuardTurn \/ NoRestart \/ RestartFails
  BY <1>4 DEF ReapPass, ReapEnd, GuardTurn, NoRestart, RestartFails, Unbased
<1>5. CASE Sleep \/ Elapse
  BY <1>1, <1>5 DEF Sleep, Elapse, TimePasses, Unbased, Healths
<1>6. CASE Tick
  <2>1. health'.baseline = health.baseline /\ previous' = previous
        /\ (child' = "Running" => child = "Running")
    BY <1>1, <1>6 DEF Tick, TickIdle, TickDiscover, TickProbe, TickNotDue, TickAnswered,
       TickFailed, HealthKills, Checking, Healths
  <2>2. QED
    BY <2>1 DEF Unbased
<1>7. CASE Listen \/ Unlisten \/ Exit \/ UNCHANGED recVars
  BY <1>7 DEF Listen, Unlisten, Exit, recVars, Unbased
<1>8. QED
  BY <1>2, <1>3, <1>4, <1>5, <1>6, <1>7 DEF RecNext, MonitorTurn, Surroundings

\* monitor.rs 550-575 and health.rs 242: the health state of a restarted child
\* looks at the ports of its own process only.
THEOREM RestartProbesOwn == RecSpec => RestartProbesOwnPort
<1> DEFINE Found == /\ previous # 0 /\ health.status = "Discovering"
                    /\ health'.status = "Probing"
<1>1. RecInit => Unbased
  BY DEF RecInit, Unbased
<1>2. RecInv /\ Unbased /\ [RecNext]_recVars => Unbased'
  BY UnbasedStep
<1>3. RecInv /\ Unbased /\ [RecNext]_recVars =>
        [Found => owner[health'.port] = "own"]_recVars
  <2>1. SUFFICES ASSUME RecInv, Unbased, [RecNext]_recVars, Found
                 PROVE  owner[health'.port] = "own"
    OBVIOUS
  <2>2. health \in Healths
    BY <2>1 DEF RecInv, RecTypeOK, Healths
  <2>3. TickDiscover
    <3>1. health'.status # health.status
      BY <2>1
    <3>2. CASE Sleep \/ Elapse
      BY <2>2, <3>1, <3>2 DEF Healths, Sleep, Elapse, TimePasses
    <3>3. CASE ReapPass \/ ReapEnd \/ ReapRestart \/ GuardTurn \/ NoRestart \/ RestartFails
      BY <3>1, <3>3 DEF ReapPass, ReapEnd, ReapRestart, GuardTurn, NoRestart, RestartFails
    <3>4. CASE Restart
      BY <2>1, <3>4 DEF Restart, AtRestart, NewHealth
    <3>5. CASE Listen \/ Unlisten \/ Exit \/ UNCHANGED recVars
      BY <3>1, <3>5 DEF Listen, Unlisten, Exit, recVars
    <3>6. CASE Tick
      BY <2>1, <3>1, <3>6 DEF Tick, TickIdle, TickProbe, TickNotDue, TickAnswered, TickFailed
    <3>7. QED
      BY <2>1, <3>2, <3>3, <3>4, <3>5, <3>6 DEF RecNext, MonitorTurn, Surroundings
  <2>4. PICK p \in Detected :
          health' = [health EXCEPT !.since = Discovering, !.port = p, !.status = "Probing"]
    BY <2>1, <2>2, <2>3 DEF TickDiscover, Healths
  <2>5. health.baseline = {} /\ health'.port = p
    BY <2>1, <2>2, <2>3, <2>4 DEF TickDiscover, Unbased, Healths
  <2>6. QED
    BY <2>4, <2>5 DEF Detected
<1>4. QED
  BY <1>1, <1>2, <1>3, RecInvariance, PTL DEF RecSpec, RestartProbesOwnPort
=============================================================================
