-------------------------------- MODULE Guard --------------------------------
(***************************************************************************)
(* The OOM guard: Guard::evaluate and ProtectionPolicy::select_victim, with *)
(* what the monitor thread does with the answer, and the reader of the      *)
(* cgroup files it looks through.  guard.rs, policy.rs, monitor.rs 462-526, *)
(* cgroup.rs 7-27 and 107-149.                                             *)
(*                                                                         *)
(* One evaluation per iteration of the monitor; between two of them time   *)
(* passes (at least the second of sleep), the memory readings change and   *)
(* children come and go.                                                   *)
(***************************************************************************)
EXTENDS Integers

CONSTANTS
    Children,            \* the managed children
    KillThreshold,       \* config.kill_threshold_percent
    EmergencyThreshold,  \* config.emergency_threshold_percent (78)
    GraceTicks,          \* config.grace_ticks
    Cooldown,            \* config.post_kill_cooldown, in time units
    MinKillUss,          \* MIN_KILL_USS
    U8Max,               \* the largest u8 (255); small in a model, a bound
    Usages, Limits,      \* the numbers the cgroup files may hold (bound)
    V1Unlimited,         \* a larger limit of cgroup v1 is none, 2^62
    UssLevels,           \* the USS a child may have (bound)
    MaxStep              \* the longest time between two evaluations (bound)

ASSUME GuardAssumption ==
    /\ GraceTicks \in 0..U8Max /\ U8Max \in Nat /\ Cooldown \in Nat
    /\ KillThreshold \in Nat /\ EmergencyThreshold \in Nat /\ MinKillUss \in Nat
    /\ Usages \subseteq Nat /\ Limits \subseteq Nat /\ V1Unlimited \in Nat
    /\ UssLevels \subseteq Nat
    /\ MaxStep \in Nat \ {0}

VARIABLES
    ticks,    \* guard.consecutive_ticks_above
    since,    \* last_kill.at.elapsed(), as long as Horizon if that or no kill
    usage,    \* pod_memory.cgroup_usage
    limit,    \* pod_memory.cgroup_limit, or NoLimit
    running,  \* the children in state Running; none has the pid of spm or of init
    uss,      \* child.total_uss as sampled at the start of the iteration
    turn,     \* whether the next step is an evaluation
    action,   \* the GuardAction of the last evaluation
    hot       \* history: evaluations at or above the threshold since one below
              \* it, those without a known limit not counted

guardVars == <<ticks, since, usage, limit, running, uss, turn, action, hot>>

NoLimit == -1   \* cgroup_limit is None

\* Past the cooldown and the grace ticks elapsed time makes no difference.
Horizon == Cooldown + U8Max

AtMost(n, bound) == IF n < bound THEN n ELSE bound

NoAction == [kind |-> "none"]
Warning(remaining) == [kind |-> "warning", remaining |-> remaining]
KillOf(c, emergency) == [kind |-> "kill", victim |-> c, emergency |-> emergency]
Exhausted == [kind |-> "exhausted"]

GuardInit ==
    /\ ticks = 0
    /\ since = Horizon
    /\ usage = 0 /\ limit = NoLimit
    /\ running = Children
    /\ uss \in [Children -> UssLevels]
    /\ turn = "observe"
    /\ action = NoAction
    /\ hot = 0

-----------------------------------------------------------------------------
(* read_pod_memory: one file for the usage and one for the limit, in the    *)
(* hierarchy that is mounted.  A file that cannot be read and one that does *)
(* not hold a number ("max") come to the same.                             *)

NoNumber == -2

\* unwrap_or(0): what is not known to be used is taken to be free.
UsageIn(hierarchy, current) ==
    IF hierarchy = "none" \/ current = NoNumber THEN 0 ELSE current

LimitIn(hierarchy, max) ==
    IF \/ hierarchy = "none" \/ max = NoNumber
       \/ hierarchy = "v1" /\ max > V1Unlimited
    THEN NoLimit
    ELSE max

PodMemories ==
    {[usage |-> UsageIn(hierarchy, current), limit |-> LimitIn(hierarchy, max)] :
        hierarchy \in {"v2", "v1", "none"},
        current \in Usages \cup {NoNumber}, max \in Limits \cup {NoNumber}}

-----------------------------------------------------------------------------
(* The rest of the system, between two evaluations *)

Observe ==
    /\ turn = "observe"
    /\ \E dt \in 1..MaxStep : since' = AtMost(since + dt, Horizon)
    /\ \E memory \in PodMemories : usage' = memory.usage /\ limit' = memory.limit
    /\ running' \in SUBSET Children
    /\ uss' \in [Children -> UssLevels]
    /\ turn' = "evaluate"
    /\ UNCHANGED <<ticks, action, hot>>

-----------------------------------------------------------------------------
(* select_victim: the heaviest of the Running children with at least       *)
(* MIN_KILL_USS, or, if there is none, of all of them.  Which of several    *)
(* equally heavy ones depends on pid and index, and is left open.          *)

Heavy == {c \in running : uss[c] >= MinKillUss}

Candidates == IF Heavy # {} THEN Heavy ELSE running

Victims_First == Candidates  \* mutant: no comparison of the USS
Victims == {c \in Candidates : \A d \in Candidates : uss[d] <= uss[c]}

-----------------------------------------------------------------------------
(* evaluate, one action per way through it *)

LimitKnown == limit > 0

\* percent >= threshold, without the division.
AtLeast(percent) == LimitKnown /\ 100 * usage >= percent * limit

Above == AtLeast(KillThreshold)
Emergency == AtLeast(EmergencyThreshold)

Evaluating ==
    /\ turn = "evaluate" /\ turn' = "observe"
    /\ hot' = IF Above THEN AtMost(hot + 1, U8Max) ELSE IF LimitKnown THEN 0 ELSE hot
    /\ UNCHANGED <<usage, limit, uss>>

NextTicks_Overflow == ticks + 1  \* mutant: no saturation
\* saturating_add
NextTicks == AtMost(ticks + 1, U8Max)

\* No limit known: the count is left as it is.
EvalNoLimit ==
    /\ Evaluating
    /\ ~LimitKnown
    /\ action' = NoAction
    /\ UNCHANGED <<ticks, since, running>>

TicksBelow_Kept == ticks  \* mutant: a reading below does not start the count anew
TicksBelow == 0

EvalBelow ==
    /\ Evaluating
    /\ LimitKnown /\ ~Above
    /\ ticks' = TicksBelow
    /\ action' = NoAction
    /\ UNCHANGED <<since, running>>

InCooldown_Inverted == since >= Cooldown  \* mutant: the comparison is the wrong way
InCooldown == since < Cooldown

EvalCooldown ==
    /\ Evaluating
    /\ Above /\ InCooldown
    /\ action' = Warning(0)
    /\ UNCHANGED <<ticks, since, running>>

\* Past the cooldown an evaluation above the threshold counts.
Counted == Evaluating /\ Above /\ ~InCooldown

EvalGrace ==
    /\ Counted
    /\ NextTicks < GraceTicks
    /\ ticks' = NextTicks
    /\ action' = Warning(GraceTicks - NextTicks)
    /\ UNCHANGED <<since, running>>

\* The grace period is over: the victim's group is killed, the child is
\* Stopping, and only then the count is reset and last_kill set.
TicksAfterKill_Kept == NextTicks  \* mutant: the count is not reset
TicksAfterKill == 0

EvalKill ==
    /\ Counted
    /\ NextTicks >= GraceTicks
    /\ \E c \in Victims :
          /\ action' = KillOf(c, Emergency)
          /\ running' = running \ {c}
    /\ ticks' = TicksAfterKill
    /\ since' = 0

\* Nobody can be killed: the count goes on.
EvalExhausted ==
    /\ Counted
    /\ NextTicks >= GraceTicks
    /\ Victims = {}
    /\ ticks' = NextTicks
    /\ action' = Exhausted
    /\ UNCHANGED <<since, running>>

Evaluate ==
    \/ EvalNoLimit \/ EvalBelow \/ EvalCooldown
    \/ EvalGrace \/ EvalKill \/ EvalExhausted

GuardNext == Observe \/ Evaluate

GuardSpec == GuardInit /\ [][GuardNext]_guardVars

\* The monitor's loop never stops iterating while spm runs.
GuardFairSpec == GuardSpec /\ WF_guardVars(GuardNext)

-----------------------------------------------------------------------------
GuardTypeOK ==
    /\ ticks \in 0..U8Max
    /\ since \in 0..Horizon
    /\ usage \in Nat /\ limit \in Nat \cup {NoLimit}
    /\ running \subseteq Children
    /\ uss \in [Children -> UssLevels]
    /\ turn \in {"observe", "evaluate"}
    /\ action \in {NoAction, Exhausted}
                    \cup {Warning(n) : n \in 0..GraceTicks}
                    \cup {KillOf(c, e) : c \in Children, e \in BOOLEAN}
    /\ hot \in 0..U8Max

Kills == turn = "evaluate" /\ turn' = "observe" /\ action'.kind = "kill"

\* Two kills are a cooldown and a whole grace period apart: the memory freed
\* by one is given time to show before the next (evaluate, and the resets of
\* consecutive_ticks_above and last_kill in the monitor).
KillsAreSpaced ==
    [][Kills => since >= Cooldown + GraceTicks - 1 /\ since >= Cooldown]_guardVars

\* A kill takes grace_ticks readings at the threshold or above with none below
\* in between, whatever iterations without a known limit or in the cooldown
\* lie among them (README, How the Guard Works).
KillsNeedPressure ==
    [][Kills => Above /\ hot' >= GraceTicks]_guardVars

\* The victim is the heaviest of all Running children, for all that
\* select_victim looks at some of them first (README, How the Guard Works).
\* It says whom a kill hits, not that there should be one.
VictimIsHeaviest ==
    [][Kills => /\ action'.victim \in running
                /\ \A d \in running : uss[d] <= uss[action'.victim]]_guardVars

\* Under lasting pressure, with a Running child of at least MIN_KILL_USS at every
\* evaluation, the guard kills such a child again and again: neither the cooldown
\* nor the grace period starves it.  Whether it should kill when all are lighter
\* is where select_victim and the tests part (README.md), and is left open here.
PressureKills ==
    <>[](turn = "evaluate" => Above /\ Heavy # {}) =>
        []<>(/\ turn = "observe" /\ action.kind = "kill"
             /\ uss[action.victim] >= MinKillUss)
=============================================================================
