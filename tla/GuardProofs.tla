----------------------------- MODULE GuardProofs -----------------------------
(***************************************************************************)
(* Proofs about the OOM guard, for every configuration.                    *)
(***************************************************************************)
EXTENDS Guard, TLAPS

\* Each counted reading came at least one time unit after the one before, and
\* the first at least a cooldown after the last kill.
Spacing ==
    ticks > 0 => since >= Cooldown + ticks - (IF turn = "evaluate" THEN 0 ELSE 1)

\* What is counted was at or above the threshold.
Counting == ticks <= hot

GuardInv == GuardTypeOK /\ Spacing /\ Counting

LEMMA AtMostIs ==
  ASSUME NEW n \in Nat, NEW bound \in Nat
  PROVE  AtMost(n, bound) \in 0..bound /\ (AtMost(n, bound) = n \/ AtMost(n, bound) = bound)
         /\ AtMost(n, bound) <= n
  BY DEF AtMost

LEMMA GuardInitInv == GuardInit => GuardInv
<1> SUFFICES ASSUME GuardInit
             PROVE  GuardInv
  OBVIOUS
<1>1. Horizon \in Nat /\ U8Max \in Nat
  BY GuardAssumption DEF Horizon
<1>2. GuardTypeOK
  BY <1>1 DEF GuardInit, GuardTypeOK
<1>3. Spacing /\ Counting
  BY DEF GuardInit, Spacing, Counting
<1>4. QED
  BY <1>2, <1>3 DEF GuardInv

\* The files hold natural numbers, or nothing the reader takes for one.
LEMMA PodMemoryIs ==
  ASSUME NEW memory \in PodMemories
  PROVE  memory.usage \in Nat /\ memory.limit \in Nat \cup {NoLimit}
<1>1. PICK hierarchy \in {"v2", "v1", "none"}, current \in Usages \cup {NoNumber},
           max \in Limits \cup {NoNumber} :
        memory = [usage |-> UsageIn(hierarchy, current), limit |-> LimitIn(hierarchy, max)]
  BY DEF PodMemories
<1>2. UsageIn(hierarchy, current) \in Nat
  BY GuardAssumption DEF UsageIn
<1>3. LimitIn(hierarchy, max) \in Nat \cup {NoLimit}
  BY GuardAssumption DEF LimitIn
<1>4. QED
  BY <1>1, <1>2, <1>3

\* What passes between two evaluations lengthens the distance by one.
LEMMA ObserveStep ==
  ASSUME GuardInv, Observe
  PROVE  GuardInv'
<1> USE GuardAssumption DEF GuardInv, GuardTypeOK
<1>1. PICK dt \in 1..MaxStep : since' = AtMost(since + dt, Horizon)
  BY DEF Observe
<1>2. /\ Horizon \in Nat /\ dt \in Nat /\ dt >= 1
      /\ since' \in 0..Horizon
      /\ since' = since + dt \/ since' = Horizon
  BY <1>1, AtMostIs DEF Horizon
<1>3. GuardTypeOK'
  <2>1. usage' \in Nat /\ limit' \in Nat \cup {NoLimit}
    BY PodMemoryIs DEF Observe
  <2>2. QED
    BY <1>2, <2>1 DEF Observe
<1>4. Spacing' /\ Counting'
  BY <1>2 DEF Observe, Spacing, Counting, Horizon
<1>5. QED
  BY <1>3, <1>4

\* An evaluation past the cooldown finds enough time passed for its count.
LEMMA CountedSpacing ==
  ASSUME GuardInv, Counted
  PROVE  /\ NextTicks \in 0..U8Max
         /\ since >= Cooldown
         /\ since >= Cooldown + NextTicks - 1
<1> USE GuardAssumption DEF GuardInv, GuardTypeOK
<1>1. turn = "evaluate" /\ since >= Cooldown
  BY DEF Counted, Evaluating, InCooldown, Horizon
<1>2. NextTicks \in 0..U8Max /\ NextTicks <= ticks + 1
  BY AtMostIs DEF NextTicks
<1>3. since >= Cooldown + NextTicks - 1
  BY <1>1, <1>2 DEF Spacing, Horizon
<1>4. QED
  BY <1>1, <1>2, <1>3

\* Each counted evaluation is a hot one, and one that ends the hot ones ends
\* the count.
LEMMA HotStep ==
  ASSUME GuardInv, Evaluate
  PROVE  hot' \in 0..U8Max /\ Counting'
<1> USE GuardAssumption DEF GuardInv, GuardTypeOK, Counting
<1>1. hot' = IF Above THEN AtMost(hot + 1, U8Max) ELSE IF LimitKnown THEN 0 ELSE hot
  BY DEF Evaluate, EvalNoLimit, EvalBelow, EvalCooldown, EvalGrace, EvalKill,
     EvalExhausted, Counted, Evaluating
<1>2. AtMost(hot + 1, U8Max) = IF hot < U8Max THEN hot + 1 ELSE U8Max
  BY DEF AtMost
<1>3. NextTicks = IF ticks < U8Max THEN ticks + 1 ELSE U8Max
  BY DEF NextTicks, AtMost
<1>4. CASE EvalNoLimit
  <2>1. ~Above /\ ~LimitKnown /\ ticks' = ticks
    BY <1>4 DEF EvalNoLimit, Above, AtLeast
  <2>2. QED
    BY <1>1, <2>1
<1>5. CASE EvalBelow
  BY <1>1, <1>5 DEF EvalBelow, TicksBelow
<1>6. CASE EvalCooldown
  BY <1>1, <1>2, <1>6 DEF EvalCooldown
<1>7. CASE EvalGrace \/ EvalKill \/ EvalExhausted
  <2>1. Above /\ ticks' \in {NextTicks, 0}
    BY <1>7 DEF EvalGrace, EvalKill, EvalExhausted, Counted, TicksAfterKill
  <2>2. QED
    BY <1>1, <1>2, <1>3, <2>1
<1>8. QED
  BY <1>4, <1>5, <1>6, <1>7 DEF Evaluate

LEMMA EvaluateStep ==
  ASSUME GuardInv, Evaluate
  PROVE  GuardInv'
<1> USE GuardAssumption DEF GuardInv, GuardTypeOK
<1>1. turn = "evaluate" /\ turn' = "observe" /\ UNCHANGED <<usage, limit, uss>>
  BY DEF Evaluate, EvalNoLimit, EvalBelow, EvalCooldown, EvalGrace, EvalKill,
     EvalExhausted, Counted, Evaluating
<1>0. hot' \in 0..U8Max /\ Counting'
  BY HotStep
<1>2. CASE EvalNoLimit
  BY <1>0, <1>1, <1>2 DEF EvalNoLimit, Spacing, Horizon
<1>3. CASE EvalBelow
  BY <1>0, <1>1, <1>3 DEF EvalBelow, TicksBelow, Spacing, Horizon
<1>4. CASE EvalCooldown
  <2>1. action' \in {Warning(n) : n \in 0..GraceTicks}
    BY <1>4 DEF EvalCooldown
  <2>2. QED
    BY <1>0, <1>1, <1>4, <2>1 DEF EvalCooldown, Spacing, Horizon
<1>5. CASE EvalGrace
  <2>1. /\ NextTicks \in 0..U8Max /\ since >= Cooldown + NextTicks - 1
    BY <1>5, CountedSpacing DEF EvalGrace
  <2>2. /\ ticks' = NextTicks /\ UNCHANGED <<since, running>>
        /\ GraceTicks - NextTicks \in 0..GraceTicks
        /\ action' = Warning(GraceTicks - NextTicks)
    BY <1>5, <2>1 DEF EvalGrace
  <2>3. action' \in {Warning(n) : n \in 0..GraceTicks}
    BY <2>2
  <2>4. QED
    BY <1>0, <1>1, <2>1, <2>2, <2>3 DEF Spacing
<1>6. CASE EvalKill
  <2>1. PICK c \in Victims : /\ action' = KillOf(c, Emergency)
                             /\ running' = running \ {c}
    BY <1>6 DEF EvalKill
  <2>2. c \in Children
    BY <2>1 DEF Victims, Candidates, Heavy
  <2>3. action' \in {KillOf(d, e) : d \in Children, e \in BOOLEAN}
    <3>1. Emergency \in BOOLEAN
      BY DEF Emergency, AtLeast
    <3>2. \A e \in BOOLEAN : KillOf(c, e) \in {KillOf(d, f) : d \in Children, f \in BOOLEAN}
      BY <2>2
    <3> HIDE GuardAssumption DEF GuardInv, GuardTypeOK
    <3>3. KillOf(c, Emergency) \in {KillOf(d, f) : d \in Children, f \in BOOLEAN}
      BY <3>1, <3>2 DEF KillOf
    <3>4. QED
      BY <2>1, <3>3 DEF KillOf
  <2>4. ticks' = 0 /\ since' = 0
    BY <1>6, CountedSpacing DEF EvalKill, TicksAfterKill
  <2>5. 0 \in 0..Horizon /\ 0 \in 0..U8Max
    BY DEF Horizon
  <2>6. GuardTypeOK'
    BY <1>0, <1>1, <2>1, <2>3, <2>4, <2>5
  <2>7. Spacing'
    BY <2>4 DEF Spacing
  <2>8. QED
    BY <1>0, <2>6, <2>7
<1>7. CASE EvalExhausted
  <2>1. /\ NextTicks \in 0..U8Max /\ since >= Cooldown + NextTicks - 1
    BY <1>7, CountedSpacing DEF EvalExhausted
  <2>2. QED
    BY <1>0, <1>1, <1>7, <2>1 DEF EvalExhausted, Spacing
<1>8. QED
  BY <1>2, <1>3, <1>4, <1>5, <1>6, <1>7 DEF Evaluate

LEMMA GuardInvariance == GuardSpec => []GuardInv
<1>1. GuardInv /\ [GuardNext]_guardVars => GuardInv'
  <2>1. ASSUME GuardInv, GuardNext
        PROVE  GuardInv'
    BY <2>1, ObserveStep, EvaluateStep DEF GuardNext
  <2>2. ASSUME GuardInv, UNCHANGED guardVars
        PROVE  GuardInv'
    BY <2>2 DEF GuardInv, GuardTypeOK, Spacing, Counting, guardVars
  <2>3. QED
    BY <2>1, <2>2
<1>2. QED
  BY <1>1, GuardInitInv, PTL DEF GuardSpec

-----------------------------------------------------------------------------
\* consecutive_ticks_above stays a u8 and the warnings count down from
\* grace_ticks without an underflow.
THEOREM GuardTypeCorrect == GuardSpec => []GuardTypeOK
<1>1. GuardInv => GuardTypeOK
  BY DEF GuardInv
<1>2. QED
  BY <1>1, GuardInvariance, PTL

\* Only one way through evaluate kills.
LEMMA OnlyEvalKill ==
  ASSUME [GuardNext]_guardVars, Kills
  PROVE  EvalKill
<1>1. turn # turn'
  BY DEF Kills
<1>2. Evaluate
  BY <1>1 DEF Kills, GuardNext, Observe, guardVars
<1>3. /\ NoAction.kind = "none" /\ Exhausted.kind = "exhausted"
      /\ \A n : Warning(n).kind = "warning"
  BY DEF NoAction, Exhausted, Warning
<1>4. QED
  BY <1>2, <1>3 DEF Kills, Evaluate, EvalNoLimit, EvalBelow, EvalCooldown, EvalGrace,
     EvalExhausted

\* The distance between two kills, for every cooldown and every grace period.
THEOREM KillsSpaced == GuardSpec => KillsAreSpaced
<1>1. ASSUME GuardInv, [GuardNext]_guardVars, Kills
      PROVE  since >= Cooldown + GraceTicks - 1 /\ since >= Cooldown
  <2>1. EvalKill
    BY <1>1, OnlyEvalKill
  <2>2. /\ NextTicks \in 0..U8Max /\ since >= Cooldown
        /\ since >= Cooldown + NextTicks - 1 /\ NextTicks >= GraceTicks
    BY <1>1, <2>1, CountedSpacing DEF EvalKill
  <2>3. QED
    BY <1>1, <2>2, GuardAssumption DEF GuardInv, GuardTypeOK
<1>2. GuardInv /\ [GuardNext]_guardVars =>
        [Kills => since >= Cooldown + GraceTicks - 1 /\ since >= Cooldown]_guardVars
  BY <1>1
<1>3. QED
  BY <1>2, GuardInvariance, PTL DEF GuardSpec, KillsAreSpaced

\* No kill without grace_ticks readings at or above the threshold in a row.
THEOREM KillsUnderPressure == GuardSpec => KillsNeedPressure
<1>1. ASSUME GuardInv, [GuardNext]_guardVars, Kills
      PROVE  Above /\ hot' >= GraceTicks
  <2>1. EvalKill /\ Above /\ NextTicks >= GraceTicks
    BY <1>1, OnlyEvalKill DEF EvalKill, Counted
  <2>2. hot' = AtMost(hot + 1, U8Max)
    BY <2>1 DEF EvalKill, Counted, Evaluating
  <2>3. QED
    BY <1>1, <2>1, <2>2, GuardAssumption
       DEF GuardInv, GuardTypeOK, Counting, NextTicks, AtMost
<1>2. GuardInv /\ [GuardNext]_guardVars =>
        [Kills => Above /\ hot' >= GraceTicks]_guardVars
  BY <1>1
<1>3. QED
  BY <1>2, GuardInvariance, PTL DEF GuardSpec, KillsNeedPressure

\* The two passes of select_victim pick the heaviest of all Running children.
THEOREM HeaviestIsVictim == GuardSpec => VictimIsHeaviest
<1>1. ASSUME GuardInv, [GuardNext]_guardVars, Kills
      PROVE  /\ action'.victim \in running
             /\ \A d \in running : uss[d] <= uss[action'.victim]
  <2>1. PICK c \in Victims : action' = KillOf(c, Emergency)
    BY <1>1, OnlyEvalKill DEF EvalKill
  <2>2. action'.victim = c
    BY <2>1 DEF KillOf
  <2>3. c \in running /\ running \subseteq Children /\ uss \in [Children -> Nat]
    <3>1. c \in running
      BY DEF Victims, Candidates, Heavy
    <3>2. running \subseteq Children /\ uss \in [Children -> UssLevels]
      BY <1>1 DEF GuardInv, GuardTypeOK
    <3>3. UssLevels \subseteq Nat
      BY GuardAssumption
    <3>4. QED
      BY <3>1, <3>2, <3>3
  <2>4. ASSUME NEW d \in running
        PROVE  uss[d] <= uss[c]
    <3>1. CASE d \in Candidates
      BY <3>1 DEF Victims
    <3>2. CASE d \notin Candidates
      <4>1. Heavy # {} /\ d \notin Heavy /\ c \in Heavy
        BY <3>2 DEF Candidates, Victims
      <4>2. QED
        BY <2>3, <4>1, GuardAssumption DEF Heavy
    <3>3. QED
      BY <3>1, <3>2
  <2>5. QED
    BY <2>2, <2>3, <2>4
<1>2. GuardInv /\ [GuardNext]_guardVars =>
        [Kills => /\ action'.victim \in running
                  /\ \A d \in running : uss[d] <= uss[action'.victim]]_guardVars
  BY <1>1
<1>3. QED
  BY <1>2, GuardInvariance, PTL DEF GuardSpec, VictimIsHeaviest
=============================================================================
