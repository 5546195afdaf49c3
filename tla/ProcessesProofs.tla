--------------------------- MODULE ProcessesProofs ---------------------------
(***************************************************************************)
(* What the processes pane shows of a process is its own, for any pids,    *)
(* any window and any counters.                                            *)
(***************************************************************************)
EXTENDS Processes, SequenceTheorems, TLAPS

\* A sample is no older than the last listing of the process that has the pid
\* now: base, which is 0 if it was not listed yet.
Sampled ==
    \A p \in Pids :
        /\ base[p] =< work[p]
        /\ cpu[p] # None => base[p] =< cpu[p]
        /\ disk[p] # None /\ ~blind[p] => base[p] =< disk[p]

\* The last kept[p] samples of the window are of the process that has the pid.
Windowed ==
    \A p \in Pids :
        /\ kept[p] =< Len(windows[p])
        /\ \A j \in DOMAIN windows[p] :
              j > Len(windows[p]) - kept[p] => windows[p][j] = "own"

ProcInv == ProcTypeOK /\ Sampled /\ Windowed /\ SamplesAreListed

-----------------------------------------------------------------------------
(* The deque of growth samples *)

LEMMA PushedIs ==
  ASSUME NEW window \in Seq(Whose), Len(window) =< Window, Window \in Nat \ {0}
  PROVE  /\ Pushed(window) \in Seq(Whose)
         /\ Pushed(window) # <<>>
         /\ Len(Pushed(window)) = IF Len(window) < Window THEN Len(window) + 1 ELSE Window
         /\ Len(window) < Window =>
              \A j \in 1 .. Len(window) + 1 :
                 Pushed(window)[j] = IF j = Len(window) + 1 THEN "own" ELSE window[j]
         /\ Len(window) = Window =>
              \A j \in 1 .. Window :
                 Pushed(window)[j] = IF j = Window THEN "own" ELSE window[j + 1]
<1> DEFINE longer == Append(window, "own")
<1>1. /\ longer \in Seq(Whose) /\ Len(longer) = Len(window) + 1
      /\ \A j \in 1 .. Len(window) + 1 :
            longer[j] = IF j = Len(window) + 1 THEN "own" ELSE window[j]
  BY DEF Whose
<1>2. CASE Len(window) < Window
  <2>1. Pushed(window) = longer
    BY <1>1, <1>2 DEF Pushed
  <2>2. QED
    BY <1>1, <1>2, <2>1
<1>3. CASE Len(window) = Window
  <2>1. Pushed(window) = Tail(longer)
    BY <1>1, <1>3 DEF Pushed
  <2>2. /\ Tail(longer) \in Seq(Whose) /\ Len(Tail(longer)) = Window
        /\ \A j \in 1 .. Window : Tail(longer)[j] = longer[j + 1]
    BY <1>1, <1>3
  <2>3. QED
    BY <1>1, <1>3, <2>1, <2>2
<1>4. QED
  BY <1>2, <1>3

LEMMA ClearedIs ==
  ASSUME NEW window \in Seq(Whose)
  PROVE  LET cleared == [j \in DOMAIN window |-> "other"]
         IN  /\ cleared \in Seq(Whose) /\ Len(cleared) = Len(window)
             /\ cleared = <<>> <=> window = <<>>
<1> DEFINE n == Len(window)
           cleared == [j \in 1 .. n |-> "other"]
<1>1. n \in Nat /\ DOMAIN window = 1 .. n
  OBVIOUS
<1>2. cleared \in Seq(Whose) /\ Len(cleared) = n
  BY <1>1 DEF Whose
<1>3. (n = 0 <=> window = <<>>) /\ (Len(cleared) = 0 <=> cleared = <<>>)
  BY <1>2, EmptySeq
<1>4. QED
  BY <1>1, <1>2, <1>3

-----------------------------------------------------------------------------
LEMMA TypeStep ==
  ASSUME ProcTypeOK, [Next]_vars
  PROVE  ProcTypeOK'
<1> USE DEF ProcTypeOK, samples, kernel, history
<1>1. ASSUME NEW p \in Pids, Starts(p) \/ Works(p)
      PROVE  ProcTypeOK'
  <2>1. CASE Starts(p)
    BY <2>1 DEF Starts
  <2>2. CASE Works(p)
    <3>1. work[p] + 1 \in 0 .. MaxWork
      BY <2>2, ProcessesAssumption DEF Works
    <3>2. QED
      BY <2>2, <3>1 DEF Works
  <2>3. QED
    BY <1>1, <2>1, <2>2
<1>2. ASSUME NEW p \in Pids, Ends(p)
      PROVE  ProcTypeOK'
  <2>1. windows' \in [Pids -> Seq(Whose)] /\ \A q \in Pids : Len(windows'[q]) = Len(windows[q])
    <3> DEFINE cleared == [j \in DOMAIN windows[p] |-> "other"]
    <3>1. cleared \in Seq(Whose) /\ Len(cleared) = Len(windows[p])
      BY ClearedIs
    <3>2. windows' = [windows EXCEPT ![p] = cleared]
      BY <1>2 DEF Ends
    <3>3. QED
      BY <3>1, <3>2
  <2>2. QED
    BY <1>2, <2>1, ProcessesAssumption DEF Ends
<1>3. CASE Tick
  <2>1. PICK list \in SUBSET Up, unread \in SUBSET Up :
          /\ listed' = list
          /\ cpu' = [p \in Pids |-> IF p \in list THEN work[p]
                                    ELSE IF p \in Retained(list) THEN cpu[p] ELSE None]
          /\ disk' = [p \in Pids |-> IF p \in unread THEN 0
                                     ELSE IF p \in list THEN work[p]
                                     ELSE IF p \in Retained(list) THEN disk[p] ELSE None]
          /\ windows' = [p \in Pids |-> IF p \in list THEN Pushed(windows[p]) ELSE <<>>]
          /\ base' = [p \in Pids |-> IF p \in list THEN work[p] ELSE base[p]]
          /\ blind' = [p \in Pids |-> IF p \in list THEN p \in unread ELSE blind[p]]
          /\ kept' = [p \in Pids |-> IF p \notin list THEN 0
                                     ELSE IF kept[p] < Window THEN kept[p] + 1 ELSE Window]
    BY <1>3, Zenon DEF Tick
  <2>2. windows' \in [Pids -> Seq(Whose)] /\ \A p \in Pids : Len(windows'[p]) =< Window
    <3>1. \A p \in Pids : Pushed(windows[p]) \in Seq(Whose) /\ Len(Pushed(windows[p])) =< Window
      BY ProcessesAssumption, PushedIs
    <3>2. <<>> \in Seq(Whose) /\ Len(<<>>) = 0
      OBVIOUS
    <3>3. QED
      BY <2>1, <3>1, <3>2, ProcessesAssumption
  <2>3. listed' \subseteq Pids
    BY <2>1 DEF Up
  <2>4. cpu' \in [Pids -> 0 .. MaxWork \cup {None}] /\ disk' \in [Pids -> 0 .. MaxWork \cup {None}]
    BY <2>1, ProcessesAssumption
  <2>5. /\ base' \in [Pids -> 0 .. MaxWork] /\ blind' \in [Pids -> BOOLEAN]
        /\ kept' \in [Pids -> 0 .. Window]
    <3>1. base' \in [Pids -> 0 .. MaxWork]
      BY <2>1
    <3>2. blind' \in [Pids -> BOOLEAN]
      <4> DEFINE Blind(p) == IF p \in list THEN p \in unread ELSE blind[p]
      <4>1. blind' = [p \in Pids |-> Blind(p)]
        BY <2>1
      <4>2. \A p \in Pids : blind[p] \in BOOLEAN /\ (p \in unread) \in BOOLEAN
        OBVIOUS
      <4>3. \A p \in Pids : Blind(p) \in BOOLEAN
        BY <4>2, Zenon
      <4> HIDE DEF Blind
      <4>4. QED
        BY <4>1, <4>3
    <3>3. \A p \in Pids : kept[p] < Window => kept[p] + 1 \in 0 .. Window
      BY ProcessesAssumption
    <3>4. kept' \in [Pids -> 0 .. Window]
      BY <2>1, <3>3, ProcessesAssumption
    <3>5. QED
      BY <3>1, <3>2, <3>4
  <2>6. QED
    BY <1>3, <2>2, <2>3, <2>4, <2>5 DEF Tick
<1>4. CASE TickFails
  BY <1>4, ProcessesAssumption DEF TickFails
<1>5. CASE KeyKill \/ KeyNo \/ KeyYes \/ KeyYesFails \/ ForceKill
  BY <1>5 DEF KeyKill, KeyNo, KeyYes, KeyYesFails, ForceKill
<1>6. CASE UNCHANGED vars
  BY <1>6 DEF vars
<1>7. QED
  BY <1>1, <1>2, <1>3, <1>4, <1>5, <1>6 DEF Next

LEMMA SampledStep ==
  ASSUME ProcTypeOK, Sampled, [Next]_vars
  PROVE  Sampled'
<1> USE DEF Sampled, samples, kernel, history
<1>1. /\ work \in [Pids -> 0 .. MaxWork] /\ base \in [Pids -> 0 .. MaxWork]
      /\ cpu \in [Pids -> 0 .. MaxWork \cup {None}] /\ disk \in [Pids -> 0 .. MaxWork \cup {None}]
      /\ blind \in [Pids -> BOOLEAN] /\ MaxWork \in Nat /\ None \notin Int
  BY ProcessesAssumption DEF ProcTypeOK
<1>2. ASSUME NEW p \in Pids, Starts(p)
      PROVE  Sampled'
  BY <1>2 DEF Starts
<1>3. ASSUME NEW p \in Pids, Works(p)
      PROVE  Sampled'
  <2>1. \A q \in Pids : work[q] =< work'[q]
    BY <1>1, <1>3 DEF Works
  <2>2. work' \in [Pids -> Int] /\ UNCHANGED <<base, cpu, disk, blind>>
    BY <1>1, <1>3 DEF Works
  <2>3. QED
    BY <1>1, <2>1, <2>2
<1>4. ASSUME NEW p \in Pids, Ends(p)
      PROVE  Sampled'
  <2>1. /\ work' = [work EXCEPT ![p] = 0] /\ base' = [base EXCEPT ![p] = 0]
        /\ blind' = [blind EXCEPT ![p] = FALSE] /\ UNCHANGED <<cpu, disk>>
    BY <1>4 DEF Ends
  <2>2. \A q \in Pids \ {p} : work'[q] = work[q] /\ base'[q] = base[q] /\ blind'[q] = blind[q]
    BY <1>1, <2>1
  <2>3. work'[p] = 0 /\ base'[p] = 0
    BY <1>1, <2>1
  <2>4. QED
    BY <1>1, <2>1, <2>2, <2>3
<1>5. CASE Tick
  <2>1. PICK list \in SUBSET Up, unread \in SUBSET Up :
          /\ unread \subseteq list
          /\ cpu' = [p \in Pids |-> IF p \in list THEN work[p]
                                    ELSE IF p \in Retained(list) THEN cpu[p] ELSE None]
          /\ disk' = [p \in Pids |-> IF p \in unread THEN 0
                                     ELSE IF p \in list THEN work[p]
                                     ELSE IF p \in Retained(list) THEN disk[p] ELSE None]
          /\ base' = [p \in Pids |-> IF p \in list THEN work[p] ELSE base[p]]
          /\ blind' = [p \in Pids |-> IF p \in list THEN p \in unread ELSE blind[p]]
          /\ work' = work
    BY <1>5, Zenon DEF Tick
  <2>2. SUFFICES ASSUME NEW p \in Pids
                 PROVE  /\ base'[p] =< work'[p]
                        /\ cpu'[p] # None => base'[p] =< cpu'[p]
                        /\ disk'[p] # None /\ ~blind'[p] => base'[p] =< disk'[p]
    BY DEF Sampled
  <2>3. CASE p \in list
    <3>1. base'[p] = work[p] /\ cpu'[p] = work[p] /\ work'[p] = work[p]
      BY <2>1, <2>3
    <3>2. disk'[p] = work[p] \/ blind'[p]
      BY <2>1, <2>3, Zenon
    <3>3. QED
      BY <1>1, <3>1, <3>2
  <2>4. CASE p \notin list
    <3>1. base'[p] = base[p] /\ cpu'[p] = None /\ disk'[p] = None /\ work'[p] = work[p]
      BY <2>1, <2>4 DEF Retained
    <3>2. QED
      BY <3>1
  <2>5. QED
    BY <2>3, <2>4
<1>6. CASE TickFails \/ KeyKill \/ KeyNo \/ KeyYes \/ KeyYesFails \/ ForceKill \/ UNCHANGED vars
  BY <1>6 DEF TickFails, KeyKill, KeyNo, KeyYes, KeyYesFails, ForceKill, vars
<1>7. QED
  BY <1>2, <1>3, <1>4, <1>5, <1>6 DEF Next

LEMMA WindowedStep ==
  ASSUME ProcTypeOK, Windowed, [Next]_vars
  PROVE  Windowed'
<1> USE DEF Windowed, samples, kernel, history
<1>0. /\ windows \in [Pids -> Seq(Whose)] /\ kept \in [Pids -> 0 .. Window]
      /\ \A p \in Pids : Len(windows[p]) =< Window
  BY DEF ProcTypeOK
<1>1. ASSUME NEW p \in Pids, Starts(p) \/ Works(p)
      PROVE  Windowed'
  BY <1>1 DEF Starts, Works
<1>2. ASSUME NEW p \in Pids, Ends(p)
      PROVE  Windowed'
  <2> DEFINE cleared == [j \in DOMAIN windows[p] |-> "other"]
  <2>1. cleared \in Seq(Whose) /\ Len(cleared) = Len(windows[p])
    BY <1>0, ClearedIs
  <2>2. windows' = [windows EXCEPT ![p] = cleared] /\ kept' = [kept EXCEPT ![p] = 0]
    BY <1>2 DEF Ends
  <2>3. \A q \in Pids \ {p} : windows'[q] = windows[q] /\ kept'[q] = kept[q]
    BY <1>0, <2>2
  <2>4. Len(windows'[p]) \in Nat /\ kept'[p] = 0 /\ DOMAIN windows'[p] = 1 .. Len(windows'[p])
    BY <1>0, <2>1, <2>2
  <2>5. QED
    BY <2>3, <2>4
<1>3. CASE Tick
  <2>1. PICK list \in SUBSET Up :
          /\ windows' = [p \in Pids |-> IF p \in list THEN Pushed(windows[p]) ELSE <<>>]
          /\ kept' = [p \in Pids |-> IF p \notin list THEN 0
                                     ELSE IF kept[p] < Window THEN kept[p] + 1 ELSE Window]
    BY <1>3 DEF Tick
  <2>2. SUFFICES ASSUME NEW p \in Pids
                 PROVE  /\ kept'[p] =< Len(windows'[p])
                        /\ \A j \in DOMAIN windows'[p] :
                              j > Len(windows'[p]) - kept'[p] => windows'[p][j] = "own"
    BY DEF Windowed
  <2>3. CASE p \notin list
    <3>1. windows'[p] = <<>> /\ kept'[p] = 0
      BY <2>1, <2>3
    <3>2. QED
      BY <3>1
  <2>4. CASE p \in list
    <3> DEFINE w == windows[p]
               n == Len(w)
    <3>1. /\ w \in Seq(Whose) /\ n \in Nat /\ n =< Window /\ Window \in Nat \ {0}
          /\ kept[p] \in Nat /\ kept[p] =< n
          /\ \A j \in 1 .. n : j > n - kept[p] => w[j] = "own"
      BY <1>0, ProcessesAssumption
    <3>2. /\ windows'[p] = Pushed(w)
          /\ kept'[p] = IF kept[p] < Window THEN kept[p] + 1 ELSE Window
      BY <2>1, <2>4, Zenon
    <3>3. CASE n < Window
      <4>1. /\ Pushed(w) \in Seq(Whose) /\ Len(Pushed(w)) = n + 1
            /\ \A j \in 1 .. n + 1 : Pushed(w)[j] = IF j = n + 1 THEN "own" ELSE w[j]
        BY <3>1, <3>3, PushedIs
      <4>2. QED
        <5>1. kept'[p] = kept[p] + 1 /\ Len(windows'[p]) = n + 1
          BY <3>1, <3>2, <3>3, <4>1
        <5>2. \A j \in 1 .. n + 1 : j > n - kept[p] => Pushed(w)[j] = "own"
          BY <3>1, <4>1
        <5>3. QED
          BY <3>1, <3>2, <4>1, <5>1, <5>2
    <3>4. CASE n = Window
      <4>1. /\ Pushed(w) \in Seq(Whose) /\ Len(Pushed(w)) = n
            /\ \A j \in 1 .. n : Pushed(w)[j] = IF j = n THEN "own" ELSE w[j + 1]
        BY <3>1, <3>4, PushedIs
      <4>2. QED
        BY <3>1, <3>2, <3>4, <4>1
    <3>5. QED
      BY <3>1, <3>3, <3>4
  <2>5. QED
    BY <2>3, <2>4
<1>4. CASE TickFails
  <2>1. \A p \in Pids : windows'[p] = <<>> /\ kept'[p] = 0
    BY <1>4 DEF TickFails
  <2>2. QED
    BY <2>1
<1>5. CASE KeyKill \/ KeyNo \/ KeyYes \/ KeyYesFails \/ ForceKill \/ UNCHANGED vars
  BY <1>5 DEF KeyKill, KeyNo, KeyYes, KeyYesFails, ForceKill, vars
<1>6. QED
  BY <1>1, <1>2, <1>3, <1>4, <1>5 DEF Next

LEMMA ListedStep ==
  ASSUME ProcTypeOK, SamplesAreListed, [Next]_vars
  PROVE  SamplesAreListed'
<1> USE DEF SamplesAreListed, samples, kernel, history
<1>0. /\ windows \in [Pids -> Seq(Whose)] /\ cpu \in [Pids -> 0 .. MaxWork \cup {None}]
      /\ disk \in [Pids -> 0 .. MaxWork \cup {None}] /\ work \in [Pids -> 0 .. MaxWork]
      /\ \A p \in Pids : Len(windows[p]) =< Window
  BY DEF ProcTypeOK
<1>1. ASSUME NEW p \in Pids, Starts(p) \/ Works(p)
      PROVE  SamplesAreListed'
  BY <1>1 DEF Starts, Works
<1>2. ASSUME NEW p \in Pids, Ends(p)
      PROVE  SamplesAreListed'
  <2> DEFINE cleared == [j \in DOMAIN windows[p] |-> "other"]
  <2>1. cleared = <<>> <=> windows[p] = <<>>
    BY <1>0, ClearedIs
  <2>2. windows' = [windows EXCEPT ![p] = cleared] /\ UNCHANGED <<listed, cpu, disk>>
    BY <1>2 DEF Ends
  <2>3. \A q \in Pids : windows'[q] = <<>> <=> windows[q] = <<>>
    BY <1>0, <2>1, <2>2
  <2>4. QED
    BY <2>2, <2>3
<1>3. CASE Tick
  <2>1. \A p \in Pids : Pushed(windows[p]) # <<>>
    BY <1>0, ProcessesAssumption, PushedIs
  <2>2. \A p \in Pids : work[p] # None
    BY <1>0, ProcessesAssumption
  <2>3. PICK list \in SUBSET Up : \E unread \in SUBSET list :
          /\ listed' = list
          /\ cpu' = [p \in Pids |-> IF p \in list THEN work[p]
                                    ELSE IF p \in Retained(list) THEN cpu[p] ELSE None]
          /\ disk' = [p \in Pids |-> IF p \in unread THEN 0
                                     ELSE IF p \in list THEN work[p]
                                     ELSE IF p \in Retained(list) THEN disk[p] ELSE None]
          /\ windows' = [p \in Pids |-> IF p \in list THEN Pushed(windows[p]) ELSE <<>>]
    BY <1>3, Zenon DEF Tick
  <2>4. \A p \in Pids : windows'[p] # <<>> <=> p \in listed'
    BY <2>1, <2>3
  <2>5. \A p \in Pids : (cpu'[p] # None <=> p \in listed') /\ (disk'[p] # None <=> p \in listed')
    BY <2>2, <2>3, ProcessesAssumption DEF Retained
  <2>6. QED
    BY <2>4, <2>5
<1>4. CASE TickFails \/ KeyKill \/ KeyNo \/ KeyYes \/ KeyYesFails \/ ForceKill \/ UNCHANGED vars
  BY <1>4 DEF TickFails, KeyKill, KeyNo, KeyYes, KeyYesFails, ForceKill, vars
<1>5. QED
  BY <1>1, <1>2, <1>3, <1>4 DEF Next

LEMMA ProcInvariance == Spec => []ProcInv
<1>1. Init => ProcInv
  <2>1. SUFFICES ASSUME Init
                 PROVE  ProcInv
    OBVIOUS
  <2>2. ProcTypeOK
    BY <2>1, ProcessesAssumption DEF Init, ProcTypeOK
  <2>3. Sampled /\ Windowed /\ SamplesAreListed
    BY <2>1 DEF Init, Sampled, Windowed, SamplesAreListed
  <2>4. QED
    BY <2>2, <2>3 DEF ProcInv
<1>2. ProcInv /\ [Next]_vars => ProcInv'
  BY TypeStep, SampledStep, WindowedStep, ListedStep DEF ProcInv
<1>3. QED
  BY <1>1, <1>2, PTL DEF Spec

-----------------------------------------------------------------------------
\* app.rs 198-226, proc.rs 243-345: samples are counters or missing, and no
\* window holds more than Window of them.
THEOREM ProcTypeCorrect == Spec => []ProcTypeOK
<1>1. ProcInv => ProcTypeOK
  BY DEF ProcInv
<1>2. QED
  BY <1>1, ProcInvariance, PTL

\* proc.rs 271-338: no rate shown of a process counts what its predecessor
\* with the same pid did, although the samples are kept by pid.
THEOREM RatesOwn == Spec => []RatesAreOwn
<1>1. ProcInv => RatesAreOwn
  <2>1. SUFFICES ASSUME ProcInv, NEW p \in Up
                 PROVE  /\ CpuShown(p) =< work[p] - base[p]
                        /\ DiskShown(p) =< IF blind[p] THEN work[p] ELSE work[p] - base[p]
    BY DEF RatesAreOwn
  <2>2. /\ work[p] \in Nat /\ base[p] \in Nat /\ base[p] =< work[p]
        /\ cpu[p] \in Nat \cup {None} /\ (cpu[p] # None => base[p] =< cpu[p])
        /\ disk[p] \in Nat \cup {None} /\ (disk[p] # None /\ ~blind[p] => base[p] =< disk[p])
    BY <2>1, ProcessesAssumption DEF ProcInv, ProcTypeOK, Sampled, Up
  <2>3. CpuShown(p) =< work[p] - base[p]
    BY <2>2, ProcessesAssumption DEF CpuShown, Delta
  <2>4. DiskShown(p) =< IF blind[p] THEN work[p] ELSE work[p] - base[p]
    <3>1. CASE blind[p]
      BY <2>2, <3>1, ProcessesAssumption DEF DiskShown, Delta
    <3>2. CASE ~blind[p]
      BY <2>2, <3>2, ProcessesAssumption DEF DiskShown, Delta
    <3>3. QED
      BY <3>1, <3>2
  <2>5. QED
    BY <2>3, <2>4
<1>2. QED
  BY <1>1, ProcInvariance, PTL

\* app.rs 198-226: after Window listings in a row the growth shown of a process
\* is its own.
THEOREM GrowthOwn == Spec => []GrowthIsOwn
<1>1. ProcInv => GrowthIsOwn
  BY ProcessesAssumption DEF ProcInv, ProcTypeOK, Windowed, GrowthIsOwn, Up
<1>2. QED
  BY <1>1, ProcInvariance, PTL

\* proc.rs 112-113, app.rs 216: what is kept is kept of pids on the list.
THEOREM SamplesListed == Spec => []SamplesAreListed
<1>1. ProcInv => SamplesAreListed
  BY DEF ProcInv
<1>2. QED
  BY <1>1, ProcInvariance, PTL
=============================================================================
