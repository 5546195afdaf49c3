-------------------------- MODULE SharedStateProofs --------------------------
(***************************************************************************)
(* The shared state files, for any number of instances and children: types, *)
(* that nobody shows children of an instance that is long gone, and that    *)
(* an index never names another child than the one shown.                  *)
(***************************************************************************)
EXTENDS SharedState, TLAPS

Scans == [open : BOOLEAN, todo : SUBSET Inst, doomed : Inst \cup {None}, found : Seq(Row)]

\* What a file says was true when its instance was alive.
Dated ==
    \A i \in Inst :
        /\ role[i] # "off" => dead[i] = 0
        /\ file[i] \in Ages => dead[i] =< file[i]
        /\ tmp[i] \in Ages => dead[i] =< tmp[i]

\* Only a TUI scans and has rows, and only one with children gets StateUpdate.
Owned ==
    \A i \in Inst :
        /\ ~Reads(i) => ~scan[i].open /\ scan[i].doomed = None
        /\ update[i] => role[i] = "tui"
        /\ role[i] = "tui" => Len(rows[i]) >= Kids

\* The rows a scan has found go on where the rows that are kept end.
FoundFits(i) ==
    scan[i].open =>
        /\ scan[i].todo \subseteq Names(i)
        /\ \A j \in 1 .. Len(scan[i].found) :
              /\ scan[i].found[j].index = Len(Kept(i)) + j - 1
              /\ role[i] = "tui" => scan[i].found[j].of # i

RowFits(i) ==
    \A j \in 1 .. Len(rows[i]) :
        /\ rows[i][j].index = j - 1
        /\ role[i] = "tui" => /\ rows[i][j].of = i <=> rows[i][j].index < Kids
                              /\ rows[i][j].of = i => rows[i][j].child = rows[i][j].index

Indexed == \A i \in Inst : FoundFits(i) /\ RowFits(i)

SharedInv == SharedTypeOK /\ Dated /\ Owned /\ Indexed

-----------------------------------------------------------------------------
LEMMA BlockIs ==
  ASSUME NEW i \in Inst, NEW offset \in Nat
  PROVE  /\ Block(i, offset) \in Seq(Row) /\ Len(Block(i, offset)) = Kids
         /\ \A k \in 1 .. Kids :
              /\ Block(i, offset)[k] \in Row
              /\ Block(i, offset)[k].of = i
              /\ Block(i, offset)[k].child = k - 1
              /\ Block(i, offset)[k].index = offset + k - 1
<1>1. Kids \in Nat \ {0}
  BY SharedAssumption
<1>2. \A k \in 1 .. Kids : [of |-> i, child |-> k - 1, index |-> offset + k - 1] \in Row
  BY <1>1 DEF Row
<1>3. Block(i, offset) \in [1 .. Kids -> Row]
  BY <1>1, <1>2 DEF Block
<1>4. Block(i, offset) \in Seq(Row) /\ Len(Block(i, offset)) = Kids
  BY <1>1, <1>3
<1>5. QED
  BY <1>1, <1>2, <1>4 DEF Block

\* What is appended to a sequence comes after all it had.
LEMMA ConcatIs ==
  ASSUME NEW s \in Seq(Row), NEW t \in Seq(Row)
  PROVE  /\ s \o t \in Seq(Row) /\ Len(s \o t) = Len(s) + Len(t)
         /\ \A j \in 1 .. Len(s \o t) :
              \/ j \in 1 .. Len(s) /\ (s \o t)[j] = s[j]
              \/ j - Len(s) \in 1 .. Len(t) /\ (s \o t)[j] = t[j - Len(s)]
  OBVIOUS

LEMMA OlderIs ==
  ASSUME NEW age \in Ages
  PROVE  /\ Older(age) \in Ages
         /\ \A b \in Ages : age =< b => Older(age) =< Older(b)
BY SharedAssumption DEF Older, Ages

LEMMA OlderElse ==
  /\ Older(Empty) = Empty /\ Older(None) = None
  /\ Empty \notin Ages /\ None \notin Ages /\ None # Empty
BY SharedAssumption DEF Older, Empty, Ages

-----------------------------------------------------------------------------
(* The actions by what they can disturb *)

\* Everything but the pass over the directory and Starts.
Elsewhere(i) ==
    \/ Dies(i) \/ HeadlessLeaves(i) \/ MonitorEnds(i)
    \/ Create(i) \/ CreateFails(i) \/ Write(i)

StartsAs(i) == \E r \in {"headless", "tui", "viewer"} : Starts(i, r)

Pass(i) == TickScan(i) \/ Renew(i) \/ Visit(i) \/ RemoveStale(i) \/ Close(i)

LEMMA NextIs ==
  ASSUME [Next]_vars
  PROVE  \/ Tick
         \/ \E i \in Inst : StartsAs(i) \/ Elsewhere(i) \/ Pass(i)
         \/ UNCHANGED vars
BY DEF Next, StartsAs, Elsewhere, Pass, MonitorStep, ReaderStep

LEMMA IdleIs == Idle \in Scans /\ Idle.open = FALSE /\ Idle.doomed = None /\ Idle.found = <<>>
<1>1. <<>> \in Seq(Row)
  OBVIOUS
<1>2. QED
  BY <1>1 DEF Idle, Scans

LEMMA VisitIs ==
  ASSUME SharedTypeOK, NEW i \in Inst, Visit(i)
  PROVE  \E s \in scan[i].todo :
            /\ s \in Inst /\ Offset(i) \in Nat
            /\ scan' = [scan EXCEPT ![i] = scan'[i]] /\ scan'[i] \in Scans
            /\ scan'[i].open = TRUE /\ scan'[i].todo = scan[i].todo \ {s}
            /\ scan'[i].doomed \in {s, None}
            /\ \/ Fresh(file[s]) /\ scan'[i].found = scan[i].found \o Block(s, Offset(i))
               \/ scan'[i].found = scan[i].found
<1>1. scan \in [Inst -> Scans] /\ scan[i] \in Scans
  BY DEF SharedTypeOK, Scans
<1>2. Offset(i) \in Nat
  BY <1>1 DEF Offset, Kept, SharedTypeOK, Scans
<1>3. PICK s \in scan[i].todo :
        scan' = [scan EXCEPT
              ![i].todo = @ \ {s},
              ![i].doomed = IF Doomed(file[s]) THEN s ELSE None,
              ![i].found = IF Fresh(file[s]) THEN @ \o Block(s, Offset(i)) ELSE @]
  BY DEF Visit
<1>4. s \in Inst
  BY <1>1 DEF Scans
<1>5. scan[i].found \o Block(s, Offset(i)) \in Seq(Row)
  BY <1>1, <1>2, <1>4, BlockIs, ConcatIs DEF Scans
<1>6. scan'[i] = [scan[i] EXCEPT !.todo = @ \ {s},
                                !.doomed = IF Doomed(file[s]) THEN s ELSE None,
                                !.found = IF Fresh(file[s]) THEN @ \o Block(s, Offset(i)) ELSE @]
  BY <1>1, <1>3
<1>7. /\ scan'[i] \in Scans /\ scan'[i].open = scan[i].open
      /\ scan'[i].todo = scan[i].todo \ {s}
      /\ scan'[i].doomed = IF Doomed(file[s]) THEN s ELSE None
      /\ scan'[i].found = IF Fresh(file[s]) THEN scan[i].found \o Block(s, Offset(i))
                          ELSE scan[i].found
  BY <1>1, <1>4, <1>5, <1>6 DEF Scans
<1>8. scan' = [scan EXCEPT ![i] = scan'[i]] /\ scan[i].open = TRUE
  BY <1>1, <1>3 DEF Visit
<1>9. QED
  BY <1>2, <1>4, <1>7, <1>8

LEMMA OpenIs ==
  ASSUME SharedTypeOK, NEW i \in Inst, Open(i)
  PROVE  /\ scan' = [scan EXCEPT ![i] = scan'[i]] /\ scan'[i] \in Scans
         /\ scan'[i].open = TRUE /\ scan'[i].todo = Names(i)
         /\ scan'[i].doomed = None /\ scan'[i].found = <<>>
<1>1. scan \in [Inst -> Scans] /\ Names(i) \subseteq Inst
  BY DEF SharedTypeOK, Scans, Names
<1>2. scan'[i] = [open |-> TRUE, todo |-> Names(i), doomed |-> None, found |-> <<>>]
  BY <1>1 DEF Open, Idle
<1>3. <<>> \in Seq(Row)
  OBVIOUS
<1>4. QED
  BY <1>1, <1>2, <1>3 DEF Open, Scans

\* What a scan leaves of the rows.
LEMMA KeptIs ==
  ASSUME SharedTypeOK, NEW i \in Inst
  PROVE  Kept(i) \in Seq(Row) /\ rows[i] \in Seq(Row) /\ scan[i].found \in Seq(Row)
BY DEF SharedTypeOK, Kept

-----------------------------------------------------------------------------
LEMMA TypeStep ==
  ASSUME SharedTypeOK, [Next]_vars
  PROVE  SharedTypeOK'
<1>1. /\ 0 \in Ages /\ scan \in [Inst -> Scans] /\ rows \in [Inst -> Seq(Row)]
      /\ None \in Inst \cup {None} /\ <<>> \in Seq(Row)
  BY SharedAssumption DEF SharedTypeOK, Ages, Scans
<1>2. SharedTypeOK' <=>
        /\ role' \in [Inst -> Roles]
        /\ monitor' \in [Inst -> {"idle", "write", "ended"}]
        /\ tmp' \in [Inst -> Ages \cup {Empty}]
        /\ file' \in [Inst -> Ages \cup {Empty, None}]
        /\ update' \in [Inst -> BOOLEAN]
        /\ scan' \in [Inst -> Scans]
        /\ rows' \in [Inst -> Seq(Row)]
        /\ dead' \in [Inst -> Ages]
  BY DEF SharedTypeOK, Scans
<1>3. CASE Tick
  <2>1. \A age \in Ages \cup {Empty, None} :
            /\ Older(age) \in Ages \cup {Empty, None}
            /\ age # None => Older(age) \in Ages \cup {Empty}
            /\ age \in Ages => Older(age) \in Ages
    BY OlderIs, OlderElse
  <2>2. QED
    BY <1>1, <1>2, <1>3, <2>1 DEF Tick, SharedTypeOK
<1>4. ASSUME NEW i \in Inst, StartsAs(i)
      PROVE  SharedTypeOK'
  <2>1. Block(i, 0) \in Seq(Row)
    BY BlockIs
  <2>2. QED
    BY <1>1, <1>2, <1>4, <2>1 DEF StartsAs, Starts, SharedTypeOK, Roles
<1>5. ASSUME NEW i \in Inst, Elsewhere(i)
      PROVE  SharedTypeOK'
  <2>1. CASE Dies(i)
    BY <1>1, <1>2, <2>1, IdleIs DEF Dies, SharedTypeOK, Roles
  <2>2. CASE HeadlessLeaves(i) \/ MonitorEnds(i)
    BY <1>1, <1>2, <2>2 DEF HeadlessLeaves, MonitorEnds, SharedTypeOK, Roles
  <2>3. CASE Create(i)
    BY <1>1, <1>2, <2>3 DEF Create, SharedTypeOK
  <2>u. ASSUME update' = [update EXCEPT ![i] = role[i] = "tui"]
        PROVE  update' \in [Inst -> BOOLEAN]
    <3>1. (role[i] = "tui") \in BOOLEAN
      OBVIOUS
    <3>2. QED
      BY <2>u, <3>1 DEF SharedTypeOK
  <2>4. CASE CreateFails(i)
    BY <1>1, <1>2, <2>u, <2>4 DEF CreateFails, SharedTypeOK
  <2>5. CASE Write(i)
    <3>1. PICK written \in {tmp[i], Empty} : file' = [file EXCEPT ![i] = written]
      BY <2>5 DEF Write, Renamed
    <3>2. file' \in [Inst -> Ages \cup {Empty, None}]
      BY <3>1 DEF SharedTypeOK
    <3>3. tmp' \in [Inst -> Ages \cup {Empty}]
          /\ monitor' \in [Inst -> {"idle", "write", "ended"}]
      BY <2>5 DEF Write, SharedTypeOK
    <3>4. update' \in [Inst -> BOOLEAN]
      BY <2>5, <2>u DEF Write
    <3>5. UNCHANGED <<role, scan, rows, dead>>
      BY <2>5 DEF Write
    <3>6. QED
      BY <1>1, <1>2, <3>2, <3>3, <3>4, <3>5 DEF SharedTypeOK
  <2>6. QED
    BY <1>5, <2>1, <2>2, <2>3, <2>4, <2>5 DEF Elsewhere
<1>6. ASSUME NEW i \in Inst, Pass(i)
      PROVE  SharedTypeOK'
  <2>1. CASE TickScan(i)
    <3>1. scan' = [scan EXCEPT ![i] = scan'[i]] /\ scan'[i] \in Scans
      BY <2>1, OpenIs DEF TickScan
    <3>2. scan' \in [Inst -> Scans]
      BY <1>1, <3>1
    <3>3. QED
      BY <1>1, <1>2, <2>1, <3>2 DEF TickScan, SharedTypeOK
  <2>2. CASE Renew(i)
    <3>1. scan' = [scan EXCEPT ![i] = scan'[i]] /\ scan'[i] \in Scans
      BY <2>2, OpenIs DEF Renew
    <3>2. scan' \in [Inst -> Scans]
      BY <1>1, <3>1
    <3>3. Block(i, 0) \in Seq(Row)
      BY BlockIs
    <3>4. QED
      BY <1>1, <1>2, <2>2, <3>2, <3>3 DEF Renew, SharedTypeOK
  <2>3. CASE Visit(i)
    <3>1. scan' = [scan EXCEPT ![i] = scan'[i]] /\ scan'[i] \in Scans
      BY <2>3, VisitIs
    <3>2. scan' \in [Inst -> Scans]
      BY <1>1, <3>1
    <3>3. QED
      BY <1>1, <1>2, <2>3, <3>2 DEF Visit, SharedTypeOK
  <2>4. CASE RemoveStale(i)
    <3>1. scan' = [scan EXCEPT ![i] = [scan[i] EXCEPT !.doomed = None]]
      BY <1>1, <2>4 DEF RemoveStale
    <3>2. scan[i] \in Scans
      BY <1>1
    <3>3. [scan[i] EXCEPT !.doomed = None] \in Scans
      BY <3>2 DEF Scans
    <3>4. scan' \in [Inst -> Scans]
      BY <1>1, <3>1, <3>3
    <3>5. file' \in [Inst -> Ages \cup {Empty, None}]
      BY <2>4 DEF RemoveStale, SharedTypeOK
    <3>6. QED
      BY <1>1, <1>2, <2>4, <3>4, <3>5 DEF RemoveStale, SharedTypeOK
  <2>5. CASE Close(i)
    <3>1. Kept(i) \o scan[i].found \in Seq(Row)
      BY KeptIs, ConcatIs
    <3>2. QED
      BY <1>1, <1>2, <2>5, <3>1, IdleIs DEF Close, SharedTypeOK
  <2>6. QED
    BY <1>6, <2>1, <2>2, <2>3, <2>4, <2>5 DEF Pass
<1>7. CASE UNCHANGED vars
  BY <1>7 DEF vars, SharedTypeOK
<1>8. QED
  BY <1>3, <1>4, <1>5, <1>6, <1>7, NextIs

-----------------------------------------------------------------------------
LEMMA DatedStep ==
  ASSUME SharedTypeOK, Dated, [Next]_vars
  PROVE  Dated'
<1> USE DEF Dated
<1>1. /\ 0 \in Ages /\ Ages \subseteq Nat /\ Empty \notin Ages /\ None \notin Ages
  BY SharedAssumption, OlderElse DEF Ages
<1>2. /\ role \in [Inst -> Roles] /\ tmp \in [Inst -> Ages \cup {Empty}]
      /\ file \in [Inst -> Ages \cup {Empty, None}] /\ dead \in [Inst -> Ages]
  BY DEF SharedTypeOK
<1>3. CASE Tick
  <2>1. ASSUME NEW i \in Inst, NEW age \in Ages \cup {Empty, None},
               age \in Ages => dead[i] =< age, Older(age) \in Ages
        PROVE  dead'[i] =< Older(age)
    <3>1. age \in Ages
      BY <2>1, OlderElse
    <3>2. dead'[i] = Older(dead[i]) \/ dead'[i] = 0
      BY <1>3 DEF Tick
    <3>3. Older(dead[i]) =< Older(age) /\ Older(age) \in Nat
      BY <1>1, <1>2, <2>1, <3>1, OlderIs
    <3>4. QED
      BY <3>2, <3>3
  <2>2. /\ tmp' = [i \in Inst |-> Older(tmp[i])] /\ file' = [i \in Inst |-> Older(file[i])]
        /\ role' = role /\ \A i \in Inst : role[i] # "off" => dead'[i] = 0
    BY <1>3 DEF Tick
  <2>3. QED
    BY <1>2, <2>1, <2>2
<1>4. ASSUME NEW i \in Inst, StartsAs(i)
      PROVE  Dated'
  <2>1. /\ dead' = [dead EXCEPT ![i] = 0] /\ UNCHANGED <<tmp, file>>
        /\ \A j \in Inst : j # i => role'[j] = role[j]
    BY <1>2, <1>4 DEF StartsAs, Starts
  <2>2. /\ dead'[i] = 0
        /\ file'[i] \in Ages => dead'[i] =< file'[i]
        /\ tmp'[i] \in Ages => dead'[i] =< tmp'[i]
    <3>1. dead'[i] = 0
      BY <1>2, <2>1
    <3>2. \A age \in Ages : 0 =< age
      BY SharedAssumption DEF Ages
    <3>3. QED
      BY <3>1, <3>2
  <2>3. \A j \in Inst : j # i => dead'[j] = dead[j]
    BY <1>2, <2>1
  <2>4. QED
    BY <2>1, <2>2, <2>3
<1>5. ASSUME NEW i \in Inst, Elsewhere(i)
      PROVE  Dated'
  <2>1. CASE Dies(i)
    BY <1>1, <1>2, <2>1 DEF Dies
  <2>2. CASE HeadlessLeaves(i) \/ MonitorEnds(i)
    BY <1>1, <1>2, <2>2 DEF HeadlessLeaves, MonitorEnds
  <2>3. CASE Create(i)
    BY <1>1, <1>2, <2>3 DEF Create, Supervises
  <2>4. CASE CreateFails(i)
    BY <2>4 DEF CreateFails
  <2>5. CASE Write(i)
    BY <1>1, <1>2, <2>5 DEF Write, Renamed
  <2>6. QED
    BY <1>5, <2>1, <2>2, <2>3, <2>4, <2>5 DEF Elsewhere
<1>6. ASSUME NEW i \in Inst, Pass(i)
      PROVE  Dated'
  <2>1. UNCHANGED <<role, tmp, dead>>
    BY <1>6 DEF Pass, TickScan, Renew, Visit, RemoveStale, Close
  <2>2. \A j \in Inst : file'[j] \in {file[j], None}
    BY <1>2, <1>6 DEF Pass, TickScan, Renew, Visit, RemoveStale, Close
  <2>3. QED
    BY <1>1, <2>1, <2>2
<1>7. CASE UNCHANGED vars
  BY <1>7 DEF vars
<1>8. QED
  BY <1>3, <1>4, <1>5, <1>6, <1>7, NextIs

LEMMA OwnedStep ==
  ASSUME SharedTypeOK, Owned, [Next]_vars
  PROVE  Owned'
<1> USE DEF Owned, Reads
<1>1. /\ role \in [Inst -> Roles] /\ scan \in [Inst -> Scans] /\ rows \in [Inst -> Seq(Row)]
      /\ update \in [Inst -> BOOLEAN] /\ Kids \in Nat \ {0}
  BY SharedAssumption DEF SharedTypeOK, Scans
<1>2. CASE Tick \/ UNCHANGED vars
  BY <1>2 DEF Tick, vars
<1>3. ASSUME NEW i \in Inst, StartsAs(i)
      PROVE  Owned'
  <2>1. Len(Block(i, 0)) = Kids
    BY BlockIs
  <2>2. QED
    BY <1>1, <1>3, <2>1 DEF StartsAs, Starts
<1>4. ASSUME NEW i \in Inst, Elsewhere(i)
      PROVE  Owned'
  <2>1. CASE Dies(i)
    BY <1>1, <2>1, IdleIs DEF Dies
  <2>2. CASE HeadlessLeaves(i) \/ MonitorEnds(i)
    BY <1>1, <2>2 DEF HeadlessLeaves, MonitorEnds
  <2>3. CASE Create(i)
    BY <2>3 DEF Create
  <2>4. CASE CreateFails(i) \/ Write(i)
    BY <1>1, <2>4 DEF CreateFails, Write
  <2>5. QED
    BY <1>4, <2>1, <2>2, <2>3, <2>4 DEF Elsewhere
<1>5. ASSUME NEW i \in Inst, Pass(i)
      PROVE  Owned'
  <2>1. CASE TickScan(i)
    <3>1. /\ scan' = [scan EXCEPT ![i] = scan'[i]] /\ Reads(i)
          /\ UNCHANGED <<role, update, rows>>
      BY <2>1, OpenIs DEF TickScan
    <3>2. \A j \in Inst : j # i => scan'[j] = scan[j]
      BY <1>1, <3>1
    <3>3. QED
      BY <3>1, <3>2
  <2>2. CASE Renew(i)
    <3>1. /\ scan' = [scan EXCEPT ![i] = scan'[i]] /\ role[i] = "tui"
          /\ UNCHANGED role
      BY <2>2, OpenIs DEF Renew
    <3>2. /\ rows' = [rows EXCEPT ![i] = Block(i, 0)] /\ Len(Block(i, 0)) = Kids
          /\ update' = [update EXCEPT ![i] = FALSE]
      BY <2>2, BlockIs DEF Renew
    <3>3. \A j \in Inst : j # i => scan'[j] = scan[j] /\ rows'[j] = rows[j] /\ update'[j] = update[j]
      BY <1>1, <3>1, <3>2
    <3>4. Len(rows'[i]) >= Kids
      BY <1>1, <3>2
    <3>5. update'[i] = FALSE
      BY <1>1, <3>2
    <3>6. QED
      BY <3>1, <3>3, <3>4, <3>5
  <2>3. CASE Visit(i)
    <3>1. scan' = [scan EXCEPT ![i] = scan'[i]] /\ scan[i].open = TRUE
      BY <1>1, <2>3, VisitIs DEF Visit, Scans
    <3>2. QED
      BY <1>1, <2>3, <3>1 DEF Visit
  <2>4. CASE RemoveStale(i)
    BY <1>1, <2>4 DEF RemoveStale, Scans
  <2>5. CASE Close(i)
    <3>1. Kept(i) \o scan[i].found \in Seq(Row)
          /\ Len(Kept(i) \o scan[i].found) >= Len(Kept(i))
      BY KeptIs, ConcatIs
    <3>2. role[i] = "tui" => Kept(i) = rows[i]
      BY DEF Kept
    <3>3. Len(rows[i]) \in Nat /\ Len(Kept(i)) \in Nat /\ Len(Kept(i) \o scan[i].found) \in Nat
      BY <3>1, KeptIs
    <3>4. QED
      BY <1>1, <2>5, <3>1, <3>2, <3>3, IdleIs DEF Close
  <2>6. QED
    BY <1>5, <2>1, <2>2, <2>3, <2>4, <2>5 DEF Pass
<1>6. QED
  BY <1>2, <1>3, <1>4, <1>5, NextIs

-----------------------------------------------------------------------------
\* An instance whose rows and scan a step leaves alone fits as before.
LEMMA FitsKept ==
  ASSUME NEW i \in Inst, scan'[i] = scan[i], rows'[i] = rows[i], FoundFits(i), RowFits(i),
         (role'[i] = "tui") <=> (role[i] = "tui")
  PROVE  FoundFits(i)' /\ RowFits(i)'
BY DEF FoundFits, RowFits, Names, Kept

LEMMA FreshRowsFit ==
  ASSUME NEW i \in Inst, rows'[i] = Block(i, 0) \/ rows'[i] = <<>>
  PROVE  RowFits(i)'
<1>1. Kids \in Nat
  BY SharedAssumption
<1>2. CASE rows'[i] = Block(i, 0)
  <2>1. 0 \in Nat
    OBVIOUS
  <2>2. /\ Len(Block(i, 0)) = Kids
        /\ \A k \in 1 .. Kids : /\ Block(i, 0)[k].of = i
                                /\ Block(i, 0)[k].child = k - 1
                                /\ Block(i, 0)[k].index = 0 + k - 1
    BY <2>1, BlockIs
  <2>3. \A k \in 1 .. Kids : 0 + k - 1 = k - 1 /\ k - 1 < Kids
    BY <1>1
  <2>4. QED
    BY <1>2, <2>2, <2>3 DEF RowFits
<1>3. CASE rows'[i] = <<>>
  BY <1>3 DEF RowFits
<1>4. QED
  BY <1>2, <1>3

LEMMA VisitFits ==
  ASSUME SharedInv, NEW i \in Inst, Visit(i)
  PROVE  FoundFits(i)' /\ RowFits(i)'
<1>1. PICK s \in scan[i].todo :
            /\ s \in Inst /\ Offset(i) \in Nat
            /\ scan'[i].open = TRUE /\ scan'[i].todo = scan[i].todo \ {s}
            /\ \/ scan'[i].found = scan[i].found \o Block(s, Offset(i))
               \/ scan'[i].found = scan[i].found
  BY VisitIs DEF SharedInv
<1>2. scan[i].open = TRUE /\ UNCHANGED <<role, rows>>
  BY DEF Visit, SharedInv, SharedTypeOK
<1>3. /\ Kept(i)' = Kept(i) /\ Names(i)' = Names(i)
      /\ Kept(i) \in Seq(Row) /\ scan[i].found \in Seq(Row)
      /\ Offset(i) = Len(Kept(i)) + Len(scan[i].found)
  BY <1>2, KeptIs DEF Kept, Names, Offset, SharedInv
<1>4. FoundFits(i) /\ RowFits(i)
  BY DEF SharedInv, Indexed
<1>5. /\ Block(s, Offset(i)) \in Seq(Row) /\ Len(Block(s, Offset(i))) = Kids
      /\ \A k \in 1 .. Kids : /\ Block(s, Offset(i))[k].of = s
                              /\ Block(s, Offset(i))[k].index = Offset(i) + k - 1
  <2>1. s \in Inst /\ Offset(i) \in Nat
    BY <1>1
  <2>2. QED
    BY <2>1, BlockIs
<1>6. s \in Names(i) /\ (role[i] = "tui" => s # i)
  BY <1>1, <1>2, <1>4 DEF FoundFits, Names
<1>7. CASE scan'[i].found = scan[i].found \o Block(s, Offset(i))
  <2>1. ASSUME NEW j \in 1 .. Len(scan'[i].found)
        PROVE  /\ scan'[i].found[j].index = Len(Kept(i)) + j - 1
               /\ role[i] = "tui" => scan'[i].found[j].of # i
    <3>1. CASE j \in 1 .. Len(scan[i].found) /\ scan'[i].found[j] = scan[i].found[j]
      BY <1>2, <1>4, <3>1 DEF FoundFits
    <3>2. CASE /\ j - Len(scan[i].found) \in 1 .. Kids
               /\ scan'[i].found[j] = Block(s, Offset(i))[j - Len(scan[i].found)]
      <4>1. Len(scan[i].found) \in Nat /\ Len(Kept(i)) \in Nat
        BY <1>3
      <4>2. QED
        BY <1>3, <1>5, <1>6, <3>2, <4>1
    <3>3. \/ j \in 1 .. Len(scan[i].found) /\ scan'[i].found[j] = scan[i].found[j]
          \/ /\ j - Len(scan[i].found) \in 1 .. Len(Block(s, Offset(i)))
             /\ scan'[i].found[j] = Block(s, Offset(i))[j - Len(scan[i].found)]
      <4>1. scan[i].found \in Seq(Row) /\ Block(s, Offset(i)) \in Seq(Row)
        BY <1>3, <1>5
      <4>2. j \in 1 .. Len(scan[i].found \o Block(s, Offset(i)))
        BY <1>7, <2>1
      <4>3. QED
        BY <1>7, <4>1, <4>2, ConcatIs
    <3>4. QED
      BY <1>5, <3>1, <3>2, <3>3
  <2>2. QED
    BY <1>1, <1>2, <1>3, <1>4, <2>1 DEF FoundFits, RowFits
<1>8. CASE scan'[i].found = scan[i].found
  BY <1>1, <1>2, <1>3, <1>4, <1>8 DEF FoundFits, RowFits
<1>9. QED
  BY <1>1, <1>7, <1>8

\* The rows found get the indices behind those of the rows kept.
LEMMA CloseFits ==
  ASSUME SharedInv, NEW i \in Inst, Close(i)
  PROVE  FoundFits(i)' /\ RowFits(i)'
<1>1. scan \in [Inst -> Scans] /\ rows \in [Inst -> Seq(Row)] /\ Kids \in Nat
  BY SharedAssumption DEF SharedInv, SharedTypeOK, Scans
<1>2. /\ rows'[i] = Kept(i) \o scan[i].found /\ scan'[i] = Idle
      /\ scan[i].open /\ UNCHANGED role
  BY <1>1 DEF Close
<1>3. Kept(i) \in Seq(Row) /\ scan[i].found \in Seq(Row)
  BY KeptIs DEF SharedInv
<1>4. FoundFits(i) /\ RowFits(i) /\ (role[i] = "tui" => Len(rows[i]) >= Kids)
  BY DEF SharedInv, Indexed, Owned
<1>5. ASSUME NEW j \in 1 .. Len(rows'[i])
      PROVE  /\ rows'[i][j].index = j - 1
             /\ role'[i] = "tui" =>
                    /\ rows'[i][j].of = i <=> rows'[i][j].index < Kids
                    /\ rows'[i][j].of = i => rows'[i][j].child = rows'[i][j].index
  <2>1. CASE j \in 1 .. Len(Kept(i)) /\ rows'[i][j] = Kept(i)[j]
    <3>1. role[i] = "tui" /\ Kept(i) = rows[i]
      BY <2>1 DEF Kept
    <3>2. QED
      BY <1>2, <1>4, <2>1, <3>1 DEF RowFits
  <2>2. CASE /\ j - Len(Kept(i)) \in 1 .. Len(scan[i].found)
             /\ rows'[i][j] = scan[i].found[j - Len(Kept(i))]
    <3>1. Len(Kept(i)) \in Nat
      BY <1>3
    <3>2. /\ rows'[i][j].index = Len(Kept(i)) + (j - Len(Kept(i))) - 1
          /\ role[i] = "tui" => rows'[i][j].of # i
      BY <1>2, <1>4, <2>2 DEF FoundFits
    <3>3. role[i] = "tui" => Len(Kept(i)) >= Kids
      BY <1>4 DEF Kept
    <3>4. j \in Nat /\ j > Len(Kept(i))
      BY <2>2, <3>1
    <3>5. rows'[i][j].index = j - 1
      BY <3>1, <3>2, <3>4
    <3>6. role[i] = "tui" => ~(rows'[i][j].index < Kids)
      BY <1>1, <3>1, <3>3, <3>4, <3>5
    <3>7. QED
      BY <1>2, <3>2, <3>5, <3>6
  <2>3. QED
    BY <1>2, <1>3, <1>5, <2>1, <2>2, ConcatIs
<1>6. RowFits(i)'
  BY <1>5 DEF RowFits
<1>7. FoundFits(i)'
  BY <1>2, IdleIs DEF FoundFits
<1>8. QED
  BY <1>6, <1>7

LEMMA IndexedStep ==
  ASSUME SharedInv, [Next]_vars
  PROVE  Indexed'
<1>1. /\ role \in [Inst -> Roles] /\ scan \in [Inst -> Scans] /\ rows \in [Inst -> Seq(Row)]
  BY DEF SharedInv, SharedTypeOK, Scans
<1>2. \A i \in Inst : FoundFits(i) /\ RowFits(i)
  BY DEF SharedInv, Indexed
<1>3. CASE Tick \/ UNCHANGED vars
  BY <1>2, <1>3, FitsKept DEF Tick, vars, Indexed
<1>4. SUFFICES ASSUME NEW i \in Inst, StartsAs(i) \/ Elsewhere(i) \/ Pass(i)
               PROVE  Indexed'
  BY <1>3, NextIs
<1>5. FoundFits(i)' /\ RowFits(i)'
  <2>1. CASE StartsAs(i)
    <3>1. /\ role[i] = "off" /\ scan' = scan
          /\ rows'[i] \in {Block(i, 0), <<>>}
      BY <1>1, <2>1 DEF StartsAs, Starts
    <3>2. ~scan[i].open
      BY <3>1 DEF SharedInv, Owned, Reads
    <3>3. QED
      BY <3>1, <3>2, FreshRowsFit DEF FoundFits
  <2>2. CASE Dies(i)
    <3>1. scan'[i] = Idle /\ rows'[i] = <<>>
      BY <1>1, <2>2 DEF Dies
    <3>2. QED
      BY <3>1, IdleIs, FreshRowsFit DEF FoundFits
  <2>3. CASE Elsewhere(i) /\ ~Dies(i)
    <3>1. scan' = scan /\ rows' = rows /\ ((role'[i] = "tui") <=> (role[i] = "tui"))
      BY <1>1, <2>3 DEF Elsewhere, HeadlessLeaves, MonitorEnds, Create, CreateFails, Write
    <3>2. QED
      BY <1>2, <3>1, FitsKept
  <2>4. CASE TickScan(i) \/ Renew(i)
    <3>1. /\ scan'[i].todo = Names(i) /\ scan'[i].found = <<>>
          /\ role' = role
      BY <2>4, OpenIs DEF TickScan, Renew, SharedInv
    <3>2. FoundFits(i)'
      BY <3>1 DEF FoundFits, Names
    <3>3. CASE TickScan(i)
      BY <1>2, <3>1, <3>2, <3>3 DEF TickScan, RowFits
    <3>4. CASE Renew(i)
      <4>1. rows'[i] = Block(i, 0)
        BY <1>1, <3>4 DEF Renew
      <4>2. QED
        BY <3>2, <4>1, FreshRowsFit
    <3>5. QED
      BY <2>4, <3>3, <3>4
  <2>5. CASE Visit(i)
    BY <2>5, VisitFits
  <2>6. CASE RemoveStale(i)
    <3>1. /\ scan'[i].open = scan[i].open /\ scan'[i].todo = scan[i].todo
          /\ scan'[i].found = scan[i].found /\ UNCHANGED <<role, rows>>
      BY <1>1, <2>6 DEF RemoveStale, Scans
    <3>2. QED
      BY <1>2, <3>1 DEF FoundFits, RowFits, Names, Kept
  <2>7. CASE Close(i)
    BY <2>7, CloseFits
  <2>8. QED
    BY <1>4, <2>1, <2>2, <2>3, <2>4, <2>5, <2>6, <2>7 DEF Pass, Elsewhere
<1>6. ASSUME NEW j \in Inst, j # i
      PROVE  FoundFits(j)' /\ RowFits(j)'
  <2>1. scan'[j] = scan[j] /\ rows'[j] = rows[j] /\ role'[j] = role[j]
    <3>1. CASE StartsAs(i) \/ Elsewhere(i)
      BY <1>1, <1>6, <3>1 DEF StartsAs, Starts, Elsewhere, Dies, HeadlessLeaves, MonitorEnds,
         Create, CreateFails, Write
    <3>2. CASE TickScan(i) \/ Renew(i)
      BY <1>1, <1>6, <3>2, OpenIs DEF TickScan, Renew, SharedInv
    <3>3. CASE Visit(i)
      BY <1>1, <1>6, <3>3, VisitIs DEF Visit, SharedInv
    <3>4. CASE RemoveStale(i) \/ Close(i)
      BY <1>1, <1>6, <3>4 DEF RemoveStale, Close
    <3>5. QED
      BY <1>4, <3>1, <3>2, <3>3, <3>4 DEF Pass
  <2>2. QED
    BY <1>2, <2>1, FitsKept
<1>7. QED
  BY <1>5, <1>6 DEF Indexed

LEMMA SharedInvariance == Spec => []SharedInv
<1>1. Init => SharedInv
  <2>1. SUFFICES ASSUME Init
                 PROVE  SharedInv
    OBVIOUS
  <2>2. SharedTypeOK
    <3>1. MaxAge + 1 \in Ages /\ <<>> \in Seq(Row)
      BY SharedAssumption DEF Ages
    <3>2. scan \in [Inst -> Scans]
      BY <2>1, IdleIs DEF Init
    <3>3. QED
      BY <2>1, <3>1, <3>2 DEF Init, SharedTypeOK, Scans, Roles
  <2>3. Dated /\ Owned
    BY <2>1, IdleIs, OlderElse DEF Init, Dated, Owned
  <2>4. Indexed
    BY <2>1, IdleIs DEF Init, Indexed, FoundFits, RowFits
  <2>5. QED
    BY <2>2, <2>3, <2>4 DEF SharedInv
<1>2. SharedInv /\ [Next]_vars => SharedInv'
  BY TypeStep, DatedStep, OwnedStep, IndexedStep DEF SharedInv
<1>3. QED
  BY <1>1, <1>2, PTL DEF Spec

-----------------------------------------------------------------------------
\* monitor.rs 277-295, app.rs 303-401: the files, the scans and the rows have
\* their types.
THEOREM SharedTypeCorrect == Spec => []SharedTypeOK
<1>1. SharedInv => SharedTypeOK
  BY DEF SharedInv
<1>2. QED
  BY <1>1, SharedInvariance, PTL

\* app.rs 361 and 392-397: r on a row restarts the child the row shows, or
\* nothing, for any number of instances.
THEOREM IndicesNameChildren == Spec => []RowsNameChildren
<1>1. SharedInv => RowsNameChildren
  <2>1. SUFFICES ASSUME SharedInv
                 PROVE  RowsNameChildren
    OBVIOUS
  <2>2. \A i \in Inst : RowFits(i) /\ rows[i] \in Seq(Row)
    BY <2>1 DEF SharedInv, Indexed, SharedTypeOK
  <2>3. QED
    BY <2>2 DEF RowFits, RowsNameChildren
<1>2. QED
  BY <1>1, SharedInvariance, PTL

\* app.rs 426-441: a file is believed for MaxAge seconds from its timestamp,
\* whatever its writer, its readers and its name went through since.
THEOREM NoGhosts == Spec => NoGhostRows
<1> DEFINE Believed(i) ==
      LET found == scan'[i].found
          last == found[Len(found)].of
      IN  Len(found) > Len(scan[i].found) => role[last] # "off" \/ dead[last] =< MaxAge
<1>1. SharedInv /\ [Next]_vars => [\A i \in Inst : Believed(i)]_vars
  <2>1. SUFFICES ASSUME SharedInv, [Next]_vars, NEW i \in Inst,
                        Len(scan'[i].found) > Len(scan[i].found)
                 PROVE  dead[scan'[i].found[Len(scan'[i].found)].of] =< MaxAge
    BY Zenon
  <2>2. /\ scan \in [Inst -> Scans] /\ scan[i].found \in Seq(Row)
        /\ Len(scan[i].found) \in Nat /\ Kids \in Nat \ {0}
    <3>1. scan \in [Inst -> Scans]
      BY <2>1 DEF SharedInv, SharedTypeOK, Scans
    <3>2. scan[i] \in Scans
      BY <3>1
    <3>3. scan[i].found \in Seq(Row)
      BY <3>2 DEF Scans
    <3>4. QED
      BY <3>1, <3>3, SharedAssumption
  <2>3. Visit(i)
    <3>1. scan'[i].found # scan[i].found
      BY <2>1, <2>2
    <3>2. CASE Tick \/ UNCHANGED vars
      BY <3>1, <3>2 DEF Tick, vars
    <3>3. CASE \E k \in Inst : StartsAs(k) \/ Elsewhere(k) \/ Pass(k)
      <4>1. PICK k \in Inst : StartsAs(k) \/ Elsewhere(k) \/ Pass(k)
        BY <3>3
      <4>2. CASE StartsAs(k) \/ (Elsewhere(k) /\ ~Dies(k))
        BY <3>1, <4>2 DEF StartsAs, Starts, Elsewhere, HeadlessLeaves, MonitorEnds, Create,
           CreateFails, Write
      <4>3. CASE Dies(k) \/ Close(k)
        <5>1. scan'[i] = scan[i] \/ scan'[i].found = <<>>
          BY <2>2, <4>3, IdleIs DEF Dies, Close
        <5>2. QED
          BY <2>1, <2>2, <3>1, <5>1
      <4>4. CASE TickScan(k) \/ Renew(k)
        <5>1. scan'[i] = scan[i] \/ scan'[i].found = <<>>
          BY <2>1, <2>2, <4>4, OpenIs DEF TickScan, Renew, SharedInv
        <5>2. QED
          BY <2>1, <2>2, <3>1, <5>1
      <4>5. CASE RemoveStale(k)
        BY <2>2, <3>1, <4>5 DEF RemoveStale, Scans
      <4>6. CASE Visit(k)
        <5>1. scan' = [scan EXCEPT ![k] = scan'[k]]
          BY <2>1, <4>6, VisitIs DEF SharedInv
        <5>2. k = i
          BY <2>2, <3>1, <5>1
        <5>3. QED
          BY <4>6, <5>2
      <4>7. QED
        BY <4>1, <4>2, <4>3, <4>4, <4>5, <4>6 DEF Pass, Elsewhere
    <3>4. QED
      BY <2>1, <3>2, <3>3, NextIs
  <2>4. PICK s \in scan[i].todo :
          /\ s \in Inst /\ Offset(i) \in Nat /\ Fresh(file[s])
          /\ scan'[i].found = scan[i].found \o Block(s, Offset(i))
    <3>1. scan'[i].found # scan[i].found
      BY <2>1, <2>2
    <3>2. QED
      BY <2>1, <2>3, <3>1, VisitIs DEF SharedInv
  <2>5. /\ Block(s, Offset(i)) \in Seq(Row) /\ Len(Block(s, Offset(i))) = Kids
        /\ Block(s, Offset(i))[Kids].of = s
    <3>1. Kids \in 1 .. Kids
      BY <2>2
    <3>2. s \in Inst /\ Offset(i) \in Nat
      BY <2>4
    <3>3. QED
      BY <3>1, <3>2, BlockIs
  <2>6. scan'[i].found[Len(scan'[i].found)].of = s
    <3>1. Len(scan[i].found \o Block(s, Offset(i))) = Len(scan[i].found) + Kids
      BY <2>2, <2>5, ConcatIs
    <3>2. (scan[i].found \o Block(s, Offset(i)))[Len(scan[i].found) + Kids]
            = Block(s, Offset(i))[Kids]
      BY <2>2, <2>5
    <3>3. QED
      BY <2>4, <2>5, <3>1, <3>2
  <2>7. dead[s] =< MaxAge
    <3>1. file[s] \in 0 .. MaxAge /\ file[s] \in Ages /\ dead[s] \in Ages
      BY <2>1, <2>4, SharedAssumption DEF Fresh, Ages, SharedInv, SharedTypeOK
    <3>2. dead[s] =< file[s]
      BY <2>1, <2>4, <3>1 DEF SharedInv, Dated
    <3>3. QED
      BY <3>1, <3>2, SharedAssumption DEF Ages
  <2>8. QED
    BY <2>6, <2>7
<1>2. QED
  BY <1>1, SharedInvariance, PTL DEF Spec, NoGhostRows
=============================================================================
