--------------------------- MODULE RecordingProofs ---------------------------
(***************************************************************************)
(* Watches, recordings and the list of them, for any pids, any window, any *)
(* storage cap and any number of births and watches.                       *)
(***************************************************************************)
EXTENDS Recording, FiniteSetTheorems, FunctionTheorems, SequenceTheorems, TLAPS

File(n) == [id : 0..n, size : 1..Window]

\* The variables that are not the mode.
DataOK ==
    /\ living \subseteq Pids /\ hidden \subseteq living
    /\ births \in [Pids -> Births] /\ shown \in [Pids -> Births]
    /\ watching \in [Pids -> Births]
    /\ kept \in 0..Window
    /\ since \in [Pids -> 0..Long]
    /\ files \in Seq(File(saves))
    /\ saves \in Nat /\ watches \in 0..MaxWatches

\* Each recording that was saved has used up a watch of its own.
Spent == IsFiniteSet(Watched) /\ saves + Cardinality(Watched) =< watches

\* A pid on the list was not saved in the tick that listed it, so that a second
\* has passed.
Passed == \A p \in Pids : shown[p] # 0 => since[p] >= 1

\* The list and the playback, with their selection and position.
ModeOK ==
    \/ mode = Live
    \/ \E ids \in Seq(Nat), i \in Nat :
          mode = Listing(ids, i) /\ (i = 0 \/ i < Len(ids))
    \/ \E n \in Nat, i \in Nat, on \in BOOLEAN : mode = Playing(n, i, on) /\ i < n

\* The files fit.
Room == Total(files) <= MaxStorage

RecordingInv == DataOK /\ Spent /\ Passed /\ ModeOK /\ Room

-----------------------------------------------------------------------------
(* The helpers *)

LEMMA AtMostIs ==
  ASSUME NEW n \in Int, NEW bound \in Int
  PROVE  /\ AtMost(n, bound) \in Int /\ AtMost(n, bound) =< n /\ AtMost(n, bound) =< bound
         /\ AtMost(n, bound) \in {n, bound}
BY DEF AtMost

LEMMA ElapsedIs ==
  ASSUME DataOK, NEW dt \in 1..Long
  PROVE  /\ Elapsed(dt) \in [Pids -> 1..Long]
         /\ \A p \in Pids : since[p] >= 1 => Elapsed(dt)[p] >= Debounce
BY DEF DataOK, Elapsed, AtMost, Long, Debounce

LEMMA CollectedIs ==
  ASSUME DataOK
  PROVE  Collected \in [Pids -> Births]
<1>1. 0 \in Births
  BY RecordingAssumption DEF Births
<1>2. QED
  BY <1>1 DEF DataOK, Collected

\* What stays is a suffix: all of it fits, and it is the longest that does.
LEMMA CappedIs ==
  ASSUME NEW S, NEW fs \in Seq(S)
  PROVE  /\ Capped(fs) \in Seq(S)
         /\ \E m \in 0..Len(fs) :
                /\ Capped(fs) = SubSeq(fs, m + 1, Len(fs))
                /\ Total(Capped(fs)) <= MaxStorage \/ m = Len(fs)
                /\ \A k \in 0..m - 1 : ~(Total(SubSeq(fs, k + 1, Len(fs))) <= MaxStorage)
<1> DEFINE Fits(n) == Total(SubSeq(fs, n + 1, Len(fs))) <= MaxStorage
           T == {n \in 0..Len(fs) : Fits(n) \/ n = Len(fs)}
<1>1. T \in SUBSET Nat /\ Len(fs) \in T
  OBVIOUS
<1>2. \E n \in T : \A m \in T : n =< m
  <2> HIDE DEF T
  <2>1. PICK n \in T : \A m \in T : <<m, n>> \notin OpToRel(<, Nat)
    BY <1>1, WFMin, NatLessThanWellFounded
  <2>2. \A m \in T : ~(m < n)
    BY <1>1, <2>1 DEF OpToRel
  <2>3. QED
    BY <1>1, <2>2
<1>3. Min(T) \in T /\ \A k \in T : Min(T) =< k
  <2> HIDE DEF T
  <2>1. QED
    BY <1>2 DEF Min
<1>4. Min(T) \in 0..Len(fs)
  BY <1>3
<1>5. \A i \in Min(T) + 1 .. Len(fs) : fs[i] \in S
  BY <1>4
<1>6. SubSeq(fs, Min(T) + 1, Len(fs)) \in Seq(S)
  <2> HIDE DEF T
  <2>1. QED
    BY <1>4, <1>5, SubSeqProperties
<1>7. Capped(fs) = SubSeq(fs, Min(T) + 1, Len(fs))
  BY DEF Capped
<1>8. Total(Capped(fs)) <= MaxStorage \/ Min(T) = Len(fs)
  BY <1>3, <1>7
<1>9. \A k \in 0..Min(T) - 1 : ~Fits(k)
  <2>1. \A k \in 0..Min(T) - 1 : k \in 0..Len(fs) /\ k \notin T
    <3> HIDE DEF T
    <3>1. QED
      BY <1>3, <1>4
  <2>2. QED
    BY <2>1
<1> HIDE DEF T
<1>10. QED
  BY <1>4, <1>6, <1>7, <1>8, <1>9

LEMMA RemoveAtIs ==
  ASSUME NEW S, NEW fs \in Seq(S), NEW i \in DOMAIN fs
  PROVE  RemoveAt(fs, i) \in Seq(S)
<1>1. SubSeq(fs, 1, i - 1) \in Seq(S) /\ SubSeq(fs, i + 1, Len(fs)) \in Seq(S)
  OBVIOUS
<1>2. QED
  BY <1>1 DEF RemoveAt

LEMMA ListOfIs ==
  ASSUME NEW n \in Nat, NEW fs \in Seq(File(n))
  PROVE  ListOf(fs) \in Seq(Nat) /\ Len(ListOf(fs)) = Len(fs)
<1>1. ASSUME NEW i \in 1..Len(fs)
      PROVE  Reverse(fs)[i].id \in Nat
  <2>1. Reverse(fs)[i] = fs[Len(fs) - i + 1] /\ Len(fs) - i + 1 \in 1..Len(fs)
    BY DEF Reverse
  <2>2. Reverse(fs)[i] \in File(n)
    BY <2>1, ElementOfSeq
  <2>3. QED
    BY <2>2 DEF File
<1>2. QED
  BY <1>1 DEF ListOf

\* More recordings, more ids.
LEMMA FilesGrow ==
  ASSUME NEW n \in Nat, NEW m \in Nat, n =< m, NEW fs \in Seq(File(n))
  PROVE  fs \in Seq(File(m))
<1>1. File(n) \subseteq File(m)
  BY DEF File
<1>2. QED
  BY <1>1, SeqMonotonic

-----------------------------------------------------------------------------
(* What the files take *)

LEMMA StoredIs ==
  ASSUME NEW n \in Nat, NEW fs \in Seq(File(n))
  PROVE  /\ \A i \in 1..Len(fs) : fs[i].size \in 1..Window
         /\ \A s : s \in Stored(fs) <=>
                       \E i \in 1..Len(fs) : \E k \in 1..fs[i].size : s = <<i, k>>
         /\ IsFiniteSet(Stored(fs)) /\ Total(fs) \in Nat
<1>1. \A i \in 1..Len(fs) : fs[i].size \in 1..Window
  <2>1. \A i \in 1..Len(fs) : fs[i] \in File(n)
    BY ElementOfSeq
  <2>2. QED
    BY <2>1 DEF File
<1>2. \A s : s \in Stored(fs) <=>
                 \E i \in 1..Len(fs) : \E k \in 1..fs[i].size : s = <<i, k>>
  BY DEF Stored
<1>3. Stored(fs) \subseteq (1..Len(fs)) \X (1..Window)
  <2>1. ASSUME NEW s \in Stored(fs)
        PROVE  s \in (1..Len(fs)) \X (1..Window)
    <3>1. PICK i \in 1..Len(fs) : \E k \in 1..fs[i].size : s = <<i, k>>
      BY <1>2
    <3>2. PICK k \in 1..fs[i].size : s = <<i, k>>
      BY <3>1
    <3>3. k \in 1..Window
      BY <1>1, RecordingAssumption
    <3>4. QED
      BY <3>2, <3>3
  <2>2. QED
    BY <2>1
<1>4. IsFiniteSet((1..Len(fs)) \X (1..Window))
  <2>1. Len(fs) \in Int /\ Window \in Int
    BY RecordingAssumption
  <2>2. IsFiniteSet(1..Len(fs)) /\ IsFiniteSet(1..Window)
    BY <2>1, FS_Interval
  <2>3. QED
    BY <2>2, FS_Product
<1>5. IsFiniteSet(Stored(fs))
  BY <1>3, <1>4, FS_Subset
<1>6. QED
  BY <1>1, <1>2, <1>5, FS_CardinalityType DEF Total

LEMMA NothingStored == Total(<<>>) = 0
<1>1. Stored(<<>>) = {}
  BY DEF Stored
<1>2. QED
  BY <1>1, FS_EmptySet DEF Total

\* One file takes its size.
LEMMA OneStored ==
  ASSUME NEW n \in Nat, NEW f \in File(n)
  PROVE  Total(<<f>>) =< f.size
<1>1. <<f>> \in Seq(File(n)) /\ Len(<<f>>) = 1 /\ <<f>>[1] = f /\ f.size \in Nat
  BY RecordingAssumption DEF File
<1>2. \A s : s \in Stored(<<f>>) <=> \E k \in 1..f.size : s = <<1, k>>
  <2> DEFINE fs == <<f>>
  <2>1. 1..Len(fs) = {1} /\ fs[1].size = f.size /\ fs \in Seq(File(n))
    BY <1>1
  <2> HIDE DEF fs
  <2>2. \A s : s \in Stored(fs) <=> \E i \in 1..Len(fs) : \E k \in 1..fs[i].size : s = <<i, k>>
    BY <2>1, StoredIs
  <2>3. \A s : s \in Stored(fs) <=> \E k \in 1..f.size : s = <<1, k>>
    BY <2>1, <2>2
  <2>4. QED
    BY <2>3 DEF fs
<1> DEFINE g == [s \in Stored(<<f>>) |-> s[2]]
<1>3. g \in Injection(Stored(<<f>>), 1..f.size)
  <2>1. g \in [Stored(<<f>>) -> 1..f.size]
    BY <1>2
  <2>2. \A s, t \in Stored(<<f>>) : g[s] = g[t] => s = t
    BY <1>2
  <2>3. QED
    BY <2>1, <2>2, Fun_IsInj
<1>4. IsFiniteSet(1..f.size) /\ Cardinality(1..f.size) = f.size
  <2>1. f.size \in Int /\ 1 \in Int /\ (1 > f.size => f.size = 0) /\ f.size - 1 + 1 = f.size
    BY <1>1
  <2>2. /\ IsFiniteSet(1..f.size)
        /\ Cardinality(1..f.size) = IF 1 > f.size THEN 0 ELSE f.size - 1 + 1
    BY <2>1, FS_Interval
  <2>3. QED
    BY <2>1, <2>2
<1>5. QED
  BY <1>3, <1>4, FS_Injection DEF Total

\* Removing a file leaves no more than was stored.
LEMMA RemovalFrees ==
  ASSUME NEW n \in Nat, NEW fs \in Seq(File(n)), NEW i \in DOMAIN fs
  PROVE  Total(RemoveAt(fs, i)) =< Total(fs)
<1> DEFINE r == RemoveAt(fs, i)
           was(j) == IF j < i THEN j ELSE j + 1
<1>1. r \in Seq(File(n))
  BY RemoveAtIs
<1>2. i \in 1..Len(fs) /\ Len(r) = Len(fs) - 1
      /\ \A j \in 1..Len(r) : was(j) \in 1..Len(fs) /\ r[j] = fs[was(j)]
  <2> DEFINE a == SubSeq(fs, 1, i - 1)
             b == SubSeq(fs, i + 1, Len(fs))
  <2>1. i \in 1..Len(fs) /\ Len(fs) \in Nat /\ r = a \o b
    BY DEF RemoveAt
  <2>2. \A j \in 1..Len(fs) : fs[j] \in File(n)
    BY ElementOfSeq
  <2>3. /\ a \in Seq(File(n)) /\ Len(a) = i - 1
        /\ \A j \in 1..i - 1 : a[j] = fs[j]
    BY <2>1, <2>2
  <2>4. /\ b \in Seq(File(n)) /\ Len(b) = Len(fs) - i
        /\ \A j \in 1..Len(fs) - i : b[j] = fs[i + j]
    <3>1. \A j \in i + 1..Len(fs) : fs[j] \in File(n)
      BY <2>1, <2>2
    <3>2. /\ b \in Seq(File(n))
          /\ Len(b) = IF i + 1 <= Len(fs) THEN Len(fs) - (i + 1) + 1 ELSE 0
          /\ \A j \in 1..Len(fs) - (i + 1) + 1 : b[j] = fs[i + 1 + j - 1]
      BY <2>1, <3>1, SubSeqProperties
    <3> HIDE DEF b
    <3>3. QED
      BY <2>1, <3>2
  <2> HIDE DEF a, b, r
  <2>5. /\ Len(r) = Len(a) + Len(b)
        /\ \A j \in 1..Len(a) + Len(b) : r[j] = IF j <= Len(a) THEN a[j] ELSE b[j - Len(a)]
    BY <2>1, <2>3, <2>4, ConcatProperties
  <2>6. ASSUME NEW j \in 1..Len(r)
        PROVE  was(j) \in 1..Len(fs) /\ r[j] = fs[was(j)]
    <3>1. j \in 1..Len(fs) - 1 /\ r[j] = IF j <= i - 1 THEN a[j] ELSE b[j - (i - 1)]
      BY <2>1, <2>3, <2>4, <2>5
    <3>2. CASE j < i
      BY <2>1, <2>3, <3>1, <3>2
    <3>3. CASE ~(j < i)
      <4>1. j - (i - 1) \in 1..Len(fs) - i /\ i + (j - (i - 1)) = j + 1
        BY <2>1, <3>1, <3>3
      <4>2. b[j - (i - 1)] = fs[j + 1]
        BY <2>4, <4>1
      <4>3. QED
        BY <2>1, <3>1, <3>3, <4>2
    <3>4. QED
      BY <3>2, <3>3
  <2>7. Len(r) = Len(fs) - 1
    BY <2>1, <2>3, <2>4, <2>5
  <2> HIDE DEF was
  <2>8. QED
    BY <2>1, <2>6, <2>7
<1> HIDE DEF r
<1> DEFINE g == [s \in Stored(r) |-> <<was(s[1]), s[2]>>]
<1>3. \A s : s \in Stored(r) <=> \E j \in 1..Len(r) : \E k \in 1..r[j].size : s = <<j, k>>
  BY <1>1, StoredIs
<1>4. g \in Injection(Stored(r), Stored(fs))
  <2>1. ASSUME NEW s \in Stored(r)
        PROVE  <<was(s[1]), s[2]>> \in Stored(fs)
    <3>1. PICK j \in 1..Len(r) : \E k \in 1..r[j].size : s = <<j, k>>
      BY <1>3
    <3>2. PICK k \in 1..r[j].size : s = <<j, k>>
      BY <3>1
    <3>3. s[1] = j /\ s[2] = k /\ was(j) \in 1..Len(fs) /\ k \in 1..fs[was(j)].size
      BY <1>2, <3>2
    <3>4. QED
      BY <3>3, StoredIs
  <2>2. ASSUME NEW s \in Stored(r), NEW t \in Stored(r), g[s] = g[t]
        PROVE  s = t
    <3>1. PICK j \in 1..Len(r) : \E k \in 1..r[j].size : s = <<j, k>>
      BY <1>3
    <3>2. PICK m \in 1..Len(r) : \E k \in 1..r[m].size : t = <<m, k>>
      BY <1>3
    <3>3. s = <<j, s[2]>> /\ t = <<m, t[2]>>
      BY <3>1, <3>2
    <3>4. was(j) = was(m) /\ s[2] = t[2]
      BY <2>2, <3>3
    <3>5. j = m
      BY <1>1, <1>2, <3>4
    <3>6. QED
      BY <3>3, <3>4, <3>5
  <2>3. g \in [Stored(r) -> Stored(fs)]
    BY <2>1
  <2>4. QED
    BY <2>2, <2>3, Fun_IsInj
<1>5. QED
  BY <1>4, StoredIs, FS_Injection DEF Total, r

\* enforce_storage_cap leaves no more than the cap.
LEMMA CappedFits ==
  ASSUME NEW n \in Nat, NEW fs \in Seq(File(n))
  PROVE  Total(Capped(fs)) =< MaxStorage
<1>1. PICK m \in 0..Len(fs) :
        /\ Capped(fs) = SubSeq(fs, m + 1, Len(fs))
        /\ Total(Capped(fs)) <= MaxStorage \/ m = Len(fs)
  BY CappedIs
<1>2. CASE m = Len(fs)
  <2>1. Capped(fs) = <<>>
    BY <1>1, <1>2, SubSeqEmpty
  <2>2. QED
    BY <2>1, NothingStored, RecordingAssumption
<1>3. QED
  BY <1>1, <1>2

\* It keeps the newest file, unless that one is too large on its own.
LEMMA CappedKeepsNewest ==
  ASSUME NEW n \in Nat, NEW fs \in Seq(File(n)), fs # <<>>, fs[Len(fs)].size =< MaxStorage
  PROVE  Capped(fs) # <<>> /\ Capped(fs)[Len(Capped(fs))] = fs[Len(fs)]
<1>1. PICK m \in 0..Len(fs) :
        /\ Capped(fs) = SubSeq(fs, m + 1, Len(fs))
        /\ \A k \in 0..m - 1 : ~(Total(SubSeq(fs, k + 1, Len(fs))) <= MaxStorage)
  BY CappedIs
<1>2. Len(fs) \in Nat \ {0} /\ \A i \in 1..Len(fs) : fs[i] \in File(n)
  BY EmptySeq, ElementOfSeq
<1> DEFINE l == Len(fs) - 1
<1>3. Total(SubSeq(fs, l + 1, Len(fs))) =< MaxStorage
  <2>1. SubSeq(fs, l + 1, Len(fs)) = <<fs[Len(fs)]>>
    <3>1. l + 1 = Len(fs) /\ \A i \in Len(fs)..Len(fs) : fs[i] \in File(n)
      BY <1>2
    <3> HIDE DEF l
    <3> DEFINE q == SubSeq(fs, Len(fs), Len(fs))
    <3>2. /\ q \in Seq(File(n))
          /\ Len(q) = IF Len(fs) <= Len(fs) THEN Len(fs) - Len(fs) + 1 ELSE 0
          /\ \A i \in 1..Len(fs) - Len(fs) + 1 : q[i] = fs[Len(fs) + i - 1]
      BY <1>2, <3>1, SubSeqProperties
    <3> HIDE DEF q
    <3>3. Len(q) = 1 /\ q[1] = fs[Len(fs)]
      BY <1>2, <3>2
    <3>4. q = <<fs[Len(fs)]>>
      BY <3>2, <3>3
    <3>5. QED
      BY <3>1, <3>4, Zenon DEF q
  <2>2. fs[Len(fs)] \in File(n)
    BY <1>2, ElementOfSeq
  <2>3. Total(<<fs[Len(fs)]>>) =< fs[Len(fs)].size /\ Total(<<fs[Len(fs)]>>) \in Nat
    <3>1. <<fs[Len(fs)]>> \in Seq(File(n))
      BY <2>2
    <3>2. QED
      BY <2>2, <3>1, OneStored, StoredIs
  <2>4. fs[Len(fs)].size \in Nat
    BY <2>2, RecordingAssumption DEF File
  <2>5. Total(<<fs[Len(fs)]>>) =< MaxStorage
    BY <2>3, <2>4, RecordingAssumption
  <2> HIDE DEF l
  <2>6. QED
    BY <2>1, <2>5, Zenon
<1>4. m < Len(fs)
  <2>1. l \notin 0..m - 1
    <3> HIDE DEF l
    <3>1. QED
      BY <1>1, <1>3
  <2>2. QED
    BY <1>2, <2>1
<1>5. /\ Len(Capped(fs)) = Len(fs) - m
      /\ \A i \in 1..Len(fs) - m : Capped(fs)[i] = fs[m + i]
  <2> DEFINE q == SubSeq(fs, m + 1, Len(fs))
  <2>1. \A i \in m + 1..Len(fs) : fs[i] \in File(n)
    BY <1>2
  <2>2. /\ Len(q) = IF m + 1 <= Len(fs) THEN Len(fs) - (m + 1) + 1 ELSE 0
        /\ \A i \in 1..Len(fs) - (m + 1) + 1 : q[i] = fs[m + 1 + i - 1]
    BY <1>2, <2>1, SubSeqProperties
  <2>3. q = Capped(fs)
    BY <1>1
  <2> HIDE DEF q
  <2>4. QED
    BY <1>2, <1>4, <2>2, <2>3
<1>6. Capped(fs) # <<>>
  <2>1. Len(Capped(fs)) # 0
    BY <1>2, <1>4, <1>5
  <2>2. QED
    BY <2>1
<1>7. Len(fs) - m \in 1..Len(fs) - m /\ m + (Len(fs) - m) = Len(fs)
  BY <1>2, <1>4
<1>8. QED
  BY <1>5, <1>6, <1>7

-----------------------------------------------------------------------------
(* The tick of the Live mode *)

LEMMA SavedIs ==
  ASSUME DataOK, Spent, NEW dt \in 1..Long
  PROVE  /\ Saved(dt) \subseteq Gone /\ Gone \subseteq Watched /\ Watched \subseteq Pids
         /\ IsFiniteSet(Gone) /\ IsFiniteSet(Saved(dt))
         /\ Cardinality(Saved(dt)) \in Nat /\ Cardinality(Gone) \in Nat
         /\ Cardinality(Saved(dt)) =< Cardinality(Gone)
         /\ Cardinality(Watched) \in Nat /\ Cardinality(Gone) =< Cardinality(Watched)
<1>1. Saved(dt) \subseteq Gone /\ Gone \subseteq Watched /\ Watched \subseteq Pids
  BY DEF Saved, Gone, Watched
<1>2. IsFiniteSet(Gone) /\ Cardinality(Gone) =< Cardinality(Watched)
  BY <1>1, FS_Subset DEF Spent
<1>3. IsFiniteSet(Saved(dt)) /\ Cardinality(Saved(dt)) =< Cardinality(Gone)
  BY <1>1, <1>2, FS_Subset
<1>4. /\ Cardinality(Saved(dt)) \in Nat /\ Cardinality(Gone) \in Nat
      /\ Cardinality(Watched) \in Nat
  BY <1>2, <1>3, FS_CardinalityType DEF Spent
<1>5. QED
  BY <1>1, <1>2, <1>3, <1>4

\* Every exit the tick sees is saved.
LEMMA GoneIsSaved ==
  ASSUME DataOK, Passed, kept > 0, NEW dt \in 1..Long
  PROVE  Saved(dt) = Gone
<1>1. ASSUME NEW p \in Gone
      PROVE  ~Debounced(Elapsed(dt)[p])
  <2>1. p \in Pids /\ shown[p] # 0
    BY <1>1 DEF Gone, Watched
  <2>2. Elapsed(dt)[p] \in Nat /\ Elapsed(dt)[p] >= Debounce
    BY <2>1, ElapsedIs DEF Passed, Long
  <2>3. QED
    BY <2>2 DEF Debounced, Debounce
<1>2. QED
  BY <1>1 DEF Saved

LEMMA NewFilesAre ==
  ASSUME DataOK, kept > 0, NEW n \in Nat
  PROVE  NewFiles(n) \in Seq(File(saves + n))
<1>1. \A i \in 1..n : [id |-> saves + i, size |-> kept] \in File(saves + n)
  BY DEF DataOK, File
<1>2. QED
  BY <1>1 DEF NewFiles

LEMMA LiveTickData ==
  ASSUME DataOK, Spent, Passed, LiveTick
  PROVE  DataOK' /\ Spent' /\ Passed'
<1>1. PICK dt \in 1..Long :
        /\ since' = [p \in Pids |-> IF p \in Saved(dt) THEN 0 ELSE Elapsed(dt)[p]]
        /\ files' = IF Cardinality(Saved(dt)) = 0 THEN files
                    ELSE Capped(files \o NewFiles(Cardinality(Saved(dt))))
        /\ saves' = saves + Cardinality(Saved(dt))
  BY DEF LiveTick
<1>2. /\ watching' = Unwatched(Gone) /\ shown' = Collected /\ kept' = AfterSnapshot
      /\ UNCHANGED <<living, births, hidden, mode, watches>>
  BY DEF LiveTick, kernelState
<1> DEFINE n == Cardinality(Saved(dt))
<1>3. n \in Nat /\ Saved(dt) \subseteq Gone
  BY SavedIs
<1>4. since' \in [Pids -> 0..Long] /\ shown' \in [Pids -> Births]
  <2>1. Elapsed(dt) \in [Pids -> 1..Long] /\ Collected \in [Pids -> Births]
    BY ElapsedIs, CollectedIs
  <2>2. QED
    BY <1>1, <1>2, <2>1 DEF Long
<1>5. watching' \in [Pids -> Births] /\ kept' \in 0..Window
  BY <1>2, RecordingAssumption DEF DataOK, Unwatched, AfterSnapshot, AtMost, Births
<1>6. files' \in Seq(File(saves'))
  <2>1. CASE n = 0
    BY <1>1, <2>1 DEF DataOK
  <2>2. CASE n # 0
    <3>1. kept > 0
      <4>1. Saved(dt) # {}
        BY <2>2, FS_EmptySet
      <4>2. QED
        BY <4>1 DEF Saved
    <3>2. NewFiles(n) \in Seq(File(saves + n)) /\ files \in Seq(File(saves + n))
      <4>1. saves \in Nat /\ files \in Seq(File(saves))
        BY DEF DataOK
      <4>2. saves + n \in Nat /\ saves =< saves + n
        BY <1>3, <4>1
      <4> HIDE DEF n
      <4>3. QED
        BY <1>3, <3>1, <4>1, <4>2, NewFilesAre, FilesGrow
    <3>3. files \o NewFiles(n) \in Seq(File(saves + n))
      BY <3>2, ConcatProperties
    <3>4. QED
      BY <1>1, <2>2, <3>3, CappedIs
  <2>3. QED
    BY <2>1, <2>2
<1>7. DataOK'
  BY <1>1, <1>2, <1>3, <1>4, <1>5, <1>6 DEF DataOK
<1>8. Spent'
  <2>1. Watched' = Watched \ Gone
    BY <1>2 DEF Watched, Unwatched
  <2>2. /\ IsFiniteSet(Watched \ Gone)
        /\ Cardinality(Watched \ Gone) = Cardinality(Watched) - Cardinality(Gone)
    <3>1. IsFiniteSet(Watched) /\ IsFiniteSet(Gone) /\ Watched \cap Gone = Gone
      BY SavedIs DEF Spent
    <3>2. QED
      BY <3>1, FS_Difference
  <2>3. /\ n =< Cardinality(Gone) /\ Cardinality(Gone) \in Nat /\ Cardinality(Watched) \in Nat
        /\ saves \in Nat /\ watches \in Nat /\ saves + Cardinality(Watched) =< watches
    BY SavedIs, RecordingAssumption DEF Spent, DataOK
  <2>4. QED
    BY <1>1, <1>2, <1>3, <2>1, <2>2, <2>3 DEF Spent
<1>9. Passed'
  <2>1. \A p \in Saved(dt) : Collected[p] = 0
    BY <1>3 DEF Gone
  <2>2. \A p \in Pids \ Saved(dt) : since'[p] >= 1
    BY <1>1, ElapsedIs DEF Long
  <2>3. QED
    BY <1>2, <2>1, <2>2 DEF Passed
<1>10. QED
  BY <1>7, <1>8, <1>9

-----------------------------------------------------------------------------
(* The other steps *)

LEMMA OtherTickData ==
  ASSUME DataOK, Spent, OtherTick
  PROVE  DataOK' /\ Spent' /\ Passed'
<1>1. PICK dt \in 1..Long : since' = Elapsed(dt)
  BY DEF OtherTick
<1>2. /\ shown' = Collected
      /\ UNCHANGED <<living, births, hidden, watching, kept, files, mode, saves, watches>>
  BY DEF OtherTick, kernelState, history
<1>3. since' \in [Pids -> 1..Long] /\ shown' \in [Pids -> Births]
  BY <1>1, <1>2, ElapsedIs, CollectedIs
<1>4. DataOK' /\ Passed'
  BY <1>2, <1>3 DEF DataOK, Passed, Long
<1>5. Watched' = Watched
  BY <1>2 DEF Watched
<1>6. QED
  BY <1>2, <1>4, <1>5 DEF Spent

LEMMA WatchData ==
  ASSUME DataOK, Spent, Passed, Watch
  PROVE  DataOK' /\ Spent' /\ Passed'
<1>1. PICK p \in Pids \ Watched : shown[p] # 0 /\ watching' = [watching EXCEPT ![p] = shown[p]]
  BY DEF Watch
<1>2. /\ watches' = watches + 1 /\ watches < MaxWatches
      /\ UNCHANGED <<living, births, hidden, shown, kept, since, files, mode, saves>>
  BY DEF Watch, kernelState
<1>3. DataOK' /\ Passed'
  BY <1>1, <1>2, RecordingAssumption DEF DataOK, Passed
<1>4. Watched' = Watched \cup {p}
  BY <1>1 DEF Watched, DataOK
<1>5. /\ IsFiniteSet(Watched \cup {p})
      /\ Cardinality(Watched \cup {p}) = Cardinality(Watched) + 1
  BY <1>1, FS_AddElement DEF Spent
<1>6. Cardinality(Watched) \in Nat /\ saves \in Nat /\ watches \in Nat
  BY FS_CardinalityType, RecordingAssumption DEF Spent, DataOK
<1>7. QED
  BY <1>2, <1>3, <1>4, <1>5, <1>6 DEF Spent

LEMMA UnwatchData ==
  ASSUME DataOK, Spent, Passed, Unwatch
  PROVE  DataOK' /\ Spent' /\ Passed'
<1>1. PICK p \in Watched : watching' = [watching EXCEPT ![p] = 0]
  BY DEF Unwatch
<1>2. UNCHANGED <<living, births, hidden, shown, kept, since, files, mode, saves, watches>>
  BY DEF Unwatch, kernelState, history
<1>3. DataOK' /\ Passed'
  <2>1. 0 \in Births
    BY RecordingAssumption DEF Births
  <2>2. watching' \in [Pids -> Births]
    BY <1>1, <2>1 DEF DataOK
  <2>3. QED
    BY <1>2, <2>2 DEF DataOK, Passed
<1>4. Watched' \subseteq Watched
  BY <1>1 DEF Watched, DataOK
<1>5. IsFiniteSet(Watched') /\ Cardinality(Watched') =< Cardinality(Watched)
  BY <1>4, FS_Subset DEF Spent
<1>6. /\ Cardinality(Watched) \in Nat /\ Cardinality(Watched') \in Nat
      /\ saves \in Nat /\ watches \in Nat
  BY <1>5, FS_CardinalityType, RecordingAssumption DEF Spent, DataOK
<1>7. QED
  BY <1>2, <1>3, <1>5, <1>6 DEF Spent

LEMMA FilesLess ==
  ASSUME DataOK, Spent, Passed, Delete \/ OtherDeletes
  PROVE  DataOK' /\ Spent' /\ Passed'
<1>1. UNCHANGED <<living, births, hidden, shown, watching, kept, since, saves, watches>>
  BY DEF Delete, OtherDeletes, kernelState, history
<1>2. files' = files \/ \E i \in DOMAIN files : files' = RemoveAt(files, i)
  BY DEF Delete, OtherDeletes
<1>3. files' \in Seq(File(saves))
  BY <1>2, RemoveAtIs DEF DataOK
<1>4. Watched' = Watched
  BY <1>1 DEF Watched
<1>5. QED
  BY <1>1, <1>3, <1>4 DEF DataOK, Spent, Passed

LEMMA PodData ==
  ASSUME DataOK, Spent, Passed, Filter \/ Spawn \/ Exit
  PROVE  DataOK' /\ Spent' /\ Passed'
<1>1. UNCHANGED <<shown, watching, kept, since, files, saves, watches>>
  BY DEF Filter, Spawn, Exit, kernelState, history
<1>2. living' \subseteq Pids /\ hidden' \subseteq living' /\ births' \in [Pids -> Births]
  <2>1. CASE Filter
    BY <2>1 DEF Filter, kernelState, DataOK
  <2>2. CASE Exit
    BY <2>2 DEF Exit, DataOK
  <2>3. CASE Spawn
    BY <2>3, RecordingAssumption DEF Spawn, DataOK, Births
  <2>4. QED
    BY <2>1, <2>2, <2>3
<1>3. Watched' = Watched
  BY <1>1 DEF Watched
<1>4. QED
  BY <1>1, <1>2, <1>3 DEF DataOK, Spent, Passed

LEMMA ModeOnlyData ==
  ASSUME DataOK, Spent, Passed, ModeOnly
  PROVE  DataOK' /\ Spent' /\ Passed'
<1>1. UNCHANGED <<living, births, hidden, shown, watching, kept, since, files, saves, watches>>
  BY DEF ModeOnly, kernelState, history
<1>2. Watched' = Watched
  BY <1>1 DEF Watched
<1>3. QED
  BY <1>1, <1>2 DEF DataOK, Spent, Passed

LEMMA DataStep ==
  ASSUME DataOK, Spent, Passed, [RecordingNext]_recordingVars
  PROVE  DataOK' /\ Spent' /\ Passed'
<1>1. CASE Tick
  BY <1>1, LiveTickData, OtherTickData DEF Tick
<1>2. CASE Watch \/ Unwatch
  BY <1>2, WatchData, UnwatchData
<1>3. CASE Filter \/ Delete \/ Pod
  BY <1>3, FilesLess, PodData DEF Pod
<1>4. CASE OpenList \/ Select \/ Load \/ Seek \/ TogglePlay \/ BackToLive \/ Advance
  BY <1>4, ModeOnlyData DEF OpenList, Select, Load, Seek, TogglePlay, BackToLive, Advance
<1>5. CASE UNCHANGED recordingVars
  BY <1>5, ModeOnlyData DEF recordingVars, ModeOnly, kernelState, history
<1>6. QED
  BY <1>1, <1>2, <1>3, <1>4, <1>5 DEF RecordingNext, Keys

-----------------------------------------------------------------------------
(* The storage cap *)

\* The recording of the last exit is the newest file.
LEMMA NewestIs ==
  ASSUME DataOK, kept > 0, NEW n \in Nat \ {0}
  PROVE  LET fs == files \o NewFiles(n)
         IN  /\ fs \in Seq(File(saves + n)) /\ fs # <<>>
             /\ fs[Len(fs)] = [id |-> saves + n, size |-> kept]
<1> DEFINE new == NewFiles(n)
           fs == files \o new
<1>1. new \in Seq(File(saves + n)) /\ Len(new) = n /\ new[n] = [id |-> saves + n, size |-> kept]
  BY NewFilesAre DEF NewFiles
<1>2. files \in Seq(File(saves + n))
  <2>1. saves \in Nat /\ saves + n \in Nat /\ saves =< saves + n /\ files \in Seq(File(saves))
    BY DEF DataOK
  <2>2. QED
    BY <2>1, FilesGrow
<1> HIDE DEF new
<1>3. /\ fs \in Seq(File(saves + n)) /\ Len(fs) = Len(files) + n
      /\ \A i \in 1..Len(files) + n : fs[i] = IF i <= Len(files) THEN files[i]
                                                              ELSE new[i - Len(files)]
  BY <1>1, <1>2, ConcatProperties
<1>4. fs[Len(files) + n] = new[n] /\ Len(fs) # 0
  <2>1. /\ Len(files) \in Nat /\ Len(files) + n \in 1..Len(files) + n
        /\ ~(Len(files) + n <= Len(files)) /\ Len(files) + n - Len(files) = n
    BY <1>2
  <2> HIDE DEF fs
  <2>2. QED
    BY <1>3, <2>1
<1>5. fs # <<>>
  BY <1>4
<1> HIDE DEF fs
<1>6. QED
  BY <1>1, <1>3, <1>4, <1>5 DEF fs, new

\* The files a tick leaves, and which of them is the newest.
LEMMA TickMakesRoom ==
  ASSUME DataOK, Spent, Room, LiveTick
  PROVE  /\ Room'
         /\ saves' > saves /\ kept <= MaxStorage =>
                files' # <<>> /\ files'[Len(files')].id = saves'
<1>1. PICK dt \in 1..Long :
        /\ files' = IF Cardinality(Saved(dt)) = 0 THEN files
                    ELSE Capped(files \o NewFiles(Cardinality(Saved(dt))))
        /\ saves' = saves + Cardinality(Saved(dt))
  BY DEF LiveTick
<1> DEFINE n == Cardinality(Saved(dt))
           fs == files \o NewFiles(n)
<1>2. n \in Nat /\ saves \in Nat
  BY SavedIs DEF DataOK
<1>3. CASE n = 0
  BY <1>1, <1>2, <1>3 DEF Room
<1>4. CASE n # 0
  <2>1. kept > 0
    <3>1. Saved(dt) # {}
      BY <1>4, FS_EmptySet
    <3>2. QED
      BY <3>1 DEF Saved
  <2>2. files' = Capped(fs) /\ saves' = saves + n
    BY <1>1, <1>4
  <2> HIDE DEF n
  <2>3. /\ fs \in Seq(File(saves + n)) /\ fs # <<>>
        /\ fs[Len(fs)] = [id |-> saves + n, size |-> kept]
    BY <1>2, <1>4, <2>1, NewestIs
  <2> HIDE DEF fs
  <2>4. saves + n \in Nat /\ fs[Len(fs)].size = kept /\ fs[Len(fs)].id = saves + n
    BY <1>2, <2>3
  <2>5. Room'
    BY <2>2, <2>3, <2>4, CappedFits DEF Room
  <2>6. kept <= MaxStorage => Capped(fs) # <<>> /\ Capped(fs)[Len(Capped(fs))] = fs[Len(fs)]
    BY <2>3, <2>4, CappedKeepsNewest
  <2>7. QED
    BY <2>2, <2>4, <2>5, <2>6
<1>5. QED
  BY <1>3, <1>4

LEMMA OthersLeaveRoom ==
  ASSUME DataOK, Room, [RecordingNext]_recordingVars, ~LiveTick
  PROVE  Room' /\ saves' = saves
<1>1. CASE Delete \/ OtherDeletes
  <2>1. files' = files \/ \E i \in DOMAIN files : files' = RemoveAt(files, i)
    BY <1>1 DEF Delete, OtherDeletes
  <2>2. saves' = saves
    BY <1>1 DEF Delete, OtherDeletes, history
  <2>3. CASE files' = files
    BY <2>2, <2>3 DEF Room
  <2>4. CASE \E i \in DOMAIN files : files' = RemoveAt(files, i)
    <3>1. PICK i \in DOMAIN files : files' = RemoveAt(files, i)
      BY <2>4
    <3>2. saves \in Nat /\ files \in Seq(File(saves)) /\ RemoveAt(files, i) \in Seq(File(saves))
      BY RemoveAtIs DEF DataOK
    <3>3. /\ Total(RemoveAt(files, i)) \in Nat /\ Total(files) \in Nat
          /\ Total(RemoveAt(files, i)) =< Total(files)
      BY <3>2, StoredIs, RemovalFrees
    <3>4. QED
      BY <2>2, <3>1, <3>3, RecordingAssumption DEF Room
  <2>5. QED
    BY <2>1, <2>3, <2>4
<1>2. CASE ~(Delete \/ OtherDeletes)
  <2>1. UNCHANGED <<files, saves>>
    BY <1>2 DEF RecordingNext, Tick, OtherTick, Keys, Watch, Unwatch, Filter, OpenList, Select,
       Load, Seek, TogglePlay, BackToLive, Advance, ModeOnly, Pod, Spawn, Exit, history,
       kernelState, recordingVars
  <2>2. QED
    BY <2>1 DEF Room
<1>3. QED
  BY <1>1, <1>2

LEMMA RoomAtStart == RecordingInit => Room
<1>1. SUFFICES ASSUME RecordingInit
               PROVE  Room
  OBVIOUS
<1>2. CASE files = <<>>
  BY <1>2, NothingStored, RecordingAssumption DEF Room
<1>3. CASE files # <<>>
  <2>1. PICK n \in 1..AtMost(Window, MaxStorage) : files = <<[id |-> 0, size |-> n]>>
    BY <1>1, <1>3 DEF RecordingInit
  <2>2. n \in Nat /\ n =< MaxStorage /\ [id |-> 0, size |-> n] \in File(0)
    BY <2>1, RecordingAssumption DEF File, AtMost
  <2> DEFINE f == [id |-> 0, size |-> n]
  <2>3. f.size = n /\ <<f>> \in Seq(File(0))
    BY <2>2
  <2> HIDE DEF f
  <2>4. Total(<<f>>) =< n /\ Total(<<f>>) \in Nat
    BY <2>2, <2>3, OneStored, StoredIs DEF f
  <2>5. files = <<f>>
    BY <2>1 DEF f
  <2>6. QED
    BY <2>2, <2>4, <2>5, RecordingAssumption DEF Room
<1>4. QED
  BY <1>2, <1>3

-----------------------------------------------------------------------------
(* The modes *)

LEMMA ClampIs ==
  ASSUME NEW i \in Int, NEW n \in Nat \ {0}
  PROVE  AtMost(IF i < 0 THEN 0 ELSE i, n - 1) \in 0..n - 1
BY DEF AtMost

\* A mode is one of the three; which one shows in its kind.
LEMMA ModeIs ==
  ASSUME ModeOK
  PROVE  /\ mode.kind = "list" => \E ids \in Seq(Nat), i \in Nat :
              mode = Listing(ids, i) /\ (i = 0 \/ i < Len(ids))
         /\ mode.kind = "replay" => \E n \in Nat, i \in Nat, on \in BOOLEAN :
              mode = Playing(n, i, on) /\ i < n
BY DEF ModeOK, Live, Listing, Playing

LEMMA ListingIs ==
  ASSUME NEW ids \in Seq(Nat), NEW i \in Nat, i = 0 \/ i < Len(ids), mode' = Listing(ids, i)
  PROVE  ModeOK'
BY DEF ModeOK

LEMMA PlayingIs ==
  ASSUME NEW n \in Nat, NEW i \in Nat, i < n, NEW on \in BOOLEAN, mode' = Playing(n, i, on)
  PROVE  ModeOK'
BY DEF ModeOK

LEMMA ListStep ==
  ASSUME DataOK, ModeOK, OpenList \/ Select \/ Load \/ Delete, DataOK'
  PROVE  ModeOK'
<1>1. CASE OpenList
  <2>1. ListOf(files) \in Seq(Nat)
    BY ListOfIs DEF DataOK
  <2>2. QED
    BY <1>1, <2>1, ListingIs DEF OpenList
<1>2. CASE Select
  <2>1. PICK ids \in Seq(Nat), i \in Nat : mode = Listing(ids, i) /\ (i = 0 \/ i < Len(ids))
    BY <1>2, ModeIs DEF Select
  <2>2. mode.ids = ids /\ mode.selected = i /\ Len(ids) \in Nat \ {0}
    BY <1>2, <2>1, EmptySeq DEF Listing, Select
  <2>3. PICK k \in {i - 1, i + 1} :
          mode' = [mode EXCEPT !.selected = AtMost(IF k < 0 THEN 0 ELSE k, Len(ids) - 1)]
    BY <1>2, <2>2 DEF Select
  <2>4. AtMost(IF k < 0 THEN 0 ELSE k, Len(ids) - 1) \in 0..Len(ids) - 1
    BY <2>2, ClampIs
  <2>5. mode' = Listing(ids, AtMost(IF k < 0 THEN 0 ELSE k, Len(ids) - 1))
    BY <2>1, <2>3 DEF Listing
  <2>6. QED
    BY <2>2, <2>4, <2>5, ListingIs
<1>3. CASE Load
  <2>1. PICK i \in DOMAIN files : mode' = Playing(files[i].size, 0, FALSE)
    BY <1>3 DEF Load
  <2>2. files[i] \in File(saves)
    BY <2>1, ElementOfSeq DEF DataOK
  <2>3. files[i].size \in Nat /\ 0 < files[i].size
    BY <2>2, RecordingAssumption DEF File
  <2>4. QED
    BY <2>1, <2>3, PlayingIs
<1>4. CASE Delete
  <2>1. PICK ids \in Seq(Nat), i \in Nat : mode = Listing(ids, i)
    BY <1>4, ModeIs DEF Delete, HasSelection
  <2>2. ListOf(files') \in Seq(Nat) /\ Len(ListOf(files')) = Len(files') /\ Len(files') \in Nat
    BY ListOfIs DEF DataOK
  <2>3. Reselected(Len(files')) \in Nat
        /\ (Reselected(Len(files')) = 0 \/ Reselected(Len(files')) < Len(files'))
    BY <2>1, <2>2 DEF Reselected, AtMost, Listing
  <2>4. QED
    BY <1>4, <2>2, <2>3, ListingIs DEF Delete
<1>5. QED
  BY <1>1, <1>2, <1>3, <1>4

LEMMA ReplayStep ==
  ASSUME ModeOK, Seek \/ TogglePlay \/ Advance
  PROVE  ModeOK'
<1>1. PICK n \in Nat, i \in Nat, on \in BOOLEAN : mode = Playing(n, i, on) /\ i < n
  BY ModeIs DEF Seek, TogglePlay, Advance
<1>2. mode.size = n /\ mode.index = i /\ mode.playing = on
  BY <1>1 DEF Playing
<1>3. CASE Seek
  <2>1. PICK k \in {i - 1, i + 1, i - Page, i + Page, 0, n - 1} :
          mode' = [mode EXCEPT !.index = AtMost(IF k < 0 THEN 0 ELSE k, n - 1)]
    BY <1>2, <1>3 DEF Seek
  <2>2. k \in Int /\ n \in Nat \ {0}
    BY <1>1, <2>1, RecordingAssumption
  <2>3. AtMost(IF k < 0 THEN 0 ELSE k, n - 1) \in 0..n - 1
    BY <2>2, ClampIs
  <2>4. mode' = Playing(n, AtMost(IF k < 0 THEN 0 ELSE k, n - 1), on)
    BY <1>1, <2>1 DEF Playing
  <2>5. QED
    BY <2>3, <2>4, PlayingIs
<1>4. CASE TogglePlay
  <2>1. mode' = Playing(n, i, ~on)
    BY <1>1, <1>2, <1>4 DEF TogglePlay, Playing
  <2>2. (~on) \in BOOLEAN
    BY Zenon
  <2>3. QED
    BY <1>1, <2>1, <2>2, PlayingIs
<1>5. CASE Advance
  <2>1. (i < n - 1 /\ mode' = Playing(n, i + 1, on)) \/ mode' = Playing(n, i, FALSE)
    BY <1>1, <1>2, <1>5 DEF Advance, Playing
  <2>2. CASE i < n - 1 /\ mode' = Playing(n, i + 1, on)
    <3>1. i + 1 \in Nat /\ i + 1 < n
      BY <2>2
    <3>2. QED
      BY <2>2, <3>1, PlayingIs
  <2>3. CASE mode' = Playing(n, i, FALSE)
    <3>1. FALSE \in BOOLEAN
      BY Zenon
    <3>2. QED
      BY <1>1, <2>3, <3>1, PlayingIs
  <2>4. QED
    BY <2>1, <2>2, <2>3
<1>6. QED
  BY <1>3, <1>4, <1>5

LEMMA ModeStep ==
  ASSUME DataOK, ModeOK, [RecordingNext]_recordingVars, DataOK'
  PROVE  ModeOK'
<1>1. CASE OpenList \/ Select \/ Load \/ Delete
  BY <1>1, ListStep
<1>2. CASE Seek \/ TogglePlay \/ Advance
  BY <1>2, ReplayStep
<1>3. CASE BackToLive
  BY <1>3 DEF BackToLive, ModeOK
<1>4. CASE Tick \/ Watch \/ Unwatch \/ Filter \/ Pod \/ UNCHANGED recordingVars
  <2>1. mode' = mode
    BY <1>4 DEF Tick, LiveTick, OtherTick, Watch, Unwatch, Filter, Pod, Spawn, Exit,
       OtherDeletes, recordingVars
  <2>2. QED
    BY <2>1 DEF ModeOK
<1>5. QED
  BY <1>1, <1>2, <1>3, <1>4 DEF RecordingNext, Keys

LEMMA RecordingStart == RecordingInit => RecordingInv
<1>1. SUFFICES ASSUME RecordingInit
               PROVE  RecordingInv
  OBVIOUS
<1>2. files \in Seq(File(0)) /\ saves = 0 /\ Len(files) \in Nat
  <2>1. CASE files = <<>>
    BY <1>1, <2>1 DEF RecordingInit
  <2>2. CASE files # <<>>
    <3>1. PICK n \in 1..AtMost(Window, MaxStorage) : files = <<[id |-> 0, size |-> n]>>
      BY <1>1, <2>2 DEF RecordingInit
    <3>2. [id |-> 0, size |-> n] \in File(0)
      BY <3>1, RecordingAssumption DEF File, AtMost
    <3>3. QED
      BY <1>1, <3>1, <3>2 DEF RecordingInit
  <2>3. QED
    BY <2>1, <2>2
<1>3. Watched = {}
  BY <1>1 DEF RecordingInit, Watched
<1>4. DataOK
  <2>1. \A p \in Pids : (IF p \in living THEN 1 ELSE 0) \in Births
    BY <1>1, RecordingAssumption DEF RecordingInit, Births
  <2>2. QED
    BY <1>1, <1>2, <2>1, RecordingAssumption DEF RecordingInit, DataOK, Births, Long
<1>5. Spent /\ Passed
  BY <1>1, <1>3, FS_EmptySet DEF RecordingInit, Spent, Passed
<1>6. ModeOK
  <2>1. ListOf(files) \in Seq(Nat)
    BY <1>2, ListOfIs
  <2>2. \A i \in DOMAIN files : files[i].size \in Nat /\ 0 < files[i].size
    <3>1. ASSUME NEW i \in DOMAIN files
          PROVE  files[i] \in File(0)
      BY <1>2, <3>1, ElementOfSeq
    <3>2. QED
      BY <3>1, RecordingAssumption DEF File
  <2>3. QED
    BY <1>1, <2>1, <2>2 DEF RecordingInit, ModeOK
<1>7. QED
  BY <1>1, <1>4, <1>5, <1>6, RoomAtStart DEF RecordingInv

LEMMA RecordingInvariance == RecordingSpec => []RecordingInv
<1>1. RecordingInv /\ [RecordingNext]_recordingVars => RecordingInv'
  BY DataStep, ModeStep, TickMakesRoom, OthersLeaveRoom DEF RecordingInv
<1>2. QED
  BY <1>1, RecordingStart, PTL DEF RecordingSpec

-----------------------------------------------------------------------------
\* recording.rs 71-76: the window holds no more than max_snapshots, and files,
\* counts and clocks have their types.
THEOREM RecordingTypeCorrect == RecordingSpec => []RecordingTypeOK
<1>1. RecordingInv => RecordingTypeOK
  <2>1. SUFFICES ASSUME RecordingInv
                 PROVE  RecordingTypeOK
    OBVIOUS
  <2>2. saves \in 0..MaxWatches
    <3>1. /\ Cardinality(Watched) \in Nat /\ saves \in Nat /\ watches \in 0..MaxWatches
          /\ saves + Cardinality(Watched) =< watches
      BY <2>1, FS_CardinalityType DEF RecordingInv, Spent, DataOK
    <3>2. QED
      BY <3>1, RecordingAssumption
  <2>3. QED
    BY <2>1, <2>2 DEF RecordingInv, DataOK, File, RecordingTypeOK
<1>2. QED
  BY <1>1, RecordingInvariance, PTL

\* main.rs 183-264 and 384-428: selection and position stay in what is shown,
\* whatever is deleted meanwhile and however far a key jumps.
THEOREM PlayingInRange == RecordingSpec => []PlaysInRange
<1>1. RecordingInv => PlaysInRange
  <2>1. SUFFICES ASSUME RecordingInv
                 PROVE  PlaysInRange
    OBVIOUS
  <2>2. ModeOK
    BY <2>1 DEF RecordingInv
  <2>3. mode.kind = "list" => mode.selected = 0 \/ mode.selected < Len(mode.ids)
    BY <2>2, ModeIs DEF Listing
  <2>4. mode.kind = "replay" => mode.index \in 0..(mode.size - 1)
    <3>1. SUFFICES ASSUME mode.kind = "replay"
                   PROVE  mode.index \in 0..(mode.size - 1)
      OBVIOUS
    <3>2. PICK n \in Nat, i \in Nat, on \in BOOLEAN : mode = Playing(n, i, on) /\ i < n
      BY <2>2, <3>1, ModeIs
    <3>3. QED
      BY <3>2 DEF Playing
  <2>5. QED
    BY <2>3, <2>4 DEF PlaysInRange
<1>2. QED
  BY <1>1, RecordingInvariance, PTL

\* app.rs 166-178 and 259-281: no watch is recorded twice, for any pids,
\* recycled as often as they may be.
THEOREM RecordedOnce == RecordingSpec => []OncePerWatch
<1>1. RecordingInv => OncePerWatch
  BY DEF RecordingInv, Spent, OncePerWatch
<1>2. QED
  BY <1>1, RecordingInvariance, PTL

\* recording.rs 83-88: the debounce swallows no recording, because a pid that
\* was just saved is not on the list for at least a tick.
THEOREM SeenExitSaved == RecordingSpec => SeenExitIsSaved
<1>1. RecordingInv /\ [RecordingNext]_recordingVars =>
        [LiveTick /\ kept > 0 => saves' = saves + Cardinality(Gone)]_recordingVars
  <2>1. SUFFICES ASSUME DataOK, Passed, LiveTick, kept > 0
                 PROVE  saves' = saves + Cardinality(Gone)
    BY DEF RecordingInv
  <2>2. PICK dt \in 1..Long : saves' = saves + Cardinality(Saved(dt))
    BY <2>1 DEF LiveTick
  <2>3. QED
    BY <2>1, <2>2, GoneIsSaved
<1>2. QED
  BY <1>1, RecordingInvariance, PTL DEF RecordingSpec, SeenExitIsSaved

\* recording.rs 206-245 and 128: what is kept never exceeds the cap, whoever
\* deletes, and the recording that makes room is not deleted for it.
THEOREM RoomMade == RecordingSpec => RoomIsMade
<1>1. RecordingInv /\ [RecordingNext]_recordingVars =>
        [/\ Total(files') <= MaxStorage
         /\ saves' > saves /\ kept <= MaxStorage =>
                files' # <<>> /\ files'[Len(files')].id = saves']_recordingVars
  <2>1. SUFFICES ASSUME DataOK, Spent, Room, [RecordingNext]_recordingVars
                 PROVE  /\ Total(files') <= MaxStorage
                        /\ saves' > saves /\ kept <= MaxStorage =>
                               files' # <<>> /\ files'[Len(files')].id = saves'
    BY DEF RecordingInv
  <2>2. CASE LiveTick
    BY <2>1, <2>2, TickMakesRoom DEF Room
  <2>3. CASE ~LiveTick
    <3>1. Room' /\ saves' = saves /\ saves \in Nat
      BY <2>1, <2>3, OthersLeaveRoom DEF DataOK
    <3>2. QED
      BY <3>1 DEF Room
  <2>4. QED
    BY <2>2, <2>3
<1>2. QED
  BY <1>1, RecordingInvariance, PTL DEF RecordingSpec, RoomIsMade
=============================================================================
