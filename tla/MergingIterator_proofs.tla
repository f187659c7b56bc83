------------------------ MODULE MergingIterator_proofs ------------------------
(****************************************************************************)
(* Proofs about MergingIterator, for any tables, keys, prefixes and bounds: *)
(* a scan returns exactly the live keys of the prefix, in order, with their *)
(* newest values, and the point lookups agree with it.                      *)
(****************************************************************************)
EXTENDS MergingIterator, LSMTables_proofs

------------------------------------------------------------------------------
(* The inductive invariant *)

\* What the scan has captured.
Inputs ==
  /\ memtables \in Seq(Tables) /\ levelZero \in Seq(Tables) /\ levelOne \in Seq(Tables)
  /\ \A i, j \in 1..Len(levelOne) : i < j => \A a \in KeysOf(levelOne[i]), b \in KeysOf(levelOne[j]) : a < b
  /\ lo \in Nat /\ hi \in Nat
  /\ sources = memtables \o levelZero \o Overlapping(levelOne, lo, hi)

Records == [key : Nat, val : Vals \cup {None}]
TypeInv == returned \in Seq(Records) /\ current \in Records /\ step \in {"find", "valid", "done"}

\* All that has been found, whether or not it has been handed out.
Found == IF step = "valid" THEN Append(returned, current) ELSE returned

\* The scan has passed the keys below f in every table: the cursors are at the
\* others, and what has been found are the live ones of the keys it has passed.
Passed(f) ==
  /\ iters = [i \in DOMAIN sources |-> {k \in KeysOf(sources[i]) : k >= f}]
  /\ Found = PartAt(Entry, {k \in Live : k < f})
  /\ step = "done" => \A k \in Live : k < f

Inv == Inputs /\ TypeInv /\ \E f \in Nat : f >= lo /\ Passed(f)

------------------------------------------------------------------------------
(* The captured tables *)

\* Keys are naturals, and a set of them is finite.
LEMMA KeysAre ==
  ASSUME NEW S \in SUBSET Keys
  PROVE  S \in SUBSET Nat /\ IsFiniteSet(S) /\ Cardinality(S) \in Nat
BY TablesAssumption, FS_Subset, FS_CardinalityType DEF TablesAssumption

\* Leaving out the Level 1 files that do not meet the prefix changes nothing for
\* its keys.
LEMMA OverlappingIsEnough ==
  ASSUME NEW files \in Seq(Tables), NEW a \in Nat, NEW b \in Nat
  PROVE  /\ Overlapping(files, a, b) \in Seq(Tables)
         /\ \A k \in Keys : a <= k /\ k <= b => FirstEntry(Overlapping(files, a, b), k) = FirstEntry(files, k)
<1> DEFINE P == {i \in DOMAIN files : Max(KeysOf(files[i])) >= a /\ Min(KeysOf(files[i])) <= b}
           c == Cardinality(P)
           o == Overlapping(files, a, b)
<1>1. Len(files) \in Nat /\ DOMAIN files = 1..Len(files) /\ P \in SUBSET Nat /\ P \in SUBSET 1..Len(files)
  OBVIOUS
<1>2. IsFiniteSet(1..Len(files))
  BY <1>1, FS_Interval
<1>3. IsFiniteSet(P)
  BY <1>1, <1>2, FS_Subset
<1>4. /\ c \in Nat /\ o = [n \in 1..c |-> files[PositionAt(P, n)]]
      /\ \A n \in 1..c : PositionAt(P, n) \in P
  <2> HIDE DEF P
  <2> QED BY <1>1, <1>3, PartAtIsPart DEF Overlapping, P
<1>5. o \in Seq(Tables) /\ Len(o) = c
  <2>1. \A n \in 1..c : files[PositionAt(P, n)] \in Tables
    <3>1. \A i \in 1..Len(files) : files[i] \in Tables
      OBVIOUS
    <3> HIDE DEF P, c
    <3>2. \A n \in 1..c : PositionAt(P, n) \in 1..Len(files)
      BY <1>1, <1>4
    <3> QED BY <3>1, <3>2
  <2> HIDE DEF P, c, o
  <2>2. o \in [1..c -> Tables]
    BY <1>4, <2>1
  <2> QED BY <1>4, <2>2
<1>6. ASSUME NEW k \in Keys, a <= k, k <= b PROVE FirstEntry(o, k) = FirstEntry(files, k)
  <2>1. CASE FirstEntry(files, k) = None
    <3>1. \A i \in 1..Len(files) : files[i][k] = None
      BY <2>1, FirstEntryIs
    <3>2. \A n \in 1..c : o[n][k] = None
      <4> HIDE DEF P, c, o
      <4> QED BY <1>1, <1>4, <3>1
    <3>3. FirstEntry(o, k) = None
      <4> HIDE DEF P, c, o
      <4> QED BY <1>5, <3>2, FirstEntryIs
    <3> QED BY <2>1, <3>3
  <2>2. CASE FirstEntry(files, k) # None
    <3>1. PICK i \in 1..Len(files) : /\ FirstEntry(files, k) = files[i][k] /\ files[i][k] # None
                                     /\ \A j \in 1..Len(files) : j < i => files[j][k] = None
      BY <2>2, FirstEntryIs
    <3>2. i \in P
      <4> DEFINE S == KeysOf(files[i])
      <4>1. k \in S /\ S \in SUBSET Keys
        BY <3>1 DEF KeysOf
      <4>2. S \in SUBSET Nat /\ IsFiniteSet(S)
        BY <4>1, KeysAre
      <4> HIDE DEF S
      <4>3. Max(S) \in Nat /\ Min(S) \in Nat /\ Max(S) >= k /\ Min(S) <= k
        BY <4>1, <4>2, MaxOf, MinOf
      <4>4. k \in Nat
        BY <4>1, <4>2
      <4>5. Max(S) >= a /\ Min(S) <= b
        BY <1>6, <4>3, <4>4
      <4> QED BY <1>1, <4>5 DEF S
    <3> DEFINE n == Cardinality({j \in P : j <= i})
    <3> HIDE DEF P
    <3>3. n \in 1..c /\ PositionAt(P, n) = i
      BY <1>1, <1>3, <3>2, PositionIs
    <3> HIDE DEF n, c, o
    <3>4. o[n] = files[i]
      BY <1>4, <3>3
    <3>5. ASSUME NEW j \in 1..c, j < n PROVE o[j][k] = None
      <4>1. PositionAt(P, j) < i
        BY <1>1, <1>3, <3>3, <3>5, PartAtInOrder DEF c
      <4>2. PositionAt(P, j) \in 1..Len(files) /\ o[j] = files[PositionAt(P, j)]
        BY <1>1, <1>4
      <4> QED BY <3>1, <4>1, <4>2
    <3>6. FirstEntry(o, k) = o[n][k]
      BY <1>5, <3>1, <3>3, <3>4, <3>5, FirstEntryAt
    <3> QED BY <3>1, <3>4, <3>6
  <2> QED BY <2>1, <2>2
<1> QED BY <1>5, <1>6

\* For a key of the prefix the sources hold what the captured state holds.
LEMMA SourcesAreEnough ==
  ASSUME Inputs
  PROVE  /\ sources \in Seq(Tables)
         /\ \A k \in Keys : lo <= k /\ k <= hi => Newest(k) = Answer(FirstEntry(sources, k))
<1> DEFINE m == memtables \o levelZero
           o == Overlapping(levelOne, lo, hi)
<1>1. m \in Seq(Tables) /\ o \in Seq(Tables) /\ levelOne \in Seq(Tables) /\ sources = m \o o
  BY OverlappingIsEnough, ConcatProperties DEF Inputs
<1>2. sources \in Seq(Tables)
  <2> HIDE DEF m, o
  <2> QED BY <1>1, ConcatProperties
<1>3. ASSUME NEW k \in Keys, lo <= k, k <= hi PROVE Newest(k) = Answer(FirstEntry(sources, k))
  <2>1. FirstEntry(o, k) = FirstEntry(levelOne, k)
    BY <1>3, OverlappingIsEnough DEF Inputs
  <2> HIDE DEF m, o
  <2>2. FirstEntry(m \o o, k) = FirstEntry(m \o levelOne, k)
    BY <1>1, <2>1, FirstEntryConcat
  <2> QED BY <1>1, <2>2 DEF Newest, m
<1> QED BY <1>2, <1>3

------------------------------------------------------------------------------
(* The scan *)

\* An entry of the captured state, as a Get would answer it.
LEMMA NewestType ==
  ASSUME Inputs, NEW k \in Keys
  PROVE  Newest(k) \in Vals \cup {None}
<1> DEFINE all == memtables \o levelZero \o levelOne
<1>1. all \in Seq(Tables)
  BY ConcatProperties DEF Inputs
<1> HIDE DEF all
<1>2. FirstEntry(all, k) \in Entries
  <2>1. FirstEntry(all, k) = None \/ \E i \in 1..Len(all) : FirstEntry(all, k) = all[i][k]
    BY <1>1, FirstEntryIs
  <2>2. \A i \in 1..Len(all) : all[i] \in Tables
    BY <1>1
  <2> QED BY <2>1, <2>2 DEF Tables, Entries
<1> QED BY <1>2, TablesAssumption DEF Newest, Answer, Entries, all, TablesAssumption

\* The live keys.
LEMMA LiveAre ==
  ASSUME Inputs
  PROVE  /\ Live \in SUBSET Keys /\ Live \in SUBSET Nat /\ IsFiniteSet(Live)
         /\ \A k \in Live : lo <= k /\ k <= hi /\ Newest(k) \in Vals
         /\ \A k \in Keys : k \in Live <=> lo <= k /\ k <= hi /\ Newest(k) # None
<1>1. Live \in SUBSET Keys
  BY DEF Live
<1>2. Live \in SUBSET Nat /\ IsFiniteSet(Live)
  BY <1>1, KeysAre
<1>3. \A k \in Keys : k \in Nat
  BY KeysAre
<1>4. \A k \in Keys : k \in Live <=> lo <= k /\ k <= hi /\ Newest(k) # None
  BY <1>3 DEF Live, Inputs
<1>5. \A k \in Live : Newest(k) \in Vals
  BY <1>1, <1>4, NewestType
<1> QED BY <1>1, <1>2, <1>4, <1>5

\* A live key that has not been passed is under a cursor.
LEMMA LiveRemains ==
  ASSUME Inputs, NEW f \in Nat, iters = [i \in DOMAIN sources |-> {k \in KeysOf(sources[i]) : k >= f}],
         NEW k \in Live, k >= f
  PROVE  k \in Remaining
<1>1. k \in Keys /\ lo <= k /\ k <= hi /\ Newest(k) # None
  BY LiveAre
<1>2. sources \in Seq(Tables) /\ Newest(k) = Answer(FirstEntry(sources, k))
  BY <1>1, SourcesAreEnough
<1>3. FirstEntry(sources, k) # None
  BY <1>1, <1>2 DEF Answer
<1>4. PICK i \in 1..Len(sources) : sources[i][k] # None
  BY <1>1, <1>2, <1>3, FirstEntryIs
<1>5. i \in DOMAIN sources /\ k \in KeysOf(sources[i])
  BY <1>1, <1>2, <1>4 DEF KeysOf
<1>6. i \in DOMAIN iters /\ k \in iters[i]
  BY <1>5
<1> QED BY <1>6 DEF Remaining, Range

\* What is under the cursors.
LEMMA RemainingAre ==
  ASSUME Inputs, NEW f \in Nat, iters = [i \in DOMAIN sources |-> {k \in KeysOf(sources[i]) : k >= f}]
  PROVE  /\ Remaining \in SUBSET Keys /\ Remaining \in SUBSET Nat
         /\ \A k \in Remaining : k >= f
         /\ \A i \in DOMAIN sources : \A k \in KeysOf(sources[i]) : k >= f => k \in Remaining
<1>1. \A k \in Remaining : \E i \in DOMAIN sources : k \in KeysOf(sources[i]) /\ k >= f
  BY DEF Remaining, Range
<1>2. \A i \in DOMAIN sources : \A k \in KeysOf(sources[i]) : k >= f => k \in Remaining
  BY DEF Remaining, Range
<1>3. Remaining \in SUBSET Keys
  BY <1>1 DEF KeysOf
<1> QED BY <1>1, <1>2, <1>3, KeysAre

\* The first of the cursors on the smallest key has its newest entry.
LEMMA WinnerIsNewest ==
  ASSUME Inputs, NEW f \in Nat, f >= lo, iters = [i \in DOMAIN sources |-> {k \in KeysOf(sources[i]) : k >= f}],
         NEW m, m = Min(Remaining), m \in Remaining, m <= hi
  PROVE  /\ Newest(m) = Answer(sources[Winner][m])
         /\ (m \in Live) <=> (sources[Winner][m] # Tomb)
<1>1. m \in Keys /\ m \in Nat /\ m >= f
  BY RemainingAre
<1>2. lo <= m
  BY <1>1 DEF Inputs
<1>3. sources \in Seq(Tables) /\ Newest(m) = Answer(FirstEntry(sources, m))
  BY <1>1, <1>2, SourcesAreEnough
<1> DEFINE on == {i \in DOMAIN iters : m \in iters[i]}
<1>4. DOMAIN sources = 1..Len(sources) /\ Len(sources) \in Nat
  BY <1>3
<1>5. on = {i \in 1..Len(sources) : sources[i][m] # None}
  BY <1>1, <1>4 DEF KeysOf
<1>6. on # {}
  BY DEF Remaining, Range
<1>7. Winner = Min(on)
  BY DEF Winner
<1>8. on \in SUBSET Nat
  BY <1>5
<1> HIDE DEF on
<1>9. Winner \in on /\ \A i \in on : Winner <= i
  BY <1>6, <1>7, <1>8, MinOf
<1> DEFINE w == Winner
<1> HIDE DEF w
<1>10. w \in 1..Len(sources) /\ sources[w][m] # None
  BY <1>5, <1>9 DEF w
<1>11. \A j \in 1..Len(sources) : j < w => sources[j][m] = None
  <2> SUFFICES ASSUME NEW j \in 1..Len(sources), j < w, j \in on PROVE FALSE
    BY <1>5
  <2>1. w <= j
    BY <1>9 DEF w
  <2> QED BY <1>4, <1>10, <2>1
<1>12. FirstEntry(sources, m) = sources[w][m]
  BY <1>1, <1>3, <1>10, <1>11, FirstEntryAt
<1>13. (m \in Live) <=> (sources[w][m] # Tomb)
  <2>1. (m \in Live) <=> (Newest(m) # None)
    BY <1>1, <1>2, LiveAre
  <2> QED BY <1>3, <1>10, <1>12, <2>1, TablesAssumption DEF Answer, TablesAssumption
<1> QED BY <1>3, <1>12, <1>13 DEF w

\* At the start nothing has been passed.
LEMMA InvInit == Init => Inv
<1> SUFFICES ASSUME Init PROVE Inv
  OBVIOUS
<1>1. \A T \in SUBSET Tables : \A n : TableSeqs(T, n) \subseteq Seq(Tables)
  BY DEF TableSeqs
<1>2. memtables \in Seq(Tables) /\ levelZero \in Seq(Tables)
  BY <1>1 DEF Init
<1>3. /\ levelOne \in Seq(Tables)
      /\ \A i, j \in 1..Len(levelOne) : i < j => \A a \in KeysOf(levelOne[i]), b \in KeysOf(levelOne[j]) : a < b
  <2>1. levelOne \in LevelOnes
    BY DEF Init
  <2>2. levelOne \in Seq(Tables)
    BY <1>1, <2>1 DEF LevelOnes
  <2>3. DOMAIN levelOne = 1..Len(levelOne)
    BY <2>2
  <2> QED BY <2>1, <2>2, <2>3 DEF LevelOnes
<1>4. lo \in Nat /\ hi \in Nat
  BY IteratorAssumption DEF Init, IteratorAssumption
<1>5. Inputs
  BY <1>2, <1>3, <1>4 DEF Init, Inputs
<1>6. TypeInv /\ Found = <<>> /\ step = "find"
  BY DEF Init, TypeInv, Found, Records, NoEntry
<1>7. {k \in Live : k < lo} = {}
  BY <1>4, <1>5, LiveAre
<1>8. PartAt(Entry, {}) = <<>>
  BY FS_EmptySet DEF PartAt
<1>9. Passed(lo)
  BY <1>6, <1>7, <1>8 DEF Passed, Init
<1> QED BY <1>4, <1>5, <1>6, <1>9 DEF Inv

\* Every pass of findNext, and Next, keep the invariant.
LEMMA InvStep == Inv /\ [Next]_vars => Inv'
<1> SUFFICES ASSUME Inv, [Next]_vars PROVE Inv'
  OBVIOUS
<1>1. PICK f \in Nat : f >= lo /\ Passed(f)
  BY DEF Inv
<1>2. Inputs /\ TypeInv
  BY DEF Inv
<1>3. UNCHANGED input
  BY DEF Next, FindNext, NextEntry, vars, input
<1>4. Inputs' /\ Live' = Live /\ Entry' = Entry /\ sources' = sources /\ lo' = lo /\ hi' = hi
  BY <1>2, <1>3 DEF Inputs, input, Live, Entry, Newest, FirstEntry, Overlapping
<1> DEFINE S == {k \in Live : k < f}
<1>5. CASE UNCHANGED vars
  BY <1>1, <1>2, <1>4, <1>5 DEF Inv, TypeInv, vars, Passed, Found
<1>6. CASE NextEntry
  <2>1. /\ step = "valid" /\ step' = "find" /\ returned' = Append(returned, current)
        /\ iters' = iters /\ current' = current
    BY <1>6 DEF NextEntry
  <2>2. TypeInv'
    BY <1>2, <2>1 DEF TypeInv
  <2>3. Found' = Found
    BY <2>1 DEF Found
  <2>4. Passed(f)'
    BY <1>1, <1>4, <2>1, <2>3 DEF Passed
  <2> QED BY <1>1, <1>4, <2>2, <2>4 DEF Inv
<1>7. CASE FindNext /\ step' = "done"
  <2>1. (\A k \in Remaining : k > hi) /\ iters' = iters /\ UNCHANGED <<current, returned>> /\ step = "find"
    BY <1>7 DEF FindNext
  <2>2. TypeInv' /\ Found' = Found
    BY <1>2, <1>7, <2>1 DEF TypeInv, Found
  <2>3. ASSUME NEW k \in Live PROVE k < f
    <3>1. k \in Nat /\ k <= hi /\ hi \in Nat
      BY <1>2, LiveAre DEF Inputs
    <3>2. k >= f => k \in Remaining
      BY <1>1, <1>2, LiveRemains DEF Passed
    <3>3. k >= f => k > hi
      BY <2>1, <3>2
    <3> QED BY <3>1, <3>3
  <2>4. Passed(f)'
    BY <1>1, <1>4, <2>1, <2>2, <2>3 DEF Passed
  <2> QED BY <1>1, <1>4, <2>2, <2>4 DEF Inv
<1>8. CASE FindNext /\ step' # "done"
  <2>0. PICK m : m = Min(Remaining)
    OBVIOUS
  <2>1. /\ (\E k \in Remaining : k <= hi) /\ iters' = Advanced /\ step = "find" /\ returned' = returned
        /\ \/ IsDeleted /\ UNCHANGED <<step, current>>
           \/ /\ ~IsDeleted /\ step' = "valid"
              /\ current' = [key |-> m, val |-> sources[Winner][m]]
    BY <1>8, <2>0 DEF FindNext
  <2>2. /\ Remaining \in SUBSET Keys /\ Remaining \in SUBSET Nat /\ (\A k \in Remaining : k >= f)
        /\ \A i \in DOMAIN sources : \A k \in KeysOf(sources[i]) : k >= f => k \in Remaining
    BY <1>1, <1>2, RemainingAre DEF Passed
  <2>3. m \in Remaining /\ \A k \in Remaining : m <= k
    BY <2>0, <2>1, <2>2, MinOf
  <2>4. m \in Nat /\ m >= f /\ m <= hi /\ m \in Keys /\ m + 1 \in Nat /\ m + 1 >= lo
    <3>1. PICK k \in Remaining : k <= hi
      BY <2>1
    <3>2. m <= k /\ k \in Nat /\ m \in Nat /\ m >= f /\ m \in Keys
      BY <2>2, <2>3
    <3> QED BY <1>1, <1>2, <3>1, <3>2 DEF Inputs
  <2>5. /\ Newest(m) = Answer(sources[Winner][m])
        /\ (m \in Live) <=> (sources[Winner][m] # Tomb)
    BY <1>1, <1>2, <2>0, <2>3, <2>4, WinnerIsNewest DEF Passed
  <2>6. IsDeleted <=> sources[Winner][m] = Tomb
    BY <2>0 DEF IsDeleted
  <2>7. iters' = [i \in DOMAIN sources |-> {k \in KeysOf(sources[i]) : k >= m + 1}]
    <3>1. iters' = [i \in DOMAIN sources |-> {k \in KeysOf(sources[i]) : k >= f} \ {m}]
      BY <1>1, <2>0, <2>1 DEF Advanced, Passed
    <3>2. ASSUME NEW i \in DOMAIN sources, NEW k \in KeysOf(sources[i])
          PROVE  (k >= f /\ k # m) <=> (k >= m + 1)
      <4>1. k \in Nat
        BY KeysAre DEF KeysOf
      <4>2. k >= f => m <= k
        BY <2>2, <2>3
      <4> QED BY <2>4, <4>1, <4>2
    <3>3. ASSUME NEW i \in DOMAIN sources
          PROVE  {k \in KeysOf(sources[i]) : k >= f} \ {m} = {k \in KeysOf(sources[i]) : k >= m + 1}
      BY <3>2
    <3> QED BY <3>1, <3>3
  <2>8. ASSUME NEW k \in Live PROVE k < m + 1 <=> k < f \/ k = m
    <3>1. k \in Nat
      BY <1>2, LiveAre
    <3>2. k >= f => m <= k
      BY <1>1, <1>2, <2>3, LiveRemains DEF Passed
    <3> QED BY <2>4, <3>1, <3>2
  <2>9. {k \in Live : k < m + 1} = IF m \in Live THEN S \cup {m} ELSE S
    <3> QED BY <2>8
  <2>10. S \in SUBSET Nat /\ IsFiniteSet(S) /\ \A k \in S : k < m
    <3>1. S \in SUBSET Live /\ S \in SUBSET Nat /\ IsFiniteSet(Live)
      BY <1>2, LiveAre
    <3>2. IsFiniteSet(S)
      BY <3>1, FS_Subset
    <3> QED BY <2>4, <3>1, <3>2
  <2>11. returned = PartAt(Entry, S)
    BY <1>1, <2>1 DEF Passed, Found
  <2>12. CASE IsDeleted
    <3>1. UNCHANGED <<step, current>> /\ m \notin Live
      BY <2>1, <2>5, <2>6, <2>12
    <3>2. TypeInv' /\ Found' = returned
      BY <1>2, <2>1, <3>1 DEF TypeInv, Found
    <3>3. Passed(m + 1)'
      <4> HIDE DEF S
      <4> QED BY <1>4, <2>1, <2>7, <2>9, <2>11, <3>1, <3>2 DEF Passed
    <3> QED BY <1>4, <2>4, <3>2, <3>3 DEF Inv
  <2>13. CASE ~IsDeleted
    <3>1. step' = "valid" /\ current' = [key |-> m, val |-> sources[Winner][m]] /\ m \in Live
      BY <2>1, <2>5, <2>6, <2>13
    <3>2. sources[Winner][m] = Newest(m) /\ Newest(m) \in Vals
      BY <1>2, <2>5, <2>6, <2>13, <3>1, LiveAre DEF Answer
    <3>3. current' = Entry[m]
      BY <2>4, <3>1, <3>2 DEF Entry
    <3>4. TypeInv'
      BY <1>2, <2>1, <2>4, <3>1, <3>2 DEF TypeInv, Records
    <3>5. Found' = Append(PartAt(Entry, S), Entry[m])
      BY <2>1, <2>11, <3>1, <3>3 DEF Found
    <3>6. Found' = PartAt(Entry, S \cup {m})
      <4> HIDE DEF S
      <4> QED BY <2>4, <2>10, <3>5, PartAtAppend
    <3>7. Passed(m + 1)'
      <4> HIDE DEF S
      <4> QED BY <1>4, <2>1, <2>7, <2>9, <3>1, <3>6 DEF Passed
    <3> QED BY <1>4, <2>4, <3>4, <3>7 DEF Inv
  <2> QED BY <2>12, <2>13
<1> QED BY <1>5, <1>6, <1>7, <1>8 DEF Next

------------------------------------------------------------------------------
(* Theorems *)

\* The invariant holds throughout every scan.
LEMMA InvHolds == Spec => []Inv
BY InvInit, InvStep, PTL DEF Spec

\* What has been found is the first part of what is expected.
LEMMA FoundIsPrefix ==
  ASSUME Inv
  PROVE  /\ Expected \in Seq(Records) /\ Found \in Seq(Records) /\ Len(Found) <= Len(Expected)
         /\ \A n \in 1..Len(Found) : Found[n] = Expected[n]
         /\ \A n \in 1..Len(Expected) : Expected[n].key \in Live /\ Expected[n].val \in Vals
         /\ step = "done" => Found = Expected
<1>1. PICK f \in Nat : f >= lo /\ Passed(f)
  BY DEF Inv
<1>2. Inputs
  BY DEF Inv
<1> DEFINE S == {k \in Live : k < f}
<1>3. /\ Live \in SUBSET Keys /\ Live \in SUBSET Nat /\ IsFiniteSet(Live)
      /\ \A k \in Live : Newest(k) \in Vals
  BY <1>2, LiveAre
<1>4. S \in SUBSET Live /\ \A q \in S, j \in Live : j < q => j \in S
  <2>1. ASSUME NEW q \in S, NEW j \in Live, j < q PROVE j < f
    <3>1. q \in Nat /\ j \in Nat /\ q < f
      BY <1>3
    <3> QED BY <2>1, <3>1
  <2> QED BY <2>1
<1> HIDE DEF S
<1>5. /\ IsFiniteSet(S) /\ Cardinality(S) \in Nat /\ Cardinality(Live) \in Nat /\ Cardinality(S) <= Cardinality(Live)
      /\ \A n \in 1..Cardinality(S) : PositionAt(S, n) = PositionAt(Live, n)
  BY <1>3, <1>4, PartAtInitial
<1>6. /\ Expected = [n \in 1..Cardinality(Live) |-> Entry[PositionAt(Live, n)]]
      /\ \A n \in 1..Cardinality(Live) : PositionAt(Live, n) \in Live
  BY <1>3, PartAtIsPart DEF Expected
<1>7. Found = [n \in 1..Cardinality(S) |-> Entry[PositionAt(S, n)]]
  <2>1. S \in SUBSET Nat
    BY <1>3, <1>4
  <2>2. Found = PartAt(Entry, S)
    BY <1>1 DEF Passed, S
  <2> QED BY <1>5, <2>1, <2>2, PartAtIsPart
<1>8. \A k \in Live : Entry[k] \in Records /\ Entry[k].key = k /\ Entry[k].val \in Vals
  BY <1>3 DEF Entry, Records
<1>9. /\ Expected \in [1..Cardinality(Live) -> Records]
      /\ \A n \in 1..Cardinality(Live) : Expected[n].key \in Live /\ Expected[n].val \in Vals
  BY <1>6, <1>8
<1>10. Found \in [1..Cardinality(S) -> Records] /\ \A n \in 1..Cardinality(S) : Found[n] = Expected[n]
  <2>1. \A n \in 1..Cardinality(S) : n \in 1..Cardinality(Live)
    BY <1>5
  <2>2. \A n \in 1..Cardinality(S) : PositionAt(S, n) \in Live
    BY <1>5, <1>6, <2>1
  <2> QED BY <1>5, <1>6, <1>7, <1>8, <2>1, <2>2
<1>11. /\ Expected \in Seq(Records) /\ Len(Expected) = Cardinality(Live)
       /\ Found \in Seq(Records) /\ Len(Found) = Cardinality(S)
  BY <1>5, <1>9, <1>10
<1>12. step = "done" => Found = Expected
  <2> SUFFICES ASSUME step = "done" PROVE Found = Expected
    OBVIOUS
  <2>1. S = Live
    BY <1>1 DEF Passed, S
  <2> QED BY <1>6, <1>7, <2>1
<1> QED BY <1>5, <1>9, <1>10, <1>11, <1>12

\* So is what Next has returned.
LEMMA ReturnedIsPrefix ==
  ASSUME Inv
  PROVE  /\ returned \in Seq(Records) /\ Len(returned) <= Len(Expected)
         /\ \A n \in 1..Len(returned) : returned[n] = Expected[n] /\ n \in 1..Len(Expected)
<1>1. returned \in Seq(Records) /\ current \in Records /\ Expected \in Seq(Records)
  BY FoundIsPrefix DEF Inv, TypeInv
<1>2. Len(returned) \in Nat /\ Len(Expected) \in Nat
  BY <1>1
<1>3. Len(returned) <= Len(Found) /\ Len(Found) \in Nat /\ \A n \in 1..Len(returned) : returned[n] = Found[n]
  <2>1. CASE step = "valid"
    <3>1. Found = Append(returned, current)
      BY <2>1 DEF Found
    <3> QED BY <1>1, <1>2, <3>1, AppendProperties
  <2>2. CASE step # "valid"
    BY <1>2, <2>2 DEF Found
  <2> QED BY <2>1, <2>2
<1>4. Len(Found) <= Len(Expected) /\ \A n \in 1..Len(Found) : Found[n] = Expected[n]
  BY FoundIsPrefix
<1>5. \A n \in 1..Len(returned) : n \in 1..Len(Found) /\ n \in 1..Len(Expected)
  BY <1>2, <1>3, <1>4
<1> QED BY <1>1, <1>2, <1>3, <1>4, <1>5

\* Type correctness of the cursors of a scan, and of what it has returned: keys
\* of the prefix with values.
THEOREM TypeCorrect == Spec => []TypeOK
<1>1. Inv => TypeOK
  <2> SUFFICES ASSUME Inv PROVE TypeOK
    OBVIOUS
  <2>1. PICK f \in Nat : Passed(f)
    BY DEF Inv
  <2>2. \A i \in DOMAIN iters : iters[i] \subseteq Keys
    BY <2>1 DEF Passed, KeysOf
  <2>3. step \in {"find", "valid", "done"}
    BY DEF Inv, TypeInv
  <2>4. ASSUME NEW i \in DOMAIN returned PROVE returned[i].key \in lo..hi /\ returned[i].val \in Vals
    <3>1. i \in 1..Len(returned)
      BY ReturnedIsPrefix
    <3>2. returned[i] = Expected[i] /\ i \in 1..Len(Expected)
      BY <3>1, ReturnedIsPrefix
    <3>3. returned[i].key \in Live /\ returned[i].val \in Vals
      BY <3>2, FoundIsPrefix
    <3> QED BY <3>3 DEF Live
  <2> QED BY <2>2, <2>3, <2>4 DEF TypeOK
<1> QED BY <1>1, InvHolds, PTL

\* scanInternal, findNext and Next return the live keys of the prefix, all of
\* them, in order and with their newest values, however many tables there are.
THEOREM ScanReturnsLiveKeys == Spec => []ScanIsExact
<1>1. Inv => ScanIsExact
  <2> SUFFICES ASSUME Inv PROVE ScanIsExact
    OBVIOUS
  <2>1. /\ returned \in Seq(Records) /\ Expected \in Seq(Records) /\ Len(returned) <= Len(Expected)
        /\ \A n \in 1..Len(returned) : returned[n] = Expected[n] /\ n \in 1..Len(Expected)
    BY ReturnedIsPrefix, FoundIsPrefix
  <2>2. SubSeq(returned, 1, Len(returned)) = SubSeq(Expected, 1, Len(returned))
    <3>1. Len(returned) \in Nat
      BY <2>1
    <3>2. SubSeq(returned, 1, Len(returned)) = [i \in 1..Len(returned) |-> returned[i]]
      BY <2>1, <3>1
    <3>3. SubSeq(Expected, 1, Len(returned)) = [i \in 1..Len(returned) |-> Expected[i]]
      BY <2>1, <3>1
    <3> QED BY <2>1, <3>2, <3>3
  <2>3. step = "done" => returned = Expected
    BY FoundIsPrefix DEF Found
  <2> QED BY <2>1, <2>2, <2>3 DEF ScanIsExact, IsPrefix
<1> QED BY <1>1, InvHolds, PTL

\* The levels as searchLevels goes through them: the newest file of Level 0
\* first, and the binary search in Level 1.
LEMMA LevelsAreSearched ==
  ASSUME Inputs, NEW k \in Keys
  PROVE  InLevels(k) = FirstEntry(levelZero \o levelOne, k)
<1> DEFINE files == levelZero \o levelOne
           ids0 == [i \in DOMAIN levelZero |-> i]
           ids1 == [i \in DOMAIN levelOne |-> Len(levelZero) + i]
           n == Len(levelZero)
<1>1. /\ levelZero \in Seq(Tables) /\ levelOne \in Seq(Tables) /\ n \in Nat /\ Len(levelOne) \in Nat
      /\ DOMAIN levelZero = 1..n /\ DOMAIN levelOne = 1..Len(levelOne)
  BY DEF Inputs
<1>2. /\ \A i \in 1..n : files[i] = levelZero[i]
      /\ \A i \in 1..Len(levelOne) : files[n + i] = levelOne[i]
  <2>1. Len(files) = n + Len(levelOne) /\ \A i \in 1..Len(files) : files[i] = IF i <= n THEN levelZero[i] ELSE levelOne[i - n]
    BY <1>1, ConcatProperties
  <2> HIDE DEF files, n
  <2>2. \A i \in 1..n : i \in 1..Len(files) /\ i <= n
    BY <1>1, <2>1
  <2>3. \A i \in 1..Len(levelOne) : n + i \in 1..Len(files) /\ ~(n + i <= n) /\ (n + i) - n = i
    BY <1>1, <2>1
  <2> QED BY <2>1, <2>2, <2>3
<1> HIDE DEF files
<1>3. TablesOf(files, ids0) = levelZero
  <2>1. TablesOf(files, ids0) = [i \in 1..n |-> levelZero[i]]
    BY <1>1, <1>2 DEF TablesOf
  <2> QED BY <1>1, <2>1
<1>4. TablesOf(files, ids1) = levelOne
  <2>1. TablesOf(files, ids1) = [i \in 1..Len(levelOne) |-> levelOne[i]]
    BY <1>1, <1>2 DEF TablesOf
  <2> QED BY <1>1, <2>1
<1>5. ids1 \in Seq(Nat) /\ Len(ids1) = Len(levelOne) /\ \A i \in 1..Len(levelOne) : files[ids1[i]] = levelOne[i]
  <2>1. ids1 \in [1..Len(levelOne) -> Nat]
    BY <1>1
  <2>2. \A i \in 1..Len(levelOne) : ids1[i] = n + i
    BY <1>1
  <2> HIDE DEF ids1, n
  <2> QED BY <1>1, <1>2, <2>1, <2>2
<1>6. SearchLevel1(files, ids1, k) = FirstEntry(levelOne, k)
  <2>1. \A i, j \in 1..Len(levelOne) : i < j => \A a \in KeysOf(levelOne[i]), b \in KeysOf(levelOne[j]) : a < b
    BY DEF Inputs
  <2>2. \A i \in 1..Len(levelOne) : levelOne[i] \in Tables
    BY <1>1
  <2> HIDE DEF ids1, n
  <2> QED BY <1>4, <1>5, <2>1, <2>2, SearchLevel1IsExact
<1>7. InLevels(k) = IF FirstEntry(levelZero, k) # None THEN FirstEntry(levelZero, k) ELSE FirstEntry(levelOne, k)
  <2>1. InLevels(k) = SearchLevels(files, ids0, ids1, k)
    BY DEF InLevels, files
  <2> HIDE DEF ids0, ids1
  <2> QED BY <1>3, <1>6, <2>1 DEF SearchLevels
<1> QED BY <1>1, <1>7, FirstEntryConcat

\* The direction of the walk does not matter where one memtable has the key.
LEMMA OneMemtableHasIt ==
  ASSUME Inputs, NEW k \in Keys, Cardinality({i \in DOMAIN memtables : memtables[i][k] # None}) <= 1
  PROVE  FirstEntry(Reverse(memtables), k) = FirstEntry(memtables, k)
<1> DEFINE s == memtables
           r == Reverse(s)
           H == {i \in DOMAIN s : s[i][k] # None}
           n == Len(s)
<1>1. s \in Seq(Tables) /\ n \in Nat /\ DOMAIN s = 1..n
  BY DEF Inputs
<1>2. r = [i \in 1..n |-> s[(n - i) + 1]]
  BY <1>1 DEF Reverse
<1>3. \A i \in 1..n : (n - i) + 1 \in 1..n
  BY <1>1
<1> HIDE DEF n, r
<1>4. r \in Seq(Tables) /\ Len(r) = n /\ \A i \in 1..n : r[i] = s[(n - i) + 1]
  <2>1. r \in [1..n -> Tables]
    BY <1>1, <1>2, <1>3 DEF n
  <2> QED BY <1>1, <1>2, <2>1
<1>5. \A i, j \in H : i = j
  <2>1. IsFiniteSet(1..n)
    BY <1>1, FS_Interval
  <2>2. H \in SUBSET 1..n
    BY <1>1
  <2>3. IsFiniteSet(H) /\ Cardinality(H) <= 1
    BY <2>1, <2>2, FS_Subset
  <2> HIDE DEF H
  <2>4. Cardinality(H) \in Nat
    BY <2>3, FS_CardinalityType
  <2>5. Cardinality(H) = 0 \/ Cardinality(H) = 1
    BY <2>3, <2>4
  <2> QED BY <2>3, <2>5, FS_EmptySet, FS_Singleton
<1>6. CASE FirstEntry(s, k) = None
  <2>1. \A i \in 1..n : s[i][k] = None
    BY <1>1, <1>6, FirstEntryIs DEF n
  <2>2. \A i \in 1..n : r[i][k] = None
    BY <1>3, <1>4, <2>1
  <2>3. FirstEntry(r, k) = None
    BY <1>4, <2>2, FirstEntryIs
  <2> QED BY <1>6, <2>3 DEF r
<1>7. CASE FirstEntry(s, k) # None
  <2>1. PICK i \in 1..n : FirstEntry(s, k) = s[i][k] /\ s[i][k] # None
    BY <1>1, <1>7, FirstEntryIs DEF n
  <2> DEFINE h == (n - i) + 1
  <2>2. h \in 1..n /\ (n - h) + 1 = i
    BY <1>1
  <2> HIDE DEF h
  <2>3. r[h] = s[i]
    BY <1>4, <2>2
  <2>4. ASSUME NEW j \in 1..n, j < h PROVE r[j][k] = None
    <3>1. (n - j) + 1 \in 1..n /\ (n - j) + 1 # i /\ r[j] = s[(n - j) + 1]
      BY <1>1, <1>3, <1>4, <2>2, <2>4
    <3>2. i \in H
      BY <1>1, <2>1
    <3>3. (n - j) + 1 \notin H
      <4> HIDE DEF H
      <4> QED BY <1>5, <3>1, <3>2
    <3> QED BY <1>1, <3>1, <3>3
  <2>5. FirstEntry(r, k) = r[h][k]
    BY <1>4, <2>1, <2>2, <2>3, <2>4, FirstEntryAt
  <2> QED BY <2>1, <2>3, <2>5 DEF r
<1> QED BY <1>6, <1>7

\* dbEngine.Get and dbSnapshot.Get answer with the newest record of the captured
\* tables: what the search of memtables, Level 0 and Level 1 skips is older.
THEOREM LookupsAreNewest == Spec => []GetIsNewest
<1>1. Inv => GetIsNewest
  <2> SUFFICES ASSUME Inv, NEW k \in Keys
               PROVE  /\ EngineGet(k) = Newest(k)
                      /\ Cardinality({i \in DOMAIN memtables : memtables[i][k] # None}) <= 1 => SnapshotGet(k) = Newest(k)
    BY DEF GetIsNewest
  <2>1. Inputs /\ memtables \in Seq(Tables) /\ levelZero \in Seq(Tables) /\ levelOne \in Seq(Tables)
    BY DEF Inv, Inputs
  <2> DEFINE e == FirstEntry(memtables, k)
             l == InLevels(k)
  <2>2. FirstEntry(memtables \o levelZero \o levelOne, k) = IF e # None THEN e ELSE l
    <3>1. FirstEntry(memtables \o levelZero, k) = IF e # None THEN e ELSE FirstEntry(levelZero, k)
      BY <2>1, FirstEntryConcat
    <3>2. memtables \o levelZero \in Seq(Tables)
      BY <2>1, FirstEntryConcat
    <3>3. l = IF FirstEntry(levelZero, k) # None THEN FirstEntry(levelZero, k) ELSE FirstEntry(levelOne, k)
      BY <2>1, LevelsAreSearched, FirstEntryConcat
    <3>4. FirstEntry((memtables \o levelZero) \o levelOne, k)
            = IF FirstEntry(memtables \o levelZero, k) # None THEN FirstEntry(memtables \o levelZero, k) ELSE FirstEntry(levelOne, k)
      BY <2>1, <3>2, FirstEntryConcat
    <3> HIDE DEF e, l
    <3> QED BY <3>1, <3>3, <3>4
  <2>3. Newest(k) = Answer(IF e # None THEN e ELSE l)
    BY <2>2 DEF Newest
  <2>4. EngineGet(k) = Newest(k)
    BY <2>3 DEF EngineGet
  <2>5. ASSUME Cardinality({i \in DOMAIN memtables : memtables[i][k] # None}) <= 1 PROVE SnapshotGet(k) = Newest(k)
    <3>1. FirstEntry(Reverse(memtables), k) = e
      BY <2>1, <2>5, OneMemtableHasIt
    <3> QED BY <2>3, <3>1 DEF SnapshotGet
  <2> QED BY <2>4, <2>5
<1> QED BY <1>1, InvHolds, PTL
===============================================================================
