--------------------------- MODULE LSMTables_proofs ---------------------------
(****************************************************************************)
(* Facts about the operators of LSMTables that the proofs about the engine  *)
(* and its iterators rest on.                                               *)
(****************************************************************************)
EXTENDS LSMTables, Integers, FiniteSetTheorems, SequenceTheorems, NaturalsInduction, TLAPS

------------------------------------------------------------------------------
(* Smallest and largest elements *)

\* Every non-empty set of naturals has a smallest element.
LEMMA SmallestNat ==
  ASSUME NEW T \in SUBSET Nat, T # {}
  PROVE  \E x \in T : \A y \in T : x <= y
<1> DEFINE LT == OpToRel(<, Nat)
<1>1. IsWellFoundedOn(LT, Nat)
  BY NatLessThanWellFounded
<1>2. PICK x \in T : \A y \in T : ~(<<y, x>> \in LT)
  BY <1>1, WFMin, Zenon
<1>3. \A y \in T : <<y, x>> \in LT <=> y < x
  BY x \in Nat, T \subseteq Nat DEF OpToRel
<1>4. \A y \in T : ~(y < x)
  BY <1>2, <1>3
<1>5. x \in Nat /\ \A y \in T : y \in Nat
  BY <1>2
<1> HIDE DEF LT
<1>6. \A y \in T : x <= y
  BY <1>4, <1>5
<1> QED BY <1>6

\* Min picks it.
LEMMA MinOf ==
  ASSUME NEW S \in SUBSET Nat, S # {}
  PROVE  Min(S) \in S /\ \A y \in S : Min(S) <= y
BY SmallestNat DEF Min

\* A finite non-empty set of naturals has a largest element.
LEMMA LargestNat ==
  ASSUME NEW S \in SUBSET Nat, IsFiniteSet(S), S # {}
  PROVE  \E x \in S : \A y \in S : x >= y
<1> DEFINE Bad == {c \in Nat : \E U \in SUBSET S : U # {} /\ IsFiniteSet(U) /\ Cardinality(U) = c
                                  /\ ~\E x \in U : \A y \in U : x >= y}
<1>1. SUFFICES ASSUME ~\E x \in S : \A y \in S : x >= y PROVE FALSE
  OBVIOUS
<1>2. Cardinality(S) \in Bad
  BY <1>1, FS_CardinalityType
<1>3. PICK c \in Bad : \A d \in Bad : c <= d
  BY <1>2, SmallestNat
<1>4. PICK U \in SUBSET S : U # {} /\ IsFiniteSet(U) /\ Cardinality(U) = c /\ ~\E x \in U : \A y \in U : x >= y
  BY <1>3
<1>5. PICK u \in U : TRUE
  BY <1>4
<1>6. IsFiniteSet(U \ {u}) /\ Cardinality(U \ {u}) = c - 1 /\ c - 1 \in Nat
  <2>1. IsFiniteSet(U \ {u}) /\ Cardinality(U \ {u}) = Cardinality(U) - 1
    BY <1>4, <1>5, FS_RemoveElement
  <2>2. Cardinality(U \ {u}) \in Nat
    BY <2>1, FS_CardinalityType
  <2> QED BY <2>1, <2>2, <1>4
<1>7. CASE U \ {u} = {}
  <2>1. \A y \in U : y = u
    BY <1>7
  <2> QED BY <2>1, <1>4, <1>5
<1>8. CASE U \ {u} # {}
  <2>1. ~(c - 1 \in Bad)
    BY <1>3, <1>6
  <2>2. U \ {u} \in SUBSET S
    BY <1>4
  <2>3. PICK x \in U \ {u} : \A y \in U \ {u} : x >= y
    BY <2>1, <2>2, <1>6, <1>8
  <2>4. x \in Nat /\ u \in Nat /\ \A y \in U : y \in Nat
    BY <2>2, <1>4, <1>5, <2>3
  <2>5. CASE x >= u
    <3>1. \A y \in U : x >= y
      BY <2>3, <2>5
    <3> QED BY <3>1, <1>4, <2>3
  <2>6. CASE ~(x >= u)
    <3>1. \A y \in U : u >= y
      <4> TAKE y \in U
      <4>1. CASE y = u
        BY <4>1, <2>4
      <4>2. CASE y # u
        <5>1. x >= y /\ y \in Nat
          BY <4>2, <2>3, <2>4
        <5> QED BY <5>1, <2>6, <2>4
      <4> QED BY <4>1, <4>2
    <3> QED BY <3>1, <1>4, <1>5
  <2> QED BY <2>5, <2>6
<1> QED BY <1>7, <1>8

\* Max picks it.
LEMMA MaxOf ==
  ASSUME NEW S \in SUBSET Nat, IsFiniteSet(S), S # {}
  PROVE  Max(S) \in S /\ \A y \in S : Max(S) >= y
BY LargestNat DEF Max

------------------------------------------------------------------------------
(* Parts of a sequence *)

\* Positions of a set, counted from its smallest member.
LEMMA RankExists ==
  ASSUME NEW P \in SUBSET Nat, IsFiniteSet(P), NEW n \in 1..Cardinality(P)
  PROVE  \E i \in P : Cardinality({j \in P : j <= i}) = n
<1> DEFINE rank == [i \in P |-> Cardinality({j \in P : j <= i})]
<1>1. \A i \in P : IsFiniteSet({j \in P : j <= i}) /\ Cardinality({j \in P : j <= i}) \in Nat
                   /\ Cardinality({j \in P : j <= i}) <= Cardinality(P)
                   /\ Cardinality({j \in P : j <= i}) # 0
  <2> TAKE i \in P
  <2>1. {j \in P : j <= i} \in SUBSET P /\ i \in {j \in P : j <= i}
    OBVIOUS
  <2>2. IsFiniteSet({j \in P : j <= i}) /\ Cardinality({j \in P : j <= i}) <= Cardinality(P)
    BY <2>1, FS_Subset
  <2> QED BY <2>1, <2>2, FS_CardinalityType, FS_EmptySet
<1>2. Cardinality(P) \in Nat
  BY FS_CardinalityType
<1>3. rank \in [P -> 1..Cardinality(P)]
  BY <1>1, <1>2
<1>4. \A i, k \in P : i < k => rank[i] < rank[k]
  <2> SUFFICES ASSUME NEW i \in P, NEW k \in P, i < k PROVE rank[i] < rank[k]
    OBVIOUS
  <2>0. \A j \in P : j <= i => j <= k
    BY P \subseteq Nat
  <2>1. {j \in P : j <= i} \in SUBSET {j \in P : j <= k}
    BY <2>0
  <2>2. k \in {j \in P : j <= k} /\ k \notin {j \in P : j <= i}
    OBVIOUS
  <2>3. Cardinality({j \in P : j <= i}) <= Cardinality({j \in P : j <= k})
        /\ (Cardinality({j \in P : j <= i}) = Cardinality({j \in P : j <= k}) => {j \in P : j <= i} = {j \in P : j <= k})
    BY <1>1, <2>1, FS_Subset
  <2> QED BY <2>2, <2>3, <1>1
<1>5. \A i, k \in P : rank[i] = rank[k] => i = k
  <2> SUFFICES ASSUME NEW i \in P, NEW k \in P, rank[i] = rank[k], i # k PROVE FALSE
    OBVIOUS
  <2>1. i < k \/ k < i
    OBVIOUS
  <2>2. rank[i] \in Nat /\ rank[k] \in Nat
    BY <1>1
  <2> HIDE DEF rank
  <2> QED BY <2>1, <2>2, <1>4
<1>6. rank \in Injection(P, 1..Cardinality(P))
  BY <1>3, <1>5 DEF Injection, IsInjective
<1>7. IsFiniteSet(1..Cardinality(P)) /\ Cardinality(1..Cardinality(P)) = Cardinality(P)
  BY <1>2, FS_Interval
<1>8. rank \in Surjection(P, 1..Cardinality(P))
  BY <1>6, <1>7, FS_Injection
<1>9. PICK i \in P : rank[i] = n
  BY <1>8 DEF Surjection
<1> QED BY <1>9

\* The position of the n-th element of PartAt.
PositionAt(P, n) == CHOOSE i \in P : Cardinality({j \in P : j <= i}) = n

\* PartAt keeps only elements of the sequence, at the given positions.
LEMMA PartAtIsPart ==
  ASSUME NEW s, NEW P \in SUBSET Nat, IsFiniteSet(P)
  PROVE  /\ Cardinality(P) \in Nat
         /\ PartAt(s, P) = [n \in 1..Cardinality(P) |-> s[PositionAt(P, n)]]
         /\ \A n \in 1..Cardinality(P) :
              PositionAt(P, n) \in P /\ Cardinality({j \in P : j <= PositionAt(P, n)}) = n
<1>1. Cardinality(P) \in Nat
  BY FS_CardinalityType
<1>2. \A n \in 1..Cardinality(P) :
        PositionAt(P, n) \in P /\ Cardinality({j \in P : j <= PositionAt(P, n)}) = n
  BY RankExists DEF PositionAt
<1>3. PartAt(s, P) = [n \in 1..Cardinality(P) |-> s[PositionAt(P, n)]]
  BY DEF PartAt, PositionAt
<1> QED BY <1>1, <1>2, <1>3

\* It keeps them in order.
LEMMA PartAtInOrder ==
  ASSUME NEW P \in SUBSET Nat, IsFiniteSet(P),
         NEW n \in 1..Cardinality(P), NEW m \in 1..Cardinality(P), n < m
  PROVE  PositionAt(P, n) < PositionAt(P, m)
<1> DEFINE p == PositionAt(P, n)
           q == PositionAt(P, m)
           A == {j \in P : j <= p}
           B == {j \in P : j <= q}
<1>1. p \in P /\ q \in P /\ Cardinality(A) = n /\ Cardinality(B) = m
  BY PartAtIsPart
<1>2. SUFFICES ASSUME ~(p < q) PROVE FALSE
  OBVIOUS
<1>3. p \in Nat /\ q \in Nat
  BY <1>1
<1>4. B \in SUBSET A /\ A \in SUBSET P
  <2> HIDE DEF p, q
  <2>1. \A j \in P : j <= q => j <= p
    BY <1>2, <1>3, P \subseteq Nat
  <2> QED BY <2>1
<1>5. IsFiniteSet(A)
  BY <1>4, FS_Subset
<1>6. Cardinality(B) <= Cardinality(A)
  BY <1>4, <1>5, FS_Subset
<1> HIDE DEF A, B
<1> QED BY <1>1, <1>6

------------------------------------------------------------------------------
(* Sizes *)

\* The sets that Size counts are finite.
LEMMA SizeSets ==
  ASSUME NEW t
  PROVE  /\ IsFiniteSet(KeysOf(t)) /\ Cardinality(KeysOf(t)) \in Nat
         /\ IsFiniteSet({k \in Keys : t[k] \in Vals}) /\ Cardinality({k \in Keys : t[k] \in Vals}) \in Nat
         /\ Size(t) \in Nat
<1>1. KeysOf(t) \in SUBSET Keys /\ {k \in Keys : t[k] \in Vals} \in SUBSET Keys
  BY DEF KeysOf
<1>2. IsFiniteSet(KeysOf(t)) /\ IsFiniteSet({k \in Keys : t[k] \in Vals})
  BY <1>1, FS_Subset, TablesAssumption DEF TablesAssumption
<1>3. Cardinality(KeysOf(t)) \in Nat /\ Cardinality({k \in Keys : t[k] \in Vals}) \in Nat
  BY <1>2, FS_CardinalityType
<1> QED BY <1>2, <1>3 DEF Size

\* An empty memtable has size 0.
LEMMA SizeEmpty == Size(Empty) = 0
<1>1. KeysOf(Empty) = {}
  BY DEF KeysOf, Empty
<1>2. {k \in Keys : Empty[k] \in Vals} = {}
  BY TablesAssumption DEF Empty, TablesAssumption
<1> QED BY <1>1, <1>2, FS_EmptySet DEF Size

\* A union has at most as many elements as its parts together.
LEMMA UnionBound ==
  ASSUME NEW S, NEW T, IsFiniteSet(S), IsFiniteSet(T)
  PROVE  IsFiniteSet(S \cup T) /\ Cardinality(S \cup T) <= Cardinality(S) + Cardinality(T)
<1>1. IsFiniteSet(S \cap T) /\ Cardinality(S \cap T) \in Nat
  BY FS_Intersection, FS_CardinalityType
<1>2. IsFiniteSet(S \cup T) /\ Cardinality(S \cup T) = Cardinality(S) + Cardinality(T) - Cardinality(S \cap T)
  BY FS_Union
<1>3. Cardinality(S) \in Nat /\ Cardinality(T) \in Nat
  BY FS_CardinalityType
<1> QED BY <1>1, <1>2, <1>3

\* A batch that is applied adds at most its own size.
LEMMA SizeOverlay ==
  ASSUME NEW t, NEW u
  PROVE  Size(Overlay(t, u)) <= Size(t) + Size(u)
<1> DEFINE V(x) == {k \in Keys : x[k] \in Vals}
<1>1. KeysOf(Overlay(t, u)) \in SUBSET (KeysOf(t) \cup KeysOf(u))
  BY DEF KeysOf, Overlay
<1>2. V(Overlay(t, u)) \in SUBSET (V(t) \cup V(u))
  BY DEF Overlay
<1>3. IsFiniteSet(KeysOf(t) \cup KeysOf(u)) /\ Cardinality(KeysOf(t) \cup KeysOf(u)) <= Cardinality(KeysOf(t)) + Cardinality(KeysOf(u))
  BY SizeSets, UnionBound
<1>4. IsFiniteSet(V(t) \cup V(u)) /\ Cardinality(V(t) \cup V(u)) <= Cardinality(V(t)) + Cardinality(V(u))
  <2>1. IsFiniteSet(V(t)) /\ IsFiniteSet(V(u))
    BY SizeSets
  <2> HIDE DEF V
  <2> QED BY <2>1, UnionBound
<1>5. Cardinality(KeysOf(Overlay(t, u))) <= Cardinality(KeysOf(t) \cup KeysOf(u))
  BY <1>1, <1>3, FS_Subset
<1>6. Cardinality(V(Overlay(t, u))) <= Cardinality(V(t) \cup V(u))
  <2> HIDE DEF V
  <2> QED BY <1>2, <1>4, FS_Subset
<1>7. /\ Cardinality(V(Overlay(t, u))) \in Nat /\ Cardinality(V(t)) \in Nat /\ Cardinality(V(u)) \in Nat
      /\ Cardinality(V(t) \cup V(u)) \in Nat /\ Cardinality(KeysOf(t) \cup KeysOf(u)) \in Nat
      /\ Cardinality(KeysOf(Overlay(t, u))) \in Nat /\ Cardinality(KeysOf(t)) \in Nat /\ Cardinality(KeysOf(u)) \in Nat
  BY <1>3, <1>4, SizeSets, FS_CardinalityType
<1>8. Size(Overlay(t, u)) = Cardinality(KeysOf(Overlay(t, u))) + Cardinality(V(Overlay(t, u)))
      /\ Size(t) = Cardinality(KeysOf(t)) + Cardinality(V(t))
      /\ Size(u) = Cardinality(KeysOf(u)) + Cardinality(V(u))
  BY DEF Size
<1> HIDE DEF V
<1> QED BY <1>3, <1>4, <1>5, <1>6, <1>7, <1>8

------------------------------------------------------------------------------
(* Merges *)

\* What Put and Delete leave is a table.
LEMMA OverlayType ==
  ASSUME NEW t \in Tables, NEW u \in Tables
  PROVE  Overlay(t, u) \in Tables
BY DEF Tables, Overlay

\* The entry of the largest ID is an entry of one of the files.
LEMMA LargestIDEntryType ==
  ASSUME NEW files, NEW ids \in SUBSET Nat, IsFiniteSet(ids),
         \A id \in ids : files[id] \in Tables, NEW k \in Keys
  PROVE  LargestIDEntry(files, ids, k) \in Entries
<1> DEFINE having == {id \in ids : files[id][k] # None}
<1>1. CASE having = {}
  BY <1>1 DEF LargestIDEntry, Entries
<1>2. CASE having # {}
  <2>1. having \in SUBSET ids /\ having \in SUBSET Nat /\ IsFiniteSet(having)
    BY FS_Subset
  <2>2. Max(having) \in having
    <3> HIDE DEF having
    <3> QED BY <2>1, <1>2, MaxOf
  <2>3. files[Max(having)] \in Tables
    BY <2>2
  <2>4. LargestIDEntry(files, ids, k) = files[Max(having)][k]
    BY <1>2 DEF LargestIDEntry
  <2> HIDE DEF having
  <2> QED BY <2>3, <2>4 DEF Tables
<1> QED BY <1>1, <1>2

\* Replaying WAL segments gives a memtable.
LEMMA ReplayType ==
  ASSUME NEW files, NEW ids \in SUBSET Nat, IsFiniteSet(ids), \A id \in ids : files[id] \in Tables
  PROVE  Replay(files, ids) \in Tables
BY LargestIDEntryType DEF Replay, Tables

\* performMerge writes tables.
LEMMA MergeOutputType ==
  ASSUME NEW files, NEW ids \in SUBSET Nat, IsFiniteSet(ids), \A id \in ids : files[id] \in Tables, NEW i
  PROVE  MergeOutput(files, ids, i) \in Tables
<1>1. \A k \in Keys : LargestIDEntry(files, ids, k) \in Entries
  BY LargestIDEntryType
<1> QED BY <1>1 DEF MergeOutput, Tables, Entries

\* Division by KeysPerFile keeps the order.
LEMMA DivMonotone ==
  ASSUME NEW m \in Nat, NEW n \in Nat, m <= n
  PROVE  m \div KeysPerFile <= n \div KeysPerFile
<1> DEFINE c == KeysPerFile
           p == m \div c
           q == n \div c
<1>1. c \in Nat /\ c > 0
  BY TablesAssumption DEF TablesAssumption
<1>2. p \in Int /\ q \in Int /\ c * p <= m /\ m < c * (p + 1) /\ c * q <= n /\ n < c * (q + 1)
  BY <1>1
<1>3. SUFFICES ASSUME q + 1 <= p PROVE FALSE
  BY <1>2
<1> HIDE DEF c, p, q
<1>4. c * (q + 1) <= c * p
  BY <1>1, <1>2, <1>3
<1> QED BY <1>1, <1>2, <1>4

\* performMerge writes live keys in order: an earlier output has smaller keys.
LEMMA OutputsInKeyOrder ==
  ASSUME NEW files, NEW ids, NEW i \in Nat, NEW j \in Nat, i < j,
         NEW a \in KeysOf(MergeOutput(files, ids, i)), NEW b \in KeysOf(MergeOutput(files, ids, j))
  PROVE  a < b
<1> DEFINE live == LiveKeys(files, ids)
<1>1. a \in Keys /\ b \in Keys /\ a \in Nat /\ b \in Nat
  BY TablesAssumption DEF KeysOf, TablesAssumption
<1>2. OutputOf(a, live) = i /\ OutputOf(b, live) = j
  BY <1>1 DEF KeysOf, MergeOutput
<1>3. SUFFICES ASSUME b <= a PROVE FALSE
  BY <1>1
<1> DEFINE A == {k \in live : k < a}
           B == {k \in live : k < b}
<1>4. live \in SUBSET Keys /\ live \in SUBSET Nat
  BY TablesAssumption DEF LiveKeys, TablesAssumption
<1>5. \A k \in live : k < b => k < a
  <2> HIDE DEF live
  <2> QED BY <1>1, <1>3, <1>4
<1>6. A \in SUBSET Keys /\ B \in SUBSET A
  BY <1>4, <1>5
<1>7. IsFiniteSet(A) /\ Cardinality(B) <= Cardinality(A)
  <2> HIDE DEF A, B
  <2> QED BY <1>6, FS_Subset, TablesAssumption DEF TablesAssumption
<1>8. IsFiniteSet(B) /\ Cardinality(A) \in Nat /\ Cardinality(B) \in Nat
  <2> HIDE DEF A, B
  <2> QED BY <1>6, <1>7, FS_Subset, FS_CardinalityType
<1>9. Cardinality(B) \div KeysPerFile <= Cardinality(A) \div KeysPerFile
  <2> HIDE DEF A, B
  <2> QED BY <1>7, <1>8, DivMonotone
<1>10. i = (Cardinality(A) \div KeysPerFile) + 1 /\ j = (Cardinality(B) \div KeysPerFile) + 1
  BY <1>2 DEF OutputOf
<1>11. Cardinality(A) \div KeysPerFile \in Int /\ Cardinality(B) \div KeysPerFile \in Int
  <2> HIDE DEF A, B
  <2> QED BY <1>8, TablesAssumption DEF TablesAssumption
<1> HIDE DEF A, B
<1> QED BY <1>9, <1>10, <1>11

------------------------------------------------------------------------------
(* Parts of a sequence that grow *)

\* An element of P is at the position that counts the elements up to it.
LEMMA PositionIs ==
  ASSUME NEW P \in SUBSET Nat, IsFiniteSet(P), NEW i \in P
  PROVE  /\ Cardinality({j \in P : j <= i}) \in 1..Cardinality(P)
         /\ PositionAt(P, Cardinality({j \in P : j <= i})) = i
<1> DEFINE A(x) == {j \in P : j <= x}
           n == Cardinality(A(i))
           q == PositionAt(P, n)
<1>1. ASSUME NEW x \in P
      PROVE  A(x) \in SUBSET P /\ IsFiniteSet(A(x)) /\ Cardinality(A(x)) \in Nat /\ Cardinality(A(x)) <= Cardinality(P)
             /\ Cardinality(A(x)) # 0
  <2>1. A(x) \in SUBSET P /\ x \in A(x)
    OBVIOUS
  <2>2. IsFiniteSet(A(x)) /\ Cardinality(A(x)) <= Cardinality(P)
    BY <2>1, FS_Subset
  <2> QED BY <2>1, <2>2, FS_CardinalityType, FS_EmptySet
<1>2. Cardinality(P) \in Nat
  BY FS_CardinalityType
<1>3. n \in 1..Cardinality(P)
  <2>1. n \in Nat /\ n # 0 /\ n <= Cardinality(P)
    BY <1>1
  <2> HIDE DEF n
  <2> QED BY <1>2, <2>1
<1>4. q \in P /\ Cardinality(A(q)) = n
  <2> HIDE DEF n
  <2> QED BY <1>3, PartAtIsPart
<1>5. \A x, y \in P : x < y => Cardinality(A(x)) # Cardinality(A(y))
  <2> SUFFICES ASSUME NEW x \in P, NEW y \in P, x < y PROVE Cardinality(A(x)) # Cardinality(A(y))
    OBVIOUS
  <2>1. \A j \in P : j <= x => j <= y
    BY P \subseteq Nat
  <2>2. A(x) \in SUBSET A(y)
    BY <2>1
  <2>3. y \in A(y) /\ y \notin A(x)
    OBVIOUS
  <2>4. IsFiniteSet(A(y))
    BY <1>1
  <2>5. Cardinality(A(x)) = Cardinality(A(y)) => A(x) = A(y)
    BY <2>2, <2>4, FS_Subset
  <2> QED BY <2>3, <2>5
<1>6. q = i
  <2>1. ~(q < i) /\ ~(i < q)
    <3> HIDE DEF q, A
    <3> QED BY <1>4, <1>5
  <2>2. q \in Nat /\ i \in Nat
    BY <1>4
  <2> HIDE DEF q
  <2> QED BY <2>1, <2>2
<1> QED BY <1>3, <1>6

\* The smaller members of P come first: PartAt over them is a prefix.
LEMMA PartAtInitial ==
  ASSUME NEW P \in SUBSET Nat, IsFiniteSet(P), NEW Q \in SUBSET P, \A q \in Q, j \in P : j < q => j \in Q
  PROVE  /\ IsFiniteSet(Q) /\ Cardinality(Q) \in Nat /\ Cardinality(P) \in Nat /\ Cardinality(Q) <= Cardinality(P)
         /\ \A n \in 1..Cardinality(Q) : PositionAt(Q, n) = PositionAt(P, n)
<1>1. IsFiniteSet(Q) /\ Cardinality(Q) <= Cardinality(P)
  BY FS_Subset
<1>2. Cardinality(Q) \in Nat /\ Cardinality(P) \in Nat
  BY <1>1, FS_CardinalityType
<1>3. ASSUME NEW n \in 1..Cardinality(Q) PROVE PositionAt(Q, n) = PositionAt(P, n)
  <2> DEFINE q == PositionAt(Q, n)
  <2>1. q \in Q /\ Cardinality({j \in Q : j <= q}) = n
    BY <1>1, PartAtIsPart
  <2> HIDE DEF q
  <2>2. {j \in Q : j <= q} = {j \in P : j <= q}
    <3>1. ASSUME NEW j \in P, j <= q PROVE j \in Q
      <4>1. j \in Nat /\ q \in Nat
        BY <2>1
      <4>2. j < q \/ j = q
        BY <3>1, <4>1
      <4> QED BY <2>1, <4>2
    <3> QED BY <3>1
  <2>3. q \in P
    BY <2>1
  <2>4. PositionAt(P, n) = q
    BY <2>1, <2>2, <2>3, PositionIs
  <2> QED BY <2>4 DEF q
<1> QED BY <1>1, <1>2, <1>3

\* A larger position adds its element at the end.
LEMMA PartAtAppend ==
  ASSUME NEW s, NEW P \in SUBSET Nat, IsFiniteSet(P), NEW m \in Nat, \A j \in P : j < m
  PROVE  PartAt(s, P \cup {m}) = Append(PartAt(s, P), s[m])
<1> DEFINE R == P \cup {m}
           c == Cardinality(P)
           S == {s[j] : j \in R}
<1>1. m \notin P /\ R \in SUBSET Nat
  OBVIOUS
<1>2. IsFiniteSet(R) /\ Cardinality(R) = c + 1
  BY <1>1, FS_AddElement
<1>3. c \in Nat
  BY FS_CardinalityType
<1>4. /\ PartAt(s, P) = [n \in 1..c |-> s[PositionAt(P, n)]]
      /\ \A n \in 1..c : PositionAt(P, n) \in P
  BY PartAtIsPart
<1>5. PartAt(s, R) = [n \in 1..(c + 1) |-> s[PositionAt(R, n)]]
  <2> HIDE DEF R, c
  <2> QED BY <1>1, <1>2, PartAtIsPart
<1>6. \A n \in 1..c : PositionAt(P, n) = PositionAt(R, n)
  <2>1. ASSUME NEW q \in P, NEW j \in R, j < q PROVE j \in P
    <3>1. q \in Nat /\ q < m /\ (j = m => m < q)
      BY <2>1
    <3> QED BY <2>1, <3>1
  <2> HIDE DEF R
  <2>2. P \in SUBSET R
    BY DEF R
  <2> QED BY <1>1, <1>2, <2>1, <2>2, PartAtInitial
<1>7. PositionAt(R, c + 1) = m
  <2>1. {j \in R : j <= m} = R /\ m \in R
    <3>1. \A j \in P : j \in Nat /\ j <= m
      OBVIOUS
    <3>2. m <= m
      OBVIOUS
    <3> QED BY <3>1, <3>2
  <2> HIDE DEF R, c
  <2> QED BY <1>1, <1>2, <2>1, PositionIs
<1>8. PartAt(s, P) \in Seq(S) /\ Len(PartAt(s, P)) = c /\ s[m] \in S
  <2>1. \A n \in 1..c : s[PositionAt(P, n)] \in S
    BY <1>4
  <2> HIDE DEF c, S
  <2>2. PartAt(s, P) \in [1..c -> S]
    BY <1>4, <2>1
  <2>3. s[m] \in S
    BY DEF S
  <2> QED BY <1>3, <2>2, <2>3
<1>9. /\ Append(PartAt(s, P), s[m]) \in Seq(S) /\ Len(Append(PartAt(s, P), s[m])) = c + 1
      /\ \A n \in 1..c : Append(PartAt(s, P), s[m])[n] = PartAt(s, P)[n]
      /\ Append(PartAt(s, P), s[m])[c + 1] = s[m]
  <2> HIDE DEF c, S
  <2> QED BY <1>8, <1>3, AppendProperties
<1> DEFINE A == Append(PartAt(s, P), s[m])
<1>10. A = [n \in 1..(c + 1) |-> A[n]]
  <2> HIDE DEF A, S, c
  <2> QED BY <1>9, <1>3, LenProperties DEF A
<1>11. \A n \in 1..(c + 1) : A[n] = s[PositionAt(R, n)]
  <2> SUFFICES ASSUME NEW n \in 1..(c + 1) PROVE A[n] = s[PositionAt(R, n)]
    OBVIOUS
  <2> HIDE DEF A, R, c, S
  <2>1. n \in 1..c \/ n = c + 1
    BY <1>3
  <2>2. CASE n \in 1..c
    BY <1>4, <1>6, <1>9, <2>2 DEF A
  <2>3. CASE n = c + 1
    BY <1>7, <1>9, <2>3 DEF A
  <2> QED BY <2>1, <2>2, <2>3
<1> QED
  <2> HIDE DEF A, R, c, S
  <2>1. A = PartAt(s, R)
    BY <1>5, <1>10, <1>11
  <2> QED BY <2>1 DEF A, R

------------------------------------------------------------------------------
(* Lookups *)

\* FirstEntry finds the first table that has the key, if there is one.
LEMMA FirstEntryIs ==
  ASSUME NEW tables \in Seq(Tables), NEW k \in Keys
  PROVE  \/ FirstEntry(tables, k) = None /\ \A i \in 1..Len(tables) : tables[i][k] = None
         \/ \E i \in 1..Len(tables) :
              /\ FirstEntry(tables, k) = tables[i][k] /\ tables[i][k] # None
              /\ \A j \in 1..Len(tables) : j < i => tables[j][k] = None
<1> DEFINE hits == {i \in DOMAIN tables : tables[i][k] # None}
<1>1. DOMAIN tables = 1..Len(tables) /\ Len(tables) \in Nat
  OBVIOUS
<1>2. CASE hits = {}
  BY <1>1, <1>2 DEF FirstEntry
<1>3. CASE hits # {}
  <2> DEFINE i == Min(hits)
  <2>1. hits \in SUBSET Nat
    BY <1>1
  <2>2. i \in hits /\ \A j \in hits : i <= j
    <3> HIDE DEF hits
    <3> QED BY <1>3, <2>1, MinOf
  <2>3. FirstEntry(tables, k) = tables[i][k]
    BY <1>3 DEF FirstEntry
  <2>4. ASSUME NEW j \in 1..Len(tables), j < i PROVE tables[j][k] = None
    <3>1. i \in Nat
      BY <2>1, <2>2
    <3>2. j \notin hits
      <4> HIDE DEF hits, i
      <4> QED BY <1>1, <2>2, <2>4, <3>1
    <3> QED BY <1>1, <3>2
  <2>5. i \in 1..Len(tables) /\ tables[i][k] # None
    BY <1>1, <2>2
  <2> HIDE DEF i
  <2> QED BY <2>3, <2>4, <2>5
<1> QED BY <1>2, <1>3

\* It is determined by that.
LEMMA FirstEntryAt ==
  ASSUME NEW tables \in Seq(Tables), NEW k \in Keys, NEW i \in 1..Len(tables), tables[i][k] # None,
         \A j \in 1..Len(tables) : j < i => tables[j][k] = None
  PROVE  FirstEntry(tables, k) = tables[i][k]
<1>1. PICK h \in 1..Len(tables) : /\ FirstEntry(tables, k) = tables[h][k] /\ tables[h][k] # None
                                  /\ \A j \in 1..Len(tables) : j < h => tables[j][k] = None
  BY FirstEntryIs
<1>2. ~(h < i) /\ ~(i < h)
  BY <1>1
<1>3. h = i
  BY <1>2
<1> QED BY <1>1, <1>3

\* The newer tables come first.
LEMMA FirstEntryConcat ==
  ASSUME NEW s \in Seq(Tables), NEW t \in Seq(Tables), NEW k \in Keys
  PROVE  /\ s \o t \in Seq(Tables)
         /\ FirstEntry(s \o t, k) = IF FirstEntry(s, k) # None THEN FirstEntry(s, k) ELSE FirstEntry(t, k)
<1> DEFINE u == s \o t
           n == Len(s)
<1>1. /\ u \in Seq(Tables) /\ n \in Nat /\ Len(t) \in Nat /\ Len(u) = n + Len(t)
      /\ (\A i \in 1..n : u[i] = s[i]) /\ \A i \in 1..Len(t) : u[n + i] = t[i]
  <2>1. u \in Seq(Tables) /\ Len(u) = n + Len(t) /\ n \in Nat /\ Len(t) \in Nat
    BY ConcatProperties
  <2>2. \A i \in 1..Len(u) : u[i] = IF i <= n THEN s[i] ELSE t[i - n]
    BY ConcatProperties
  <2> HIDE DEF u, n
  <2>3. \A i \in 1..n : i \in 1..Len(u) /\ i <= n
    BY <2>1
  <2>4. \A i \in 1..Len(t) : n + i \in 1..Len(u) /\ ~(n + i <= n) /\ (n + i) - n = i
    BY <2>1
  <2> QED BY <2>1, <2>2, <2>3, <2>4
<1> HIDE DEF u
<1>2. CASE FirstEntry(s, k) # None
  <2>1. PICK i \in 1..n : /\ FirstEntry(s, k) = s[i][k] /\ s[i][k] # None
                          /\ \A j \in 1..n : j < i => s[j][k] = None
    BY <1>2, FirstEntryIs
  <2>2. i \in 1..Len(u) /\ \A j \in 1..Len(u) : j < i => j \in 1..n
    BY <1>1
  <2>3. \A j \in 1..Len(u) : j < i => u[j][k] = None
    BY <1>1, <2>1, <2>2
  <2>4. u[i][k] # None
    BY <1>1, <2>1
  <2>5. FirstEntry(u, k) = u[i][k]
    BY <1>1, <2>2, <2>3, <2>4, FirstEntryAt
  <2> QED BY <1>1, <1>2, <2>1, <2>5 DEF u
<1>3. CASE FirstEntry(s, k) = None
  <2>1. \A i \in 1..n : s[i][k] = None
    BY <1>3, FirstEntryIs
  <2>2. CASE FirstEntry(t, k) = None
    <3>1. \A i \in 1..Len(t) : t[i][k] = None
      BY <2>2, FirstEntryIs
    <3>2. ASSUME NEW i \in 1..Len(u) PROVE u[i][k] = None
      <4>1. i \in 1..n \/ (i - n \in 1..Len(t) /\ n + (i - n) = i)
        BY <1>1
      <4> QED BY <1>1, <2>1, <3>1, <4>1
    <3>3. FirstEntry(u, k) = None
      BY <1>1, <3>2, FirstEntryIs
    <3> QED BY <1>1, <1>3, <2>2, <3>3 DEF u
  <2>3. CASE FirstEntry(t, k) # None
    <3>1. PICK i \in 1..Len(t) : /\ FirstEntry(t, k) = t[i][k] /\ t[i][k] # None
                                 /\ \A j \in 1..Len(t) : j < i => t[j][k] = None
      BY <2>3, FirstEntryIs
    <3>2. n + i \in 1..Len(u) /\ u[n + i][k] = t[i][k]
      BY <1>1
    <3>3. ASSUME NEW j \in 1..Len(u), j < n + i PROVE u[j][k] = None
      <4>1. j \in 1..n \/ (j - n \in 1..Len(t) /\ n + (j - n) = j /\ j - n < i)
        BY <1>1, <3>3
      <4> QED BY <1>1, <2>1, <3>1, <4>1
    <3>4. FirstEntry(u, k) = u[n + i][k]
      BY <1>1, <3>1, <3>2, <3>3, FirstEntryAt
    <3> QED BY <1>1, <1>3, <3>1, <3>2, <3>4 DEF u
  <2> QED BY <2>2, <2>3
<1> QED BY <1>2, <1>3

\* The binary search in Level 1 finds what going through its files would find.
LEMMA SearchLevel1IsExact ==
  ASSUME NEW files, NEW ids \in Seq(Nat), NEW k \in Keys, \A i \in 1..Len(ids) : files[ids[i]] \in Tables,
         \A i, j \in 1..Len(ids) : i < j => \A a \in KeysOf(files[ids[i]]), b \in KeysOf(files[ids[j]]) : a < b
  PROVE  SearchLevel1(files, ids, k) = FirstEntry(TablesOf(files, ids), k)
<1> DEFINE t == TablesOf(files, ids)
           reach == {i \in DOMAIN ids : \E j \in KeysOf(files[ids[i]]) : j >= k}
<1>1. t \in Seq(Tables) /\ Len(t) = Len(ids) /\ Len(ids) \in Nat /\ \A i \in 1..Len(ids) : t[i] = files[ids[i]]
  <2>1. t = [i \in 1..Len(ids) |-> files[ids[i]]] /\ Len(ids) \in Nat
    BY DEF TablesOf
  <2>2. t \in [1..Len(ids) -> Tables]
    BY <2>1
  <2> HIDE DEF t
  <2>3. t \in Seq(Tables) /\ Len(t) = Len(ids)
    BY <2>1, <2>2
  <2> QED BY <2>1, <2>3
<1>2. \A x \in Keys : x \in Nat
  BY TablesAssumption DEF TablesAssumption
<1>3. ASSUME NEW i \in 1..Len(ids), i \notin reach PROVE t[i][k] = None
  <2>1. k \notin KeysOf(files[ids[i]])
    BY <1>2, <1>3
  <2> QED BY <1>1, <2>1 DEF KeysOf
<1>4. CASE reach = {}
  <2>1. \A i \in 1..Len(t) : t[i][k] = None
    BY <1>1, <1>3, <1>4
  <2>2. FirstEntry(t, k) = None
    <3> HIDE DEF t
    <3> QED BY <1>1, <2>1, FirstEntryIs
  <2> QED BY <1>4, <2>2 DEF SearchLevel1
<1>5. CASE reach # {}
  <2> DEFINE m == Min(reach)
  <2>1. reach \in SUBSET Nat
    OBVIOUS
  <2>2. m \in reach /\ \A i \in reach : m <= i
    <3> HIDE DEF reach
    <3> QED BY <1>5, <2>1, MinOf
  <2>3. m \in 1..Len(ids) /\ SearchLevel1(files, ids, k) = t[m][k]
    BY <1>1, <1>5, <2>2 DEF SearchLevel1
  <2>4. PICK a \in KeysOf(files[ids[m]]) : a >= k
    BY <2>2
  <2>5. ASSUME NEW i \in 1..Len(ids), i < m PROVE t[i][k] = None
    <3>1. i \notin reach
      <4> HIDE DEF reach, m
      <4> QED BY <2>2, <2>3, <2>5
    <3> QED BY <1>3, <3>1
  <2> HIDE DEF reach, t, m
  <2>6. CASE t[m][k] # None
    BY <1>1, <2>3, <2>5, <2>6, FirstEntryAt DEF t
  <2>7. CASE t[m][k] = None
    <3>1. ASSUME NEW i \in 1..Len(t) PROVE t[i][k] = None
      <4>1. i < m \/ i = m \/ m < i
        BY <1>1, <2>3
      <4>2. CASE m < i
        <5>1. \A b \in KeysOf(files[ids[i]]) : a < b
          BY <1>1, <2>3, <2>4, <4>2
        <5>2. a \in Nat /\ k \in Nat
          BY <1>2, <2>4 DEF KeysOf
        <5>3. k \notin KeysOf(files[ids[i]])
          BY <2>4, <5>1, <5>2
        <5> QED BY <1>1, <5>3 DEF KeysOf
      <4> QED BY <1>1, <2>5, <2>7, <4>1, <4>2
    <3>2. FirstEntry(t, k) = None
      BY <1>1, <3>1, FirstEntryIs
    <3> QED BY <2>3, <2>7, <3>2 DEF t
  <2> QED BY <2>6, <2>7
<1> QED BY <1>4, <1>5

------------------------------------------------------------------------------
(* The table with the largest ID, and the queue of memtables *)

\* Of the files that have the key LargestIDEntry takes the one with the largest ID.
LEMMA LargestIs ==
  ASSUME NEW files, NEW ids \in SUBSET Nat, IsFiniteSet(ids), NEW k
  PROVE  \/ LargestIDEntry(files, ids, k) = None /\ \A id \in ids : files[id][k] = None
         \/ \E id \in ids : /\ LargestIDEntry(files, ids, k) = files[id][k] /\ files[id][k] # None
                            /\ \A j \in ids : j > id => files[j][k] = None
<1> DEFINE having == {id \in ids : files[id][k] # None}
<1>1. CASE having = {}
  BY <1>1 DEF LargestIDEntry
<1>2. CASE having # {}
  <2> DEFINE id == Max(having)
  <2>1. having \in SUBSET ids /\ having \in SUBSET Nat /\ IsFiniteSet(having)
    BY FS_Subset
  <2>2. id \in having /\ \A j \in having : id >= j
    <3> HIDE DEF having
    <3> QED BY <2>1, <1>2, MaxOf
  <2>3. LargestIDEntry(files, ids, k) = files[id][k]
    BY <1>2 DEF LargestIDEntry
  <2>4. ASSUME NEW j \in ids, j > id PROVE files[j][k] = None
    <3>1. j \notin having
      <4> HIDE DEF having, id
      <4> QED BY <2>1, <2>2, <2>4
    <3> QED BY <3>1
  <2>5. id \in ids /\ files[id][k] # None
    BY <2>2
  <2> HIDE DEF id
  <2> QED BY <2>3, <2>4, <2>5
<1> QED BY <1>1, <1>2

\* If none has it there is no entry.
LEMMA LargestNone ==
  ASSUME NEW files, NEW ids, NEW k, \A id \in ids : files[id][k] = None
  PROVE  LargestIDEntry(files, ids, k) = None
BY DEF LargestIDEntry

\* It is determined by that.
LEMMA LargestAt ==
  ASSUME NEW files, NEW ids \in SUBSET Nat, IsFiniteSet(ids), NEW k, NEW id \in ids, files[id][k] # None,
         \A j \in ids : j > id => files[j][k] = None
  PROVE  LargestIDEntry(files, ids, k) = files[id][k]
<1> DEFINE having == {x \in ids : files[x][k] # None}
<1>1. having \in SUBSET ids /\ having \in SUBSET Nat /\ IsFiniteSet(having) /\ id \in having
  BY FS_Subset
<1>2. Max(having) \in having /\ \A j \in having : Max(having) >= j
  <2> HIDE DEF having
  <2> QED BY <1>1, MaxOf
<1>3. LargestIDEntry(files, ids, k) = files[Max(having)][k]
  BY <1>1 DEF LargestIDEntry
<1>4. PICK m \in having : m = Max(having)
  BY <1>2
<1>5. m \in ids /\ files[m][k] # None
  OBVIOUS
<1> HIDE DEF having
<1>6. ~(m > id) /\ m >= id /\ m \in Nat /\ id \in Nat
  BY <1>1, <1>2, <1>4, <1>5
<1>7. m = id
  BY <1>6
<1> QED BY <1>3, <1>4, <1>7

\* Files without the key do not count.
LEMMA LargestSame ==
  ASSUME NEW files, NEW other, NEW A \in SUBSET Nat, NEW B \in SUBSET Nat, NEW k,
         IsFiniteSet(A), IsFiniteSet(B),
         \A id \in A : files[id][k] # None => id \in B /\ other[id][k] = files[id][k],
         \A id \in B : other[id][k] # None => id \in A /\ other[id][k] = files[id][k]
  PROVE  LargestIDEntry(files, A, k) = LargestIDEntry(other, B, k)
<1>1. CASE \E id \in A : files[id][k] # None
  <2>1. PICK id \in A : /\ LargestIDEntry(files, A, k) = files[id][k] /\ files[id][k] # None
                        /\ \A j \in A : j > id => files[j][k] = None
    BY <1>1, LargestIs
  <2>2. id \in B /\ other[id][k] = files[id][k] /\ \A j \in B : j > id => other[j][k] = None
    BY <2>1
  <2>3. LargestIDEntry(other, B, k) = other[id][k]
    BY <2>1, <2>2, LargestAt
  <2> QED BY <2>1, <2>2, <2>3
<1>2. CASE ~ \E id \in A : files[id][k] # None
  <2>1. LargestIDEntry(files, A, k) = None
    BY <1>2, LargestNone
  <2>2. \A id \in B : other[id][k] = None
    BY <1>2
  <2>3. LargestIDEntry(other, B, k) = None
    BY <2>2, LargestNone
  <2> QED BY <2>1, <2>3
<1> QED BY <1>1, <1>2

\* Files with larger IDs come first.
LEMMA LargestSplit ==
  ASSUME NEW files, NEW A \in SUBSET Nat, NEW B \in SUBSET Nat, NEW k,
         IsFiniteSet(A), IsFiniteSet(B), \A a \in A, b \in B : a > b, NEW C, C = A \cup B
  PROVE  LargestIDEntry(files, C, k) =
           IF LargestIDEntry(files, A, k) # None THEN LargestIDEntry(files, A, k)
           ELSE LargestIDEntry(files, B, k)
<1>1. C \in SUBSET Nat /\ IsFiniteSet(C)
  BY FS_Union
<1>2. CASE LargestIDEntry(files, A, k) # None
  <2>1. PICK id \in A : /\ LargestIDEntry(files, A, k) = files[id][k] /\ files[id][k] # None
                        /\ \A j \in A : j > id => files[j][k] = None
    BY <1>2, LargestIs
  <2>2. id \in C /\ \A j \in C : j > id => j \in A
    <3>1. \A j \in B : j \in Nat /\ id \in Nat /\ id > j
      OBVIOUS
    <3>2. \A j \in B : ~(j > id)
      BY <3>1
    <3> QED BY <3>2
  <2>3. LargestIDEntry(files, C, k) = files[id][k]
    BY <1>1, <2>1, <2>2, LargestAt
  <2> QED BY <1>2, <2>1, <2>3
<1>3. CASE LargestIDEntry(files, A, k) = None
  <2>1. \A id \in A : files[id][k] = None
    BY <1>3, LargestIs
  <2>2. LargestIDEntry(files, C, k) = LargestIDEntry(files, B, k)
    <3>1. \A id \in C : files[id][k] # None => id \in B
      BY <2>1
    <3> QED BY <1>1, <3>1, LargestSame
  <2> QED BY <1>3, <2>2
<1> QED BY <1>2, <1>3

\* The tables of a sequence of files.
LEMMA TablesOfType ==
  ASSUME NEW files, NEW ids \in Seq(Nat), \A id \in Range(ids) : files[id] \in Tables
  PROVE  /\ TablesOf(files, ids) \in Seq(Tables) /\ Len(TablesOf(files, ids)) = Len(ids)
         /\ \A i \in 1..Len(ids) : TablesOf(files, ids)[i] = files[ids[i]] /\ ids[i] \in Range(ids)
<1> DEFINE t == TablesOf(files, ids)
<1>1. t = [i \in 1..Len(ids) |-> files[ids[i]]] /\ Len(ids) \in Nat
  BY DEF TablesOf
<1>2. \A i \in 1..Len(ids) : ids[i] \in Range(ids)
  BY DEF Range
<1>3. t \in [1..Len(ids) -> Tables]
  BY <1>1, <1>2
<1> HIDE DEF t
<1>4. t \in Seq(Tables) /\ Len(t) = Len(ids)
  BY <1>1, <1>3
<1> QED BY <1>1, <1>2, <1>4 DEF t

\* When the IDs descend, the first file that has the key has the largest ID.
LEMMA FirstIsLargest ==
  ASSUME NEW files, NEW ids \in Seq(Nat), \A id \in Range(ids) : files[id] \in Tables, NEW k \in Keys,
         \A i, j \in 1..Len(ids) : i < j => ids[i] > ids[j]
  PROVE  FirstEntry(TablesOf(files, ids), k) = LargestIDEntry(files, Range(ids), k)
<1> DEFINE t == TablesOf(files, ids)
<1>1. t \in Seq(Tables) /\ Len(t) = Len(ids) /\ \A i \in 1..Len(ids) : t[i] = files[ids[i]] /\ ids[i] \in Range(ids)
  BY TablesOfType
<1>2. Range(ids) \in SUBSET Nat /\ IsFiniteSet(Range(ids)) /\ \A id \in Range(ids) : \E i \in 1..Len(ids) : id = ids[i]
  <2>1. IsFiniteSet(1..Len(ids))
    BY FS_Interval
  <2>2. ids \in Surjection(1..Len(ids), Range(ids))
    BY DEF Surjection, Range
  <2>3. IsFiniteSet(Range(ids))
    BY <2>1, <2>2, FS_Surjection
  <2> QED BY <2>3 DEF Range
<1> HIDE DEF t
<1>3. CASE FirstEntry(t, k) = None
  <2>1. \A i \in 1..Len(t) : t[i][k] = None
    BY <1>1, <1>3, FirstEntryIs
  <2>2. \A id \in Range(ids) : files[id][k] = None
    BY <1>1, <1>2, <2>1
  <2>3. LargestIDEntry(files, Range(ids), k) = None
    BY <2>2, LargestNone
  <2> QED BY <1>3, <2>3 DEF t
<1>4. CASE FirstEntry(t, k) # None
  <2>1. PICK i \in 1..Len(t) : /\ FirstEntry(t, k) = t[i][k] /\ t[i][k] # None
                               /\ \A j \in 1..Len(t) : j < i => t[j][k] = None
    BY <1>1, <1>4, FirstEntryIs
  <2>2. ids[i] \in Range(ids) /\ files[ids[i]][k] # None /\ files[ids[i]][k] = t[i][k]
    BY <1>1, <2>1
  <2>3. ASSUME NEW id \in Range(ids), id > ids[i] PROVE files[id][k] = None
    <3>1. PICK j \in 1..Len(ids) : id = ids[j]
      BY <1>2
    <3>2. i \in 1..Len(ids) /\ ids[i] \in Nat /\ ids[j] \in Nat /\ i \in Nat /\ j \in Nat
      BY <1>1, <2>1
    <3>3. ~(i < j) /\ i # j
      BY <2>3, <3>1, <3>2
    <3>4. j < i
      BY <3>2, <3>3
    <3> QED BY <1>1, <2>1, <3>1, <3>4
  <2>4. LargestIDEntry(files, Range(ids), k) = files[ids[i]][k]
    BY <1>2, <2>2, <2>3, LargestAt
  <2> QED BY <2>1, <2>2, <2>4 DEF t
<1> QED BY <1>3, <1>4

\* A flushed file is looked into first.
LEMMA FirstPrepended ==
  ASSUME NEW files, NEW ids \in Seq(Nat), NEW id \in Nat, files[id] \in Tables,
         \A x \in Range(ids) : files[x] \in Tables, NEW k \in Keys, NEW all, all = <<id>> \o ids
  PROVE  FirstEntry(TablesOf(files, all), k) =
           IF files[id][k] # None THEN files[id][k] ELSE FirstEntry(TablesOf(files, ids), k)
<1> DEFINE t == TablesOf(files, ids)
           u == TablesOf(files, all)
<1>1. t \in Seq(Tables) /\ Len(t) = Len(ids) /\ Len(ids) \in Nat /\ \A i \in 1..Len(ids) : t[i] = files[ids[i]]
  BY TablesOfType
<1>2. /\ all \in Seq(Nat) /\ Len(all) = 1 + Len(ids)
      /\ all[1] = id /\ \A i \in 1..Len(ids) : all[i + 1] = ids[i]
  OBVIOUS
<1>3. \A i \in 1..Len(all) : i = 1 \/ \E j \in 1..Len(ids) : i = j + 1
  <2> SUFFICES ASSUME NEW i \in 1..Len(all), i # 1 PROVE \E j \in 1..Len(ids) : i = j + 1
    OBVIOUS
  <2>1. PICK n \in Nat : n = Len(ids)
    BY <1>1
  <2>2. i - 1 \in 1..n /\ i = (i - 1) + 1
    BY <1>2, <2>1
  <2> QED BY <2>1, <2>2
<1>4. \A x \in Range(all) : files[x] \in Tables
  <2>1. \A x \in Range(all) : \E i \in 1..Len(all) : x = all[i]
    BY <1>2 DEF Range
  <2>2. \A j \in 1..Len(ids) : ids[j] \in Range(ids)
    BY DEF Range
  <2>3. \A i \in 1..Len(all) : files[all[i]] \in Tables
    <3> SUFFICES ASSUME NEW i \in 1..Len(all) PROVE files[all[i]] \in Tables
      OBVIOUS
    <3>1. CASE i = 1
      BY <1>2, <3>1
    <3>2. ASSUME NEW j \in 1..Len(ids), i = j + 1 PROVE files[all[i]] \in Tables
      <4>1. all[i] = ids[j]
        BY <1>2, <3>2
      <4> QED BY <2>2, <4>1
    <3> QED BY <1>3, <3>1, <3>2
  <2> QED BY <2>1, <2>3
<1>5. u \in Seq(Tables) /\ Len(u) = Len(all) /\ \A i \in 1..Len(all) : u[i] = files[all[i]]
  BY <1>2, <1>4, TablesOfType
<1>6. 1 \in 1..Len(u) /\ u[1] = files[id] /\ \A j \in 1..Len(ids) : j + 1 \in 1..Len(u) /\ u[j + 1] = t[j]
  <2>1. 1 \in 1..Len(all) /\ \A j \in 1..Len(ids) : j + 1 \in 1..Len(all)
    BY <1>1, <1>2
  <2> HIDE DEF u, t
  <2>2. u[1] = files[id]
    BY <1>2, <1>5, <2>1
  <2>3. ASSUME NEW j \in 1..Len(ids) PROVE u[j + 1] = t[j]
    <3>1. u[j + 1] = files[all[j + 1]]
      BY <1>5, <2>1
    <3>2. all[j + 1] = ids[j]
      BY <1>2
    <3> QED BY <1>1, <3>1, <3>2
  <2> QED BY <1>5, <2>1, <2>2, <2>3
<1> HIDE DEF u, t
<1>7. CASE files[id][k] # None
  <2>1. \A j \in 1..Len(u) : j < 1 => u[j][k] = None
    OBVIOUS
  <2>2. FirstEntry(u, k) = u[1][k]
    BY <1>5, <1>6, <1>7, <2>1, FirstEntryAt
  <2> QED BY <1>6, <1>7, <2>2 DEF u
<1>8. CASE files[id][k] = None /\ FirstEntry(t, k) = None
  <2>1. \A j \in 1..Len(t) : t[j][k] = None
    BY <1>1, <1>8, FirstEntryIs
  <2>2. \A i \in 1..Len(u) : u[i][k] = None
    <3> SUFFICES ASSUME NEW i \in 1..Len(u) PROVE u[i][k] = None
      OBVIOUS
    <3>1. i = 1 \/ \E j \in 1..Len(ids) : i = j + 1
      BY <1>3, <1>5
    <3> QED BY <1>1, <1>6, <1>8, <2>1, <3>1
  <2>3. FirstEntry(u, k) = None
    BY <1>5, <2>2, FirstEntryIs
  <2> QED BY <1>8, <2>3 DEF u, t
<1>9. CASE files[id][k] = None /\ FirstEntry(t, k) # None
  <2>1. PICK i \in 1..Len(t) : /\ FirstEntry(t, k) = t[i][k] /\ t[i][k] # None
                               /\ \A j \in 1..Len(t) : j < i => t[j][k] = None
    BY <1>1, <1>9, FirstEntryIs
  <2>2. i + 1 \in 1..Len(u) /\ u[i + 1] = t[i]
    BY <1>1, <1>6
  <2>3. ASSUME NEW h \in 1..Len(u), h < i + 1 PROVE u[h][k] = None
    <3>1. h = 1 \/ \E j \in 1..Len(ids) : h = j + 1
      BY <1>3, <1>5
    <3>2. \A j \in 1..Len(ids) : h = j + 1 => j < i
      BY <1>1, <2>3
    <3>3. CASE h = 1
      BY <1>6, <1>9, <3>3
    <3>4. ASSUME NEW j \in 1..Len(ids), h = j + 1 PROVE u[h][k] = None
      <4>1. u[h] = t[j]
        BY <1>6, <3>4
      <4>2. t[j][k] = None
        BY <1>1, <2>1, <3>2, <3>4
      <4> QED BY <4>1, <4>2
    <3> QED BY <3>1, <3>3, <3>4
  <2>4. FirstEntry(u, k) = u[i + 1][k]
    BY <1>5, <2>1, <2>2, <2>3, FirstEntryAt
  <2> QED BY <1>9, <2>1, <2>2, <2>4 DEF u, t
<1> QED BY <1>7, <1>8, <1>9

\* A lookup in the levels reads only their own files.
LEMMA LevelsSame ==
  ASSUME NEW files, NEW other, NEW lz \in Seq(Nat), NEW lo \in Seq(Nat), NEW k,
         \A id \in Range(lz) \cup Range(lo) : other[id] = files[id]
  PROVE  /\ FirstEntry(TablesOf(files, lz), k) = FirstEntry(TablesOf(other, lz), k)
         /\ SearchLevel1(files, lo, k) = SearchLevel1(other, lo, k)
         /\ SearchLevels(files, lz, lo, k) = SearchLevels(other, lz, lo, k)
<1>1. \A i \in DOMAIN lz : other[lz[i]] = files[lz[i]]
  BY DEF Range
<1>2. TablesOf(files, lz) = TablesOf(other, lz)
  BY <1>1 DEF TablesOf
<1>3. \A i \in DOMAIN lo : other[lo[i]] = files[lo[i]]
  BY DEF Range
<1> DEFINE a == {i \in DOMAIN lo : \E j \in KeysOf(files[lo[i]]) : j >= k}
           b == {i \in DOMAIN lo : \E j \in KeysOf(other[lo[i]]) : j >= k}
<1>4. a = b
  BY <1>3
<1>5. SearchLevel1(files, lo, k) = IF a = {} THEN None ELSE files[lo[Min(a)]][k]
  BY DEF SearchLevel1
<1>6. SearchLevel1(other, lo, k) = IF b = {} THEN None ELSE other[lo[Min(b)]][k]
  BY DEF SearchLevel1
<1>7. a # {} => Min(a) \in DOMAIN lo
  <2>1. a \in SUBSET (DOMAIN lo) /\ a \in SUBSET Nat
    OBVIOUS
  <2> HIDE DEF a
  <2> QED BY <2>1, MinOf
<1>8. SearchLevel1(files, lo, k) = SearchLevel1(other, lo, k)
  <2> HIDE DEF a, b
  <2> QED BY <1>3, <1>4, <1>5, <1>6, <1>7
<1> QED BY <1>2, <1>8 DEF SearchLevels

Memtables == [seg : Nat, data : Tables]

\* What the queue of immutable memtables, oldest first, says of key k.
Queued(q, k) == FirstEntry([i \in DOMAIN q |-> q[Len(q) + 1 - i].data], k)

\* The newest memtable that has the key decides.
LEMMA QueuedIs ==
  ASSUME NEW q \in Seq(Memtables), NEW k \in Keys
  PROVE  \/ Queued(q, k) = None /\ \A i \in 1..Len(q) : q[i].data[k] = None
         \/ \E i \in 1..Len(q) : /\ Queued(q, k) = q[i].data[k] /\ q[i].data[k] # None
                                 /\ \A j \in 1..Len(q) : j > i => q[j].data[k] = None
<1>1. PICK n \in Nat : n = Len(q)
  OBVIOUS
<1> DEFINE t == [i \in DOMAIN q |-> q[Len(q) + 1 - i].data]
<1>2. \A i \in 1..n : n + 1 - i \in 1..n /\ n + 1 - (n + 1 - i) = i
  BY <1>1
<1>3. \A i \in 1..n : q[i] \in Memtables
  BY <1>1
<1>4. \A i \in 1..n : q[n + 1 - i].data \in Tables
  BY <1>2, <1>3 DEF Memtables
<1>5. t \in Seq(Tables) /\ Len(t) = n
  <2>1. DOMAIN q = 1..n
    BY <1>1
  <2>2. t \in [1..n -> Tables]
    BY <1>1, <1>4, <2>1
  <2> HIDE DEF t
  <2> QED BY <2>2
<1>6. Queued(q, k) = FirstEntry(t, k)
  BY DEF Queued
<1>7. \A i \in 1..n : t[i] = q[n + 1 - i].data
  BY <1>1
<1> HIDE DEF t
<1>8. CASE FirstEntry(t, k) = None
  <2>1. \A i \in 1..n : t[i][k] = None
    BY <1>5, <1>8, FirstEntryIs
  <2>2. ASSUME NEW i \in 1..n PROVE q[i].data[k] = None
    <3>1. t[n + 1 - i] = q[n + 1 - (n + 1 - i)].data
      BY <1>2, <1>7
    <3>2. t[n + 1 - i] = q[i].data
      BY <1>2, <3>1
    <3> QED BY <1>2, <2>1, <3>2
  <2> QED BY <1>1, <1>6, <1>8, <2>2
<1>9. CASE FirstEntry(t, k) # None
  <2>1. PICK h \in 1..n : /\ FirstEntry(t, k) = t[h][k] /\ t[h][k] # None
                          /\ \A j \in 1..n : j < h => t[j][k] = None
    BY <1>5, <1>9, FirstEntryIs
  <2>2. PICK i \in 1..n : i = n + 1 - h
    BY <1>2
  <2>3. t[h] = q[i].data
    BY <1>7, <2>2
  <2>4. ASSUME NEW j \in 1..n, j > i PROVE q[j].data[k] = None
    <3>1. PICK g \in 1..n : g = n + 1 - j
      BY <1>2
    <3>2. n + 1 - g = j /\ g < h
      BY <1>1, <2>2, <2>4, <3>1
    <3>3. t[g] = q[j].data
      BY <1>7, <3>2
    <3> QED BY <2>1, <3>2, <3>3
  <2> QED BY <1>1, <1>6, <2>1, <2>3, <2>4
<1> QED BY <1>8, <1>9

\* That determines the answer of the queue.
LEMMA QueuedAt ==
  ASSUME NEW q \in Seq(Memtables), NEW k \in Keys, NEW i \in 1..Len(q), q[i].data[k] # None,
         \A j \in 1..Len(q) : j > i => q[j].data[k] = None
  PROVE  Queued(q, k) = q[i].data[k]
<1>1. \/ Queued(q, k) = None /\ \A h \in 1..Len(q) : q[h].data[k] = None
      \/ \E h \in 1..Len(q) : /\ Queued(q, k) = q[h].data[k] /\ q[h].data[k] # None
                              /\ \A j \in 1..Len(q) : j > h => q[j].data[k] = None
  BY QueuedIs
<1>2. PICK h \in 1..Len(q) : /\ Queued(q, k) = q[h].data[k] /\ q[h].data[k] # None
                             /\ \A j \in 1..Len(q) : j > h => q[j].data[k] = None
  BY <1>1
<1>3. ~(h > i) /\ ~(i > h) /\ h \in Nat /\ i \in Nat
  BY <1>2
<1>4. h = i
  BY <1>3
<1> QED BY <1>2, <1>4

\* A frozen memtable comes first.
LEMMA QueuedAppend ==
  ASSUME NEW q \in Seq(Memtables), NEW m \in Memtables, NEW k \in Keys, NEW r, r = Append(q, m)
  PROVE  Queued(r, k) = IF m.data[k] # None THEN m.data[k] ELSE Queued(q, k)
<1>1. PICK n \in Nat : n = Len(q)
  OBVIOUS
<1>2. r \in Seq(Memtables) /\ Len(r) = n + 1 /\ r[n + 1] = m /\ \A i \in 1..n : r[i] = q[i]
  BY <1>1
<1>3. \A i \in 1..(n + 1) : i \in 1..n \/ i = n + 1
  BY <1>1
<1>4. n + 1 \in 1..Len(r) /\ \A i \in 1..n : i \in 1..Len(r)
  BY <1>2
<1>5. CASE m.data[k] # None
  <2>1. \A j \in 1..Len(r) : ~(j > n + 1)
    BY <1>2
  <2>2. Queued(r, k) = r[n + 1].data[k]
    BY <1>2, <1>4, <1>5, <2>1, QueuedAt
  <2> QED BY <1>2, <1>5, <2>2
<1>6. CASE m.data[k] = None /\ Queued(q, k) = None
  <2>1. \A i \in 1..n : q[i].data[k] = None
    BY <1>1, <1>6, QueuedIs
  <2>2. \A i \in 1..Len(r) : r[i].data[k] = None
    BY <1>2, <1>3, <1>6, <2>1
  <2>3. Queued(r, k) = None
    BY <1>2, <2>2, QueuedIs
  <2> QED BY <1>6, <2>3
<1>7. CASE m.data[k] = None /\ Queued(q, k) # None
  <2>1. PICK i \in 1..n : /\ Queued(q, k) = q[i].data[k] /\ q[i].data[k] # None
                          /\ \A j \in 1..n : j > i => q[j].data[k] = None
    BY <1>1, <1>7, QueuedIs
  <2>2. \A j \in 1..Len(r) : j > i => r[j].data[k] = None
    BY <1>2, <1>3, <1>7, <2>1
  <2>3. r[i].data[k] = q[i].data[k]
    BY <1>2
  <2>4. Queued(r, k) = r[i].data[k]
    BY <1>2, <1>4, <2>1, <2>2, <2>3, QueuedAt
  <2> QED BY <1>7, <2>1, <2>3, <2>4
<1> QED BY <1>5, <1>6, <1>7

\* The oldest memtable comes last.
LEMMA QueuedTail ==
  ASSUME NEW q \in Seq(Memtables), q # <<>>, NEW k \in Keys, NEW r, r = Tail(q)
  PROVE  Queued(q, k) = IF Queued(r, k) # None THEN Queued(r, k) ELSE Head(q).data[k]
<1>1. PICK n \in Nat : n = Len(r)
  OBVIOUS
<1>2. r \in Seq(Memtables) /\ Len(q) = n + 1 /\ q[1] = Head(q) /\ \A i \in 1..n : r[i] = q[i + 1]
  BY <1>1
<1>3. ASSUME NEW i \in 1..Len(q), i # 1 PROVE \E j \in 1..n : i = j + 1
  <2>1. i - 1 \in 1..n /\ i = (i - 1) + 1
    BY <1>1, <1>2, <1>3
  <2> QED BY <2>1
<1>4. 1 \in 1..Len(q) /\ \A i \in 1..n : i + 1 \in 1..Len(q)
  BY <1>2
<1>5. CASE Queued(r, k) # None
  <2>1. PICK i \in 1..n : /\ Queued(r, k) = r[i].data[k] /\ r[i].data[k] # None
                          /\ \A j \in 1..n : j > i => r[j].data[k] = None
    BY <1>1, <1>2, <1>5, QueuedIs
  <2>2. ASSUME NEW h \in 1..Len(q), h > i + 1 PROVE q[h].data[k] = None
    <3>1. PICK j \in 1..n : h = j + 1
      BY <1>3, <2>2
    <3>2. j > i
      BY <2>2, <3>1
    <3>3. r[j] = q[h]
      BY <1>2, <3>1
    <3> QED BY <2>1, <3>2, <3>3
  <2>3. r[i] = q[i + 1]
    BY <1>2
  <2>4. Queued(q, k) = q[i + 1].data[k]
    BY <1>4, <2>1, <2>2, <2>3, QueuedAt
  <2> QED BY <1>5, <2>1, <2>3, <2>4
<1>6. CASE Queued(r, k) = None
  <2>1. \A i \in 1..n : r[i].data[k] = None
    BY <1>1, <1>2, <1>6, QueuedIs
  <2>2. ASSUME NEW h \in 1..Len(q), h # 1 PROVE q[h].data[k] = None
    <3>1. PICK j \in 1..n : h = j + 1
      BY <1>3, <2>2
    <3>2. r[j] = q[h]
      BY <1>2, <3>1
    <3> QED BY <2>1, <3>2
  <2>3. CASE Head(q).data[k] = None
    <3>1. \A h \in 1..Len(q) : q[h].data[k] = None
      BY <1>2, <2>2, <2>3
    <3>2. Queued(q, k) = None
      BY <3>1, QueuedIs
    <3> QED BY <1>6, <2>3, <3>2
  <2>4. CASE Head(q).data[k] # None
    <3>1. \A h \in 1..Len(q) : h > 1 => q[h].data[k] = None
      BY <2>2
    <3>2. Queued(q, k) = q[1].data[k]
      BY <1>2, <1>4, <2>4, <3>1, QueuedAt
    <3> QED BY <1>2, <1>6, <3>2
  <2> QED BY <2>3, <2>4
<1> QED BY <1>5, <1>6

\* A live key is in one of the outputs.
LEMMA OutputInRange ==
  ASSUME NEW live \in SUBSET Keys, NEW k \in live
  PROVE  OutputOf(k, live) \in 1..OutputCount(live) /\ OutputCount(live) \in Nat
<1> DEFINE A == {j \in live : j < k}
           c == KeysPerFile
           a == Cardinality(A)
           n == Cardinality(live)
<1>1. c \in Nat /\ c > 0 /\ k \in Nat /\ IsFiniteSet(live)
  <2>1. c \in Nat /\ c > 0 /\ k \in Nat /\ IsFiniteSet(Keys)
    BY TablesAssumption DEF TablesAssumption
  <2> QED BY <2>1, FS_Subset
<1>2. A \in SUBSET live /\ k \notin A
  BY <1>1
<1>3. IsFiniteSet(A) /\ a \in Nat /\ n \in Nat /\ a + 1 <= n
  <2> HIDE DEF A
  <2>1. IsFiniteSet(A) /\ A \cup {k} \in SUBSET live
    BY <1>1, <1>2, FS_Subset
  <2>2. IsFiniteSet(A \cup {k}) /\ Cardinality(A \cup {k}) = a + 1
    BY <1>2, <2>1, FS_AddElement
  <2>3. Cardinality(A \cup {k}) <= n
    BY <1>1, <2>1, FS_Subset
  <2> QED BY <1>1, <2>1, <2>2, <2>3, FS_CardinalityType
<1>4. OutputOf(k, live) = (a \div c) + 1 /\ OutputCount(live) = (n + c - 1) \div c
  BY DEF OutputOf, OutputCount
<1> HIDE DEF a, n, A
<1>5. a + c \in Nat /\ n + c - 1 \in Nat /\ a + c <= n + c - 1
  BY <1>1, <1>3
<1>6. (a + c) \div c <= (n + c - 1) \div c
  BY <1>5, DivMonotone
<1>7. (a + c) \div c = (a \div c) + 1 /\ a \div c \in Nat /\ (n + c - 1) \div c \in Int
  <2> HIDE DEF c
  <2>1. PICK p \in Int : p = a \div c
    BY <1>1, <1>3
  <2>2. c * p <= a /\ a < c * (p + 1)
    BY <1>1, <1>3, <2>1
  <2>3. c * (p + 1) <= a + c /\ a + c < c * ((p + 1) + 1)
    BY <1>1, <1>3, <2>1, <2>2
  <2>4. PICK q \in Int : q = (a + c) \div c
    BY <1>1, <1>3
  <2>5. c * q <= a + c /\ a + c < c * (q + 1)
    BY <1>1, <1>3, <2>4
  <2>6. q = p + 1
    <3>1. SUFFICES ASSUME q < p + 1 \/ q > p + 1 PROVE FALSE
      BY <2>1, <2>4
    <3>2. CASE q < p + 1
      <4>1. q + 1 <= p + 1
        BY <2>1, <2>4, <3>2
      <4>2. c * (q + 1) <= c * (p + 1)
        BY <1>1, <2>1, <2>4, <4>1
      <4> QED BY <1>1, <1>3, <2>3, <2>5, <4>2
    <3>3. CASE q > p + 1
      <4>1. (p + 1) + 1 <= q
        BY <2>1, <2>4, <3>3
      <4>2. c * ((p + 1) + 1) <= c * q
        BY <1>1, <2>1, <2>4, <4>1
      <4> QED BY <1>1, <1>3, <2>3, <2>5, <4>2
    <3> QED BY <3>1, <3>2, <3>3
  <2>7. a \div c \in Nat
    BY <1>1, <1>3
  <2> QED BY <1>1, <1>5, <2>1, <2>4, <2>6, <2>7
<1> HIDE DEF c
<1> QED BY <1>4, <1>6, <1>7

\* Searching the outputs of a merge answers what its inputs answer by the
\* largest ID; tombstones are gone, and a read does not see the difference.
LEMMA OutputsAnswer ==
  ASSUME NEW files, NEW ids \in SUBSET Nat, IsFiniteSet(ids), \A id \in ids : files[id] \in Tables,
         NEW other, NEW outs \in Seq(Nat), Len(outs) = OutputCount(LiveKeys(files, ids)),
         \A i \in 1..Len(outs) : other[outs[i]] = MergeOutput(files, ids, i), NEW k \in Keys
  PROVE  Answer(SearchLevel1(other, outs, k)) = Answer(LargestIDEntry(files, ids, k))
<1> DEFINE live == LiveKeys(files, ids)
           t == TablesOf(other, outs)
<1>1. \A i \in 1..Len(outs) : other[outs[i]] \in Tables
  BY MergeOutputType
<1>2. \A x \in Range(outs) : other[x] \in Tables
  BY <1>1 DEF Range
<1>3. t \in Seq(Tables) /\ Len(t) = Len(outs) /\ \A i \in 1..Len(outs) : t[i] = MergeOutput(files, ids, i)
  BY <1>2, TablesOfType
<1>4. SearchLevel1(other, outs, k) = FirstEntry(t, k)
  <2>1. ASSUME NEW i \in 1..Len(outs), NEW j \in 1..Len(outs), i < j,
               NEW a \in KeysOf(other[outs[i]]), NEW b \in KeysOf(other[outs[j]])
        PROVE  a < b
    <3>1. a \in KeysOf(MergeOutput(files, ids, i)) /\ b \in KeysOf(MergeOutput(files, ids, j)) /\ i \in Nat /\ j \in Nat
      BY <2>1
    <3> QED BY <2>1, <3>1, OutputsInKeyOrder
  <2> HIDE DEF t
  <2>2. SearchLevel1(other, outs, k) = FirstEntry(TablesOf(other, outs), k)
    BY <1>1, <2>1, SearchLevel1IsExact
  <2> QED BY <2>2 DEF t
<1>5. \A i \in 1..Len(outs) : MergeOutput(files, ids, i)[k] =
          IF k \in live /\ OutputOf(k, live) = i THEN LargestIDEntry(files, ids, k) ELSE None
  BY DEF MergeOutput
<1>6. live \in SUBSET Keys /\ (k \in live <=> LargestIDEntry(files, ids, k) \in Vals)
  BY DEF LiveKeys
<1>7. LargestIDEntry(files, ids, k) \in Entries
  BY LargestIDEntryType
<1>8. Tomb \notin Vals /\ None \notin Vals
  BY TablesAssumption DEF TablesAssumption
<1> HIDE DEF t, live
<1>9. CASE k \in live
  <2>1. PICK i : i = OutputOf(k, live)
    OBVIOUS
  <2>2. i \in 1..Len(t)
    BY <1>3, <1>6, <1>9, <2>1, OutputInRange DEF live
  <2>3. t[i][k] = LargestIDEntry(files, ids, k) /\ t[i][k] # None
    BY <1>3, <1>5, <1>6, <1>8, <1>9, <2>1, <2>2
  <2>4. \A j \in 1..Len(t) : j < i => t[j][k] = None
    BY <1>3, <1>5, <2>1, <2>2
  <2>5. FirstEntry(t, k) = t[i][k]
    BY <1>3, <2>2, <2>3, <2>4, FirstEntryAt
  <2> QED BY <1>4, <2>3, <2>5
<1>10. CASE k \notin live
  <2>1. \A i \in 1..Len(t) : t[i][k] = None
    BY <1>3, <1>5, <1>10
  <2>2. FirstEntry(t, k) = None
    BY <1>3, <2>1, FirstEntryIs
  <2> QED BY <1>4, <1>6, <1>7, <1>10, <2>2 DEF Answer, Entries
<1> QED BY <1>9, <1>10
===============================================================================
