--------------------------- MODULE MergingIterator ---------------------------
(****************************************************************************)
(* Reads over several tables: the merging iterator behind Scan              *)
(* (internal/storage/iterator.go, scanInternal in engine.go) and the point  *)
(* lookup of a snapshot (snapshot.go), both over memtables, Level 0 and     *)
(* Level 1 as a Scan or a Snapshot captured them.                           *)
(*                                                                          *)
(* Keys are naturals and the keys with the wanted prefix are lo..hi.        *)
(****************************************************************************)
EXTENDS LSMTables, SequencesExt

CONSTANTS
  MaxMemtables, MaxLevelZero, MaxLevelOne,  \* bounds: tables captured in memory and in the levels
  MaxKey                                    \* bound: prefixes are ranges of keys up to MaxKey

ASSUME IteratorAssumption == {MaxMemtables, MaxLevelZero, MaxLevelOne, MaxKey} \subseteq Nat

VARIABLES
  memtables,           \* newest first
  levelZero,           \* newest first
  levelOne,            \* in key order
  lo, hi,              \* the prefix
  iters,               \* sub-iterator -> the keys it has yet to visit
  sources,             \* sub-iterator -> its table
  step,                \* find: findNext is looking; valid; done
  current, returned    \* current entry, and what Next has returned so far

vars == <<memtables, levelZero, levelOne, lo, hi, iters, sources, step, current, returned>>
input == <<memtables, levelZero, levelOne, lo, hi, sources>>

NoEntry == [key |-> 0, val |-> None]

\* The Level 1 files whose key range meets the prefix.
Overlapping(files, a, b) ==
  PartAt(files, {i \in DOMAIN files : Max(KeysOf(files[i])) >= a /\ Min(KeysOf(files[i])) <= b})

TableSeqs(tables, max) == UNION {[1..n -> tables] : n \in 0..max}

\* Level 1 as a compaction leaves it: no tombstones, files split by key.
LevelOnes ==
  {files \in TableSeqs(Tables \ {Empty}, MaxLevelOne) :
     /\ \A i \in DOMAIN files, k \in Keys : files[i][k] # Tomb
     /\ \A i, j \in DOMAIN files : i < j => \A a \in KeysOf(files[i]), b \in KeysOf(files[j]) : a < b}

\* scanInternal: a cursor at the first key not below the prefix in every table.
Init ==
  /\ memtables \in TableSeqs(Tables, MaxMemtables)
  /\ levelZero \in TableSeqs(Tables \ {Empty}, MaxLevelZero)
  /\ levelOne \in LevelOnes
  /\ lo \in 1..MaxKey /\ hi \in lo..MaxKey
  /\ sources = memtables \o levelZero \o Overlapping(levelOne, lo, hi)
  /\ iters = [i \in DOMAIN sources |-> {k \in KeysOf(sources[i]) : k >= lo}]
  /\ step = "find" /\ current = NoEntry /\ returned = <<>>

Remaining == UNION Range(iters)

\* The smallest key under a cursor; of several cursors on it the first wins.
MutWinner == Max({i \in DOMAIN iters : Min(Remaining) \in iters[i]})
Winner == Min({i \in DOMAIN iters : Min(Remaining) \in iters[i]})

\* Every cursor on the key moves on, not only the winner.
Advanced == [i \in DOMAIN iters |-> iters[i] \ {Min(Remaining)}]

MutIsDeleted == FALSE
IsDeleted == sources[Winner][Min(Remaining)] = Tomb

\* One turn of the loop in findNext.
FindNext ==
  /\ step = "find"
  /\ \/ /\ \A k \in Remaining : k > hi
        /\ step' = "done" /\ UNCHANGED <<iters, current>>
     \/ /\ \E k \in Remaining : k <= hi
        /\ iters' = Advanced
        /\ \/ /\ IsDeleted /\ UNCHANGED <<step, current>>
           \/ /\ ~IsDeleted
              /\ step' = "valid"
              /\ current' = [key |-> Min(Remaining), val |-> sources[Winner][Min(Remaining)]]
  /\ UNCHANGED <<input, returned>>

\* mergingIterator.Next hands out the current entry and looks for the next.
NextEntry ==
  /\ step = "valid"
  /\ returned' = Append(returned, current) /\ step' = "find"
  /\ UNCHANGED <<input, iters, current>>

Next == FindNext \/ NextEntry
Spec == Init /\ [][Next]_vars

\* Level 0 and Level 1 as searchLevels sees them.
InLevels(k) == LET files == levelZero \o levelOne
               IN  SearchLevels(files, [i \in DOMAIN levelZero |-> i],
                                [i \in DOMAIN levelOne |-> Len(levelZero) + i], k)

\* dbEngine.Get over the captured tables: memtables newest first.
EngineGet(k) ==
  LET e == FirstEntry(memtables, k) IN Answer(IF e # None THEN e ELSE InLevels(k))

\* dbSnapshot.Get: Snapshot stored the memtables newest first, and Get goes
\* through them from the last to the first.
SnapshotGet(k) ==
  LET e == FirstEntry(Reverse(memtables), k) IN Answer(IF e # None THEN e ELSE InLevels(k))

-----------------------------------------------------------------------------
(* Reference and properties *)

\* What the captured state holds for k: its newest record, found by looking at
\* every table.
Newest(k) == Answer(FirstEntry(memtables \o levelZero \o levelOne, k))
Live == {k \in Keys \cap lo..hi : Newest(k) # None}
Entry == [k \in Keys |-> [key |-> k, val |-> Newest(k)]]
Expected == PartAt(Entry, Live)

\* Type correctness of the cursors and of what has been returned.
TypeOK ==
  /\ \A i \in DOMAIN iters : iters[i] \subseteq Keys
  /\ step \in {"find", "valid", "done"}
  /\ \A i \in DOMAIN returned : returned[i].key \in lo..hi /\ returned[i].val \in Vals

\* A Scan returns exactly the live keys under the prefix, in order, each with its
\* newest value: nothing deleted, shadowed, repeated or left out.
ScanIsExact ==
  /\ IsPrefix(returned, Expected)
  /\ step = "done" => returned = Expected

\* The point lookups agree with the reference: stopping at the first hit and the
\* binary search in Level 1 miss nothing.  That of a snapshot goes through the
\* memtables oldest first and is right while no two of them hold the key.
GetIsNewest ==
  step = "find" =>
    \A k \in Keys :
      /\ EngineGet(k) = Newest(k)
      /\ Cardinality({i \in DOMAIN memtables : memtables[i][k] # None}) <= 1 => SnapshotGet(k) = Newest(k)
==============================================================================
