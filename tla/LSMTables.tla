------------------------------ MODULE LSMTables ------------------------------
(****************************************************************************)
(* The data of the storage engine.  A memtable, a WAL segment and an        *)
(* SSTable are each abstracted to a table: what it records for every key, a *)
(* value, a tombstone or nothing.  The operators are the lookups and merges *)
(* that engine.go, wal/recovery.go and compactor/worker.go make over them;  *)
(* files is always a function from file IDs to tables.                      *)
(****************************************************************************)
EXTENDS Naturals, FiniteSets, Sequences, FiniteSetsExt

CONSTANTS
  Keys,        \* user keys, naturals so that SSTables are ordered by key
  Vals,        \* user values
  Tomb,        \* the tombstone a Delete records
  None,        \* no record for the key; also the answer "not found"
  KeysPerFile  \* Options.CompactionMaxSSTableSize, in keys per output file

ASSUME TablesAssumption ==
  /\ Keys \subseteq Nat /\ IsFiniteSet(Keys)
  /\ Tomb \notin Vals /\ None \notin Vals /\ Tomb # None
  /\ KeysPerFile \in Nat \ {0}

Entries == Vals \cup {Tomb, None}
Tables  == [Keys -> Entries]
Empty   == [k \in Keys |-> None]
KeysOf(t) == {k \in Keys : t[k] # None}

\* The elements of sequence s at a set of its positions, in order.
PartAt(s, positions) ==
  [n \in 1..Cardinality(positions) |->
     s[CHOOSE i \in positions : Cardinality({j \in positions : j <= i}) = n]]

\* SkipList.Size: a key costs one byte, a value one; a tombstone has no value.
Size(t) == Cardinality(KeysOf(t)) + Cardinality({k \in Keys : t[k] \in Vals})

\* SkipList.Put and SkipList.Delete for every record of a newer table.
Overlay(newer, older) == [k \in Keys |-> IF newer[k] # None THEN newer[k] ELSE older[k]]

\* What a read answers on meeting entry e: a tombstone hides the key.
MutAnswer(e) == e
Answer(e) == IF e = Tomb THEN None ELSE e

\* The entry for k in the first table of a sequence that has one.
FirstEntry(tables, k) ==
  LET hits == {i \in DOMAIN tables : tables[i][k] # None}
  IN  IF hits = {} THEN None ELSE tables[Min(hits)][k]

TablesOf(files, ids) == [i \in DOMAIN ids |-> files[ids[i]]]

\* Level 1 is searched by binary search for the first MaxKey not below k.
MutSearchLevel1(files, ids, k) ==
  LET reach == {i \in DOMAIN ids : \E j \in KeysOf(files[ids[i]]) : j > k}
  IN  IF reach = {} THEN None ELSE files[ids[Min(reach)]][k]
SearchLevel1(files, ids, k) ==
  LET reach == {i \in DOMAIN ids : \E j \in KeysOf(files[ids[i]]) : j >= k}
  IN  IF reach = {} THEN None ELSE files[ids[Min(reach)]][k]

SearchLevels(files, levelZero, levelOne, k) ==
  LET e == FirstEntry(TablesOf(files, levelZero), k)
  IN  IF e # None THEN e ELSE SearchLevel1(files, levelOne, k)

\* Of the tables named by ids, the entry for k in the one with the largest ID:
\* the rule of wal.Replay over segments and of MergeHeap.Less over SSTables.
LargestIDEntry(files, ids, k) ==
  LET having == {id \in ids : files[id][k] # None}
  IN  IF having = {} THEN None ELSE files[Max(having)][k]

Replay(files, ids) == [k \in Keys |-> LargestIDEntry(files, ids, k)]

\* The keys performMerge writes out: tombstones are elided at the bottom level.
LiveKeys(files, ids) == {k \in Keys : LargestIDEntry(files, ids, k) \in Vals}

\* performMerge rolls over to a new file after every KeysPerFile keys.
OutputCount(live) == (Cardinality(live) + KeysPerFile - 1) \div KeysPerFile
MutOutputOf(k, live) == (Cardinality({j \in live : j > k}) \div KeysPerFile) + 1
OutputOf(k, live) == (Cardinality({j \in live : j < k}) \div KeysPerFile) + 1
MergeOutput(files, ids, i) ==
  LET live == LiveKeys(files, ids)
  IN  [k \in Keys |-> IF k \in live /\ OutputOf(k, live) = i
                      THEN LargestIDEntry(files, ids, k) ELSE None]

\* Whether the largest ID picks the newest record of every key, when the
\* sequence of ids lists the files newest first.
LargestIDIsNewest(files, ids) ==
  \A k \in Keys : LargestIDEntry(files, Range(ids), k) = FirstEntry(TablesOf(files, ids), k)
==============================================================================
