--------------------------- MODULE LSMEngine_proofs ---------------------------
(****************************************************************************)
(* Proofs about LSMEngine, for any keys, values, sizes, limits and faults:  *)
(* the order of the queue and of Level 0, that a logged batch applies, that *)
(* the manifest on disk can be opened, that Level 1 is disjoint, and that   *)
(* reads answer with acknowledged writes through crash and recovery.        *)
(****************************************************************************)
EXTENDS LSMEngine, LSMTables_proofs

\* The engine has been opened; a Snapshot may still run after Close.
Running == status \in {"open", "closed"}

NoCollision == "file_collision" \notin exposed

------------------------------------------------------------------------------
(* The inductive invariant *)

\* TypeOK in parts, but for what is in the SSTables: control,
TypeControl ==
  /\ status \in {"down", "recovering", "open", "closed", "failed"}
  /\ manifestMu \in {"free", "writer", "flush", "compaction"}
  /\ wpc \in WriterSteps /\ wop \in {"write", "snapshot"} /\ fpc \in FlushSteps
  /\ cpc \in CompactSteps /\ kpc \in {"none", "drain", "queue", "signal", "join", "done"} /\ rpc \in RecoverSteps
\* flags,
TypeFlags ==
  /\ wal \in BOOLEAN /\ bgErr \in BOOLEAN /\ isClosing \in BOOLEAN
  /\ flushChan \in BOOLEAN /\ compactChan \in BOOLEAN /\ stopChan \in BOOLEAN
\* segment IDs, levels and manifests,
TypeSegments ==
  /\ manifest \in Manifests /\ pending \in Manifests
  /\ activeSeg \in Nat /\ nextSeg \in Nat /\ flushedSeg \in Nat /\ cseg \in Nat
  /\ l0 \in Seq(Nat) /\ l1 \in Seq(Nat) /\ cinputs \in Seq(Nat) /\ couts \in Seq(Nat)
\* counters,
TypeCounters == writes \in Nat /\ opens \in Nat /\ faults \in Nat /\ hw \in Nat
\* and data.
TypeData ==
  /\ IsFiles(walFiles)
  /\ DOMAIN sstFiles \subseteq Nat /\ IsFiniteSet(DOMAIN sstFiles)
  /\ memtable \in Tables /\ batch \in Tables
  /\ imm \in Seq([seg : Nat, data : Tables])
  /\ allowed \in [Keys -> SUBSET (Vals \cup {None})]
  /\ exposed \subseteq Exposures
TypeInv == TypeControl /\ TypeFlags /\ TypeSegments /\ TypeCounters /\ TypeData

\* Which steps of NewEngine, the workers, a writer and Close can coexist.
Control ==
  /\ status \in {"down", "failed"} => Volatile
  /\ status = "recovering" <=> rpc # "none"
  /\ status = "recovering" =>
       /\ imm = <<>> /\ ~bgErr /\ kpc = "none" /\ manifestMu = "free"
       /\ wpc = "idle" /\ fpc = "idle" /\ cpc = "idle"
  /\ isClosing <=> kpc # "none"
  /\ status = "closed" => kpc = "done" /\ fpc = "exit" /\ cpc = "exit"
  /\ kpc \in {"queue", "signal", "join", "done"} => wpc = "idle" \/ wop = "snapshot"
  /\ wpc \in {"check", "apply"} => wop = "write"
  /\ wpc \in {"rotate", "build", "save"} => memtable = Empty
  /\ kpc = "queue" => memtable # Empty
  /\ wpc = "save" <=> manifestMu = "writer"
  /\ fpc = "save" <=> manifestMu = "flush"
  /\ cpc \in {"save", "commit"} <=> manifestMu = "compaction"
  /\ fpc \in {"write", "register"} => imm # <<>>

\* Close has nothing left to queue: only now can the active segment itself be
\* in the queue or flushed.
Drained == kpc \in {"signal", "join", "done"} /\ wpc = "idle" /\ memtable = Empty

\* A flushed segment is older than the queue and than the active segment.
OlderThanMemory(s) ==
  /\ s < activeSeg \/ (Drained /\ s = activeSeg /\ flushedSeg = activeSeg)
  /\ \A j \in 1..Len(imm) : s < imm[j].seg

Descending(ids) == \A i, j \in 1..Len(ids) : i < j => ids[i] > ids[j]
Below(ids, n) == \A i \in 1..Len(ids) : ids[i] < n

\* The queue is in order, ahead of the active segment.
Queue ==
  /\ \A i, j \in 1..Len(imm) : i < j => imm[i].seg < imm[j].seg
  /\ \A i \in 1..Len(imm) : imm[i].seg < activeSeg \/ (Drained /\ imm[i].seg = activeSeg)

\* Which segment is active, and which one NewEngine is about to make active.
Active ==
  /\ Running => activeSeg < nextSeg /\ activeSeg > 0
  /\ rpc # "none" => activeSeg > 0 /\ nextSeg > 0
  /\ rpc \in {"flushSave", "cleanup", "resume"} => activeSeg < nextSeg

\* Level 0 is in order, behind the queue and the active segment.
LevelZero ==
  /\ Descending(l0) /\ Below(l0, nextSeg)
  /\ Running => \A i \in 1..Len(l0) : OlderThanMemory(l0[i])
  /\ rpc \in {"flushSave", "cleanup", "create", "resume"} => Below(l0, activeSeg)
  /\ fpc \in {"save", "cleanup"} => OlderThanMemory(flushedSeg)

\* A manifest, on disk or about to be written.
Orderly(m) == Descending(m.l0) /\ Below(m.l0, m.next) /\ m.next > 0

\* What the holder of manifestMu has built agrees with the levels.
Pending ==
  /\ manifestMu # "free" => Orderly(pending) /\ Range(pending.l0) \subseteq Range(l0)
  /\ manifestMu \in {"writer", "flush"} => pending.l0 = l0 /\ pending.l1 = l1
  /\ manifestMu \in {"flush", "compaction"} => pending.flushed = flushedSeg
  /\ manifestMu = "compaction" =>
       pending.l1 = couts /\ Range(pending.l0) \cap Range(cinputs) = {}
  /\ cpc = "commit" => manifest = pending

\* NewEngine goes on with the highest WAL segment if the manifest does not
\* cover it; it must then be newer than all of Level 0.
Restartable ==
  \/ manifest.l0 = <<>>
  \/ \E s \in DOMAIN walFiles : Below(manifest.l0, s)
  \/ manifest.flushed > 0 /\ \A s \in DOMAIN walFiles : s <= manifest.flushed

\* Whether the active segment and the queue no longer keep the WAL ahead of Level 0.
AllFlushed ==
  imm = <<>> /\ (activeSeg \notin DOMAIN walFiles \/ (Drained /\ flushedSeg = activeSeg))

\* The last flush then separates Level 0 from the WAL: its segment is still
\* there, or the manifest records it.
Watermark ==
  /\ flushedSeg > 0
  /\ \A i \in 1..Len(l0) : l0[i] <= flushedSeg
  /\ \/ flushedSeg \in DOMAIN walFiles /\ fpc # "cleanup" /\ Below(manifest.l0, flushedSeg)
     \/ manifest.flushed = flushedSeg /\ \A i \in 1..Len(manifest.l0) : manifest.l0[i] <= flushedSeg

\* The manifest and the WAL on disk.
Disk ==
  /\ Orderly(manifest)
  /\ ~Running => Restartable
  /\ Running => \A i \in 1..Len(manifest.l0) : OlderThanMemory(manifest.l0[i])
  /\ Running => \A j \in 1..Len(imm) : imm[j].seg \in DOMAIN walFiles
  /\ Running /\ AllFlushed => Watermark
  /\ rpc \in {"flushSave", "cleanup"} => \A s \in DOMAIN walFiles : s <= flushedSeg
  /\ rpc \in {"flushSave", "cleanup"} => flushedSeg > 0
  /\ rpc = "cleanup" => manifest.flushed = flushedSeg
  /\ rpc = "flush" => \A s \in DOMAIN walFiles : s <= activeSeg
  /\ rpc = "resume" => activeSeg \in DOMAIN walFiles
  /\ rpc # "none" => l1 = manifest.l1
  /\ rpc \notin {"none", "flushSave"} => l0 = manifest.l0 /\ flushedSeg = manifest.flushed
  /\ \A s \in DOMAIN walFiles : s > 0
  /\ rpc = "newseg" => flushedSeg > 0 /\ \A s \in DOMAIN walFiles : s <= flushedSeg

\* The active WAL segment is there whenever a writer relies on it.
ActiveWAL ==
  /\ Running /\ memtable # Empty => activeSeg \in DOMAIN walFiles
  /\ wpc \in {"check", "build", "save", "apply"} => activeSeg \in DOMAIN walFiles
  /\ Running /\ ~bgErr /\ ~isClosing /\ wpc \in {"idle", "check", "apply"} =>
       wal /\ activeSeg \in DOMAIN walFiles
  /\ rpc = "resume" => wal
  /\ wpc = "save" /\ ~isClosing => wal
  /\ wpc = "apply" => Size(memtable) + Size(batch) <= MaxMemTableSize

\* The SSTables of the levels, of a compaction, of a flush and of the manifest.
LevelFiles ==
  /\ \A id \in DOMAIN sstFiles : sstFiles[id] \in Tables
  /\ Range(l0) \subseteq DOMAIN sstFiles /\ Range(l1) \subseteq DOMAIN sstFiles
CompactionFiles ==
  /\ cpc \in {"merge", "build", "save", "commit"} => Range(cinputs) \subseteq DOMAIN sstFiles
  /\ cpc \in {"build", "save", "commit"} =>
       /\ Range(couts) \subseteq DOMAIN sstFiles
       /\ Range(couts) \cap (Range(cinputs) \cup Range(l0) \cup Range(l1)) = {}
FlushFile ==
  fpc = "register" =>
    /\ Head(imm).seg \in DOMAIN sstFiles
    /\ Head(imm).seg \notin Range(l1)
    /\ cpc \in {"merge", "build", "save", "commit"} => Head(imm).seg \notin Range(cinputs)
    /\ cpc \in {"build", "save", "commit"} => Head(imm).seg \notin Range(couts)
DurableFiles ==
  /\ ManifestFiles(manifest) \subseteq DOMAIN sstFiles
  /\ cpc \in {"build", "save"} => ManifestFiles(manifest) \cap Range(couts) = {}
  /\ rpc = "flushSave" => l0 # <<>> /\ Head(l0) \notin ManifestFiles(manifest)

\* They are on disk as long as no two workers have written the same name.
Files ==
  NoCollision =>
    LevelFiles /\ CompactionFiles /\ FlushFile /\ ("dangling" \notin exposed => DurableFiles)

Ordered(ids) ==
  \A i, j \in 1..Len(ids) : i < j =>
    \A a \in KeysOf(sstFiles[ids[i]]), b \in KeysOf(sstFiles[ids[j]]) : a < b

\* Level 1 on disk: the manifest names files in key order, or deleted outputs
\* and so cannot be opened.  The first ID of those was reserved: no flush
\* brings it back.
DurableLevelOne ==
  \/ Range(manifest.l1) \subseteq DOMAIN sstFiles /\ Ordered(manifest.l1)
  \/ /\ Len(manifest.l1) > 0 /\ manifest.l1[1] \notin DOMAIN sstFiles
     /\ rpc = "none"
     /\ Running => cpc = "exit" /\ cseg > 0 /\ manifest.l1[1] = cseg

\* The files of Level 1, live, in the making and on disk.
LevelOne ==
  /\ Running /\ cpc \in {"idle", "merge", "build", "save"} => manifest.l1 = l1
  /\ NoCollision =>
       /\ Ordered(l1)
       /\ cpc \in {"build", "save", "commit"} => Ordered(couts)
       /\ rpc = "flushSave" => Head(l0) \notin Range(l1)
       /\ DurableLevelOne

\* The first output ID of a compaction is its own.
Reserved ==
  /\ cpc = "idle" => cseg = 0
  /\ cseg > 0 =>
       cseg < nextSeg /\ cseg # activeSeg /\ \A j \in 1..Len(imm) : imm[j].seg # cseg
  /\ cpc \in {"merge", "build", "save", "commit"} => cseg > 0
  /\ cpc \in {"build", "save", "commit"} => \A i \in 1..Len(couts) : couts[i] = cseg + i - 1

\* The LogWriter has not left the segment that the engine gave it, unless that
\* weakness is recorded.
Rolled == rolled \in Nat /\ ("wal_rotation" \notin exposed => rolled = 0)

Inv == /\ TypeInv /\ Rolled /\ Control /\ Queue /\ Active /\ LevelZero /\ Pending
       /\ Disk /\ ActiveWAL /\ Files /\ LevelOne /\ Reserved
------------------------------------------------------------------------------
(* Files, sequences and constants *)

\* Adding a file to a directory.
LEMMA SetFile ==
  ASSUME NEW f, NEW id, NEW t
  PROVE  /\ DOMAIN Set(f, id, t) = DOMAIN f \cup {id}
         /\ Set(f, id, t)[id] = t
         /\ \A x \in DOMAIN f : x # id => Set(f, id, t)[x] = f[x]
BY DEF Set

\* Creating a file or opening the one that is there.
LEMMA CreateFile ==
  ASSUME NEW f, NEW id, NEW t
  PROVE  DOMAIN (IF id \in DOMAIN f THEN f ELSE Set(f, id, t)) = DOMAIN f \cup {id}
<1>1. CASE id \in DOMAIN f
  BY <1>1
<1>2. CASE id \notin DOMAIN f
  BY <1>2, SetFile
<1> QED BY <1>1, <1>2

\* Removing files from it.
LEMMA WithoutFiles ==
  ASSUME NEW f, NEW ids
  PROVE  /\ DOMAIN Without(f, ids) = DOMAIN f \ ids
         /\ \A x \in DOMAIN f \ ids : Without(f, ids)[x] = f[x]
BY DEF Without, Restrict

\* Both leave a directory of tables.
LEMMA FilesKept ==
  ASSUME NEW f, IsFiles(f)
  PROVE  /\ \A id \in Nat, t \in Tables : IsFiles(Set(f, id, t))
         /\ \A ids : IsFiles(Without(f, ids))
<1>1. ASSUME NEW id \in Nat, NEW t \in Tables PROVE IsFiles(Set(f, id, t))
  <2>1. IsFiniteSet(DOMAIN f \cup {id})
    BY FS_AddElement DEF IsFiles
  <2>2. DOMAIN Set(f, id, t) = DOMAIN f \cup {id}
    BY SetFile
  <2>3. \A x \in DOMAIN f \cup {id} : Set(f, id, t)[x] \in Tables
    BY DEF Set, IsFiles
  <2> QED BY <2>1, <2>2, <2>3 DEF IsFiles
<1>2. ASSUME NEW ids PROVE IsFiles(Without(f, ids))
  <2>1. IsFiniteSet(DOMAIN f \ ids)
    BY FS_Subset DEF IsFiles
  <2>2. DOMAIN Without(f, ids) = DOMAIN f \ ids
    BY WithoutFiles
  <2>3. \A x \in DOMAIN f \ ids : Without(f, ids)[x] \in Tables
    BY DEF Without, Restrict, IsFiles
  <2> QED BY <2>1, <2>2, <2>3 DEF IsFiles
<1> QED BY <1>1, <1>2

\* The set of elements of a sequence is finite.
LEMMA RangeFinite ==
  ASSUME NEW s \in Seq(Nat)
  PROVE  Range(s) \in SUBSET Nat /\ IsFiniteSet(Range(s))
<1>1. Range(s) \in SUBSET Nat
  BY DEF Range
<1>2. IsFiniteSet(1..Len(s))
  BY FS_Interval
<1>3. s \in Surjection(1..Len(s), Range(s))
  BY DEF Surjection, Range
<1>4. IsFiniteSet(Range(s))
  BY <1>2, <1>3, FS_Surjection
<1> QED BY <1>1, <1>4

\* The Empty table is a table.
LEMMA EmptyType == Empty \in Tables
BY DEF Empty, Tables, Entries

\* Level 0 after a compaction keeps the order and drops exactly the inputs.
LEMMA RemainingKeepsOrder ==
  ASSUME l0 \in Seq(Nat)
  PROVE  /\ RemainingLevelZero \in Seq(Nat)
         /\ Range(RemainingLevelZero) \subseteq Range(l0)
         /\ Range(RemainingLevelZero) \cap Range(cinputs) = {}
         /\ Descending(l0) => Descending(RemainingLevelZero)
<1> DEFINE kept == {i \in DOMAIN l0 : l0[i] \notin Range(cinputs)}
           r == RemainingLevelZero
<1>1. DOMAIN l0 = 1..Len(l0) /\ kept \in SUBSET Nat /\ kept \in SUBSET (1..Len(l0)) /\ IsFiniteSet(1..Len(l0))
  BY FS_Interval
<1>2. IsFiniteSet(kept)
  BY <1>1, FS_Subset
<1>3. r = PartAt(l0, kept)
  BY DEF RemainingLevelZero
<1>4. Cardinality(kept) \in Nat /\ r = [n \in 1..Cardinality(kept) |-> l0[PositionAt(kept, n)]]
  <2> HIDE DEF kept, r
  <2> QED BY <1>1, <1>2, <1>3, PartAtIsPart
<1>5. \A n \in 1..Cardinality(kept) : PositionAt(kept, n) \in kept
  <2> HIDE DEF kept
  <2> QED BY <1>1, <1>2, PartAtIsPart
<1>6. \A n, m \in 1..Cardinality(kept) : n < m => PositionAt(kept, n) < PositionAt(kept, m)
  <2> HIDE DEF kept
  <2> QED BY <1>1, <1>2, PartAtInOrder
<1>7. \A i \in kept : i \in 1..Len(l0) /\ l0[i] \in Nat /\ l0[i] \in Range(l0) /\ l0[i] \notin Range(cinputs)
  BY <1>1 DEF Range
<1> HIDE DEF kept, r
<1>8. r \in Seq(Nat) /\ Len(r) = Cardinality(kept)
  <2>1. \A n \in 1..Cardinality(kept) : l0[PositionAt(kept, n)] \in Nat
    BY <1>5, <1>7
  <2>2. r \in [1..Cardinality(kept) -> Nat]
    BY <1>4, <2>1
  <2>3. r \in Seq(Nat)
    BY <2>2, <1>4, SeqDef
  <2> QED BY <2>3, <1>4
<1>9. Range(r) \subseteq Range(l0) /\ Range(r) \cap Range(cinputs) = {}
  <2>1. \A x \in Range(r) : \E n \in 1..Cardinality(kept) : x = l0[PositionAt(kept, n)]
    BY <1>4 DEF Range
  <2>2. \A x \in Range(r) : x \in Range(l0) /\ x \notin Range(cinputs)
    BY <2>1, <1>5, <1>7
  <2> QED BY <2>2
<1>10. Descending(l0) => Descending(r)
  <2> SUFFICES ASSUME Descending(l0), NEW n \in 1..Len(r), NEW m \in 1..Len(r), n < m PROVE r[n] > r[m]
    BY DEF Descending
  <2>1. /\ PositionAt(kept, n) < PositionAt(kept, m)
        /\ PositionAt(kept, n) \in kept /\ PositionAt(kept, m) \in kept
        /\ r[n] = l0[PositionAt(kept, n)] /\ r[m] = l0[PositionAt(kept, m)]
    BY <1>4, <1>5, <1>6, <1>8
  <2> QED BY <2>1, <1>7 DEF Descending
<1> QED BY <1>8, <1>9, <1>10 DEF r

\* The highest WAL segment.
LEMMA HighestWALIsHighest ==
  ASSUME IsFiles(walFiles)
  PROVE  /\ HighestWAL \in Nat
         /\ DOMAIN walFiles = {} => HighestWAL = 1
         /\ DOMAIN walFiles # {} => HighestWAL \in DOMAIN walFiles
         /\ \A s \in DOMAIN walFiles : s <= HighestWAL
<1>1. CASE DOMAIN walFiles = {}
  BY <1>1 DEF HighestWAL
<1>2. CASE DOMAIN walFiles # {}
  <2>1. DOMAIN walFiles \in SUBSET Nat /\ IsFiniteSet(DOMAIN walFiles)
    BY DEF IsFiles
  <2>2. Max(DOMAIN walFiles) \in DOMAIN walFiles /\ \A s \in DOMAIN walFiles : Max(DOMAIN walFiles) >= s
    BY <2>1, <1>2, MaxOf
  <2>3. HighestWAL = Max(DOMAIN walFiles)
    BY <1>2 DEF HighestWAL
  <2> QED BY <2>1, <2>2, <2>3, <1>2
<1> QED BY <1>1, <1>2

\* What NewEngine replays.
LEMMA RecoveryType ==
  ASSUME IsFiles(walFiles)
  PROVE  Recovery \in Tables
<1> DEFINE ids == {s \in DOMAIN walFiles : s > manifest.flushed}
<1>1. ids \in SUBSET DOMAIN walFiles /\ ids \in SUBSET Nat /\ \A id \in ids : walFiles[id] \in Tables
  BY DEF IsFiles
<1>2. IsFiniteSet(ids)
  BY <1>1, FS_Subset DEF IsFiles
<1>3. Recovery = Replay(walFiles, ids)
  BY DEF Recovery
<1> HIDE DEF ids
<1> QED BY <1>1, <1>2, <1>3, ReplayType

\* The larger of two.
LEMMA MaxOfTwo ==
  ASSUME NEW m \in Nat, NEW n \in Nat
  PROVE  Max({m, n}) \in Nat /\ Max({m, n}) >= m /\ Max({m, n}) >= n /\ Max({m, n}) \in {m, n}
<1>1. {m, n} \in SUBSET Nat /\ {m, n} # {} /\ IsFiniteSet({m, n})
  <2>1. {m, n} = {m} \cup {n}
    OBVIOUS
  <2>2. IsFiniteSet({m} \cup {n})
    BY FS_Singleton, FS_AddElement
  <2> QED BY <2>1, <2>2
<1> QED BY <1>1, MaxOf

\* The IDs of the outputs of a merge.
LEMMA OutputIDs ==
  ASSUME NEW files, NEW ids, NEW id \in Nat
  PROVE  /\ OutputCount(LiveKeys(files, ids)) \in Nat
         /\ [i \in 1..OutputCount(LiveKeys(files, ids)) |-> id + i - 1] \in Seq(Nat)
<1> DEFINE live == LiveKeys(files, ids)
           c == Cardinality(live)
           n == OutputCount(live)
<1>1. IsFiniteSet(live)
  BY FS_Subset, TablesAssumption DEF LiveKeys, TablesAssumption
<1>2. c \in Nat
  BY <1>1, FS_CardinalityType
<1>3. KeysPerFile \in Nat /\ KeysPerFile > 0
  BY TablesAssumption DEF TablesAssumption
<1>4. n = (c + KeysPerFile - 1) \div KeysPerFile
  BY DEF OutputCount
<1> HIDE DEF c
<1>5. 0 \div KeysPerFile <= (c + KeysPerFile - 1) \div KeysPerFile
  BY <1>2, <1>3, DivMonotone
<1>6. n \in Nat
  BY <1>2, <1>3, <1>4, <1>5
<1> HIDE DEF n
<1>7. [i \in 1..n |-> id + i - 1] \in [1..n -> Nat]
  BY <1>6
<1>8. [i \in 1..n |-> id + i - 1] \in Seq(Nat)
  BY <1>6, <1>7, SeqDef
<1> QED BY <1>6, <1>8 DEF n

\* The head and the rest of the queue.
LEMMA QueueHead ==
  ASSUME imm \in Seq([seg : Nat, data : Tables]), imm # <<>>
  PROVE  /\ Head(imm).seg \in Nat /\ Head(imm).data \in Tables
         /\ Tail(imm) \in Seq([seg : Nat, data : Tables])
         /\ Len(imm) \in Nat \ {0} /\ Len(Tail(imm)) = Len(imm) - 1 /\ Head(imm) = imm[1]
         /\ \A i \in 1..Len(Tail(imm)) : Tail(imm)[i] = imm[i + 1]
<1>1. Head(imm) \in [seg : Nat, data : Tables]
  BY HeadTailProperties
<1>2. /\ Tail(imm) \in Seq([seg : Nat, data : Tables])
      /\ Len(imm) \in Nat \ {0} /\ Len(Tail(imm)) = Len(imm) - 1 /\ Head(imm) = imm[1]
      /\ \A i \in 1..Len(Tail(imm)) : Tail(imm)[i] = imm[i + 1]
  BY HeadTailProperties, EmptySeq
<1> QED BY <1>1, <1>2

\* The queue with one more memtable.
LEMMA QueueAppend ==
  ASSUME imm \in Seq([seg : Nat, data : Tables]), activeSeg \in Nat, memtable \in Tables,
         NEW q, q = Append(imm, [seg |-> activeSeg, data |-> memtable])
  PROVE  /\ q \in Seq([seg : Nat, data : Tables])
         /\ Len(imm) \in Nat /\ \A i \in 1..Len(imm) : imm[i].seg \in Nat
         /\ q # <<>> /\ Len(q) = Len(imm) + 1
         /\ \A i \in 1..Len(imm) : q[i] = imm[i]
         /\ q[Len(imm) + 1].seg = activeSeg
<1>1. [seg |-> activeSeg, data |-> memtable] \in [seg : Nat, data : Tables]
  OBVIOUS
<1>2. /\ q \in Seq([seg : Nat, data : Tables])
      /\ q # <<>> /\ Len(q) = Len(imm) + 1
      /\ \A i \in 1..Len(imm) : q[i] = imm[i]
      /\ q[Len(imm) + 1] = [seg |-> activeSeg, data |-> memtable]
  BY <1>1, AppendProperties
<1>3. Len(imm) \in Nat /\ \A i \in 1..Len(imm) : imm[i] \in [seg : Nat, data : Tables]
  BY LenProperties
<1>4. \A i \in 1..Len(imm) : imm[i].seg \in Nat
  BY <1>3
<1> QED BY <1>2, <1>3, <1>4

\* The segments of a queue are IDs.
LEMMA QueueSegments ==
  ASSUME NEW q \in Seq([seg : Nat, data : Tables])
  PROVE  Len(q) \in Nat /\ \A i \in 1..Len(q) : q[i].seg \in Nat /\ q[i].data \in Tables
<1>1. Len(q) \in Nat /\ \A i \in 1..Len(q) : q[i] \in [seg : Nat, data : Tables]
  BY LenProperties, ElementOfSeq
<1> QED BY <1>1

\* A level with one more file in front.
LEMMA Prepended ==
  ASSUME NEW s \in Seq(Nat), NEW id \in Nat, NEW q, q = <<id>> \o s
  PROVE  /\ q \in Seq(Nat) /\ Len(s) \in Nat /\ Len(q) = Len(s) + 1 /\ Range(q) = {id} \cup Range(s)
         /\ Descending(s) /\ Below(s, id) => Descending(q)
         /\ \A n \in Nat : Below(s, n) /\ id < n => Below(q, n)
         /\ Head(q) = id
<1>1. <<id>> \in Seq(Nat) /\ Len(<<id>>) = 1 /\ <<id>>[1] = id
  OBVIOUS
<1>2. /\ q \in Seq(Nat) /\ Len(s) \in Nat /\ Len(q) = Len(s) + 1
      /\ \A i \in 1..Len(q) : q[i] = IF i <= 1 THEN <<id>>[i] ELSE s[i - 1]
  BY <1>1, ConcatProperties
<1>3. q[1] = id /\ \A i \in 1..Len(q) : i # 1 => i - 1 \in 1..Len(s) /\ q[i] = s[i - 1]
  BY <1>1, <1>2
<1>4. \A i \in 1..Len(q) : q[i] = id \/ \E j \in 1..Len(s) : q[i] = s[j]
  BY <1>3
<1>5. Range(q) = {id} \cup Range(s)
  <2>1. \A j \in 1..Len(s) : j + 1 \in 1..Len(q) /\ q[j + 1] = s[j]
    BY <1>2, <1>3
  <2>2. Range(s) = {s[j] : j \in 1..Len(s)} /\ Range(q) = {q[j] : j \in 1..Len(q)}
    BY <1>2 DEF Range
  <2>3. 1 \in 1..Len(q)
    BY <1>2
  <2>4. {id} \cup Range(s) \subseteq Range(q)
    BY <1>3, <2>1, <2>2, <2>3
  <2>5. Range(q) \subseteq {id} \cup Range(s)
    BY <1>4, <2>2
  <2> QED BY <2>4, <2>5
<1>6. Descending(s) /\ Below(s, id) => Descending(q)
  <2> SUFFICES ASSUME Descending(s), Below(s, id), NEW i \in 1..Len(q), NEW j \in 1..Len(q), i < j
               PROVE  q[i] > q[j]
    BY DEF Descending
  <2>1. j - 1 \in 1..Len(s) /\ q[j] = s[j - 1]
    BY <1>2, <1>3
  <2>2. CASE i = 1
    BY <1>3, <2>1, <2>2 DEF Below
  <2>3. CASE i # 1
    <3>1. i - 1 \in 1..Len(s) /\ q[i] = s[i - 1] /\ i - 1 < j - 1
      BY <1>2, <1>3, <2>3
    <3> QED BY <2>1, <3>1 DEF Descending
  <2> QED BY <2>2, <2>3
<1>7. \A n \in Nat : Below(s, n) /\ id < n => Below(q, n)
  BY <1>4 DEF Below
<1>8. Head(q) = id
  BY <1>2, <1>3
<1> QED BY <1>2, <1>5, <1>6, <1>7, <1>8

\* The elements of one level among those of another.
LEMMA Among ==
  ASSUME NEW s \in Seq(Nat), NEW q \in Seq(Nat), Range(q) \subseteq Range(s)
  PROVE  \A i \in 1..Len(q) : \E j \in 1..Len(s) : q[i] = s[j]
<1>1. Range(s) = {s[j] : j \in 1..Len(s)} /\ Range(q) = {q[j] : j \in 1..Len(q)}
  BY DEF Range
<1> QED BY <1>1

\* Its elements.
LEMMA PrependedElements ==
  ASSUME NEW s \in Seq(Nat), NEW id \in Nat, NEW i \in 1..Len(<<id>> \o s)
  PROVE  (<<id>> \o s)[i] = id \/ \E j \in 1..Len(s) : (<<id>> \o s)[i] = s[j]
<1>1. <<id>> \in Seq(Nat) /\ Len(<<id>>) = 1 /\ <<id>>[1] = id
  OBVIOUS
<1>2. /\ Len(s) \in Nat /\ Len(<<id>> \o s) = Len(s) + 1
      /\ (<<id>> \o s)[i] = IF i <= 1 THEN <<id>>[i] ELSE s[i - 1]
  BY <1>1, ConcatProperties
<1>3. CASE i = 1
  BY <1>1, <1>2, <1>3
<1>4. CASE i # 1
  BY <1>2, <1>4
<1> QED BY <1>3, <1>4

\* What AppendBatch gives to the LogWriter.
LEMMA Appends ==
  ASSUME Inv, WALAppend \/ WALAppendFails
  PROVE  \E records \in Tables :
           /\ Log(records) /\ (WALAppend => records = batch)
           /\ \A k \in Keys : records[k] = None \/ records[k] = batch[k]
<1>1. batch \in Tables
  BY DEF Inv, TypeInv, TypeData
<1>2. CASE WALAppend
  BY <1>1, <1>2 DEF WALAppend
<1>3. CASE WALAppendFails /\ ~WALAppend
  <2>1. PICK ks \in SUBSET KeysOf(batch) : Log([k \in Keys |-> IF k \in ks THEN batch[k] ELSE None])
    BY <1>3 DEF WALAppendFails
  <2>2. PICK t : t = [k \in Keys |-> IF k \in ks THEN batch[k] ELSE None]
    OBVIOUS
  <2>3. t \in Tables /\ \A k \in Keys : t[k] = None \/ t[k] = batch[k]
    BY <1>1, <2>2 DEF Tables, Entries
  <2> QED BY <1>3, <2>1, <2>2, <2>3
<1> QED BY <1>2, <1>3

\* What the LogWriter does with it.
LEMMA LogWrites ==
  ASSUME Inv, NEW records \in Tables, Log(records)
  PROVE  /\ \E r \in Nat :
              /\ walFiles' = Set(walFiles, activeSeg + r, Overlay(records, Logged(activeSeg + r)))
              /\ rolled' = r /\ (r = rolled \/ "wal_rotation" \in exposed')
         /\ IsFiles(walFiles')
         /\ exposed \subseteq exposed' /\ exposed' \subseteq exposed \cup {"wal_rotation"}
         /\ activeSeg \in DOMAIN walFiles /\ exposed' = {} =>
              walFiles' = Set(walFiles, activeSeg, Overlay(records, walFiles[activeSeg]))
<1>1. activeSeg \in Nat /\ rolled \in Nat /\ MaxRolls \in Nat /\ IsFiles(walFiles) /\ Rolled
  BY EngineAssumption DEF EngineAssumption, Inv, TypeInv, TypeSegments, TypeData, Rolled
<1>2. PICK r \in Nat :
        /\ rolled' = r
        /\ walFiles' = Set(walFiles, activeSeg + r, Overlay(records, Logged(activeSeg + r)))
        /\ exposed' = exposed \cup IF r = rolled THEN {} ELSE {"wal_rotation"}
  BY <1>1 DEF Log, Expose
<1>3. IsFiles(walFiles')
  <2>1. activeSeg + r \in Nat /\ Logged(activeSeg + r) \in Tables
    BY <1>1, EmptyType DEF Logged, IsFiles
  <2>2. Overlay(records, Logged(activeSeg + r)) \in Tables
    BY <2>1, OverlayType
  <2> QED BY <1>1, <1>2, <2>1, <2>2, FilesKept
<1>4. exposed \subseteq exposed' /\ exposed' \subseteq exposed \cup {"wal_rotation"}
      /\ (r = rolled \/ "wal_rotation" \in exposed')
  BY <1>2
<1>5. ASSUME activeSeg \in DOMAIN walFiles, exposed' = {}
      PROVE  walFiles' = Set(walFiles, activeSeg, Overlay(records, walFiles[activeSeg]))
  <2>1. r = 0
    BY <1>1, <1>4, <1>5 DEF Rolled
  <2>2. activeSeg + r = activeSeg
    BY <1>1, <2>1
  <2> QED BY <1>2, <1>5, <2>2 DEF Logged
<1> QED BY <1>2, <1>3, <1>4, <1>5

\* Every goroutine stays at one of its steps.
LEMMA TypeControlStep == Inv /\ [Next]_vars => TypeControl'
<1> SUFFICES ASSUME Inv, [Next]_vars PROVE TypeControl'
  OBVIOUS
<1>1. TypeControl
  BY DEF Inv, TypeInv
<1>WriteBatch. CASE WriteBatch
  BY <1>1, <1>WriteBatch DEF WriteBatch, TypeControl, WriterSteps, FlushSteps, CompactSteps,
     RecoverSteps, disk, mem, lsm, chans, mutex, writer, compact, history, bounds
<1>WriteRefused. CASE WriteRefused
  BY <1>1, <1>WriteRefused DEF WriteRefused, TypeControl, WriterSteps, FlushSteps, CompactSteps,
     RecoverSteps, disk, mem, lsm, chans, mutex, writer, compact, history, bounds
<1>WriteFreeze. CASE WriteFreeze
  BY <1>1, <1>WriteFreeze DEF WriteFreeze, FreezeActiveMemTable, TypeControl, WriterSteps,
     FlushSteps, CompactSteps, RecoverSteps, disk, mem, lsm, chans, mutex, writer, compact,
     history, bounds
<1>SnapshotFreeze. CASE SnapshotFreeze
  BY <1>1, <1>SnapshotFreeze DEF SnapshotFreeze, FreezeActiveMemTable, TypeControl, WriterSteps,
     FlushSteps, CompactSteps, RecoverSteps, disk, mem, lsm, chans, mutex, writer, compact,
     history, bounds
<1>RotateWAL. CASE RotateWAL
  BY <1>1, <1>RotateWAL DEF RotateWAL, Fault, TypeControl, WriterSteps, FlushSteps, CompactSteps,
     RecoverSteps, disk, mem, lsm, chans, mutex, writer, compact, history, bounds
<1>RotateBuild. CASE RotateBuild
  BY <1>1, <1>RotateBuild DEF RotateBuild, TypeControl, WriterSteps, FlushSteps, CompactSteps,
     RecoverSteps, disk, mem, lsm, chans, mutex, writer, compact, history, bounds
<1>RotateSave. CASE RotateSave
  BY <1>1, <1>RotateSave DEF RotateSave, Fault, ManifestFails, TypeControl, WriterSteps,
     FlushSteps, CompactSteps, RecoverSteps, disk, mem, lsm, chans, mutex, writer, compact,
     history, bounds
<1>WALAppend. CASE WALAppend
  BY <1>1, <1>WALAppend DEF WALAppend, TypeControl, WriterSteps, FlushSteps, CompactSteps,
     RecoverSteps, disk, mem, lsm, chans, mutex, writer, compact, history, bounds
<1>WALAppendFails. CASE WALAppendFails
  BY <1>1, <1>WALAppendFails DEF WALAppendFails, Fault, TypeControl, WriterSteps, FlushSteps,
     CompactSteps, RecoverSteps, disk, mem, lsm, chans, mutex, writer, compact, history, bounds
<1>WriteApply. CASE WriteApply
  BY <1>1, <1>WriteApply DEF WriteApply, TypeControl, WriterSteps, FlushSteps, CompactSteps,
     RecoverSteps, disk, mem, lsm, chans, mutex, writer, compact, history, bounds
<1>FlushWake. CASE FlushWake
  BY <1>1, <1>FlushWake DEF FlushWake, TypeControl, WriterSteps, FlushSteps, CompactSteps,
     RecoverSteps, disk, mem, lsm, chans, mutex, writer, compact, history, bounds
<1>FlushWrite. CASE FlushWrite
  BY <1>1, <1>FlushWrite DEF FlushWrite, Fault, TypeControl, WriterSteps, FlushSteps,
     CompactSteps, RecoverSteps, disk, mem, lsm, chans, mutex, writer, compact, history, bounds
<1>FlushRegister. CASE FlushRegister
  BY <1>1, <1>FlushRegister DEF FlushRegister, TypeControl, WriterSteps, FlushSteps,
     CompactSteps, RecoverSteps, disk, mem, lsm, chans, mutex, writer, compact, history, bounds
<1>FlushSave. CASE FlushSave
  BY <1>1, <1>FlushSave DEF FlushSave, Fault, ManifestFails, TypeControl, WriterSteps,
     FlushSteps, CompactSteps, RecoverSteps, disk, mem, lsm, chans, mutex, writer, compact,
     history, bounds
<1>FlushCleanup. CASE FlushCleanup
  BY <1>1, <1>FlushCleanup DEF FlushCleanup, Fault, TypeControl, WriterSteps, FlushSteps,
     CompactSteps, RecoverSteps, disk, mem, lsm, chans, mutex, writer, compact, history, bounds
<1>CompactWake. CASE CompactWake
  BY <1>1, <1>CompactWake DEF CompactWake, TypeControl, WriterSteps, FlushSteps, CompactSteps,
     RecoverSteps, disk, mem, lsm, chans, mutex, writer, compact, history, bounds
<1>CompactMerge. CASE CompactMerge
  BY <1>1, <1>CompactMerge DEF CompactMerge, Fault, TypeControl, WriterSteps, FlushSteps,
     CompactSteps, RecoverSteps, disk, mem, lsm, chans, mutex, writer, compact, history, bounds
<1>CompactBuild. CASE CompactBuild
  BY <1>1, <1>CompactBuild DEF CompactBuild, TypeControl, WriterSteps, FlushSteps, CompactSteps,
     RecoverSteps, disk, mem, lsm, chans, mutex, writer, compact, history, bounds
<1>CompactSave. CASE CompactSave
  BY <1>1, <1>CompactSave DEF CompactSave, Fault, ManifestFails, TypeControl, WriterSteps,
     FlushSteps, CompactSteps, RecoverSteps, disk, mem, lsm, chans, mutex, writer, compact,
     history, bounds
<1>CompactCommit. CASE CompactCommit
  BY <1>1, <1>CompactCommit DEF CompactCommit, TypeControl, WriterSteps, FlushSteps,
     CompactSteps, RecoverSteps, disk, mem, lsm, chans, mutex, writer, compact, history, bounds
<1>CloseStart. CASE CloseStart
  BY <1>1, <1>CloseStart DEF CloseStart, TypeControl, WriterSteps, FlushSteps, CompactSteps,
     RecoverSteps, disk, mem, lsm, chans, mutex, writer, compact, history, bounds
<1>CloseDrain. CASE CloseDrain
  BY <1>1, <1>CloseDrain DEF CloseDrain, TypeControl, WriterSteps, FlushSteps, CompactSteps,
     RecoverSteps, disk, mem, lsm, chans, mutex, writer, compact, history, bounds
<1>CloseQueue. CASE CloseQueue
  BY <1>1, <1>CloseQueue DEF CloseQueue, Fault, TypeControl, WriterSteps, FlushSteps,
     CompactSteps, RecoverSteps, disk, mem, lsm, chans, mutex, writer, compact, history, bounds
<1>CloseSignal. CASE CloseSignal
  BY <1>1, <1>CloseSignal DEF CloseSignal, TypeControl, WriterSteps, FlushSteps, CompactSteps,
     RecoverSteps, disk, mem, lsm, chans, mutex, writer, compact, history, bounds
<1>CloseFinish. CASE CloseFinish
  BY <1>1, <1>CloseFinish DEF CloseFinish, TypeControl, WriterSteps, FlushSteps, CompactSteps,
     RecoverSteps, disk, mem, lsm, chans, mutex, writer, compact, history, bounds
<1>Stop. CASE Stop
  BY <1>1, <1>Stop DEF Stop, ResetVolatile, TypeControl, WriterSteps, FlushSteps, CompactSteps,
     RecoverSteps, disk, mem, lsm, chans, mutex, writer, compact, history, bounds
<1>Open. CASE Open
  BY <1>1, <1>Open DEF Open, TypeControl, WriterSteps, FlushSteps, CompactSteps, RecoverSteps,
     disk, mem, lsm, chans, mutex, writer, compact, history, bounds
<1>RecoverFlush. CASE RecoverFlush
  BY <1>1, <1>RecoverFlush DEF RecoverFlush, Fault, OpenFails, ResetVolatile, TypeControl,
     WriterSteps, FlushSteps, CompactSteps, RecoverSteps, disk, mem, lsm, chans, mutex, writer,
     compact, history, bounds
<1>RecoverFlushSave. CASE RecoverFlushSave
  BY <1>1, <1>RecoverFlushSave DEF RecoverFlushSave, Fault, ManifestFails, OpenFails,
     ResetVolatile, TypeControl, WriterSteps, FlushSteps, CompactSteps, RecoverSteps, disk, mem,
     lsm, chans, mutex, writer, compact, history, bounds
<1>RecoverCleanup. CASE RecoverCleanup
  BY <1>1, <1>RecoverCleanup DEF RecoverCleanup, Fault, TypeControl, WriterSteps, FlushSteps,
     CompactSteps, RecoverSteps, disk, mem, lsm, chans, mutex, writer, compact, history, bounds
<1>RecoverNewSegment. CASE RecoverNewSegment
  BY <1>1, <1>RecoverNewSegment DEF RecoverNewSegment, Fault, ManifestFails, OpenFails,
     ResetVolatile, TypeControl, WriterSteps, FlushSteps, CompactSteps, RecoverSteps, disk, mem,
     lsm, chans, mutex, writer, compact, history, bounds
<1>RecoverCreate. CASE RecoverCreate
  BY <1>1, <1>RecoverCreate DEF RecoverCreate, Fault, OpenFails, ResetVolatile, TypeControl,
     WriterSteps, FlushSteps, CompactSteps, RecoverSteps, disk, mem, lsm, chans, mutex, writer,
     compact, history, bounds
<1>RecoverResume. CASE RecoverResume
  BY <1>1, <1>RecoverResume DEF RecoverResume, Fault, ManifestFails, OpenFails, ResetVolatile,
     TypeControl, WriterSteps, FlushSteps, CompactSteps, RecoverSteps, disk, mem, lsm, chans,
     mutex, writer, compact, history, bounds
<1>stutter. CASE UNCHANGED vars
  BY <1>1, <1>stutter DEF TypeControl, WriterSteps, FlushSteps, CompactSteps, RecoverSteps, vars,
     disk, mem, lsm, chans, mutex, writer, compact, history, bounds
<1> QED
  BY <1>WriteBatch, <1>WriteRefused, <1>WriteFreeze, <1>SnapshotFreeze, <1>RotateWAL,
     <1>RotateBuild, <1>RotateSave, <1>WALAppend, <1>WALAppendFails, <1>WriteApply, <1>FlushWake,
     <1>FlushWrite, <1>FlushRegister, <1>FlushSave, <1>FlushCleanup, <1>CompactWake,
     <1>CompactMerge, <1>CompactBuild, <1>CompactSave, <1>CompactCommit, <1>CloseStart,
     <1>CloseDrain, <1>CloseQueue, <1>CloseSignal, <1>CloseFinish, <1>Stop, <1>Open,
     <1>RecoverFlush, <1>RecoverFlushSave, <1>RecoverCleanup, <1>RecoverNewSegment,
     <1>RecoverCreate, <1>RecoverResume, <1>stutter
     DEF Next, Foreground, Flush, Compaction, Closing, Recover

\* Flags stay Boolean.
LEMMA TypeFlagsStep == Inv /\ [Next]_vars => TypeFlags'
<1> SUFFICES ASSUME Inv, [Next]_vars PROVE TypeFlags'
  OBVIOUS
<1>1. TypeFlags
  BY DEF Inv, TypeInv
<1>WriteBatch. CASE WriteBatch
  BY <1>1, Zenon, <1>WriteBatch DEF WriteBatch, TypeFlags, disk, mem, lsm, chans, mutex, writer,
     compact, history, bounds
<1>WriteRefused. CASE WriteRefused
  BY <1>1, Zenon, <1>WriteRefused DEF WriteRefused, TypeFlags, disk, mem, lsm, chans, mutex,
     writer, compact, history, bounds
<1>WriteFreeze. CASE WriteFreeze
  BY <1>1, Zenon, <1>WriteFreeze DEF WriteFreeze, FreezeActiveMemTable, TypeFlags, disk, mem,
     lsm, chans, mutex, writer, compact, history, bounds
<1>SnapshotFreeze. CASE SnapshotFreeze
  BY <1>1, Zenon, <1>SnapshotFreeze DEF SnapshotFreeze, FreezeActiveMemTable, TypeFlags, disk,
     mem, lsm, chans, mutex, writer, compact, history, bounds
<1>RotateWAL. CASE RotateWAL
  BY <1>1, Zenon, <1>RotateWAL DEF RotateWAL, Fault, TypeFlags, disk, mem, lsm, chans, mutex,
     writer, compact, history, bounds
<1>RotateBuild. CASE RotateBuild
  BY <1>1, Zenon, <1>RotateBuild DEF RotateBuild, TypeFlags, disk, mem, lsm, chans, mutex,
     writer, compact, history, bounds
<1>RotateSave. CASE RotateSave
  BY <1>1, Zenon, <1>RotateSave DEF RotateSave, Fault, ManifestFails, TypeFlags, disk, mem, lsm,
     chans, mutex, writer, compact, history, bounds
<1>WALAppend. CASE WALAppend
  BY <1>1, Zenon, <1>WALAppend DEF WALAppend, TypeFlags, disk, mem, lsm, chans, mutex, writer,
     compact, history, bounds
<1>WALAppendFails. CASE WALAppendFails
  BY <1>1, Zenon, <1>WALAppendFails DEF WALAppendFails, Fault, TypeFlags, disk, mem, lsm, chans,
     mutex, writer, compact, history, bounds
<1>WriteApply. CASE WriteApply
  BY <1>1, Zenon, <1>WriteApply DEF WriteApply, TypeFlags, disk, mem, lsm, chans, mutex, writer,
     compact, history, bounds
<1>FlushWake. CASE FlushWake
  BY <1>1, Zenon, <1>FlushWake DEF FlushWake, TypeFlags, disk, mem, lsm, chans, mutex, writer,
     compact, history, bounds
<1>FlushWrite. CASE FlushWrite
  BY <1>1, Zenon, <1>FlushWrite DEF FlushWrite, Fault, TypeFlags, disk, mem, lsm, chans, mutex,
     writer, compact, history, bounds
<1>FlushRegister. CASE FlushRegister
  BY <1>1, Zenon, <1>FlushRegister DEF FlushRegister, TypeFlags, disk, mem, lsm, chans, mutex,
     writer, compact, history, bounds
<1>FlushSave. CASE FlushSave
  BY <1>1, Zenon, <1>FlushSave DEF FlushSave, Fault, ManifestFails, TypeFlags, disk, mem, lsm,
     chans, mutex, writer, compact, history, bounds
<1>FlushCleanup. CASE FlushCleanup
  BY <1>1, Zenon, <1>FlushCleanup DEF FlushCleanup, Fault, TypeFlags, disk, mem, lsm, chans,
     mutex, writer, compact, history, bounds
<1>CompactWake. CASE CompactWake
  BY <1>1, Zenon, <1>CompactWake DEF CompactWake, TypeFlags, disk, mem, lsm, chans, mutex,
     writer, compact, history, bounds
<1>CompactMerge. CASE CompactMerge
  BY <1>1, Zenon, <1>CompactMerge DEF CompactMerge, Fault, TypeFlags, disk, mem, lsm, chans,
     mutex, writer, compact, history, bounds
<1>CompactBuild. CASE CompactBuild
  BY <1>1, Zenon, <1>CompactBuild DEF CompactBuild, TypeFlags, disk, mem, lsm, chans, mutex,
     writer, compact, history, bounds
<1>CompactSave. CASE CompactSave
  BY <1>1, Zenon, <1>CompactSave DEF CompactSave, Fault, ManifestFails, TypeFlags, disk, mem,
     lsm, chans, mutex, writer, compact, history, bounds
<1>CompactCommit. CASE CompactCommit
  BY <1>1, Zenon, <1>CompactCommit DEF CompactCommit, TypeFlags, disk, mem, lsm, chans, mutex,
     writer, compact, history, bounds
<1>CloseStart. CASE CloseStart
  BY <1>1, Zenon, <1>CloseStart DEF CloseStart, TypeFlags, disk, mem, lsm, chans, mutex, writer,
     compact, history, bounds
<1>CloseDrain. CASE CloseDrain
  BY <1>1, Zenon, <1>CloseDrain DEF CloseDrain, TypeFlags, disk, mem, lsm, chans, mutex, writer,
     compact, history, bounds
<1>CloseQueue. CASE CloseQueue
  BY <1>1, Zenon, <1>CloseQueue DEF CloseQueue, Fault, TypeFlags, disk, mem, lsm, chans, mutex,
     writer, compact, history, bounds
<1>CloseSignal. CASE CloseSignal
  BY <1>1, Zenon, <1>CloseSignal DEF CloseSignal, TypeFlags, disk, mem, lsm, chans, mutex,
     writer, compact, history, bounds
<1>CloseFinish. CASE CloseFinish
  BY <1>1, Zenon, <1>CloseFinish DEF CloseFinish, TypeFlags, disk, mem, lsm, chans, mutex,
     writer, compact, history, bounds
<1>Stop. CASE Stop
  BY <1>1, Zenon, <1>Stop DEF Stop, ResetVolatile, TypeFlags, disk, mem, lsm, chans, mutex,
     writer, compact, history, bounds
<1>Open. CASE Open
  BY <1>1, Zenon, <1>Open DEF Open, TypeFlags, disk, mem, lsm, chans, mutex, writer, compact,
     history, bounds
<1>RecoverFlush. CASE RecoverFlush
  BY <1>1, Zenon, <1>RecoverFlush DEF RecoverFlush, Fault, OpenFails, ResetVolatile, TypeFlags,
     disk, mem, lsm, chans, mutex, writer, compact, history, bounds
<1>RecoverFlushSave. CASE RecoverFlushSave
  BY <1>1, Zenon, <1>RecoverFlushSave DEF RecoverFlushSave, Fault, ManifestFails, OpenFails,
     ResetVolatile, TypeFlags, disk, mem, lsm, chans, mutex, writer, compact, history, bounds
<1>RecoverCleanup. CASE RecoverCleanup
  BY <1>1, Zenon, <1>RecoverCleanup DEF RecoverCleanup, Fault, TypeFlags, disk, mem, lsm, chans,
     mutex, writer, compact, history, bounds
<1>RecoverNewSegment. CASE RecoverNewSegment
  BY <1>1, Zenon, <1>RecoverNewSegment DEF RecoverNewSegment, Fault, ManifestFails, OpenFails,
     ResetVolatile, TypeFlags, disk, mem, lsm, chans, mutex, writer, compact, history, bounds
<1>RecoverCreate. CASE RecoverCreate
  BY <1>1, Zenon, <1>RecoverCreate DEF RecoverCreate, Fault, OpenFails, ResetVolatile, TypeFlags,
     disk, mem, lsm, chans, mutex, writer, compact, history, bounds
<1>RecoverResume. CASE RecoverResume
  BY <1>1, Zenon, <1>RecoverResume DEF RecoverResume, Fault, ManifestFails, OpenFails,
     ResetVolatile, TypeFlags, disk, mem, lsm, chans, mutex, writer, compact, history, bounds
<1>stutter. CASE UNCHANGED vars
  BY <1>1, Zenon, <1>stutter DEF TypeFlags, vars, disk, mem, lsm, chans, mutex, writer, compact,
     history, bounds
<1> QED
  BY <1>WriteBatch, <1>WriteRefused, <1>WriteFreeze, <1>SnapshotFreeze, <1>RotateWAL,
     <1>RotateBuild, <1>RotateSave, <1>WALAppend, <1>WALAppendFails, <1>WriteApply, <1>FlushWake,
     <1>FlushWrite, <1>FlushRegister, <1>FlushSave, <1>FlushCleanup, <1>CompactWake,
     <1>CompactMerge, <1>CompactBuild, <1>CompactSave, <1>CompactCommit, <1>CloseStart,
     <1>CloseDrain, <1>CloseQueue, <1>CloseSignal, <1>CloseFinish, <1>Stop, <1>Open,
     <1>RecoverFlush, <1>RecoverFlushSave, <1>RecoverCleanup, <1>RecoverNewSegment,
     <1>RecoverCreate, <1>RecoverResume, <1>stutter
     DEF Next, Foreground, Flush, Compaction, Closing, Recover

\* Segment IDs, levels and manifests keep their types.
LEMMA TypeSegmentsStep == Inv /\ [Next]_vars => TypeSegments'
<1> SUFFICES ASSUME Inv, [Next]_vars PROVE TypeSegments'
  OBVIOUS
<1>1. TypeSegments /\ TypeData /\ Control
  BY DEF Inv, TypeInv
<1>2. NoManifest \in Manifests
  BY DEF Manifests, NoManifest
<1>3. \A m \in Manifests : m.next \in Nat /\ m.l0 \in Seq(Nat) /\ m.l1 \in Seq(Nat) /\ m.flushed \in Nat
  BY DEF Manifests
<1>4. CurrentManifest \in Manifests
  BY <1>1 DEF CurrentManifest, Manifests, TypeSegments
<1>5. <<nextSeg>> \o l0 \in Seq(Nat) /\ l0 \o l1 \in Seq(Nat)
  BY <1>1, ConcatProperties DEF TypeSegments
<1>6. ASSUME ResetVolatile, manifest' \in Manifests PROVE TypeSegments'
  BY <1>2, <1>6 DEF ResetVolatile, TypeSegments
<1>WriteBatch. CASE WriteBatch
  BY <1>1, <1>2, <1>WriteBatch DEF WriteBatch, TypeSegments, disk, mem, lsm, chans, mutex,
     writer, compact, history, bounds
<1>WriteRefused. CASE WriteRefused
  BY <1>1, <1>2, <1>WriteRefused DEF WriteRefused, TypeSegments, disk, mem, lsm, chans, mutex,
     writer, compact, history, bounds
<1>WriteFreeze. CASE WriteFreeze
  BY <1>1, <1>2, <1>WriteFreeze DEF WriteFreeze, FreezeActiveMemTable, TypeSegments, disk, mem,
     lsm, chans, mutex, writer, compact, history, bounds
<1>SnapshotFreeze. CASE SnapshotFreeze
  BY <1>1, <1>2, <1>SnapshotFreeze DEF SnapshotFreeze, FreezeActiveMemTable, TypeSegments, disk,
     mem, lsm, chans, mutex, writer, compact, history, bounds
<1>RotateWAL. CASE RotateWAL
  BY <1>1, <1>2, <1>RotateWAL DEF RotateWAL, Fault, TypeSegments, disk, mem, lsm, chans, mutex,
     writer, compact, history, bounds
<1>RotateBuild. CASE RotateBuild
  BY <1>1, <1>2, <1>RotateBuild DEF RotateBuild, TypeSegments, RotationManifest, Manifests, disk,
     mem, lsm, chans, mutex, writer, compact, history, bounds
<1>RotateSave. CASE RotateSave
  BY <1>1, <1>2, <1>RotateSave DEF RotateSave, Fault, ManifestFails, TypeSegments, disk, mem,
     lsm, chans, mutex, writer, compact, history, bounds
<1>WALAppend. CASE WALAppend
  BY <1>1, <1>2, <1>WALAppend DEF WALAppend, TypeSegments, disk, mem, lsm, chans, mutex, writer,
     compact, history, bounds
<1>WALAppendFails. CASE WALAppendFails
  BY <1>1, <1>2, <1>WALAppendFails DEF WALAppendFails, Fault, TypeSegments, disk, mem, lsm,
     chans, mutex, writer, compact, history, bounds
<1>WriteApply. CASE WriteApply
  BY <1>1, <1>2, <1>WriteApply DEF WriteApply, TypeSegments, disk, mem, lsm, chans, mutex,
     writer, compact, history, bounds
<1>FlushWake. CASE FlushWake
  BY <1>1, <1>2, <1>FlushWake DEF FlushWake, TypeSegments, disk, mem, lsm, chans, mutex, writer,
     compact, history, bounds
<1>FlushWrite. CASE FlushWrite
  BY <1>1, <1>2, <1>FlushWrite DEF FlushWrite, Fault, TypeSegments, disk, mem, lsm, chans, mutex,
     writer, compact, history, bounds
<1>FlushRegister. CASE FlushRegister
  <2>1. Head(imm).seg \in Nat
    BY <1>1, <1>FlushRegister, QueueHead DEF FlushRegister, Control, TypeData
  <2>2. WithFlushed(Head(imm).seg) \in Seq(Nat)
    BY <1>1, <2>1, ConcatProperties DEF WithFlushed, TypeSegments
  <2>3. pending' \in Manifests
    BY <1>1, <1>FlushRegister, <2>1, <2>2 DEF FlushRegister, Manifests, TypeSegments, history,
       bounds
  <2> QED BY <1>1, <1>FlushRegister, <2>1, <2>2, <2>3
          DEF FlushRegister, TypeSegments, disk, compact, history, bounds
<1>FlushSave. CASE FlushSave
  BY <1>1, <1>2, <1>FlushSave DEF FlushSave, Fault, ManifestFails, TypeSegments, disk, mem, lsm,
     chans, mutex, writer, compact, history, bounds
<1>FlushCleanup. CASE FlushCleanup
  BY <1>1, <1>2, <1>FlushCleanup DEF FlushCleanup, Fault, TypeSegments, disk, mem, lsm, chans,
     mutex, writer, compact, history, bounds
<1>CompactWake. CASE CompactWake
  <2>1. cinputs' \in Seq(Nat)
    BY <1>1, <1>5, <1>CompactWake DEF CompactWake, TypeSegments
  <2>2. cseg' \in Nat /\ nextSeg' \in Nat
    BY <1>1, <1>CompactWake DEF CompactWake, TypeSegments
  <2>3. UNCHANGED <<manifest, pending, activeSeg, l0, l1, flushedSeg, couts>>
    BY <1>CompactWake DEF CompactWake, disk, mem, lsm, mutex
  <2> QED BY <1>1, <2>1, <2>2, <2>3 DEF TypeSegments
<1>CompactMerge. CASE CompactMerge
  <2> DEFINE n == OutputCount(LiveKeys(sstFiles, Range(cinputs)))
  <2>1. [i \in 1..n |-> cseg + i - 1] \in Seq(Nat)
    BY <1>1, OutputIDs DEF TypeSegments
  <2> HIDE DEF n
  <2>2. couts' = [i \in 1..n |-> cseg + i - 1] \/ couts' = couts
    BY <1>CompactMerge DEF CompactMerge, n
  <2>3. couts' \in Seq(Nat)
    BY <1>1, <2>1, <2>2 DEF TypeSegments
  <2>4. UNCHANGED <<manifest, pending, activeSeg, nextSeg, lsm, cseg, cinputs>>
    BY <1>CompactMerge DEF CompactMerge, mem, mutex
  <2> QED BY <1>1, <2>3, <2>4 DEF TypeSegments, lsm
<1>CompactBuild. CASE CompactBuild
  <2>1. RemainingLevelZero \in Seq(Nat)
    BY <1>1, RemainingKeepsOrder DEF TypeSegments
  <2>2. NextAfterMerge \in Nat
    <3>1. cseg + Len(couts) \in Nat /\ nextSeg \in Nat
      BY <1>1 DEF TypeSegments
    <3> QED BY <3>1, MaxOfTwo DEF NextAfterMerge
  <2>3. pending' \in Manifests
    BY <1>1, <1>CompactBuild, <2>1, <2>2 DEF CompactBuild, Manifests, TypeSegments
  <2> QED BY <1>1, <1>CompactBuild, <2>2, <2>3
          DEF CompactBuild, TypeSegments, disk, mem, lsm, history, bounds
<1>CompactSave. CASE CompactSave
  BY <1>1, <1>2, <1>CompactSave DEF CompactSave, Fault, ManifestFails, TypeSegments, disk, mem,
     lsm, chans, mutex, writer, compact, history, bounds
<1>CompactCommit. CASE CompactCommit
  BY <1>1, <1>2, <1>CompactCommit, <1>3 DEF CompactCommit, TypeSegments, disk, mem, lsm, chans,
     mutex, writer, compact, history, bounds
<1>CloseStart. CASE CloseStart
  BY <1>1, <1>2, <1>CloseStart DEF CloseStart, TypeSegments, disk, mem, lsm, chans, mutex,
     writer, compact, history, bounds
<1>CloseDrain. CASE CloseDrain
  BY <1>1, <1>2, <1>CloseDrain DEF CloseDrain, TypeSegments, disk, mem, lsm, chans, mutex,
     writer, compact, history, bounds
<1>CloseQueue. CASE CloseQueue
  BY <1>1, <1>2, <1>CloseQueue DEF CloseQueue, Fault, TypeSegments, disk, mem, lsm, chans, mutex,
     writer, compact, history, bounds
<1>CloseSignal. CASE CloseSignal
  BY <1>1, <1>2, <1>CloseSignal DEF CloseSignal, TypeSegments, disk, mem, lsm, chans, mutex,
     writer, compact, history, bounds
<1>CloseFinish. CASE CloseFinish
  BY <1>1, <1>2, <1>CloseFinish DEF CloseFinish, TypeSegments, disk, mem, lsm, chans, mutex,
     writer, compact, history, bounds
<1>Stop. CASE Stop
  BY <1>1, <1>2, <1>Stop DEF Stop, ResetVolatile, TypeSegments, disk, mem, lsm, chans, mutex,
     writer, compact, history, bounds
<1>Open. CASE Open
  <2>1. HighestWAL \in Nat
    BY <1>1, HighestWALIsHighest DEF TypeData
  <2>2. manifest.next \in Nat /\ manifest.l0 \in Seq(Nat) /\ manifest.l1 \in Seq(Nat) /\ manifest.flushed \in Nat
    BY <1>1, <1>3 DEF TypeSegments
  <2> QED BY <1>1, <1>Open, <2>1, <2>2 DEF Open, TypeSegments, lsm, mutex, compact
<1>RecoverFlush. CASE RecoverFlush
  <2>1. CASE OpenFails
    BY <1>1, <1>6, <1>RecoverFlush, <2>1 DEF RecoverFlush, OpenFails, TypeSegments
  <2>2. CASE ~OpenFails
    <3>1. l0' \in Seq(Nat)
      BY <1>5, <1>RecoverFlush, <2>2 DEF RecoverFlush
    <3>2. activeSeg' = nextSeg + 1 /\ nextSeg' = nextSeg + 2 /\ flushedSeg' = activeSeg
      BY <1>RecoverFlush, <2>2 DEF RecoverFlush
    <3>3. UNCHANGED <<manifest, pending, l1, cseg, cinputs, couts>>
      BY <1>RecoverFlush, <2>2 DEF RecoverFlush, mutex, compact
    <3> QED BY <1>1, <3>1, <3>2, <3>3 DEF TypeSegments
  <2> QED BY <2>1, <2>2
<1>RecoverFlushSave. CASE RecoverFlushSave
  <2>1. CASE OpenFails
    BY <1>1, <1>4, <1>6, <1>RecoverFlushSave, <2>1 DEF RecoverFlushSave, Fault, ManifestFails,
       OpenFails, TypeSegments
  <2>2. CASE ~OpenFails
    BY <1>1, <1>4, <1>5, <1>RecoverFlushSave, <2>2 DEF RecoverFlushSave, TypeSegments, mem, lsm,
       mutex, compact
  <2> QED BY <2>1, <2>2
<1>RecoverCleanup. CASE RecoverCleanup
  BY <1>1, <1>2, <1>RecoverCleanup DEF RecoverCleanup, Fault, TypeSegments, disk, mem, lsm,
     chans, mutex, writer, compact, history, bounds
<1>RecoverNewSegment. CASE RecoverNewSegment
  <2>1. [CurrentManifest EXCEPT !.next = nextSeg + 1] \in Manifests
    <3>1. [CurrentManifest EXCEPT !.next = nextSeg + 1] =
            [next |-> nextSeg + 1, l0 |-> l0, l1 |-> l1, flushed |-> flushedSeg]
      BY DEF CurrentManifest
    <3> QED BY <1>1, <3>1, SMTT(20) DEF Manifests, TypeSegments
  <2>2. CASE OpenFails
    BY <1>1, <1>6, <1>RecoverNewSegment, <2>1, <2>2
       DEF RecoverNewSegment, Fault, ManifestFails, OpenFails, TypeSegments
  <2>3. CASE ~OpenFails
    <3>1. nextSeg' = nextSeg + 1 /\ activeSeg' = nextSeg
      BY <1>RecoverNewSegment, <2>3 DEF RecoverNewSegment
    <3>2. manifest' = [CurrentManifest EXCEPT !.next = nextSeg']
      BY <1>RecoverNewSegment, <2>3 DEF RecoverNewSegment
    <3>3. manifest' \in Manifests
      BY <2>1, <3>1, <3>2
    <3>4. UNCHANGED <<pending, l0, l1, flushedSeg, cseg, cinputs, couts>>
      BY <1>RecoverNewSegment, <2>3 DEF RecoverNewSegment, lsm, mutex, compact
    <3> QED BY <1>1, <3>1, <3>3, <3>4 DEF TypeSegments
  <2> QED BY <2>2, <2>3
<1>RecoverCreate. CASE RecoverCreate
  <2>1. CASE OpenFails
    BY <1>1, <1>4, <1>6, <1>RecoverCreate, <2>1 DEF RecoverCreate, Fault, ManifestFails,
       OpenFails, TypeSegments
  <2>2. CASE ~OpenFails
    BY <1>1, <1>4, <1>5, <1>RecoverCreate, <2>2 DEF RecoverCreate, TypeSegments, mem, lsm, mutex,
       compact
  <2> QED BY <2>1, <2>2
<1>RecoverResume. CASE RecoverResume
  <2>1. CASE OpenFails
    BY <1>1, <1>4, <1>6, <1>RecoverResume, <2>1 DEF RecoverResume, Fault, ManifestFails,
       OpenFails, TypeSegments
  <2>2. CASE ~OpenFails
    BY <1>1, <1>4, <1>5, <1>RecoverResume, <2>2 DEF RecoverResume, TypeSegments, mem, lsm, mutex,
       compact
  <2> QED BY <2>1, <2>2
<1>stutter. CASE UNCHANGED vars
  BY <1>1, <1>2, <1>stutter DEF TypeSegments, vars, disk, mem, lsm, chans, mutex, writer,
     compact, history, bounds
<1> QED
  BY <1>WriteBatch, <1>WriteRefused, <1>WriteFreeze, <1>SnapshotFreeze, <1>RotateWAL,
     <1>RotateBuild, <1>RotateSave, <1>WALAppend, <1>WALAppendFails, <1>WriteApply, <1>FlushWake,
     <1>FlushWrite, <1>FlushRegister, <1>FlushSave, <1>FlushCleanup, <1>CompactWake,
     <1>CompactMerge, <1>CompactBuild, <1>CompactSave, <1>CompactCommit, <1>CloseStart,
     <1>CloseDrain, <1>CloseQueue, <1>CloseSignal, <1>CloseFinish, <1>Stop, <1>Open,
     <1>RecoverFlush, <1>RecoverFlushSave, <1>RecoverCleanup, <1>RecoverNewSegment,
     <1>RecoverCreate, <1>RecoverResume, <1>stutter
     DEF Next, Foreground, Flush, Compaction, Closing, Recover

\* Counters stay natural numbers.
LEMMA TypeCountersStep == Inv /\ [Next]_vars => TypeCounters'
<1> SUFFICES ASSUME Inv, [Next]_vars PROVE TypeCounters'
  OBVIOUS
<1>1. TypeCounters /\ Max({hw, flushedSeg}) \in Nat
  BY MaxOfTwo DEF Inv, TypeInv, TypeCounters, TypeSegments
<1>WriteBatch. CASE WriteBatch
  BY <1>1, <1>WriteBatch DEF WriteBatch, TypeCounters, disk, mem, lsm, chans, mutex, writer,
     compact, history, bounds
<1>WriteRefused. CASE WriteRefused
  BY <1>1, <1>WriteRefused DEF WriteRefused, TypeCounters, disk, mem, lsm, chans, mutex, writer,
     compact, history, bounds
<1>WriteFreeze. CASE WriteFreeze
  BY <1>1, <1>WriteFreeze DEF WriteFreeze, FreezeActiveMemTable, TypeCounters, disk, mem, lsm,
     chans, mutex, writer, compact, history, bounds
<1>SnapshotFreeze. CASE SnapshotFreeze
  BY <1>1, <1>SnapshotFreeze DEF SnapshotFreeze, FreezeActiveMemTable, TypeCounters, disk, mem,
     lsm, chans, mutex, writer, compact, history, bounds
<1>RotateWAL. CASE RotateWAL
  BY <1>1, <1>RotateWAL DEF RotateWAL, Fault, TypeCounters, disk, mem, lsm, chans, mutex, writer,
     compact, history, bounds
<1>RotateBuild. CASE RotateBuild
  BY <1>1, <1>RotateBuild DEF RotateBuild, TypeCounters, disk, mem, lsm, chans, mutex, writer,
     compact, history, bounds
<1>RotateSave. CASE RotateSave
  BY <1>1, <1>RotateSave DEF RotateSave, Fault, ManifestFails, TypeCounters, disk, mem, lsm,
     chans, mutex, writer, compact, history, bounds
<1>WALAppend. CASE WALAppend
  BY <1>1, <1>WALAppend DEF WALAppend, TypeCounters, disk, mem, lsm, chans, mutex, writer,
     compact, history, bounds
<1>WALAppendFails. CASE WALAppendFails
  BY <1>1, <1>WALAppendFails DEF WALAppendFails, Fault, TypeCounters, disk, mem, lsm, chans,
     mutex, writer, compact, history, bounds
<1>WriteApply. CASE WriteApply
  BY <1>1, <1>WriteApply DEF WriteApply, TypeCounters, disk, mem, lsm, chans, mutex, writer,
     compact, history, bounds
<1>FlushWake. CASE FlushWake
  BY <1>1, <1>FlushWake DEF FlushWake, TypeCounters, disk, mem, lsm, chans, mutex, writer,
     compact, history, bounds
<1>FlushWrite. CASE FlushWrite
  BY <1>1, <1>FlushWrite DEF FlushWrite, Fault, TypeCounters, disk, mem, lsm, chans, mutex,
     writer, compact, history, bounds
<1>FlushRegister. CASE FlushRegister
  BY <1>1, <1>FlushRegister DEF FlushRegister, TypeCounters, disk, mem, lsm, chans, mutex,
     writer, compact, history, bounds
<1>FlushSave. CASE FlushSave
  BY <1>1, <1>FlushSave DEF FlushSave, Fault, ManifestFails, TypeCounters, disk, mem, lsm, chans,
     mutex, writer, compact, history, bounds
<1>FlushCleanup. CASE FlushCleanup
  BY <1>1, <1>FlushCleanup DEF FlushCleanup, Fault, TypeCounters, disk, mem, lsm, chans, mutex,
     writer, compact, history, bounds
<1>CompactWake. CASE CompactWake
  BY <1>1, <1>CompactWake DEF CompactWake, TypeCounters, disk, mem, lsm, chans, mutex, writer,
     compact, history, bounds
<1>CompactMerge. CASE CompactMerge
  BY <1>1, <1>CompactMerge DEF CompactMerge, Fault, TypeCounters, disk, mem, lsm, chans, mutex,
     writer, compact, history, bounds
<1>CompactBuild. CASE CompactBuild
  BY <1>1, <1>CompactBuild DEF CompactBuild, TypeCounters, disk, mem, lsm, chans, mutex, writer,
     compact, history, bounds
<1>CompactSave. CASE CompactSave
  BY <1>1, <1>CompactSave DEF CompactSave, Fault, ManifestFails, TypeCounters, disk, mem, lsm,
     chans, mutex, writer, compact, history, bounds
<1>CompactCommit. CASE CompactCommit
  BY <1>1, <1>CompactCommit DEF CompactCommit, TypeCounters, disk, mem, lsm, chans, mutex,
     writer, compact, history, bounds
<1>CloseStart. CASE CloseStart
  BY <1>1, <1>CloseStart DEF CloseStart, TypeCounters, disk, mem, lsm, chans, mutex, writer,
     compact, history, bounds
<1>CloseDrain. CASE CloseDrain
  BY <1>1, <1>CloseDrain DEF CloseDrain, TypeCounters, disk, mem, lsm, chans, mutex, writer,
     compact, history, bounds
<1>CloseQueue. CASE CloseQueue
  BY <1>1, <1>CloseQueue DEF CloseQueue, Fault, TypeCounters, disk, mem, lsm, chans, mutex,
     writer, compact, history, bounds
<1>CloseSignal. CASE CloseSignal
  BY <1>1, <1>CloseSignal DEF CloseSignal, TypeCounters, disk, mem, lsm, chans, mutex, writer,
     compact, history, bounds
<1>CloseFinish. CASE CloseFinish
  BY <1>1, <1>CloseFinish DEF CloseFinish, TypeCounters, disk, mem, lsm, chans, mutex, writer,
     compact, history, bounds
<1>Stop. CASE Stop
  BY <1>1, <1>Stop DEF Stop, ResetVolatile, TypeCounters, disk, mem, lsm, chans, mutex, writer,
     compact, history, bounds
<1>Open. CASE Open
  BY <1>1, <1>Open DEF Open, TypeCounters, disk, mem, lsm, chans, mutex, writer, compact,
     history, bounds
<1>RecoverFlush. CASE RecoverFlush
  BY <1>1, <1>RecoverFlush DEF RecoverFlush, Fault, OpenFails, ResetVolatile, TypeCounters, disk,
     mem, lsm, chans, mutex, writer, compact, history, bounds
<1>RecoverFlushSave. CASE RecoverFlushSave
  BY <1>1, <1>RecoverFlushSave DEF RecoverFlushSave, Fault, ManifestFails, OpenFails,
     ResetVolatile, TypeCounters, disk, mem, lsm, chans, mutex, writer, compact, history, bounds
<1>RecoverCleanup. CASE RecoverCleanup
  BY <1>1, <1>RecoverCleanup DEF RecoverCleanup, Fault, TypeCounters, disk, mem, lsm, chans,
     mutex, writer, compact, history, bounds
<1>RecoverNewSegment. CASE RecoverNewSegment
  BY <1>1, <1>RecoverNewSegment DEF RecoverNewSegment, Fault, ManifestFails, OpenFails,
     ResetVolatile, TypeCounters, disk, mem, lsm, chans, mutex, writer, compact, history, bounds
<1>RecoverCreate. CASE RecoverCreate
  BY <1>1, <1>RecoverCreate DEF RecoverCreate, Fault, OpenFails, ResetVolatile, TypeCounters,
     disk, mem, lsm, chans, mutex, writer, compact, history, bounds
<1>RecoverResume. CASE RecoverResume
  BY <1>1, <1>RecoverResume DEF RecoverResume, Fault, ManifestFails, OpenFails, ResetVolatile,
     TypeCounters, disk, mem, lsm, chans, mutex, writer, compact, history, bounds
<1>stutter. CASE UNCHANGED vars
  BY <1>1, <1>stutter DEF TypeCounters, vars, disk, mem, lsm, chans, mutex, writer, compact,
     history, bounds
<1> QED
  BY <1>WriteBatch, <1>WriteRefused, <1>WriteFreeze, <1>SnapshotFreeze, <1>RotateWAL,
     <1>RotateBuild, <1>RotateSave, <1>WALAppend, <1>WALAppendFails, <1>WriteApply, <1>FlushWake,
     <1>FlushWrite, <1>FlushRegister, <1>FlushSave, <1>FlushCleanup, <1>CompactWake,
     <1>CompactMerge, <1>CompactBuild, <1>CompactSave, <1>CompactCommit, <1>CloseStart,
     <1>CloseDrain, <1>CloseQueue, <1>CloseSignal, <1>CloseFinish, <1>Stop, <1>Open,
     <1>RecoverFlush, <1>RecoverFlushSave, <1>RecoverCleanup, <1>RecoverNewSegment,
     <1>RecoverCreate, <1>RecoverResume, <1>stutter
     DEF Next, Foreground, Flush, Compaction, Closing, Recover

\* Memtables, WAL segments, the queue and the history keep their types.
LEMMA TypeDataStep == Inv /\ [Next]_vars => TypeData'
<1> SUFFICES ASSUME Inv, [Next]_vars PROVE TypeData'
  OBVIOUS
<1>1. TypeData /\ TypeSegments /\ TypeControl /\ Control /\ ActiveWAL
  BY DEF Inv, TypeInv
<1>2. Empty \in Tables
  BY EmptyType
<1>3. /\ \A id \in Nat, t \in Tables : IsFiles(Set(walFiles, id, t))
      /\ \A ids : IsFiles(Without(walFiles, ids))
  BY <1>1, FilesKept DEF TypeData
<1>4. /\ \A id \in Nat : \A t : DOMAIN Set(sstFiles, id, t) \subseteq Nat /\ IsFiniteSet(DOMAIN Set(sstFiles, id, t))
      /\ \A ids : DOMAIN Without(sstFiles, ids) \subseteq Nat /\ IsFiniteSet(DOMAIN Without(sstFiles, ids))
  <2>1. \A id \in Nat : IsFiniteSet(DOMAIN sstFiles \cup {id})
    BY <1>1, FS_AddElement DEF TypeData
  <2>2. \A ids : IsFiniteSet(DOMAIN sstFiles \ ids)
    BY <1>1, FS_Difference DEF TypeData
  <2>3. DOMAIN sstFiles \subseteq Nat
    BY <1>1 DEF TypeData
  <2>4. ASSUME NEW id \in Nat, NEW t
        PROVE  DOMAIN Set(sstFiles, id, t) \subseteq Nat /\ IsFiniteSet(DOMAIN Set(sstFiles, id, t))
    <3>1. DOMAIN Set(sstFiles, id, t) = DOMAIN sstFiles \cup {id}
      BY SetFile
    <3> QED BY <2>1, <2>3, <3>1
  <2>5. ASSUME NEW ids
        PROVE  DOMAIN Without(sstFiles, ids) \subseteq Nat /\ IsFiniteSet(DOMAIN Without(sstFiles, ids))
    <3>1. DOMAIN Without(sstFiles, ids) = DOMAIN sstFiles \ ids
      BY WithoutFiles
    <3> QED BY <2>2, <2>3, <3>1
  <2> QED BY <2>4, <2>5
<1>5. imm # <<>> => Head(imm).seg \in Nat /\ Tail(imm) \in Seq([seg : Nat, data : Tables])
  BY <1>1, QueueHead DEF TypeData
<1>6. Append(imm, [seg |-> activeSeg, data |-> memtable]) \in Seq([seg : Nat, data : Tables])
  <2>1. [seg |-> activeSeg, data |-> memtable] \in [seg : Nat, data : Tables]
    BY <1>1 DEF TypeData, TypeSegments
  <2> QED BY <1>1, <2>1, AppendProperties DEF TypeData
<1>7. \A kinds \in SUBSET Exposures : exposed \cup kinds \subseteq Exposures
  BY <1>1 DEF TypeData
<1>8. \A ids : Collision(ids) \subseteq Exposures
  BY DEF Collision, Exposures
<1>9. \A e \in Entries \ {None} : Answer(e) \in Vals \cup {None}
  BY DEF Answer, Entries
<1>10. [k \in Keys |-> allowed[k] \cup {Answer(e) : e \in {batch[k]} \ {None}}] \in [Keys -> SUBSET (Vals \cup {None})]
  <2>1. \A k \in Keys : batch[k] \in Entries /\ allowed[k] \subseteq Vals \cup {None}
    BY <1>1 DEF TypeData, Tables
  <2> QED BY <2>1, <1>9
<1>WriteBatch. CASE WriteBatch
  BY <1>1, <1>2, <1>WriteBatch DEF WriteBatch, TypeData, Batches, disk, mem, lsm, chans, mutex,
     writer, compact, history, bounds
<1>WriteRefused. CASE WriteRefused
  BY <1>1, <1>2, <1>WriteRefused DEF WriteRefused, TypeData, disk, mem, lsm, chans, mutex,
     writer, compact, history, bounds
<1>WriteFreeze. CASE WriteFreeze
  BY <1>1, <1>2, <1>WriteFreeze, <1>6 DEF WriteFreeze, FreezeActiveMemTable, TypeData, disk, mem,
     lsm, chans, mutex, writer, compact, history, bounds
<1>SnapshotFreeze. CASE SnapshotFreeze
  BY <1>1, <1>2, <1>SnapshotFreeze, <1>6 DEF SnapshotFreeze, FreezeActiveMemTable, TypeData,
     disk, mem, lsm, chans, mutex, writer, compact, history, bounds
<1>RotateWAL. CASE RotateWAL
  BY <1>1, <1>2, <1>RotateWAL, <1>3 DEF RotateWAL, Fault, TypeData, TypeSegments, disk, mem, lsm,
     chans, mutex, writer, compact, history, bounds
<1>RotateBuild. CASE RotateBuild
  BY <1>1, <1>2, <1>RotateBuild DEF RotateBuild, TypeData, disk, mem, lsm, chans, mutex, writer,
     compact, history, bounds
<1>RotateSave. CASE RotateSave
  BY <1>1, <1>2, <1>RotateSave DEF RotateSave, Fault, ManifestFails, TypeData, disk, mem, lsm,
     chans, mutex, writer, compact, history, bounds
<1>WALAppend. CASE WALAppend
  <2>1. PICK records \in Tables : Log(records)
    BY <1>WALAppend, Appends
  <2>2. IsFiles(walFiles') /\ exposed' \subseteq exposed \cup {"wal_rotation"}
    BY <2>1, LogWrites
  <2>3. allowed' \in [Keys -> SUBSET (Vals \cup {None})]
    BY <1>10, <1>WALAppend DEF WALAppend
  <2> QED BY <1>1, <1>2, <2>2, <2>3, <1>WALAppend DEF WALAppend, TypeData, Exposures
<1>WALAppendFails. CASE WALAppendFails
  <2>1. PICK records \in Tables : Log(records)
    BY <1>WALAppendFails, Appends
  <2>2. IsFiles(walFiles') /\ exposed' \subseteq exposed \cup {"wal_rotation"}
    BY <2>1, LogWrites
  <2>3. allowed' \in [Keys -> SUBSET (Vals \cup {None})]
    BY <1>10, <1>WALAppendFails DEF WALAppendFails
  <2> QED BY <1>1, <1>2, <2>2, <2>3, <1>WALAppendFails DEF WALAppendFails, TypeData, Exposures
<1>WriteApply. CASE WriteApply
  <2>1. Overlay(batch, memtable) \in Tables
    BY <1>1, OverlayType DEF TypeData
  <2>2. [k \in Keys |-> IF batch[k] = None THEN allowed[k] ELSE {Answer(batch[k])}]
           \in [Keys -> SUBSET (Vals \cup {None})]
    BY <1>1, <1>9 DEF TypeData, Tables
  <2> QED BY <1>1, <1>2, <2>1, <2>2, <1>WriteApply DEF WriteApply, TypeData, disk
<1>FlushWake. CASE FlushWake
  BY <1>1, <1>2, <1>FlushWake DEF FlushWake, TypeData, disk, mem, lsm, chans, mutex, writer,
     compact, history, bounds
<1>FlushWrite. CASE FlushWrite
  BY <1>1, <1>2, <1>FlushWrite, <1>4, <1>5, <1>7, <1>8 DEF FlushWrite, Fault, TypeData, Control,
     Expose, disk, mem, lsm, chans, mutex, writer, compact, history, bounds
<1>FlushRegister. CASE FlushRegister
  BY <1>1, <1>2, <1>FlushRegister, <1>5 DEF FlushRegister, TypeData, Control, disk, mem, lsm,
     chans, mutex, writer, compact, history, bounds
<1>FlushSave. CASE FlushSave
  BY <1>1, <1>2, <1>FlushSave DEF FlushSave, Fault, ManifestFails, TypeData, disk, mem, lsm,
     chans, mutex, writer, compact, history, bounds
<1>FlushCleanup. CASE FlushCleanup
  BY <1>1, <1>2, <1>FlushCleanup, <1>3 DEF FlushCleanup, Fault, TypeData, disk, mem, lsm, chans,
     mutex, writer, compact, history, bounds
<1>CompactWake. CASE CompactWake
  BY <1>1, <1>2, <1>CompactWake DEF CompactWake, TypeData, disk, mem, lsm, chans, mutex, writer,
     compact, history, bounds
<1>CompactMerge. CASE CompactMerge
  <2> DEFINE n == OutputCount(LiveKeys(sstFiles, Range(cinputs)))
             outs == cseg .. (cseg + n - 1)
  <2>1. n \in Nat /\ cseg \in Nat
    BY <1>1, OutputIDs DEF TypeSegments
  <2>2. outs \subseteq Nat /\ IsFiniteSet(outs)
    <3> HIDE DEF n
    <3> QED BY <2>1, FS_Interval
  <2>3. DOMAIN sstFiles \cup outs \subseteq Nat /\ IsFiniteSet(DOMAIN sstFiles \cup outs)
    BY <1>1, <2>2, FS_Union DEF TypeData
  <2> HIDE DEF n
  <2>4. DOMAIN sstFiles' = DOMAIN sstFiles \cup outs \/ \E ids : sstFiles' = Without(sstFiles, ids)
    BY <1>CompactMerge DEF CompactMerge, n
  <2>5. DOMAIN sstFiles' \subseteq Nat /\ IsFiniteSet(DOMAIN sstFiles')
    BY <2>3, <2>4, <1>4
  <2>6. exposed' \subseteq Exposures
    <3>1. \E ids : exposed' = exposed \cup Collision(ids) \/ exposed' = exposed \cup Collision(ids) \cup {"merge_order"}
      BY <1>CompactMerge DEF CompactMerge, Expose
    <3> QED BY <1>1, <1>8, <3>1 DEF TypeData, Exposures
  <2>7. UNCHANGED <<walFiles, mem, batch, allowed>>
    BY <1>CompactMerge DEF CompactMerge, writer
  <2> QED BY <1>1, <2>5, <2>6, <2>7 DEF TypeData, mem
<1>CompactBuild. CASE CompactBuild
  BY <1>1, <1>2, <1>CompactBuild DEF CompactBuild, TypeData, disk, mem, lsm, chans, mutex,
     writer, compact, history, bounds
<1>CompactSave. CASE CompactSave
  BY <1>1, <1>2, <1>CompactSave, <1>4, <1>7 DEF CompactSave, Fault, ManifestFails, TypeData,
     Expose, Exposures, disk, mem, lsm, chans, mutex, writer, compact, history, bounds
<1>CompactCommit. CASE CompactCommit
  BY <1>1, <1>2, <1>CompactCommit, <1>4 DEF CompactCommit, TypeData, disk, mem, lsm, chans,
     mutex, writer, compact, history, bounds
<1>CloseStart. CASE CloseStart
  BY <1>1, <1>2, <1>CloseStart DEF CloseStart, TypeData, disk, mem, lsm, chans, mutex, writer,
     compact, history, bounds
<1>CloseDrain. CASE CloseDrain
  BY <1>1, <1>2, <1>CloseDrain DEF CloseDrain, TypeData, disk, mem, lsm, chans, mutex, writer,
     compact, history, bounds
<1>CloseQueue. CASE CloseQueue
  BY <1>1, <1>2, <1>CloseQueue, <1>6 DEF CloseQueue, Fault, TypeData, disk, mem, lsm, chans,
     mutex, writer, compact, history, bounds
<1>CloseSignal. CASE CloseSignal
  BY <1>1, <1>2, <1>CloseSignal DEF CloseSignal, TypeData, disk, mem, lsm, chans, mutex, writer,
     compact, history, bounds
<1>CloseFinish. CASE CloseFinish
  BY <1>1, <1>2, <1>CloseFinish DEF CloseFinish, TypeData, disk, mem, lsm, chans, mutex, writer,
     compact, history, bounds
<1>Stop. CASE Stop
  BY <1>1, <1>2, <1>Stop DEF Stop, ResetVolatile, TypeData, disk, mem, lsm, chans, mutex, writer,
     compact, history, bounds
<1>Open. CASE Open
  <2>1. Recovery \in Tables
    BY <1>1, RecoveryType DEF TypeData
  <2>2. DOMAIN sstFiles' \subseteq Nat /\ IsFiniteSet(DOMAIN sstFiles')
    <3>1. DOMAIN sstFiles' = DOMAIN sstFiles \cap ActiveSSTs(manifest)
      BY <1>Open DEF Open, Restrict
    <3>2. IsFiniteSet(DOMAIN sstFiles \cap ActiveSSTs(manifest))
      BY <1>1, FS_Intersection DEF TypeData
    <3> QED BY <1>1, <3>1, <3>2 DEF TypeData
  <2>3. allowed' \in [Keys -> SUBSET (Vals \cup {None})]
    <3>1. CASE UNCHANGED allowed
      BY <1>1, <3>1 DEF TypeData
    <3>2. CASE ~UNCHANGED allowed
      <4>1. allowed' = [k \in Keys |->
              LET v == Answer(IF Recovery[k] # None THEN Recovery[k]
                              ELSE SearchLevels(sstFiles, manifest.l0, manifest.l1, k))
              IN  IF v \in allowed[k] THEN {v} ELSE allowed[k]]
        BY <1>Open, <3>2 DEF Open
      <4>2. \A k \in Keys : allowed[k] \subseteq Vals \cup {None}
        BY <1>1 DEF TypeData
      <4> QED BY <4>1, <4>2
    <3> QED BY <3>1, <3>2
  <2>4. exposed' \subseteq Exposures
    BY <1>1, <1>Open DEF Open, TypeData, Expose, Exposures
  <2>5. memtable' = Recovery \/ memtable' = memtable
    BY <1>Open DEF Open
  <2>6. UNCHANGED <<walFiles, batch, imm>>
    BY <1>Open DEF Open, writer
  <2> QED BY <1>1, <2>1, <2>2, <2>3, <2>4, <2>5, <2>6 DEF TypeData
<1>RecoverFlush. CASE RecoverFlush
  <2>1. CASE OpenFails
    BY <1>1, <1>2, <1>4, <1>7, <1>RecoverFlush, <2>1 DEF RecoverFlush, OpenFails, ResetVolatile,
       Control, TypeData, Expose, Exposures, history
  <2>2. CASE ~OpenFails
    BY <1>1, <1>2, <1>3, <1>4, <1>7, <1>8, <1>RecoverFlush, <2>2 DEF RecoverFlush, TypeData,
       TypeSegments, Expose, mem, writer, history, Exposures, mem
  <2> QED BY <2>1, <2>2
<1>RecoverFlushSave. CASE RecoverFlushSave
  <2>1. CASE OpenFails
    BY <1>1, <1>2, <1>4, <1>7, <1>RecoverFlushSave, <2>1 DEF RecoverFlushSave, OpenFails,
       ResetVolatile, Control, TypeData, Expose, Exposures, history
  <2>2. CASE ~OpenFails
    BY <1>1, <1>2, <1>3, <1>4, <1>7, <1>8, <1>RecoverFlushSave, <2>2 DEF RecoverFlushSave,
       TypeData, TypeSegments, Expose, mem, writer, history
  <2> QED BY <2>1, <2>2
<1>RecoverCleanup. CASE RecoverCleanup
  BY <1>1, <1>2, <1>RecoverCleanup, <1>3 DEF RecoverCleanup, Fault, TypeData, disk, mem, lsm,
     chans, mutex, writer, compact, history, bounds
<1>RecoverNewSegment. CASE RecoverNewSegment
  <2>1. CASE OpenFails
    BY <1>1, <1>2, <1>4, <1>7, <1>RecoverNewSegment, <2>1 DEF RecoverNewSegment, OpenFails,
       ResetVolatile, Control, TypeData, Expose, Exposures, history
  <2>2. CASE ~OpenFails
    BY <1>1, <1>2, <1>3, <1>4, <1>7, <1>8, <1>RecoverNewSegment, <2>2 DEF RecoverNewSegment,
       TypeData, TypeSegments, Expose, mem, writer, history
  <2> QED BY <2>1, <2>2
<1>RecoverCreate. CASE RecoverCreate
  <2>1. CASE OpenFails
    BY <1>1, <1>2, <1>4, <1>7, <1>RecoverCreate, <2>1 DEF RecoverCreate, OpenFails,
       ResetVolatile, Control, TypeData, Expose, Exposures, history
  <2>2. CASE ~OpenFails
    BY <1>1, <1>2, <1>3, <1>4, <1>7, <1>8, <1>RecoverCreate, <2>2 DEF RecoverCreate, TypeData,
       TypeSegments, Expose, mem, writer, history
  <2> QED BY <2>1, <2>2
<1>RecoverResume. CASE RecoverResume
  <2>1. CASE OpenFails
    BY <1>1, <1>2, <1>4, <1>7, <1>RecoverResume, <2>1 DEF RecoverResume, OpenFails,
       ResetVolatile, Control, TypeData, Expose, Exposures, history
  <2>2. CASE ~OpenFails
    BY <1>1, <1>2, <1>3, <1>4, <1>7, <1>8, <1>RecoverResume, <2>2 DEF RecoverResume, TypeData,
       TypeSegments, Expose, mem, writer, history
  <2> QED BY <2>1, <2>2
<1>stutter. CASE UNCHANGED vars
  BY <1>1, <1>2, <1>stutter DEF TypeData, vars, disk, mem, lsm, chans, mutex, writer, compact,
     history, bounds
<1> QED
  BY <1>WriteBatch, <1>WriteRefused, <1>WriteFreeze, <1>SnapshotFreeze, <1>RotateWAL,
     <1>RotateBuild, <1>RotateSave, <1>WALAppend, <1>WALAppendFails, <1>WriteApply, <1>FlushWake,
     <1>FlushWrite, <1>FlushRegister, <1>FlushSave, <1>FlushCleanup, <1>CompactWake,
     <1>CompactMerge, <1>CompactBuild, <1>CompactSave, <1>CompactCommit, <1>CloseStart,
     <1>CloseDrain, <1>CloseQueue, <1>CloseSignal, <1>CloseFinish, <1>Stop, <1>Open,
     <1>RecoverFlush, <1>RecoverFlushSave, <1>RecoverCleanup, <1>RecoverNewSegment,
     <1>RecoverCreate, <1>RecoverResume, <1>stutter
     DEF Next, Foreground, Flush, Compaction, Closing, Recover

\* Which steps coexist.
LEMMA ControlStep == Inv /\ [Next]_vars => Control'
<1> SUFFICES ASSUME Inv, [Next]_vars PROVE Control'
  OBVIOUS
<1>1. TypeControl /\ TypeData /\ Control
  BY DEF Inv, TypeInv
<1>2. ASSUME ResetVolatile, status' = "down" PROVE Control'
  BY <1>2 DEF ResetVolatile, Volatile, Control
<1>3. Append(imm, [seg |-> activeSeg, data |-> memtable]) # <<>>
  OBVIOUS
<1>WriteBatch. CASE WriteBatch
  BY <1>1, <1>WriteBatch DEF WriteBatch, Control, Volatile, TypeControl, disk, mem, lsm, chans,
     mutex, writer, compact, history, bounds
<1>WriteRefused. CASE WriteRefused
  BY <1>1, <1>WriteRefused DEF WriteRefused, Control, Volatile, TypeControl, disk, mem, lsm,
     chans, mutex, writer, compact, history, bounds
<1>WriteFreeze. CASE WriteFreeze
  <2>1. imm' # <<>> /\ memtable' = Empty /\ wpc' = "rotate"
    BY <1>3, <1>WriteFreeze DEF WriteFreeze, FreezeActiveMemTable
  <2>2. UNCHANGED <<status, bgErr, isClosing, manifestMu, fpc, cpc, kpc, rpc>>
    BY <1>WriteFreeze DEF WriteFreeze, mutex, compact
  <2>3. status \notin {"down", "failed", "recovering"} /\ kpc = "none" /\ wpc # "save"
    BY <1>1, <1>WriteFreeze DEF WriteFreeze, Control, Volatile, TypeControl
  <2> QED BY <1>1, <2>1, <2>2, <2>3 DEF Control, TypeControl
<1>SnapshotFreeze. CASE SnapshotFreeze
  <2>1. imm' # <<>> /\ memtable' = Empty /\ wpc' = "rotate"
    BY <1>3, <1>SnapshotFreeze DEF SnapshotFreeze, FreezeActiveMemTable
  <2>2. UNCHANGED <<status, bgErr, isClosing, manifestMu, fpc, cpc, kpc, rpc>>
    BY <1>SnapshotFreeze DEF SnapshotFreeze, mutex, compact
  <2>3. status \notin {"down", "failed", "recovering"} /\ kpc = "none" /\ wpc # "save"
    BY <1>1, <1>SnapshotFreeze DEF SnapshotFreeze, Control, Volatile, TypeControl
  <2> QED BY <1>1, <2>1, <2>2, <2>3 DEF Control, TypeControl
<1>RotateWAL. CASE RotateWAL
  BY <1>1, <1>RotateWAL DEF RotateWAL, Fault, Control, Volatile, TypeControl, disk, mem, lsm,
     chans, mutex, writer, compact, history, bounds
<1>RotateBuild. CASE RotateBuild
  BY <1>1, <1>RotateBuild DEF RotateBuild, Control, Volatile, TypeControl, disk, mem, lsm, chans,
     mutex, writer, compact, history, bounds
<1>RotateSave. CASE RotateSave
  BY <1>1, <1>RotateSave DEF RotateSave, Fault, ManifestFails, Control, Volatile, TypeControl,
     disk, mem, lsm, chans, mutex, writer, compact, history, bounds
<1>WALAppend. CASE WALAppend
  BY <1>1, <1>WALAppend DEF WALAppend, Control, Volatile, TypeControl, disk, mem, lsm, chans,
     mutex, writer, compact, history, bounds
<1>WALAppendFails. CASE WALAppendFails
  BY <1>1, <1>WALAppendFails DEF WALAppendFails, Fault, Control, Volatile, TypeControl, disk,
     mem, lsm, chans, mutex, writer, compact, history, bounds
<1>WriteApply. CASE WriteApply
  BY <1>1, <1>WriteApply DEF WriteApply, Control, Volatile, TypeControl, disk, mem, lsm, chans,
     mutex, writer, compact, history, bounds
<1>FlushWake. CASE FlushWake
  BY <1>1, <1>FlushWake DEF FlushWake, Control, Volatile, TypeControl, disk, mem, lsm, chans,
     mutex, writer, compact, history, bounds
<1>FlushWrite. CASE FlushWrite
  BY <1>1, <1>FlushWrite DEF FlushWrite, Fault, Control, Volatile, TypeControl, disk, mem, lsm,
     chans, mutex, writer, compact, history, bounds
<1>FlushRegister. CASE FlushRegister
  BY <1>1, <1>FlushRegister DEF FlushRegister, Control, Volatile, TypeControl, disk, mem, lsm,
     chans, mutex, writer, compact, history, bounds
<1>FlushSave. CASE FlushSave
  BY <1>1, <1>FlushSave DEF FlushSave, Fault, ManifestFails, Control, Volatile, TypeControl,
     disk, mem, lsm, chans, mutex, writer, compact, history, bounds
<1>FlushCleanup. CASE FlushCleanup
  BY <1>1, <1>FlushCleanup DEF FlushCleanup, Fault, Control, Volatile, TypeControl, disk, mem,
     lsm, chans, mutex, writer, compact, history, bounds
<1>CompactWake. CASE CompactWake
  BY <1>1, <1>CompactWake DEF CompactWake, Control, Volatile, TypeControl, disk, mem, lsm, chans,
     mutex, writer, compact, history, bounds
<1>CompactMerge. CASE CompactMerge
  BY <1>1, <1>CompactMerge DEF CompactMerge, Fault, Control, Volatile, TypeControl, disk, mem,
     lsm, chans, mutex, writer, compact, history, bounds
<1>CompactBuild. CASE CompactBuild
  BY <1>1, <1>CompactBuild DEF CompactBuild, Control, Volatile, TypeControl, disk, mem, lsm,
     chans, mutex, writer, compact, history, bounds
<1>CompactSave. CASE CompactSave
  BY <1>1, <1>CompactSave DEF CompactSave, Fault, ManifestFails, Control, Volatile, TypeControl,
     disk, mem, lsm, chans, mutex, writer, compact, history, bounds
<1>CompactCommit. CASE CompactCommit
  BY <1>1, <1>CompactCommit DEF CompactCommit, Control, Volatile, TypeControl, disk, mem, lsm,
     chans, mutex, writer, compact, history, bounds
<1>CloseStart. CASE CloseStart
  BY <1>1, <1>CloseStart DEF CloseStart, Control, Volatile, TypeControl, disk, mem, lsm, chans,
     mutex, writer, compact, history, bounds
<1>CloseDrain. CASE CloseDrain
  BY <1>1, <1>CloseDrain, SizeEmpty DEF CloseDrain, Control, Volatile, TypeControl, disk, mem,
     lsm, chans, mutex, writer, compact, history, bounds
<1>CloseQueue. CASE CloseQueue
  BY <1>1, <1>CloseQueue DEF CloseQueue, Fault, Control, Volatile, TypeControl, disk, mem, lsm,
     chans, mutex, writer, compact, history, bounds
<1>CloseSignal. CASE CloseSignal
  BY <1>1, <1>CloseSignal DEF CloseSignal, Control, Volatile, TypeControl, disk, mem, lsm, chans,
     mutex, writer, compact, history, bounds
<1>CloseFinish. CASE CloseFinish
  BY <1>1, <1>CloseFinish DEF CloseFinish, Control, Volatile, TypeControl, disk, mem, lsm, chans,
     mutex, writer, compact, history, bounds
<1>Stop. CASE Stop
  BY <1>2, <1>Stop DEF Stop
<1>Open. CASE Open
  BY <1>1, <1>Open DEF Open, Control, Volatile, TypeControl, disk, mem, lsm, chans, mutex,
     writer, compact, history, bounds
<1>RecoverFlush. CASE RecoverFlush
  <2>1. CASE OpenFails
    BY <1>2, <2>1 DEF OpenFails
  <2>2. CASE ~OpenFails
    BY <1>1, <1>RecoverFlush, <2>2 DEF RecoverFlush, Control, Volatile, TypeControl, mem, lsm,
       chans, mutex, writer, compact
  <2> QED BY <2>1, <2>2
<1>RecoverFlushSave. CASE RecoverFlushSave
  <2>1. CASE OpenFails
    BY <1>2, <2>1 DEF OpenFails
  <2>2. CASE ~OpenFails
    BY <1>1, <1>RecoverFlushSave, <2>2 DEF RecoverFlushSave, Control, Volatile, TypeControl, mem,
       lsm, chans, mutex, writer, compact
  <2> QED BY <2>1, <2>2
<1>RecoverCleanup. CASE RecoverCleanup
  BY <1>1, <1>RecoverCleanup DEF RecoverCleanup, Fault, Control, Volatile, TypeControl, disk,
     mem, lsm, chans, mutex, writer, compact, history, bounds
<1>RecoverNewSegment. CASE RecoverNewSegment
  <2>1. CASE OpenFails
    BY <1>2, <2>1 DEF OpenFails
  <2>2. CASE ~OpenFails
    BY <1>1, <1>RecoverNewSegment, <2>2 DEF RecoverNewSegment, Control, Volatile, TypeControl,
       mem, lsm, chans, mutex, writer, compact
  <2> QED BY <2>1, <2>2
<1>RecoverCreate. CASE RecoverCreate
  <2>1. CASE OpenFails
    BY <1>2, <2>1 DEF OpenFails
  <2>2. CASE ~OpenFails
    BY <1>1, <1>RecoverCreate, <2>2 DEF RecoverCreate, Control, Volatile, TypeControl, mem, lsm,
       chans, mutex, writer, compact
  <2> QED BY <2>1, <2>2
<1>RecoverResume. CASE RecoverResume
  <2>1. CASE OpenFails
    BY <1>2, <2>1 DEF OpenFails
  <2>2. CASE ~OpenFails
    BY <1>1, <1>RecoverResume, <2>2 DEF RecoverResume, Control, Volatile, TypeControl, mem, lsm,
       chans, mutex, writer, compact
  <2> QED BY <2>1, <2>2
<1>stutter. CASE UNCHANGED vars
  BY <1>1, <1>stutter DEF Control, Volatile, TypeControl, vars, disk, mem, lsm, chans, mutex,
     writer, compact, history, bounds
<1> QED
  BY <1>WriteBatch, <1>WriteRefused, <1>WriteFreeze, <1>SnapshotFreeze, <1>RotateWAL,
     <1>RotateBuild, <1>RotateSave, <1>WALAppend, <1>WALAppendFails, <1>WriteApply, <1>FlushWake,
     <1>FlushWrite, <1>FlushRegister, <1>FlushSave, <1>FlushCleanup, <1>CompactWake,
     <1>CompactMerge, <1>CompactBuild, <1>CompactSave, <1>CompactCommit, <1>CloseStart,
     <1>CloseDrain, <1>CloseQueue, <1>CloseSignal, <1>CloseFinish, <1>Stop, <1>Open,
     <1>RecoverFlush, <1>RecoverFlushSave, <1>RecoverCleanup, <1>RecoverNewSegment,
     <1>RecoverCreate, <1>RecoverResume, <1>stutter
     DEF Next, Foreground, Flush, Compaction, Closing, Recover

\* The queue stays in order.
LEMMA QueueStep == Inv /\ [Next]_vars => Queue'
<1> SUFFICES ASSUME Inv, [Next]_vars PROVE Queue'
  OBVIOUS
<1>1. TypeControl /\ TypeSegments /\ TypeData /\ Control /\ Queue /\ Active
  BY DEF Inv, TypeInv
<1>WriteBatch. CASE WriteBatch
  BY <1>1, <1>WriteBatch DEF WriteBatch, Queue, Drained, Control, TypeControl, disk, mem, lsm,
     chans, mutex, writer, compact, history, bounds
<1>WriteRefused. CASE WriteRefused
  BY <1>1, <1>WriteRefused DEF WriteRefused, Queue, Drained, Control, TypeControl, disk, mem,
     lsm, chans, mutex, writer, compact, history, bounds
<1>WriteFreeze. CASE WriteFreeze
  <2>1. imm' = Append(imm, [seg |-> activeSeg, data |-> memtable]) /\ activeSeg' = nextSeg
    BY <1>WriteFreeze DEF WriteFreeze, FreezeActiveMemTable
  <2>2. kpc = "none" /\ activeSeg < nextSeg
    BY <1>1, <1>WriteFreeze DEF WriteFreeze, Control, Active, Running, TypeControl, Volatile
  <2>3. \A i \in 1..Len(imm) : imm[i].seg < activeSeg
    BY <1>1, <2>2 DEF Queue, Drained
  <2>4. /\ Len(imm) \in Nat /\ \A i \in 1..Len(imm) : imm[i].seg \in Nat
        /\ Len(imm') = Len(imm) + 1
        /\ \A i \in 1..Len(imm) : imm'[i] = imm[i]
        /\ imm'[Len(imm) + 1].seg = activeSeg
    BY <1>1, <2>1, QueueAppend DEF TypeData, TypeSegments
  <2>5. \A i \in 1..Len(imm') : i \in 1..Len(imm) \/ i = Len(imm) + 1
    BY <2>4
  <2>6. \A i, j \in 1..Len(imm') : i < j => i \in 1..Len(imm)
    BY <2>4
  <2>7. activeSeg' = nextSeg /\ activeSeg \in Nat /\ nextSeg \in Nat
    BY <1>1, <2>1 DEF TypeSegments
  <2>8. \A i \in 1..Len(imm') : imm'[i].seg < activeSeg'
    BY <2>2, <2>3, <2>4, <2>5, <2>7
  <2>9. \A i, j \in 1..Len(imm') : i < j => imm'[i].seg < imm'[j].seg
    <3> SUFFICES ASSUME NEW i \in 1..Len(imm'), NEW j \in 1..Len(imm'), i < j
                 PROVE  imm'[i].seg < imm'[j].seg
      OBVIOUS
    <3>1. i \in 1..Len(imm) /\ imm'[i] = imm[i]
      BY <2>4, <2>6
    <3>2. CASE j \in 1..Len(imm)
      BY <1>1, <2>4, <3>1, <3>2 DEF Queue
    <3>3. CASE j = Len(imm) + 1
      BY <2>3, <2>4, <3>1, <3>3
    <3> QED BY <2>5, <3>2, <3>3
  <2> QED BY <2>8, <2>9 DEF Queue
<1>SnapshotFreeze. CASE SnapshotFreeze
  <2>1. imm' = Append(imm, [seg |-> activeSeg, data |-> memtable]) /\ activeSeg' = nextSeg
    BY <1>SnapshotFreeze DEF SnapshotFreeze, FreezeActiveMemTable
  <2>2. kpc = "none" /\ activeSeg < nextSeg
    BY <1>1, <1>SnapshotFreeze DEF SnapshotFreeze, Control, Active, Running, TypeControl, Volatile
  <2>3. \A i \in 1..Len(imm) : imm[i].seg < activeSeg
    BY <1>1, <2>2 DEF Queue, Drained
  <2>4. /\ Len(imm) \in Nat /\ \A i \in 1..Len(imm) : imm[i].seg \in Nat
        /\ Len(imm') = Len(imm) + 1
        /\ \A i \in 1..Len(imm) : imm'[i] = imm[i]
        /\ imm'[Len(imm) + 1].seg = activeSeg
    BY <1>1, <2>1, QueueAppend DEF TypeData, TypeSegments
  <2>5. \A i \in 1..Len(imm') : i \in 1..Len(imm) \/ i = Len(imm) + 1
    BY <2>4
  <2>6. \A i, j \in 1..Len(imm') : i < j => i \in 1..Len(imm)
    BY <2>4
  <2>7. activeSeg' = nextSeg /\ activeSeg \in Nat /\ nextSeg \in Nat
    BY <1>1, <2>1 DEF TypeSegments
  <2>8. \A i \in 1..Len(imm') : imm'[i].seg < activeSeg'
    BY <2>2, <2>3, <2>4, <2>5, <2>7
  <2>9. \A i, j \in 1..Len(imm') : i < j => imm'[i].seg < imm'[j].seg
    <3> SUFFICES ASSUME NEW i \in 1..Len(imm'), NEW j \in 1..Len(imm'), i < j
                 PROVE  imm'[i].seg < imm'[j].seg
      OBVIOUS
    <3>1. i \in 1..Len(imm) /\ imm'[i] = imm[i]
      BY <2>4, <2>6
    <3>2. CASE j \in 1..Len(imm)
      BY <1>1, <2>4, <3>1, <3>2 DEF Queue
    <3>3. CASE j = Len(imm) + 1
      BY <2>3, <2>4, <3>1, <3>3
    <3> QED BY <2>5, <3>2, <3>3
  <2> QED BY <2>8, <2>9 DEF Queue
<1>RotateWAL. CASE RotateWAL
  BY <1>1, <1>RotateWAL DEF RotateWAL, Fault, Queue, Drained, Control, TypeControl, disk, mem,
     lsm, chans, mutex, writer, compact, history, bounds
<1>RotateBuild. CASE RotateBuild
  BY <1>1, <1>RotateBuild DEF RotateBuild, Queue, Drained, Control, TypeControl, disk, mem, lsm,
     chans, mutex, writer, compact, history, bounds
<1>RotateSave. CASE RotateSave
  BY <1>1, <1>RotateSave DEF RotateSave, Fault, ManifestFails, Queue, Drained, Control,
     TypeControl, disk, mem, lsm, chans, mutex, writer, compact, history, bounds
<1>WALAppend. CASE WALAppend
  BY <1>1, <1>WALAppend DEF WALAppend, Queue, Drained, Control, TypeControl, disk, mem, lsm,
     chans, mutex, writer, compact, history, bounds
<1>WALAppendFails. CASE WALAppendFails
  BY <1>1, <1>WALAppendFails DEF WALAppendFails, Fault, Queue, Drained, Control, TypeControl,
     disk, mem, lsm, chans, mutex, writer, compact, history, bounds
<1>WriteApply. CASE WriteApply
  BY <1>1, <1>WriteApply DEF WriteApply, Queue, Drained, Control, TypeControl, disk, mem, lsm,
     chans, mutex, writer, compact, history, bounds
<1>FlushWake. CASE FlushWake
  BY <1>1, <1>FlushWake DEF FlushWake, Queue, Drained, Control, TypeControl, disk, mem, lsm,
     chans, mutex, writer, compact, history, bounds
<1>FlushWrite. CASE FlushWrite
  BY <1>1, <1>FlushWrite DEF FlushWrite, Fault, Queue, Drained, Control, TypeControl, disk, mem,
     lsm, chans, mutex, writer, compact, history, bounds
<1>FlushRegister. CASE FlushRegister
  BY <1>1, <1>FlushRegister DEF FlushRegister, Queue, Drained, Control, TypeControl, disk, mem,
     lsm, chans, mutex, writer, compact, history, bounds
<1>FlushSave. CASE FlushSave
  BY <1>1, <1>FlushSave DEF FlushSave, Fault, ManifestFails, Queue, Drained, Control,
     TypeControl, disk, mem, lsm, chans, mutex, writer, compact, history, bounds
<1>FlushCleanup. CASE FlushCleanup
  BY <1>1, <1>FlushCleanup DEF FlushCleanup, Fault, Queue, Drained, Control, TypeControl, disk,
     mem, lsm, chans, mutex, writer, compact, history, bounds
<1>CompactWake. CASE CompactWake
  BY <1>1, <1>CompactWake DEF CompactWake, Queue, Drained, Control, TypeControl, disk, mem, lsm,
     chans, mutex, writer, compact, history, bounds
<1>CompactMerge. CASE CompactMerge
  BY <1>1, <1>CompactMerge DEF CompactMerge, Fault, Queue, Drained, Control, TypeControl, disk,
     mem, lsm, chans, mutex, writer, compact, history, bounds
<1>CompactBuild. CASE CompactBuild
  BY <1>1, <1>CompactBuild DEF CompactBuild, Queue, Drained, Control, TypeControl, disk, mem,
     lsm, chans, mutex, writer, compact, history, bounds
<1>CompactSave. CASE CompactSave
  BY <1>1, <1>CompactSave DEF CompactSave, Fault, ManifestFails, Queue, Drained, Control,
     TypeControl, disk, mem, lsm, chans, mutex, writer, compact, history, bounds
<1>CompactCommit. CASE CompactCommit
  BY <1>1, <1>CompactCommit DEF CompactCommit, Queue, Drained, Control, TypeControl, disk, mem,
     lsm, chans, mutex, writer, compact, history, bounds
<1>CloseStart. CASE CloseStart
  BY <1>1, <1>CloseStart DEF CloseStart, Queue, Drained, Control, TypeControl, disk, mem, lsm,
     chans, mutex, writer, compact, history, bounds
<1>CloseDrain. CASE CloseDrain
  BY <1>1, <1>CloseDrain DEF CloseDrain, Queue, Drained, Control, TypeControl, disk, mem, lsm,
     chans, mutex, writer, compact, history, bounds
<1>CloseQueue. CASE CloseQueue
  <2>1. imm' = Append(imm, [seg |-> activeSeg, data |-> memtable]) /\ activeSeg' = activeSeg
    BY <1>CloseQueue DEF CloseQueue
  <2>2. kpc = "queue" /\ Drained'
    BY <1>1, <1>CloseQueue DEF CloseQueue, Control, Drained, TypeControl, WriterSteps, writer
  <2>3. \A i \in 1..Len(imm) : imm[i].seg < activeSeg
    BY <1>1, <2>2 DEF Queue, Drained
  <2>4. /\ Len(imm) \in Nat /\ \A i \in 1..Len(imm) : imm[i].seg \in Nat
        /\ Len(imm') = Len(imm) + 1
        /\ \A i \in 1..Len(imm) : imm'[i] = imm[i]
        /\ imm'[Len(imm) + 1].seg = activeSeg
    BY <1>1, <2>1, QueueAppend DEF TypeData, TypeSegments
  <2>5. \A i \in 1..Len(imm') : i \in 1..Len(imm) \/ i = Len(imm) + 1
    BY <2>4
  <2>6. \A i, j \in 1..Len(imm') : i < j => i \in 1..Len(imm)
    BY <2>4
  <2>7. activeSeg' = activeSeg /\ activeSeg \in Nat
    BY <1>1, <2>1 DEF TypeSegments
  <2>8. \A i \in 1..Len(imm') : imm'[i].seg < activeSeg' \/ imm'[i].seg = activeSeg'
    BY <2>3, <2>4, <2>5, <2>7
  <2>9. \A i, j \in 1..Len(imm') : i < j => imm'[i].seg < imm'[j].seg
    <3> SUFFICES ASSUME NEW i \in 1..Len(imm'), NEW j \in 1..Len(imm'), i < j
                 PROVE  imm'[i].seg < imm'[j].seg
      OBVIOUS
    <3>1. i \in 1..Len(imm) /\ imm'[i] = imm[i]
      BY <2>4, <2>6
    <3>2. CASE j \in 1..Len(imm)
      BY <1>1, <2>4, <3>1, <3>2 DEF Queue
    <3>3. CASE j = Len(imm) + 1
      BY <2>3, <2>4, <3>1, <3>3
    <3> QED BY <2>5, <3>2, <3>3
  <2> QED BY <2>2, <2>8, <2>9 DEF Queue
<1>CloseSignal. CASE CloseSignal
  BY <1>1, <1>CloseSignal DEF CloseSignal, Queue, Drained, Control, TypeControl, disk, mem, lsm,
     chans, mutex, writer, compact, history, bounds
<1>CloseFinish. CASE CloseFinish
  BY <1>1, <1>CloseFinish DEF CloseFinish, Queue, Drained, Control, TypeControl, disk, mem, lsm,
     chans, mutex, writer, compact, history, bounds
<1>Stop. CASE Stop
  BY <1>1, <1>Stop DEF Stop, ResetVolatile, Queue, Drained, Control, TypeControl, disk, mem, lsm,
     chans, mutex, writer, compact, history, bounds
<1>Open. CASE Open
  <2>1. imm' = <<>>
    BY <1>1, <1>Open DEF Open, Control, Volatile
  <2> QED BY <2>1 DEF Queue
<1>RecoverFlush. CASE RecoverFlush
  BY <1>1, <1>RecoverFlush DEF RecoverFlush, Fault, OpenFails, ResetVolatile, Queue, Drained,
     Control, TypeControl, disk, mem, lsm, chans, mutex, writer, compact, history, bounds
<1>RecoverFlushSave. CASE RecoverFlushSave
  BY <1>1, <1>RecoverFlushSave DEF RecoverFlushSave, Fault, ManifestFails, OpenFails,
     ResetVolatile, Queue, Drained, Control, TypeControl, disk, mem, lsm, chans, mutex, writer,
     compact, history, bounds
<1>RecoverCleanup. CASE RecoverCleanup
  BY <1>1, <1>RecoverCleanup DEF RecoverCleanup, Fault, Queue, Drained, Control, TypeControl,
     disk, mem, lsm, chans, mutex, writer, compact, history, bounds
<1>RecoverNewSegment. CASE RecoverNewSegment
  BY <1>1, <1>RecoverNewSegment DEF RecoverNewSegment, Fault, ManifestFails, OpenFails,
     ResetVolatile, Queue, Drained, Control, TypeControl, disk, mem, lsm, chans, mutex, writer,
     compact, history, bounds
<1>RecoverCreate. CASE RecoverCreate
  BY <1>1, <1>RecoverCreate DEF RecoverCreate, Fault, OpenFails, ResetVolatile, Queue, Drained,
     Control, TypeControl, disk, mem, lsm, chans, mutex, writer, compact, history, bounds
<1>RecoverResume. CASE RecoverResume
  BY <1>1, <1>RecoverResume DEF RecoverResume, Fault, ManifestFails, OpenFails, ResetVolatile,
     Queue, Drained, Control, TypeControl, disk, mem, lsm, chans, mutex, writer, compact,
     history, bounds
<1>stutter. CASE UNCHANGED vars
  BY <1>1, <1>stutter DEF Queue, Drained, Control, TypeControl, vars, disk, mem, lsm, chans,
     mutex, writer, compact, history, bounds
<1> QED
  BY <1>WriteBatch, <1>WriteRefused, <1>WriteFreeze, <1>SnapshotFreeze, <1>RotateWAL,
     <1>RotateBuild, <1>RotateSave, <1>WALAppend, <1>WALAppendFails, <1>WriteApply, <1>FlushWake,
     <1>FlushWrite, <1>FlushRegister, <1>FlushSave, <1>FlushCleanup, <1>CompactWake,
     <1>CompactMerge, <1>CompactBuild, <1>CompactSave, <1>CompactCommit, <1>CloseStart,
     <1>CloseDrain, <1>CloseQueue, <1>CloseSignal, <1>CloseFinish, <1>Stop, <1>Open,
     <1>RecoverFlush, <1>RecoverFlushSave, <1>RecoverCleanup, <1>RecoverNewSegment,
     <1>RecoverCreate, <1>RecoverResume, <1>stutter
     DEF Next, Foreground, Flush, Compaction, Closing, Recover

\* The active segment is below the next one.
LEMMA ActiveStep == Inv /\ [Next]_vars => Active'
<1> SUFFICES ASSUME Inv, [Next]_vars PROVE Active'
  OBVIOUS
<1>1. TypeControl /\ TypeSegments /\ TypeData /\ Control /\ Active /\ Disk
  BY DEF Inv, TypeInv
<1>WriteBatch. CASE WriteBatch
  BY <1>1, <1>WriteBatch DEF WriteBatch, Active, Running, Control, TypeControl, TypeSegments,
     disk, mem, lsm, chans, mutex, writer, compact, history, bounds
<1>WriteRefused. CASE WriteRefused
  BY <1>1, <1>WriteRefused DEF WriteRefused, Active, Running, Control, TypeControl, TypeSegments,
     disk, mem, lsm, chans, mutex, writer, compact, history, bounds
<1>WriteFreeze. CASE WriteFreeze
  BY <1>1, <1>WriteFreeze DEF WriteFreeze, FreezeActiveMemTable, Active, Running, Control,
     TypeControl, TypeSegments, disk, mem, lsm, chans, mutex, writer, compact, history, bounds
<1>SnapshotFreeze. CASE SnapshotFreeze
  BY <1>1, <1>SnapshotFreeze DEF SnapshotFreeze, FreezeActiveMemTable, Active, Running, Control,
     TypeControl, TypeSegments, disk, mem, lsm, chans, mutex, writer, compact, history, bounds
<1>RotateWAL. CASE RotateWAL
  BY <1>1, <1>RotateWAL DEF RotateWAL, Fault, Active, Running, Control, TypeControl,
     TypeSegments, disk, mem, lsm, chans, mutex, writer, compact, history, bounds
<1>RotateBuild. CASE RotateBuild
  BY <1>1, <1>RotateBuild DEF RotateBuild, Active, Running, Control, TypeControl, TypeSegments,
     disk, mem, lsm, chans, mutex, writer, compact, history, bounds
<1>RotateSave. CASE RotateSave
  BY <1>1, <1>RotateSave DEF RotateSave, Fault, ManifestFails, Active, Running, Control,
     TypeControl, TypeSegments, disk, mem, lsm, chans, mutex, writer, compact, history, bounds
<1>WALAppend. CASE WALAppend
  BY <1>1, <1>WALAppend DEF WALAppend, Active, Running, Control, TypeControl, TypeSegments, disk,
     mem, lsm, chans, mutex, writer, compact, history, bounds
<1>WALAppendFails. CASE WALAppendFails
  BY <1>1, <1>WALAppendFails DEF WALAppendFails, Fault, Active, Running, Control, TypeControl,
     TypeSegments, disk, mem, lsm, chans, mutex, writer, compact, history, bounds
<1>WriteApply. CASE WriteApply
  BY <1>1, <1>WriteApply DEF WriteApply, Active, Running, Control, TypeControl, TypeSegments,
     disk, mem, lsm, chans, mutex, writer, compact, history, bounds
<1>FlushWake. CASE FlushWake
  BY <1>1, <1>FlushWake DEF FlushWake, Active, Running, Control, TypeControl, TypeSegments, disk,
     mem, lsm, chans, mutex, writer, compact, history, bounds
<1>FlushWrite. CASE FlushWrite
  BY <1>1, <1>FlushWrite DEF FlushWrite, Fault, Active, Running, Control, TypeControl,
     TypeSegments, disk, mem, lsm, chans, mutex, writer, compact, history, bounds
<1>FlushRegister. CASE FlushRegister
  BY <1>1, <1>FlushRegister DEF FlushRegister, Active, Running, Control, TypeControl,
     TypeSegments, disk, mem, lsm, chans, mutex, writer, compact, history, bounds
<1>FlushSave. CASE FlushSave
  BY <1>1, <1>FlushSave DEF FlushSave, Fault, ManifestFails, Active, Running, Control,
     TypeControl, TypeSegments, disk, mem, lsm, chans, mutex, writer, compact, history, bounds
<1>FlushCleanup. CASE FlushCleanup
  BY <1>1, <1>FlushCleanup DEF FlushCleanup, Fault, Active, Running, Control, TypeControl,
     TypeSegments, disk, mem, lsm, chans, mutex, writer, compact, history, bounds
<1>CompactWake. CASE CompactWake
  BY <1>1, <1>CompactWake DEF CompactWake, Active, Running, Control, TypeControl, TypeSegments,
     disk, mem, lsm, chans, mutex, writer, compact, history, bounds
<1>CompactMerge. CASE CompactMerge
  BY <1>1, <1>CompactMerge DEF CompactMerge, Fault, Active, Running, Control, TypeControl,
     TypeSegments, disk, mem, lsm, chans, mutex, writer, compact, history, bounds
<1>CompactBuild. CASE CompactBuild
  <2>1. nextSeg' >= nextSeg /\ nextSeg' \in Nat
    <3>1. cseg + Len(couts) \in Nat /\ nextSeg \in Nat
      BY <1>1 DEF TypeSegments
    <3> QED BY <3>1, <1>CompactBuild, MaxOfTwo DEF CompactBuild, NextAfterMerge
  <2>2. UNCHANGED <<status, activeSeg, rpc>>
    BY <1>CompactBuild DEF CompactBuild, mem
  <2> QED BY <1>1, <2>1, <2>2 DEF Active, Running, TypeSegments
<1>CompactSave. CASE CompactSave
  BY <1>1, <1>CompactSave DEF CompactSave, Fault, ManifestFails, Active, Running, Control,
     TypeControl, TypeSegments, disk, mem, lsm, chans, mutex, writer, compact, history, bounds
<1>CompactCommit. CASE CompactCommit
  BY <1>1, <1>CompactCommit DEF CompactCommit, Active, Running, Control, TypeControl,
     TypeSegments, disk, mem, lsm, chans, mutex, writer, compact, history, bounds
<1>CloseStart. CASE CloseStart
  BY <1>1, <1>CloseStart DEF CloseStart, Active, Running, Control, TypeControl, TypeSegments,
     disk, mem, lsm, chans, mutex, writer, compact, history, bounds
<1>CloseDrain. CASE CloseDrain
  BY <1>1, <1>CloseDrain DEF CloseDrain, Active, Running, Control, TypeControl, TypeSegments,
     disk, mem, lsm, chans, mutex, writer, compact, history, bounds
<1>CloseQueue. CASE CloseQueue
  BY <1>1, <1>CloseQueue DEF CloseQueue, Fault, Active, Running, Control, TypeControl,
     TypeSegments, disk, mem, lsm, chans, mutex, writer, compact, history, bounds
<1>CloseSignal. CASE CloseSignal
  BY <1>1, <1>CloseSignal DEF CloseSignal, Active, Running, Control, TypeControl, TypeSegments,
     disk, mem, lsm, chans, mutex, writer, compact, history, bounds
<1>CloseFinish. CASE CloseFinish
  <2>1. status = "open" /\ UNCHANGED <<activeSeg, nextSeg, rpc>>
    BY <1>1, <1>CloseFinish DEF CloseFinish, Control, Volatile, TypeControl
  <2> QED BY <1>1, <2>1 DEF Active, Running
<1>Stop. CASE Stop
  BY <1>1, <1>Stop DEF Stop, ResetVolatile, Active, Running, Control, TypeControl, TypeSegments,
     disk, mem, lsm, chans, mutex, writer, compact, history, bounds
<1>Open. CASE Open
  <2>1. HighestWAL \in Nat /\ HighestWAL > 0
    <3>1. HighestWAL \in Nat /\ (HighestWAL = 1 \/ HighestWAL \in DOMAIN walFiles)
      BY <1>1, HighestWALIsHighest DEF TypeData
    <3> QED BY <1>1, <3>1 DEF Disk
  <2>2. manifest.next > 0
    BY <1>1 DEF Disk, Orderly
  <2>3. CASE status' = "recovering"
    BY <1>Open, <2>1, <2>2, <2>3 DEF Open, Active, Running
  <2>4. CASE status' = "failed"
    BY <1>1, <1>Open, <2>4 DEF Open, Active, Running, Control, Volatile
  <2> QED BY <1>Open, <2>3, <2>4 DEF Open
<1>RecoverFlush. CASE RecoverFlush
  BY <1>1, <1>RecoverFlush, SMTT(20) DEF RecoverFlush, Fault, OpenFails, ResetVolatile, Active, Running,
     Control, TypeControl, TypeSegments, disk, mem, lsm, chans, mutex, writer, compact, history,
     bounds
<1>RecoverFlushSave. CASE RecoverFlushSave
  BY <1>1, <1>RecoverFlushSave DEF RecoverFlushSave, Fault, ManifestFails, OpenFails,
     ResetVolatile, Active, Running, Control, TypeControl, TypeSegments, disk, mem, lsm, chans,
     mutex, writer, compact, history, bounds
<1>RecoverCleanup. CASE RecoverCleanup
  BY <1>1, <1>RecoverCleanup DEF RecoverCleanup, Fault, Active, Running, Control, TypeControl,
     TypeSegments, disk, mem, lsm, chans, mutex, writer, compact, history, bounds
<1>RecoverNewSegment. CASE RecoverNewSegment
  BY <1>1, <1>RecoverNewSegment, SMTT(20) DEF RecoverNewSegment, Fault, ManifestFails, OpenFails,
     ResetVolatile, Active, Running, Control, TypeControl, TypeSegments, disk, mem, lsm, chans,
     mutex, writer, compact, history, bounds
<1>RecoverCreate. CASE RecoverCreate
  BY <1>1, <1>RecoverCreate, SMTT(20) DEF RecoverCreate, Fault, OpenFails, ResetVolatile, Active, Running,
     Control, TypeControl, TypeSegments, disk, mem, lsm, chans, mutex, writer, compact, history,
     bounds
<1>RecoverResume. CASE RecoverResume
  BY <1>1, <1>RecoverResume DEF RecoverResume, Fault, ManifestFails, OpenFails, ResetVolatile,
     Active, Running, Control, TypeControl, TypeSegments, disk, mem, lsm, chans, mutex, writer,
     compact, history, bounds
<1>stutter. CASE UNCHANGED vars
  BY <1>1, <1>stutter DEF Active, Running, Control, TypeControl, TypeSegments, vars, disk, mem,
     lsm, chans, mutex, writer, compact, history, bounds
<1> QED
  BY <1>WriteBatch, <1>WriteRefused, <1>WriteFreeze, <1>SnapshotFreeze, <1>RotateWAL,
     <1>RotateBuild, <1>RotateSave, <1>WALAppend, <1>WALAppendFails, <1>WriteApply, <1>FlushWake,
     <1>FlushWrite, <1>FlushRegister, <1>FlushSave, <1>FlushCleanup, <1>CompactWake,
     <1>CompactMerge, <1>CompactBuild, <1>CompactSave, <1>CompactCommit, <1>CloseStart,
     <1>CloseDrain, <1>CloseQueue, <1>CloseSignal, <1>CloseFinish, <1>Stop, <1>Open,
     <1>RecoverFlush, <1>RecoverFlushSave, <1>RecoverCleanup, <1>RecoverNewSegment,
     <1>RecoverCreate, <1>RecoverResume, <1>stutter
     DEF Next, Foreground, Flush, Compaction, Closing, Recover

\* A step leaves the queue and the active segment alone, or appends to the
\* queue, or registers its head; or the engine is not running.
LEMMA MemorySteps == 
  Inv /\ [Next]_vars =>
    \/ UNCHANGED <<activeSeg, imm, flushedSeg>> /\ (Drained => Drained')
    \/ /\ imm' = Append(imm, [seg |-> activeSeg, data |-> memtable])
       /\ ~Drained /\ activeSeg' >= activeSeg /\ UNCHANGED flushedSeg
    \/ FlushRegister
    \/ ~Running
    \/ ~Running'
<1> SUFFICES ASSUME Inv, [Next]_vars, Running, Running',
                    ~(UNCHANGED <<activeSeg, imm, flushedSeg>> /\ (Drained => Drained')), ~FlushRegister
             PROVE  /\ imm' = Append(imm, [seg |-> activeSeg, data |-> memtable])
                    /\ ~Drained /\ activeSeg' >= activeSeg /\ UNCHANGED flushedSeg
  OBVIOUS
<1>1. TypeControl /\ TypeSegments /\ Control /\ Active
  BY DEF Inv, TypeInv
<1>WriteBatch. CASE WriteBatch
  BY <1>1, <1>WriteBatch DEF WriteBatch, Drained, Control, TypeControl, WriterSteps, disk, mem,
     lsm, chans, mutex, writer, compact, history, bounds
<1>WriteRefused. CASE WriteRefused
  BY <1>1, <1>WriteRefused DEF WriteRefused, Drained, Control, TypeControl, WriterSteps, disk,
     mem, lsm, chans, mutex, writer, compact, history, bounds
<1>WriteFreeze. CASE WriteFreeze
  <2>1. kpc = "none" /\ activeSeg < nextSeg
    BY <1>1, <1>WriteFreeze DEF WriteFreeze, Control, Active, Running, TypeControl
  <2> QED BY <1>1, <1>WriteFreeze, <2>1 DEF WriteFreeze, FreezeActiveMemTable, Drained, TypeSegments, lsm
<1>SnapshotFreeze. CASE SnapshotFreeze
  <2>1. kpc = "none" /\ activeSeg < nextSeg
    BY <1>1, <1>SnapshotFreeze DEF SnapshotFreeze, Control, Active, Running, TypeControl
  <2> QED BY <1>1, <1>SnapshotFreeze, <2>1 DEF SnapshotFreeze, FreezeActiveMemTable, Drained, TypeSegments, lsm
<1>RotateWAL. CASE RotateWAL
  BY <1>1, <1>RotateWAL DEF RotateWAL, Fault, Drained, Control, TypeControl, WriterSteps, disk,
     mem, lsm, chans, mutex, writer, compact, history, bounds
<1>RotateBuild. CASE RotateBuild
  BY <1>1, <1>RotateBuild DEF RotateBuild, Drained, Control, TypeControl, WriterSteps, disk, mem,
     lsm, chans, mutex, writer, compact, history, bounds
<1>RotateSave. CASE RotateSave
  BY <1>1, <1>RotateSave DEF RotateSave, Fault, ManifestFails, Drained, Control, TypeControl,
     WriterSteps, disk, mem, lsm, chans, mutex, writer, compact, history, bounds
<1>WALAppend. CASE WALAppend
  BY <1>1, <1>WALAppend DEF WALAppend, Drained, Control, TypeControl, WriterSteps, disk, mem,
     lsm, chans, mutex, writer, compact, history, bounds
<1>WALAppendFails. CASE WALAppendFails
  BY <1>1, <1>WALAppendFails DEF WALAppendFails, Fault, Drained, Control, TypeControl,
     WriterSteps, disk, mem, lsm, chans, mutex, writer, compact, history, bounds
<1>WriteApply. CASE WriteApply
  BY <1>1, <1>WriteApply DEF WriteApply, Drained, Control, TypeControl, WriterSteps, disk, mem,
     lsm, chans, mutex, writer, compact, history, bounds
<1>FlushWake. CASE FlushWake
  BY <1>1, <1>FlushWake DEF FlushWake, Drained, Control, TypeControl, WriterSteps, disk, mem,
     lsm, chans, mutex, writer, compact, history, bounds
<1>FlushWrite. CASE FlushWrite
  BY <1>1, <1>FlushWrite DEF FlushWrite, Fault, Drained, Control, TypeControl, WriterSteps, disk,
     mem, lsm, chans, mutex, writer, compact, history, bounds
<1>FlushRegister. CASE FlushRegister
  BY <1>FlushRegister
<1>FlushSave. CASE FlushSave
  BY <1>1, <1>FlushSave DEF FlushSave, Fault, ManifestFails, Drained, Control, TypeControl,
     WriterSteps, disk, mem, lsm, chans, mutex, writer, compact, history, bounds
<1>FlushCleanup. CASE FlushCleanup
  BY <1>1, <1>FlushCleanup DEF FlushCleanup, Fault, Drained, Control, TypeControl, WriterSteps,
     disk, mem, lsm, chans, mutex, writer, compact, history, bounds
<1>CompactWake. CASE CompactWake
  BY <1>1, <1>CompactWake DEF CompactWake, Drained, Control, TypeControl, WriterSteps, disk, mem,
     lsm, chans, mutex, writer, compact, history, bounds
<1>CompactMerge. CASE CompactMerge
  BY <1>1, <1>CompactMerge DEF CompactMerge, Fault, Drained, Control, TypeControl, WriterSteps,
     disk, mem, lsm, chans, mutex, writer, compact, history, bounds
<1>CompactBuild. CASE CompactBuild
  BY <1>1, <1>CompactBuild DEF CompactBuild, Drained, Control, TypeControl, WriterSteps, disk,
     mem, lsm, chans, mutex, writer, compact, history, bounds
<1>CompactSave. CASE CompactSave
  BY <1>1, <1>CompactSave DEF CompactSave, Fault, ManifestFails, Drained, Control, TypeControl,
     WriterSteps, disk, mem, lsm, chans, mutex, writer, compact, history, bounds
<1>CompactCommit. CASE CompactCommit
  BY <1>1, <1>CompactCommit DEF CompactCommit, Drained, Control, TypeControl, WriterSteps, disk,
     mem, lsm, chans, mutex, writer, compact, history, bounds
<1>CloseStart. CASE CloseStart
  BY <1>1, <1>CloseStart DEF CloseStart, Drained, Control, TypeControl, WriterSteps, disk, mem,
     lsm, chans, mutex, writer, compact, history, bounds
<1>CloseDrain. CASE CloseDrain
  BY <1>1, <1>CloseDrain DEF CloseDrain, Drained, Control, TypeControl, WriterSteps, disk, mem,
     lsm, chans, mutex, writer, compact, history, bounds
<1>CloseQueue. CASE CloseQueue
  BY <1>1, <1>CloseQueue DEF CloseQueue, Drained, TypeSegments, lsm
<1>CloseSignal. CASE CloseSignal
  BY <1>1, <1>CloseSignal DEF CloseSignal, Drained, Control, TypeControl, WriterSteps, disk, mem,
     lsm, chans, mutex, writer, compact, history, bounds
<1>CloseFinish. CASE CloseFinish
  BY <1>1, <1>CloseFinish DEF CloseFinish, Drained, Control, TypeControl, WriterSteps, disk, mem,
     lsm, chans, mutex, writer, compact, history, bounds
<1>Stop. CASE Stop
  BY <1>Stop DEF Stop, Running
<1>Open. CASE Open
  BY <1>1, <1>Open DEF Open, Control, Running
<1>RecoverFlush. CASE RecoverFlush
  BY <1>1, <1>RecoverFlush DEF RecoverFlush, Control, Running
<1>RecoverFlushSave. CASE RecoverFlushSave
  BY <1>1, <1>RecoverFlushSave DEF RecoverFlushSave, Control, Running
<1>RecoverCleanup. CASE RecoverCleanup
  BY <1>1, <1>RecoverCleanup DEF RecoverCleanup, Control, Running
<1>RecoverNewSegment. CASE RecoverNewSegment
  BY <1>1, <1>RecoverNewSegment DEF RecoverNewSegment, Control, Running
<1>RecoverCreate. CASE RecoverCreate
  BY <1>1, <1>RecoverCreate DEF RecoverCreate, Control, Running
<1>RecoverResume. CASE RecoverResume
  BY <1>1, <1>RecoverResume DEF RecoverResume, Control, Running
<1>stutter. CASE UNCHANGED vars
  BY <1>1, <1>stutter DEF Drained, Control, TypeControl, WriterSteps, vars, disk, mem, lsm,
     chans, mutex, writer, compact, history, bounds
<1> QED
  BY <1>WriteBatch, <1>WriteRefused, <1>WriteFreeze, <1>SnapshotFreeze, <1>RotateWAL,
     <1>RotateBuild, <1>RotateSave, <1>WALAppend, <1>WALAppendFails, <1>WriteApply, <1>FlushWake,
     <1>FlushWrite, <1>FlushRegister, <1>FlushSave, <1>FlushCleanup, <1>CompactWake,
     <1>CompactMerge, <1>CompactBuild, <1>CompactSave, <1>CompactCommit, <1>CloseStart,
     <1>CloseDrain, <1>CloseQueue, <1>CloseSignal, <1>CloseFinish, <1>Stop, <1>Open,
     <1>RecoverFlush, <1>RecoverFlushSave, <1>RecoverCleanup, <1>RecoverNewSegment,
     <1>RecoverCreate, <1>RecoverResume, <1>stutter
     DEF Next, Foreground, Flush, Compaction, Closing, Recover

\* The head of the queue is older than the rest of memory once it is flushed.
LEMMA HeadOlder ==
  ASSUME Inv, FlushRegister, NEW h, h = Head(imm).seg
  PROVE  /\ imm # <<>> /\ OlderThanMemory(h)'
         /\ h \in Nat /\ h = imm[1].seg /\ 1 \in 1..Len(imm)
<1>1. TypeData /\ TypeSegments /\ Control /\ Queue
  BY DEF Inv, TypeInv
<1>2. imm # <<>> /\ imm' = Tail(imm) /\ flushedSeg' = Head(imm).seg /\ UNCHANGED activeSeg /\ (Drained' <=> Drained)
  BY <1>1 DEF FlushRegister, Control, Drained, writer
<1>3. /\ Head(imm).seg \in Nat /\ Len(imm) \in Nat \ {0} /\ Len(imm') = Len(imm) - 1 /\ Head(imm) = imm[1]
      /\ \A i \in 1..Len(imm') : imm'[i] = imm[i + 1]
  BY <1>1, <1>2, QueueHead DEF TypeData
<1>4. imm[1].seg < activeSeg \/ (Drained /\ imm[1].seg = activeSeg)
  BY <1>1, <1>3 DEF Queue
<1>5. \A j \in 1..Len(imm') : imm[1].seg < imm'[j].seg
  <2> TAKE j \in 1..Len(imm')
  <2>1. j + 1 \in 1..Len(imm) /\ 1 \in 1..Len(imm) /\ 1 < j + 1 /\ imm'[j] = imm[j + 1]
    BY <1>3
  <2> QED BY <1>1, <2>1 DEF Queue
<1>6. h \in Nat /\ h = imm[1].seg /\ 1 \in 1..Len(imm) /\ flushedSeg' = h
  BY <1>2, <1>3
<1>7. h < activeSeg' \/ (Drained' /\ h = activeSeg' /\ flushedSeg' = activeSeg')
  BY <1>2, <1>4, <1>6
<1>8. OlderThanMemory(h)'
  BY <1>5, <1>6, <1>7 DEF OlderThanMemory
<1> QED BY <1>2, <1>6, <1>8

\* What is older than memory stays older while the engine runs.
LEMMA OlderStep ==
  ASSUME Inv, [Next]_vars, Running, Running', NEW s \in Nat, OlderThanMemory(s)
  PROVE  OlderThanMemory(s)'
<1>1. TypeData /\ TypeSegments
  BY DEF Inv, TypeInv
<1>2. CASE UNCHANGED <<activeSeg, imm, flushedSeg>> /\ (Drained => Drained')
  BY <1>2 DEF OlderThanMemory
<1>3. CASE /\ imm' = Append(imm, [seg |-> activeSeg, data |-> memtable])
           /\ ~Drained /\ activeSeg' >= activeSeg /\ UNCHANGED flushedSeg
  <2>1. /\ Len(imm) \in Nat /\ Len(imm') = Len(imm) + 1
        /\ \A i \in 1..Len(imm) : imm'[i] = imm[i]
        /\ imm'[Len(imm) + 1].seg = activeSeg
    BY <1>1, <1>3, QueueAppend DEF TypeData, TypeSegments
  <2>2. s < activeSeg /\ \A j \in 1..Len(imm) : s < imm[j].seg
    BY <1>3 DEF OlderThanMemory
  <2>3. activeSeg' \in Nat /\ activeSeg \in Nat
    BY TypeSegmentsStep DEF Inv, TypeInv, TypeSegments
  <2>4. s < activeSeg'
    BY <1>3, <2>2, <2>3
  <2>5. \A j \in 1..Len(imm') : j \in 1..Len(imm) \/ j = Len(imm) + 1
    BY <2>1
  <2>6. \A j \in 1..Len(imm') : s < imm'[j].seg
    BY <2>1, <2>2, <2>5
  <2> QED BY <2>4, <2>6 DEF OlderThanMemory
<1>4. CASE FlushRegister
  <2> PICK h : h = Head(imm).seg
    OBVIOUS
  <2>1. /\ OlderThanMemory(h)'
        /\ h \in Nat /\ h = imm[1].seg /\ 1 \in 1..Len(imm)
    BY <1>4, HeadOlder
  <2>2. s < h
    BY <2>1 DEF OlderThanMemory
  <2>3. h < activeSeg' \/ h = activeSeg'
    BY <2>1 DEF OlderThanMemory
  <2>4. activeSeg' \in Nat /\ imm' \in Seq([seg : Nat, data : Tables])
    BY TypeSegmentsStep, TypeDataStep DEF Inv, TypeInv, TypeSegments, TypeData
  <2>5. s < activeSeg'
    BY <2>1, <2>2, <2>3, <2>4
  <2>6. \A j \in 1..Len(imm') : imm'[j].seg \in Nat /\ h < imm'[j].seg
    <3>2. \A j \in 1..Len(imm') : imm'[j].seg \in Nat
      BY <2>4, QueueSegments
    <3>3. \A j \in 1..Len(imm') : h < imm'[j].seg
      BY <2>1 DEF OlderThanMemory
    <3> QED BY <3>2, <3>3
  <2>7. \A j \in 1..Len(imm') : s < imm'[j].seg
    BY <2>1, <2>2, <2>6
  <2> QED BY <2>5, <2>7 DEF OlderThanMemory
<1> QED BY <1>2, <1>3, <1>4, MemorySteps

\* A step runs the engine, ends or fails it, or is a step of NewEngine.
LEMMA Phases == 
  Inv /\ [Next]_vars =>
    \/ UNCHANGED vars
    \/ Running /\ Running' /\ (Foreground \/ Flush \/ Compaction \/ Closing)
    \/ status' \in {"down", "failed"} /\ Volatile' /\ Recover
    \/ /\ status' = "recovering" /\ ~Running
       /\ \/ Open \/ RecoverFlush \/ RecoverFlushSave \/ RecoverCleanup
          \/ RecoverNewSegment \/ RecoverCreate
    \/ status = "recovering" /\ status' = "open" /\ (RecoverCreate \/ RecoverResume)
<1> SUFFICES ASSUME Inv, [Next]_vars, ~UNCHANGED vars
             PROVE  \/ Running /\ Running' /\ (Foreground \/ Flush \/ Compaction \/ Closing)
                    \/ status' \in {"down", "failed"} /\ Recover
                    \/ /\ status' = "recovering" /\ ~Running
                       /\ \/ Open \/ RecoverFlush \/ RecoverFlushSave \/ RecoverCleanup
                          \/ RecoverNewSegment \/ RecoverCreate
                    \/ status = "recovering" /\ status' = "open" /\ (RecoverCreate \/ RecoverResume)
  BY ControlStep DEF Control
<1>1. TypeControl /\ Control
  BY DEF Inv, TypeInv
<1>WriteBatch. CASE WriteBatch
  <2>1. Running /\ UNCHANGED status
    BY <1>1, <1>WriteBatch DEF WriteBatch, Control, TypeControl, Volatile, Running
  <2> QED BY <2>1, <1>WriteBatch DEF Running, Foreground
<1>WriteRefused. CASE WriteRefused
  <2>1. Running /\ UNCHANGED status
    BY <1>1, <1>WriteRefused DEF WriteRefused, Control, TypeControl, Volatile, Running
  <2> QED BY <2>1, <1>WriteRefused DEF Running, Foreground
<1>WriteFreeze. CASE WriteFreeze
  <2>1. Running /\ UNCHANGED status
    BY <1>1, <1>WriteFreeze DEF WriteFreeze, Control, TypeControl, Volatile, Running
  <2> QED BY <2>1, <1>WriteFreeze DEF Running, Foreground
<1>SnapshotFreeze. CASE SnapshotFreeze
  <2>1. Running /\ UNCHANGED status
    BY <1>1, <1>SnapshotFreeze DEF SnapshotFreeze, Control, TypeControl, Volatile, Running
  <2> QED BY <2>1, <1>SnapshotFreeze DEF Running, Foreground
<1>RotateWAL. CASE RotateWAL
  <2>1. Running /\ UNCHANGED status
    BY <1>1, <1>RotateWAL DEF RotateWAL, Control, TypeControl, Volatile, Running
  <2> QED BY <2>1, <1>RotateWAL DEF Running, Foreground
<1>RotateBuild. CASE RotateBuild
  <2>1. Running /\ UNCHANGED status
    BY <1>1, <1>RotateBuild DEF RotateBuild, Control, TypeControl, Volatile, Running
  <2> QED BY <2>1, <1>RotateBuild DEF Running, Foreground
<1>RotateSave. CASE RotateSave
  <2>1. Running /\ UNCHANGED status
    BY <1>1, <1>RotateSave DEF RotateSave, Control, TypeControl, Volatile, Running
  <2> QED BY <2>1, <1>RotateSave DEF Running, Foreground
<1>WALAppend. CASE WALAppend
  <2>1. Running /\ UNCHANGED status
    BY <1>1, <1>WALAppend DEF WALAppend, Control, TypeControl, Volatile, Running
  <2> QED BY <2>1, <1>WALAppend DEF Running, Foreground
<1>WALAppendFails. CASE WALAppendFails
  <2>1. Running /\ UNCHANGED status
    BY <1>1, <1>WALAppendFails DEF WALAppendFails, Control, TypeControl, Volatile, Running
  <2> QED BY <2>1, <1>WALAppendFails DEF Running, Foreground
<1>WriteApply. CASE WriteApply
  <2>1. Running /\ UNCHANGED status
    BY <1>1, <1>WriteApply DEF WriteApply, Control, TypeControl, Volatile, Running
  <2> QED BY <2>1, <1>WriteApply DEF Running, Foreground
<1>FlushWake. CASE FlushWake
  <2>1. Running /\ UNCHANGED status
    BY <1>1, <1>FlushWake DEF FlushWake, Control, TypeControl, Volatile, Running
  <2> QED BY <2>1, <1>FlushWake DEF Running, Flush
<1>FlushWrite. CASE FlushWrite
  <2>1. Running /\ UNCHANGED status
    BY <1>1, <1>FlushWrite DEF FlushWrite, Control, TypeControl, Volatile, Running
  <2> QED BY <2>1, <1>FlushWrite DEF Running, Flush
<1>FlushRegister. CASE FlushRegister
  <2>1. Running /\ UNCHANGED status
    BY <1>1, <1>FlushRegister DEF FlushRegister, Control, TypeControl, Volatile, Running
  <2> QED BY <2>1, <1>FlushRegister DEF Running, Flush
<1>FlushSave. CASE FlushSave
  <2>1. Running /\ UNCHANGED status
    BY <1>1, <1>FlushSave DEF FlushSave, Control, TypeControl, Volatile, Running
  <2> QED BY <2>1, <1>FlushSave DEF Running, Flush
<1>FlushCleanup. CASE FlushCleanup
  <2>1. Running /\ UNCHANGED status
    BY <1>1, <1>FlushCleanup DEF FlushCleanup, Control, TypeControl, Volatile, Running
  <2> QED BY <2>1, <1>FlushCleanup DEF Running, Flush
<1>CompactWake. CASE CompactWake
  <2>1. Running /\ UNCHANGED status
    BY <1>1, <1>CompactWake DEF CompactWake, Control, TypeControl, Volatile, Running
  <2> QED BY <2>1, <1>CompactWake DEF Running, Compaction
<1>CompactMerge. CASE CompactMerge
  <2>1. Running /\ UNCHANGED status
    BY <1>1, <1>CompactMerge DEF CompactMerge, Control, TypeControl, Volatile, Running
  <2> QED BY <2>1, <1>CompactMerge DEF Running, Compaction
<1>CompactBuild. CASE CompactBuild
  <2>1. Running /\ UNCHANGED status
    BY <1>1, <1>CompactBuild DEF CompactBuild, Control, TypeControl, Volatile, Running
  <2> QED BY <2>1, <1>CompactBuild DEF Running, Compaction
<1>CompactSave. CASE CompactSave
  <2>1. Running /\ UNCHANGED status
    BY <1>1, <1>CompactSave DEF CompactSave, Control, TypeControl, Volatile, Running
  <2> QED BY <2>1, <1>CompactSave DEF Running, Compaction
<1>CompactCommit. CASE CompactCommit
  <2>1. Running /\ UNCHANGED status
    BY <1>1, <1>CompactCommit DEF CompactCommit, Control, TypeControl, Volatile, Running
  <2> QED BY <2>1, <1>CompactCommit DEF Running, Compaction
<1>CloseStart. CASE CloseStart
  <2>1. Running /\ UNCHANGED status
    BY <1>1, <1>CloseStart DEF CloseStart, Control, TypeControl, Volatile, Running
  <2> QED BY <2>1, <1>CloseStart DEF Running, Closing
<1>CloseDrain. CASE CloseDrain
  <2>1. Running /\ UNCHANGED status
    BY <1>1, <1>CloseDrain DEF CloseDrain, Control, TypeControl, Volatile, Running
  <2> QED BY <2>1, <1>CloseDrain DEF Running, Closing
<1>CloseQueue. CASE CloseQueue
  <2>1. Running /\ UNCHANGED status
    BY <1>1, <1>CloseQueue DEF CloseQueue, Control, TypeControl, Volatile, Running
  <2> QED BY <2>1, <1>CloseQueue DEF Running, Closing
<1>CloseSignal. CASE CloseSignal
  <2>1. Running /\ UNCHANGED status
    BY <1>1, <1>CloseSignal DEF CloseSignal, Control, TypeControl, Volatile, Running
  <2> QED BY <2>1, <1>CloseSignal DEF Running, Closing
<1>CloseFinish. CASE CloseFinish
  <2>1. Running /\ status' = "closed"
    BY <1>1, <1>CloseFinish DEF CloseFinish, Control, TypeControl, Volatile, Running
  <2> QED BY <2>1, <1>CloseFinish DEF Running, Closing
<1>Stop. CASE Stop
  BY <1>Stop DEF Stop, Recover
<1>Open. CASE Open
  BY <1>1, <1>Open DEF Open, OpenFails, Control, TypeControl, Volatile, Running, Recover
<1>RecoverFlush. CASE RecoverFlush
  BY <1>1, <1>RecoverFlush DEF RecoverFlush, OpenFails, Control, TypeControl, Volatile, Running,
     Recover
<1>RecoverFlushSave. CASE RecoverFlushSave
  BY <1>1, <1>RecoverFlushSave DEF RecoverFlushSave, OpenFails, Control, TypeControl, Volatile,
     Running, Recover
<1>RecoverCleanup. CASE RecoverCleanup
  BY <1>1, <1>RecoverCleanup DEF RecoverCleanup, OpenFails, Control, TypeControl, Volatile,
     Running, Recover
<1>RecoverNewSegment. CASE RecoverNewSegment
  BY <1>1, <1>RecoverNewSegment DEF RecoverNewSegment, OpenFails, Control, TypeControl, Volatile,
     Running, Recover
<1>RecoverCreate. CASE RecoverCreate
  <2>1. status = "recovering"
    BY <1>1, <1>RecoverCreate DEF RecoverCreate, Control
  <2> QED BY <2>1, <1>RecoverCreate DEF RecoverCreate, OpenFails, Running, Recover
<1>RecoverResume. CASE RecoverResume
  <2>1. status = "recovering"
    BY <1>1, <1>RecoverResume DEF RecoverResume, Control
  <2> QED BY <2>1, <1>RecoverResume DEF RecoverResume, OpenFails, Running, Recover
<1> QED
  BY <1>WriteBatch, <1>WriteRefused, <1>WriteFreeze, <1>SnapshotFreeze, <1>RotateWAL,
     <1>RotateBuild, <1>RotateSave, <1>WALAppend, <1>WALAppendFails, <1>WriteApply, <1>FlushWake,
     <1>FlushWrite, <1>FlushRegister, <1>FlushSave, <1>FlushCleanup, <1>CompactWake,
     <1>CompactMerge, <1>CompactBuild, <1>CompactSave, <1>CompactCommit, <1>CloseStart,
     <1>CloseDrain, <1>CloseQueue, <1>CloseSignal, <1>CloseFinish, <1>Stop, <1>Open,
     <1>RecoverFlush, <1>RecoverFlushSave, <1>RecoverCleanup, <1>RecoverNewSegment,
     <1>RecoverCreate, <1>RecoverResume
     DEF Next, Foreground, Flush, Compaction, Closing, Recover

\* How the levels change while the engine runs.
LEMMA LevelSteps == 
  ASSUME Inv, [Next]_vars, Running, Running'
  PROVE  /\ nextSeg' >= nextSeg
         /\ UNCHANGED l0 \/ FlushRegister \/ CompactCommit
         /\ UNCHANGED <<l1>> \/ CompactCommit
         /\ fpc' \in {"save", "cleanup"} => FlushRegister \/ (fpc \in {"save", "cleanup"} /\ UNCHANGED flushedSeg)
<1>1. TypeControl /\ TypeSegments /\ Control
  BY DEF Inv, TypeInv
<1>WriteBatch. CASE WriteBatch
  BY <1>1, <1>WriteBatch DEF WriteBatch, TypeSegments, TypeControl, FlushSteps, disk, mem, lsm,
     chans, mutex, writer, compact, history, bounds
<1>WriteRefused. CASE WriteRefused
  BY <1>1, <1>WriteRefused DEF WriteRefused, TypeSegments, TypeControl, FlushSteps, disk, mem,
     lsm, chans, mutex, writer, compact, history, bounds
<1>WriteFreeze. CASE WriteFreeze
  BY <1>1, <1>WriteFreeze DEF WriteFreeze, FreezeActiveMemTable, TypeSegments, TypeControl,
     FlushSteps, disk, mem, lsm, chans, mutex, writer, compact, history, bounds
<1>SnapshotFreeze. CASE SnapshotFreeze
  BY <1>1, <1>SnapshotFreeze DEF SnapshotFreeze, FreezeActiveMemTable, TypeSegments, TypeControl,
     FlushSteps, disk, mem, lsm, chans, mutex, writer, compact, history, bounds
<1>RotateWAL. CASE RotateWAL
  BY <1>1, <1>RotateWAL DEF RotateWAL, Fault, TypeSegments, TypeControl, FlushSteps, disk, mem,
     lsm, chans, mutex, writer, compact, history, bounds
<1>RotateBuild. CASE RotateBuild
  BY <1>1, <1>RotateBuild DEF RotateBuild, TypeSegments, TypeControl, FlushSteps, disk, mem, lsm,
     chans, mutex, writer, compact, history, bounds
<1>RotateSave. CASE RotateSave
  BY <1>1, <1>RotateSave DEF RotateSave, Fault, ManifestFails, TypeSegments, TypeControl,
     FlushSteps, disk, mem, lsm, chans, mutex, writer, compact, history, bounds
<1>WALAppend. CASE WALAppend
  BY <1>1, <1>WALAppend DEF WALAppend, TypeSegments, TypeControl, FlushSteps, disk, mem, lsm,
     chans, mutex, writer, compact, history, bounds
<1>WALAppendFails. CASE WALAppendFails
  BY <1>1, <1>WALAppendFails DEF WALAppendFails, Fault, TypeSegments, TypeControl, FlushSteps,
     disk, mem, lsm, chans, mutex, writer, compact, history, bounds
<1>WriteApply. CASE WriteApply
  BY <1>1, <1>WriteApply DEF WriteApply, TypeSegments, TypeControl, FlushSteps, disk, mem, lsm,
     chans, mutex, writer, compact, history, bounds
<1>FlushWake. CASE FlushWake
  BY <1>1, <1>FlushWake DEF FlushWake, TypeSegments, TypeControl, FlushSteps, disk, mem, lsm,
     chans, mutex, writer, compact, history, bounds
<1>FlushWrite. CASE FlushWrite
  BY <1>1, <1>FlushWrite DEF FlushWrite, Fault, TypeSegments, TypeControl, FlushSteps, disk, mem,
     lsm, chans, mutex, writer, compact, history, bounds
<1>FlushRegister. CASE FlushRegister
  BY <1>1, <1>FlushRegister DEF FlushRegister, TypeSegments, TypeControl, FlushSteps, disk, mem,
     lsm, chans, mutex, writer, compact, history, bounds
<1>FlushSave. CASE FlushSave
  BY <1>1, <1>FlushSave DEF FlushSave, Fault, ManifestFails, TypeSegments, TypeControl,
     FlushSteps, disk, mem, lsm, chans, mutex, writer, compact, history, bounds
<1>FlushCleanup. CASE FlushCleanup
  BY <1>1, <1>FlushCleanup DEF FlushCleanup, Fault, TypeSegments, TypeControl, FlushSteps, disk,
     mem, lsm, chans, mutex, writer, compact, history, bounds
<1>CompactWake. CASE CompactWake
  BY <1>1, <1>CompactWake DEF CompactWake, TypeSegments, TypeControl, FlushSteps, disk, mem, lsm,
     chans, mutex, writer, compact, history, bounds
<1>CompactMerge. CASE CompactMerge
  BY <1>1, <1>CompactMerge DEF CompactMerge, Fault, TypeSegments, TypeControl, FlushSteps, disk,
     mem, lsm, chans, mutex, writer, compact, history, bounds
<1>CompactBuild. CASE CompactBuild
  <2>1. cseg + Len(couts) \in Nat /\ nextSeg \in Nat
    BY <1>1 DEF TypeSegments
  <2>2. nextSeg' >= nextSeg
    BY <2>1, <1>CompactBuild, MaxOfTwo DEF CompactBuild, NextAfterMerge
  <2> QED BY <2>2, <1>CompactBuild DEF CompactBuild, lsm
<1>CompactSave. CASE CompactSave
  BY <1>1, <1>CompactSave DEF CompactSave, Fault, ManifestFails, TypeSegments, TypeControl,
     FlushSteps, disk, mem, lsm, chans, mutex, writer, compact, history, bounds
<1>CompactCommit. CASE CompactCommit
  BY <1>1, <1>CompactCommit DEF CompactCommit, TypeSegments, TypeControl, FlushSteps, disk, mem,
     lsm, chans, mutex, writer, compact, history, bounds
<1>CloseStart. CASE CloseStart
  BY <1>1, <1>CloseStart DEF CloseStart, TypeSegments, TypeControl, FlushSteps, disk, mem, lsm,
     chans, mutex, writer, compact, history, bounds
<1>CloseDrain. CASE CloseDrain
  BY <1>1, <1>CloseDrain DEF CloseDrain, TypeSegments, TypeControl, FlushSteps, disk, mem, lsm,
     chans, mutex, writer, compact, history, bounds
<1>CloseQueue. CASE CloseQueue
  BY <1>1, <1>CloseQueue DEF CloseQueue, Fault, TypeSegments, TypeControl, FlushSteps, disk, mem,
     lsm, chans, mutex, writer, compact, history, bounds
<1>CloseSignal. CASE CloseSignal
  BY <1>1, <1>CloseSignal DEF CloseSignal, TypeSegments, TypeControl, FlushSteps, disk, mem, lsm,
     chans, mutex, writer, compact, history, bounds
<1>CloseFinish. CASE CloseFinish
  BY <1>1, <1>CloseFinish DEF CloseFinish, TypeSegments, TypeControl, FlushSteps, disk, mem, lsm,
     chans, mutex, writer, compact, history, bounds
<1>stutter. CASE UNCHANGED vars
  BY <1>1, <1>stutter DEF TypeSegments, TypeControl, FlushSteps, vars, disk, mem, lsm, chans,
     mutex, writer, compact, history, bounds
<1> QED
  BY Phases, <1>WriteBatch, <1>WriteRefused, <1>WriteFreeze, <1>SnapshotFreeze, <1>RotateWAL,
     <1>RotateBuild, <1>RotateSave, <1>WALAppend, <1>WALAppendFails, <1>WriteApply, <1>FlushWake,
     <1>FlushWrite, <1>FlushRegister, <1>FlushSave, <1>FlushCleanup, <1>CompactWake,
     <1>CompactMerge, <1>CompactBuild, <1>CompactSave, <1>CompactCommit, <1>CloseStart,
     <1>CloseDrain, <1>CloseQueue, <1>CloseSignal, <1>CloseFinish, <1>stutter
     DEF Foreground, Flush, Compaction, Closing, Running, Volatile

\* Level 0 stays in order, behind memory.
LEMMA LevelZeroStep == Inv /\ [Next]_vars => LevelZero'
<1> SUFFICES ASSUME Inv, [Next]_vars PROVE LevelZero'
  OBVIOUS
<1>1. TypeControl /\ TypeSegments /\ TypeData /\ Control /\ Active /\ LevelZero /\ Pending /\ Disk
  BY DEF Inv, TypeInv
<1>2. TypeSegments' /\ Control'
  BY TypeSegmentsStep, ControlStep
<1>3. l0 \in Seq(Nat) /\ l0' \in Seq(Nat) /\ nextSeg \in Nat /\ nextSeg' \in Nat
  BY <1>1, <1>2 DEF TypeSegments
<1>4. \A i \in 1..Len(l0) : l0[i] \in Nat
  BY <1>3
<1>5. CASE Running /\ Running'
  <2>1. rpc' = "none"
    BY <1>2, <1>5 DEF Control, Running
  <2>2. nextSeg' >= nextSeg
    BY <1>5, LevelSteps
  <2>3. \A i \in 1..Len(l0) : OlderThanMemory(l0[i])
    BY <1>1, <1>5 DEF LevelZero
  <2>4. \A s \in Nat : OlderThanMemory(s) => OlderThanMemory(s)'
    BY <1>5, OlderStep
  <2>5. Descending(l0) /\ \A i \in 1..Len(l0) : l0[i] < nextSeg'
    <3>1. Descending(l0) /\ Below(l0, nextSeg)
      BY <1>1 DEF LevelZero
    <3> QED BY <1>3, <1>4, <2>2, <3>1 DEF Below
  <2>6. /\ Descending(l0') /\ Below(l0', nextSeg')
        /\ (\A i \in 1..Len(l0) : OlderThanMemory(l0[i]))'
    <3>1. CASE UNCHANGED l0
      <4>1. \A i \in 1..Len(l0') : \A s : s = l0'[i] => s \in Nat /\ OlderThanMemory(s)
        BY <1>4, <2>3, <3>1
      <4>2. (\A i \in 1..Len(l0) : OlderThanMemory(l0[i]))'
        BY <2>4, <4>1, SMTT(20) DEF OlderThanMemory
      <4> QED BY <2>5, <3>1, <4>2 DEF Below, Descending
    <3>2. CASE FlushRegister
      <4> PICK h : h = Head(imm).seg
        OBVIOUS
      <4>1. imm # <<>> /\ OlderThanMemory(h)' /\ h \in Nat /\ h = imm[1].seg /\ 1 \in 1..Len(imm)
        BY <3>2, HeadOlder
      <4>2. l0' = <<h>> \o l0 /\ UNCHANGED nextSeg /\ UNCHANGED activeSeg
        BY <3>2 DEF FlushRegister, WithFlushed
      <4>3. Below(l0, h)
        BY <2>3, <4>1 DEF Below, OlderThanMemory
      <4>4. h < nextSeg'
        <5>1. activeSeg < nextSeg /\ activeSeg \in Nat
          BY <1>1, <1>5 DEF Active, TypeSegments
        <5>2. h < activeSeg \/ h = activeSeg
          BY <4>1, <4>2 DEF OlderThanMemory
        <5> QED BY <1>3, <4>1, <4>2, <5>1, <5>2
      <4>5. Below(l0, nextSeg')
        BY <2>5 DEF Below
      <4>7. \A i \in 1..Len(l0') : l0'[i] = h \/ \E j \in 1..Len(l0) : l0'[i] = l0[j]
        BY <1>3, <4>1, <4>2, PrependedElements
      <4>10. /\ Descending(l0) /\ Below(l0, h) => Descending(l0')
             /\ \A n \in Nat : Below(l0, n) /\ h < n => Below(l0', n)
        BY <1>3, <4>1, <4>2, Prepended
      <4>6. Descending(l0') /\ Below(l0', nextSeg')
        BY <1>3, <2>5, <4>3, <4>4, <4>5, <4>10
      <4>8. \A i \in 1..Len(l0') : \A s : s = l0'[i] => OlderThanMemory(s)'
        <5> TAKE i \in 1..Len(l0')
        <5> TAKE s
        <5> HAVE s = l0'[i]
        <5>1. s = h \/ (s \in Nat /\ OlderThanMemory(s))
          BY <1>4, <2>3, <4>7
        <5>2. OlderThanMemory(s)'
          BY <2>4, <4>1, <5>1
        <5> QED BY <5>2
      <4>9. (\A i \in 1..Len(l0) : OlderThanMemory(l0[i]))'
        BY <4>8 DEF OlderThanMemory
      <4> QED BY <4>6, <4>9
    <3>3. CASE CompactCommit
      <4>1. l0' = pending.l0 /\ UNCHANGED nextSeg /\ Orderly(pending) /\ Range(pending.l0) \subseteq Range(l0)
        BY <1>1, <3>3 DEF CompactCommit, Control, Pending
      <4>2. \A i \in 1..Len(l0') : \E j \in 1..Len(l0) : l0'[i] = l0[j]
        BY <1>3, <4>1, Among
      <4>3. Below(l0', nextSeg')
        BY <2>5, <4>2 DEF Below
      <4>4. Descending(l0')
        BY <4>1 DEF Orderly
      <4>5. \A i \in 1..Len(l0') : \A s : s = l0'[i] => OlderThanMemory(s)'
        <5> TAKE i \in 1..Len(l0')
        <5> TAKE s
        <5> HAVE s = l0'[i]
        <5>1. s \in Nat /\ OlderThanMemory(s)
          BY <1>4, <2>3, <4>2
        <5>2. OlderThanMemory(s)'
          BY <2>4, <5>1
        <5> QED BY <5>2
      <4>6. (\A i \in 1..Len(l0) : OlderThanMemory(l0[i]))'
        BY <4>5 DEF OlderThanMemory
      <4> QED BY <4>3, <4>4, <4>6
    <3> QED BY <1>5, <3>1, <3>2, <3>3, LevelSteps
  <2>7. fpc' \in {"save", "cleanup"} => OlderThanMemory(flushedSeg)'
    <3> SUFFICES ASSUME fpc' \in {"save", "cleanup"} PROVE OlderThanMemory(flushedSeg)'
      OBVIOUS
    <3> PICK s : s = flushedSeg'
      OBVIOUS
    <3>1. CASE FlushRegister
      <4>1. s = Head(imm).seg
        BY <3>1 DEF FlushRegister
      <4> QED BY <3>1, <4>1, HeadOlder
    <3>2. CASE fpc \in {"save", "cleanup"} /\ UNCHANGED flushedSeg
      <4>1. s \in Nat /\ s = flushedSeg /\ OlderThanMemory(flushedSeg)
        BY <1>1, <3>2 DEF LevelZero, TypeSegments
      <4>2. OlderThanMemory(s)'
        BY <2>4, <4>1
      <4> QED BY <4>2
    <3> QED BY <1>5, <3>1, <3>2, LevelSteps
  <2> QED BY <2>1, <2>6, <2>7 DEF LevelZero
<1>6. CASE status = "recovering" /\ status' = "open" /\ (RecoverCreate \/ RecoverResume)
  <2>1. /\ rpc' = "none" /\ rpc \in {"create", "resume"} /\ fpc' = "idle" /\ imm' = <<>>
        /\ UNCHANGED <<l0, activeSeg, nextSeg, flushedSeg>>
    BY <1>1, <1>6 DEF RecoverCreate, RecoverResume, OpenFails, Control, mem, lsm
  <2>2. Below(l0, activeSeg) /\ Below(l0, nextSeg) /\ Descending(l0)
    BY <1>1, <2>1 DEF LevelZero
  <2>3. (\A i \in 1..Len(l0) : OlderThanMemory(l0[i]))'
    BY <2>1, <2>2 DEF OlderThanMemory, Below
  <2> QED BY <2>1, <2>2, <2>3 DEF LevelZero, Below, Descending
<1>7. CASE status' \in {"down", "failed"} /\ Volatile'
  BY <1>7 DEF Volatile, LevelZero, Running, Below, Descending
<1>8. CASE status' = "recovering"
  <2>1. ~Running' /\ fpc' = "idle"
    BY <1>2, <1>8 DEF Running, Control
  <2> SUFFICES /\ Descending(l0') /\ Below(l0', nextSeg')
               /\ rpc' \in {"flushSave", "cleanup", "create", "resume"} => Below(l0', activeSeg')
    BY <2>1 DEF LevelZero
  <2>2. activeSeg \in Nat /\ Descending(l0) /\ Below(l0, nextSeg)
    BY <1>1 DEF LevelZero, TypeSegments
  <2>3. CASE Open
    <3>1. /\ l0' = manifest.l0 /\ nextSeg' = manifest.next /\ activeSeg' = HighestWAL
          /\ rpc' \in {"flush", "newseg", "create"} /\ (rpc' = "create" => ~(HighestWAL <= manifest.flushed))
      BY <1>8, <2>3 DEF Open
    <3>2. Orderly(manifest) /\ Restartable /\ \A s \in DOMAIN walFiles : s > 0
      BY <1>1, <2>3 DEF Disk, Open, Running
    <3>3. /\ HighestWAL \in Nat /\ (HighestWAL = 1 \/ HighestWAL \in DOMAIN walFiles)
          /\ \A s \in DOMAIN walFiles : s \in Nat /\ s <= HighestWAL
      BY <1>1, HighestWALIsHighest DEF TypeData, IsFiles
    <3>4. rpc' = "create" => Below(l0', HighestWAL)
      <4> SUFFICES ASSUME rpc' = "create" PROVE Below(l0', HighestWAL)
        OBVIOUS
      <4>1. ~(HighestWAL <= manifest.flushed) /\ manifest.flushed \in Nat
        BY <1>1, <3>1 DEF TypeSegments, Manifests
      <4>2. CASE l0' = <<>>
        BY <4>2 DEF Below
      <4>3. CASE \E s \in DOMAIN walFiles : Below(l0', s)
        BY <1>3, <3>3, <4>3 DEF Below
      <4>4. CASE manifest.flushed > 0 /\ \A s \in DOMAIN walFiles : s <= manifest.flushed
        BY <3>3, <4>1, <4>4
      <4> QED BY <3>1, <3>2, <4>2, <4>3, <4>4 DEF Restartable
    <3> QED BY <3>1, <3>2, <3>4 DEF Orderly
  <2>4. CASE RecoverFlush
    <3>1. l0' = <<nextSeg>> \o l0 /\ nextSeg' = nextSeg + 2 /\ activeSeg' = nextSeg + 1
      BY <1>8, <2>4 DEF RecoverFlush, OpenFails
    <3>2. Below(l0, nextSeg') /\ Below(l0, activeSeg')
      BY <1>3, <1>4, <2>2, <3>1 DEF Below
    <3>3. nextSeg < nextSeg' /\ nextSeg < activeSeg' /\ activeSeg' \in Nat
      BY <1>3, <3>1
    <3>4. /\ Descending(l0) /\ Below(l0, nextSeg) => Descending(l0')
          /\ \A n \in Nat : Below(l0, n) /\ nextSeg < n => Below(l0', n)
      BY <1>3, <3>1, Prepended
    <3> QED BY <1>3, <2>2, <3>2, <3>3, <3>4
  <2>5. CASE RecoverFlushSave \/ RecoverCleanup
    <3>1. UNCHANGED <<l0, nextSeg, activeSeg>> /\ rpc \in {"flushSave", "cleanup"}
      BY <1>8, <2>5 DEF RecoverFlushSave, RecoverCleanup, OpenFails, lsm, mem
    <3>2. Below(l0, activeSeg)
      BY <1>1, <3>1 DEF LevelZero
    <3> QED BY <2>2, <3>1, <3>2
  <2>6. CASE RecoverNewSegment
    <3>1. UNCHANGED l0 /\ activeSeg' = nextSeg /\ nextSeg' = nextSeg + 1
      BY <1>8, <2>6 DEF RecoverNewSegment, OpenFails, lsm
    <3> QED BY <1>3, <1>4, <2>2, <3>1 DEF Below
  <2>7. CASE RecoverCreate
    <3>1. UNCHANGED <<l0, activeSeg>> /\ rpc = "create" /\ nextSeg' = activeSeg + 1
      BY <1>8, <2>7 DEF RecoverCreate, OpenFails, lsm
    <3>2. Below(l0, activeSeg)
      BY <1>1, <3>1 DEF LevelZero
    <3> QED BY <1>3, <1>4, <2>2, <3>1, <3>2 DEF Below
  <2>8. CASE UNCHANGED vars
    BY <1>1, <2>8 DEF LevelZero, vars, lsm, mem
  <2> QED BY <1>8, <2>3, <2>4, <2>5, <2>6, <2>7, <2>8, Phases DEF Running
<1>9. CASE UNCHANGED vars
  BY <1>1, <1>9 DEF LevelZero, OlderThanMemory, Drained, Running, vars, lsm, mem, writer
<1> QED BY <1>5, <1>6, <1>7, <1>8, <1>9, Phases

\* A built manifest stays true while manifestMu is held.
LEMMA PendingStep == Inv /\ [Next]_vars => Pending'
<1> SUFFICES ASSUME Inv, [Next]_vars PROVE Pending'
  OBVIOUS
<1>1. TypeControl /\ TypeSegments /\ Control /\ LevelZero /\ Pending
  BY DEF Inv, TypeInv
<1>2. ASSUME manifestMu' = "free" PROVE Pending'
  BY <1>2, ControlStep DEF Pending, Control
<1>3. Running' => nextSeg' > 0
  BY ActiveStep, TypeSegmentsStep DEF Active, TypeSegments
<1>4. CASE ~Running'
  <2>1. manifestMu' = "free"
    BY <1>4, ControlStep, TypeControlStep DEF Control, Running, TypeControl, Volatile
  <2> QED BY <1>2, <2>1
<1> SUFFICES ASSUME Running' PROVE Pending'
  BY <1>4
<1>5. CASE ~Running
  <2>1. status = "recovering" /\ (RecoverCreate \/ RecoverResume) /\ status' = "open"
    BY <1>5, Phases DEF Running, vars
  <2>2. UNCHANGED manifestMu
    BY <2>1 DEF RecoverCreate, RecoverResume, OpenFails, mutex
  <2>3. manifestMu' = "free"
    BY <1>1, <2>1, <2>2 DEF Control
  <2> QED BY <1>2, <2>3
<1>WriteBatch. CASE WriteBatch
  BY <1>1, <1>WriteBatch DEF WriteBatch, Pending, Control, TypeControl, disk, mem, lsm, chans,
     mutex, writer, compact, history, bounds
<1>WriteRefused. CASE WriteRefused
  BY <1>1, <1>WriteRefused DEF WriteRefused, Pending, Control, TypeControl, disk, mem, lsm,
     chans, mutex, writer, compact, history, bounds
<1>WriteFreeze. CASE WriteFreeze
  BY <1>1, <1>WriteFreeze DEF WriteFreeze, FreezeActiveMemTable, Pending, Control, TypeControl,
     disk, mem, lsm, chans, mutex, writer, compact, history, bounds
<1>SnapshotFreeze. CASE SnapshotFreeze
  BY <1>1, <1>SnapshotFreeze DEF SnapshotFreeze, FreezeActiveMemTable, Pending, Control,
     TypeControl, disk, mem, lsm, chans, mutex, writer, compact, history, bounds
<1>RotateWAL. CASE RotateWAL
  BY <1>1, <1>RotateWAL DEF RotateWAL, Fault, Pending, Control, TypeControl, disk, mem, lsm,
     chans, mutex, writer, compact, history, bounds
<1>RotateBuild. CASE RotateBuild
  <2>1. /\ manifestMu' = "writer" /\ pending'.l0 = l0 /\ pending'.l1 = l1 /\ pending'.next = nextSeg
        /\ UNCHANGED <<l0, l1, nextSeg, cpc>> /\ cpc \notin {"save", "commit"}
    BY <1>1, <1>RotateBuild DEF RotateBuild, RotationManifest, Control, lsm, compact
  <2>2. nextSeg > 0
    BY <1>3, <2>1
  <2>3. Orderly(pending)'
    BY <1>1, <2>1, <2>2 DEF Orderly, LevelZero, Below
  <2> QED BY <2>1, <2>3 DEF Pending
<1>RotateSave. CASE RotateSave
  BY <1>2, <1>RotateSave DEF RotateSave
<1>WALAppend. CASE WALAppend
  BY <1>1, <1>WALAppend DEF WALAppend, Pending, Control, TypeControl, disk, mem, lsm, chans,
     mutex, writer, compact, history, bounds
<1>WALAppendFails. CASE WALAppendFails
  BY <1>1, <1>WALAppendFails DEF WALAppendFails, Fault, Pending, Control, TypeControl, disk, mem,
     lsm, chans, mutex, writer, compact, history, bounds
<1>WriteApply. CASE WriteApply
  BY <1>1, <1>WriteApply DEF WriteApply, Pending, Control, TypeControl, disk, mem, lsm, chans,
     mutex, writer, compact, history, bounds
<1>FlushWake. CASE FlushWake
  BY <1>1, <1>FlushWake DEF FlushWake, Pending, Control, TypeControl, disk, mem, lsm, chans,
     mutex, writer, compact, history, bounds
<1>FlushWrite. CASE FlushWrite
  BY <1>1, <1>FlushWrite DEF FlushWrite, Fault, Pending, Control, TypeControl, disk, mem, lsm,
     chans, mutex, writer, compact, history, bounds
<1>FlushRegister. CASE FlushRegister
  <2>1. /\ manifestMu' = "flush" /\ pending'.l0 = l0' /\ pending'.l1 = l1 /\ pending'.next = nextSeg
        /\ pending'.flushed = flushedSeg'
        /\ UNCHANGED <<l1, nextSeg, cpc>> /\ cpc \notin {"save", "commit"}
    BY <1>1, <1>FlushRegister DEF FlushRegister, Control, lsm, compact
  <2>2. Descending(l0') /\ Below(l0', nextSeg')
    BY LevelZeroStep DEF LevelZero
  <2>3. Orderly(pending)'
    BY <1>1, <1>3, <2>1, <2>2 DEF Orderly, Below
  <2> QED BY <2>1, <2>3 DEF Pending
<1>FlushSave. CASE FlushSave
  BY <1>2, <1>FlushSave DEF FlushSave
<1>FlushCleanup. CASE FlushCleanup
  BY <1>1, <1>FlushCleanup DEF FlushCleanup, Fault, Pending, Control, TypeControl, disk, mem,
     lsm, chans, mutex, writer, compact, history, bounds
<1>CompactWake. CASE CompactWake
  BY <1>1, <1>CompactWake DEF CompactWake, Pending, Control, TypeControl, disk, mem, lsm, chans,
     mutex, writer, compact, history, bounds
<1>CompactMerge. CASE CompactMerge
  BY <1>1, <1>CompactMerge DEF CompactMerge, Fault, Pending, Control, TypeControl, disk, mem,
     lsm, chans, mutex, writer, compact, history, bounds
<1>CompactBuild. CASE CompactBuild
  <2>1. /\ manifestMu' = "compaction" /\ pending'.l0 = RemainingLevelZero /\ pending'.l1 = couts
        /\ pending'.next = nextSeg' /\ pending'.flushed = flushedSeg /\ cpc' = "save"
        /\ UNCHANGED <<l0, l1, flushedSeg, couts, cinputs>>
    BY <1>CompactBuild DEF CompactBuild, lsm
  <2>2. /\ RemainingLevelZero \in Seq(Nat) /\ Range(RemainingLevelZero) \subseteq Range(l0)
        /\ Range(RemainingLevelZero) \cap Range(cinputs) = {} /\ Descending(RemainingLevelZero)
    BY <1>1, RemainingKeepsOrder DEF TypeSegments, LevelZero
  <2>3. Below(l0, nextSeg') /\ nextSeg' > 0
    BY <1>3, <2>1, LevelZeroStep DEF LevelZero, Below
  <2>4. Below(RemainingLevelZero, nextSeg')
    <3>1. \A i \in 1..Len(RemainingLevelZero) : \E j \in 1..Len(l0) : RemainingLevelZero[i] = l0[j]
      BY <1>1, <2>2, Among DEF TypeSegments
    <3> QED BY <2>3, <3>1 DEF Below
  <2>5. Orderly(pending)'
    BY <2>1, <2>2, <2>3, <2>4 DEF Orderly
  <2> QED BY <2>1, <2>2, <2>5 DEF Pending
<1>CompactSave. CASE CompactSave
  BY <1>1, <1>CompactSave DEF CompactSave, Fault, ManifestFails, Pending, Control, TypeControl,
     disk, mem, lsm, chans, mutex, writer, compact, history, bounds
<1>CompactCommit. CASE CompactCommit
  BY <1>2, <1>CompactCommit DEF CompactCommit
<1>CloseStart. CASE CloseStart
  BY <1>1, <1>CloseStart DEF CloseStart, Pending, Control, TypeControl, disk, mem, lsm, chans,
     mutex, writer, compact, history, bounds
<1>CloseDrain. CASE CloseDrain
  BY <1>1, <1>CloseDrain DEF CloseDrain, Pending, Control, TypeControl, disk, mem, lsm, chans,
     mutex, writer, compact, history, bounds
<1>CloseQueue. CASE CloseQueue
  BY <1>1, <1>CloseQueue DEF CloseQueue, Fault, Pending, Control, TypeControl, disk, mem, lsm,
     chans, mutex, writer, compact, history, bounds
<1>CloseSignal. CASE CloseSignal
  BY <1>1, <1>CloseSignal DEF CloseSignal, Pending, Control, TypeControl, disk, mem, lsm, chans,
     mutex, writer, compact, history, bounds
<1>CloseFinish. CASE CloseFinish
  BY <1>1, <1>CloseFinish DEF CloseFinish, Pending, Control, TypeControl, disk, mem, lsm, chans,
     mutex, writer, compact, history, bounds
<1>stutter. CASE UNCHANGED vars
  BY <1>1, <1>stutter DEF Pending, Control, TypeControl, vars, disk, mem, lsm, chans, mutex,
     writer, compact, history, bounds
<1> QED
  BY Phases, <1>5, <1>WriteBatch, <1>WriteRefused, <1>WriteFreeze, <1>SnapshotFreeze, <1>RotateWAL,
     <1>RotateBuild, <1>RotateSave, <1>WALAppend, <1>WALAppendFails, <1>WriteApply, <1>FlushWake,
     <1>FlushWrite, <1>FlushRegister, <1>FlushSave, <1>FlushCleanup, <1>CompactWake,
     <1>CompactMerge, <1>CompactBuild, <1>CompactSave, <1>CompactCommit, <1>CloseStart,
     <1>CloseDrain, <1>CloseQueue, <1>CloseSignal, <1>CloseFinish, <1>stutter
     DEF Foreground, Flush, Compaction, Closing, Running, Volatile

\* While the engine runs, only the manifest that was built is written.
LEMMA ManifestSteps == 
  ASSUME Inv, [Next]_vars, Running, Running'
  PROVE  UNCHANGED manifest \/ (manifestMu # "free" /\ manifest' = pending /\ (RotateSave \/ FlushSave \/ CompactSave))
<1>1. TypeControl /\ TypeSegments /\ TypeData /\ Control /\ Pending /\ ActiveWAL /\ LevelZero
  BY DEF Inv, TypeInv
<1>WriteBatch. CASE WriteBatch
  BY <1>1, <1>WriteBatch DEF WriteBatch, Control, TypeControl, disk, mem, lsm, chans, mutex,
     writer, compact, history, bounds
<1>WriteRefused. CASE WriteRefused
  BY <1>1, <1>WriteRefused DEF WriteRefused, Control, TypeControl, disk, mem, lsm, chans, mutex,
     writer, compact, history, bounds
<1>WriteFreeze. CASE WriteFreeze
  BY <1>1, <1>WriteFreeze DEF WriteFreeze, FreezeActiveMemTable, Control, TypeControl, disk, mem,
     lsm, chans, mutex, writer, compact, history, bounds
<1>SnapshotFreeze. CASE SnapshotFreeze
  BY <1>1, <1>SnapshotFreeze DEF SnapshotFreeze, FreezeActiveMemTable, Control, TypeControl,
     disk, mem, lsm, chans, mutex, writer, compact, history, bounds
<1>RotateWAL. CASE RotateWAL
  BY <1>1, <1>RotateWAL DEF RotateWAL, Fault, Control, TypeControl, disk, mem, lsm, chans, mutex,
     writer, compact, history, bounds
<1>RotateBuild. CASE RotateBuild
  BY <1>1, <1>RotateBuild DEF RotateBuild, Control, TypeControl, disk, mem, lsm, chans, mutex,
     writer, compact, history, bounds
<1>RotateSave. CASE RotateSave
  BY <1>1, <1>RotateSave DEF RotateSave, Fault, ManifestFails, Control, TypeControl, disk, mem,
     lsm, chans, mutex, writer, compact, history, bounds
<1>WALAppend. CASE WALAppend
  BY <1>1, <1>WALAppend DEF WALAppend, Control, TypeControl, disk, mem, lsm, chans, mutex,
     writer, compact, history, bounds
<1>WALAppendFails. CASE WALAppendFails
  BY <1>1, <1>WALAppendFails DEF WALAppendFails, Fault, Control, TypeControl, disk, mem, lsm,
     chans, mutex, writer, compact, history, bounds
<1>WriteApply. CASE WriteApply
  BY <1>1, <1>WriteApply DEF WriteApply, Control, TypeControl, disk, mem, lsm, chans, mutex,
     writer, compact, history, bounds
<1>FlushWake. CASE FlushWake
  BY <1>1, <1>FlushWake DEF FlushWake, Control, TypeControl, disk, mem, lsm, chans, mutex,
     writer, compact, history, bounds
<1>FlushWrite. CASE FlushWrite
  BY <1>1, <1>FlushWrite DEF FlushWrite, Fault, Control, TypeControl, disk, mem, lsm, chans,
     mutex, writer, compact, history, bounds
<1>FlushRegister. CASE FlushRegister
  BY <1>1, <1>FlushRegister DEF FlushRegister, Control, TypeControl, disk, mem, lsm, chans,
     mutex, writer, compact, history, bounds
<1>FlushSave. CASE FlushSave
  BY <1>1, <1>FlushSave DEF FlushSave, Fault, ManifestFails, Control, TypeControl, disk, mem,
     lsm, chans, mutex, writer, compact, history, bounds
<1>FlushCleanup. CASE FlushCleanup
  BY <1>1, <1>FlushCleanup DEF FlushCleanup, Fault, Control, TypeControl, disk, mem, lsm, chans,
     mutex, writer, compact, history, bounds
<1>CompactWake. CASE CompactWake
  BY <1>1, <1>CompactWake DEF CompactWake, Control, TypeControl, disk, mem, lsm, chans, mutex,
     writer, compact, history, bounds
<1>CompactMerge. CASE CompactMerge
  BY <1>1, <1>CompactMerge DEF CompactMerge, Fault, Control, TypeControl, disk, mem, lsm, chans,
     mutex, writer, compact, history, bounds
<1>CompactBuild. CASE CompactBuild
  BY <1>1, <1>CompactBuild DEF CompactBuild, Control, TypeControl, disk, mem, lsm, chans, mutex,
     writer, compact, history, bounds
<1>CompactSave. CASE CompactSave
  BY <1>1, <1>CompactSave DEF CompactSave, Fault, ManifestFails, Control, TypeControl, disk, mem,
     lsm, chans, mutex, writer, compact, history, bounds
<1>CompactCommit. CASE CompactCommit
  BY <1>1, <1>CompactCommit DEF CompactCommit, Control, TypeControl, disk, mem, lsm, chans,
     mutex, writer, compact, history, bounds
<1>CloseStart. CASE CloseStart
  BY <1>1, <1>CloseStart DEF CloseStart, Control, TypeControl, disk, mem, lsm, chans, mutex,
     writer, compact, history, bounds
<1>CloseDrain. CASE CloseDrain
  BY <1>1, <1>CloseDrain DEF CloseDrain, Control, TypeControl, disk, mem, lsm, chans, mutex,
     writer, compact, history, bounds
<1>CloseQueue. CASE CloseQueue
  BY <1>1, <1>CloseQueue DEF CloseQueue, Fault, Control, TypeControl, disk, mem, lsm, chans,
     mutex, writer, compact, history, bounds
<1>CloseSignal. CASE CloseSignal
  BY <1>1, <1>CloseSignal DEF CloseSignal, Control, TypeControl, disk, mem, lsm, chans, mutex,
     writer, compact, history, bounds
<1>CloseFinish. CASE CloseFinish
  BY <1>1, <1>CloseFinish DEF CloseFinish, Control, TypeControl, disk, mem, lsm, chans, mutex,
     writer, compact, history, bounds
<1>stutter. CASE UNCHANGED vars
  BY <1>1, <1>stutter DEF Control, TypeControl, vars, disk, mem, lsm, chans, mutex, writer,
     compact, history, bounds
<1> QED
  BY Phases, <1>WriteBatch, <1>WriteRefused, <1>WriteFreeze, <1>SnapshotFreeze, <1>RotateWAL,
     <1>RotateBuild, <1>RotateSave, <1>WALAppend, <1>WALAppendFails, <1>WriteApply, <1>FlushWake,
     <1>FlushWrite, <1>FlushRegister, <1>FlushSave, <1>FlushCleanup, <1>CompactWake,
     <1>CompactMerge, <1>CompactBuild, <1>CompactSave, <1>CompactCommit, <1>CloseStart,
     <1>CloseDrain, <1>CloseQueue, <1>CloseSignal, <1>CloseFinish, <1>stutter
     DEF Foreground, Flush, Compaction, Closing, Running, Volatile

\* Which actions change the log, memory and what a read may answer.
LEMMA DataSteps ==
  ASSUME Inv, [Next]_vars, Running, Running'
  PROVE  /\ UNCHANGED walFiles \/ RotateWAL \/ WALAppend \/ WALAppendFails \/ FlushCleanup
         /\ \/ UNCHANGED <<memtable, imm, activeSeg, flushedSeg>>
            \/ WriteFreeze \/ SnapshotFreeze \/ CloseQueue \/ FlushRegister \/ WriteApply
         /\ UNCHANGED allowed \/ WALAppend \/ WALAppendFails \/ WriteApply
<1>1. TypeControl /\ Control
  BY DEF Inv, TypeInv
<1>2. CASE Foreground
  BY <1>1, <1>2 DEF Foreground, WriteBatch, WriteRefused, WriteFreeze, SnapshotFreeze,
     FreezeActiveMemTable, RotateWAL, RotateBuild, RotateSave, ManifestFails, WALAppend,
     WALAppendFails, WriteApply, disk, mem, lsm, history
<1>3. CASE Flush
  BY <1>1, <1>3 DEF Flush, FlushWake, FlushWrite, FlushRegister, FlushSave, ManifestFails,
     FlushCleanup, disk, mem, lsm, history
<1>4. CASE Compaction
  BY <1>1, <1>4 DEF Compaction, CompactWake, CompactMerge, CompactBuild, CompactSave, ManifestFails,
     CompactCommit, disk, mem, lsm, history
<1>5. CASE Closing
  BY <1>1, <1>5 DEF Closing, CloseStart, CloseDrain, CloseQueue, CloseSignal, CloseFinish, disk,
     mem, lsm, history
<1>6. CASE UNCHANGED vars
  BY <1>6 DEF vars, disk, mem, lsm, history
<1> QED BY Phases, <1>2, <1>3, <1>4, <1>5, <1>6 DEF Running

\* The log only gains segments that are not older than the active one, and
\* loses only the one just flushed.
LEMMA LogSteps ==
  ASSUME Inv, [Next]_vars, Running, Running'
  PROVE  /\ \A s \in DOMAIN walFiles' : s \in DOMAIN walFiles \/ (s \in Nat /\ s >= activeSeg)
         /\ \/ DOMAIN walFiles \subseteq DOMAIN walFiles'
            \/ FlushCleanup /\ DOMAIN walFiles' = DOMAIN walFiles \ {flushedSeg}
<1>1. activeSeg \in Nat
  BY DEF Inv, TypeInv, TypeSegments
<1>2. CASE RotateWAL
  <2>1. UNCHANGED walFiles \/ DOMAIN walFiles' = DOMAIN walFiles \cup {activeSeg}
    BY <1>2, SetFile DEF RotateWAL
  <2> QED BY <1>1, <2>1
<1>3. CASE WALAppend \/ WALAppendFails
  <2>1. PICK records \in Tables : Log(records)
    BY <1>3, Appends
  <2>2. PICK r \in Nat : walFiles' = Set(walFiles, activeSeg + r, Overlay(records, Logged(activeSeg + r)))
    BY <2>1, LogWrites
  <2>3. DOMAIN walFiles' = DOMAIN walFiles \cup {activeSeg + r}
    BY <2>2, SetFile
  <2> QED BY <1>1, <2>3
<1>4. CASE FlushCleanup
  <2>1. UNCHANGED walFiles \/ DOMAIN walFiles' = DOMAIN walFiles \ {flushedSeg}
    BY <1>4, WithoutFiles DEF FlushCleanup
  <2> QED BY <1>4, <2>1
<1> QED BY <1>2, <1>3, <1>4, DataSteps

\* Steps that leave the queue empty as it was.
LEMMA QuietSteps == 
  ASSUME Inv, [Next]_vars, Running, Running'
  PROVE  \/ FlushRegister
         \/ FlushCleanup
         \/ imm' # <<>>
         \/ /\ UNCHANGED <<imm, activeSeg, flushedSeg>> /\ Range(l0') \subseteq Range(l0)
            /\ fpc' = "cleanup" => fpc = "cleanup" \/ (FlushSave /\ manifest' = pending)
<1>1. TypeControl /\ TypeSegments /\ TypeData /\ Control /\ Pending
  BY DEF Inv, TypeInv
<1>WriteBatch. CASE WriteBatch
  BY <1>1, <1>WriteBatch DEF WriteBatch, TypeControl, FlushSteps, disk, mem, lsm, chans, mutex,
     writer, compact, history, bounds
<1>WriteRefused. CASE WriteRefused
  BY <1>1, <1>WriteRefused DEF WriteRefused, TypeControl, FlushSteps, disk, mem, lsm, chans,
     mutex, writer, compact, history, bounds
<1>WriteFreeze. CASE WriteFreeze
  <2>1. imm' = Append(imm, [seg |-> activeSeg, data |-> memtable])
    BY <1>WriteFreeze DEF WriteFreeze, FreezeActiveMemTable
  <2> QED BY <1>1, <2>1, QueueAppend DEF TypeData, TypeSegments
<1>SnapshotFreeze. CASE SnapshotFreeze
  <2>1. imm' = Append(imm, [seg |-> activeSeg, data |-> memtable])
    BY <1>SnapshotFreeze DEF SnapshotFreeze, FreezeActiveMemTable
  <2> QED BY <1>1, <2>1, QueueAppend DEF TypeData, TypeSegments
<1>RotateWAL. CASE RotateWAL
  BY <1>1, <1>RotateWAL DEF RotateWAL, Fault, TypeControl, FlushSteps, disk, mem, lsm, chans,
     mutex, writer, compact, history, bounds
<1>RotateBuild. CASE RotateBuild
  BY <1>1, <1>RotateBuild DEF RotateBuild, TypeControl, FlushSteps, disk, mem, lsm, chans, mutex,
     writer, compact, history, bounds
<1>RotateSave. CASE RotateSave
  BY <1>1, <1>RotateSave DEF RotateSave, Fault, ManifestFails, TypeControl, FlushSteps, disk,
     mem, lsm, chans, mutex, writer, compact, history, bounds
<1>WALAppend. CASE WALAppend
  BY <1>1, <1>WALAppend DEF WALAppend, TypeControl, FlushSteps, disk, mem, lsm, chans, mutex,
     writer, compact, history, bounds
<1>WALAppendFails. CASE WALAppendFails
  BY <1>1, <1>WALAppendFails DEF WALAppendFails, Fault, TypeControl, FlushSteps, disk, mem, lsm,
     chans, mutex, writer, compact, history, bounds
<1>WriteApply. CASE WriteApply
  BY <1>1, <1>WriteApply DEF WriteApply, TypeControl, FlushSteps, disk, mem, lsm, chans, mutex,
     writer, compact, history, bounds
<1>FlushWake. CASE FlushWake
  BY <1>1, <1>FlushWake DEF FlushWake, TypeControl, FlushSteps, disk, mem, lsm, chans, mutex,
     writer, compact, history, bounds
<1>FlushWrite. CASE FlushWrite
  BY <1>1, <1>FlushWrite DEF FlushWrite, Fault, TypeControl, FlushSteps, disk, mem, lsm, chans,
     mutex, writer, compact, history, bounds
<1>FlushRegister. CASE FlushRegister
  BY <1>FlushRegister
<1>FlushSave. CASE FlushSave
  BY <1>1, <1>FlushSave DEF FlushSave, Fault, ManifestFails, TypeControl, FlushSteps, disk, mem,
     lsm, chans, mutex, writer, compact, history, bounds
<1>FlushCleanup. CASE FlushCleanup
  BY <1>FlushCleanup
<1>CompactWake. CASE CompactWake
  BY <1>1, <1>CompactWake DEF CompactWake, TypeControl, FlushSteps, disk, mem, lsm, chans, mutex,
     writer, compact, history, bounds
<1>CompactMerge. CASE CompactMerge
  BY <1>1, <1>CompactMerge DEF CompactMerge, Fault, TypeControl, FlushSteps, disk, mem, lsm,
     chans, mutex, writer, compact, history, bounds
<1>CompactBuild. CASE CompactBuild
  BY <1>1, <1>CompactBuild DEF CompactBuild, TypeControl, FlushSteps, disk, mem, lsm, chans,
     mutex, writer, compact, history, bounds
<1>CompactSave. CASE CompactSave
  BY <1>1, <1>CompactSave DEF CompactSave, Fault, ManifestFails, TypeControl, FlushSteps, disk,
     mem, lsm, chans, mutex, writer, compact, history, bounds
<1>CompactCommit. CASE CompactCommit
  <2>1. l0' = pending.l0 /\ UNCHANGED <<imm, activeSeg, flushedSeg, fpc>>
    BY <1>CompactCommit DEF CompactCommit, mem
  <2>2. Range(pending.l0) \subseteq Range(l0)
    BY <1>1, <1>CompactCommit DEF CompactCommit, Control, Pending
  <2> QED BY <2>1, <2>2
<1>CloseStart. CASE CloseStart
  BY <1>1, <1>CloseStart DEF CloseStart, TypeControl, FlushSteps, disk, mem, lsm, chans, mutex,
     writer, compact, history, bounds
<1>CloseDrain. CASE CloseDrain
  BY <1>1, <1>CloseDrain DEF CloseDrain, TypeControl, FlushSteps, disk, mem, lsm, chans, mutex,
     writer, compact, history, bounds
<1>CloseQueue. CASE CloseQueue
  <2>1. imm' = Append(imm, [seg |-> activeSeg, data |-> memtable])
    BY <1>CloseQueue DEF CloseQueue, FreezeActiveMemTable
  <2> QED BY <1>1, <2>1, QueueAppend DEF TypeData, TypeSegments
<1>CloseSignal. CASE CloseSignal
  BY <1>1, <1>CloseSignal DEF CloseSignal, TypeControl, FlushSteps, disk, mem, lsm, chans, mutex,
     writer, compact, history, bounds
<1>CloseFinish. CASE CloseFinish
  BY <1>1, <1>CloseFinish DEF CloseFinish, TypeControl, FlushSteps, disk, mem, lsm, chans, mutex,
     writer, compact, history, bounds
<1>stutter. CASE UNCHANGED vars
  BY <1>1, <1>stutter DEF TypeControl, FlushSteps, vars, disk, mem, lsm, chans, mutex, writer,
     compact, history, bounds
<1> QED
  BY Phases, <1>WriteBatch, <1>WriteRefused, <1>WriteFreeze, <1>SnapshotFreeze, <1>RotateWAL,
     <1>RotateBuild, <1>RotateSave, <1>WALAppend, <1>WALAppendFails, <1>WriteApply, <1>FlushWake,
     <1>FlushWrite, <1>FlushRegister, <1>FlushSave, <1>FlushCleanup, <1>CompactWake,
     <1>CompactMerge, <1>CompactBuild, <1>CompactSave, <1>CompactCommit, <1>CloseStart,
     <1>CloseDrain, <1>CloseQueue, <1>CloseSignal, <1>CloseFinish, <1>stutter
     DEF Foreground, Flush, Compaction, Closing, Running, Volatile

\* When the queue is empty the last flush separates Level 0 from the WAL.
LEMMA WatermarkStep ==
  ASSUME Inv, [Next]_vars, Running, Running', AllFlushed'
  PROVE  Watermark'
<1>1. TypeControl /\ TypeSegments /\ TypeData /\ Control /\ Active /\ LevelZero /\ Pending /\ Disk /\ ActiveWAL
  BY DEF Inv, TypeInv
<1>2. TypeSegments'
  BY TypeSegmentsStep
<1>3. /\ l0 \in Seq(Nat) /\ l0' \in Seq(Nat) /\ flushedSeg \in Nat /\ flushedSeg' \in Nat /\ activeSeg \in Nat
      /\ manifest.l0 \in Seq(Nat) /\ manifest'.l0 \in Seq(Nat) /\ pending.l0 \in Seq(Nat)
  BY <1>1, <1>2 DEF TypeSegments, Manifests
<1>4. /\ \A i \in 1..Len(l0) : OlderThanMemory(l0[i])
      /\ \A i \in 1..Len(manifest.l0) : OlderThanMemory(manifest.l0[i])
  BY <1>1 DEF LevelZero, Disk
<1>5. imm' = <<>>
  BY DEF AllFlushed
<1>6. CASE FlushRegister
  <2> PICK h : h = Head(imm).seg
    OBVIOUS
  <2>1. h \in Nat /\ h = imm[1].seg /\ 1 \in 1..Len(imm)
    BY <1>6, HeadOlder
  <2>2. l0' = <<h>> \o l0 /\ flushedSeg' = h /\ fpc' = "save" /\ UNCHANGED <<manifest, walFiles>>
    BY <1>6 DEF FlushRegister, WithFlushed, disk
  <2>3. h \in DOMAIN walFiles /\ h > 0
    BY <1>1, <2>1 DEF Disk
  <2>4. Below(l0, h) /\ Below(manifest.l0, h)
    BY <1>4, <2>1 DEF OlderThanMemory, Below
  <2>5. \A i \in 1..Len(l0') : l0'[i] <= h
    <3>1. \A i \in 1..Len(l0') : l0'[i] = h \/ \E j \in 1..Len(l0) : l0'[i] = l0[j]
      BY <1>3, <2>1, <2>2, PrependedElements
    <3>2. \A j \in 1..Len(l0) : l0[j] \in Nat
      BY <1>3
    <3> QED BY <2>1, <2>4, <3>1, <3>2, SMTT(20) DEF Below
  <2> QED BY <2>2, <2>3, <2>4, <2>5 DEF Watermark
<1>7. CASE FlushCleanup
  <2>1. /\ UNCHANGED <<imm, activeSeg, flushedSeg, l0, manifest, memtable, wpc, kpc>> /\ fpc = "cleanup"
    BY <1>7 DEF FlushCleanup, mem, lsm, writer
  <2>2. flushedSeg < activeSeg \/ (Drained /\ flushedSeg = activeSeg)
    BY <1>1, <2>1 DEF LevelZero, OlderThanMemory
  <2>3. Drained' = Drained
    BY <2>1 DEF Drained
  <2>4. DOMAIN walFiles \ {flushedSeg} \subseteq DOMAIN walFiles'
    BY LogSteps
  <2>5. AllFlushed
    BY <1>3, <2>1, <2>2, <2>3, <2>4 DEF AllFlushed
  <2>6. Watermark
    BY <1>1, <2>5 DEF Disk
  <2> QED BY <2>1, <2>6 DEF Watermark
<1>8. CASE /\ UNCHANGED <<imm, activeSeg, flushedSeg>> /\ Range(l0') \subseteq Range(l0)
           /\ fpc' = "cleanup" => fpc = "cleanup" \/ (FlushSave /\ manifest' = pending)
           /\ ~FlushCleanup
  <2>1. DOMAIN walFiles \subseteq DOMAIN walFiles'
    BY <1>8, LogSteps
  <2>2. \A i \in 1..Len(l0') : \E j \in 1..Len(l0) : l0'[i] = l0[j]
    BY <1>3, <1>8, Among
  <2>3. \/ UNCHANGED manifest
        \/ manifestMu # "free" /\ manifest' = pending /\ (RotateSave \/ FlushSave \/ CompactSave)
    BY ManifestSteps
  <2>4. manifestMu # "free" => \A i \in 1..Len(pending.l0) : \E j \in 1..Len(l0) : pending.l0[i] = l0[j]
    <3>1. manifestMu # "free" => Range(pending.l0) \subseteq Range(l0)
      BY <1>1 DEF Pending
    <3> QED BY <1>3, <3>1, Among
  <2>5. CASE AllFlushed
    <3>1. Watermark
      BY <1>1, <2>5 DEF Disk
    <3>2. \A i \in 1..Len(l0') : l0'[i] <= flushedSeg
      BY <2>2, <3>1 DEF Watermark
    <3>3. CASE manifest' = pending /\ (FlushSave \/ CompactSave)
      <4>1. manifestMu \in {"flush", "compaction"}
        BY <1>1, <3>3 DEF FlushSave, CompactSave, Control
      <4>2. manifest'.flushed = flushedSeg
        BY <1>1, <3>3, <4>1 DEF Pending
      <4>3. \A i \in 1..Len(manifest'.l0) : manifest'.l0[i] <= flushedSeg
        BY <2>4, <3>1, <3>3, <4>1 DEF Watermark
      <4> QED BY <1>8, <3>1, <3>2, <4>2, <4>3 DEF Watermark
    <3>4. ~RotateSave
      <4>1. ASSUME RotateSave PROVE activeSeg \in DOMAIN walFiles /\ ~Drained
        BY <1>1, <4>1 DEF RotateSave, ActiveWAL, Drained
      <4> QED BY <2>5, <4>1 DEF AllFlushed
    <3>5. CASE UNCHANGED manifest /\ ~FlushSave
      BY <1>8, <2>1, <3>1, <3>2, <3>5 DEF Watermark
    <3>6. CASE UNCHANGED manifest /\ FlushSave /\ manifest' # pending
      BY <1>8, <2>1, <3>1, <3>2, <3>6 DEF Watermark, FlushSave
    <3> QED BY <2>3, <3>3, <3>4, <3>5, <3>6
  <2>6. CASE ~AllFlushed
    <3>1. imm = <<>> /\ activeSeg \in DOMAIN walFiles /\ flushedSeg = activeSeg /\ ~Drained
      BY <1>5, <1>8, <2>1, <2>6 DEF AllFlushed
    <3>2. Below(l0, activeSeg) /\ Below(manifest.l0, activeSeg)
      BY <1>4, <3>1 DEF OlderThanMemory, Below
    <3>3. fpc \notin {"save", "cleanup"}
      BY <1>1, <1>3, <3>1 DEF LevelZero, OlderThanMemory
    <3>4. fpc' # "cleanup"
      BY <1>8, <3>3 DEF FlushSave
    <3>5. Below(manifest'.l0, activeSeg)
      BY <2>3, <2>4, <3>2 DEF Below
    <3>6. \A i \in 1..Len(l0') : l0'[i] <= flushedSeg
      <4>1. \A j \in 1..Len(l0) : l0[j] \in Nat /\ l0[j] < flushedSeg
        BY <1>3, <3>1, <3>2 DEF Below
      <4> TAKE i \in 1..Len(l0')
      <4>2. PICK j \in 1..Len(l0) : l0'[i] = l0[j]
        BY <2>2
      <4> QED BY <1>3, <4>1, <4>2
    <3>7. activeSeg > 0
      BY <1>1 DEF Active
    <3> QED BY <1>8, <2>1, <3>1, <3>4, <3>5, <3>6, <3>7 DEF Watermark
  <2> QED BY <2>5, <2>6
<1> QED BY <1>5, <1>6, <1>7, <1>8, QuietSteps

\* The segment of a memtable that joins the queue is on disk.
LEMMA FrozenIsLogged == 
  ASSUME Inv, [Next]_vars, Running, Running', ~UNCHANGED imm, ~FlushRegister
  PROVE  activeSeg \in DOMAIN walFiles
<1>1. TypeControl /\ TypeSegments /\ TypeData /\ Control /\ ActiveWAL
  BY DEF Inv, TypeInv
<1>WriteBatch. CASE WriteBatch
  BY <1>1, <1>WriteBatch DEF WriteBatch, TypeControl, disk, mem, lsm, chans, mutex, writer,
     compact, history, bounds
<1>WriteRefused. CASE WriteRefused
  BY <1>1, <1>WriteRefused DEF WriteRefused, TypeControl, disk, mem, lsm, chans, mutex, writer,
     compact, history, bounds
<1>WriteFreeze. CASE WriteFreeze
  BY <1>1, <1>WriteFreeze DEF WriteFreeze, ActiveWAL
<1>SnapshotFreeze. CASE SnapshotFreeze
  <2>1. memtable # Empty
    BY <1>SnapshotFreeze, SizeEmpty DEF SnapshotFreeze
  <2> QED BY <1>1, <2>1 DEF ActiveWAL
<1>RotateWAL. CASE RotateWAL
  BY <1>1, <1>RotateWAL DEF RotateWAL, Fault, TypeControl, disk, mem, lsm, chans, mutex, writer,
     compact, history, bounds
<1>RotateBuild. CASE RotateBuild
  BY <1>1, <1>RotateBuild DEF RotateBuild, TypeControl, disk, mem, lsm, chans, mutex, writer,
     compact, history, bounds
<1>RotateSave. CASE RotateSave
  BY <1>1, <1>RotateSave DEF RotateSave, Fault, ManifestFails, TypeControl, disk, mem, lsm,
     chans, mutex, writer, compact, history, bounds
<1>WALAppend. CASE WALAppend
  BY <1>1, <1>WALAppend DEF WALAppend, TypeControl, disk, mem, lsm, chans, mutex, writer,
     compact, history, bounds
<1>WALAppendFails. CASE WALAppendFails
  BY <1>1, <1>WALAppendFails DEF WALAppendFails, Fault, TypeControl, disk, mem, lsm, chans,
     mutex, writer, compact, history, bounds
<1>WriteApply. CASE WriteApply
  BY <1>1, <1>WriteApply DEF WriteApply, TypeControl, disk, mem, lsm, chans, mutex, writer,
     compact, history, bounds
<1>FlushWake. CASE FlushWake
  BY <1>1, <1>FlushWake DEF FlushWake, TypeControl, disk, mem, lsm, chans, mutex, writer,
     compact, history, bounds
<1>FlushWrite. CASE FlushWrite
  BY <1>1, <1>FlushWrite DEF FlushWrite, Fault, TypeControl, disk, mem, lsm, chans, mutex,
     writer, compact, history, bounds
<1>FlushRegister. CASE FlushRegister
  BY <1>FlushRegister
<1>FlushSave. CASE FlushSave
  BY <1>1, <1>FlushSave DEF FlushSave, Fault, ManifestFails, TypeControl, disk, mem, lsm, chans,
     mutex, writer, compact, history, bounds
<1>FlushCleanup. CASE FlushCleanup
  BY <1>1, <1>FlushCleanup DEF FlushCleanup, Fault, TypeControl, disk, mem, lsm, chans, mutex,
     writer, compact, history, bounds
<1>CompactWake. CASE CompactWake
  BY <1>1, <1>CompactWake DEF CompactWake, TypeControl, disk, mem, lsm, chans, mutex, writer,
     compact, history, bounds
<1>CompactMerge. CASE CompactMerge
  BY <1>1, <1>CompactMerge DEF CompactMerge, Fault, TypeControl, disk, mem, lsm, chans, mutex,
     writer, compact, history, bounds
<1>CompactBuild. CASE CompactBuild
  BY <1>1, <1>CompactBuild DEF CompactBuild, TypeControl, disk, mem, lsm, chans, mutex, writer,
     compact, history, bounds
<1>CompactSave. CASE CompactSave
  BY <1>1, <1>CompactSave DEF CompactSave, Fault, ManifestFails, TypeControl, disk, mem, lsm,
     chans, mutex, writer, compact, history, bounds
<1>CompactCommit. CASE CompactCommit
  BY <1>1, <1>CompactCommit DEF CompactCommit, TypeControl, disk, mem, lsm, chans, mutex, writer,
     compact, history, bounds
<1>CloseStart. CASE CloseStart
  BY <1>1, <1>CloseStart DEF CloseStart, TypeControl, disk, mem, lsm, chans, mutex, writer,
     compact, history, bounds
<1>CloseDrain. CASE CloseDrain
  BY <1>1, <1>CloseDrain DEF CloseDrain, TypeControl, disk, mem, lsm, chans, mutex, writer,
     compact, history, bounds
<1>CloseQueue. CASE CloseQueue
  <2>1. memtable # Empty
    BY <1>1, <1>CloseQueue DEF CloseQueue, Control
  <2> QED BY <1>1, <2>1 DEF ActiveWAL
<1>CloseSignal. CASE CloseSignal
  BY <1>1, <1>CloseSignal DEF CloseSignal, TypeControl, disk, mem, lsm, chans, mutex, writer,
     compact, history, bounds
<1>CloseFinish. CASE CloseFinish
  BY <1>1, <1>CloseFinish DEF CloseFinish, TypeControl, disk, mem, lsm, chans, mutex, writer,
     compact, history, bounds
<1>stutter. CASE UNCHANGED vars
  BY <1>1, <1>stutter DEF TypeControl, vars, disk, mem, lsm, chans, mutex, writer, compact,
     history, bounds
<1> QED
  BY Phases, <1>WriteBatch, <1>WriteRefused, <1>WriteFreeze, <1>SnapshotFreeze, <1>RotateWAL,
     <1>RotateBuild, <1>RotateSave, <1>WALAppend, <1>WALAppendFails, <1>WriteApply, <1>FlushWake,
     <1>FlushWrite, <1>FlushRegister, <1>FlushSave, <1>FlushCleanup, <1>CompactWake,
     <1>CompactMerge, <1>CompactBuild, <1>CompactSave, <1>CompactCommit, <1>CloseStart,
     <1>CloseDrain, <1>CloseQueue, <1>CloseSignal, <1>CloseFinish, <1>stutter
     DEF Foreground, Flush, Compaction, Closing, Running, Volatile


\* Wherever the running engine stops, NewEngine can go on with the WAL.
LEMMA StopsRestartable == Inv /\ Running => Restartable
<1> SUFFICES ASSUME Inv, Running PROVE Restartable
  OBVIOUS
<1>1. TypeSegments /\ TypeData /\ Queue /\ Disk
  BY DEF Inv, TypeInv
<1>2. \A i \in 1..Len(manifest.l0) : OlderThanMemory(manifest.l0[i]) /\ manifest.l0[i] \in Nat
  BY <1>1, SMTT(20) DEF Disk, TypeSegments, Manifests
<1>3. CASE imm # <<>>
  <2>1. 1 \in 1..Len(imm)
    BY <1>1, <1>3, QueueHead DEF TypeData
  <2>2. imm[1].seg \in DOMAIN walFiles
    BY <1>1, <2>1 DEF Disk
  <2>3. Below(manifest.l0, imm[1].seg)
    BY <1>2, <2>1 DEF OlderThanMemory, Below
  <2> QED BY <2>2, <2>3 DEF Restartable
<1>4. CASE imm = <<>> /\ ~AllFlushed
  <2>1. activeSeg \in DOMAIN walFiles /\ ~(Drained /\ flushedSeg = activeSeg)
    BY <1>4 DEF AllFlushed
  <2>2. Below(manifest.l0, activeSeg)
    BY <1>2, <2>1 DEF OlderThanMemory, Below
  <2> QED BY <2>1, <2>2 DEF Restartable
<1>5. CASE AllFlushed
  <2>1. Watermark
    BY <1>1, <1>5 DEF Disk
  <2>2. CASE flushedSeg \in DOMAIN walFiles /\ Below(manifest.l0, flushedSeg)
    BY <2>2 DEF Restartable
  <2>3. CASE manifest.flushed = flushedSeg /\ \A i \in 1..Len(manifest.l0) : manifest.l0[i] <= flushedSeg
    <3>1. flushedSeg \in Nat /\ flushedSeg > 0 /\ \A s \in DOMAIN walFiles : s \in Nat
      BY <1>1, <2>1 DEF TypeSegments, TypeData, IsFiles, Watermark
    <3>2. CASE \E s \in DOMAIN walFiles : s > flushedSeg
      BY <1>2, <2>3, <3>1, <3>2 DEF Restartable, Below
    <3>3. CASE \A s \in DOMAIN walFiles : s <= flushedSeg
      BY <2>3, <3>1, <3>3 DEF Restartable
    <3> QED BY <3>1, <3>2, <3>3
  <2> QED BY <2>1, <2>2, <2>3 DEF Watermark
<1> QED BY <1>3, <1>4, <1>5

\* While the engine runs, the manifest and the WAL on disk fit its memory.
LEMMA RunningDiskStep ==
  ASSUME Inv, [Next]_vars, Running, Running'
  PROVE  Disk'
<1>1. TypeControl /\ TypeSegments /\ TypeData /\ Control /\ Active /\ LevelZero /\ Pending /\ Disk /\ ActiveWAL
  BY DEF Inv, TypeInv
<1>2. rpc' = "none"
  BY ControlStep DEF Control, Running
<1>3. \/ UNCHANGED manifest
      \/ manifestMu # "free" /\ manifest' = pending
  BY ManifestSteps
<1>4. Orderly(manifest)'
  BY <1>1, <1>3 DEF Disk, Pending
<1>5. (\A i \in 1..Len(manifest.l0) : OlderThanMemory(manifest.l0[i]))'
  <2>1. manifest.l0 \in Seq(Nat) /\ pending.l0 \in Seq(Nat) /\ l0 \in Seq(Nat)
    BY <1>1 DEF TypeSegments, Manifests
  <2>2. manifestMu # "free" => \A i \in 1..Len(pending.l0) : \E j \in 1..Len(l0) : pending.l0[i] = l0[j]
    <3>1. manifestMu # "free" => Range(pending.l0) \subseteq Range(l0)
      BY <1>1 DEF Pending
    <3> QED BY <2>1, <3>1, Among
  <2>3. /\ \A i \in 1..Len(l0) : l0[i] \in Nat /\ OlderThanMemory(l0[i])
        /\ \A i \in 1..Len(manifest.l0) : manifest.l0[i] \in Nat /\ OlderThanMemory(manifest.l0[i])
    BY <1>1, <2>1 DEF LevelZero, Disk
  <2>4. \A i \in 1..Len(manifest'.l0) : \A s : s = manifest'.l0[i] => s \in Nat /\ OlderThanMemory(s)
    BY <1>3, <2>2, <2>3
  <2>5. \A s \in Nat : OlderThanMemory(s) => OlderThanMemory(s)'
    BY OlderStep
  <2>6. \A i \in 1..Len(manifest'.l0) : \A s : s = manifest'.l0[i] => OlderThanMemory(s)'
    BY <2>4, <2>5
  <2> QED BY <2>6 DEF OlderThanMemory
<1>6. \A j \in 1..Len(imm') : imm'[j].seg \in DOMAIN walFiles'
  <2>1. \A j \in 1..Len(imm) : imm[j].seg \in DOMAIN walFiles
    BY <1>1 DEF Disk
  <2>2. CASE FlushCleanup
    <3>1. UNCHANGED imm /\ OlderThanMemory(flushedSeg)
      BY <1>1, <2>2 DEF FlushCleanup, LevelZero, mem
    <3>2. \A j \in 1..Len(imm) : imm[j].seg # flushedSeg
      <4>1. flushedSeg \in Nat /\ \A j \in 1..Len(imm) : imm[j].seg \in Nat
        BY <1>1, QueueSegments DEF TypeData, TypeSegments
      <4> QED BY <3>1, <4>1 DEF OlderThanMemory
    <3>3. DOMAIN walFiles \ {flushedSeg} \subseteq DOMAIN walFiles'
      BY LogSteps
    <3> QED BY <2>1, <3>1, <3>2, <3>3
  <2>3. CASE FlushRegister
    <3>1. imm # <<>> /\ imm' = Tail(imm) /\ UNCHANGED walFiles
      BY <2>3, HeadOlder DEF FlushRegister, disk
    <3>2. Len(imm) \in Nat /\ Len(imm') = Len(imm) - 1 /\ \A i \in 1..Len(imm') : imm'[i] = imm[i + 1]
      BY <1>1, <3>1, QueueHead DEF TypeData
    <3>3. \A i \in 1..Len(imm') : i + 1 \in 1..Len(imm)
      BY <3>2
    <3> QED BY <2>1, <3>1, <3>2, <3>3
  <2>4. CASE imm' = imm /\ ~FlushCleanup
    BY <2>1, <2>4, LogSteps
  <2>5. CASE /\ imm' = Append(imm, [seg |-> activeSeg, data |-> memtable])
             /\ ~FlushCleanup /\ ~FlushRegister /\ ~UNCHANGED imm
    <3>1. activeSeg \in DOMAIN walFiles
      BY <2>5, FrozenIsLogged
    <3>2. /\ Len(imm) \in Nat /\ Len(imm') = Len(imm) + 1 /\ \A i \in 1..Len(imm) : imm'[i] = imm[i]
          /\ imm'[Len(imm) + 1].seg = activeSeg
      BY <1>1, <2>5, QueueAppend DEF TypeData, TypeSegments
    <3>3. \A i \in 1..Len(imm') : i \in 1..Len(imm) \/ i = Len(imm) + 1
      BY <3>2
    <3>4. \A i \in 1..Len(imm') : imm'[i].seg \in DOMAIN walFiles
      BY <2>1, <3>1, <3>2, <3>3
    <3> QED BY <2>5, <3>4, LogSteps
  <2> QED BY <2>2, <2>3, <2>4, <2>5, MemorySteps
<1>7. \A s \in DOMAIN walFiles' : s > 0
  <2>1. activeSeg \in Nat /\ activeSeg > 0 /\ \A s \in DOMAIN walFiles : s > 0
    BY <1>1 DEF Disk, Active, TypeSegments
  <2>2. \A s \in DOMAIN walFiles' : s \in DOMAIN walFiles \/ (s \in Nat /\ s >= activeSeg)
    BY LogSteps
  <2> QED BY <2>1, <2>2
<1>8. (Running /\ AllFlushed => Watermark)'
  BY WatermarkStep
<1> QED BY <1>2, <1>4, <1>5, <1>6, <1>7, <1>8 DEF Disk

\* NewEngine leaves a manifest and a WAL that it can open again.
LEMMA RecoveryDiskStep ==
  ASSUME Inv, [Next]_vars, ~Running, ~Running'
  PROVE  Orderly(manifest)' /\ Restartable' /\ \A s \in DOMAIN walFiles' : s > 0
<1>1. TypeControl /\ TypeSegments /\ TypeData /\ Control /\ Active /\ LevelZero /\ Disk
  BY DEF Inv, TypeInv
<1>2. Orderly(manifest) /\ Restartable /\ \A s \in DOMAIN walFiles : s > 0
  BY <1>1 DEF Disk
<1>3. CASE UNCHANGED <<manifest, walFiles>>
  BY <1>2, <1>3 DEF Restartable
<1>4. rpc # "none" => Orderly(CurrentManifest)
  BY <1>1 DEF CurrentManifest, Orderly, LevelZero, Active
<1>5. CASE RecoverFlushSave
  <2>1. /\ UNCHANGED walFiles /\ rpc = "flushSave" /\ (UNCHANGED manifest \/ manifest' = CurrentManifest)
    BY <1>5 DEF RecoverFlushSave, ManifestFails
  <2>2. CASE manifest' = CurrentManifest
    <3>1. flushedSeg > 0 /\ \A s \in DOMAIN walFiles : s <= flushedSeg
      BY <1>1, <2>1 DEF Disk
    <3>2. manifest'.flushed = flushedSeg
      BY <2>2 DEF CurrentManifest
    <3>3. Restartable'
      BY <2>1, <3>1, <3>2 DEF Restartable
    <3> QED BY <1>2, <1>4, <2>1, <2>2, <3>3
  <2> QED BY <1>3, <2>1, <2>2
<1>6. CASE RecoverCleanup
  <2>1. UNCHANGED manifest /\ rpc = "cleanup" /\ DOMAIN walFiles' \subseteq DOMAIN walFiles
    <3>1. UNCHANGED manifest /\ rpc = "cleanup" /\ \E ids : walFiles' = Without(walFiles, ids)
      BY <1>6 DEF RecoverCleanup
    <3>2. PICK ids : walFiles' = Without(walFiles, ids)
      BY <3>1
    <3>3. DOMAIN walFiles' = DOMAIN walFiles \ ids
      BY <3>2, WithoutFiles
    <3> QED BY <3>1, <3>3
  <2>2. flushedSeg > 0 /\ (\A s \in DOMAIN walFiles : s <= flushedSeg) /\ manifest.flushed = flushedSeg
    BY <1>1, <2>1 DEF Disk
  <2>3. Restartable'
    BY <2>1, <2>2 DEF Restartable
  <2> QED BY <1>2, <2>1, <2>3
<1>7. CASE RecoverNewSegment
  <2> DEFINE m == [CurrentManifest EXCEPT !.next = nextSeg + 1]
  <2>1. UNCHANGED walFiles /\ rpc = "newseg" /\ (UNCHANGED manifest \/ manifest' = m)
    BY <1>7 DEF RecoverNewSegment, ManifestFails
  <2>2. m.l0 = l0 /\ m.next = nextSeg + 1 /\ m.flushed = flushedSeg
    BY DEF CurrentManifest
  <2> HIDE DEF m
  <2>3. CASE manifest' = m
    <3>1. flushedSeg > 0 /\ \A s \in DOMAIN walFiles : s <= flushedSeg
      BY <1>1, <2>1 DEF Disk
    <3>2. Restartable'
      BY <2>1, <2>2, <2>3, <3>1 DEF Restartable
    <3>3. Orderly(manifest)'
      <4>1. Descending(l0) /\ Below(l0, nextSeg) /\ nextSeg \in Nat /\ nextSeg > 0 /\ l0 \in Seq(Nat)
        BY <1>1, <2>1 DEF LevelZero, Active, TypeSegments
      <4>2. \A i \in 1..Len(l0) : l0[i] \in Nat
        BY <4>1
      <4>3. Below(l0, nextSeg + 1) /\ nextSeg + 1 > 0
        BY <4>1, <4>2 DEF Below
      <4> QED BY <2>2, <2>3, <4>1, <4>3 DEF Orderly
    <3> QED BY <1>2, <2>1, <3>2, <3>3
  <2> QED BY <1>3, <2>1, <2>3
<1>8. CASE RecoverCreate
  <2>1. /\ UNCHANGED manifest /\ rpc = "create"
        /\ UNCHANGED walFiles \/ DOMAIN walFiles' = DOMAIN walFiles \cup {activeSeg}
    <3>1. /\ UNCHANGED manifest /\ rpc = "create"
          /\ \/ UNCHANGED walFiles
             \/ walFiles' = IF activeSeg \in DOMAIN walFiles THEN walFiles ELSE Set(walFiles, activeSeg, Empty)
      BY <1>8 DEF RecoverCreate
    <3> QED BY <3>1, CreateFile
  <2>2. CASE DOMAIN walFiles' = DOMAIN walFiles \cup {activeSeg}
    <3>1. Below(manifest.l0, activeSeg) /\ activeSeg > 0
      BY <1>1, <2>1 DEF LevelZero, Disk, Active
    <3>2. Restartable'
      BY <2>1, <2>2, <3>1 DEF Restartable
    <3> QED BY <1>2, <2>1, <2>2, <3>1, <3>2
  <2> QED BY <1>3, <2>1, <2>2
<1>9. CASE RecoverResume
  <2>1. /\ UNCHANGED walFiles /\ rpc = "resume" /\ (UNCHANGED manifest \/ manifest' = CurrentManifest)
    BY <1>9 DEF RecoverResume, ManifestFails
  <2>2. CASE manifest' = CurrentManifest
    <3>1. Below(l0, activeSeg) /\ activeSeg \in DOMAIN walFiles /\ manifest'.l0 = l0
      BY <1>1, <2>1, <2>2 DEF LevelZero, Disk, CurrentManifest
    <3>2. Restartable'
      BY <2>1, <3>1 DEF Restartable
    <3> QED BY <1>2, <1>4, <2>1, <2>2, <3>2
  <2> QED BY <1>3, <2>1, <2>2
<1>10. CASE Stop \/ Open \/ RecoverFlush \/ UNCHANGED vars
  BY <1>3, <1>10 DEF Stop, Open, RecoverFlush, vars, disk
<1> QED BY <1>5, <1>6, <1>7, <1>8, <1>9, <1>10, Phases DEF Recover, Running

\* The manifest and the WAL on disk.
LEMMA DiskStep == Inv /\ [Next]_vars => Disk'
<1> SUFFICES ASSUME Inv, [Next]_vars PROVE Disk'
  OBVIOUS
<1>1. TypeControl /\ TypeSegments /\ TypeData /\ Control /\ Active /\ LevelZero /\ Disk
  BY DEF Inv, TypeInv
<1>2. CASE Running /\ Running'
  BY <1>2, RunningDiskStep
<1>3. CASE status = "recovering" /\ status' = "open" /\ (RecoverCreate \/ RecoverResume)
  <2>1. /\ rpc' = "none" /\ rpc \in {"create", "resume"} /\ imm' = <<>> /\ kpc' = "none"
        /\ UNCHANGED <<l0, activeSeg>> /\ manifest' \in {manifest, CurrentManifest}
    BY <1>1, <1>3 DEF RecoverCreate, RecoverResume, OpenFails, Control, mem, lsm
  <2>2. DOMAIN walFiles' = DOMAIN walFiles \cup {activeSeg}
    <3>1. CASE RecoverCreate
      <4>1. walFiles' = IF activeSeg \in DOMAIN walFiles THEN walFiles ELSE Set(walFiles, activeSeg, Empty)
        BY <1>3, <3>1 DEF RecoverCreate, OpenFails
      <4> QED BY <4>1, CreateFile
    <3>2. CASE RecoverResume
      BY <1>1, <3>2 DEF RecoverResume, Disk
    <3> QED BY <1>3, <3>1, <3>2
  <2>3. manifest'.l0 = l0 /\ Orderly(manifest)'
    BY <1>1, <1>3, <2>1 DEF CurrentManifest, Orderly, LevelZero, Active, Disk
  <2>4. Below(l0, activeSeg)
    BY <1>1, <2>1 DEF LevelZero
  <2>5. (\A i \in 1..Len(manifest.l0) : OlderThanMemory(manifest.l0[i]))'
    BY <2>1, <2>3, <2>4 DEF OlderThanMemory, Below
  <2>6. ~AllFlushed'
    BY <2>1, <2>2 DEF AllFlushed, Drained
  <2>7. \A s \in DOMAIN walFiles' : s > 0
    BY <1>1, <2>1, <2>2 DEF Disk, Active
  <2> QED BY <1>3, <2>1, <2>3, <2>5, <2>6, <2>7 DEF Disk, Running
<1>4. CASE Running /\ status' \in {"down", "failed"} /\ Volatile' /\ Recover
  <2>1. UNCHANGED <<manifest, walFiles>>
    BY <1>1, <1>4 DEF Recover, Stop, Open, RecoverFlush, RecoverFlushSave, RecoverCleanup, RecoverNewSegment,
       RecoverCreate, RecoverResume, Control, Running, disk
  <2>2. Restartable'
    BY <1>4, <2>1, StopsRestartable DEF Restartable
  <2>3. Orderly(manifest)' /\ \A s \in DOMAIN walFiles' : s > 0
    BY <1>1, <2>1 DEF Disk
  <2> QED BY <1>4, <2>2, <2>3 DEF Disk, Running, Volatile
<1>5. CASE ~Running /\ status' \in {"down", "failed"} /\ Volatile'
  <2>1. ~Running' /\ rpc' = "none"
    BY <1>5 DEF Running, Volatile
  <2> QED BY <1>5, <2>1, RecoveryDiskStep DEF Disk
<1>6. CASE ~Running /\ status' = "recovering"
  <2>1. ~Running'
    BY <1>6 DEF Running
  <2>2. Orderly(manifest)' /\ Restartable' /\ \A s \in DOMAIN walFiles' : s > 0
    BY <1>6, <2>1, RecoveryDiskStep
  <2>3. manifest.flushed \in Nat /\ flushedSeg \in Nat /\ activeSeg \in Nat /\ \A s \in DOMAIN walFiles : s \in Nat
    BY <1>1 DEF TypeSegments, Manifests, TypeData, IsFiles
  <2>4. CASE Open
    <3>1. /\ l0' = manifest.l0 /\ l1' = manifest.l1 /\ flushedSeg' = manifest.flushed
          /\ activeSeg' = HighestWAL /\ UNCHANGED <<manifest, walFiles>>
          /\ rpc' \in {"flush", "newseg", "create"} /\ (rpc' = "newseg" => HighestWAL <= manifest.flushed)
      BY <1>6, <2>4 DEF Open
    <3>2. /\ HighestWAL \in Nat /\ (HighestWAL = 1 \/ HighestWAL \in DOMAIN walFiles)
          /\ \A s \in DOMAIN walFiles : s <= HighestWAL
      BY <1>1, HighestWALIsHighest DEF TypeData
    <3>3. HighestWAL > 0
      BY <1>1, <3>2 DEF Disk
    <3>4. rpc' = "newseg" => flushedSeg' > 0 /\ \A s \in DOMAIN walFiles' : s <= flushedSeg'
      BY <2>3, <3>1, <3>2, <3>3
    <3> QED BY <2>1, <2>2, <3>1, <3>2, <3>4 DEF Disk
  <2>5. CASE RecoverFlush
    <3>1. /\ rpc' = "flushSave" /\ rpc = "flush" /\ flushedSeg' = activeSeg
          /\ UNCHANGED <<manifest, walFiles, l1>>
      BY <1>6, <2>5 DEF RecoverFlush, OpenFails
    <3>2. activeSeg > 0 /\ l1 = manifest.l1 /\ \A s \in DOMAIN walFiles : s <= activeSeg
      BY <1>1, <3>1 DEF Disk, Active
    <3> QED BY <2>1, <2>2, <3>1, <3>2 DEF Disk
  <2>6. CASE RecoverFlushSave
    <3>1. /\ rpc' = "cleanup" /\ rpc = "flushSave" /\ manifest' = CurrentManifest
          /\ UNCHANGED <<walFiles, l0, l1, flushedSeg, activeSeg>>
      BY <1>6, <2>6 DEF RecoverFlushSave, OpenFails, lsm, mem
    <3>2. manifest'.l0 = l0 /\ manifest'.l1 = l1 /\ manifest'.flushed = flushedSeg
      BY <3>1 DEF CurrentManifest
    <3>3. flushedSeg > 0 /\ \A s \in DOMAIN walFiles : s <= flushedSeg
      BY <1>1, <3>1 DEF Disk
    <3> QED BY <2>1, <2>2, <3>1, <3>2, <3>3 DEF Disk
  <2>7. CASE RecoverCleanup
    <3>1. rpc' = "create" /\ rpc = "cleanup" /\ UNCHANGED <<manifest, l0, l1, flushedSeg>>
      BY <2>7 DEF RecoverCleanup, lsm
    <3> QED BY <1>1, <2>1, <2>2, <3>1 DEF Disk
  <2>8. CASE RecoverNewSegment
    <3>1. /\ rpc' = "create" /\ rpc = "newseg" /\ manifest' = [CurrentManifest EXCEPT !.next = nextSeg + 1]
          /\ UNCHANGED <<walFiles, l0, l1, flushedSeg>>
      BY <1>6, <2>8 DEF RecoverNewSegment, OpenFails, lsm
    <3>2. manifest'.l0 = l0 /\ manifest'.l1 = l1 /\ manifest'.flushed = flushedSeg
      BY <3>1 DEF CurrentManifest
    <3> QED BY <2>1, <2>2, <3>1, <3>2 DEF Disk
  <2>9. CASE RecoverCreate
    <3>1. rpc' = "resume" /\ rpc = "create" /\ UNCHANGED <<manifest, l0, l1, flushedSeg, activeSeg>>
      BY <1>6, <2>9 DEF RecoverCreate, OpenFails, lsm
    <3>2. activeSeg' \in DOMAIN walFiles'
      <4>1. walFiles' = IF activeSeg \in DOMAIN walFiles THEN walFiles ELSE Set(walFiles, activeSeg, Empty)
        BY <1>6, <2>9 DEF RecoverCreate, OpenFails
      <4> QED BY <3>1, <4>1, CreateFile
    <3> QED BY <1>1, <2>1, <2>2, <3>1, <3>2 DEF Disk
  <2>10. CASE UNCHANGED vars
    BY <1>1, <2>1, <2>2, <2>10 DEF Disk, vars, disk, mem, lsm
  <2> QED BY <1>6, <2>4, <2>5, <2>6, <2>7, <2>8, <2>9, <2>10, Phases DEF Running
<1>7. CASE UNCHANGED vars
  BY <1>1, <1>2, <1>5, <1>6, <1>7 DEF Disk, Control, TypeControl, Volatile, Running, vars, disk, mem, lsm, mutex, writer, compact, chans
<1> QED BY <1>2, <1>3, <1>4, <1>5, <1>6, <1>7, Phases

\* While the engine runs, the writer has its segment.
LEMMA RunningWALStep == 
  ASSUME Inv, [Next]_vars, Running, Running'
  PROVE  ActiveWAL'
<1>1. TypeControl /\ TypeFlags /\ TypeSegments /\ Control /\ LevelZero /\ ActiveWAL
  BY DEF Inv, TypeInv
<1>2. ASSUME UNCHANGED activeSeg, ~FlushCleanup, activeSeg \in DOMAIN walFiles
      PROVE  activeSeg' \in DOMAIN walFiles'
  BY <1>2, LogSteps
<1>3. rpc' = "none"
  BY ControlStep DEF Control, Running
<1>WriteBatch. CASE WriteBatch
  <2>1. UNCHANGED activeSeg /\ ~FlushCleanup
    BY <1>WriteBatch DEF WriteBatch, FlushCleanup, mem
  <2>2. activeSeg \in DOMAIN walFiles => activeSeg' \in DOMAIN walFiles'
    BY <1>2, <2>1
  <2> QED BY <1>1, <1>3, <1>WriteBatch, <2>2 DEF WriteBatch, ActiveWAL, Control, TypeControl, WriterSteps, disk, mem, lsm, chans, mutex, writer, compact, history, bounds
<1>WriteRefused. CASE WriteRefused
  <2>1. UNCHANGED activeSeg /\ ~FlushCleanup
    BY <1>WriteRefused DEF WriteRefused, FlushCleanup, mem
  <2>2. activeSeg \in DOMAIN walFiles => activeSeg' \in DOMAIN walFiles'
    BY <1>2, <2>1
  <2> QED BY <1>1, <1>3, <1>WriteRefused, <2>2 DEF WriteRefused, ActiveWAL, Control, TypeControl, WriterSteps, disk, mem, lsm, chans, mutex, writer, compact, history, bounds
<1>WriteFreeze. CASE WriteFreeze
  <2>1. memtable' = Empty /\ wpc' = "rotate"
    BY <1>WriteFreeze DEF WriteFreeze, FreezeActiveMemTable
  <2> QED BY <1>3, <2>1 DEF ActiveWAL
<1>SnapshotFreeze. CASE SnapshotFreeze
  <2>1. memtable' = Empty /\ wpc' = "rotate"
    BY <1>SnapshotFreeze DEF SnapshotFreeze, FreezeActiveMemTable
  <2> QED BY <1>3, <2>1 DEF ActiveWAL
<1>RotateWAL. CASE RotateWAL
  <2>1. memtable' = Empty /\ UNCHANGED activeSeg
    BY <1>1, <1>RotateWAL DEF RotateWAL, Control
  <2>2. CASE wpc' = "build"
    <3>1. activeSeg' \in DOMAIN walFiles'
      <4>1. walFiles' = IF activeSeg \in DOMAIN walFiles THEN walFiles ELSE Set(walFiles, activeSeg, Empty)
        BY <1>RotateWAL, <2>2 DEF RotateWAL
      <4> QED BY <2>1, <4>1, CreateFile
    <3> QED BY <1>3, <2>1, <2>2, <3>1 DEF ActiveWAL
  <2>3. CASE wpc' = "idle" /\ bgErr'
    BY <1>3, <2>1, <2>3 DEF ActiveWAL
  <2> QED BY <1>RotateWAL, <2>2, <2>3 DEF RotateWAL
<1>RotateBuild. CASE RotateBuild
  <2>1. UNCHANGED activeSeg /\ ~FlushCleanup
    BY <1>RotateBuild DEF RotateBuild, FlushCleanup, mem
  <2>2. activeSeg \in DOMAIN walFiles => activeSeg' \in DOMAIN walFiles'
    BY <1>2, <2>1
  <2> QED BY <1>1, <1>3, <1>RotateBuild, <2>2 DEF RotateBuild, ActiveWAL, Control, TypeControl, WriterSteps, disk, mem, lsm, chans, mutex, writer, compact, history, bounds
<1>RotateSave. CASE RotateSave
  <2>1. UNCHANGED activeSeg /\ ~FlushCleanup
    BY <1>RotateSave DEF RotateSave, FlushCleanup, mem
  <2>2. activeSeg \in DOMAIN walFiles => activeSeg' \in DOMAIN walFiles'
    BY <1>2, <2>1
  <2> QED BY <1>1, <1>3, <1>RotateSave, <2>2 DEF RotateSave, Fault, ManifestFails, ActiveWAL, Control, TypeControl, WriterSteps, disk, mem, lsm, chans, mutex, writer, compact, history, bounds
<1>WALAppend. CASE WALAppend
  <2>1. UNCHANGED <<activeSeg, memtable, batch, wal>> /\ wpc' = "apply" /\ wpc = "check" /\ ~Overflows /\ wal
    BY <1>WALAppend DEF WALAppend, mem
  <2>2. activeSeg' \in DOMAIN walFiles'
    <3>1. activeSeg \in DOMAIN walFiles /\ ~FlushCleanup
      BY <1>1, <1>WALAppend, <2>1 DEF ActiveWAL, FlushCleanup, WALAppend, writer
    <3> QED BY <1>2, <2>1, <3>1
  <2>3. Size(memtable) + Size(batch) <= MaxMemTableSize
    <3>1. Size(memtable) \in Nat /\ Size(batch) \in Nat /\ MaxMemTableSize \in Nat
      BY SizeSets, EngineAssumption DEF EngineAssumption
    <3> QED BY <2>1, <3>1 DEF Overflows
  <2> QED BY <1>3, <2>1, <2>2, <2>3 DEF ActiveWAL
<1>WALAppendFails. CASE WALAppendFails
  <2>1. UNCHANGED activeSeg /\ ~FlushCleanup
    BY <1>WALAppendFails DEF WALAppendFails, FlushCleanup, mem
  <2>2. activeSeg \in DOMAIN walFiles => activeSeg' \in DOMAIN walFiles'
    BY <1>2, <2>1
  <2> QED BY <1>1, <1>3, <1>WALAppendFails, <2>2 DEF WALAppendFails, Fault, ActiveWAL, Control, TypeControl, WriterSteps, disk, mem, lsm, chans, mutex, writer, compact, history, bounds
<1>WriteApply. CASE WriteApply
  <2>1. UNCHANGED activeSeg /\ ~FlushCleanup
    BY <1>WriteApply DEF WriteApply, FlushCleanup, mem
  <2>2. activeSeg \in DOMAIN walFiles => activeSeg' \in DOMAIN walFiles'
    BY <1>2, <2>1
  <2> QED BY <1>1, <1>3, <1>WriteApply, <2>2 DEF WriteApply, ActiveWAL, Control, TypeControl, WriterSteps, disk, mem, lsm, chans, mutex, writer, compact, history, bounds
<1>FlushWake. CASE FlushWake
  <2>1. UNCHANGED activeSeg /\ ~FlushCleanup
    BY <1>FlushWake DEF FlushWake, FlushCleanup, mem
  <2>2. activeSeg \in DOMAIN walFiles => activeSeg' \in DOMAIN walFiles'
    BY <1>2, <2>1
  <2> QED BY <1>1, <1>3, <1>FlushWake, <2>2 DEF FlushWake, ActiveWAL, Control, TypeControl, WriterSteps, disk, mem, lsm, chans, mutex, writer, compact, history, bounds
<1>FlushWrite. CASE FlushWrite
  <2>1. UNCHANGED activeSeg /\ ~FlushCleanup
    BY <1>FlushWrite DEF FlushWrite, FlushCleanup, mem
  <2>2. activeSeg \in DOMAIN walFiles => activeSeg' \in DOMAIN walFiles'
    BY <1>2, <2>1
  <2> QED BY <1>1, <1>3, <1>FlushWrite, <2>2 DEF FlushWrite, Fault, ActiveWAL, Control, TypeControl, WriterSteps, disk, mem, lsm, chans, mutex, writer, compact, history, bounds
<1>FlushRegister. CASE FlushRegister
  <2>1. UNCHANGED activeSeg /\ ~FlushCleanup
    BY <1>FlushRegister DEF FlushRegister, FlushCleanup, mem
  <2>2. activeSeg \in DOMAIN walFiles => activeSeg' \in DOMAIN walFiles'
    BY <1>2, <2>1
  <2> QED BY <1>1, <1>3, <1>FlushRegister, <2>2 DEF FlushRegister, ActiveWAL, Control, TypeControl, WriterSteps, disk, mem, lsm, chans, mutex, writer, compact, history, bounds
<1>FlushSave. CASE FlushSave
  <2>1. UNCHANGED activeSeg /\ ~FlushCleanup
    BY <1>FlushSave DEF FlushSave, FlushCleanup, mem
  <2>2. activeSeg \in DOMAIN walFiles => activeSeg' \in DOMAIN walFiles'
    BY <1>2, <2>1
  <2> QED BY <1>1, <1>3, <1>FlushSave, <2>2 DEF FlushSave, Fault, ManifestFails, ActiveWAL, Control, TypeControl, WriterSteps, disk, mem, lsm, chans, mutex, writer, compact, history, bounds
<1>FlushCleanup. CASE FlushCleanup
  <2>1. UNCHANGED <<status, memtable, batch, activeSeg, wal, wpc, bgErr, isClosing>> /\ fpc = "cleanup"
    BY <1>FlushCleanup DEF FlushCleanup, mem, writer
  <2>2. flushedSeg < activeSeg \/ (Drained /\ flushedSeg = activeSeg)
    BY <1>1, <2>1 DEF LevelZero, OlderThanMemory
  <2>3. CASE flushedSeg < activeSeg
    <3>1. activeSeg # flushedSeg
      BY <1>1, <2>3 DEF TypeSegments
    <3>2. activeSeg \in DOMAIN walFiles => activeSeg' \in DOMAIN walFiles'
      BY <2>1, <3>1, LogSteps
    <3> QED BY <1>1, <1>3, <2>1, <3>2 DEF ActiveWAL, Running
  <2>4. CASE Drained
    BY <1>1, <1>3, <2>1, <2>4 DEF ActiveWAL, Drained, Control
  <2> QED BY <2>2, <2>3, <2>4
<1>CompactWake. CASE CompactWake
  <2>1. UNCHANGED activeSeg /\ ~FlushCleanup
    BY <1>CompactWake DEF CompactWake, FlushCleanup, mem
  <2>2. activeSeg \in DOMAIN walFiles => activeSeg' \in DOMAIN walFiles'
    BY <1>2, <2>1
  <2> QED BY <1>1, <1>3, <1>CompactWake, <2>2 DEF CompactWake, ActiveWAL, Control, TypeControl, WriterSteps, disk, mem, lsm, chans, mutex, writer, compact, history, bounds
<1>CompactMerge. CASE CompactMerge
  <2>1. UNCHANGED activeSeg /\ ~FlushCleanup
    BY <1>CompactMerge DEF CompactMerge, FlushCleanup, mem
  <2>2. activeSeg \in DOMAIN walFiles => activeSeg' \in DOMAIN walFiles'
    BY <1>2, <2>1
  <2> QED BY <1>1, <1>3, <1>CompactMerge, <2>2 DEF CompactMerge, Fault, ActiveWAL, Control, TypeControl, WriterSteps, disk, mem, lsm, chans, mutex, writer, compact, history, bounds
<1>CompactBuild. CASE CompactBuild
  <2>1. UNCHANGED activeSeg /\ ~FlushCleanup
    BY <1>CompactBuild DEF CompactBuild, FlushCleanup, mem
  <2>2. activeSeg \in DOMAIN walFiles => activeSeg' \in DOMAIN walFiles'
    BY <1>2, <2>1
  <2> QED BY <1>1, <1>3, <1>CompactBuild, <2>2 DEF CompactBuild, ActiveWAL, Control, TypeControl, WriterSteps, disk, mem, lsm, chans, mutex, writer, compact, history, bounds
<1>CompactSave. CASE CompactSave
  <2>1. UNCHANGED activeSeg /\ ~FlushCleanup
    BY <1>CompactSave DEF CompactSave, FlushCleanup, mem
  <2>2. activeSeg \in DOMAIN walFiles => activeSeg' \in DOMAIN walFiles'
    BY <1>2, <2>1
  <2> QED BY <1>1, <1>3, <1>CompactSave, <2>2 DEF CompactSave, Fault, ManifestFails, ActiveWAL, Control, TypeControl, WriterSteps, disk, mem, lsm, chans, mutex, writer, compact, history, bounds
<1>CompactCommit. CASE CompactCommit
  <2>1. UNCHANGED activeSeg /\ ~FlushCleanup
    BY <1>CompactCommit DEF CompactCommit, FlushCleanup, mem
  <2>2. activeSeg \in DOMAIN walFiles => activeSeg' \in DOMAIN walFiles'
    BY <1>2, <2>1
  <2> QED BY <1>1, <1>3, <1>CompactCommit, <2>2 DEF CompactCommit, ActiveWAL, Control, TypeControl, WriterSteps, disk, mem, lsm, chans, mutex, writer, compact, history, bounds
<1>CloseStart. CASE CloseStart
  <2>1. UNCHANGED activeSeg /\ ~FlushCleanup
    BY <1>CloseStart DEF CloseStart, FlushCleanup, mem
  <2>2. activeSeg \in DOMAIN walFiles => activeSeg' \in DOMAIN walFiles'
    BY <1>2, <2>1
  <2> QED BY <1>1, <1>3, <1>CloseStart, <2>2 DEF CloseStart, ActiveWAL, Control, TypeControl, WriterSteps, disk, mem, lsm, chans, mutex, writer, compact, history, bounds
<1>CloseDrain. CASE CloseDrain
  <2>1. UNCHANGED activeSeg /\ ~FlushCleanup
    BY <1>CloseDrain DEF CloseDrain, FlushCleanup, mem
  <2>2. activeSeg \in DOMAIN walFiles => activeSeg' \in DOMAIN walFiles'
    BY <1>2, <2>1
  <2> QED BY <1>1, <1>3, <1>CloseDrain, <2>2 DEF CloseDrain, ActiveWAL, Control, TypeControl, WriterSteps, disk, mem, lsm, chans, mutex, writer, compact, history, bounds
<1>CloseQueue. CASE CloseQueue
  <2>1. UNCHANGED activeSeg /\ ~FlushCleanup
    BY <1>CloseQueue DEF CloseQueue, FlushCleanup, mem
  <2>2. activeSeg \in DOMAIN walFiles => activeSeg' \in DOMAIN walFiles'
    BY <1>2, <2>1
  <2> QED BY <1>1, <1>3, <1>CloseQueue, <2>2 DEF CloseQueue, Fault, ActiveWAL, Control, TypeControl, WriterSteps, disk, mem, lsm, chans, mutex, writer, compact, history, bounds
<1>CloseSignal. CASE CloseSignal
  <2>1. UNCHANGED activeSeg /\ ~FlushCleanup
    BY <1>CloseSignal DEF CloseSignal, FlushCleanup, mem
  <2>2. activeSeg \in DOMAIN walFiles => activeSeg' \in DOMAIN walFiles'
    BY <1>2, <2>1
  <2> QED BY <1>1, <1>3, <1>CloseSignal, <2>2 DEF CloseSignal, ActiveWAL, Control, TypeControl, WriterSteps, disk, mem, lsm, chans, mutex, writer, compact, history, bounds
<1>CloseFinish. CASE CloseFinish
  <2>1. UNCHANGED activeSeg /\ ~FlushCleanup
    BY <1>CloseFinish DEF CloseFinish, FlushCleanup, mem
  <2>2. activeSeg \in DOMAIN walFiles => activeSeg' \in DOMAIN walFiles'
    BY <1>2, <2>1
  <2> QED BY <1>1, <1>3, <1>CloseFinish, <2>2 DEF CloseFinish, ActiveWAL, Control, TypeControl, WriterSteps, disk, mem, lsm, chans, mutex, writer, compact, history, bounds
<1>stutter. CASE UNCHANGED vars
  BY <1>1, <1>3, <1>stutter DEF ActiveWAL, Control, TypeControl, WriterSteps, vars, disk, mem,
     lsm, chans, mutex, writer, compact, history, bounds
<1> QED
  BY Phases, <1>WriteBatch, <1>WriteRefused, <1>WriteFreeze, <1>SnapshotFreeze, <1>RotateWAL,
     <1>RotateBuild, <1>RotateSave, <1>WALAppend, <1>WALAppendFails, <1>WriteApply, <1>FlushWake,
     <1>FlushWrite, <1>FlushRegister, <1>FlushSave, <1>FlushCleanup, <1>CompactWake,
     <1>CompactMerge, <1>CompactBuild, <1>CompactSave, <1>CompactCommit, <1>CloseStart,
     <1>CloseDrain, <1>CloseQueue, <1>CloseSignal, <1>CloseFinish, <1>stutter
     DEF Foreground, Flush, Compaction, Closing, Running, Volatile

\* The active WAL segment.
LEMMA ActiveWALStep == Inv /\ [Next]_vars => ActiveWAL'
<1> SUFFICES ASSUME Inv, [Next]_vars PROVE ActiveWAL'
  OBVIOUS
<1>1. TypeControl /\ TypeFlags /\ Control /\ Disk /\ ActiveWAL
  BY DEF Inv, TypeInv
<1>2. CASE Running /\ Running'
  BY <1>2, RunningWALStep
<1>3. CASE status = "recovering" /\ status' = "open" /\ (RecoverCreate \/ RecoverResume)
  <2>1. rpc' = "none" /\ wpc' = "idle" /\ UNCHANGED activeSeg
    BY <1>1, <1>3 DEF RecoverCreate, RecoverResume, OpenFails, Control, mem, writer
  <2>2. CASE RecoverCreate
    <3>1. walFiles' = IF activeSeg \in DOMAIN walFiles THEN walFiles ELSE Set(walFiles, activeSeg, Empty)
      BY <1>3, <2>2 DEF RecoverCreate, OpenFails
    <3>2. activeSeg' \in DOMAIN walFiles'
      BY <2>1, <3>1, CreateFile
    <3>3. wal'
      BY <1>3, <2>2 DEF RecoverCreate, OpenFails
    <3> QED BY <2>1, <3>2, <3>3 DEF ActiveWAL
  <2>3. CASE RecoverResume
    <3>1. rpc = "resume" /\ UNCHANGED <<wal, walFiles>>
      BY <1>3, <2>3 DEF RecoverResume, OpenFails, mem
    <3>2. wal' /\ activeSeg' \in DOMAIN walFiles'
      BY <1>1, <2>1, <3>1 DEF ActiveWAL, Disk
    <3> QED BY <2>1, <3>2 DEF ActiveWAL
  <2> QED BY <1>3, <2>2, <2>3
<1>4. CASE status' \in {"down", "failed"} /\ Volatile'
  BY <1>4 DEF ActiveWAL, Running, Volatile
<1>5. CASE status' = "recovering" /\ ~Running
  <2>1. ~Running' /\ wpc' = "idle"
    BY <1>5, ControlStep DEF Running, Control
  <2>2. rpc' = "resume" => wal'
    <3>1. CASE UNCHANGED vars
      BY <1>1, <3>1 DEF ActiveWAL, vars, mem
    <3>2. CASE Open \/ RecoverFlush \/ RecoverFlushSave \/ RecoverCleanup \/ RecoverNewSegment
      BY <1>5, <3>2 DEF Open, RecoverFlush, RecoverFlushSave, RecoverCleanup, RecoverNewSegment,
         OpenFails
    <3>3. CASE RecoverCreate
      BY <1>5, <3>3 DEF RecoverCreate, OpenFails
    <3> QED BY <1>5, <3>1, <3>2, <3>3, Phases DEF Running
  <2> QED BY <2>1, <2>2 DEF ActiveWAL
<1>6. CASE UNCHANGED vars
  BY <1>1, <1>6 DEF ActiveWAL, Running, vars, disk, mem, writer
<1> QED BY <1>2, <1>3, <1>4, <1>5, <1>6, Phases

\* While the engine runs, no memtable gets the first output ID of a compaction.
LEMMA RunningReservedStep == 
  ASSUME Inv, [Next]_vars, Running, Running'
  PROVE  Reserved'
<1>1. TypeControl /\ TypeSegments /\ TypeData /\ Control /\ Queue /\ Active /\ Reserved
  BY DEF Inv, TypeInv
<1>2. TypeSegments'
  BY TypeSegmentsStep
<1>3. activeSeg < nextSeg /\ nextSeg' >= nextSeg /\ nextSeg \in Nat /\ nextSeg' \in Nat /\ cseg \in Nat /\ activeSeg \in Nat
  BY <1>1, <1>2, LevelSteps DEF Active, TypeSegments
<1>WriteBatch. CASE WriteBatch
  BY <1>1, <1>WriteBatch DEF WriteBatch, Reserved, TypeControl, CompactSteps, disk, mem, lsm,
     chans, mutex, writer, compact, history, bounds
<1>WriteRefused. CASE WriteRefused
  BY <1>1, <1>WriteRefused DEF WriteRefused, Reserved, TypeControl, CompactSteps, disk, mem, lsm,
     chans, mutex, writer, compact, history, bounds
<1>WriteFreeze. CASE WriteFreeze
  <2>1. UNCHANGED <<cpc, cseg, couts>>
    BY <1>WriteFreeze DEF WriteFreeze, compact
  <2>2. imm' = Append(imm, [seg |-> activeSeg, data |-> memtable]) /\ activeSeg' \in {activeSeg, nextSeg}
    BY <1>WriteFreeze DEF WriteFreeze, FreezeActiveMemTable
  <2>3. /\ Len(imm) \in Nat /\ Len(imm') = Len(imm) + 1 /\ \A i \in 1..Len(imm) : imm'[i] = imm[i]
        /\ imm'[Len(imm) + 1].seg = activeSeg
    BY <1>1, <2>2, QueueAppend DEF TypeData, TypeSegments
  <2>4. \A i \in 1..Len(imm') : i \in 1..Len(imm) \/ i = Len(imm) + 1
    BY <2>3
  <2>5. cseg > 0 => \A i \in 1..Len(imm') : imm'[i].seg # cseg
    BY <1>1, <2>3, <2>4 DEF Reserved
  <2>6. cseg > 0 => cseg < nextSeg' /\ cseg # activeSeg'
    BY <1>1, <1>3, <2>2 DEF Reserved
  <2> QED BY <1>1, <2>1, <2>5, <2>6 DEF Reserved
<1>SnapshotFreeze. CASE SnapshotFreeze
  <2>1. UNCHANGED <<cpc, cseg, couts>>
    BY <1>SnapshotFreeze DEF SnapshotFreeze, compact
  <2>2. imm' = Append(imm, [seg |-> activeSeg, data |-> memtable]) /\ activeSeg' \in {activeSeg, nextSeg}
    BY <1>SnapshotFreeze DEF SnapshotFreeze, FreezeActiveMemTable
  <2>3. /\ Len(imm) \in Nat /\ Len(imm') = Len(imm) + 1 /\ \A i \in 1..Len(imm) : imm'[i] = imm[i]
        /\ imm'[Len(imm) + 1].seg = activeSeg
    BY <1>1, <2>2, QueueAppend DEF TypeData, TypeSegments
  <2>4. \A i \in 1..Len(imm') : i \in 1..Len(imm) \/ i = Len(imm) + 1
    BY <2>3
  <2>5. cseg > 0 => \A i \in 1..Len(imm') : imm'[i].seg # cseg
    BY <1>1, <2>3, <2>4 DEF Reserved
  <2>6. cseg > 0 => cseg < nextSeg' /\ cseg # activeSeg'
    BY <1>1, <1>3, <2>2 DEF Reserved
  <2> QED BY <1>1, <2>1, <2>5, <2>6 DEF Reserved
<1>RotateWAL. CASE RotateWAL
  BY <1>1, <1>RotateWAL DEF RotateWAL, Fault, Reserved, TypeControl, CompactSteps, disk, mem,
     lsm, chans, mutex, writer, compact, history, bounds
<1>RotateBuild. CASE RotateBuild
  BY <1>1, <1>RotateBuild DEF RotateBuild, Reserved, TypeControl, CompactSteps, disk, mem, lsm,
     chans, mutex, writer, compact, history, bounds
<1>RotateSave. CASE RotateSave
  BY <1>1, <1>RotateSave DEF RotateSave, Fault, ManifestFails, Reserved, TypeControl,
     CompactSteps, disk, mem, lsm, chans, mutex, writer, compact, history, bounds
<1>WALAppend. CASE WALAppend
  BY <1>1, <1>WALAppend DEF WALAppend, Reserved, TypeControl, CompactSteps, disk, mem, lsm,
     chans, mutex, writer, compact, history, bounds
<1>WALAppendFails. CASE WALAppendFails
  BY <1>1, <1>WALAppendFails DEF WALAppendFails, Fault, Reserved, TypeControl, CompactSteps,
     disk, mem, lsm, chans, mutex, writer, compact, history, bounds
<1>WriteApply. CASE WriteApply
  BY <1>1, <1>WriteApply DEF WriteApply, Reserved, TypeControl, CompactSteps, disk, mem, lsm,
     chans, mutex, writer, compact, history, bounds
<1>FlushWake. CASE FlushWake
  BY <1>1, <1>FlushWake DEF FlushWake, Reserved, TypeControl, CompactSteps, disk, mem, lsm,
     chans, mutex, writer, compact, history, bounds
<1>FlushWrite. CASE FlushWrite
  BY <1>1, <1>FlushWrite DEF FlushWrite, Fault, Reserved, TypeControl, CompactSteps, disk, mem,
     lsm, chans, mutex, writer, compact, history, bounds
<1>FlushRegister. CASE FlushRegister
  <2>1. UNCHANGED <<cpc, cseg, couts>>
    BY <1>FlushRegister DEF FlushRegister, compact
  <2>2. imm # <<>> /\ imm' = Tail(imm) /\ UNCHANGED <<activeSeg, nextSeg>>
    BY <1>FlushRegister, HeadOlder DEF FlushRegister
  <2>3. Len(imm) \in Nat /\ Len(imm') = Len(imm) - 1 /\ \A i \in 1..Len(imm') : imm'[i] = imm[i + 1]
    BY <1>1, <2>2, QueueHead DEF TypeData
  <2>4. \A i \in 1..Len(imm') : i + 1 \in 1..Len(imm)
    BY <2>3
  <2>5. cseg > 0 => \A i \in 1..Len(imm') : imm'[i].seg # cseg
    BY <1>1, <2>3, <2>4 DEF Reserved
  <2> QED BY <1>1, <2>1, <2>2, <2>5 DEF Reserved
<1>FlushSave. CASE FlushSave
  BY <1>1, <1>FlushSave DEF FlushSave, Fault, ManifestFails, Reserved, TypeControl, CompactSteps,
     disk, mem, lsm, chans, mutex, writer, compact, history, bounds
<1>FlushCleanup. CASE FlushCleanup
  BY <1>1, <1>FlushCleanup DEF FlushCleanup, Fault, Reserved, TypeControl, CompactSteps, disk,
     mem, lsm, chans, mutex, writer, compact, history, bounds
<1>CompactWake. CASE CompactWake
  <2>1. UNCHANGED <<imm, activeSeg>>
    BY <1>CompactWake DEF CompactWake, mem
  <2>2. CASE cseg' = nextSeg /\ nextSeg' = nextSeg + 1 /\ cpc' = "merge"
    <3>1. \A j \in 1..Len(imm) : imm[j].seg \in Nat /\ imm[j].seg <= activeSeg
      <4>1. \A j \in 1..Len(imm) : imm[j].seg \in Nat
        BY <1>1, QueueSegments DEF TypeData
      <4> QED BY <1>1, <1>3, <4>1 DEF Queue
    <3>2. cseg' > 0 /\ cseg' < nextSeg' /\ cseg' # activeSeg' /\ \A j \in 1..Len(imm') : imm'[j].seg # cseg'
      BY <1>3, <2>1, <2>2, <3>1
    <3> QED BY <2>2, <3>2 DEF Reserved
  <2>3. CASE cpc' \in {"exit", "idle"} /\ UNCHANGED cseg
    BY <1>1, <1>3, <1>CompactWake, <2>1, <2>3 DEF Reserved, CompactWake
  <2> QED BY <1>CompactWake, <2>2, <2>3 DEF CompactWake
<1>CompactMerge. CASE CompactMerge
  <2>1. UNCHANGED <<imm, activeSeg, nextSeg, cseg>> /\ cpc = "merge"
    BY <1>CompactMerge DEF CompactMerge, mem
  <2>2. CASE cpc' = "exit"
    BY <1>1, <2>1, <2>2 DEF Reserved
  <2>3. CASE cpc' = "build"
    <3>1. couts' = [i \in 1..OutputCount(LiveKeys(sstFiles, Range(cinputs))) |-> cseg + i - 1]
      BY <1>CompactMerge, <2>3 DEF CompactMerge
    <3>2. OutputCount(LiveKeys(sstFiles, Range(cinputs))) \in Nat
      BY <1>3, OutputIDs
    <3>3. \A i \in 1..Len(couts') : couts'[i] = cseg + i - 1
      BY <3>1, <3>2
    <3> QED BY <1>1, <2>1, <2>3, <3>3 DEF Reserved
  <2> QED BY <1>CompactMerge, <2>2, <2>3 DEF CompactMerge
<1>CompactBuild. CASE CompactBuild
  <2>1. UNCHANGED <<imm, activeSeg, cseg, couts>> /\ cpc = "build" /\ cpc' = "save"
    BY <1>CompactBuild DEF CompactBuild, mem
  <2> QED BY <1>1, <1>3, <2>1 DEF Reserved
<1>CompactSave. CASE CompactSave
  BY <1>1, <1>CompactSave DEF CompactSave, Fault, ManifestFails, Reserved, TypeControl,
     CompactSteps, disk, mem, lsm, chans, mutex, writer, compact, history, bounds
<1>CompactCommit. CASE CompactCommit
  <2>1. cpc' = "idle" /\ cseg' = 0
    BY <1>CompactCommit DEF CompactCommit
  <2> QED BY <2>1 DEF Reserved
<1>CloseStart. CASE CloseStart
  BY <1>1, <1>CloseStart DEF CloseStart, Reserved, TypeControl, CompactSteps, disk, mem, lsm,
     chans, mutex, writer, compact, history, bounds
<1>CloseDrain. CASE CloseDrain
  BY <1>1, <1>CloseDrain DEF CloseDrain, Reserved, TypeControl, CompactSteps, disk, mem, lsm,
     chans, mutex, writer, compact, history, bounds
<1>CloseQueue. CASE CloseQueue
  <2>1. UNCHANGED <<cpc, cseg, couts>>
    BY <1>CloseQueue DEF CloseQueue, compact
  <2>2. imm' = Append(imm, [seg |-> activeSeg, data |-> memtable]) /\ activeSeg' \in {activeSeg, nextSeg}
    BY <1>CloseQueue DEF CloseQueue, FreezeActiveMemTable
  <2>3. /\ Len(imm) \in Nat /\ Len(imm') = Len(imm) + 1 /\ \A i \in 1..Len(imm) : imm'[i] = imm[i]
        /\ imm'[Len(imm) + 1].seg = activeSeg
    BY <1>1, <2>2, QueueAppend DEF TypeData, TypeSegments
  <2>4. \A i \in 1..Len(imm') : i \in 1..Len(imm) \/ i = Len(imm) + 1
    BY <2>3
  <2>5. cseg > 0 => \A i \in 1..Len(imm') : imm'[i].seg # cseg
    BY <1>1, <2>3, <2>4 DEF Reserved
  <2>6. cseg > 0 => cseg < nextSeg' /\ cseg # activeSeg'
    BY <1>1, <1>3, <2>2 DEF Reserved
  <2> QED BY <1>1, <2>1, <2>5, <2>6 DEF Reserved
<1>CloseSignal. CASE CloseSignal
  BY <1>1, <1>CloseSignal DEF CloseSignal, Reserved, TypeControl, CompactSteps, disk, mem, lsm,
     chans, mutex, writer, compact, history, bounds
<1>CloseFinish. CASE CloseFinish
  BY <1>1, <1>CloseFinish DEF CloseFinish, Reserved, TypeControl, CompactSteps, disk, mem, lsm,
     chans, mutex, writer, compact, history, bounds
<1>stutter. CASE UNCHANGED vars
  BY <1>1, <1>stutter DEF Reserved, TypeControl, CompactSteps, vars, disk, mem, lsm, chans,
     mutex, writer, compact, history, bounds
<1> QED
  BY Phases, <1>WriteBatch, <1>WriteRefused, <1>WriteFreeze, <1>SnapshotFreeze, <1>RotateWAL,
     <1>RotateBuild, <1>RotateSave, <1>WALAppend, <1>WALAppendFails, <1>WriteApply, <1>FlushWake,
     <1>FlushWrite, <1>FlushRegister, <1>FlushSave, <1>FlushCleanup, <1>CompactWake,
     <1>CompactMerge, <1>CompactBuild, <1>CompactSave, <1>CompactCommit, <1>CloseStart,
     <1>CloseDrain, <1>CloseQueue, <1>CloseSignal, <1>CloseFinish, <1>stutter
     DEF Foreground, Flush, Compaction, Closing, Running, Volatile

\* The output IDs of a compaction.
LEMMA ReservedStep == Inv /\ [Next]_vars => Reserved'
<1> SUFFICES ASSUME Inv, [Next]_vars PROVE Reserved'
  OBVIOUS
<1>1. Control /\ Reserved
  BY DEF Inv
<1>2. ASSUME cpc' = "idle", cseg' = 0 PROVE Reserved'
  BY <1>2 DEF Reserved
<1>3. CASE Running /\ Running'
  BY <1>3, RunningReservedStep
<1>4. CASE status' \in {"down", "failed"} /\ Volatile'
  BY <1>2, <1>4 DEF Volatile
<1>5. CASE /\ ~Running /\ status' \in {"recovering", "open"}
           /\ \/ Open \/ RecoverFlush \/ RecoverFlushSave \/ RecoverCleanup
              \/ RecoverNewSegment \/ RecoverCreate \/ RecoverResume
  <2>1. cpc = "idle"
    BY <1>1, <1>5 DEF Control, Volatile, Open, RecoverFlush, RecoverFlushSave, RecoverCleanup,
       RecoverNewSegment, RecoverCreate, RecoverResume
  <2>2. UNCHANGED <<cpc, cseg>>
    BY <1>5 DEF Open, RecoverFlush, RecoverFlushSave, RecoverCleanup, RecoverNewSegment,
       RecoverCreate,
       RecoverResume, OpenFails, compact
  <2> QED BY <1>1, <1>2, <2>1, <2>2 DEF Reserved
<1>6. CASE UNCHANGED vars
  BY <1>1, <1>6 DEF Reserved, vars, mem, compact
<1> QED BY <1>3, <1>4, <1>5, <1>6, Phases DEF Running

\* A weakness that was met stays recorded.
LEMMA ExposedGrows ==
  ASSUME [Next]_vars
  PROVE  exposed \subseteq exposed'
<1>1. CASE Foreground
  BY <1>1 DEF Foreground, WriteBatch, WriteRefused, WriteFreeze, SnapshotFreeze,
     FreezeActiveMemTable, RotateWAL, RotateBuild, RotateSave, ManifestFails, WALAppend,
     WALAppendFails, Log, WriteApply, Expose, history
<1>2. CASE Flush
  BY <1>2 DEF Flush, FlushWake, FlushWrite, FlushRegister, FlushSave, ManifestFails, FlushCleanup,
     Expose, history
<1>3. CASE Compaction
  BY <1>3 DEF Compaction, CompactWake, CompactMerge, CompactBuild, CompactSave, ManifestFails,
     CompactCommit, Expose, history
<1>4. CASE Closing
  BY <1>4 DEF Closing, CloseStart, CloseDrain, CloseQueue, CloseSignal, CloseFinish, Expose, history
<1>5. CASE Recover
  BY <1>5 DEF Recover, Stop, Open, RecoverFlush, RecoverFlushSave, RecoverCleanup,
     RecoverNewSegment, RecoverCreate, RecoverResume, Expose, history
<1>6. CASE UNCHANGED vars
  BY <1>6 DEF vars, Expose, history
<1> QED BY <1>1, <1>2, <1>3, <1>4, <1>5, <1>6 DEF Next

\* The LogWriter leaves its segment only when that is recorded.
LEMMA RolledStep == Inv /\ [Next]_vars => Rolled'
<1> SUFFICES ASSUME Inv, [Next]_vars PROVE Rolled'
  OBVIOUS
<1>1. Rolled /\ exposed \subseteq exposed'
  BY ExposedGrows DEF Inv
<1>2. CASE WALAppend \/ WALAppendFails
  <2>1. PICK records \in Tables : Log(records)
    BY <1>2, Appends
  <2>2. rolled' \in Nat /\ (rolled' = rolled \/ "wal_rotation" \in exposed')
    BY <2>1, LogWrites
  <2> QED BY <1>1, <2>2 DEF Rolled
<1>3. CASE Foreground /\ ~(WALAppend \/ WALAppendFails)
  BY <1>1, <1>3 DEF Rolled, Foreground, WriteBatch, WriteRefused, WriteFreeze, SnapshotFreeze,
     FreezeActiveMemTable, RotateWAL, RotateBuild, RotateSave, ManifestFails, WriteApply, mem
<1>4. CASE Flush
  BY <1>1, <1>4 DEF Rolled, Flush, FlushWake, FlushWrite, FlushRegister, FlushSave, ManifestFails, FlushCleanup,
     mem
<1>5. CASE Compaction
  BY <1>1, <1>5 DEF Rolled, Compaction, CompactWake, CompactMerge, CompactBuild, CompactSave, ManifestFails,
     CompactCommit, mem
<1>6. CASE Closing
  BY <1>1, <1>6 DEF Rolled, Closing, CloseStart, CloseDrain, CloseQueue, CloseSignal, CloseFinish, mem
<1>7. CASE Recover
  BY <1>1, <1>7 DEF Rolled, Recover, Stop, Open, RecoverFlush, RecoverFlushSave, RecoverCleanup,
     RecoverNewSegment, RecoverCreate, RecoverResume, OpenFails, ResetVolatile, mem
<1>8. CASE UNCHANGED vars
  BY <1>1, <1>8 DEF Rolled, vars, mem
<1> QED BY <1>2, <1>3, <1>4, <1>5, <1>6, <1>7, <1>8 DEF Next

\* The steps that touch SSTables, levels or the manifest.
LEMMA TableSteps == 
  ASSUME Inv, [Next]_vars, Running, Running'
  PROVE  \/ RotateSave \/ FlushWrite \/ FlushRegister \/ FlushSave \/ Compaction
         \/ /\ UNCHANGED <<sstFiles, l0, l1, manifest, cinputs, cseg, couts, cpc>>
            /\ fpc' = "register" => fpc = "register" /\ Head(imm') = Head(imm)
<1>1. TypeControl /\ TypeData /\ TypeSegments /\ Control
  BY DEF Inv, TypeInv
<1>WriteBatch. CASE WriteBatch
  BY <1>1, <1>WriteBatch DEF WriteBatch, TypeControl, FlushSteps, disk, mem, lsm, chans, mutex,
     writer, compact, history, bounds
<1>WriteRefused. CASE WriteRefused
  BY <1>1, <1>WriteRefused DEF WriteRefused, TypeControl, FlushSteps, disk, mem, lsm, chans,
     mutex, writer, compact, history, bounds
<1>WriteFreeze. CASE WriteFreeze
  <2>1. imm' = Append(imm, [seg |-> activeSeg, data |-> memtable])
    BY <1>WriteFreeze DEF WriteFreeze, FreezeActiveMemTable
  <2>2. imm # <<>> => Head(imm') = Head(imm)
    <3> SUFFICES ASSUME imm # <<>> PROVE Head(imm') = Head(imm)
      OBVIOUS
    <3>1. imm' # <<>> /\ imm' \in Seq([seg : Nat, data : Tables]) /\ \A i \in 1..Len(imm) : imm'[i] = imm[i]
      BY <1>1, <2>1, QueueAppend DEF TypeData, TypeSegments
    <3>2. Head(imm) = imm[1] /\ 1 \in 1..Len(imm) /\ Head(imm') = imm'[1]
      BY <1>1, <3>1, QueueHead, HeadTailProperties DEF TypeData
    <3> QED BY <3>1, <3>2
  <2>3. UNCHANGED <<sstFiles, l0, l1, manifest, cinputs, cseg, couts, cpc, fpc>>
    BY <1>WriteFreeze DEF WriteFreeze, disk, lsm, compact
  <2> QED BY <1>1, <2>2, <2>3 DEF Control
<1>SnapshotFreeze. CASE SnapshotFreeze
  <2>1. imm' = Append(imm, [seg |-> activeSeg, data |-> memtable])
    BY <1>SnapshotFreeze DEF SnapshotFreeze, FreezeActiveMemTable
  <2>2. imm # <<>> => Head(imm') = Head(imm)
    <3> SUFFICES ASSUME imm # <<>> PROVE Head(imm') = Head(imm)
      OBVIOUS
    <3>1. imm' # <<>> /\ imm' \in Seq([seg : Nat, data : Tables]) /\ \A i \in 1..Len(imm) : imm'[i] = imm[i]
      BY <1>1, <2>1, QueueAppend DEF TypeData, TypeSegments
    <3>2. Head(imm) = imm[1] /\ 1 \in 1..Len(imm) /\ Head(imm') = imm'[1]
      BY <1>1, <3>1, QueueHead, HeadTailProperties DEF TypeData
    <3> QED BY <3>1, <3>2
  <2>3. UNCHANGED <<sstFiles, l0, l1, manifest, cinputs, cseg, couts, cpc, fpc>>
    BY <1>SnapshotFreeze DEF SnapshotFreeze, disk, lsm, compact
  <2> QED BY <1>1, <2>2, <2>3 DEF Control
<1>RotateWAL. CASE RotateWAL
  BY <1>1, <1>RotateWAL DEF RotateWAL, Fault, TypeControl, FlushSteps, disk, mem, lsm, chans,
     mutex, writer, compact, history, bounds
<1>RotateBuild. CASE RotateBuild
  BY <1>1, <1>RotateBuild DEF RotateBuild, TypeControl, FlushSteps, disk, mem, lsm, chans, mutex,
     writer, compact, history, bounds
<1>RotateSave. CASE RotateSave
  BY <1>RotateSave
<1>WALAppend. CASE WALAppend
  BY <1>1, <1>WALAppend DEF WALAppend, TypeControl, FlushSteps, disk, mem, lsm, chans, mutex,
     writer, compact, history, bounds
<1>WALAppendFails. CASE WALAppendFails
  BY <1>1, <1>WALAppendFails DEF WALAppendFails, Fault, TypeControl, FlushSteps, disk, mem, lsm,
     chans, mutex, writer, compact, history, bounds
<1>WriteApply. CASE WriteApply
  BY <1>1, <1>WriteApply DEF WriteApply, TypeControl, FlushSteps, disk, mem, lsm, chans, mutex,
     writer, compact, history, bounds
<1>FlushWake. CASE FlushWake
  BY <1>1, <1>FlushWake DEF FlushWake, TypeControl, FlushSteps, disk, mem, lsm, chans, mutex,
     writer, compact, history, bounds
<1>FlushWrite. CASE FlushWrite
  BY <1>FlushWrite
<1>FlushRegister. CASE FlushRegister
  BY <1>FlushRegister
<1>FlushSave. CASE FlushSave
  BY <1>FlushSave
<1>FlushCleanup. CASE FlushCleanup
  BY <1>1, <1>FlushCleanup DEF FlushCleanup, Fault, TypeControl, FlushSteps, disk, mem, lsm,
     chans, mutex, writer, compact, history, bounds
<1>CompactWake. CASE CompactWake
  BY <1>CompactWake DEF Compaction
<1>CompactMerge. CASE CompactMerge
  BY <1>CompactMerge DEF Compaction
<1>CompactBuild. CASE CompactBuild
  BY <1>CompactBuild DEF Compaction
<1>CompactSave. CASE CompactSave
  BY <1>CompactSave DEF Compaction
<1>CompactCommit. CASE CompactCommit
  BY <1>CompactCommit DEF Compaction
<1>CloseStart. CASE CloseStart
  BY <1>1, <1>CloseStart DEF CloseStart, TypeControl, FlushSteps, disk, mem, lsm, chans, mutex,
     writer, compact, history, bounds
<1>CloseDrain. CASE CloseDrain
  BY <1>1, <1>CloseDrain DEF CloseDrain, TypeControl, FlushSteps, disk, mem, lsm, chans, mutex,
     writer, compact, history, bounds
<1>CloseQueue. CASE CloseQueue
  <2>1. imm' = Append(imm, [seg |-> activeSeg, data |-> memtable])
    BY <1>CloseQueue DEF CloseQueue, FreezeActiveMemTable
  <2>2. imm # <<>> => Head(imm') = Head(imm)
    <3> SUFFICES ASSUME imm # <<>> PROVE Head(imm') = Head(imm)
      OBVIOUS
    <3>1. imm' # <<>> /\ imm' \in Seq([seg : Nat, data : Tables]) /\ \A i \in 1..Len(imm) : imm'[i] = imm[i]
      BY <1>1, <2>1, QueueAppend DEF TypeData, TypeSegments
    <3>2. Head(imm) = imm[1] /\ 1 \in 1..Len(imm) /\ Head(imm') = imm'[1]
      BY <1>1, <3>1, QueueHead, HeadTailProperties DEF TypeData
    <3> QED BY <3>1, <3>2
  <2>3. UNCHANGED <<sstFiles, l0, l1, manifest, cinputs, cseg, couts, cpc, fpc>>
    BY <1>CloseQueue DEF CloseQueue, disk, lsm, compact
  <2> QED BY <1>1, <2>2, <2>3 DEF Control
<1>CloseSignal. CASE CloseSignal
  BY <1>1, <1>CloseSignal DEF CloseSignal, TypeControl, FlushSteps, disk, mem, lsm, chans, mutex,
     writer, compact, history, bounds
<1>CloseFinish. CASE CloseFinish
  BY <1>1, <1>CloseFinish DEF CloseFinish, TypeControl, FlushSteps, disk, mem, lsm, chans, mutex,
     writer, compact, history, bounds
<1>stutter. CASE UNCHANGED vars
  BY <1>1, <1>stutter DEF TypeControl, FlushSteps, vars, disk, mem, lsm, chans, mutex, writer,
     compact, history, bounds
<1> QED
  BY Phases, <1>WriteBatch, <1>WriteRefused, <1>WriteFreeze, <1>SnapshotFreeze, <1>RotateWAL,
     <1>RotateBuild, <1>RotateSave, <1>WALAppend, <1>WALAppendFails, <1>WriteApply, <1>FlushWake,
     <1>FlushWrite, <1>FlushRegister, <1>FlushSave, <1>FlushCleanup, <1>CompactWake,
     <1>CompactMerge, <1>CompactBuild, <1>CompactSave, <1>CompactCommit, <1>CloseStart,
     <1>CloseDrain, <1>CloseQueue, <1>CloseSignal, <1>CloseFinish, <1>stutter
     DEF Foreground, Flush, Compaction, Closing, Running, Volatile

\* The names of the outputs of a merge.
LEMMA OutputRange ==
  ASSUME NEW n \in Nat, NEW c \in Nat, NEW q, q = [i \in 1..n |-> c + i - 1]
  PROVE  Range(q) = c .. (c + n - 1)
<1>1. Range(q) = {q[i] : i \in 1..n}
  BY DEF Range
<1>2. Range(q) \subseteq c .. (c + n - 1)
  BY <1>1
<1>3. \A x \in c .. (c + n - 1) : x - c + 1 \in 1..n /\ q[x - c + 1] = x
  OBVIOUS
<1> QED BY <1>1, <1>2, <1>3

\* The two names of a sequence of IDs.
LEMMA ConcatRange ==
  ASSUME NEW s \in Seq(Nat), NEW q \in Seq(Nat)
  PROVE  Range(s \o q) = Range(s) \cup Range(q)
<1>1. /\ s \o q \in Seq(Nat) /\ Len(s) \in Nat /\ Len(q) \in Nat /\ Len(s \o q) = Len(s) + Len(q)
      /\ \A i \in 1..Len(s) + Len(q) : (s \o q)[i] = IF i <= Len(s) THEN s[i] ELSE q[i - Len(s)]
  BY ConcatProperties
<1>2. /\ Range(s) = {s[i] : i \in 1..Len(s)} /\ Range(q) = {q[i] : i \in 1..Len(q)}
      /\ Range(s \o q) = {(s \o q)[i] : i \in 1..Len(s) + Len(q)}
  <2>1. DOMAIN s = 1..Len(s) /\ DOMAIN q = 1..Len(q)
    BY LenProperties
  <2>2. DOMAIN (s \o q) = 1..Len(s) + Len(q)
    BY <1>1, LenProperties
  <2> QED BY <2>1, <2>2 DEF Range
<1>3. \A i \in 1..Len(s) : i \in 1..Len(s) + Len(q) /\ (s \o q)[i] = s[i]
  BY <1>1
<1>4. \A i \in 1..Len(q) : i + Len(s) \in 1..Len(s) + Len(q) /\ (s \o q)[i + Len(s)] = q[i]
  BY <1>1
<1>5. \A i \in 1..Len(s) + Len(q) : (s \o q)[i] \in Range(s) \/ (s \o q)[i] \in Range(q)
  <2> TAKE i \in 1..Len(s) + Len(q)
  <2>1. CASE i <= Len(s)
    BY <1>1, <1>2, <2>1
  <2>2. CASE ~(i <= Len(s))
    <3>1. i - Len(s) \in 1..Len(q) /\ (s \o q)[i] = q[i - Len(s)]
      BY <1>1, <2>2
    <3> QED BY <1>2, <3>1
  <2> QED BY <1>1, <2>1, <2>2
<1>6. Range(s) \subseteq Range(s \o q)
  BY <1>2, <1>3
<1>7. Range(q) \subseteq Range(s \o q)
  BY <1>2, <1>4
<1>8. Range(s \o q) \subseteq Range(s) \cup Range(q)
  BY <1>2, <1>5
<1> QED BY <1>6, <1>7, <1>8

\* The memtable being flushed is in no level and in no input of a compaction.
LEMMA HeadIsNew ==
  ASSUME Inv, Running, imm # <<>>
  PROVE  Head(imm).seg \in Nat /\ Head(imm).seg \notin Range(l0) /\ Head(imm).data \in Tables
<1>1. TypeData /\ TypeSegments /\ LevelZero
  BY DEF Inv, TypeInv
<1>2. Head(imm).seg \in Nat /\ Head(imm).data \in Tables /\ Head(imm) = imm[1] /\ 1 \in 1..Len(imm)
  BY <1>1, QueueHead DEF TypeData
<1> l0 \in Seq(Nat)
  BY <1>1 DEF TypeSegments
<1> \A i \in 1..Len(l0) : OlderThanMemory(l0[i])
  BY <1>1 DEF LevelZero
<1>3. l0 \in Seq(Nat) /\ \A i \in 1..Len(l0) : l0[i] \in Nat /\ l0[i] < Head(imm).seg
  BY <1>2 DEF OlderThanMemory
<1>4. Range(l0) = {l0[i] : i \in 1..Len(l0)}
  BY <1>3 DEF Range
<1> QED BY <1>2, <1>3, <1>4

\* The files of the outputs of a merge, whether or not it then fails.
LEMMA MergedFiles ==
  ASSUME Inv, NoCollision, CompactMerge,
         NEW outs, outs = cseg .. (cseg + OutputCount(LiveKeys(sstFiles, Range(cinputs))) - 1),
         DOMAIN sstFiles' = DOMAIN sstFiles \cup outs,
         \A id \in DOMAIN sstFiles \cup outs :
           sstFiles'[id] = IF id \in outs THEN MergeOutput(sstFiles, Range(cinputs), id - cseg + 1)
                           ELSE sstFiles[id]
  PROVE  \A id \in DOMAIN sstFiles' : sstFiles'[id] \in Tables
<1>1. LevelFiles /\ CompactionFiles /\ TypeSegments
  BY DEF Inv, TypeInv, Files
<1>2. Range(cinputs) \in SUBSET Nat /\ IsFiniteSet(Range(cinputs))
  BY <1>1, RangeFinite DEF TypeSegments
<1>3. \A id \in Range(cinputs) : sstFiles[id] \in Tables
  BY <1>1 DEF CompactMerge, CompactionFiles, LevelFiles
<1>4. \A i : MergeOutput(sstFiles, Range(cinputs), i) \in Tables
  BY <1>2, <1>3, MergeOutputType
<1>5. \A id \in DOMAIN sstFiles : sstFiles[id] \in Tables
  BY <1>1 DEF LevelFiles
<1> QED BY <1>4, <1>5

\* While the engine runs, the SSTables it needs are on disk.
LEMMA RunningFilesStep ==
  ASSUME Inv, [Next]_vars, Running, Running'
  PROVE  Files'
<1> SUFFICES ASSUME NoCollision'
             PROVE  LevelFiles' /\ CompactionFiles' /\ FlushFile' /\ ("dangling" \notin exposed' => DurableFiles')
  BY DEF Files
<1>1. TypeControl /\ TypeData /\ TypeSegments /\ Control /\ LevelZero /\ Pending
  BY DEF Inv, TypeInv
<1>2. NoCollision /\ ("dangling" \notin exposed' => "dangling" \notin exposed)
  BY ExposedGrows DEF NoCollision
<1>3. LevelFiles /\ CompactionFiles /\ FlushFile /\ ("dangling" \notin exposed => DurableFiles)
  BY <1>2 DEF Inv, Files
<1>4. rpc' = "none"
  BY ControlStep DEF Control, Running
<1>5. CASE /\ UNCHANGED <<sstFiles, l0, l1, manifest, cinputs, couts, cpc>>
           /\ fpc' = "register" => fpc = "register" /\ Head(imm') = Head(imm)
  BY <1>2, <1>3, <1>4, <1>5 DEF LevelFiles, CompactionFiles, FlushFile, DurableFiles
<1>6. ASSUME UNCHANGED <<sstFiles, l0, l1, cinputs, couts, cpc>>, fpc' # "register",
             manifest' = manifest \/ (manifest' = pending /\ manifestMu \in {"writer", "flush"})
      PROVE  LevelFiles' /\ CompactionFiles' /\ FlushFile' /\ ("dangling" \notin exposed' => DurableFiles')
  <2>1. manifestMu \in {"writer", "flush"} => ManifestFiles(pending) = Range(l0) \cup Range(l1)
    BY <1>1 DEF Pending, ManifestFiles
  <2>2. "dangling" \notin exposed' => DurableFiles'
    BY <1>2, <1>3, <1>4, <1>6, <2>1 DEF DurableFiles, LevelFiles, CompactionFiles
  <2> QED BY <1>3, <1>6, <2>2 DEF LevelFiles, CompactionFiles, FlushFile
<1>7. CASE RotateSave
  <2>1. UNCHANGED <<sstFiles, l0, l1, cinputs, couts, cpc, imm, fpc>> /\ manifestMu = "writer"
    BY <1>1, <1>7 DEF RotateSave, Control, lsm, compact, mem
  <2>2. manifest' = manifest \/ manifest' = pending
    BY <1>7 DEF RotateSave, ManifestFails
  <2>3. ManifestFiles(pending) = Range(l0) \cup Range(l1)
    BY <1>1, <2>1 DEF Pending, ManifestFiles
  <2>4. "dangling" \notin exposed' => DurableFiles'
    BY <1>2, <1>3, <1>4, <2>1, <2>2, <2>3 DEF DurableFiles, LevelFiles, CompactionFiles
  <2> QED BY <1>3, <2>1, <2>4 DEF LevelFiles, CompactionFiles, FlushFile
<1>8. CASE FlushSave
  <2>1. UNCHANGED <<sstFiles, l0, l1, cinputs, couts, cpc>> /\ fpc' # "register" /\ manifestMu = "flush"
    BY <1>1, <1>8 DEF FlushSave, Control, lsm, compact
  <2>2. manifest' = manifest \/ manifest' = pending
    BY <1>8 DEF FlushSave, ManifestFails
  <2> QED BY <1>6, <2>1, <2>2
<1>9. CASE FlushWrite
  <2> DEFINE h == Head(imm).seg
  <2>1. UNCHANGED <<l0, l1, manifest, cinputs, couts, cpc, imm>> /\ imm # <<>>
    BY <1>1, <1>9 DEF FlushWrite, Control, lsm, compact, mem
  <2>2. h \in Nat /\ Head(imm).data \in Tables
    BY <2>1, HeadIsNew
  <2>3. h \notin DOMAIN sstFiles
    BY <1>9 DEF FlushWrite, Expose, Collision, NoCollision
  <2>4. CASE sstFiles' = Set(sstFiles, h, Head(imm).data)
    <3>1. /\ DOMAIN sstFiles' = DOMAIN sstFiles \cup {h} /\ sstFiles'[h] = Head(imm).data
          /\ \A x \in DOMAIN sstFiles : x # h => sstFiles'[x] = sstFiles[x]
      <4> DEFINE t == Head(imm).data
      <4>1. sstFiles' = Set(sstFiles, h, t)
        BY <2>4
      <4> HIDE DEF h, t
      <4>2. /\ DOMAIN sstFiles' = DOMAIN sstFiles \cup {h} /\ sstFiles'[h] = t
            /\ \A x \in DOMAIN sstFiles : x # h => sstFiles'[x] = sstFiles[x]
        BY <4>1 DEF Set
      <4> QED BY <4>2 DEF t
    <3> HIDE DEF h
    <3>2. LevelFiles'
      BY <1>3, <2>1, <2>2, <3>1 DEF LevelFiles
    <3>3. CompactionFiles' /\ ("dangling" \notin exposed' => DurableFiles')
      BY <1>2, <1>3, <1>4, <2>1, <3>1 DEF CompactionFiles, DurableFiles
    <3>4. Head(imm').seg = h
      BY <2>1 DEF h
    <3>5. FlushFile'
      BY <1>3, <2>1, <2>3, <3>1, <3>4 DEF LevelFiles, CompactionFiles, FlushFile
    <3> QED BY <3>2, <3>3, <3>5
  <2>5. CASE sstFiles' = Without(sstFiles, {h}) /\ fpc' = "exit"
    <3>1. /\ DOMAIN sstFiles' = DOMAIN sstFiles \ {h}
          /\ \A x \in DOMAIN sstFiles \ {h} : sstFiles'[x] = sstFiles[x]
      BY <2>5, WithoutFiles
    <3>2. DOMAIN sstFiles' = DOMAIN sstFiles /\ \A x \in DOMAIN sstFiles : sstFiles'[x] = sstFiles[x]
      BY <2>3, <3>1
    <3> HIDE DEF h
    <3> QED BY <1>2, <1>3, <1>4, <2>1, <2>5, <3>2 DEF LevelFiles, CompactionFiles, FlushFile, DurableFiles
  <2> QED BY <1>9, <2>4, <2>5 DEF FlushWrite
<1>10. CASE FlushRegister
  <2> PICK h : h = Head(imm).seg
    OBVIOUS
  <2>1. UNCHANGED <<sstFiles, l1, manifest, cinputs, couts, cpc>> /\ fpc' = "save" /\ fpc = "register" /\ l0' = <<h>> \o l0
    BY <1>10 DEF FlushRegister, WithFlushed, disk, compact
  <2>2. h \in Nat
    BY <1>10, HeadOlder
  <2>3. Range(l0') = {h} \cup Range(l0)
    BY <1>1, <2>1, <2>2, Prepended DEF TypeSegments
  <2>4. h \in DOMAIN sstFiles /\ (cpc \in {"build", "save", "commit"} => h \notin Range(couts))
    BY <1>3, <2>1 DEF FlushFile
  <2> QED BY <1>2, <1>3, <1>4, <2>1, <2>3, <2>4 DEF LevelFiles, CompactionFiles, FlushFile, DurableFiles
<1>11. CASE CompactWake
  <2>1. UNCHANGED <<sstFiles, l0, l1, manifest, couts, fpc, imm>>
    BY <1>11 DEF CompactWake, disk, lsm, mem
  <2>2. CASE cpc' = "merge" /\ cinputs' = l0 \o l1
    <3>1. Range(cinputs') = Range(l0) \cup Range(l1)
      BY <1>1, <2>2, ConcatRange DEF TypeSegments
    <3>2. fpc = "register" => Head(imm).seg \notin Range(l0)
      BY <1>1, HeadIsNew DEF Control
    <3> QED BY <1>2, <1>3, <1>4, <2>1, <2>2, <3>1, <3>2 DEF LevelFiles, CompactionFiles, FlushFile, DurableFiles
  <2>3. CASE cpc' \in {"exit", "idle"}
    BY <1>2, <1>3, <1>4, <2>1, <2>3 DEF LevelFiles, CompactionFiles, FlushFile, DurableFiles
  <2> QED BY <1>11, <2>2, <2>3 DEF CompactWake
<1>12. CASE CompactMerge
  <2> DEFINE n == OutputCount(LiveKeys(sstFiles, Range(cinputs)))
             outs == cseg .. (cseg + n - 1)
  <2>1. UNCHANGED <<l0, l1, manifest, cinputs, fpc, imm>> /\ cpc = "merge"
    BY <1>12 DEF CompactMerge, lsm, mem
  <2>2. cseg \in Nat /\ n \in Nat
    BY <1>1, OutputIDs DEF TypeSegments
  <2>3. ASSUME sstFiles' = [id \in DOMAIN sstFiles \cup outs |->
                  IF id \in outs THEN MergeOutput(sstFiles, Range(cinputs), id - cseg + 1) ELSE sstFiles[id]]
        PROVE  DOMAIN sstFiles' = DOMAIN sstFiles \cup outs /\ \A id \in DOMAIN sstFiles' : sstFiles'[id] \in Tables
    <3>1. DOMAIN sstFiles' = DOMAIN sstFiles \cup outs
      BY <2>3
    <3>2. \A id \in DOMAIN sstFiles \cup outs :
            sstFiles'[id] = IF id \in outs THEN MergeOutput(sstFiles, Range(cinputs), id - cseg + 1) ELSE sstFiles[id]
      BY <2>3
    <3>3. \A id \in DOMAIN sstFiles' : sstFiles'[id] \in Tables
      BY <1>2, <1>12, <3>1, <3>2, MergedFiles
    <3> QED BY <3>1, <3>3
  <2>4. CASE cpc' = "build"
    <3>1. /\ sstFiles' = [id \in DOMAIN sstFiles \cup outs |->
                  IF id \in outs THEN MergeOutput(sstFiles, Range(cinputs), id - cseg + 1) ELSE sstFiles[id]]
          /\ couts' = [i \in 1..n |-> cseg + i - 1]
      BY <1>12, <2>4 DEF CompactMerge
    <3>2. outs \cap DOMAIN sstFiles = {}
      BY <1>12, <2>4 DEF CompactMerge, Expose, Collision, NoCollision
    <3>3. Range(couts') = outs
      BY <2>2, <3>1, OutputRange
    <3>4. DOMAIN sstFiles' = DOMAIN sstFiles \cup outs /\ \A id \in DOMAIN sstFiles' : sstFiles'[id] \in Tables
      BY <2>3, <3>1
    <3> HIDE DEF n, outs
    <3>5. LevelFiles' /\ CompactionFiles'
      BY <1>3, <2>1, <2>4, <3>2, <3>3, <3>4 DEF LevelFiles, CompactionFiles
    <3>6. FlushFile'
      BY <1>3, <2>1, <2>4, <3>2, <3>3, <3>4 DEF FlushFile
    <3>7. "dangling" \notin exposed' => DurableFiles'
      BY <1>2, <1>3, <1>4, <2>1, <2>4, <3>2, <3>3, <3>4 DEF DurableFiles
    <3> QED BY <3>5, <3>6, <3>7
  <2>5. CASE cpc' = "exit"
    <3>1. \/ sstFiles' = [id \in DOMAIN sstFiles \cup outs |->
                  IF id \in outs THEN MergeOutput(sstFiles, Range(cinputs), id - cseg + 1) ELSE sstFiles[id]]
          \/ \E begun : sstFiles' = Without(sstFiles, begun) /\ Expose(Collision(begun))
      BY <1>12, <2>5 DEF CompactMerge
    <3>2. DOMAIN sstFiles \subseteq DOMAIN sstFiles' /\ \A id \in DOMAIN sstFiles' : sstFiles'[id] \in Tables
      <4>1. ASSUME NEW begun, sstFiles' = Without(sstFiles, begun), Expose(Collision(begun))
            PROVE  DOMAIN sstFiles' = DOMAIN sstFiles /\ \A id \in DOMAIN sstFiles' : sstFiles'[id] \in Tables
        <5>1. begun \cap DOMAIN sstFiles = {}
          BY <4>1 DEF Expose, Collision, NoCollision
        <5>2. /\ DOMAIN sstFiles' = DOMAIN sstFiles \ begun
              /\ \A x \in DOMAIN sstFiles \ begun : sstFiles'[x] = sstFiles[x]
          BY <4>1, WithoutFiles
        <5> QED BY <1>3, <5>1, <5>2 DEF LevelFiles
      <4> QED BY <2>3, <3>1, <4>1
    <3> HIDE DEF n, outs
    <3> QED BY <1>2, <1>3, <1>4, <2>1, <2>5, <3>2 DEF LevelFiles, CompactionFiles, FlushFile, DurableFiles
  <2> QED BY <1>12, <2>4, <2>5 DEF CompactMerge
<1>13. CASE CompactBuild
  <2>1. UNCHANGED <<sstFiles, l0, l1, manifest, cinputs, couts, fpc, imm>> /\ cpc = "build" /\ cpc' = "save"
    BY <1>13 DEF CompactBuild, disk, lsm, mem
  <2> QED BY <1>2, <1>3, <1>4, <2>1 DEF LevelFiles, CompactionFiles, FlushFile, DurableFiles
<1>14. CASE CompactSave
  <2>1. UNCHANGED <<l0, l1, cinputs, couts, fpc, imm>> /\ cpc = "save" /\ manifestMu = "compaction"
    BY <1>1, <1>14 DEF CompactSave, Control, lsm, mem
  <2>2. CASE manifest' = pending /\ cpc' = "commit" /\ UNCHANGED sstFiles
    <3>1. ManifestFiles(pending) \subseteq Range(l0) \cup Range(couts)
      BY <1>1, <2>1 DEF Pending, ManifestFiles
    <3> QED BY <1>2, <1>3, <1>4, <2>1, <2>2, <3>1 DEF LevelFiles, CompactionFiles, FlushFile, DurableFiles
  <2>3. CASE /\ cpc' = "exit" /\ sstFiles' = Without(sstFiles, Range(couts))
             /\ Expose(IF manifest' # manifest THEN {"dangling"} ELSE {})
    <3>1. /\ DOMAIN sstFiles' = DOMAIN sstFiles \ Range(couts)
          /\ \A x \in DOMAIN sstFiles \ Range(couts) : sstFiles'[x] = sstFiles[x]
      BY <2>3, WithoutFiles
    <3>2. "dangling" \notin exposed' => manifest' = manifest
      BY <2>3 DEF Expose
    <3>3. LevelFiles' /\ CompactionFiles'
      BY <1>3, <2>1, <2>3, <3>1 DEF LevelFiles, CompactionFiles
    <3>4. FlushFile'
      BY <1>3, <2>1, <2>3, <3>1 DEF FlushFile
    <3>5. "dangling" \notin exposed' => DurableFiles'
      BY <1>2, <1>3, <1>4, <2>1, <2>3, <3>1, <3>2 DEF DurableFiles
    <3> QED BY <3>3, <3>4, <3>5
  <2> QED BY <1>14, <2>2, <2>3 DEF CompactSave
<1>15. CASE CompactCommit
  <2>1. /\ UNCHANGED <<manifest, fpc, imm>> /\ cpc = "commit" /\ cpc' = "idle" /\ l0' = pending.l0 /\ l1' = couts
        /\ sstFiles' = Without(sstFiles, Range(cinputs)) /\ manifestMu = "compaction"
    BY <1>1, <1>15 DEF CompactCommit, Control, mem
  <2>2. /\ DOMAIN sstFiles' = DOMAIN sstFiles \ Range(cinputs)
        /\ \A x \in DOMAIN sstFiles \ Range(cinputs) : sstFiles'[x] = sstFiles[x]
    BY <2>1, WithoutFiles
  <2>3. /\ Range(pending.l0) \subseteq Range(l0) /\ Range(pending.l0) \cap Range(cinputs) = {}
        /\ pending.l1 = couts /\ manifest = pending
    BY <1>1, <2>1 DEF Pending
  <2>4. ManifestFiles(manifest) = Range(pending.l0) \cup Range(couts)
    BY <2>3 DEF ManifestFiles
  <2>5. LevelFiles' /\ CompactionFiles'
    BY <1>3, <2>1, <2>2, <2>3 DEF LevelFiles, CompactionFiles
  <2>6. FlushFile'
    BY <1>3, <2>1, <2>2 DEF FlushFile
  <2>7. "dangling" \notin exposed' => DurableFiles'
    BY <1>3, <1>4, <2>1, <2>2, <2>3, <2>4 DEF DurableFiles, LevelFiles, CompactionFiles
  <2> QED BY <2>5, <2>6, <2>7
<1> QED BY <1>5, <1>7, <1>8, <1>9, <1>10, <1>11, <1>12, <1>13, <1>14, <1>15, TableSteps DEF Compaction

\* The SSTables the engine needs.
LEMMA FilesStep == Inv /\ [Next]_vars => Files'
<1> SUFFICES ASSUME Inv, [Next]_vars, ~Running \/ ~Running', NoCollision'
             PROVE  LevelFiles' /\ CompactionFiles' /\ FlushFile' /\ ("dangling" \notin exposed' => DurableFiles')
  BY RunningFilesStep DEF Files
<1>1. TypeControl /\ TypeData /\ TypeSegments /\ Control /\ Disk
  BY DEF Inv, TypeInv
<1>2. NoCollision /\ ("dangling" \notin exposed' => "dangling" \notin exposed)
  BY ExposedGrows DEF NoCollision
<1>3. LevelFiles /\ CompactionFiles /\ FlushFile /\ ("dangling" \notin exposed => DurableFiles)
  BY <1>2 DEF Inv, Files
<1>4. CASE UNCHANGED vars
  BY <1>2, <1>3, <1>4 DEF LevelFiles, CompactionFiles, FlushFile, DurableFiles, vars, disk, lsm, compact, mem
<1> SUFFICES ASSUME ~UNCHANGED vars
             PROVE  LevelFiles' /\ CompactionFiles' /\ FlushFile' /\ ("dangling" \notin exposed' => DurableFiles')
  BY <1>4
<1>5. cpc' = "idle" /\ fpc' = "idle"
  <2>1. CASE status' \in {"down", "failed", "recovering"}
    BY <2>1, ControlStep DEF Control, Volatile
  <2>2. CASE status = "recovering" /\ (RecoverCreate \/ RecoverResume) /\ status' = "open"
    BY <1>1, <2>2 DEF RecoverCreate, RecoverResume, OpenFails, Control, compact
  <2> QED BY <2>1, <2>2, Phases DEF Running
<1>6. CompactionFiles' /\ FlushFile'
  BY <1>5 DEF CompactionFiles, FlushFile
<1>7. ASSUME DOMAIN sstFiles' \subseteq DOMAIN sstFiles, \A id \in DOMAIN sstFiles' : sstFiles'[id] = sstFiles[id],
             l0' = <<>>, l1' = <<>>
      PROVE  LevelFiles'
  <2>1. Range(l0') = {} /\ Range(l1') = {}
    BY <1>7 DEF Range
  <2> QED BY <1>3, <1>7, <2>1 DEF LevelFiles
<1>8. ManifestFiles(CurrentManifest) = Range(l0) \cup Range(l1)
  BY DEF ManifestFiles, CurrentManifest
<1>9. CASE Stop
  <2>1. UNCHANGED <<sstFiles, manifest>> /\ l0' = <<>> /\ l1' = <<>> /\ rpc' = "none"
    BY <1>9 DEF Stop, ResetVolatile, disk
  <2> QED BY <1>2, <1>3, <1>5, <1>6, <1>7, <2>1 DEF DurableFiles
<1>10. CASE Open
  <2>1. /\ DOMAIN sstFiles' = DOMAIN sstFiles \cap ManifestFiles(manifest)
        /\ \A id \in DOMAIN sstFiles' : sstFiles'[id] = sstFiles[id]
    BY <1>10 DEF Open, Restrict, ActiveSSTs, ManifestFiles
  <2>2. UNCHANGED manifest
    BY <1>10 DEF Open
  <2>3. CASE /\ ManifestFiles(manifest) \subseteq DOMAIN sstFiles' /\ l0' = manifest.l0 /\ l1' = manifest.l1
             /\ rpc' \in {"flush", "newseg", "create"}
    <3>1. LevelFiles'
      BY <1>3, <2>1, <2>3 DEF LevelFiles, ManifestFiles
    <3>2. DurableFiles'
      BY <1>5, <2>2, <2>3 DEF DurableFiles
    <3> QED BY <1>6, <3>1, <3>2
  <2>4. CASE /\ ~(ManifestFiles(manifest) \subseteq DOMAIN sstFiles') /\ UNCHANGED <<l0, l1, exposed>> /\ status = "down"
    <3>1. l0' = <<>> /\ l1' = <<>>
      BY <1>1, <2>4 DEF Control, Volatile
    <3>2. LevelFiles'
      BY <1>7, <2>1, <3>1
    <3>3. "dangling" \in exposed'
      BY <1>3, <2>1, <2>4 DEF DurableFiles
    <3> QED BY <1>6, <3>2, <3>3
  <2> QED BY <1>10, <2>3, <2>4 DEF Open, lsm
<1>11. CASE RecoverFlush
  <2>1. CASE /\ sstFiles' = Set(sstFiles, nextSeg, memtable) /\ l0' = <<nextSeg>> \o l0 /\ UNCHANGED <<l1, manifest>>
             /\ nextSeg \notin DOMAIN sstFiles
    <3>1. /\ DOMAIN sstFiles' = DOMAIN sstFiles \cup {nextSeg} /\ sstFiles'[nextSeg] = memtable
          /\ \A x \in DOMAIN sstFiles : x # nextSeg => sstFiles'[x] = sstFiles[x]
      BY <2>1 DEF Set
    <3>2. Range(l0') = {nextSeg} \cup Range(l0) /\ Head(l0') = nextSeg /\ l0' # <<>>
      <4>1. /\ l0 \in Seq(Nat) /\ nextSeg \in Nat
        BY <1>1 DEF TypeSegments
      <4>2. /\ l0' \in Seq(Nat) /\ Len(l0) \in Nat /\ Len(l0') = Len(l0) + 1
            /\ Range(l0') = {nextSeg} \cup Range(l0) /\ Head(l0') = nextSeg
        BY <2>1, <4>1, Prepended
      <4> QED BY <4>2
    <3>3. memtable \in Tables
      BY <1>1 DEF TypeData
    <3>4. LevelFiles'
      BY <1>3, <2>1, <3>1, <3>2, <3>3 DEF LevelFiles
    <3>5. "dangling" \notin exposed' => DurableFiles'
      BY <1>2, <1>3, <1>5, <2>1, <3>1, <3>2 DEF DurableFiles
    <3> QED BY <1>6, <3>4, <3>5
  <2>2. CASE UNCHANGED <<sstFiles, manifest>> /\ OpenFails
    <3>1. l0' = <<>> /\ l1' = <<>> /\ rpc' = "none"
      BY <2>2 DEF OpenFails, ResetVolatile
    <3> QED BY <1>2, <1>3, <1>5, <1>6, <1>7, <2>2, <3>1 DEF DurableFiles
  <2> QED BY <1>11, <2>1, <2>2 DEF RecoverFlush, Expose, Collision, NoCollision
<1>12. CASE RecoverFlushSave
  <2>1. CASE manifest' = CurrentManifest /\ rpc' = "cleanup" /\ UNCHANGED <<sstFiles, l0, l1>>
    BY <1>3, <1>5, <1>6, <1>8, <2>1 DEF LevelFiles, DurableFiles
  <2>2. CASE /\ sstFiles' = Without(sstFiles, {Head(l0)}) /\ OpenFails
             /\ Expose(IF manifest' # manifest THEN {"dangling"} ELSE {})
    <3>1. l0' = <<>> /\ l1' = <<>> /\ rpc' = "none" /\ rpc = "flushSave"
      BY <1>12, <2>2 DEF OpenFails, ResetVolatile, RecoverFlushSave
    <3>2. /\ DOMAIN sstFiles' = DOMAIN sstFiles \ {Head(l0)}
          /\ \A x \in DOMAIN sstFiles' : sstFiles'[x] = sstFiles[x]
      <4>1. /\ DOMAIN sstFiles' = DOMAIN sstFiles \ {Head(l0)}
            /\ \A x \in DOMAIN sstFiles \ {Head(l0)} : sstFiles'[x] = sstFiles[x]
        BY <2>2, WithoutFiles
      <4> QED BY <4>1
    <3>3. "dangling" \notin exposed' => manifest' = manifest
      BY <2>2 DEF Expose
    <3>4. LevelFiles'
      BY <1>7, <3>1, <3>2
    <3>5. "dangling" \notin exposed' => DurableFiles'
      BY <1>2, <1>3, <1>5, <3>1, <3>2, <3>3 DEF DurableFiles
    <3> QED BY <1>6, <3>4, <3>5
  <2> QED BY <1>12, <2>1, <2>2 DEF RecoverFlushSave, lsm
<1>13. CASE /\ RecoverCleanup \/ RecoverNewSegment \/ RecoverCreate \/ RecoverResume
  <2> DEFINE m == [CurrentManifest EXCEPT !.next = nextSeg + 1]
  <2>1. ManifestFiles(m) = Range(l0) \cup Range(l1)
    BY DEF ManifestFiles, CurrentManifest
  <2>2. UNCHANGED sstFiles /\ manifest' \in {manifest, CurrentManifest, m} /\ rpc' # "flushSave"
    BY <1>13 DEF RecoverCleanup, RecoverNewSegment, RecoverCreate, RecoverResume, ManifestFails, OpenFails, ResetVolatile
  <2>3. UNCHANGED <<l0, l1>> \/ (l0' = <<>> /\ l1' = <<>>)
    BY <1>13 DEF RecoverCleanup, RecoverNewSegment, RecoverCreate, RecoverResume, OpenFails, ResetVolatile, lsm
  <2> HIDE DEF m
  <2>4. LevelFiles'
    <3>1. CASE UNCHANGED <<l0, l1>>
      BY <1>3, <2>2, <3>1 DEF LevelFiles
    <3>2. CASE l0' = <<>> /\ l1' = <<>>
      BY <1>7, <2>2, <3>2
    <3> QED BY <2>3, <3>1, <3>2
  <2>5. "dangling" \notin exposed' => DurableFiles'
    BY <1>2, <1>3, <1>5, <1>8, <2>1, <2>2 DEF DurableFiles, LevelFiles
  <2> QED BY <1>6, <2>4, <2>5
<1> QED BY <1>9, <1>10, <1>11, <1>12, <1>13, Phases DEF Recover, Running

\* No step changes a file in place, unless two workers write the same name.
LEMMA TablesKept == 
  ASSUME [Next]_vars, NoCollision'
  PROVE  \A id \in DOMAIN sstFiles \cap DOMAIN sstFiles' : sstFiles'[id] = sstFiles[id]
<1>WriteBatch. CASE WriteBatch
  BY <1>WriteBatch DEF WriteBatch, disk
<1>WriteRefused. CASE WriteRefused
  BY <1>WriteRefused DEF WriteRefused, disk
<1>WriteFreeze. CASE WriteFreeze
  BY <1>WriteFreeze DEF WriteFreeze, disk
<1>SnapshotFreeze. CASE SnapshotFreeze
  BY <1>SnapshotFreeze DEF SnapshotFreeze, disk
<1>RotateWAL. CASE RotateWAL
  BY <1>RotateWAL DEF RotateWAL, disk
<1>RotateBuild. CASE RotateBuild
  BY <1>RotateBuild DEF RotateBuild, disk
<1>RotateSave. CASE RotateSave
  BY <1>RotateSave DEF RotateSave, disk
<1>WALAppend. CASE WALAppend
  BY <1>WALAppend DEF WALAppend, disk
<1>WALAppendFails. CASE WALAppendFails
  BY <1>WALAppendFails DEF WALAppendFails, disk
<1>WriteApply. CASE WriteApply
  BY <1>WriteApply DEF WriteApply, disk
<1>FlushWake. CASE FlushWake
  BY <1>FlushWake DEF FlushWake, disk
<1>FlushWrite. CASE FlushWrite
  <2> DEFINE h == Head(imm).seg
  <2>1. h \notin DOMAIN sstFiles
    BY <1>FlushWrite DEF FlushWrite, Expose, Collision, NoCollision
  <2>2. CASE sstFiles' = Set(sstFiles, h, Head(imm).data)
    BY <2>1, <2>2 DEF Set
  <2>3. CASE sstFiles' = Without(sstFiles, {h})
    BY <2>3 DEF Without, Restrict
  <2> QED BY <1>FlushWrite, <2>2, <2>3 DEF FlushWrite
<1>FlushRegister. CASE FlushRegister
  BY <1>FlushRegister DEF FlushRegister, disk
<1>FlushSave. CASE FlushSave
  BY <1>FlushSave DEF FlushSave, disk
<1>FlushCleanup. CASE FlushCleanup
  BY <1>FlushCleanup DEF FlushCleanup, disk
<1>CompactWake. CASE CompactWake
  BY <1>CompactWake DEF CompactWake, disk
<1>CompactMerge. CASE CompactMerge
  <2> DEFINE outs == cseg .. (cseg + OutputCount(LiveKeys(sstFiles, Range(cinputs))) - 1)
  <2>1. CASE /\ outs \cap DOMAIN sstFiles = {}
             /\ sstFiles' = [id \in DOMAIN sstFiles \cup outs |->
                  IF id \in outs THEN MergeOutput(sstFiles, Range(cinputs), id - cseg + 1) ELSE sstFiles[id]]
    BY <2>1
  <2>2. CASE \E begun : sstFiles' = Without(sstFiles, begun)
    <3>1. PICK begun : sstFiles' = Without(sstFiles, begun)
      BY <2>2
    <3> QED BY <3>1 DEF Without, Restrict
  <2> QED BY <1>CompactMerge, <2>1, <2>2 DEF CompactMerge, Expose, Collision, NoCollision
<1>CompactBuild. CASE CompactBuild
  BY <1>CompactBuild DEF CompactBuild, disk
<1>CompactSave. CASE CompactSave
  <2>1. UNCHANGED sstFiles \/ sstFiles' = Without(sstFiles, Range(couts))
    BY <1>CompactSave DEF CompactSave
  <2> QED BY <2>1 DEF Without, Restrict
<1>CompactCommit. CASE CompactCommit
  <2>1. sstFiles' = Without(sstFiles, Range(cinputs))
    BY <1>CompactCommit DEF CompactCommit
  <2> QED BY <2>1 DEF Without, Restrict
<1>CloseStart. CASE CloseStart
  BY <1>CloseStart DEF CloseStart, disk
<1>CloseDrain. CASE CloseDrain
  BY <1>CloseDrain DEF CloseDrain, disk
<1>CloseQueue. CASE CloseQueue
  BY <1>CloseQueue DEF CloseQueue, disk
<1>CloseSignal. CASE CloseSignal
  BY <1>CloseSignal DEF CloseSignal, disk
<1>CloseFinish. CASE CloseFinish
  BY <1>CloseFinish DEF CloseFinish, disk
<1>Stop. CASE Stop
  BY <1>Stop DEF Stop, disk
<1>Open. CASE Open
  BY <1>Open DEF Open, Restrict
<1>RecoverFlush. CASE RecoverFlush
  <2>1. \/ UNCHANGED sstFiles
        \/ nextSeg \notin DOMAIN sstFiles /\ sstFiles' = Set(sstFiles, nextSeg, memtable)
    BY <1>RecoverFlush DEF RecoverFlush, Expose, Collision, NoCollision
  <2> QED BY <2>1 DEF Set
<1>RecoverFlushSave. CASE RecoverFlushSave
  <2>1. UNCHANGED sstFiles \/ sstFiles' = Without(sstFiles, {Head(l0)})
    BY <1>RecoverFlushSave DEF RecoverFlushSave
  <2> QED BY <2>1 DEF Without, Restrict
<1>RecoverCleanup. CASE RecoverCleanup
  BY <1>RecoverCleanup DEF RecoverCleanup, disk
<1>RecoverNewSegment. CASE RecoverNewSegment
  BY <1>RecoverNewSegment DEF RecoverNewSegment, disk
<1>RecoverCreate. CASE RecoverCreate
  BY <1>RecoverCreate DEF RecoverCreate, disk
<1>RecoverResume. CASE RecoverResume
  BY <1>RecoverResume DEF RecoverResume, disk
<1>stutter. CASE UNCHANGED vars
  BY <1>stutter DEF disk, vars, disk, mem, lsm, chans, mutex, writer, compact, history, bounds
<1> QED
  BY <1>WriteBatch, <1>WriteRefused, <1>WriteFreeze, <1>SnapshotFreeze, <1>RotateWAL,
     <1>RotateBuild, <1>RotateSave, <1>WALAppend, <1>WALAppendFails, <1>WriteApply, <1>FlushWake,
     <1>FlushWrite, <1>FlushRegister, <1>FlushSave, <1>FlushCleanup, <1>CompactWake,
     <1>CompactMerge, <1>CompactBuild, <1>CompactSave, <1>CompactCommit, <1>CloseStart,
     <1>CloseDrain, <1>CloseQueue, <1>CloseSignal, <1>CloseFinish, <1>Stop, <1>Open,
     <1>RecoverFlush, <1>RecoverFlushSave, <1>RecoverCleanup, <1>RecoverNewSegment,
     <1>RecoverCreate, <1>RecoverResume, <1>stutter
     DEF Next, Foreground, Flush, Compaction, Closing, Recover

\* A sequence of files stays in key order while they are kept.
LEMMA OrderedKept ==
  ASSUME [Next]_vars, NoCollision', NEW ids \in Seq(Nat),
         Range(ids) \subseteq DOMAIN sstFiles, Range(ids) \subseteq DOMAIN sstFiles', Ordered(ids)
  PROVE  Ordered(ids)'
<1>1. \A i \in 1..Len(ids) : ids[i] \in Range(ids)
  BY DEF Range
<1>2. \A i \in 1..Len(ids) : sstFiles'[ids[i]] = sstFiles[ids[i]]
  BY <1>1, TablesKept
<1> QED BY <1>2 DEF Ordered

\* What the compaction worker changes.
LEMMA CompactionSteps ==
  ASSUME Inv, [Next]_vars, Running, Running'
  PROVE  /\ cpc' \in {"idle", "merge", "build", "save"} => cpc \in {"idle", "merge", "build", "save"} \/ CompactCommit
         /\ cpc' \in {"build", "save", "commit"} =>
              CompactMerge \/ (cpc \in {"build", "save", "commit"} /\ UNCHANGED couts)
         /\ cpc = "exit" => UNCHANGED <<cpc, cseg>> /\ ~Compaction
<1>1. CASE RotateSave
  BY <1>1 DEF RotateSave, compact, writer, Compaction, CompactWake, CompactMerge, CompactBuild, CompactSave, CompactCommit
<1>2. CASE FlushWrite
  BY <1>2 DEF FlushWrite, compact, Compaction, CompactWake, CompactMerge, CompactBuild, CompactSave, CompactCommit
<1>3. CASE FlushRegister
  BY <1>3 DEF FlushRegister, compact, Compaction, CompactWake, CompactMerge, CompactBuild, CompactSave, CompactCommit
<1>4. CASE FlushSave
  BY <1>4 DEF FlushSave, compact, Compaction, CompactWake, CompactMerge, CompactBuild, CompactSave, CompactCommit
<1>5. CASE Compaction
  BY <1>5 DEF Compaction, CompactWake, CompactMerge, CompactBuild, CompactSave, CompactCommit
<1>6. CASE UNCHANGED <<sstFiles, l0, l1, manifest, cinputs, cseg, couts, cpc>>
  BY <1>6 DEF Compaction, CompactWake, CompactMerge, CompactBuild, CompactSave, CompactCommit
<1> QED BY <1>1, <1>2, <1>3, <1>4, <1>5, <1>6, TableSteps

\* Which files come and go while the engine runs.
LEMMA TableDomains ==
  ASSUME Inv, [Next]_vars, Running, Running', NoCollision', ~CompactSave, ~CompactCommit
  PROVE  /\ DOMAIN sstFiles \subseteq DOMAIN sstFiles'
         /\ ~Compaction => UNCHANGED (DOMAIN sstFiles) \/
              (imm # <<>> /\ DOMAIN sstFiles' = DOMAIN sstFiles \cup {Head(imm).seg})
<1>1. CASE FlushWrite
  <2> DEFINE h == Head(imm).seg
  <2>1. h \notin DOMAIN sstFiles /\ imm # <<>>
    BY <1>1 DEF FlushWrite, Expose, Collision, NoCollision, Inv, Control
  <2>2. \/ sstFiles' = Set(sstFiles, h, Head(imm).data)
        \/ sstFiles' = Without(sstFiles, {h})
    BY <1>1 DEF FlushWrite
  <2>3. CASE sstFiles' = Set(sstFiles, h, Head(imm).data)
    BY <2>1, <2>3 DEF Set
  <2>4. CASE sstFiles' = Without(sstFiles, {h})
    BY <2>1, <2>4 DEF Without, Restrict
  <2> QED BY <2>2, <2>3, <2>4
<1>2. CASE Compaction
  <2>1. CASE CompactMerge
    <3> DEFINE outs == cseg .. (cseg + OutputCount(LiveKeys(sstFiles, Range(cinputs))) - 1)
    <3>1. \/ sstFiles' = [id \in DOMAIN sstFiles \cup outs |->
               IF id \in outs THEN MergeOutput(sstFiles, Range(cinputs), id - cseg + 1) ELSE sstFiles[id]]
          \/ \E begun : sstFiles' = Without(sstFiles, begun) /\ Expose(Collision(begun))
      BY <2>1 DEF CompactMerge
    <3> HIDE DEF outs
    <3>2. ASSUME NEW begun, sstFiles' = Without(sstFiles, begun), Expose(Collision(begun))
          PROVE  DOMAIN sstFiles \subseteq DOMAIN sstFiles'
      <4>1. begun \cap DOMAIN sstFiles = {}
        BY <3>2 DEF Expose, Collision, NoCollision
      <4> QED BY <3>2, <4>1 DEF Without, Restrict
    <3> QED BY <1>2, <3>1, <3>2
  <2>2. CASE CompactWake \/ CompactBuild
    BY <1>2, <2>2 DEF CompactWake, CompactBuild, disk
  <2> QED BY <1>2, <2>1, <2>2 DEF Compaction
<1>3. CASE UNCHANGED sstFiles
  BY <1>3
<1> QED BY <1>1, <1>2, <1>3, TableSteps DEF RotateSave, FlushRegister, FlushSave, disk

\* The outputs of a merge are in key order.
LEMMA MergeOrdered ==
  ASSUME Inv, NoCollision, CompactMerge, cpc' = "build"
  PROVE  Ordered(couts)'
<1> DEFINE n == OutputCount(LiveKeys(sstFiles, Range(cinputs)))
           outs == cseg .. (cseg + n - 1)
<1>1. /\ sstFiles' = [id \in DOMAIN sstFiles \cup outs |->
              IF id \in outs THEN MergeOutput(sstFiles, Range(cinputs), id - cseg + 1) ELSE sstFiles[id]]
      /\ couts' = [i \in 1..n |-> cseg + i - 1]
  BY DEF CompactMerge
<1>2. cseg \in Nat /\ n \in Nat
  BY OutputIDs DEF Inv, TypeInv, TypeSegments
<1>3. Len(couts') = n /\ \A i \in 1..n : couts'[i] = cseg + i - 1 /\ couts'[i] \in outs /\ couts'[i] - cseg + 1 = i
  <2> HIDE DEF n
  <2> QED BY <1>1, <1>2
<1>4. \A i \in 1..n : sstFiles'[couts'[i]] = MergeOutput(sstFiles, Range(cinputs), i)
  <2> TAKE i \in 1..n
  <2> HIDE DEF n, outs
  <2>1. couts'[i] \in outs /\ couts'[i] - cseg + 1 = i
    BY <1>3
  <2> QED BY <1>1, <2>1
<1> HIDE DEF n, outs
<1>5. \A i, j \in 1..n : i < j =>
        \A a \in KeysOf(sstFiles'[couts'[i]]), b \in KeysOf(sstFiles'[couts'[j]]) : a < b
  <2> TAKE i, j \in 1..n
  <2> HAVE i < j
  <2>1. i \in Nat /\ j \in Nat
    BY <1>2
  <2>2. \A a \in KeysOf(MergeOutput(sstFiles, Range(cinputs), i)),
           b \in KeysOf(MergeOutput(sstFiles, Range(cinputs), j)) : a < b
    BY <2>1, OutputsInKeyOrder
  <2> QED BY <1>4, <2>2
<1> QED BY <1>3, <1>5 DEF Ordered

\* While the engine runs, Level 1 stays in key order.
LEMMA RunningLevelOneStep ==
  ASSUME Inv, [Next]_vars, Running, Running'
  PROVE  LevelOne'
<1>1. TypeControl /\ TypeData /\ TypeSegments /\ Control /\ Pending /\ LevelOne /\ Reserved
  BY DEF Inv, TypeInv
<1>2. rpc' = "none"
  BY ControlStep DEF Control, Running
<1>3. l1 \in Seq(Nat) /\ couts \in Seq(Nat) /\ manifest.l1 \in Seq(Nat)
  BY <1>1 DEF TypeSegments, Manifests
<1>4. cpc' \in {"idle", "merge", "build", "save"} => manifest'.l1 = l1'
  <2> SUFFICES ASSUME cpc' \in {"idle", "merge", "build", "save"} PROVE manifest'.l1 = l1'
    OBVIOUS
  <2>1. CASE CompactCommit
    <3>1. UNCHANGED manifest /\ l1' = couts /\ cpc = "commit" /\ manifestMu = "compaction"
      BY <1>1, <2>1 DEF CompactCommit, Control
    <3> QED BY <1>1, <3>1 DEF Pending
  <2>2. CASE ~CompactCommit
    <3>1. UNCHANGED l1 /\ cpc \in {"idle", "merge", "build", "save"}
      BY <2>2, LevelSteps, CompactionSteps
    <3>2. ~CompactSave
      BY DEF CompactSave
    <3>3. CASE UNCHANGED manifest
      BY <1>1, <3>1, <3>3 DEF LevelOne
    <3>4. CASE manifest' = pending /\ (RotateSave \/ FlushSave)
      <4>1. manifestMu \in {"writer", "flush"}
        BY <1>1, <3>4 DEF RotateSave, FlushSave, Control
      <4> QED BY <1>1, <3>1, <3>4, <4>1 DEF Pending
    <3> QED BY <3>2, <3>3, <3>4, ManifestSteps
  <2> QED BY <2>1, <2>2
<1> SUFFICES ASSUME NoCollision'
             PROVE  /\ Ordered(l1)'
                    /\ cpc' \in {"build", "save", "commit"} => Ordered(couts)'
                    /\ DurableLevelOne'
  BY <1>2, <1>4 DEF LevelOne
<1>5. NoCollision
  BY ExposedGrows DEF NoCollision
<1>6. /\ Ordered(l1) /\ (cpc \in {"build", "save", "commit"} => Ordered(couts)) /\ DurableLevelOne
  BY <1>1, <1>5 DEF LevelOne
<1>7. LevelFiles /\ CompactionFiles /\ LevelFiles' /\ CompactionFiles'
  BY <1>5, FilesStep DEF Inv, Files
<1>8. Ordered(l1)'
  <2>1. CASE UNCHANGED l1
    <3>1. Range(l1) \subseteq DOMAIN sstFiles /\ Range(l1) \subseteq DOMAIN sstFiles'
      BY <1>7, <2>1 DEF LevelFiles
    <3> PICK ids : ids = l1
      OBVIOUS
    <3>2. Ordered(ids)'
      BY <1>3, <1>6, <3>1, OrderedKept
    <3> QED BY <2>1, <3>2 DEF Ordered
  <2>2. CASE CompactCommit
    <3>1. l1' = couts /\ cpc = "commit"
      BY <2>2 DEF CompactCommit
    <3>2. Range(couts) \subseteq DOMAIN sstFiles /\ Range(couts) \subseteq DOMAIN sstFiles'
      BY <1>7, <3>1 DEF LevelFiles, CompactionFiles
    <3> PICK ids : ids = couts
      OBVIOUS
    <3>3. Ordered(ids)'
      BY <1>3, <1>6, <3>1, <3>2, OrderedKept
    <3> QED BY <3>1, <3>3 DEF Ordered
  <2> QED BY <2>1, <2>2, LevelSteps
<1>9. cpc' \in {"build", "save", "commit"} => Ordered(couts)'
  <2> SUFFICES ASSUME cpc' \in {"build", "save", "commit"} PROVE Ordered(couts)'
    OBVIOUS
  <2>1. CASE CompactMerge
    <3>1. cpc' = "build"
      BY <2>1 DEF CompactMerge
    <3> QED BY <1>5, <2>1, <3>1, MergeOrdered
  <2>2. CASE cpc \in {"build", "save", "commit"} /\ UNCHANGED couts
    <3>1. Range(couts) \subseteq DOMAIN sstFiles /\ Range(couts) \subseteq DOMAIN sstFiles'
      BY <1>7, <2>2 DEF CompactionFiles
    <3> PICK ids : ids = couts
      OBVIOUS
    <3>2. Ordered(ids)'
      BY <1>3, <1>6, <2>2, <3>1, OrderedKept
    <3> QED BY <2>2, <3>2 DEF Ordered
  <2> QED BY <2>1, <2>2, CompactionSteps
<1>10. ASSUME manifest'.l1 = l1' PROVE DurableLevelOne'
  <2>1. Range(manifest'.l1) \subseteq DOMAIN sstFiles'
    BY <1>7, <1>10 DEF LevelFiles
  <2>2. Ordered(manifest.l1)'
    BY <1>8, <1>10 DEF Ordered
  <2> QED BY <2>1, <2>2 DEF DurableLevelOne
<1>11. ASSUME CompactSave PROVE DurableLevelOne'
  <2>1. UNCHANGED <<l1, couts, cseg>> /\ cpc = "save" /\ manifestMu = "compaction"
    BY <1>1, <1>11 DEF CompactSave, Control, lsm
  <2>2. CASE UNCHANGED manifest
    BY <1>1, <1>10, <2>1, <2>2 DEF LevelOne
  <2>3. CASE manifest' = pending /\ cpc' = "commit"
    <3>1. manifest'.l1 = couts'
      BY <1>1, <2>1, <2>3 DEF Pending
    <3>2. Range(manifest'.l1) \subseteq DOMAIN sstFiles' /\ Ordered(couts)'
      BY <1>7, <1>9, <2>3, <3>1 DEF CompactionFiles
    <3>3. Ordered(manifest.l1)'
      BY <3>1, <3>2 DEF Ordered
    <3> QED BY <3>2, <3>3 DEF DurableLevelOne
  <2>4. CASE manifest' = pending /\ cpc' = "exit" /\ sstFiles' = Without(sstFiles, Range(couts))
    <3>1. manifest'.l1 = couts
      BY <1>1, <2>1, <2>4 DEF Pending
    <3>2. DOMAIN sstFiles' = DOMAIN sstFiles \ Range(couts)
      BY <2>4, WithoutFiles
    <3>3. CASE Len(couts) > 0
      <4>1. couts[1] = cseg /\ cseg > 0
        <5>1. cseg \in Nat /\ Len(couts) \in Nat /\ 1 \in 1..Len(couts)
          BY <1>1, <1>3, <3>3 DEF TypeSegments
        <5>2. cseg > 0 /\ couts[1] = cseg + 1 - 1
          BY <1>1, <2>1, <5>1 DEF Reserved
        <5> QED BY <5>1, <5>2
      <4>2. couts[1] \in Range(couts)
        BY <1>3, <3>3 DEF Range
      <4> QED BY <1>2, <2>1, <2>4, <3>1, <3>2, <3>3, <4>1, <4>2 DEF DurableLevelOne
    <3>4. CASE ~(Len(couts) > 0)
      <4>1. couts = <<>>
        BY <1>3, <3>4
      <4>2. Range(couts) = {}
        BY <4>1 DEF Range
      <4>3. Ordered(manifest.l1)'
        BY <3>1, <4>1 DEF Ordered
      <4> QED BY <3>1, <4>2, <4>3 DEF DurableLevelOne
    <3> QED BY <3>3, <3>4
  <2> QED BY <1>11, <2>2, <2>3, <2>4 DEF CompactSave, ManifestFails
<1>12. ASSUME CompactCommit PROVE DurableLevelOne'
  <2>1. cpc' = "idle"
    BY <1>12 DEF CompactCommit
  <2> QED BY <1>4, <1>10, <2>1
<1>13. ASSUME manifest' = pending /\ (RotateSave \/ FlushSave) PROVE DurableLevelOne'
  <2>1. manifestMu \in {"writer", "flush"} /\ UNCHANGED l1
    BY <1>1, <1>13 DEF RotateSave, FlushSave, Control, lsm
  <2>2. manifest'.l1 = l1'
    BY <1>1, <1>13, <2>1 DEF Pending
  <2> QED BY <1>10, <2>2
<1>14. ASSUME UNCHANGED manifest /\ ~CompactSave /\ ~CompactCommit PROVE DurableLevelOne'
  <2>1. DOMAIN sstFiles \subseteq DOMAIN sstFiles'
    BY <1>14, TableDomains
  <2>2. CASE Range(manifest.l1) \subseteq DOMAIN sstFiles /\ Ordered(manifest.l1)
    <3> PICK ids : ids = manifest.l1
      OBVIOUS
    <3>1. Ordered(ids)'
      BY <1>3, <2>1, <2>2, OrderedKept
    <3>2. Ordered(manifest.l1)'
      BY <1>14, <3>1 DEF Ordered
    <3> QED BY <1>14, <2>1, <2>2, <3>2 DEF DurableLevelOne
  <2>3. CASE /\ Len(manifest.l1) > 0 /\ manifest.l1[1] \notin DOMAIN sstFiles
             /\ cpc = "exit" /\ cseg > 0 /\ manifest.l1[1] = cseg
    <3>1. UNCHANGED <<cpc, cseg>> /\ ~Compaction
      BY <2>3, CompactionSteps
    <3>2. imm # <<>> => Head(imm).seg # cseg
      <4> SUFFICES ASSUME imm # <<>> PROVE Head(imm).seg # cseg
        OBVIOUS
      <4>1. Head(imm) = imm[1] /\ 1 \in 1..Len(imm)
        BY <1>1, QueueHead DEF TypeData
      <4> QED BY <1>1, <2>3, <4>1 DEF Reserved
    <3>3. cseg \notin DOMAIN sstFiles'
      BY <1>14, <2>3, <3>1, <3>2, TableDomains
    <3> QED BY <1>2, <1>14, <2>3, <3>1, <3>3 DEF DurableLevelOne
  <2> QED BY <1>6, <2>2, <2>3 DEF DurableLevelOne
<1>15. DurableLevelOne'
  BY <1>11, <1>12, <1>13, <1>14, ManifestSteps
<1> QED BY <1>8, <1>9, <1>15

\* The files of Level 1.
LEMMA LevelOneStep == Inv /\ [Next]_vars => LevelOne'
<1> SUFFICES ASSUME Inv, [Next]_vars, ~Running \/ ~Running', ~UNCHANGED vars PROVE LevelOne'
  <2>1. ASSUME UNCHANGED vars, Inv PROVE LevelOne'
    BY <2>1 DEF Inv, LevelOne, DurableLevelOne, Ordered, NoCollision, Running, vars, disk, lsm, compact, history
  <2> QED BY <2>1, RunningLevelOneStep
<1>1. TypeControl /\ TypeData /\ TypeSegments /\ Control /\ Disk /\ LevelOne
  BY DEF Inv, TypeInv
<1>2. (Running => manifest.l1 = l1)' /\ cpc' = "idle"
  <2>1. CASE status' \in {"down", "failed", "recovering"}
    BY <2>1, ControlStep DEF Control, Volatile, Running
  <2>2. CASE status = "recovering" /\ (RecoverCreate \/ RecoverResume) /\ status' = "open"
    <3>1. cpc' = "idle" /\ UNCHANGED l1 /\ rpc # "none" /\ manifest' \in {manifest, CurrentManifest}
      BY <1>1, <2>2 DEF RecoverCreate, RecoverResume, OpenFails, Control, compact, lsm
    <3> QED BY <1>1, <3>1 DEF Disk, CurrentManifest
  <2> QED BY <2>1, <2>2, Phases DEF Running
<1> SUFFICES ASSUME NoCollision'
             PROVE  Ordered(l1)' /\ (rpc' = "flushSave" => Head(l0') \notin Range(l1')) /\ DurableLevelOne'
  BY <1>2 DEF LevelOne
<1>3. NoCollision
  BY ExposedGrows DEF NoCollision
<1>4. Ordered(l1) /\ (rpc = "flushSave" => Head(l0) \notin Range(l1)) /\ DurableLevelOne
  BY <1>1, <1>3 DEF LevelOne
<1>5. l1 \in Seq(Nat) /\ manifest.l1 \in Seq(Nat) /\ l0 \in Seq(Nat) /\ nextSeg \in Nat
  BY <1>1 DEF TypeSegments, Manifests
<1>6. LevelFiles
  BY <1>3 DEF Inv, Files
<1>7. ASSUME l1' = <<>> PROVE Ordered(l1)'
  BY <1>7 DEF Ordered
<1>8. CASE Stop
  <2>1. UNCHANGED <<sstFiles, manifest>> /\ l1' = <<>> /\ rpc' = "none" /\ ~Running'
    BY <1>8 DEF Stop, ResetVolatile, disk, Running
  <2>2. Ordered(manifest.l1) => Ordered(manifest.l1)'
    BY <2>1 DEF Ordered
  <2> QED BY <1>4, <1>7, <2>1, <2>2 DEF DurableLevelOne
<1>9. CASE Open
  <2>1. DOMAIN sstFiles' = DOMAIN sstFiles \cap ManifestFiles(manifest)
    BY <1>9 DEF Open, Restrict, ActiveSSTs, ManifestFiles
  <2>2. UNCHANGED manifest /\ status = "down" /\ ~Running'
    BY <1>9 DEF Open, Running
  <2>3. Range(manifest.l1) \subseteq ManifestFiles(manifest)
    BY DEF ManifestFiles
  <2>4. Range(manifest.l1) \subseteq DOMAIN sstFiles /\ Ordered(manifest.l1)
          => Range(manifest'.l1) \subseteq DOMAIN sstFiles' /\ Ordered(manifest.l1)'
    <3> SUFFICES ASSUME Range(manifest.l1) \subseteq DOMAIN sstFiles, Ordered(manifest.l1)
                 PROVE  Range(manifest'.l1) \subseteq DOMAIN sstFiles' /\ Ordered(manifest.l1)'
      OBVIOUS
    <3> PICK ids : ids = manifest.l1
      OBVIOUS
    <3>1. Range(ids) \subseteq DOMAIN sstFiles'
      BY <2>1, <2>3
    <3>2. Ordered(ids)'
      BY <1>5, <3>1, OrderedKept
    <3> QED BY <2>2, <3>1, <3>2 DEF Ordered
  <2>5. CASE ManifestFiles(manifest) \subseteq DOMAIN sstFiles' /\ l1' = manifest.l1 /\ rpc' # "flushSave"
    <3>1. Len(manifest.l1) > 0 => manifest.l1[1] \in DOMAIN sstFiles
      <4>1. Len(manifest.l1) > 0 => manifest.l1[1] \in Range(manifest.l1)
        BY <1>5 DEF Range
      <4> QED BY <2>1, <2>3, <2>5, <4>1
    <3>2. Range(manifest'.l1) \subseteq DOMAIN sstFiles' /\ Ordered(manifest.l1)'
      BY <1>4, <2>4, <3>1 DEF DurableLevelOne
    <3>3. Ordered(l1)'
      BY <2>2, <2>5, <3>2 DEF Ordered
    <3> QED BY <2>5, <3>2, <3>3 DEF DurableLevelOne
  <2>6. CASE UNCHANGED <<l1, rpc>>
    <3>1. l1' = <<>> /\ rpc' = "none"
      BY <1>1, <2>2, <2>6 DEF Control, Volatile
    <3>2. DurableLevelOne'
      BY <1>4, <2>1, <2>2, <2>4, <3>1 DEF DurableLevelOne
    <3> QED BY <1>7, <3>1, <3>2
  <2> QED BY <1>9, <2>5, <2>6 DEF Open, lsm
<1> SUFFICES ASSUME rpc # "none"
             PROVE  Ordered(l1)' /\ (rpc' = "flushSave" => Head(l0') \notin Range(l1')) /\ DurableLevelOne'
  BY <1>8, <1>9, Phases DEF Running, Recover, RecoverFlush, RecoverFlushSave, RecoverCleanup, RecoverNewSegment,
     RecoverCreate, RecoverResume
<1>11. manifest.l1 = l1 /\ Range(l1) \subseteq DOMAIN sstFiles
  BY <1>1, <1>6 DEF Disk, LevelFiles
<1>12. ASSUME manifest'.l1 = l1, l1' = l1 \/ l1' = <<>>, Range(l1) \subseteq DOMAIN sstFiles'
       PROVE  Ordered(l1)' /\ DurableLevelOne'
  <2> PICK ids : ids = l1
    OBVIOUS
  <2>1. Ordered(ids)'
    BY <1>4, <1>5, <1>11, <1>12, OrderedKept
  <2>2. Ordered(l1)'
    BY <1>7, <1>12, <2>1 DEF Ordered
  <2>3. Ordered(manifest.l1)'
    BY <1>12, <2>1 DEF Ordered
  <2> QED BY <1>12, <2>2, <2>3 DEF DurableLevelOne
<1>13. CASE RecoverFlush
  <2>1. CASE /\ sstFiles' = Set(sstFiles, nextSeg, memtable) /\ l0' = <<nextSeg>> \o l0 /\ UNCHANGED <<l1, manifest>>
             /\ nextSeg \notin DOMAIN sstFiles
    <3>1. DOMAIN sstFiles' = DOMAIN sstFiles \cup {nextSeg}
      BY <2>1, SetFile
    <3>2. Head(l0') = nextSeg
      BY <1>5, <2>1, Prepended
    <3> QED BY <1>11, <1>12, <2>1, <3>1, <3>2
  <2>2. CASE UNCHANGED <<sstFiles, manifest>> /\ OpenFails
    BY <1>11, <1>12, <2>2 DEF OpenFails, ResetVolatile
  <2> QED BY <1>13, <2>1, <2>2 DEF RecoverFlush, Expose, Collision, NoCollision
<1>14. CASE RecoverFlushSave
  <2>1. rpc' # "flushSave" /\ rpc = "flushSave" /\ manifest' \in {manifest, CurrentManifest}
    BY <1>14 DEF RecoverFlushSave, ManifestFails, OpenFails, ResetVolatile
  <2>2. manifest'.l1 = l1
    BY <1>11, <2>1 DEF CurrentManifest
  <2>3. UNCHANGED l1 \/ l1' = <<>>
    BY <1>14 DEF RecoverFlushSave, OpenFails, ResetVolatile, lsm
  <2>4. Range(l1) \subseteq DOMAIN sstFiles'
    <3>1. UNCHANGED sstFiles \/ sstFiles' = Without(sstFiles, {Head(l0)})
      BY <1>14 DEF RecoverFlushSave
    <3>2. UNCHANGED sstFiles \/ DOMAIN sstFiles' = DOMAIN sstFiles \ {Head(l0)}
      BY <3>1, WithoutFiles
    <3> QED BY <1>4, <1>11, <2>1, <3>2
  <2> QED BY <1>12, <2>1, <2>2, <2>3, <2>4
<1>15. CASE RecoverCleanup \/ RecoverNewSegment \/ RecoverCreate \/ RecoverResume
  <2> DEFINE m == [CurrentManifest EXCEPT !.next = nextSeg + 1]
  <2>1. m.l1 = l1 /\ CurrentManifest.l1 = l1
    BY DEF CurrentManifest
  <2>2. UNCHANGED sstFiles /\ manifest' \in {manifest, CurrentManifest, m} /\ rpc' # "flushSave"
    BY <1>15 DEF RecoverCleanup, RecoverNewSegment, RecoverCreate, RecoverResume, ManifestFails, OpenFails, ResetVolatile
  <2>3. UNCHANGED l1 \/ l1' = <<>>
    BY <1>15 DEF RecoverCleanup, RecoverNewSegment, RecoverCreate, RecoverResume, OpenFails, ResetVolatile, lsm
  <2> HIDE DEF m
  <2> QED BY <1>11, <1>12, <2>1, <2>2, <2>3
<1> QED BY <1>8, <1>9, <1>13, <1>14, <1>15, Phases DEF Recover, Running

------------------------------------------------------------------------------
(* The theorems *)

\* The engine starts in the invariant.
LEMMA InvInit == Init => Inv
<1> SUFFICES ASSUME Init PROVE Inv
  OBVIOUS
<1>1. DOMAIN walFiles = {} /\ DOMAIN sstFiles = {} /\ IsFiniteSet({})
  BY FS_EmptySet DEF Init
<1>2. /\ manifest.l0 = <<>> /\ manifest.l1 = <<>> /\ manifest.next = 1 /\ manifest.flushed = 0
      /\ manifest \in Manifests /\ NoManifest \in Manifests
  BY DEF Init, InitialManifest, Manifests, NoManifest
<1>3. Volatile /\ status = "down" /\ exposed = {} /\ Len(<<>>) = 0 /\ Range(<<>>) = {}
  BY DEF Init, Range
<1>4. TypeControl /\ TypeFlags
  BY <1>3 DEF TypeControl, TypeFlags, Volatile, WriterSteps, FlushSteps, CompactSteps, RecoverSteps
<1>5. TypeSegments /\ TypeCounters
  BY <1>2, <1>3 DEF TypeSegments, TypeCounters, Volatile, Init
<1>6. TypeData
  <2>1. allowed \in [Keys -> SUBSET (Vals \cup {None})]
    BY DEF Init
  <2> QED BY <1>1, <1>3, <2>1, EmptyType DEF TypeData, IsFiles, Volatile
<1>7. Control
  BY <1>3 DEF Control, Volatile
<1>8. Queue /\ Active /\ LevelZero /\ Pending
  BY <1>3 DEF Queue, Active, LevelZero, Pending, Volatile, Running, Descending, Below
<1>9. Disk
  BY <1>1, <1>2, <1>3 DEF Disk, Orderly, Descending, Below, Restartable, Running, Volatile
<1>10. ActiveWAL /\ Reserved /\ Rolled
  BY <1>3 DEF ActiveWAL, Reserved, Rolled, Volatile, Running
<1>11. ManifestFiles(manifest) = {}
  BY <1>2, <1>3 DEF ManifestFiles
<1>12. Files
  BY <1>1, <1>3, <1>11 DEF Files, LevelFiles, CompactionFiles, FlushFile, DurableFiles, Volatile
<1>13. LevelOne
  BY <1>1, <1>2, <1>3 DEF LevelOne, DurableLevelOne, Ordered, Running, Volatile
<1> QED BY <1>4, <1>5, <1>6, <1>7, <1>8, <1>9, <1>10, <1>12, <1>13 DEF Inv, TypeInv

\* Every step keeps it.
LEMMA InvNext == Inv /\ [Next]_vars => Inv'
BY TypeControlStep, TypeFlagsStep, TypeSegmentsStep, TypeCountersStep, TypeDataStep, ControlStep,
   QueueStep, ActiveStep, LevelZeroStep, PendingStep, DiskStep, ActiveWALStep, FilesStep,
   LevelOneStep, ReservedStep, RolledStep DEF Inv, TypeInv

\* The invariant holds throughout.
LEMMA InvHolds == Spec => []Inv
BY InvInit, InvNext, PTL DEF Spec

\* Every variable keeps its type, whatever the workers, writers, crashes and
\* I/O failures do.  Only what is in an SSTable that two workers have written
\* under one name is not typed: a merge may then read a file that is gone.
THEOREM TypesAreKept == Spec => [](NoCollision => TypeOK)
<1>1. Inv => (NoCollision => TypeOK)
  <2> SUFFICES ASSUME Inv, NoCollision PROVE TypeOK
    OBVIOUS
  <2>1. TypeControl /\ TypeFlags /\ TypeSegments /\ TypeCounters /\ TypeData /\ rolled \in Nat
    BY DEF Inv, TypeInv, Rolled
  <2>2. IsFiles(sstFiles)
    BY <2>1 DEF Inv, Files, LevelFiles, TypeData, IsFiles
  <2> QED BY <2>1, <2>2 DEF TypeOK, TypeControl, TypeFlags, TypeSegments, TypeCounters, TypeData
<1> QED BY <1>1, InvHolds, PTL

\* freezeActiveMemTable, registerFlushedSSTable, Close and recoverActiveState
\* keep the queue of immutable memtables in the order of their WAL segments,
\* ahead of the active one, for any number of writes, faults and restarts.
THEOREM QueueInOrder == Spec => []QueueOrder
<1>1. Inv => QueueOrder
  BY DEF Inv, Queue, Active, Control, Drained, Running, QueueOrder
<1> QED BY <1>1, InvHolds, PTL

\* registerFlushedSSTable, the commit of a compaction and NewEngine keep
\* Level 0 newest first and older than all that is in memory.
THEOREM NewestFirst == Spec => []LevelZeroNewestFirst
<1>1. Inv => LevelZeroNewestFirst
  BY DEF Inv, LevelZero, Control, OlderThanMemory, Descending, Drained, Running, LevelZeroNewestFirst
<1> QED BY <1>1, InvHolds, PTL

\* WriteBatch finds an open WAL segment when nothing failed, and a batch that
\* it has logged always fits into the memtable.
THEOREM LoggedBatchFits == Spec => []LoggedBatchApplies
<1>1. Inv => LoggedBatchApplies
  <2> SUFFICES ASSUME Inv PROVE LoggedBatchApplies
    OBVIOUS
  <2>1. TypeData /\ ActiveWAL /\ Control /\ TypeControl
    BY DEF Inv, TypeInv
  <2>2. wpc = "check" /\ ~bgErr /\ ~isClosing => wal /\ activeSeg \in DOMAIN walFiles
    <3>1. wpc = "check" => Running
      BY <2>1 DEF Control, TypeControl, Volatile, Running
    <3> QED BY <2>1, <3>1 DEF ActiveWAL
  <2>3. wpc = "apply" => Size(Overlay(batch, memtable)) <= MaxMemTableSize
    <3>1. /\ Size(Overlay(batch, memtable)) <= Size(batch) + Size(memtable)
          /\ Size(Overlay(batch, memtable)) \in Nat /\ Size(batch) \in Nat /\ Size(memtable) \in Nat
      BY <2>1, SizeOverlay, SizeSets DEF TypeData
    <3> QED BY <2>1, <3>1, EngineAssumption DEF ActiveWAL, EngineAssumption
  <2> QED BY <2>2, <2>3 DEF LoggedBatchApplies
<1> QED BY <1>1, InvHolds, PTL

\* At every point where the process can stop, the manifest on disk names only
\* SSTables that are there: flush, compaction and recovery write the files
\* before the manifest and delete them after it.
THEOREM ManifestAlwaysOpens == Spec => []ManifestOpens
<1>1. Inv => ManifestOpens
  BY DEF Inv, Files, DurableFiles, NoCollision, ManifestOpens
<1> QED BY <1>1, InvHolds, PTL

\* performMerge and the swap of the levels keep the Level 1 files in key order
\* and disjoint, through crashes and restarts.
THEOREM LevelOneInKeyOrder == Spec => []LevelOneDisjoint
<1>1. Inv => LevelOneDisjoint
  BY DEF Inv, LevelOne, Ordered, NoCollision, LevelOneDisjoint
<1> QED BY <1>1, InvHolds, PTL
------------------------------------------------------------------------------
(* What a read and a recovery answer: the invariant behind ReadsAreAcknowledged *)

\* The engine's memory is in use.
Live == status \in {"recovering", "open", "closed"}

\* None of the known weaknesses has been met.
Clean == exposed = {}

\* What the WAL segments above lo, or above lo and up to hi, say of key k.
Above(lo, k) == LargestIDEntry(walFiles, {s \in DOMAIN walFiles : s > lo}, k)
Between(lo, hi, k) == LargestIDEntry(walFiles, {s \in DOMAIN walFiles : s > lo /\ s <= hi}, k)

\* The segment IDs that are free: above every segment that was ever flushed
\* durably, and a manifest that has lost the watermark still finds a newer segment.
Numbered(next, flushed) ==
  /\ next > hw /\ next > flushed
  /\ hw > flushed => \E s \in DOMAIN walFiles : s > hw
DiskNumbers ==
  /\ Numbered(manifest.next, manifest.flushed)
  /\ manifestMu # "free" => Numbered(pending.next, pending.flushed)

\* The active segment is the newest one, and replay above the watermark of the
\* engine never meets a segment that a durable flush has covered.
LiveNumbers ==
  Live =>
    /\ Numbered(nextSeg, flushedSeg)
    /\ manifest.flushed <= flushedSeg
    /\ \A s \in DOMAIN walFiles : s <= activeSeg
    /\ \A s \in DOMAIN walFiles : s > flushedSeg => s > hw
    /\ \A j \in 1..Len(imm) : flushedSeg < imm[j].seg
    /\ rpc # "newseg" => Drained \/ (activeSeg > flushedSeg /\ activeSeg > hw)
PendingNumbers == manifestMu # "free" => pending.flushed <= flushedSeg
RemovableNumbers == fpc = "cleanup" \/ rpc = "cleanup" => flushedSeg <= hw
Numbers == DiskNumbers /\ LiveNumbers /\ PendingNumbers /\ RemovableNumbers

\* A memtable of the queue holds what its WAL segments hold: those after the
\* memtable before it, or after the last flush.
Floor(j) == IF j = 1 THEN flushedSeg ELSE imm[j - 1].seg
LoggedQueue ==
  \A j \in 1..Len(imm), k \in Keys : imm[j].data[k] = Between(Floor(j), imm[j].seg, k)

\* So does the active memtable, but for the batch that is being written and
\* for writes that have failed in doubt.
ActiveEntry(k) == Above(Floor(Len(imm) + 1), k)
LoggedActive ==
  /\ Live /\ wpc # "apply" /\ (~bgErr \/ kpc = "queue") => \A k \in Keys : memtable[k] = ActiveEntry(k)
  /\ wpc = "apply" => \A k \in Keys :
       /\ batch[k] # None => walFiles[activeSeg][k] = batch[k]
       /\ batch[k] = None /\ ~bgErr => memtable[k] = ActiveEntry(k)

\* The SSTable that is about to be registered holds the oldest memtable.
FlushedTable == fpc = "register" => sstFiles[Head(imm).seg] = Head(imm).data

\* What the inputs of a compaction say of key k.
Inputs(k) ==
  LET e == LargestIDEntry(sstFiles, Range(l0) \cap Range(cinputs), k)
  IN  IF e # None THEN e ELSE SearchLevel1(sstFiles, l1, k)

\* A compaction changes no answer: its inputs are the older part of Level 0
\* with Level 1, its outputs answer what they answer, and so do the levels
\* that it is about to install.
Merging ==
  /\ cpc = "merge" => \A k \in Keys : FirstEntry(TablesOf(sstFiles, cinputs), k) = Inputs(k)
  /\ cpc = "build" => \A k \in Keys : Answer(SearchLevel1(sstFiles, couts, k)) = Answer(Inputs(k))
  /\ cpc \in {"merge", "build"} =>
       \A a \in Range(l0) \ Range(cinputs), b \in Range(l0) \cap Range(cinputs) : a > b
  /\ cpc \in {"save", "commit"} => \A k \in Keys :
       Answer(SearchLevels(sstFiles, pending.l0, pending.l1, k)) = Answer(SearchLevels(sstFiles, l0, l1, k))

\* What NewEngine would answer for key k from the segments above watermark c,
\* if it skipped those that a durable flush has covered, and from the entry e
\* of the levels.
Found(c, e, k) ==
  LET a == Above(IF hw > c THEN hw ELSE c, k)
  IN  Answer(IF a # None THEN a ELSE e)
Recovered(lz, lo, c, k) == Found(c, SearchLevels(sstFiles, lz, lo, k), k)

\* That is an acknowledged answer, also when the watermark is lost.
Sound(lz, lo, flushed) ==
  \A k \in Keys : /\ Recovered(lz, lo, flushed, k) \in allowed[k]
                  /\ Recovered(lz, lo, 0, k) = Recovered(lz, lo, flushed, k)
Durable ==
  /\ Sound(manifest.l0, manifest.l1, manifest.flushed)
  /\ manifestMu # "free" => Sound(pending.l0, pending.l1, pending.flushed)
  /\ Live => Sound(l0, l1, flushedSeg)

Answers == Serving => \A k \in Keys : Get(k) \in allowed[k]

Reads == Clean => /\ Numbers /\ LoggedQueue /\ LoggedActive /\ FlushedTable
                  /\ Merging /\ Durable /\ Answers
------------------------------------------------------------------------------
(* Entries of the log *)

\* The segments that the entries are taken from.
LEMMA LogSets ==
  ASSUME IsFiles(walFiles), NEW A, A \subseteq DOMAIN walFiles
  PROVE  A \in SUBSET Nat /\ IsFiniteSet(A)
BY FS_Subset DEF IsFiles

\* The log above lo: first the part above hi, then what is between.
LEMMA AboveSplit ==
  ASSUME IsFiles(walFiles), NEW lo \in Nat, NEW hi \in Nat, lo <= hi, NEW k \in Keys
  PROVE  Above(lo, k) = IF Above(hi, k) # None THEN Above(hi, k) ELSE Between(lo, hi, k)
<1> DEFINE A == {s \in DOMAIN walFiles : s > hi}
           B == {s \in DOMAIN walFiles : s > lo /\ s <= hi}
           C == {s \in DOMAIN walFiles : s > lo}
<1>1. \A s \in DOMAIN walFiles : s \in Nat
  BY DEF IsFiles
<1>2. C = A \cup B
  BY <1>1
<1>3. A \in SUBSET Nat /\ IsFiniteSet(A) /\ B \in SUBSET Nat /\ IsFiniteSet(B)
  <2>1. A \subseteq DOMAIN walFiles /\ B \subseteq DOMAIN walFiles
    OBVIOUS
  <2> HIDE DEF A, B
  <2> QED BY <2>1, LogSets
<1>4. \A a \in A, b \in B : a > b
  BY <1>1
<1>5. Above(lo, k) = LargestIDEntry(walFiles, C, k) /\ Above(hi, k) = LargestIDEntry(walFiles, A, k)
      /\ Between(lo, hi, k) = LargestIDEntry(walFiles, B, k)
  BY DEF Above, Between
<1> HIDE DEF A, B, C
<1> QED BY <1>2, <1>3, <1>4, <1>5, LargestSplit

\* Nothing is above the newest segment.
LEMMA AboveNothing ==
  ASSUME NEW lo, \A s \in DOMAIN walFiles : ~(s > lo), NEW k
  PROVE  Above(lo, k) = None
<1> DEFINE A == {s \in DOMAIN walFiles : s > lo}
<1>1. \A s \in A : walFiles[s][k] = None
  OBVIOUS
<1> HIDE DEF A
<1>2. LargestIDEntry(walFiles, A, k) = None
  BY <1>1, LargestNone
<1> QED BY <1>2 DEF A, Above

\* A watermark can be moved over IDs that no segment has.
LEMMA AboveSame ==
  ASSUME NEW lo, NEW hi, \A s \in DOMAIN walFiles : s > lo <=> s > hi, NEW k
  PROVE  Above(lo, k) = Above(hi, k)
<1>1. {s \in DOMAIN walFiles : s > lo} = {s \in DOMAIN walFiles : s > hi}
  OBVIOUS
<1> QED BY <1>1 DEF Above

\* The newest segment decides for the keys that it has.
LEMMA AboveNewest ==
  ASSUME IsFiles(walFiles), NEW lo \in Nat, NEW top \in DOMAIN walFiles, top > lo,
         \A s \in DOMAIN walFiles : s <= top, NEW k \in Keys, walFiles[top][k] # None
  PROVE  Above(lo, k) = walFiles[top][k]
<1> DEFINE A == {s \in DOMAIN walFiles : s > lo}
<1>1. A \subseteq DOMAIN walFiles /\ top \in A
  OBVIOUS
<1>2. \A s \in A : s \in Nat /\ s <= top
  BY DEF IsFiles
<1> HIDE DEF A
<1>3. A \in SUBSET Nat /\ IsFiniteSet(A)
  BY <1>1, LogSets
<1>4. \A s \in A : ~(s > top)
  BY <1>1, <1>2
<1>5. LargestIDEntry(walFiles, A, k) = walFiles[top][k]
  BY <1>1, <1>3, <1>4, LargestAt
<1> QED BY <1>5 DEF A, Above

\* A step that does not change the record of key k in segment s.
SameRecord(s, k) ==
  /\ s \in DOMAIN walFiles /\ walFiles[s][k] # None => s \in DOMAIN walFiles' /\ walFiles'[s][k] = walFiles[s][k]
  /\ s \in DOMAIN walFiles' /\ walFiles'[s][k] # None => s \in DOMAIN walFiles /\ walFiles'[s][k] = walFiles[s][k]

\* It keeps the entries of the log, if this is so for each segment.
LEMMA AboveKept ==
  ASSUME IsFiles(walFiles), IsFiles(walFiles)', NEW c \in Nat, NEW k, \A s \in Nat : s > c => SameRecord(s, k)
  PROVE  Above(c, k)' = Above(c, k)
<1> DEFINE A == {s \in DOMAIN walFiles : s > c}
           B == {s \in DOMAIN walFiles' : s > c}
<1>1. A \in SUBSET Nat /\ B \in SUBSET Nat /\ IsFiniteSet(A) /\ IsFiniteSet(B)
  BY FS_Subset DEF IsFiles
<1>2. /\ \A s \in A : walFiles[s][k] # None => s \in B /\ walFiles'[s][k] = walFiles[s][k]
      /\ \A s \in B : walFiles'[s][k] # None => s \in A /\ walFiles'[s][k] = walFiles[s][k]
  BY <1>1 DEF SameRecord
<1> HIDE DEF A, B
<1>3. LargestIDEntry(walFiles, A, k) = LargestIDEntry(walFiles', B, k)
  BY <1>1, <1>2, LargestSame
<1> QED BY <1>3 DEF A, B, Above

\* So for the entries between two segments.
LEMMA BetweenKept ==
  ASSUME IsFiles(walFiles), IsFiles(walFiles)', NEW c \in Nat, NEW hi \in Nat, NEW k,
         \A s \in Nat : s > c /\ s <= hi => SameRecord(s, k)
  PROVE  Between(c, hi, k)' = Between(c, hi, k)
<1> DEFINE A == {s \in DOMAIN walFiles : s > c /\ s <= hi}
           B == {s \in DOMAIN walFiles' : s > c /\ s <= hi}
<1>1. A \in SUBSET Nat /\ B \in SUBSET Nat /\ IsFiniteSet(A) /\ IsFiniteSet(B)
  BY FS_Subset DEF IsFiles
<1>2. /\ \A s \in A : walFiles[s][k] # None => s \in B /\ walFiles'[s][k] = walFiles[s][k]
      /\ \A s \in B : walFiles'[s][k] # None => s \in A /\ walFiles'[s][k] = walFiles[s][k]
  BY <1>1 DEF SameRecord
<1> HIDE DEF A, B
<1>3. LargestIDEntry(walFiles, A, k) = LargestIDEntry(walFiles', B, k)
  BY <1>1, <1>2, LargestSame
<1> QED BY <1>3 DEF A, B, Between
------------------------------------------------------------------------------
(* What a step of the running engine changes of all this *)

\* Which actions change the manifests and the durable watermark.
LEMMA NumberSteps ==
  ASSUME Inv, [Next]_vars, Running, Running'
  PROVE  /\ UNCHANGED hw \/ (FlushSave /\ manifest' = pending /\ hw' = Max({hw, flushedSeg}))
         /\ manifestMu' # "free" => \/ manifestMu # "free" /\ UNCHANGED pending
                                    \/ RotateBuild \/ FlushRegister \/ CompactBuild
         /\ fpc' = "cleanup" => \/ fpc = "cleanup" /\ UNCHANGED flushedSeg
                                \/ FlushSave /\ manifest' = pending
<1>1. TypeControl /\ Control
  BY DEF Inv, TypeInv
<1>2. CASE Foreground
  BY <1>1, <1>2 DEF Foreground, WriteBatch, WriteRefused, WriteFreeze, SnapshotFreeze,
     FreezeActiveMemTable, RotateWAL, RotateBuild, RotateSave, ManifestFails, WALAppend,
     WALAppendFails, WriteApply, TypeControl, FlushSteps, lsm, mutex, history
<1>3. CASE Flush
  BY <1>1, <1>3 DEF Flush, FlushWake, FlushWrite, FlushRegister, FlushSave, ManifestFails,
     FlushCleanup, TypeControl, FlushSteps, lsm, mutex, history
<1>4. CASE Compaction
  BY <1>1, <1>4 DEF Compaction, CompactWake, CompactMerge, CompactBuild, CompactSave, ManifestFails,
     CompactCommit, TypeControl, FlushSteps, lsm, mutex, history
<1>5. CASE Closing
  BY <1>1, <1>5 DEF Closing, CloseStart, CloseDrain, CloseQueue, CloseSignal, CloseFinish,
     TypeControl, FlushSteps, lsm, mutex, history
<1>6. CASE UNCHANGED vars
  BY <1>6 DEF vars, lsm, mutex, history
<1> QED BY Phases, <1>2, <1>3, <1>4, <1>5, <1>6 DEF Running

\* What a writer and Close keep of a logged batch.
LEMMA BatchSteps ==
  ASSUME Inv, [Next]_vars, Running, Running'
  PROVE  /\ wpc' = "apply" => WALAppend \/ (wpc = "apply" /\ UNCHANGED batch)
         /\ wpc = "apply" => wpc' = "apply" \/ WriteApply
         /\ kpc' = "queue" => kpc = "queue" \/ CloseDrain
<1>1. TypeControl /\ Control
  BY DEF Inv, TypeInv
<1>2. CASE Foreground
  BY <1>1, <1>2 DEF Foreground, WriteBatch, WriteRefused, WriteFreeze, SnapshotFreeze,
     FreezeActiveMemTable, RotateWAL, RotateBuild, RotateSave, ManifestFails, WALAppend,
     WALAppendFails, WriteApply, TypeControl, WriterSteps, writer
<1>3. CASE Flush
  BY <1>1, <1>3 DEF Flush, FlushWake, FlushWrite, FlushRegister, FlushSave, ManifestFails,
     FlushCleanup, TypeControl, WriterSteps, writer
<1>4. CASE Compaction
  BY <1>1, <1>4 DEF Compaction, CompactWake, CompactMerge, CompactBuild, CompactSave, ManifestFails,
     CompactCommit, TypeControl, WriterSteps, writer
<1>5. CASE Closing
  BY <1>1, <1>5 DEF Closing, CloseStart, CloseDrain, CloseQueue, CloseSignal, CloseFinish,
     TypeControl, WriterSteps, writer
<1>6. CASE UNCHANGED vars
  BY <1>6 DEF vars, writer
<1> QED BY Phases, <1>2, <1>3, <1>4, <1>5, <1>6 DEF Running

\* A background error stays.
LEMMA ErrorStays ==
  ASSUME Inv, [Next]_vars, Running, Running', bgErr
  PROVE  bgErr'
<1>1. TypeControl /\ Control
  BY DEF Inv, TypeInv
<1>2. CASE Foreground
  BY <1>1, <1>2 DEF Foreground, WriteBatch, WriteRefused, WriteFreeze, SnapshotFreeze,
     FreezeActiveMemTable, RotateWAL, RotateBuild, RotateSave, ManifestFails, WALAppend,
     WALAppendFails, WriteApply
<1>3. CASE Flush
  BY <1>1, <1>3 DEF Flush, FlushWake, FlushWrite, FlushRegister, FlushSave, ManifestFails,
     FlushCleanup
<1>4. CASE Compaction
  BY <1>1, <1>4 DEF Compaction, CompactWake, CompactMerge, CompactBuild, CompactSave, ManifestFails,
     CompactCommit
<1>5. CASE Closing
  BY <1>1, <1>5 DEF Closing, CloseStart, CloseDrain, CloseQueue, CloseSignal, CloseFinish
<1>6. CASE UNCHANGED vars
  BY <1>6 DEF vars
<1> QED BY Phases, <1>2, <1>3, <1>4, <1>5, <1>6 DEF Running

------------------------------------------------------------------------------
(* The numbers of the segments *)

\* Their types.
LEMMA NumberTypes ==
  ASSUME Inv
  PROVE  /\ hw \in Nat /\ nextSeg \in Nat /\ activeSeg \in Nat /\ flushedSeg \in Nat
         /\ manifest.next \in Nat /\ manifest.flushed \in Nat
         /\ pending.next \in Nat /\ pending.flushed \in Nat
         /\ DOMAIN walFiles \subseteq Nat /\ Len(imm) \in Nat
         /\ \A j \in 1..Len(imm) : imm[j].seg \in Nat
<1>1. TypeSegments /\ TypeCounters /\ TypeData
  BY DEF Inv, TypeInv
<1>2. Len(imm) \in Nat /\ \A j \in 1..Len(imm) : imm[j].seg \in Nat
  BY <1>1, QueueSegments DEF TypeData
<1> QED BY <1>1, <1>2 DEF TypeSegments, TypeCounters, TypeData, Manifests, IsFiles

\* The same after a step.
LEMMA NextTypes ==
  ASSUME Inv'
  PROVE  /\ hw' \in Nat /\ nextSeg' \in Nat /\ activeSeg' \in Nat /\ flushedSeg' \in Nat
         /\ manifest'.next \in Nat /\ manifest'.flushed \in Nat
         /\ pending'.next \in Nat /\ pending'.flushed \in Nat
         /\ DOMAIN walFiles' \subseteq Nat /\ Len(imm') \in Nat
         /\ \A j \in 1..Len(imm') : imm'[j].seg \in Nat
<1>1. TypeSegments' /\ TypeCounters' /\ TypeData'
  BY DEF Inv, TypeInv
<1>2. Len(imm') \in Nat /\ \A j \in 1..Len(imm') : imm'[j].seg \in Nat
  BY <1>1, QueueSegments DEF TypeData
<1> QED BY <1>1, <1>2 DEF TypeSegments, TypeCounters, TypeData, Manifests, IsFiles

\* While the durable watermark stays, so does what is numbered.
LEMMA NumberedKept ==
  ASSUME Inv, Inv', [Next]_vars, Running, Running', Numbers, UNCHANGED hw
  PROVE  \A next, flushed \in Nat : Numbered(next, flushed) => Numbered(next, flushed)'
<1>1. (\E s \in DOMAIN walFiles : s > hw) => \E s \in DOMAIN walFiles' : s > hw
  <2> SUFFICES ASSUME NEW s \in DOMAIN walFiles, s > hw PROVE s \in DOMAIN walFiles'
    OBVIOUS
  <2>1. CASE DOMAIN walFiles \subseteq DOMAIN walFiles'
    BY <2>1
  <2>2. CASE FlushCleanup /\ DOMAIN walFiles' = DOMAIN walFiles \ {flushedSeg}
    <3>1. flushedSeg <= hw
      BY <2>2 DEF FlushCleanup, Numbers, RemovableNumbers
    <3> QED BY <2>2, <3>1, NumberTypes
  <2> QED BY <2>1, <2>2, LogSteps
<1> QED BY <1>1 DEF Numbered

\* Unless the LogWriter moves on by itself, AppendBatch writes to the active segment.
LEMMA Appended ==
  ASSUME Inv, WALAppend \/ WALAppendFails, Clean'
  PROVE  \E t : /\ activeSeg \in DOMAIN walFiles /\ walFiles' = Set(walFiles, activeSeg, t)
                /\ \A k \in Keys : \/ t[k] = walFiles[activeSeg][k]
                                   \/ batch[k] # None /\ t[k] = batch[k]
                /\ WALAppend => \A k \in Keys : batch[k] # None => t[k] = batch[k]
<1>1. activeSeg \in DOMAIN walFiles
  BY DEF WALAppend, WALAppendFails, Inv, ActiveWAL
<1>2. PICK records \in Tables : /\ Log(records) /\ (WALAppend => records = batch)
                                /\ \A k \in Keys : records[k] = None \/ records[k] = batch[k]
  BY Appends
<1>3. walFiles' = Set(walFiles, activeSeg, Overlay(records, walFiles[activeSeg]))
  BY <1>1, <1>2, LogWrites DEF Clean
<1>4. PICK t : t = Overlay(records, walFiles[activeSeg])
  OBVIOUS
<1>5. \A k \in Keys : t[k] = IF records[k] # None THEN records[k] ELSE walFiles[activeSeg][k]
  BY <1>4 DEF Overlay
<1> QED BY <1>1, <1>2, <1>3, <1>4, <1>5

\* A new segment is created only while a writer rotates.
LEMMA SegmentCreated ==
  ASSUME Inv, [Next]_vars, Running, Running', Clean', NEW s \in DOMAIN walFiles', s \notin DOMAIN walFiles
  PROVE  s = activeSeg /\ RotateWAL
<1>1. ~UNCHANGED walFiles
  OBVIOUS
<1>2. ~FlushCleanup
  <2> SUFFICES ASSUME FlushCleanup PROVE FALSE
    OBVIOUS
  <2>1. walFiles' = Without(walFiles, {flushedSeg})
    BY <1>1 DEF FlushCleanup
  <2>2. DOMAIN walFiles' = DOMAIN walFiles \ {flushedSeg}
    BY <2>1, WithoutFiles
  <2> QED BY <2>2
<1>3. ~(WALAppend \/ WALAppendFails)
  <2> SUFFICES ASSUME WALAppend \/ WALAppendFails PROVE FALSE
    OBVIOUS
  <2>1. PICK t : activeSeg \in DOMAIN walFiles /\ walFiles' = Set(walFiles, activeSeg, t)
    BY Appended
  <2> QED BY <2>1 DEF Set
<1>4. CASE RotateWAL
  <2>1. walFiles' = Set(walFiles, activeSeg, Empty)
    BY <1>1, <1>4 DEF RotateWAL
  <2> QED BY <1>4, <2>1 DEF Set
<1> QED BY <1>1, <1>2, <1>3, <1>4, DataSteps

\* A flush is made durable.
LEMMA NumbersFlushed ==
  ASSUME Inv, Inv', [Next]_vars, Running, Running', Numbers,
         FlushSave, manifest' = pending, hw' = Max({hw, flushedSeg})
  PROVE  Numbers'
<1>1. /\ hw' \in Nat /\ hw' >= hw /\ hw' >= flushedSeg /\ hw' \in {hw, flushedSeg}
  BY NumberTypes, MaxOfTwo
<1>2. UNCHANGED <<walFiles, imm, activeSeg, memtable, flushedSeg, nextSeg, wpc, kpc, rpc>> /\ manifestMu' = "free"
  BY DEF FlushSave, mem, lsm, writer
<1>3. manifestMu = "flush" /\ pending.flushed = flushedSeg /\ rpc = "none"
  BY DEF Inv, Control, Pending, FlushSave, Running
<1>4. \A m \in Nat : Numbered(m, flushedSeg) => Numbered(m, flushedSeg)'
  <2> TAKE m \in Nat
  <2>1. m > hw /\ m > flushedSeg => m > hw'
    BY <1>1, NumberTypes
  <2>2. hw' > flushedSeg => hw' = hw
    BY <1>1, NumberTypes
  <2> QED BY <1>2, <2>1, <2>2 DEF Numbered
<1>5. Numbered(nextSeg, flushedSeg) /\ Numbered(pending.next, flushedSeg)
  BY <1>3 DEF Numbers, DiskNumbers, LiveNumbers, Live, Running
<1>6. DiskNumbers'
  <2>1. PICK m \in Nat : m = pending.next
    BY NumberTypes
  <2>2. Numbered(m, flushedSeg)'
    BY <1>4, <1>5, <2>1
  <2>3. Numbered(manifest.next, manifest.flushed)'
    BY <1>2, <1>3, <2>1, <2>2 DEF Numbered
  <2> QED BY <1>2, <2>3 DEF DiskNumbers
<1>7. LiveNumbers'
  <2>1. Numbered(nextSeg, flushedSeg)'
    BY <1>2, <1>4, <1>5, NumberTypes DEF Numbered
  <2>2. /\ manifest'.flushed <= flushedSeg'
        /\ \A s \in DOMAIN walFiles' : s <= activeSeg'
        /\ \A j \in 1..Len(imm') : flushedSeg' < imm'[j].seg
    BY <1>2, <1>3, NumberTypes DEF Numbers, LiveNumbers, Live, Running
  <2>3. \A s \in DOMAIN walFiles' : s > flushedSeg' => s > hw'
    BY <1>1, <1>2, NumberTypes DEF Numbers, LiveNumbers, Live, Running
  <2>4. Drained' \/ (activeSeg' > flushedSeg' /\ activeSeg' > hw')
    BY <1>1, <1>2, <1>3, NumberTypes DEF Numbers, LiveNumbers, Live, Running, Drained
  <2> QED BY <2>1, <2>2, <2>3, <2>4 DEF LiveNumbers
<1> QED BY <1>1, <1>2, <1>3, <1>6, <1>7, NumberTypes DEF Numbers, PendingNumbers, RemovableNumbers

\* A memtable is flushed: its segment is on disk and newer than all that is durable.
LEMMA FlushedHead ==
  ASSUME Inv, Running, Numbers, FlushRegister, NEW h, h = Head(imm).seg
  PROVE  /\ h \in DOMAIN walFiles /\ h \in Nat /\ h > flushedSeg /\ h > hw
         /\ h <= activeSeg /\ h < nextSeg /\ imm # <<>> /\ h = imm[1].seg
<1>1. imm # <<>> /\ h \in Nat /\ h = imm[1].seg /\ 1 \in 1..Len(imm)
  BY HeadOlder
<1>2. h \in DOMAIN walFiles
  BY <1>1 DEF Inv, Disk
<1>3. h > flushedSeg
  BY <1>1, NumberTypes DEF Numbers, LiveNumbers, Live, Running
<1>4. h > hw
  BY <1>2, <1>3, NumberTypes DEF Numbers, LiveNumbers, Live, Running
<1>5. h <= activeSeg
  BY <1>1, <1>2, NumberTypes DEF Numbers, LiveNumbers, Live, Running
<1>6. activeSeg < nextSeg
  BY DEF Inv, Active
<1> QED BY <1>1, <1>2, <1>3, <1>4, <1>5, <1>6, NumberTypes

\* What a manifest about to be written records.
LEMMA NumbersPending ==
  ASSUME Inv, Inv', [Next]_vars, Running, Running', Numbers, UNCHANGED hw, manifestMu' # "free"
  PROVE  Numbered(pending.next, pending.flushed)' /\ pending'.flushed <= flushedSeg'
<1>1. Numbered(nextSeg, flushedSeg)
  BY DEF Numbers, LiveNumbers, Live, Running
<1>2. CASE manifestMu # "free" /\ UNCHANGED pending
  <2>1. PICK m \in Nat, f \in Nat : m = pending.next /\ f = pending.flushed
    BY NumberTypes
  <2>2. Numbered(m, f)' /\ f <= flushedSeg
    BY <1>2, <2>1, NumberedKept DEF Numbers, DiskNumbers, PendingNumbers
  <2>3. flushedSeg' = flushedSeg \/ flushedSeg' > flushedSeg
    BY <1>2, MemorySteps, FlushedHead DEF FlushRegister
  <2>4. flushedSeg' \in Nat
    BY NextTypes
  <2> QED BY <1>2, <2>1, <2>2, <2>3, <2>4, NumberTypes DEF Numbered
<1>3. CASE RotateBuild
  <2>1. /\ pending' = [next |-> nextSeg, l0 |-> l0, l1 |-> l1, flushed |-> 0]
        /\ UNCHANGED <<walFiles, flushedSeg>> /\ wpc = "build" /\ rpc = "none"
    BY <1>3 DEF RotateBuild, RotationManifest, disk, lsm, Inv, Control, Running
  <2>2. activeSeg \in DOMAIN walFiles /\ activeSeg > hw
    BY <2>1 DEF Inv, ActiveWAL, Numbers, LiveNumbers, Live, Running, Drained
  <2>3. pending'.next = nextSeg /\ pending'.flushed = 0
    BY <2>1
  <2> QED BY <1>1, <2>1, <2>2, <2>3, NumberTypes DEF Numbered
<1>4. CASE FlushRegister
  <2>1. PICK h : h = Head(imm).seg
    OBVIOUS
  <2>2. /\ pending' = [next |-> nextSeg, l0 |-> l0', l1 |-> l1, flushed |-> h]
        /\ flushedSeg' = h
    BY <1>4, <2>1 DEF FlushRegister
  <2>3. h \in Nat /\ h > hw /\ h < nextSeg
    BY <1>4, <2>1, FlushedHead
  <2>4. pending'.next = nextSeg /\ pending'.flushed = h
    BY <2>2
  <2> QED BY <1>1, <2>2, <2>3, <2>4, NumberTypes DEF Numbered
<1>5. CASE CompactBuild
  <2>1. pending'.next = nextSeg' /\ pending'.flushed = flushedSeg /\ UNCHANGED <<walFiles, flushedSeg>>
    BY <1>5 DEF CompactBuild, disk, lsm
  <2>2. nextSeg' >= nextSeg /\ nextSeg' \in Nat
    BY LevelSteps, NextTypes
  <2> QED BY <1>1, <2>1, <2>2, NumberTypes DEF Numbered
<1> QED BY <1>2, <1>3, <1>4, <1>5, NumberSteps

\* The running engine keeps its numbers.
LEMMA NumbersRunning ==
  ASSUME Inv, Inv', [Next]_vars, Running, Running', Clean', Numbers
  PROVE  Numbers'
<1>1. CASE ~UNCHANGED hw
  BY <1>1, NumberSteps, NumbersFlushed
<1>2. CASE UNCHANGED hw
  <2>1. /\ Numbered(nextSeg, flushedSeg) /\ manifest.flushed <= flushedSeg
        /\ \A s \in DOMAIN walFiles : s <= activeSeg
        /\ \A s \in DOMAIN walFiles : s > flushedSeg => s > hw
        /\ \A j \in 1..Len(imm) : flushedSeg < imm[j].seg
        /\ Drained \/ (activeSeg > flushedSeg /\ activeSeg > hw)
    BY DEF Numbers, LiveNumbers, Live, Running, Inv, Control
  <2>2. /\ activeSeg' >= activeSeg /\ flushedSeg' >= flushedSeg
        /\ \A j \in 1..Len(imm') : flushedSeg' < imm'[j].seg
        /\ Drained' \/ (activeSeg' > flushedSeg' /\ activeSeg' > hw')
        /\ FlushRegister \/ UNCHANGED flushedSeg
    <3>1. CASE UNCHANGED <<activeSeg, imm, flushedSeg>> /\ (Drained => Drained')
      BY <1>2, <2>1, <3>1, NumberTypes
    <3>2. CASE /\ imm' = Append(imm, [seg |-> activeSeg, data |-> memtable])
               /\ ~Drained /\ activeSeg' >= activeSeg /\ UNCHANGED flushedSeg
      <4>1. /\ Len(imm') = Len(imm) + 1
            /\ \A i \in 1..Len(imm) : imm'[i] = imm[i]
            /\ imm'[Len(imm) + 1].seg = activeSeg
        BY <3>2, QueueAppend DEF Inv, TypeInv, TypeData, TypeSegments
      <4>2. \A j \in 1..Len(imm') : j \in 1..Len(imm) \/ j = Len(imm) + 1
        BY <4>1, NumberTypes
      <4>3. activeSeg' \in Nat
        BY NextTypes
      <4>4. \A j \in 1..Len(imm') : flushedSeg < imm'[j].seg
        BY <2>1, <3>2, <4>1, <4>2
      <4> QED BY <1>2, <2>1, <3>2, <4>3, <4>4, NumberTypes
    <3>3. CASE FlushRegister
      <4>1. PICK h : h = Head(imm).seg
        OBVIOUS
      <4>2. /\ OlderThanMemory(h)' /\ flushedSeg' = h /\ UNCHANGED activeSeg
            /\ h \in Nat /\ h > flushedSeg /\ h > hw /\ h <= activeSeg
        BY <3>3, <4>1, HeadOlder, FlushedHead DEF FlushRegister
      <4>3. /\ h < activeSeg' \/ Drained'
            /\ \A j \in 1..Len(imm') : h < imm'[j].seg
        BY <4>2 DEF OlderThanMemory
      <4> QED BY <1>2, <3>3, <4>2, <4>3, NumberTypes
    <3> QED BY <3>1, <3>2, <3>3, MemorySteps
  <2>3. activeSeg' \in Nat /\ flushedSeg' \in Nat /\ nextSeg' \in Nat
    BY NextTypes
  <2>4. Numbered(nextSeg, flushedSeg)'
    <3>1. nextSeg' >= nextSeg
      BY LevelSteps
    <3>2. CASE UNCHANGED flushedSeg
      <4>1. PICK n \in Nat, f \in Nat : n = nextSeg /\ f = flushedSeg
        BY NumberTypes
      <4>2. Numbered(n, f)'
        BY <1>2, <2>1, <4>1, NumberedKept
      <4> QED BY <1>2, <2>3, <3>1, <3>2, <4>1, <4>2, NumberTypes DEF Numbered
    <3>3. CASE FlushRegister
      <4>1. flushedSeg' > hw /\ flushedSeg' < nextSeg
        BY <3>3, FlushedHead DEF FlushRegister
      <4> QED BY <1>2, <2>1, <2>3, <3>1, <4>1, NumberTypes DEF Numbered
    <3> QED BY <2>2, <3>2, <3>3
  <2>5. manifest'.flushed <= flushedSeg'
    <3>1. manifest'.flushed <= flushedSeg
      BY <2>1, ManifestSteps DEF Numbers, PendingNumbers
    <3>2. manifest'.flushed \in Nat
      BY NextTypes
    <3> QED BY <2>2, <2>3, <3>1, <3>2, NumberTypes
  <2>6. \A s \in DOMAIN walFiles' : s <= activeSeg' /\ (s > flushedSeg' => s > hw')
    <3> TAKE s \in DOMAIN walFiles'
    <3>1. s \in Nat
      BY NextTypes
    <3>2. CASE s \in DOMAIN walFiles
      BY <1>2, <2>1, <2>2, <2>3, <3>1, <3>2, NumberTypes
    <3>3. CASE s \notin DOMAIN walFiles
      <4>1. s = activeSeg /\ wpc = "rotate"
        BY <3>3, SegmentCreated DEF RotateWAL
      <4>2. ~Drained
        BY <4>1 DEF Drained
      <4> QED BY <1>2, <2>1, <2>2, <2>3, <4>1, <4>2, NumberTypes
    <3> QED BY <3>2, <3>3
  <2>7. LiveNumbers'
    BY <2>2, <2>4, <2>5, <2>6 DEF LiveNumbers
  <2>8. DiskNumbers'
    <3>1. Numbered(manifest.next, manifest.flushed)'
      <4>1. Numbered(manifest.next, manifest.flushed) /\ (manifestMu # "free" => Numbered(pending.next, pending.flushed))
        BY DEF Numbers, DiskNumbers
      <4>2. CASE UNCHANGED manifest
        <5>1. PICK n \in Nat, f \in Nat : n = manifest.next /\ f = manifest.flushed
          BY NumberTypes
        <5>2. Numbered(n, f)'
          BY <1>2, <4>1, <5>1, NumberedKept
        <5> QED BY <4>2, <5>1, <5>2
      <4>3. CASE manifestMu # "free" /\ manifest' = pending
        <5>1. PICK n \in Nat, f \in Nat : n = pending.next /\ f = pending.flushed
          BY NumberTypes
        <5>2. Numbered(n, f)'
          BY <1>2, <4>1, <4>3, <5>1, NumberedKept
        <5> QED BY <4>3, <5>1, <5>2
      <4> QED BY <4>2, <4>3, ManifestSteps
    <3> QED BY <1>2, <3>1, NumbersPending DEF DiskNumbers
  <2>9. PendingNumbers'
    BY <1>2, NumbersPending DEF PendingNumbers
  <2>10. RemovableNumbers'
    <3>1. rpc' = "none"
      BY DEF Inv, Control, Running
    <3>2. fpc' = "cleanup" => (fpc = "cleanup" /\ UNCHANGED flushedSeg) \/ (FlushSave /\ manifest' = pending)
      BY NumberSteps
    <3>3. CASE FlushSave /\ manifest' = pending
      <4>1. hw' = Max({hw, flushedSeg}) /\ UNCHANGED flushedSeg
        BY <3>3 DEF FlushSave, lsm
      <4>2. Max({hw, flushedSeg}) >= flushedSeg
        BY NumberTypes, MaxOfTwo
      <4>3. hw >= flushedSeg
        BY <1>2, <4>1, <4>2
      <4> QED BY <1>2, <4>1, <4>3, NumberTypes DEF RemovableNumbers
    <3> QED BY <1>2, <3>1, <3>2, <3>3 DEF Numbers, RemovableNumbers
  <2> QED BY <2>7, <2>8, <2>9, <2>10 DEF Numbers
<1> QED BY <1>1, <1>2

------------------------------------------------------------------------------
(* Memory and the log *)

\* The records of a log to which a segment is written, or from which some are removed.
LEMMA RecordSet ==
  ASSUME NEW id, NEW t, walFiles' = Set(walFiles, id, t), NEW s, NEW k,
         IF id \in DOMAIN walFiles THEN s # id \/ t[k] = walFiles[id][k] ELSE t[k] = None
  PROVE  SameRecord(s, k)
<1>1. /\ DOMAIN walFiles' = DOMAIN walFiles \cup {id} /\ walFiles'[id] = t
      /\ \A x \in DOMAIN walFiles : x # id => walFiles'[x] = walFiles[x]
  BY DEF Set
<1>2. CASE s = id
  BY <1>1, <1>2 DEF SameRecord
<1>3. CASE s # id
  BY <1>1, <1>3 DEF SameRecord
<1> QED BY <1>2, <1>3

\* Nor does the removal of other segments.
LEMMA RecordWithout ==
  ASSUME NEW ids, walFiles' = Without(walFiles, ids), NEW s, NEW k, s \notin ids
  PROVE  SameRecord(s, k)
<1>1. /\ DOMAIN walFiles' = DOMAIN walFiles \ ids
      /\ \A x \in DOMAIN walFiles \ ids : walFiles'[x] = walFiles[x]
  BY WithoutFiles
<1> QED BY <1>1 DEF SameRecord

\* The running engine changes only the active segment, for the keys of a
\* batch, and removes only the one just flushed.
LEMMA RecordKept ==
  ASSUME Inv, [Next]_vars, Running, Running', Clean', NEW s, NEW k \in Keys,
         FlushCleanup => s # flushedSeg, WALAppend \/ WALAppendFails => s # activeSeg \/ batch[k] = None
  PROVE  SameRecord(s, k)
<1>1. CASE UNCHANGED walFiles
  BY <1>1 DEF SameRecord
<1>2. CASE RotateWAL
  <2>1. CASE activeSeg \notin DOMAIN walFiles /\ walFiles' = Set(walFiles, activeSeg, Empty)
    <3>1. Empty[k] = None
      BY DEF Empty
    <3> QED BY <2>1, <3>1, RecordSet
  <2> QED BY <1>1, <1>2, <2>1 DEF RotateWAL
<1>3. CASE WALAppend \/ WALAppendFails
  <2>1. PICK t : /\ activeSeg \in DOMAIN walFiles /\ walFiles' = Set(walFiles, activeSeg, t)
                 /\ t[k] = walFiles[activeSeg][k] \/ batch[k] # None
    BY <1>3, Appended
  <2> QED BY <1>3, <2>1, RecordSet
<1>4. CASE FlushCleanup
  <2>1. CASE walFiles' = Without(walFiles, {flushedSeg})
    <3>1. s \notin {flushedSeg}
      BY <1>4
    <3> QED BY <2>1, <3>1, RecordWithout
  <2> QED BY <1>1, <1>4, <2>1 DEF FlushCleanup
<1> QED BY <1>1, <1>2, <1>3, <1>4, DataSteps

\* A memtable that joins the queue is the one in the log.
LEMMA FrozenSteps ==
  ASSUME Inv, [Next]_vars, Running, Running', ~UNCHANGED imm, ~FlushRegister
  PROVE  wpc # "apply" /\ (~bgErr \/ kpc = "queue")
         /\ (WriteFreeze \/ SnapshotFreeze \/ CloseQueue)
<1>1. WriteFreeze \/ SnapshotFreeze \/ CloseQueue
  BY DataSteps DEF WriteApply
<1>2. CASE CloseQueue
  BY <1>2 DEF CloseQueue, Inv, Control
<1>3. CASE WriteFreeze
  BY <1>3 DEF WriteFreeze
<1>4. CASE SnapshotFreeze
  BY <1>4 DEF SnapshotFreeze
<1> QED BY <1>1, <1>2, <1>3, <1>4

\* Memtables of the queue were filled before the active segment was opened.
LEMMA QueueOlder ==
  ASSUME Inv, Running, Numbers, NEW j \in 1..Len(imm)
  PROVE  /\ Floor(j) \in Nat /\ Floor(j) >= flushedSeg
         /\ imm[j].seg < activeSeg \/ Drained
<1>1. imm[j].seg < activeSeg \/ Drained
  BY DEF Inv, Queue
<1>2. Floor(j) = flushedSeg \/ (j - 1 \in 1..Len(imm) /\ Floor(j) = imm[j - 1].seg)
  BY NumberTypes DEF Floor
<1>3. \A i \in 1..Len(imm) : imm[i].seg \in Nat /\ flushedSeg < imm[i].seg
  BY NumberTypes DEF Numbers, LiveNumbers, Live, Running
<1> QED BY <1>1, <1>2, <1>3, NumberTypes

\* Their part of the log is kept.
LEMMA QueueEntryKept ==
  ASSUME Inv, Inv', [Next]_vars, Running, Running', Clean', Numbers, NEW j \in 1..Len(imm), NEW k \in Keys,
         NEW c, c = Floor(j), NEW hi, hi = imm[j].seg
  PROVE  Between(c, hi, k)' = Between(c, hi, k)
<1>1. c \in Nat /\ c >= flushedSeg /\ (hi < activeSeg \/ Drained) /\ hi \in Nat
  BY QueueOlder, NumberTypes
<1>2. ASSUME NEW s \in Nat, s > c, s <= hi PROVE SameRecord(s, k)
  <2>1. s # flushedSeg
    BY <1>1, <1>2, NumberTypes
  <2>2. CASE hi < activeSeg
    <3>1. s # activeSeg
      BY <1>1, <1>2, <2>2, NumberTypes
    <3> QED BY <2>1, <3>1, RecordKept
  <2>3. CASE Drained
    <3>1. ~WALAppend /\ ~WALAppendFails
      BY <2>3 DEF Drained, WALAppend, WALAppendFails
    <3> QED BY <2>1, <3>1, RecordKept
  <2> QED BY <1>1, <2>2, <2>3
<1>3. IsFiles(walFiles) /\ IsFiles(walFiles)'
  BY DEF Inv, TypeInv, TypeData
<1> QED BY <1>1, <1>2, <1>3, BetweenKept

\* The queue stays as logged.
LEMMA LoggedQueueRunning ==
  ASSUME Inv, Inv', [Next]_vars, Running, Running', Clean', Numbers, LoggedQueue, LoggedActive
  PROVE  LoggedQueue'
<1> SUFFICES ASSUME NEW j \in 1..Len(imm'), NEW k \in Keys
             PROVE  imm'[j].data[k] = Between(Floor(j), imm[j].seg, k)'
  BY DEF LoggedQueue
<1>1. PICK c, hi : c = Floor(j)' /\ hi = imm'[j].seg
  OBVIOUS
<1> SUFFICES imm'[j].data[k] = Between(c, hi, k)'
  BY <1>1 DEF Between
<1>2. CASE UNCHANGED <<activeSeg, imm, flushedSeg>>
  <2>1. j \in 1..Len(imm) /\ c = Floor(j) /\ hi = imm[j].seg
    BY <1>1, <1>2 DEF Floor
  <2>2. Between(c, hi, k)' = Between(c, hi, k)
    BY <2>1, QueueEntryKept
  <2>3. imm[j].data[k] = Between(c, hi, k)
    BY <2>1 DEF LoggedQueue
  <2> QED BY <1>2, <2>2, <2>3
<1>3. CASE /\ imm' = Append(imm, [seg |-> activeSeg, data |-> memtable])
           /\ ~Drained /\ activeSeg' >= activeSeg /\ UNCHANGED flushedSeg
  <2>1. /\ Len(imm') = Len(imm) + 1 /\ Len(imm) \in Nat
        /\ \A i \in 1..Len(imm) : imm'[i] = imm[i]
        /\ imm'[Len(imm) + 1] = [seg |-> activeSeg, data |-> memtable]
    <3>1. imm \in Seq([seg : Nat, data : Tables]) /\ [seg |-> activeSeg, data |-> memtable] \in [seg : Nat, data : Tables]
      BY DEF Inv, TypeInv, TypeData, TypeSegments
    <3> QED BY <1>3, <3>1, AppendProperties, LenProperties
  <2>2. CASE j \in 1..Len(imm)
    <3>1. c = Floor(j) /\ hi = imm[j].seg
      <4>1. j # 1 => j - 1 \in 1..Len(imm)
        BY <2>1, <2>2
      <4> QED BY <1>1, <1>3, <2>1, <2>2, <4>1 DEF Floor
    <3>2. Between(c, hi, k)' = Between(c, hi, k)
      BY <2>2, <3>1, QueueEntryKept
    <3>3. imm[j].data[k] = Between(c, hi, k)
      BY <2>2, <3>1 DEF LoggedQueue
    <3> QED BY <2>1, <2>2, <3>2, <3>3
  <2>3. CASE j = Len(imm) + 1
    <3>1. imm'[j].data = memtable /\ hi = activeSeg
      BY <1>1, <2>1, <2>3
    <3>2. c = Floor(Len(imm) + 1)
      <4>1. Len(imm) + 1 # 1 => Len(imm) \in 1..Len(imm)
        BY <2>1
      <4> QED BY <1>1, <1>3, <2>1, <2>3, <4>1 DEF Floor
    <3>3. imm' # imm
      BY <2>1
    <3>4. ~FlushRegister
      <4>1. FlushRegister => Len(imm') # Len(imm) + 1
        BY HeadOlder, QueueHead, <2>1 DEF FlushRegister, Inv, TypeInv, TypeData
      <4> QED BY <2>1, <4>1
    <3>5. /\ wpc # "apply" /\ (~bgErr \/ kpc = "queue")
          /\ WriteFreeze \/ SnapshotFreeze \/ CloseQueue
      BY <3>3, <3>4, FrozenSteps
    <3>6. memtable[k] = Above(c, k)
      BY <3>2, <3>5 DEF LoggedActive, ActiveEntry, Live, Running
    <3>7. UNCHANGED walFiles
      BY <3>5 DEF WriteFreeze, SnapshotFreeze, CloseQueue, disk
    <3>8. \A s \in DOMAIN walFiles : s <= activeSeg
      BY DEF Numbers, LiveNumbers, Live, Running
    <3>9. {s \in DOMAIN walFiles : s > c /\ s <= hi} = {s \in DOMAIN walFiles : s > c}
      BY <3>1, <3>8
    <3> QED BY <3>1, <3>6, <3>7, <3>9 DEF Above, Between
  <2> QED BY <2>1, <2>2, <2>3
<1>4. CASE FlushRegister
  <2>1. imm # <<>> /\ imm' = Tail(imm) /\ flushedSeg' = Head(imm).seg /\ UNCHANGED walFiles
    BY <1>4 DEF FlushRegister, disk, Inv, Control
  <2>2. /\ Len(imm) \in Nat \ {0} /\ Len(imm') = Len(imm) - 1 /\ Head(imm) = imm[1]
        /\ \A i \in 1..Len(imm') : imm'[i] = imm[i + 1]
    BY <2>1, QueueHead DEF Inv, TypeInv, TypeData
  <2>3. PICK i : i = j + 1
    OBVIOUS
  <2>4. i \in 1..Len(imm) /\ imm'[j] = imm[i] /\ i # 1
    BY <2>2, <2>3
  <2>5. c = Floor(i) /\ hi = imm[i].seg
    <3>1. CASE j = 1
      BY <1>1, <2>1, <2>2, <2>3, <2>4, <3>1 DEF Floor
    <3>2. CASE j # 1
      <4>1. j - 1 \in 1..Len(imm') /\ (j - 1) + 1 = i - 1
        BY <2>2, <2>3, <3>2
      <4>2. imm'[j - 1] = imm[i - 1]
        BY <2>2, <4>1
      <4> QED BY <1>1, <2>4, <3>2, <4>2 DEF Floor
    <3> QED BY <3>1, <3>2
  <2>6. imm[i].data[k] = Between(c, hi, k)
    BY <2>4, <2>5 DEF LoggedQueue
  <2> QED BY <2>1, <2>4, <2>6 DEF Between
<1> QED BY <1>2, <1>3, <1>4, MemorySteps

\* Where the part of the log begins that the active memtable holds.
LEMMA ActiveFloor ==
  ASSUME Inv, Running, Numbers, NEW c, c = Floor(Len(imm) + 1)
  PROVE  c \in Nat /\ c >= flushedSeg /\ (~Drained => c < activeSeg)
<1>1. Len(imm) \in Nat /\ flushedSeg \in Nat /\ activeSeg \in Nat
  BY NumberTypes
<1>2. CASE Len(imm) = 0
  <2>1. c = flushedSeg
    BY <1>2 DEF Floor
  <2>2. Drained \/ activeSeg > flushedSeg
    BY DEF Numbers, LiveNumbers, Live, Running, Inv, Control
  <2> QED BY <1>1, <2>1, <2>2
<1>3. CASE Len(imm) # 0
  <2>1. Len(imm) \in 1..Len(imm) /\ Len(imm) + 1 # 1 /\ (Len(imm) + 1) - 1 = Len(imm)
    BY <1>1, <1>3
  <2>2. c = imm[Len(imm)].seg
    BY <2>1 DEF Floor
  <2>3. imm[Len(imm)].seg \in Nat /\ flushedSeg < imm[Len(imm)].seg
    BY <2>1, NumberTypes DEF Numbers, LiveNumbers, Live, Running
  <2>4. imm[Len(imm)].seg < activeSeg \/ Drained
    BY <2>1 DEF Inv, Queue
  <2> QED BY <1>1, <2>2, <2>3, <2>4
<1> QED BY <1>2, <1>3

\* It stays when a memtable is flushed.
LEMMA ActiveFloorKept ==
  ASSUME Inv, UNCHANGED <<imm, flushedSeg>> \/ FlushRegister
  PROVE  Floor(Len(imm) + 1)' = Floor(Len(imm) + 1)
<1>1. CASE UNCHANGED <<imm, flushedSeg>>
  BY <1>1 DEF Floor
<1>2. CASE FlushRegister
  <2>1. imm # <<>> /\ imm' = Tail(imm) /\ flushedSeg' = Head(imm).seg
    BY <1>2 DEF FlushRegister, Inv, Control
  <2>2. /\ Len(imm) \in Nat \ {0} /\ Len(imm') = Len(imm) - 1 /\ Head(imm) = imm[1]
        /\ \A i \in 1..Len(imm') : imm'[i] = imm[i + 1]
    BY <2>1, QueueHead DEF Inv, TypeInv, TypeData
  <2>3. Floor(Len(imm) + 1) = imm[Len(imm)].seg
    BY <2>2 DEF Floor
  <2>4. PICK n : n = Len(imm')
    OBVIOUS
  <2>5. n \in Nat /\ n + 1 = Len(imm) /\ (n + 1) - 1 = n
    BY <2>2, <2>4
  <2>6. CASE n = 0
    <3>1. Floor(Len(imm) + 1)' = flushedSeg'
      BY <2>4, <2>5, <2>6 DEF Floor
    <3>2. Len(imm) = 1
      BY <2>5, <2>6
    <3>3. Floor(Len(imm) + 1) = Head(imm).seg
      BY <2>2, <2>3, <3>2
    <3> QED BY <2>1, <3>1, <3>3
  <2>7. CASE n # 0
    <3>1. n \in 1..Len(imm') /\ n + 1 # 1
      BY <2>4, <2>5, <2>7
    <3>2. Floor(Len(imm) + 1)' = imm'[n].seg
      BY <2>4, <2>5, <3>1 DEF Floor
    <3>3. imm'[n] = imm[Len(imm)]
      BY <2>2, <2>5, <3>1
    <3> QED BY <2>3, <3>2, <3>3
  <2> QED BY <2>6, <2>7
<1> QED BY <1>1, <1>2

\* The active part of the log changes only with a batch.
LEMMA ActiveEntryKept ==
  ASSUME Inv, Inv', [Next]_vars, Running, Running', Clean', Numbers, NEW k \in Keys,
         UNCHANGED <<imm, flushedSeg>> \/ FlushRegister, WALAppend \/ WALAppendFails => batch[k] = None
  PROVE  ActiveEntry(k)' = ActiveEntry(k)
<1>1. PICK c : c = Floor(Len(imm) + 1)
  OBVIOUS
<1>2. c \in Nat /\ c >= flushedSeg /\ c = Floor(Len(imm) + 1)'
  BY <1>1, ActiveFloor, ActiveFloorKept
<1>3. ASSUME NEW s \in Nat, s > c PROVE SameRecord(s, k)
  <2>1. s # flushedSeg
    BY <1>2, <1>3, NumberTypes
  <2> QED BY <2>1, RecordKept
<1>4. IsFiles(walFiles) /\ IsFiles(walFiles)'
  BY DEF Inv, TypeInv, TypeData
<1>5. Above(c, k)' = Above(c, k)
  BY <1>2, <1>3, <1>4, AboveKept
<1>6. ActiveEntry(k) = Above(c, k)
  BY <1>1 DEF ActiveEntry
<1>7. ActiveEntry(k)' = Above(c, k)'
  BY <1>2 DEF ActiveEntry, Above
<1> QED BY <1>5, <1>6, <1>7

\* What the newest segment has, the log has.
LEMMA NewestEntry ==
  ASSUME Inv, Running, Numbers, ~Drained, activeSeg \in DOMAIN walFiles, NEW k \in Keys,
         walFiles[activeSeg][k] # None, NEW c \in Nat, c < activeSeg
  PROVE  Above(c, k) = walFiles[activeSeg][k]
<1>1. \A s \in DOMAIN walFiles : s <= activeSeg
  BY DEF Numbers, LiveNumbers, Live, Running
<1>2. IsFiles(walFiles) /\ activeSeg > c
  BY NumberTypes DEF Inv, TypeInv, TypeData
<1> QED BY <1>1, <1>2, AboveNewest

\* A frozen memtable leaves nothing in the log for its successor.
LEMMA LoggedAfterFreeze ==
  ASSUME Inv, Running, Numbers, WriteFreeze \/ SnapshotFreeze \/ CloseQueue, NEW k \in Keys
  PROVE  memtable'[k] = ActiveEntry(k)'
<1>1. /\ imm' = Append(imm, [seg |-> activeSeg, data |-> memtable])
      /\ memtable' = Empty /\ UNCHANGED walFiles
  BY DEF WriteFreeze, SnapshotFreeze, CloseQueue, FreezeActiveMemTable, disk
<1>2. Len(imm') = Len(imm) + 1 /\ Len(imm) \in Nat /\ imm'[Len(imm) + 1].seg = activeSeg
  BY <1>1, QueueAppend DEF Inv, TypeInv, TypeData, TypeSegments
<1>3. Floor(Len(imm) + 1)' = activeSeg
  <2>1. PICK n : n = Len(imm')
    OBVIOUS
  <2>2. n + 1 # 1 /\ (n + 1) - 1 = Len(imm) + 1
    BY <1>2, <2>1
  <2> QED BY <1>2, <2>1, <2>2 DEF Floor
<1>4. PICK c : c = activeSeg
  OBVIOUS
<1>5. \A s \in DOMAIN walFiles : ~(s > c)
  BY <1>4, NumberTypes DEF Numbers, LiveNumbers, Live, Running
<1>6. Above(c, k) = None
  BY <1>5, AboveNothing
<1>7. ActiveEntry(k)' = Above(c, k)
  BY <1>1, <1>3, <1>4 DEF ActiveEntry, Above
<1> QED BY <1>1, <1>6, <1>7 DEF Empty

\* The active memtable stays as logged.
LEMMA LoggedActiveRunning ==
  ASSUME Inv, Inv', [Next]_vars, Running, Running', Clean', Numbers, LoggedActive
  PROVE  LoggedActive'
<1>1. Control /\ Control'
  BY DEF Inv
<1>2. ASSUME wpc' # "apply", ~bgErr' \/ kpc' = "queue", NEW k \in Keys
      PROVE  memtable'[k] = ActiveEntry(k)'
  <2>1. CASE WriteFreeze \/ SnapshotFreeze \/ CloseQueue
    BY <2>1, LoggedAfterFreeze
  <2>2. CASE WriteApply
    <3>1. ~bgErr
      BY <1>1, <1>2, <2>2 DEF WriteApply, Control
    <3>2. ~Drained /\ activeSeg \in DOMAIN walFiles /\ wpc = "apply"
      BY <2>2 DEF WriteApply, Drained, Inv, ActiveWAL
    <3>3. PICK c : c = Floor(Len(imm) + 1)
      OBVIOUS
    <3>4. c \in Nat /\ c < activeSeg
      BY <3>2, <3>3, ActiveFloor
    <3>5. UNCHANGED <<imm, flushedSeg>> /\ ~WALAppend /\ ~WALAppendFails
      BY <2>2 DEF WriteApply, WALAppend, WALAppendFails, lsm
    <3>6. ActiveEntry(k)' = ActiveEntry(k)
      BY <3>5, ActiveEntryKept
    <3>7. memtable'[k] = IF batch[k] # None THEN batch[k] ELSE memtable[k]
      BY <2>2, <3>1 DEF WriteApply, Overlay
    <3>8. CASE batch[k] = None
      BY <3>1, <3>2, <3>6, <3>7, <3>8 DEF LoggedActive
    <3>9. CASE batch[k] # None
      <4>1. walFiles[activeSeg][k] = batch[k]
        BY <3>2, <3>9 DEF LoggedActive
      <4>2. Above(c, k) = batch[k]
        BY <3>2, <3>4, <3>9, <4>1, NewestEntry
      <4> QED BY <3>3, <3>6, <3>7, <3>9, <4>2 DEF ActiveEntry
    <3> QED BY <3>8, <3>9
  <2>3. CASE ~WriteApply /\ ~(WriteFreeze \/ SnapshotFreeze \/ CloseQueue)
    <3>1. UNCHANGED memtable /\ (UNCHANGED <<imm, flushedSeg>> \/ FlushRegister)
      BY <2>3, DataSteps DEF FlushRegister
    <3>2. wpc # "apply"
      BY <1>2, <2>3, BatchSteps
    <3>3. ~WALAppend /\ ~WALAppendFails
      BY <1>1, <1>2 DEF WALAppend, WALAppendFails, Control
    <3>4. ~bgErr \/ kpc = "queue"
      <4>1. CASE CloseDrain
        BY <1>2, <4>1, ErrorStays DEF CloseDrain
      <4>2. CASE ~CloseDrain
        BY <1>2, <4>2, ErrorStays, BatchSteps
      <4> QED BY <4>1, <4>2
    <3>5. memtable[k] = ActiveEntry(k)
      BY <3>2, <3>4 DEF LoggedActive, Live, Running
    <3>6. ActiveEntry(k)' = ActiveEntry(k)
      BY <3>1, <3>3, ActiveEntryKept
    <3> QED BY <3>1, <3>5, <3>6
  <2> QED BY <2>1, <2>2, <2>3
<1>3. ASSUME wpc' = "apply", NEW k \in Keys
      PROVE  /\ batch'[k] # None => walFiles'[activeSeg'][k] = batch'[k]
             /\ batch'[k] = None /\ ~bgErr' => memtable'[k] = ActiveEntry(k)'
  <2>1. CASE WALAppend
    <3>1. UNCHANGED <<batch, memtable, imm, flushedSeg, activeSeg>> /\ ~bgErr /\ wpc = "check"
      BY <2>1 DEF WALAppend, lsm
    <3>2. PICK t : /\ walFiles' = Set(walFiles, activeSeg, t)
                   /\ batch[k] # None => t[k] = batch[k]
      BY <2>1, Appended
    <3>3. memtable[k] = ActiveEntry(k)
      BY <3>1 DEF LoggedActive, Live, Running
    <3>4. batch[k] = None => ActiveEntry(k)' = ActiveEntry(k)
      BY <3>1, ActiveEntryKept
    <3>5. walFiles'[activeSeg] = t
      BY <3>2 DEF Set
    <3> QED BY <3>1, <3>2, <3>3, <3>4, <3>5
  <2>2. CASE ~WALAppend
    <3>1. wpc = "apply" /\ UNCHANGED batch
      BY <1>3, <2>2, BatchSteps
    <3>2. ~WriteFreeze /\ ~SnapshotFreeze /\ ~CloseQueue /\ ~WriteApply /\ ~WALAppendFails /\ ~Drained
      BY <1>1, <1>3, <3>1 DEF WriteFreeze, SnapshotFreeze, CloseQueue, WriteApply, WALAppendFails, Control, Drained
    <3>3. UNCHANGED <<memtable, activeSeg>> /\ (UNCHANGED <<imm, flushedSeg>> \/ FlushRegister)
      BY <3>2, DataSteps DEF FlushRegister
    <3>4. activeSeg # flushedSeg
      BY <1>1, <3>2, NumberTypes DEF Numbers, LiveNumbers, Live, Running, Control
    <3>5. SameRecord(activeSeg, k)
      BY <2>2, <3>2, <3>4, RecordKept
    <3>6. activeSeg \in DOMAIN walFiles
      BY <3>1 DEF Inv, ActiveWAL
    <3>7. batch[k] # None => walFiles'[activeSeg][k] = batch[k]
      BY <3>1, <3>5, <3>6 DEF LoggedActive, SameRecord
    <3>8. batch[k] = None /\ ~bgErr' => memtable[k] = ActiveEntry(k)
      BY <3>1, ErrorStays DEF LoggedActive
    <3>9. ActiveEntry(k)' = ActiveEntry(k)
      BY <2>2, <3>2, <3>3, ActiveEntryKept
    <3> QED BY <3>1, <3>3, <3>7, <3>8, <3>9
  <2> QED BY <2>1, <2>2
<1> QED BY <1>2, <1>3 DEF LoggedActive

------------------------------------------------------------------------------
(* Flush and compaction *)

\* Levels whose files stay answer as before.
LEMMA LevelsKept ==
  ASSUME [Next]_vars, NoCollision', NEW lz \in Seq(Nat), NEW lo \in Seq(Nat), NEW k,
         Range(lz) \cup Range(lo) \subseteq DOMAIN sstFiles, Range(lz) \cup Range(lo) \subseteq DOMAIN sstFiles'
  PROVE  /\ FirstEntry(TablesOf(sstFiles', lz), k) = FirstEntry(TablesOf(sstFiles, lz), k)
         /\ SearchLevel1(sstFiles', lo, k) = SearchLevel1(sstFiles, lo, k)
         /\ SearchLevels(sstFiles', lz, lo, k) = SearchLevels(sstFiles, lz, lo, k)
<1>1. \A id \in Range(lz) \cup Range(lo) : sstFiles'[id] = sstFiles[id]
  BY TablesKept
<1> QED BY <1>1, LevelsSame

\* So do the files of Level 0 among the inputs of a compaction.
LEMMA InputsKept ==
  ASSUME [Next]_vars, NoCollision', NEW ids \in SUBSET Nat, IsFiniteSet(ids), NEW k,
         ids \subseteq DOMAIN sstFiles, ids \subseteq DOMAIN sstFiles'
  PROVE  LargestIDEntry(sstFiles', ids, k) = LargestIDEntry(sstFiles, ids, k)
<1>1. \A id \in ids : sstFiles'[id] = sstFiles[id]
  BY TablesKept
<1> QED BY <1>1, LargestSame

\* What holds of the files in an unexposed state.
LEMMA CleanFiles ==
  ASSUME Inv, Clean
  PROVE  NoCollision /\ LevelFiles /\ CompactionFiles /\ FlushFile /\ DurableFiles
BY DEF Inv, Files, Clean, NoCollision

\* And in the next state.
LEMMA CleanNextFiles ==
  ASSUME Inv', Clean'
  PROVE  NoCollision' /\ LevelFiles' /\ CompactionFiles' /\ FlushFile' /\ DurableFiles'
BY DEF Inv, Files, Clean, NoCollision

\* The table of a flush stays until it is registered.
LEMMA FlushedTableRunning ==
  ASSUME Inv, Inv', [Next]_vars, Running, Running', Clean, Clean', FlushedTable
  PROVE  FlushedTable'
<1> SUFFICES ASSUME fpc' = "register" PROVE sstFiles'[Head(imm').seg] = Head(imm').data
  BY DEF FlushedTable
<1>1. CASE FlushWrite
  <2>1. PICK id, t : id = Head(imm).seg /\ t = Head(imm).data
    OBVIOUS
  <2>2. sstFiles' = Set(sstFiles, id, t) /\ UNCHANGED imm
    BY <1>1, <2>1 DEF FlushWrite, mem
  <2>3. sstFiles'[id] = t
    BY <2>2 DEF Set
  <2> QED BY <2>1, <2>2, <2>3
<1>2. CASE Compaction \/ RotateSave
  <2>1. UNCHANGED <<imm, fpc>>
    BY <1>2 DEF Compaction, CompactWake, CompactMerge, CompactBuild, CompactSave, CompactCommit, RotateSave, mem
  <2>2. PICK id : id = Head(imm).seg
    OBVIOUS
  <2>3. id \in DOMAIN sstFiles /\ id \in DOMAIN sstFiles'
    BY <2>1, <2>2, CleanFiles, CleanNextFiles DEF FlushFile
  <2>4. sstFiles'[id] = sstFiles[id]
    BY <2>3, TablesKept, CleanNextFiles
  <2> QED BY <2>1, <2>2, <2>4 DEF FlushedTable
<1>3. CASE FlushRegister \/ FlushSave
  BY <1>3 DEF FlushRegister, FlushSave
<1> QED BY <1>1, <1>2, <1>3, TableSteps DEF FlushedTable

\* A step that leaves the levels and the compaction alone keeps its answers.
LEMMA MergingKept ==
  ASSUME Inv, Inv', [Next]_vars, Clean, Clean', Merging, UNCHANGED <<l0, l1, cinputs, couts>>,
         cpc' = cpc \/ (cpc = "save" /\ cpc' = "commit"), cpc \in {"save", "commit"} => UNCHANGED pending
  PROVE  Merging'
<1>1. /\ l0 \in Seq(Nat) /\ l1 \in Seq(Nat) /\ cinputs \in Seq(Nat) /\ couts \in Seq(Nat)
      /\ pending.l0 \in Seq(Nat) /\ pending.l1 \in Seq(Nat)
  BY DEF Inv, TypeInv, TypeSegments, Manifests
<1>2. Range(l0) \subseteq DOMAIN sstFiles /\ Range(l0) \subseteq DOMAIN sstFiles'
      /\ Range(l1) \subseteq DOMAIN sstFiles /\ Range(l1) \subseteq DOMAIN sstFiles'
  BY CleanFiles, CleanNextFiles DEF LevelFiles
<1>3. \A k \in Keys : Inputs(k)' = Inputs(k)
  <2> TAKE k \in Keys
  <2>1. PICK ids : ids = Range(l0) \cap Range(cinputs)
    OBVIOUS
  <2>2. ids \in SUBSET Nat /\ IsFiniteSet(ids) /\ ids \subseteq Range(l0)
    BY <1>1, <2>1, RangeFinite, FS_Subset
  <2>3. LargestIDEntry(sstFiles', ids, k) = LargestIDEntry(sstFiles, ids, k)
    BY <1>2, <2>2, InputsKept, CleanNextFiles
  <2>4. SearchLevel1(sstFiles', l1, k) = SearchLevel1(sstFiles, l1, k)
    BY <1>1, <1>2, LevelsKept, CleanNextFiles
  <2> QED BY <2>1, <2>3, <2>4 DEF Inputs
<1>4. ASSUME cpc' = "merge", NEW k \in Keys
      PROVE  FirstEntry(TablesOf(sstFiles, cinputs), k)' = Inputs(k)'
  <2>1. Range(cinputs) \subseteq DOMAIN sstFiles /\ Range(cinputs) \subseteq DOMAIN sstFiles' /\ cpc = "merge"
    BY <1>4, CleanFiles, CleanNextFiles DEF CompactionFiles
  <2>2. FirstEntry(TablesOf(sstFiles', cinputs), k) = FirstEntry(TablesOf(sstFiles, cinputs), k)
    BY <1>1, <1>2, <2>1, LevelsKept, CleanNextFiles
  <2> QED BY <1>3, <2>1, <2>2 DEF Merging
<1>5. ASSUME cpc' = "build", NEW k \in Keys
      PROVE  Answer(SearchLevel1(sstFiles, couts, k))' = Answer(Inputs(k))'
  <2>1. Range(couts) \subseteq DOMAIN sstFiles /\ Range(couts) \subseteq DOMAIN sstFiles' /\ cpc = "build"
    BY <1>5, CleanFiles, CleanNextFiles DEF CompactionFiles
  <2>2. SearchLevel1(sstFiles', couts, k) = SearchLevel1(sstFiles, couts, k)
    BY <1>1, <1>2, <2>1, LevelsKept, CleanNextFiles
  <2> QED BY <1>3, <2>1, <2>2 DEF Merging
<1>6. ASSUME cpc' \in {"save", "commit"}, NEW k \in Keys
      PROVE  Answer(SearchLevels(sstFiles, pending.l0, pending.l1, k))' = Answer(SearchLevels(sstFiles, l0, l1, k))'
  <2>1. /\ cpc \in {"save", "commit"} /\ UNCHANGED pending
        /\ Range(couts) \subseteq DOMAIN sstFiles /\ Range(couts) \subseteq DOMAIN sstFiles'
    BY <1>6, CleanFiles, CleanNextFiles DEF CompactionFiles
  <2>2. Range(pending.l0) \subseteq Range(l0) /\ pending.l1 = couts
    BY <2>1 DEF Inv, Control, Pending
  <2>3. SearchLevels(sstFiles', pending.l0, pending.l1, k) = SearchLevels(sstFiles, pending.l0, pending.l1, k)
    <3>1. PICK lz, lo : lz = pending.l0 /\ lo = pending.l1
      OBVIOUS
    <3>2. lz \in Seq(Nat) /\ lo \in Seq(Nat)
      BY <3>1 DEF Inv, TypeInv, TypeSegments, Manifests
    <3>3. /\ Range(lz) \cup Range(lo) \subseteq DOMAIN sstFiles
          /\ Range(lz) \cup Range(lo) \subseteq DOMAIN sstFiles' /\ NoCollision'
      BY <1>2, <2>1, <2>2, <3>1, CleanNextFiles
    <3>4. SearchLevels(sstFiles', lz, lo, k) = SearchLevels(sstFiles, lz, lo, k)
      BY <3>2, <3>3, LevelsKept
    <3> QED BY <3>1, <3>4
  <2>4. SearchLevels(sstFiles', l0, l1, k) = SearchLevels(sstFiles, l0, l1, k)
    BY <1>1, <1>2, LevelsKept, CleanNextFiles
  <2> QED BY <2>1, <2>3, <2>4 DEF Merging
<1>7. cpc' \in {"merge", "build"} =>
        \A a \in Range(l0') \ Range(cinputs'), b \in Range(l0') \cap Range(cinputs') : a > b
  BY DEF Merging
<1> QED BY <1>4, <1>5, <1>6, <1>7 DEF Merging

\* The inputs of a compaction, in the order in which a read would meet them.
LEMMA MergingWake ==
  ASSUME Inv, Clean, CompactWake
  PROVE  Merging'
<1>1. l0 \in Seq(Nat) /\ l1 \in Seq(Nat) /\ Descending(l0) /\ Ordered(l1)
  BY CleanFiles DEF Inv, TypeInv, TypeSegments, LevelZero, LevelOne
<1>2. UNCHANGED <<sstFiles, l0, l1, couts>> /\ cpc' \notin {"build", "save", "commit"}
  BY DEF CompactWake, disk, lsm
<1> SUFFICES ASSUME cpc' = "merge"
             PROVE  /\ \A k \in Keys : FirstEntry(TablesOf(sstFiles, cinputs), k)' = Inputs(k)'
                    /\ \A a \in Range(l0') \ Range(cinputs'), b \in Range(l0') \cap Range(cinputs') : a > b
  BY <1>2 DEF Merging
<1>3. cinputs' = l0 \o l1
  BY DEF CompactWake
<1>4. Range(cinputs') = Range(l0) \cup Range(l1)
  BY <1>1, <1>3, ConcatRange
<1>5. Range(l0) \cap Range(cinputs') = Range(l0) /\ Range(l0) \ Range(cinputs') = {}
  BY <1>4
<1>6. /\ \A id \in Range(l0) : sstFiles[id] \in Tables
      /\ \A id \in Range(l1) : sstFiles[id] \in Tables
  BY CleanFiles DEF LevelFiles
<1>7. ASSUME NEW k \in Keys PROVE FirstEntry(TablesOf(sstFiles, cinputs), k)' = Inputs(k)'
  <2> DEFINE s == TablesOf(sstFiles, l0)
             t == TablesOf(sstFiles, l1)
  <2>1. /\ s \in Seq(Tables) /\ Len(s) = Len(l0) /\ \A i \in 1..Len(l0) : s[i] = sstFiles[l0[i]]
        /\ t \in Seq(Tables) /\ Len(t) = Len(l1) /\ \A i \in 1..Len(l1) : t[i] = sstFiles[l1[i]]
    BY <1>1, <1>6, TablesOfType
  <2>2. TablesOf(sstFiles, l0 \o l1) = s \o t
    <3>0. PICK w : w = l0 \o l1
      OBVIOUS
    <3>1. /\ w \in Seq(Nat) /\ Len(w) = Len(l0) + Len(l1) /\ Len(l0) \in Nat /\ Len(l1) \in Nat
          /\ \A i \in 1..Len(l0) + Len(l1) : w[i] = IF i <= Len(l0) THEN l0[i] ELSE l1[i - Len(l0)]
      BY <1>1, <3>0, ConcatProperties
    <3>2. \A id \in Range(w) : sstFiles[id] \in Tables
      BY <1>3, <1>4, <1>6, <3>0
    <3>3. PICK u : u = TablesOf(sstFiles, w)
      OBVIOUS
    <3>4. u \in Seq(Tables) /\ Len(u) = Len(w) /\ \A i \in 1..Len(w) : u[i] = sstFiles[w[i]]
      BY <3>1, <3>2, <3>3, TablesOfType
    <3> HIDE DEF s, t
    <3>5. PICK v : v = s \o t
      OBVIOUS
    <3>6. /\ v \in Seq(Tables) /\ Len(v) = Len(l0) + Len(l1)
          /\ \A i \in 1..Len(l0) + Len(l1) : v[i] = IF i <= Len(l0) THEN s[i] ELSE t[i - Len(l0)]
      <4>1. s \in Seq(Tables) /\ t \in Seq(Tables)
        BY <2>1
      <4>2. /\ s \o t \in Seq(Tables) /\ Len(s \o t) = Len(s) + Len(t)
            /\ \A i \in 1..Len(s) + Len(t) : (s \o t)[i] = IF i <= Len(s) THEN s[i] ELSE t[i - Len(s)]
        BY <4>1, ConcatProperties
      <4> QED BY <2>1, <3>5, <4>2
    <3>7. \A i \in 1..Len(l0) + Len(l1) : u[i] = v[i]
      <4> TAKE i \in 1..Len(l0) + Len(l1)
      <4>1. CASE i <= Len(l0)
        <5>1. i \in 1..Len(l0)
          BY <3>1, <4>1
        <5>2. u[i] = sstFiles[w[i]] /\ w[i] = l0[i]
          BY <3>1, <3>4, <4>1
        <5>3. v[i] = s[i] /\ s[i] = sstFiles[l0[i]]
          BY <2>1, <3>6, <4>1, <5>1
        <5> QED BY <5>2, <5>3
      <4>2. CASE ~(i <= Len(l0))
        <5>1. i - Len(l0) \in 1..Len(l1)
          BY <3>1, <4>2
        <5>2. u[i] = sstFiles[w[i]] /\ w[i] = l1[i - Len(l0)]
          BY <3>1, <3>4, <4>2
        <5>3. v[i] = t[i - Len(l0)] /\ t[i - Len(l0)] = sstFiles[l1[i - Len(l0)]]
          BY <2>1, <3>6, <4>2, <5>1
        <5> QED BY <5>2, <5>3
      <4> QED BY <4>1, <4>2
    <3>8. u = v
      BY <3>1, <3>4, <3>6, <3>7, SeqEqual
    <3> QED BY <3>0, <3>3, <3>5, <3>8
  <2>3. FirstEntry(s \o t, k) = IF FirstEntry(s, k) # None THEN FirstEntry(s, k) ELSE FirstEntry(t, k)
    <3> HIDE DEF s, t
    <3> QED BY <2>1, FirstEntryConcat
  <2>4. FirstEntry(s, k) = LargestIDEntry(sstFiles, Range(l0), k)
    BY <1>1, <1>6, FirstIsLargest DEF Descending
  <2>5. FirstEntry(t, k) = SearchLevel1(sstFiles, l1, k)
    <3>1. \A i \in 1..Len(l1) : l1[i] \in Range(l1)
      BY <1>1 DEF Range
    <3>2. \A i \in 1..Len(l1) : sstFiles[l1[i]] \in Tables
      BY <1>6, <3>1
    <3>3. SearchLevel1(sstFiles, l1, k) = FirstEntry(TablesOf(sstFiles, l1), k)
      BY <1>1, <3>2, SearchLevel1IsExact DEF Ordered
    <3> QED BY <3>3
  <2> HIDE DEF s, t
  <2> QED BY <1>2, <1>3, <1>5, <2>2, <2>3, <2>4, <2>5 DEF Inputs
<1> QED BY <1>2, <1>5, <1>7

\* A merge, whose inputs were in the order of their IDs, answers as they do.
LEMMA MergingMerge ==
  ASSUME Inv, Inv', [Next]_vars, Clean, Clean', Merging, CompactMerge
  PROVE  Merging'
<1>1. UNCHANGED <<l0, l1, cinputs>> /\ cpc = "merge" /\ cpc' \in {"build", "exit"}
  BY DEF CompactMerge, lsm
<1> SUFFICES ASSUME cpc' = "build"
             PROVE  /\ \A k \in Keys : Answer(SearchLevel1(sstFiles, couts, k))' = Answer(Inputs(k))'
                    /\ \A a \in Range(l0') \ Range(cinputs'), b \in Range(l0') \cap Range(cinputs') : a > b
  BY <1>1 DEF Merging
<1> DEFINE ids == Range(cinputs)
           n == OutputCount(LiveKeys(sstFiles, ids))
           outs == cseg .. (cseg + n - 1)
<1>2. /\ sstFiles' = [id \in DOMAIN sstFiles \cup outs |->
              IF id \in outs THEN MergeOutput(sstFiles, ids, id - cseg + 1) ELSE sstFiles[id]]
      /\ couts' = [i \in 1..n |-> cseg + i - 1]
      /\ Expose(Collision(outs) \cup IF LargestIDIsNewest(sstFiles, cinputs) THEN {} ELSE {"merge_order"})
  BY DEF CompactMerge
<1>3. LargestIDIsNewest(sstFiles, cinputs)
  BY <1>2 DEF Expose, Clean
<1>4. cseg \in Nat /\ n \in Nat /\ l0 \in Seq(Nat) /\ l1 \in Seq(Nat) /\ cinputs \in Seq(Nat) /\ couts' \in Seq(Nat)
  BY OutputIDs DEF Inv, TypeInv, TypeSegments
<1>5. ids \in SUBSET Nat /\ IsFiniteSet(ids) /\ \A id \in ids : sstFiles[id] \in Tables
  BY <1>1, <1>4, RangeFinite, CleanFiles DEF LevelFiles, CompactionFiles
<1>6. Len(couts') = n /\ \A i \in 1..n : couts'[i] \in outs /\ couts'[i] - cseg + 1 = i
  <2> HIDE DEF n, ids
  <2> QED BY <1>2, <1>4
<1>7. \A i \in 1..Len(couts') : sstFiles'[couts'[i]] = MergeOutput(sstFiles, ids, i)
  <2> TAKE i \in 1..Len(couts')
  <2> HIDE DEF n, outs, ids
  <2>1. couts'[i] \in outs /\ couts'[i] - cseg + 1 = i
    BY <1>6
  <2> QED BY <1>2, <2>1
<1>8. Range(l0) \cap ids \in SUBSET Nat /\ IsFiniteSet(Range(l0) \cap ids)
  BY <1>5, FS_Subset
<1>9. /\ Range(l0) \subseteq DOMAIN sstFiles /\ Range(l0) \subseteq DOMAIN sstFiles'
      /\ Range(l1) \subseteq DOMAIN sstFiles /\ Range(l1) \subseteq DOMAIN sstFiles'
  BY <1>1, CleanFiles, CleanNextFiles DEF LevelFiles
<1>10. ASSUME NEW k \in Keys PROVE Answer(SearchLevel1(sstFiles, couts, k))' = Answer(Inputs(k))'
  <2>1. Answer(SearchLevel1(sstFiles', couts', k)) = Answer(LargestIDEntry(sstFiles, ids, k))
    <3>1. Len(couts') = OutputCount(LiveKeys(sstFiles, ids))
      BY <1>6
    <3> HIDE DEF ids, n
    <3>2. PICK g, o : g = sstFiles' /\ o = couts'
      OBVIOUS
    <3>3. o \in Seq(Nat) /\ Len(o) = OutputCount(LiveKeys(sstFiles, ids))
      BY <1>4, <3>1, <3>2
    <3>4. \A i \in 1..Len(o) : g[o[i]] = MergeOutput(sstFiles, ids, i)
      BY <1>7, <3>2
    <3>5. Answer(SearchLevel1(g, o, k)) = Answer(LargestIDEntry(sstFiles, ids, k))
      BY <1>5, <3>3, <3>4, OutputsAnswer
    <3> QED BY <3>2, <3>5
  <2>2. LargestIDEntry(sstFiles, ids, k) = Inputs(k)
    BY <1>1, <1>3 DEF LargestIDIsNewest, Merging
  <2>3. PICK part : part = Range(l0) \cap ids
    OBVIOUS
  <2>4. part \in SUBSET Nat /\ IsFiniteSet(part) /\ part \subseteq DOMAIN sstFiles /\ part \subseteq DOMAIN sstFiles'
    BY <1>8, <1>9, <2>3
  <2>5. LargestIDEntry(sstFiles', part, k) = LargestIDEntry(sstFiles, part, k)
    BY <2>4, InputsKept, CleanNextFiles
  <2>6. SearchLevel1(sstFiles', l1, k) = SearchLevel1(sstFiles, l1, k)
    BY <1>4, <1>9, LevelsKept, CleanNextFiles
  <2>7. Inputs(k)' = Inputs(k)
    BY <1>1, <2>3, <2>5, <2>6 DEF Inputs
  <2> QED BY <2>1, <2>2, <2>7
<1>11. \A a \in Range(l0') \ Range(cinputs'), b \in Range(l0') \cap Range(cinputs') : a > b
  BY <1>1 DEF Merging
<1> QED BY <1>10, <1>11

\* Level 0 after a compaction keeps all but the inputs.
LEMMA RemainingRange ==
  ASSUME l0 \in Seq(Nat)
  PROVE  Range(RemainingLevelZero) = Range(l0) \ Range(cinputs)
<1> DEFINE kept == {i \in DOMAIN l0 : l0[i] \notin Range(cinputs)}
<1>1. DOMAIN l0 = 1..Len(l0) /\ kept \in SUBSET Nat /\ kept \in SUBSET (1..Len(l0)) /\ IsFiniteSet(1..Len(l0))
  BY FS_Interval
<1>2. IsFiniteSet(kept)
  BY <1>1, FS_Subset
<1>3. RemainingLevelZero = PartAt(l0, kept)
  BY DEF RemainingLevelZero
<1>4. ASSUME NEW x \in Range(l0), x \notin Range(cinputs) PROVE x \in Range(RemainingLevelZero)
  <2>1. PICK i \in kept : x = l0[i]
    BY <1>4 DEF Range
  <2> HIDE DEF kept
  <2>2. PICK n : n = Cardinality({j \in kept : j <= i})
    OBVIOUS
  <2>3. n \in 1..Cardinality(kept) /\ PositionAt(kept, n) = i
    BY <1>1, <1>2, <2>2, PositionIs
  <2>4. PartAt(l0, kept) = [m \in 1..Cardinality(kept) |-> l0[PositionAt(kept, m)]]
    BY <1>1, <1>2, PartAtIsPart
  <2>5. n \in DOMAIN RemainingLevelZero /\ RemainingLevelZero[n] = x
    BY <1>3, <2>1, <2>3, <2>4
  <2> QED BY <2>5 DEF Range
<1>5. Range(RemainingLevelZero) \subseteq Range(l0) /\ Range(RemainingLevelZero) \cap Range(cinputs) = {}
  BY RemainingKeepsOrder
<1> QED BY <1>4, <1>5

\* The levels that a compaction is about to install answer as the live ones.
LEMMA MergingBuild ==
  ASSUME Inv, Clean, Merging, CompactBuild
  PROVE  Merging'
<1>1. UNCHANGED <<sstFiles, l0, l1>> /\ cpc = "build" /\ cpc' = "save"
      /\ pending' = [next |-> nextSeg', l0 |-> RemainingLevelZero, l1 |-> couts, flushed |-> flushedSeg]
  BY DEF CompactBuild, disk, lsm
<1>2. pending'.l0 = RemainingLevelZero /\ pending'.l1 = couts
  BY <1>1
<1>3. l0 \in Seq(Nat) /\ l1 \in Seq(Nat) /\ Descending(l0) /\ cinputs \in Seq(Nat) /\ couts \in Seq(Nat)
  BY DEF Inv, TypeInv, TypeSegments, LevelZero
<1>4. PICK rest : rest = RemainingLevelZero
  OBVIOUS
<1>5. rest \in Seq(Nat) /\ Range(rest) = Range(l0) \ Range(cinputs) /\ Descending(rest)
  BY <1>3, <1>4, RemainingRange, RemainingKeepsOrder
<1>6. \A id \in Range(l0) : sstFiles[id] \in Tables
  BY CleanFiles DEF LevelFiles
<1>7. \A id \in Range(rest) : sstFiles[id] \in Tables
  BY <1>5, <1>6
<1>8. ASSUME NEW k \in Keys
      PROVE  Answer(SearchLevels(sstFiles, rest, couts, k)) = Answer(SearchLevels(sstFiles, l0, l1, k))
  <2>1. PICK A, B : A = Range(l0) \ Range(cinputs) /\ B = Range(l0) \cap Range(cinputs)
    OBVIOUS
  <2>2. /\ A \in SUBSET Nat /\ B \in SUBSET Nat /\ IsFiniteSet(A) /\ IsFiniteSet(B)
        /\ Range(l0) = A \cup B
    BY <1>3, <2>1, RangeFinite, FS_Subset
  <2>3. \A a \in A, b \in B : a > b
    BY <1>1, <2>1 DEF Merging
  <2>4. LargestIDEntry(sstFiles, Range(l0), k) =
          IF LargestIDEntry(sstFiles, A, k) # None THEN LargestIDEntry(sstFiles, A, k)
          ELSE LargestIDEntry(sstFiles, B, k)
    BY <2>2, <2>3, LargestSplit
  <2>5. FirstEntry(TablesOf(sstFiles, l0), k) = LargestIDEntry(sstFiles, Range(l0), k)
    BY <1>3, <1>6, FirstIsLargest DEF Descending
  <2>6. FirstEntry(TablesOf(sstFiles, rest), k) = LargestIDEntry(sstFiles, Range(rest), k)
    BY <1>5, <1>7, FirstIsLargest DEF Descending
  <2>7. Answer(SearchLevel1(sstFiles, couts, k)) = Answer(Inputs(k))
    BY <1>1 DEF Merging
  <2>8. Inputs(k) = IF LargestIDEntry(sstFiles, B, k) # None THEN LargestIDEntry(sstFiles, B, k)
                    ELSE SearchLevel1(sstFiles, l1, k)
    BY <2>1 DEF Inputs
  <2> QED BY <1>5, <2>1, <2>4, <2>5, <2>6, <2>7, <2>8 DEF SearchLevels
<1>9. \A k \in Keys : Answer(SearchLevels(sstFiles', pending'.l0, pending'.l1, k)) =
                        Answer(SearchLevels(sstFiles', l0', l1', k))
  BY <1>1, <1>2, <1>4, <1>8
<1> QED BY <1>1, <1>9 DEF Merging

\* A file that is flushed during a compaction is newer than its inputs.
LEMMA MergingFlush ==
  ASSUME Inv, Running, Clean, Merging, FlushRegister
  PROVE  Merging'
<1>1. UNCHANGED <<sstFiles, l1, cpc, cinputs, couts>> /\ manifestMu = "free" /\ fpc = "register"
  BY DEF FlushRegister, disk, compact
<1>2. cpc \notin {"save", "commit"}
  BY <1>1 DEF Inv, Control
<1>3. PICK h : h = Head(imm).seg
  OBVIOUS
<1>4. h \in Nat /\ h = imm[1].seg /\ 1 \in 1..Len(imm)
  BY <1>3, HeadOlder
<1>5. l0 \in Seq(Nat) /\ l0' = <<h>> \o l0
  BY <1>3 DEF FlushRegister, WithFlushed, Inv, TypeInv, TypeSegments
<1>6. Range(l0') = {h} \cup Range(l0)
  BY <1>4, <1>5, Prepended
<1>7. \A x \in Range(l0) : x < h
  <2>1. \A i \in 1..Len(l0) : l0[i] < h
    BY <1>4 DEF Inv, LevelZero, OlderThanMemory
  <2> QED BY <1>5, <2>1 DEF Range
<1>8. cpc \in {"merge", "build"} => h \notin Range(cinputs)
  BY <1>1, <1>3, CleanFiles DEF FlushFile
<1>9. cpc \in {"merge", "build"} =>
        /\ Range(l0') \cap Range(cinputs) = Range(l0) \cap Range(cinputs)
        /\ \A a \in Range(l0') \ Range(cinputs), b \in Range(l0) \cap Range(cinputs) : a > b
  <2> SUFFICES ASSUME cpc \in {"merge", "build"}
               PROVE  /\ Range(l0') \cap Range(cinputs) = Range(l0) \cap Range(cinputs)
                      /\ \A a \in Range(l0') \ Range(cinputs), b \in Range(l0) \cap Range(cinputs) : a > b
    OBVIOUS
  <2>1. \A x \in Range(l0) : x \in Nat
    BY <1>5, RangeFinite
  <2>2. \A b \in Range(l0) : h > b
    BY <1>4, <1>7, <2>1
  <2>3. \A a \in Range(l0) \ Range(cinputs), b \in Range(l0) \cap Range(cinputs) : a > b
    BY DEF Merging
  <2>4. Range(l0') \cap Range(cinputs) = Range(l0) \cap Range(cinputs)
    BY <1>6, <1>8
  <2>5. \A a \in Range(l0') \ Range(cinputs) : a = h \/ a \in Range(l0) \ Range(cinputs)
    BY <1>6
  <2> QED BY <2>2, <2>3, <2>4, <2>5
<1>10. cpc \in {"merge", "build"} => \A k \in Keys : Inputs(k)' = Inputs(k)
  BY <1>1, <1>9 DEF Inputs
<1>11. cpc = "merge" => \A k \in Keys : FirstEntry(TablesOf(sstFiles', cinputs'), k) = Inputs(k)'
  BY <1>1, <1>10 DEF Merging
<1>12. cpc = "build" => \A k \in Keys : Answer(SearchLevel1(sstFiles', couts', k)) = Answer(Inputs(k))'
  BY <1>1, <1>10 DEF Merging
<1> QED BY <1>1, <1>2, <1>9, <1>11, <1>12 DEF Merging

\* A compaction changes no answer while the engine runs.
LEMMA MergingRunning ==
  ASSUME Inv, Inv', [Next]_vars, Running, Running', Clean, Clean', Merging
  PROVE  Merging'
<1>1. CASE Compaction
  <2>1. CASE CompactSave
    <3>1. UNCHANGED <<l0, l1, cinputs, couts>> /\ cpc = "save" /\ cpc' \in {"commit", "exit"}
      BY <2>1 DEF CompactSave, lsm
    <3>2. CASE cpc' = "commit"
      <4>1. UNCHANGED pending
        BY <2>1, <3>2 DEF CompactSave, mutex
      <4> QED BY <3>1, <3>2, <4>1, MergingKept
    <3>3. CASE cpc' = "exit"
      BY <3>3 DEF Merging
    <3> QED BY <3>1, <3>2, <3>3
  <2>2. CASE CompactCommit
    BY <2>2 DEF CompactCommit, Merging
  <2> QED BY <1>1, <2>1, <2>2, MergingWake, MergingMerge, MergingBuild DEF Compaction
<1>2. CASE FlushRegister
  BY <1>2, MergingFlush
<1>3. CASE ~Compaction /\ ~FlushRegister
  <2>1. UNCHANGED <<l0, l1, cinputs, couts, cpc>>
    BY <1>3, TableSteps DEF RotateSave, FlushWrite, FlushSave, lsm, compact
  <2>2. cpc \in {"save", "commit"} => UNCHANGED pending
    <3>1. cpc \in {"save", "commit"} => manifestMu = "compaction" /\ manifestMu' = "compaction"
      BY <2>1 DEF Inv, Control
    <3> QED BY <1>3, <3>1, NumberSteps DEF RotateBuild, Compaction
  <2> QED BY <2>1, <2>2, MergingKept
<1> QED BY <1>1, <1>2, <1>3

------------------------------------------------------------------------------
(* What a recovery would answer *)

\* The step keeps the log above the durable watermark.
LEMMA FoundKept ==
  ASSUME IsFiles(walFiles), IsFiles(walFiles)', hw \in Nat, UNCHANGED hw, NEW k,
         \A s \in Nat : s > hw => SameRecord(s, k), NEW c \in Nat, NEW e
  PROVE  Found(c, e, k)' = Found(c, e, k)
<1>1. PICK lo : lo = IF hw > c THEN hw ELSE c
  OBVIOUS
<1>2. lo \in Nat /\ lo >= hw
  BY <1>1
<1>3. \A s \in Nat : s > lo => SameRecord(s, k)
  BY <1>2
<1>4. Above(lo, k)' = Above(lo, k)
  BY <1>2, <1>3, AboveKept
<1>5. Found(c, e, k) = Answer(IF Above(lo, k) # None THEN Above(lo, k) ELSE e)
  BY <1>1 DEF Found
<1>6. Found(c, e, k)' = Answer(IF Above(lo, k)' # None THEN Above(lo, k)' ELSE e)
  BY <1>1 DEF Found, Above
<1> QED BY <1>4, <1>5, <1>6

\* The newest segment decides, before and after a step.
LEMMA FoundNewest ==
  ASSUME IsFiles(walFiles), NEW top \in DOMAIN walFiles, \A s \in DOMAIN walFiles : s <= top, hw \in Nat,
         top > hw, NEW c \in Nat, top > c, NEW k \in Keys, walFiles[top][k] # None, NEW e
  PROVE  Found(c, e, k) = Answer(walFiles[top][k])
<1>1. PICK lo : lo = IF hw > c THEN hw ELSE c
  OBVIOUS
<1>2. lo \in Nat /\ top > lo
  BY <1>1
<1>3. Above(lo, k) = walFiles[top][k]
  BY <1>2, AboveNewest
<1> QED BY <1>1, <1>3 DEF Found

\* And in the next state.
LEMMA FoundNewestNext ==
  ASSUME IsFiles(walFiles'), NEW top \in DOMAIN walFiles', \A s \in DOMAIN walFiles' : s <= top, hw' \in Nat,
         top > hw', NEW c \in Nat, top > c, NEW k \in Keys, walFiles'[top][k] # None, NEW e
  PROVE  Found(c, e, k)' = Answer(walFiles'[top][k])
<1>1. PICK lo : lo = IF hw' > c THEN hw' ELSE c
  OBVIOUS
<1>2. lo \in Nat /\ top > lo
  BY <1>1
<1> DEFINE A == {s \in DOMAIN walFiles' : s > lo}
<1>3. A \subseteq DOMAIN walFiles' /\ top \in A
  BY <1>2
<1>4. \A s \in A : s \in Nat /\ s <= top
  BY DEF IsFiles
<1>5. A \in SUBSET Nat /\ IsFiniteSet(A)
  BY FS_Subset DEF IsFiles
<1> HIDE DEF A
<1>6. \A s \in A : ~(s > top)
  BY <1>3, <1>4
<1>7. LargestIDEntry(walFiles', A, k) = walFiles'[top][k]
  BY <1>3, <1>5, <1>6, LargestAt
<1>8. LargestIDEntry(walFiles', A, k) = Above(lo, k)'
  BY DEF A, Above
<1>9. Found(c, e, k)' = Answer(IF Above(lo, k)' # None THEN Above(lo, k)' ELSE e)
  BY <1>1 DEF Found, Above
<1> QED BY <1>7, <1>8, <1>9

\* A flush moves what the log says up to h to the levels.
LEMMA FoundFlushed ==
  ASSUME IsFiles(walFiles), hw \in Nat, NEW lo \in Nat, NEW h \in Nat, lo < h, hw < h,
         \A s \in DOMAIN walFiles : s > lo => s > hw, NEW k \in Keys, NEW d, NEW e,
         e = IF Between(lo, h, k) # None THEN Between(lo, h, k) ELSE d
  PROVE  /\ Found(h, e, k) = Found(lo, d, k)
         /\ Found(0, d, k) = Found(lo, d, k) => Found(0, e, k) = Found(h, e, k)
<1>1. PICK c : c = IF hw > lo THEN hw ELSE lo
  OBVIOUS
<1>2. c \in Nat /\ hw <= c
  BY <1>1
<1>3. \A s \in DOMAIN walFiles : s > c <=> s > lo
  BY <1>1 DEF IsFiles
<1>4. Above(c, k) = Above(lo, k)
  BY <1>3, AboveSame
<1>5. Above(lo, k) = IF Above(h, k) # None THEN Above(h, k) ELSE Between(lo, h, k)
  BY AboveSplit
<1>6. Above(hw, k) = IF Above(c, k) # None THEN Above(c, k) ELSE Between(hw, c, k)
  BY <1>2, AboveSplit
<1>7. /\ Found(lo, d, k) = Answer(IF Above(c, k) # None THEN Above(c, k) ELSE d)
      /\ Found(h, e, k) = Answer(IF Above(h, k) # None THEN Above(h, k) ELSE e)
  BY <1>1 DEF Found
<1>8. \A x : Found(0, x, k) = Answer(IF Above(hw, k) # None THEN Above(hw, k) ELSE x)
  <2>1. (IF hw > 0 THEN hw ELSE 0) = hw
    OBVIOUS
  <2> QED BY <2>1 DEF Found
<1> QED BY <1>4, <1>5, <1>6, <1>7, <1>8

\* A writer's segment is newer than all that is durable.
LEMMA WriterSegment ==
  ASSUME Inv, Running, Numbers, wpc \in {"check", "apply"}
  PROVE  activeSeg \in DOMAIN walFiles /\ activeSeg > hw /\ activeSeg > flushedSeg /\ ~Drained
         /\ \A s \in DOMAIN walFiles : s <= activeSeg
<1>1. activeSeg \in DOMAIN walFiles
  BY DEF Inv, ActiveWAL
<1>2. ~Drained
  BY DEF Drained
<1> QED BY <1>1, <1>2 DEF Numbers, LiveNumbers, Live, Running, Inv, Control

\* What a batch in flight leaves in the log.
LEMMA AppendedRecord ==
  ASSUME Inv, WALAppend \/ WALAppendFails, Clean', NEW k \in Keys, batch[k] # None, ~SameRecord(activeSeg, k)
  PROVE  activeSeg \in DOMAIN walFiles' /\ walFiles'[activeSeg][k] = batch[k]
<1>1. PICK t : /\ activeSeg \in DOMAIN walFiles /\ walFiles' = Set(walFiles, activeSeg, t)
               /\ t[k] = walFiles[activeSeg][k] \/ t[k] = batch[k]
  BY Appended
<1>2. t[k] # walFiles[activeSeg][k]
  BY <1>1, RecordSet
<1> QED BY <1>1, <1>2 DEF Set

\* Levels and a watermark from which recovery gives acknowledged answers keep
\* doing so, whatever the running engine does to the log.
LEMMA SoundKept ==
  ASSUME Inv, Inv', [Next]_vars, Running, Running', Clean', Numbers, Numbers', LoggedActive, UNCHANGED hw,
         NEW lz \in Seq(Nat), NEW lo \in Seq(Nat), NEW f \in Nat, f <= flushedSeg,
         Range(lz) \cup Range(lo) \subseteq DOMAIN sstFiles, Range(lz) \cup Range(lo) \subseteq DOMAIN sstFiles',
         Sound(lz, lo, f)
  PROVE  Sound(lz, lo, f)'
<1> SUFFICES ASSUME NEW k \in Keys
             PROVE  /\ Recovered(lz, lo, f, k)' \in allowed'[k]
                    /\ Recovered(lz, lo, 0, k)' = Recovered(lz, lo, f, k)'
  BY DEF Sound
<1>1. PICK e : e = SearchLevels(sstFiles, lz, lo, k)
  OBVIOUS
<1>2. e = SearchLevels(sstFiles', lz, lo, k)
  BY <1>1, LevelsKept, CleanNextFiles
<1>3. /\ Recovered(lz, lo, f, k) = Found(f, e, k) /\ Recovered(lz, lo, 0, k) = Found(0, e, k)
      /\ Recovered(lz, lo, f, k)' = Found(f, e, k)' /\ Recovered(lz, lo, 0, k)' = Found(0, e, k)'
  BY <1>1, <1>2 DEF Recovered, Found, Above
<1>4. Found(f, e, k) \in allowed[k] /\ Found(0, e, k) = Found(f, e, k)
  BY <1>3 DEF Sound
<1>5. IsFiles(walFiles) /\ IsFiles(walFiles)' /\ allowed \in [Keys -> SUBSET (Vals \cup {None})]
  BY DEF Inv, TypeInv, TypeData
<1>6. CASE (WALAppend \/ WALAppendFails) /\ batch[k] # None /\ ~SameRecord(activeSeg, k)
  <2>1. UNCHANGED activeSeg /\ wpc = "check"
        /\ allowed' = [j \in Keys |-> allowed[j] \cup {Answer(x) : x \in {batch[j]} \ {None}}]
    BY <1>6 DEF WALAppend, WALAppendFails
  <2>2. Answer(batch[k]) \in allowed'[k]
    BY <1>6, <2>1
  <2>3. activeSeg \in Nat /\ activeSeg > hw /\ activeSeg > flushedSeg
    BY <2>1, WriterSegment, NumberTypes
  <2>4. \A s \in DOMAIN walFiles' : s <= activeSeg
    BY <2>1 DEF Numbers, LiveNumbers, Live, Running
  <2>5. PICK top : top = activeSeg
    OBVIOUS
  <2>6. top \in DOMAIN walFiles' /\ walFiles'[top][k] = batch[k]
    BY <1>6, <2>5, AppendedRecord
  <2>7. top > hw' /\ hw' \in Nat /\ top > f /\ top > 0
    BY <2>3, <2>5, NumberTypes
  <2>8. /\ IsFiles(walFiles') /\ walFiles'[top][k] # None /\ 0 \in Nat
        /\ \A s \in DOMAIN walFiles' : s <= top
    BY <1>5, <1>6, <2>4, <2>5, <2>6
  <2>9. Found(f, e, k)' = Answer(walFiles'[top][k])
    BY <2>6, <2>7, <2>8, FoundNewestNext
  <2>10. Found(0, e, k)' = Answer(walFiles'[top][k])
    BY <2>6, <2>7, <2>8, FoundNewestNext
  <2> QED BY <1>3, <2>2, <2>6, <2>9, <2>10
<1>7. CASE ~((WALAppend \/ WALAppendFails) /\ batch[k] # None /\ ~SameRecord(activeSeg, k))
  <2>1. ASSUME NEW s \in Nat, s > hw PROVE SameRecord(s, k)
    <3>1. FlushCleanup => s # flushedSeg
      BY <2>1, NumberTypes DEF FlushCleanup, Numbers, RemovableNumbers
    <3>2. CASE WALAppend \/ WALAppendFails => s # activeSeg \/ batch[k] = None
      BY <3>1, <3>2, RecordKept
    <3>3. CASE ~(WALAppend \/ WALAppendFails => s # activeSeg \/ batch[k] = None)
      BY <1>7, <3>3
    <3> QED BY <3>2, <3>3
  <2>2. Found(f, e, k)' = Found(f, e, k) /\ Found(0, e, k)' = Found(0, e, k)
    BY <1>5, <2>1, FoundKept, NumberTypes
  <2>3. CASE allowed[k] \subseteq allowed'[k]
    BY <1>3, <1>4, <2>2, <2>3
  <2>4. CASE ~(allowed[k] \subseteq allowed'[k])
    <3>1. WriteApply
      BY <1>5, <2>4, DataSteps DEF WALAppend, WALAppendFails
    <3>2. batch[k] # None /\ allowed'[k] = {Answer(batch[k])} /\ wpc = "apply"
      BY <2>4, <3>1 DEF WriteApply
    <3>3. walFiles[activeSeg][k] = batch[k]
      BY <3>2 DEF LoggedActive
    <3>4. /\ activeSeg \in DOMAIN walFiles /\ activeSeg > hw /\ activeSeg > f
          /\ \A s \in DOMAIN walFiles : s <= activeSeg
      BY <3>2, WriterSegment, NumberTypes
    <3>5. walFiles[activeSeg][k] # None /\ hw \in Nat
      BY <3>2, <3>3, NumberTypes
    <3>6. Found(f, e, k) = Answer(walFiles[activeSeg][k])
      BY <1>5, <3>4, <3>5, FoundNewest
    <3> QED BY <1>3, <1>4, <2>2, <3>2, <3>3, <3>6
  <2> QED BY <2>3, <2>4
<1> QED BY <1>6, <1>7

\* A manifest that is about to be written names files on disk.
LEMMA PendingFiles ==
  ASSUME Inv, Clean, manifestMu # "free"
  PROVE  /\ pending.l0 \in Seq(Nat) /\ pending.l1 \in Seq(Nat)
         /\ Range(pending.l0) \cup Range(pending.l1) \subseteq DOMAIN sstFiles
<1>1. pending.l0 \in Seq(Nat) /\ pending.l1 \in Seq(Nat)
  BY DEF Inv, TypeInv, TypeSegments, Manifests
<1>2. Range(pending.l0) \subseteq Range(l0)
  BY DEF Inv, Pending
<1>3. CASE manifestMu = "compaction"
  <2>1. pending.l1 = couts /\ cpc \in {"save", "commit"}
    BY <1>3 DEF Inv, Pending, Control
  <2> QED BY <1>1, <1>2, <2>1, CleanFiles DEF LevelFiles, CompactionFiles
<1>4. CASE manifestMu # "compaction"
  <2>1. pending.l1 = l1
    BY <1>4 DEF Inv, Pending, TypeInv, TypeControl
  <2> QED BY <1>1, <1>2, <2>1, CleanFiles DEF LevelFiles
<1> QED BY <1>3, <1>4

\* And in the next state.
LEMMA PendingFilesNext ==
  ASSUME Inv', Clean', manifestMu' # "free"
  PROVE  Range(pending'.l0) \cup Range(pending'.l1) \subseteq DOMAIN sstFiles'
<1>1. Range(pending'.l0) \subseteq Range(l0')
  BY DEF Inv, Pending
<1>2. CASE manifestMu' = "compaction"
  <2>1. pending'.l1 = couts' /\ cpc' \in {"save", "commit"}
    BY <1>2 DEF Inv, Pending, Control
  <2> QED BY <1>1, <2>1, CleanNextFiles DEF LevelFiles, CompactionFiles
<1>3. CASE manifestMu' # "compaction"
  <2>1. pending'.l1 = l1'
    BY <1>3 DEF Inv, Pending, TypeInv, TypeControl
  <2> QED BY <1>1, <2>1, CleanNextFiles DEF LevelFiles
<1> QED BY <1>2, <1>3

\* A flush that is not durable yet: what a recovery would answer without the
\* segments that it covers.
LEMMA SoundRegistered ==
  ASSUME Inv, Running, Clean, Numbers, LoggedQueue, FlushedTable, FlushRegister, Sound(l0, l1, flushedSeg)
  PROVE  Sound(l0, l1, flushedSeg)'
<1>1. PICK h : h = Head(imm).seg
  OBVIOUS
<1>2. /\ UNCHANGED <<walFiles, sstFiles, hw, allowed, l1>> /\ l0' = <<h>> \o l0 /\ flushedSeg' = h /\ fpc = "register"
  BY <1>1 DEF FlushRegister, WithFlushed, disk, history
<1>3. h \in Nat /\ h > flushedSeg /\ h > hw /\ imm # <<>> /\ h = imm[1].seg /\ Head(imm) = imm[1] /\ 1 \in 1..Len(imm)
  BY <1>1, FlushedHead, HeadOlder, QueueHead DEF Inv, TypeInv, TypeData
<1>4. l0 \in Seq(Nat) /\ l1 \in Seq(Nat) /\ IsFiles(walFiles)
  BY DEF Inv, TypeInv, TypeSegments, TypeData
<1>5. /\ \A x \in Range(l0) : sstFiles[x] \in Tables
      /\ h \in DOMAIN sstFiles /\ sstFiles[h] \in Tables
  BY <1>1, <1>2, CleanFiles DEF LevelFiles, FlushFile
<1>6. PICK f : f = flushedSeg
  OBVIOUS
<1>7. \A k \in Keys : sstFiles[h][k] = Between(f, h, k)
  <2> TAKE k \in Keys
  <2>1. Floor(1) = f
    BY <1>6 DEF Floor
  <2>2. imm[1].data[k] = Between(f, h, k)
    BY <1>3, <2>1 DEF LoggedQueue
  <2> QED BY <1>1, <1>2, <1>3, <2>2 DEF FlushedTable
<1>8. ASSUME NEW k \in Keys
      PROVE  /\ Recovered(l0, l1, flushedSeg, k)' = Recovered(l0, l1, flushedSeg, k)
             /\ Recovered(l0, l1, 0, k)' = Recovered(l0, l1, flushedSeg, k)'
  <2>1. PICK d, e : d = SearchLevels(sstFiles, l0, l1, k) /\ e = SearchLevels(sstFiles, <<h>> \o l0, l1, k)
    OBVIOUS
  <2>2. PICK all : all = <<h>> \o l0
    OBVIOUS
  <2>3. FirstEntry(TablesOf(sstFiles, all), k) =
          IF sstFiles[h][k] # None THEN sstFiles[h][k] ELSE FirstEntry(TablesOf(sstFiles, l0), k)
    <3>1. h \in Nat /\ l0 \in Seq(Nat)
      BY <1>3, <1>4
    <3> QED BY <1>5, <2>2, <3>1, FirstPrepended
  <2>4. e = IF Between(f, h, k) # None THEN Between(f, h, k) ELSE d
    BY <1>7, <2>1, <2>2, <2>3 DEF SearchLevels
  <2>5. \A s \in DOMAIN walFiles : s > f => s > hw
    BY <1>6 DEF Numbers, LiveNumbers, Live, Running
  <2>6. f \in Nat /\ hw \in Nat /\ f < h /\ hw < h
    BY <1>3, <1>6, NumberTypes
  <2>7. /\ Found(h, e, k) = Found(f, d, k)
        /\ Found(0, d, k) = Found(f, d, k) => Found(0, e, k) = Found(h, e, k)
    BY <1>3, <1>4, <2>4, <2>5, <2>6, FoundFlushed
  <2>8. Found(0, d, k) = Found(f, d, k)
    BY <1>6, <2>1 DEF Sound, Recovered
  <2>9. Recovered(l0, l1, flushedSeg, k) = Found(f, d, k)
    BY <1>6, <2>1 DEF Recovered
  <2>10. Recovered(l0, l1, flushedSeg, k)' = Found(h, e, k) /\ Recovered(l0, l1, 0, k)' = Found(0, e, k)
    BY <1>2, <2>1 DEF Recovered, Found, Above
  <2> QED BY <2>7, <2>8, <2>9, <2>10
<1> QED BY <1>2, <1>8 DEF Sound

\* A manifest with the live levels and watermark is written: it now counts.
LEMMA SoundFlushed ==
  ASSUME Inv, UNCHANGED <<walFiles, sstFiles, l0, l1, flushedSeg, allowed>>, hw' = Max({hw, flushedSeg}),
         Sound(l0, l1, flushedSeg)
  PROVE  Sound(l0, l1, flushedSeg)'
<1>1. PICK lz, lo, f : lz = l0 /\ lo = l1 /\ f = flushedSeg
  OBVIOUS
<1>2. hw' \in {hw, f} /\ hw' >= hw /\ hw' >= f /\ hw' \in Nat /\ f \in Nat /\ hw \in Nat
  BY <1>1, NumberTypes, MaxOfTwo
<1>3. PICK c : c = IF hw > f THEN hw ELSE f
  OBVIOUS
<1>4. /\ (IF hw' > f THEN hw' ELSE f) = c
      /\ (IF hw' > 0 THEN hw' ELSE 0) = c
  BY <1>2, <1>3
<1>5. ASSUME NEW k \in Keys
      PROVE  /\ Recovered(lz, lo, f, k)' = Recovered(lz, lo, f, k)
             /\ Recovered(lz, lo, 0, k)' = Recovered(lz, lo, f, k)
  <2>1. PICK e : e = SearchLevels(sstFiles, lz, lo, k)
    OBVIOUS
  <2>2. Recovered(lz, lo, f, k) = Answer(IF Above(c, k) # None THEN Above(c, k) ELSE e)
    BY <1>3, <2>1 DEF Recovered, Found
  <2>3. /\ Recovered(lz, lo, f, k)' = Answer(IF Above(c, k) # None THEN Above(c, k) ELSE e)
        /\ Recovered(lz, lo, 0, k)' = Answer(IF Above(c, k) # None THEN Above(c, k) ELSE e)
    BY <1>4, <2>1 DEF Recovered, Found, Above
  <2> QED BY <2>2, <2>3
<1>6. Sound(lz, lo, f)'
  BY <1>1, <1>5 DEF Sound
<1> QED BY <1>1, <1>6 DEF Sound, Recovered, Found, Above

\* The manifest of a flush is written: its watermark now counts.
LEMMA DurableFlushed ==
  ASSUME Inv, Running, Durable, FlushSave, manifest' = pending, hw' = Max({hw, flushedSeg})
  PROVE  Durable'
<1>1. UNCHANGED <<walFiles, sstFiles, l0, l1, flushedSeg, allowed>> /\ manifestMu' = "free" /\ manifestMu = "flush"
  BY DEF FlushSave, lsm, Inv, Control
<1>2. manifest'.l0 = l0' /\ manifest'.l1 = l1' /\ manifest'.flushed = flushedSeg'
  BY <1>1 DEF Inv, Pending
<1>3. Sound(l0, l1, flushedSeg)
  BY DEF Durable, Live, Running
<1>4. Sound(l0, l1, flushedSeg)'
  BY <1>1, <1>3, SoundFlushed
<1>5. Sound(manifest.l0, manifest.l1, manifest.flushed)'
  BY <1>2, <1>4 DEF Sound, Recovered, Found, Above
<1> QED BY <1>1, <1>4, <1>5 DEF Durable

\* While the engine runs, every manifest and the live levels recover to
\* acknowledged answers.
LEMMA DurableRunning ==
  ASSUME Inv, Inv', [Next]_vars, Running, Running', Clean, Clean', Numbers, Numbers', LoggedQueue, LoggedActive,
         FlushedTable, Merging', Durable
  PROVE  Durable'
<1>1. CASE ~UNCHANGED hw
  BY <1>1, NumberSteps, DurableFlushed
<1>2. CASE UNCHANGED hw
  <2>1. manifestMu # "free" =>
          /\ pending.l0 \in Seq(Nat) /\ pending.l1 \in Seq(Nat) /\ pending.flushed \in Nat
          /\ pending.flushed <= flushedSeg
          /\ Range(pending.l0) \cup Range(pending.l1) \subseteq DOMAIN sstFiles
          /\ Sound(pending.l0, pending.l1, pending.flushed)
    BY PendingFiles, NumberTypes DEF Numbers, PendingNumbers, Durable
  <2>2. Sound(l0, l1, flushedSeg) /\ Sound(manifest.l0, manifest.l1, manifest.flushed)
    BY DEF Durable, Live, Running
  <2>3. Sound(manifest.l0, manifest.l1, manifest.flushed)'
    <3>1. PICK lz, lo, f : lz = manifest'.l0 /\ lo = manifest'.l1 /\ f = manifest'.flushed
      OBVIOUS
    <3>2. Range(lz) \cup Range(lo) \subseteq DOMAIN sstFiles'
      BY <3>1, CleanNextFiles DEF DurableFiles, ManifestFiles
    <3>3. /\ lz \in Seq(Nat) /\ lo \in Seq(Nat) /\ f \in Nat /\ f <= flushedSeg
          /\ Range(lz) \cup Range(lo) \subseteq DOMAIN sstFiles
          /\ Sound(lz, lo, f)
      <4>1. CASE UNCHANGED manifest
        <5>1. /\ manifest.l0 \in Seq(Nat) /\ manifest.l1 \in Seq(Nat) /\ manifest.flushed \in Nat
              /\ Range(manifest.l0) \cup Range(manifest.l1) \subseteq DOMAIN sstFiles
          BY NumberTypes, CleanFiles DEF DurableFiles, ManifestFiles, Inv, TypeInv, TypeSegments, Manifests
        <5>2. manifest.flushed <= flushedSeg
          BY DEF Numbers, LiveNumbers, Live, Running
        <5> QED BY <2>2, <3>1, <4>1, <5>1, <5>2
      <4>2. CASE manifestMu # "free" /\ manifest' = pending
        BY <2>1, <3>1, <4>2
      <4> QED BY <4>1, <4>2, ManifestSteps
    <3>4. Sound(lz, lo, f)'
      BY <1>2, <3>2, <3>3, SoundKept
    <3> QED BY <3>1, <3>4 DEF Sound, Recovered, Found, Above
  <2>4. UNCHANGED <<l0, l1, flushedSeg>> => Sound(l0, l1, flushedSeg)'
    <3> SUFFICES ASSUME UNCHANGED <<l0, l1, flushedSeg>> PROVE Sound(l0, l1, flushedSeg)'
      OBVIOUS
    <3>1. PICK lz, lo, f : lz = l0 /\ lo = l1 /\ f = flushedSeg
      OBVIOUS
    <3>2. /\ lz \in Seq(Nat) /\ lo \in Seq(Nat) /\ f \in Nat /\ f <= flushedSeg
          /\ Range(lz) \cup Range(lo) \subseteq DOMAIN sstFiles
          /\ Range(lz) \cup Range(lo) \subseteq DOMAIN sstFiles'
          /\ Sound(lz, lo, f)
      BY <2>2, <3>1, NumberTypes, CleanFiles, CleanNextFiles DEF LevelFiles, Inv, TypeInv, TypeSegments
    <3>3. Sound(lz, lo, f)'
      BY <1>2, <3>2, SoundKept
    <3> QED BY <3>1, <3>3 DEF Sound, Recovered, Found, Above
  <2>5. Sound(l0, l1, flushedSeg)'
    <3>1. CASE FlushRegister
      BY <2>2, <3>1, SoundRegistered
    <3>2. CASE CompactCommit
      <4>1. PICK lz, lo, f : lz = pending.l0 /\ lo = pending.l1 /\ f = pending.flushed
        OBVIOUS
      <4>2. manifestMu = "compaction" /\ pending.l1 = couts /\ pending.flushed = flushedSeg
        BY <3>2 DEF CompactCommit, Inv, Control, Pending
      <4>3. l0' = lz /\ l1' = lo /\ flushedSeg' = f
        BY <3>2, <4>1, <4>2 DEF CompactCommit
      <4>4. Range(lz) \cup Range(lo) \subseteq DOMAIN sstFiles'
        BY <4>3, CleanNextFiles DEF LevelFiles
      <4>5. /\ lz \in Seq(Nat) /\ lo \in Seq(Nat) /\ f \in Nat /\ f <= flushedSeg
            /\ Range(lz) \cup Range(lo) \subseteq DOMAIN sstFiles
            /\ Sound(lz, lo, f)
        BY <2>1, <4>1, <4>2
      <4>6. Sound(lz, lo, f)'
        BY <1>2, <4>4, <4>5, SoundKept
      <4> QED BY <4>3, <4>6 DEF Sound, Recovered, Found, Above
    <3>3. CASE ~FlushRegister /\ ~CompactCommit
      <4>1. UNCHANGED <<l0, l1, flushedSeg>>
        <5>1. UNCHANGED flushedSeg
          BY <3>3, MemorySteps
        <5> QED BY <3>3, <5>1, LevelSteps
      <4> QED BY <2>4, <4>1
    <3> QED BY <3>1, <3>2, <3>3
  <2>6. manifestMu' # "free" => Sound(pending.l0, pending.l1, pending.flushed)'
    <3> SUFFICES ASSUME manifestMu' # "free" PROVE Sound(pending.l0, pending.l1, pending.flushed)'
      OBVIOUS
    <3>1. CASE manifestMu # "free" /\ UNCHANGED pending
      <4>1. PICK lz, lo, f : lz = pending.l0 /\ lo = pending.l1 /\ f = pending.flushed
        OBVIOUS
      <4>2. /\ lz \in Seq(Nat) /\ lo \in Seq(Nat) /\ f \in Nat /\ f <= flushedSeg
            /\ Range(lz) \cup Range(lo) \subseteq DOMAIN sstFiles
            /\ Sound(lz, lo, f)
        BY <2>1, <3>1, <4>1
      <4>3. Range(lz) \cup Range(lo) \subseteq DOMAIN sstFiles'
        BY <3>1, <4>1, PendingFilesNext
      <4>4. Sound(lz, lo, f)'
        BY <1>2, <4>2, <4>3, SoundKept
      <4> QED BY <3>1, <4>1, <4>4 DEF Sound, Recovered, Found, Above
    <3>2. CASE RotateBuild
      <4>1. pending' = [next |-> nextSeg, l0 |-> l0, l1 |-> l1, flushed |-> 0] /\ UNCHANGED <<l0, l1>>
        BY <3>2 DEF RotateBuild, RotationManifest, lsm
      <4>2. pending'.l0 = l0' /\ pending'.l1 = l1' /\ pending'.flushed = 0
        BY <4>1
      <4>3. \A k \in Keys : Recovered(l0, l1, 0, k)' \in allowed'[k]
        BY <2>5 DEF Sound
      <4> QED BY <4>2, <4>3 DEF Sound, Recovered, Found, Above
    <3>3. CASE FlushRegister
      <4>1. pending' = [next |-> nextSeg, l0 |-> l0', l1 |-> l1, flushed |-> flushedSeg'] /\ UNCHANGED l1
        BY <3>3 DEF FlushRegister
      <4>2. pending'.l0 = l0' /\ pending'.l1 = l1' /\ pending'.flushed = flushedSeg'
        BY <4>1
      <4> QED BY <2>5, <4>2 DEF Sound, Recovered, Found, Above
    <3>4. CASE CompactBuild
      <4>1. pending'.flushed = flushedSeg' /\ cpc' = "save"
        BY <3>4 DEF CompactBuild, lsm
      <4>2. PICK f : f = flushedSeg'
        OBVIOUS
      <4>3. ASSUME NEW k \in Keys
            PROVE  /\ Recovered(pending.l0, pending.l1, f, k)' = Recovered(l0, l1, f, k)'
                   /\ Recovered(pending.l0, pending.l1, 0, k)' = Recovered(l0, l1, 0, k)'
        <5>1. Answer(SearchLevels(sstFiles', pending'.l0, pending'.l1, k)) = Answer(SearchLevels(sstFiles', l0', l1', k))
          BY <4>1 DEF Merging
        <5> QED BY <5>1 DEF Recovered, Found, Above, Answer
      <4>4. \A k \in Keys : /\ Recovered(l0, l1, f, k)' \in allowed'[k]
                            /\ Recovered(l0, l1, 0, k)' = Recovered(l0, l1, f, k)'
        BY <2>5, <4>2 DEF Sound, Recovered, Found, Above
      <4>5. \A k \in Keys : /\ Recovered(pending.l0, pending.l1, f, k)' \in allowed'[k]
                            /\ Recovered(pending.l0, pending.l1, 0, k)' = Recovered(pending.l0, pending.l1, f, k)'
        BY <4>3, <4>4
      <4> QED BY <4>1, <4>2, <4>5 DEF Sound, Recovered, Found, Above
    <3> QED BY <3>1, <3>2, <3>3, <3>4, NumberSteps
  <2> QED BY <2>3, <2>5, <2>6 DEF Durable
<1> QED BY <1>1, <1>2

------------------------------------------------------------------------------
(* What Get answers *)

\* Get looks in the active memtable, in the queue and in the levels.
LEMMA GetIs ==
  ASSUME NEW k
  PROVE  Get(k) = Answer(IF memtable[k] # None THEN memtable[k]
                         ELSE IF Queued(imm, k) # None THEN Queued(imm, k)
                         ELSE SearchLevels(sstFiles, l0, l1, k))
BY DEF Get, Queued

\* What the levels say once the next state is reached, when no flush joins them.
LEMMA LevelsAnswer ==
  ASSUME Inv, Inv', [Next]_vars, Running, Running', Clean, Clean', Merging, ~FlushRegister, NEW k \in Keys
  PROVE  Answer(SearchLevels(sstFiles', l0', l1', k)) = Answer(SearchLevels(sstFiles, l0, l1, k))
<1>1. CASE UNCHANGED <<l0, l1>>
  <2>1. /\ l0 \in Seq(Nat) /\ l1 \in Seq(Nat)
        /\ Range(l0) \cup Range(l1) \subseteq DOMAIN sstFiles
        /\ Range(l0) \cup Range(l1) \subseteq DOMAIN sstFiles' /\ NoCollision'
    BY <1>1, CleanFiles, CleanNextFiles DEF LevelFiles, Inv, TypeInv, TypeSegments
  <2>2. SearchLevels(sstFiles', l0, l1, k) = SearchLevels(sstFiles, l0, l1, k)
    BY <2>1, LevelsKept
  <2> QED BY <1>1, <2>2
<1>2. CASE CompactCommit
  <2>1. PICK lz, lo : lz = pending.l0 /\ lo = pending.l1
    OBVIOUS
  <2>2. cpc = "commit" /\ manifestMu = "compaction" /\ pending.l1 = couts
    BY <1>2 DEF CompactCommit, Inv, Control, Pending
  <2>3. l0' = lz /\ l1' = lo
    BY <1>2, <2>1, <2>2 DEF CompactCommit
  <2>4. /\ lz \in Seq(Nat) /\ lo \in Seq(Nat) /\ Range(lz) \cup Range(lo) \subseteq DOMAIN sstFiles
    BY <2>1, <2>2, PendingFiles
  <2>5. Range(lz) \cup Range(lo) \subseteq DOMAIN sstFiles' /\ NoCollision'
    BY <2>3, CleanNextFiles DEF LevelFiles
  <2>6. SearchLevels(sstFiles', lz, lo, k) = SearchLevels(sstFiles, lz, lo, k)
    BY <2>4, <2>5, LevelsKept
  <2>7. Answer(SearchLevels(sstFiles, lz, lo, k)) = Answer(SearchLevels(sstFiles, l0, l1, k))
    BY <2>1, <2>2 DEF Merging
  <2> QED BY <2>3, <2>6, <2>7
<1> QED BY <1>1, <1>2, LevelSteps

\* Neither rotation nor flush nor compaction changes an answer.
LEMMA GetKept ==
  ASSUME Inv, Inv', [Next]_vars, Running, Running', Clean, Clean', Merging, FlushedTable, ~WriteApply, NEW k \in Keys
  PROVE  Get(k)' = Get(k)
<1>1. imm \in Seq(Memtables) /\ memtable \in Tables /\ activeSeg \in Nat
  BY DEF Inv, TypeInv, TypeData, TypeSegments, Memtables
<1>2. CASE FlushRegister
  <2>1. PICK h, q : h = Head(imm).seg /\ q = Tail(imm)
    OBVIOUS
  <2>2. /\ UNCHANGED <<sstFiles, memtable, l1>> /\ l0' = <<h>> \o l0 /\ fpc = "register" /\ imm' = q
    BY <1>2, <2>1 DEF FlushRegister, WithFlushed, disk
  <2>3. imm # <<>> /\ h \in Nat /\ l0 \in Seq(Nat)
    BY <1>2, <2>1, HeadOlder DEF Inv, TypeInv, TypeSegments
  <2>4. /\ \A x \in Range(l0) : sstFiles[x] \in Tables
        /\ sstFiles[h] \in Tables
    BY <2>1, <2>2, CleanFiles DEF LevelFiles, FlushFile
  <2>5. sstFiles[h][k] = Head(imm).data[k]
    BY <2>1, <2>2 DEF FlushedTable
  <2>6. PICK all : all = <<h>> \o l0
    OBVIOUS
  <2>7. FirstEntry(TablesOf(sstFiles, all), k) =
          IF sstFiles[h][k] # None THEN sstFiles[h][k] ELSE FirstEntry(TablesOf(sstFiles, l0), k)
    BY <2>3, <2>4, <2>6, FirstPrepended
  <2>8. SearchLevels(sstFiles, all, l1, k) =
          IF sstFiles[h][k] # None THEN sstFiles[h][k] ELSE SearchLevels(sstFiles, l0, l1, k)
    BY <2>7 DEF SearchLevels
  <2>9. Queued(imm, k) = IF Queued(q, k) # None THEN Queued(q, k) ELSE Head(imm).data[k]
    BY <1>1, <2>1, <2>3, QueuedTail
  <2>10. Get(k)' = Answer(IF memtable[k] # None THEN memtable[k]
                          ELSE IF Queued(q, k) # None THEN Queued(q, k) ELSE SearchLevels(sstFiles, all, l1, k))
    BY <2>2, <2>6 DEF Get, Queued
  <2> QED BY <2>5, <2>8, <2>9, <2>10, GetIs
<1>3. CASE ~FlushRegister
  <2>1. Answer(SearchLevels(sstFiles', l0', l1', k)) = Answer(SearchLevels(sstFiles, l0, l1, k))
    BY <1>3, LevelsAnswer
  <2>2. Get(k)' = Answer(IF memtable'[k] # None THEN memtable'[k]
                         ELSE IF Queued(imm', k) # None THEN Queued(imm', k)
                         ELSE SearchLevels(sstFiles', l0', l1', k))
    BY DEF Get, Queued
  <2>3. CASE UNCHANGED <<memtable, imm>>
    BY <2>1, <2>2, <2>3, GetIs DEF Answer
  <2>4. CASE WriteFreeze \/ SnapshotFreeze \/ CloseQueue
    <3>1. PICK m : m = [seg |-> activeSeg, data |-> memtable]
      OBVIOUS
    <3>2. m \in Memtables /\ m.data = memtable
      BY <1>1, <3>1 DEF Memtables
    <3>3. imm' = Append(imm, m) /\ memtable' = Empty
      BY <2>4, <3>1 DEF WriteFreeze, SnapshotFreeze, CloseQueue, FreezeActiveMemTable
    <3>4. PICK r : r = Append(imm, m)
      OBVIOUS
    <3>5. Queued(r, k) = IF memtable[k] # None THEN memtable[k] ELSE Queued(imm, k)
      BY <1>1, <3>2, <3>4, QueuedAppend
    <3>6. memtable'[k] = None /\ imm' = r
      BY <3>3, <3>4 DEF Empty
    <3>7. Get(k)' = Answer(IF Queued(r, k) # None THEN Queued(r, k) ELSE SearchLevels(sstFiles', l0', l1', k))
      BY <2>2, <3>6
    <3> QED BY <2>1, <3>5, <3>7, GetIs DEF Answer
  <2> QED BY <1>3, <2>3, <2>4, DataSteps
<1> QED BY <1>2, <1>3

\* While the engine runs, Get gives acknowledged answers.
LEMMA AnswersRunning ==
  ASSUME Inv, Inv', [Next]_vars, Running, Running', Clean, Clean', Merging, FlushedTable, Answers
  PROVE  Answers'
<1> SUFFICES ASSUME Serving', NEW k \in Keys PROVE Get(k)' \in allowed'[k]
  BY DEF Answers
<1>1. Serving
  <2>1. status' = "open"
    BY DEF Serving, Running
  <2> QED BY <2>1, Phases DEF Running, Serving, Foreground, Flush, Compaction, Closing, WriteBatch, WriteRefused,
       WriteFreeze, SnapshotFreeze, RotateWAL, RotateBuild, RotateSave, WALAppend, WALAppendFails, WriteApply,
       FlushWake, FlushWrite, FlushRegister, FlushSave, FlushCleanup, CompactWake, CompactMerge, CompactBuild,
       CompactSave, CompactCommit, CloseStart, CloseDrain, CloseQueue, CloseSignal, CloseFinish, vars
<1>2. Get(k) \in allowed[k]
  BY <1>1 DEF Answers
<1>3. CASE ~WriteApply
  <2>1. Get(k)' = Get(k)
    BY <1>3, GetKept
  <2>2. allowed[k] \subseteq allowed'[k]
    BY <1>3, DataSteps DEF WALAppend, WALAppendFails
  <2> QED BY <1>2, <2>1, <2>2
<1>4. CASE WriteApply
  <2>1. UNCHANGED <<imm, sstFiles, l0, l1>>
    BY <1>4 DEF WriteApply, disk, lsm
  <2>2. \/ UNCHANGED <<memtable, allowed>>
        \/ /\ memtable'[k] = IF batch[k] # None THEN batch[k] ELSE memtable[k]
           /\ allowed'[k] = IF batch[k] = None THEN allowed[k] ELSE {Answer(batch[k])}
    BY <1>4 DEF WriteApply, Overlay
  <2>3. Get(k)' = Answer(IF memtable'[k] # None THEN memtable'[k]
                         ELSE IF Queued(imm, k) # None THEN Queued(imm, k)
                         ELSE SearchLevels(sstFiles, l0, l1, k))
    BY <2>1 DEF Get, Queued
  <2> QED BY <1>2, <2>2, <2>3, GetIs
<1> QED BY <1>3, <1>4

------------------------------------------------------------------------------
(* Process stop and recovery *)

\* Neither the workers, nor a writer, nor Close is at work.
Quiet == /\ imm = <<>> /\ manifestMu = "free" /\ wpc = "idle" /\ fpc = "idle" /\ cpc = "idle"
         /\ kpc = "none" /\ ~bgErr

\* NewEngine has read into memory what the segments above its watermark hold.
Restored == \A k \in Keys : memtable[k] = Above(flushedSeg, k)

\* It is quiet while NewEngine runs, and after each of its steps.
LEMMA QuietRecovery ==
  ASSUME Inv, Inv', [Next]_vars, ~Running \/ ~Running'
  PROVE  Quiet'
<1>1. CASE status' \in {"down", "failed"} /\ Volatile'
  BY <1>1, Zenon DEF Volatile, Quiet
<1>2. CASE status' = "recovering"
  BY <1>2, Zenon DEF Inv, Control, Quiet
<1>3. CASE status = "recovering" /\ status' = "open" /\ (RecoverCreate \/ RecoverResume)
  <2>1. Quiet
    BY <1>3, Zenon DEF Inv, Control, Quiet
  <2>2. UNCHANGED <<imm, manifestMu, wpc, fpc, cpc, kpc, bgErr>>
    BY <1>3 DEF RecoverCreate, RecoverResume, OpenFails, mem, mutex, writer, compact
  <2> QED BY <2>1, <2>2, Zenon DEF Quiet
<1>4. CASE UNCHANGED vars
  <2>1. status \in {"down", "failed", "recovering"} /\ UNCHANGED <<imm, manifestMu, wpc, fpc, cpc, kpc, bgErr, status>>
    BY <1>4 DEF vars, mem, mutex, writer, compact, Running, Inv, TypeInv, TypeControl
  <2>2. Quiet
    BY <2>1, Zenon DEF Inv, Control, Volatile, Quiet
  <2> QED BY <2>1, <2>2, Zenon DEF Quiet
<1> QED BY <1>1, <1>2, <1>3, <1>4, Phases DEF Inv, TypeInv, TypeControl, Running

\* A quiet engine that has restored its memory, from levels that recover to
\* acknowledged answers, gives them.
LEMMA QuietReads ==
  ASSUME Inv', Quiet', Live' => Restored', Numbers', Durable'
  PROVE  Reads'
<1>1. LoggedQueue'
  BY DEF Quiet, LoggedQueue
<1>2. FlushedTable' /\ Merging'
  BY DEF Quiet, FlushedTable, Merging
<1>3. Len(imm') = 0
  BY DEF Quiet
<1>4. Floor(Len(imm) + 1)' = flushedSeg'
  BY <1>3 DEF Floor
<1>5. \A k \in Keys : ActiveEntry(k)' = Above(flushedSeg, k)'
  BY <1>4 DEF ActiveEntry, Above
<1>6. LoggedActive'
  BY <1>5 DEF LoggedActive, Quiet, Restored
<1>7. Answers'
  <2> SUFFICES ASSUME Serving', NEW k \in Keys PROVE Get(k)' \in allowed'[k]
    BY DEF Answers
  <2>1. Live'
    BY DEF Serving, Live
  <2>2. PICK c : c = IF hw' > flushedSeg' THEN hw' ELSE flushedSeg'
    OBVIOUS
  <2>3. \A s \in DOMAIN walFiles' : s > c <=> s > flushedSeg'
    BY <2>1, <2>2, NextTypes DEF Numbers, LiveNumbers
  <2>4. {s \in DOMAIN walFiles' : s > c} = {s \in DOMAIN walFiles' : s > flushedSeg'}
    BY <2>3
  <2>5. Above(c, k)' = memtable'[k]
    BY <2>1, <2>4 DEF Above, Restored
  <2>6. Recovered(l0, l1, flushedSeg, k)' =
          Answer(IF Above(c, k)' # None THEN Above(c, k)' ELSE SearchLevels(sstFiles', l0', l1', k))
    BY <2>2 DEF Recovered, Found, Above
  <2>7. Queued(imm', k) = None
    BY <1>3 DEF Quiet, Queued, FirstEntry
  <2>8. Get(k)' = Answer(IF memtable'[k] # None THEN memtable'[k]
                         ELSE IF Queued(imm', k) # None THEN Queued(imm', k)
                         ELSE SearchLevels(sstFiles', l0', l1', k))
    BY DEF Get, Queued
  <2>9. Recovered(l0, l1, flushedSeg, k)' \in allowed'[k]
    BY <2>1 DEF Durable, Sound
  <2> QED BY <2>5, <2>6, <2>7, <2>8, <2>9
<1> QED BY <1>1, <1>2, <1>6, <1>7 DEF Reads

\* A step that keeps the files, the log above the durable watermark and the
\* acknowledged answers.
LEMMA SoundStays ==
  ASSUME [Next]_vars, NoCollision', IsFiles(walFiles), IsFiles(walFiles)', hw \in Nat, UNCHANGED hw,
         \A s \in Nat, k \in Keys : s > hw => SameRecord(s, k),
         NEW lz \in Seq(Nat), NEW lo \in Seq(Nat), NEW f \in Nat,
         Range(lz) \cup Range(lo) \subseteq DOMAIN sstFiles, Range(lz) \cup Range(lo) \subseteq DOMAIN sstFiles',
         Sound(lz, lo, f), \A k \in Keys : Recovered(lz, lo, f, k) \in allowed'[k]
  PROVE  Sound(lz, lo, f)'
<1>1. ASSUME NEW k \in Keys, NEW c \in Nat
      PROVE  Recovered(lz, lo, c, k)' = Recovered(lz, lo, c, k)
  <2>1. PICK e : e = SearchLevels(sstFiles, lz, lo, k)
    OBVIOUS
  <2>2. SearchLevels(sstFiles', lz, lo, k) = e
    BY <2>1, LevelsKept
  <2>3. \A s \in Nat : s > hw => SameRecord(s, k)
    OBVIOUS
  <2>4. Found(c, e, k)' = Found(c, e, k)
    BY <2>3, FoundKept
  <2>5. Recovered(lz, lo, c, k) = Found(c, e, k)
    BY <2>1 DEF Recovered
  <2>6. Recovered(lz, lo, c, k)' = Found(c, e, k)'
    BY <2>2 DEF Recovered, Found, Above
  <2> QED BY <2>4, <2>5, <2>6
<1>2. 0 \in Nat
  OBVIOUS
<1>3. ASSUME NEW k \in Keys
      PROVE  Recovered(lz, lo, f, k)' \in allowed'[k] /\ Recovered(lz, lo, 0, k)' = Recovered(lz, lo, f, k)'
  <2>1. Recovered(lz, lo, f, k)' = Recovered(lz, lo, f, k) /\ Recovered(lz, lo, 0, k)' = Recovered(lz, lo, 0, k)
    BY <1>1, <1>2
  <2> QED BY <2>1 DEF Sound
<1> QED BY <1>3 DEF Sound

\* So the manifest stays sound, if only its NextSegmentID changes.
LEMMA ManifestStays ==
  ASSUME Inv, Inv', [Next]_vars, Clean, Clean', Durable, UNCHANGED hw,
         manifest'.l0 = manifest.l0, manifest'.l1 = manifest.l1, manifest'.flushed = manifest.flushed,
         \A s \in Nat, k \in Keys : s > hw => SameRecord(s, k),
         \A k \in Keys : Recovered(manifest.l0, manifest.l1, manifest.flushed, k) \in allowed'[k]
  PROVE  Sound(manifest.l0, manifest.l1, manifest.flushed)'
<1>1. PICK lz, lo, f : lz = manifest.l0 /\ lo = manifest.l1 /\ f = manifest.flushed
  OBVIOUS
<1>2. /\ lz \in Seq(Nat) /\ lo \in Seq(Nat) /\ f \in Nat /\ hw \in Nat
      /\ IsFiles(walFiles) /\ IsFiles(walFiles)'
  BY <1>1, NumberTypes DEF Inv, TypeInv, TypeSegments, TypeData, Manifests
<1>3. /\ Range(lz) \cup Range(lo) \subseteq DOMAIN sstFiles
      /\ Range(lz) \cup Range(lo) \subseteq DOMAIN sstFiles' /\ NoCollision'
  BY <1>1, CleanFiles, CleanNextFiles DEF DurableFiles, ManifestFiles
<1>4. Sound(lz, lo, f) /\ \A k \in Keys : Recovered(lz, lo, f, k) \in allowed'[k]
  BY <1>1 DEF Durable
<1>5. Sound(lz, lo, f)'
  BY <1>2, <1>3, <1>4, SoundStays
<1> QED BY <1>1, <1>5 DEF Sound, Recovered, Found, Above

\* What is left when the process stops or NewEngine fails: the disk, but for
\* NextSegmentID and a table that no manifest names.
LEMMA StopKeeps ==
  ASSUME Inv, Inv', [Next]_vars, Clean, Clean', Numbers, status' \in {"down", "failed"}, ~UNCHANGED vars
  PROVE  /\ UNCHANGED <<walFiles, hw, allowed>>
         /\ manifest'.l0 = manifest.l0 /\ manifest'.l1 = manifest.l1 /\ manifest'.flushed = manifest.flushed
         /\ manifest'.next \in {manifest.next} \/
              (Live /\ manifest.flushed = flushedSeg /\ manifest'.next \in {nextSeg, nextSeg + 1})
<1>1. /\ DurableFiles /\ manifest \in Manifests
  BY CleanFiles DEF Inv, TypeInv, TypeSegments
<1>2. /\ rpc # "none" => l1 = manifest.l1 /\ Live
      /\ rpc \notin {"none", "flushSave"} => l0 = manifest.l0 /\ flushedSeg = manifest.flushed
  BY DEF Inv, Disk, Control, Live
<1>3. CASE Stop
  BY <1>3 DEF Stop, disk, history
<1>4. CASE Open
  <2>1. DOMAIN sstFiles' = DOMAIN sstFiles \cap ActiveSSTs(manifest)
    BY <1>4 DEF Open, Restrict
  <2>2. ManifestFiles(manifest) \subseteq DOMAIN sstFiles'
    BY <1>1, <2>1 DEF DurableFiles, ManifestFiles, ActiveSSTs
  <2> QED BY <1>4, <2>2 DEF Open
<1>5. CASE RecoverFlush
  BY <1>5 DEF RecoverFlush
<1>6. CASE RecoverFlushSave
  <2>1. status = "recovering"
    BY <1>6 DEF RecoverFlushSave, Inv, Control
  <2>2. exposed' = exposed \cup (IF manifest' # manifest THEN {"dangling"} ELSE {})
    BY <1>6, <2>1 DEF RecoverFlushSave, Expose
  <2>3. manifest' = manifest
    BY <2>2 DEF Clean
  <2>4. Head(l0) \notin Range(manifest.l0) /\ l0 # <<>>
    BY <1>1, <1>6 DEF DurableFiles, ManifestFiles, RecoverFlushSave
  <2>5. Head(l0) \in Range(l0)
    BY <2>4 DEF Range, Inv, TypeInv, TypeSegments
  <2>6. manifest # CurrentManifest
    BY <2>4, <2>5 DEF CurrentManifest
  <2> QED BY <1>6, <2>3, <2>6 DEF RecoverFlushSave
<1>7. CASE RecoverCleanup
  BY <1>7 DEF RecoverCleanup, Inv, Control
<1>8. CASE RecoverNewSegment
  <2>1. rpc = "newseg"
    BY <1>8 DEF RecoverNewSegment
  <2>2. UNCHANGED <<walFiles, hw, allowed>>
    BY <1>8 DEF RecoverNewSegment, history
  <2>3. manifest' = manifest \/ manifest' = [CurrentManifest EXCEPT !.next = nextSeg + 1]
    BY <1>8 DEF RecoverNewSegment, ManifestFails
  <2> QED BY <1>2, <2>1, <2>2, <2>3 DEF CurrentManifest
<1>9. CASE RecoverCreate
  BY <1>9 DEF RecoverCreate, OpenFails, history, Inv, Control
<1>10. CASE RecoverResume
  <2>1. rpc = "resume"
    BY <1>10 DEF RecoverResume
  <2>2. UNCHANGED <<walFiles, hw, allowed>>
    BY <1>10 DEF RecoverResume, history
  <2>3. manifest' = manifest \/ manifest' = CurrentManifest
    BY <1>10 DEF RecoverResume, ManifestFails
  <2> QED BY <1>2, <2>1, <2>2, <2>3 DEF CurrentManifest
<1>11. Recover
  BY Phases DEF Running
<1> QED BY <1>3, <1>4, <1>5, <1>6, <1>7, <1>8, <1>9, <1>10, <1>11 DEF Recover

\* A stopped engine: the disk recovers to acknowledged answers.
LEMMA ReadsStopped ==
  ASSUME Inv, Inv', [Next]_vars, Clean, Clean', Numbers, Durable, status' \in {"down", "failed"}, ~UNCHANGED vars
  PROVE  Reads'
<1>1. Quiet' /\ ~Live' /\ rpc' = "none"
  <2>1. Quiet'
    BY QuietRecovery DEF Running
  <2> QED BY <2>1 DEF Live, Inv, Control
<1>2. UNCHANGED <<walFiles, hw, allowed>>
  BY StopKeeps
<1>3. Sound(manifest.l0, manifest.l1, manifest.flushed)'
  <2>1. \A s \in Nat, k \in Keys : s > hw => SameRecord(s, k)
    BY <1>2 DEF SameRecord
  <2>2. \A k \in Keys : Recovered(manifest.l0, manifest.l1, manifest.flushed, k) \in allowed'[k]
    BY <1>2 DEF Durable, Sound
  <2> QED BY <1>2, <2>1, <2>2, StopKeeps, ManifestStays
<1>4. Numbered(manifest.next, manifest.flushed)'
  <2>1. Numbered(manifest.next, manifest.flushed)
    BY DEF Numbers, DiskNumbers
  <2>2. Live => Numbered(nextSeg, flushedSeg)
    BY DEF Numbers, LiveNumbers
  <2>3. manifest'.next > hw /\ manifest'.next > manifest.flushed
    BY <2>1, <2>2, StopKeeps, NumberTypes DEF Numbered
  <2> QED BY <1>2, <2>1, <2>3, StopKeeps DEF Numbered
<1>5. Numbers'
  BY <1>1, <1>4 DEF Numbers, DiskNumbers, LiveNumbers, PendingNumbers, RemovableNumbers, Quiet
<1>6. Durable'
  BY <1>1, <1>3 DEF Durable, Quiet
<1> QED BY <1>1, <1>5, <1>6, QuietReads

\* What holds between two steps of NewEngine.
LEMMA Recovering ==
  ASSUME Inv, Numbers, LoggedActive, Durable, rpc # "none"
  PROVE  /\ Live /\ ~Drained /\ Restored /\ imm = <<>>
         /\ Numbered(nextSeg, flushedSeg) /\ manifest.flushed <= flushedSeg
         /\ \A s \in DOMAIN walFiles : s <= activeSeg /\ (s > flushedSeg => s > hw)
         /\ rpc # "newseg" => activeSeg > flushedSeg /\ activeSeg > hw
         /\ Sound(l0, l1, flushedSeg) /\ Sound(manifest.l0, manifest.l1, manifest.flushed)
<1>1. /\ status = "recovering" /\ imm = <<>> /\ kpc = "none" /\ wpc = "idle"
  BY DEF Inv, Control
<1>2. ~bgErr
  BY Zenon DEF Inv, Control
<1>3. Live /\ ~Drained
  BY <1>1 DEF Live, Drained
<1>4. Floor(Len(imm) + 1) = flushedSeg
  BY <1>1 DEF Floor
<1>5. Restored
  BY <1>1, <1>2, <1>3, <1>4 DEF LoggedActive, ActiveEntry, Restored
<1> QED BY <1>1, <1>3, <1>5 DEF Numbers, LiveNumbers, Durable

\* The numbers after a step of NewEngine.
LEMMA NumbersRecovering ==
  ASSUME Quiet', rpc' # "cleanup" \/ flushedSeg' <= hw',
         Numbered(manifest.next, manifest.flushed)', Numbered(nextSeg, flushedSeg)',
         manifest'.flushed <= flushedSeg',
         \A s \in DOMAIN walFiles' : s <= activeSeg' /\ (s > flushedSeg' => s > hw'),
         rpc' # "newseg" => activeSeg' > flushedSeg' /\ activeSeg' > hw'
  PROVE  Numbers'
BY DEF Quiet, Numbers, DiskNumbers, LiveNumbers, PendingNumbers, RemovableNumbers

\* NewEngine opens what the manifest names and replays the log.
LEMMA ReadsOpen ==
  ASSUME Inv, Inv', [Next]_vars, Clean, Clean', Numbers, Durable, Open, status' = "recovering", Quiet'
  PROVE  Reads'
<1>1. /\ status' = "recovering" /\ UNCHANGED <<manifest, walFiles, hw>>
      /\ l0' = manifest.l0 /\ l1' = manifest.l1 /\ flushedSeg' = manifest.flushed /\ nextSeg' = manifest.next
      /\ memtable' = Recovery /\ activeSeg' = HighestWAL
      /\ rpc' = (IF Size(Recovery) > MaxMemTableSize THEN "flush"
                 ELSE IF HighestWAL <= manifest.flushed THEN "newseg" ELSE "create")
      /\ allowed' = [k \in Keys |->
              LET v == Answer(IF Recovery[k] # None THEN Recovery[k]
                              ELSE SearchLevels(sstFiles, manifest.l0, manifest.l1, k))
              IN  IF v \in allowed[k] THEN {v} ELSE allowed[k]]
      /\ exposed' = exposed \cup (IF \E s \in DOMAIN walFiles : manifest.flushed < s /\ s <= hw
                                  THEN {"stale_replay"} ELSE {})
  BY DEF Open, Expose
<1>2. PICK f, top : f = manifest.flushed /\ top = HighestWAL
  OBVIOUS
<1>3. f \in Nat /\ hw \in Nat /\ IsFiles(walFiles) /\ DOMAIN walFiles \subseteq Nat
  BY <1>2, NumberTypes DEF Inv, TypeInv, TypeData
<1>4. \A s \in DOMAIN walFiles : s > f => s > hw
  <2>1. ~\E s \in DOMAIN walFiles : f < s /\ s <= hw
    BY <1>1, <1>2 DEF Clean
  <2> QED BY <1>3, <2>1
<1>5. \A k \in Keys : Recovery[k] = Above(f, k)
  BY <1>2 DEF Recovery, Replay, Above
<1>6. Numbered(manifest.next, f)
  BY <1>2 DEF Numbers, DiskNumbers
<1>7. /\ top \in Nat /\ \A s \in DOMAIN walFiles : s <= top
      /\ DOMAIN walFiles # {} => top \in DOMAIN walFiles
  BY <1>2, <1>3, HighestWALIsHighest
<1>8. rpc' # "newseg" => top > f
  <2>1. CASE top <= f
    <3>1. \A s \in DOMAIN walFiles : ~(s > f)
      BY <1>3, <1>7, <2>1
    <3>2. \A k \in Keys : Recovery[k] = None
      BY <1>5, <3>1, AboveNothing
    <3>3. Recovery = Empty
      BY <3>2 DEF Recovery, Replay, Empty
    <3>4. ~(Size(Recovery) > MaxMemTableSize)
      BY <3>3, SizeEmpty, EngineAssumption
    <3> QED BY <1>1, <1>2, <2>1, <3>4
  <2> QED BY <1>3, <1>7, <2>1
<1>9. rpc' # "newseg" => top > hw
  BY <1>3, <1>4, <1>6, <1>7, <1>8 DEF Numbered
<1>10. Numbers'
  <2>1. Numbered(manifest.next, manifest.flushed)' /\ Numbered(nextSeg, flushedSeg)'
    BY <1>1, <1>2, <1>6 DEF Numbered
  <2>2. manifest'.flushed <= flushedSeg'
    BY <1>1, <1>2, <1>3
  <2>3. rpc' # "cleanup"
    BY <1>1
  <2> QED BY <1>1, <1>2, <1>4, <1>7, <1>8, <1>9, <2>1, <2>2, <2>3, NumbersRecovering
<1>11. Restored'
  BY <1>1, <1>2, <1>5 DEF Restored, Above
<1>12. \A k \in Keys : Recovered(manifest.l0, manifest.l1, manifest.flushed, k) \in allowed'[k]
  <2> TAKE k \in Keys
  <2>1. PICK c : c = IF hw > f THEN hw ELSE f
    OBVIOUS
  <2>2. \A s \in DOMAIN walFiles : s > c <=> s > f
    BY <1>3, <1>4, <2>1
  <2>3. Above(c, k) = Recovery[k]
    BY <1>5, <2>2, AboveSame
  <2>4. PICK v : v = Answer(IF Recovery[k] # None THEN Recovery[k]
                            ELSE SearchLevels(sstFiles, manifest.l0, manifest.l1, k))
    OBVIOUS
  <2>5. Recovered(manifest.l0, manifest.l1, manifest.flushed, k) = v
    BY <1>2, <2>1, <2>3, <2>4 DEF Recovered, Found
  <2>6. v \in allowed[k]
    BY <2>5 DEF Durable, Sound
  <2>7. allowed'[k] = {v}
    BY <1>1, <2>4, <2>6
  <2> QED BY <2>5, <2>7
<1>13. Sound(manifest.l0, manifest.l1, manifest.flushed)'
  <2>1. \A s \in Nat, k \in Keys : s > hw => SameRecord(s, k)
    BY <1>1 DEF SameRecord
  <2> QED BY <1>1, <1>12, <2>1, ManifestStays
<1>14. Sound(l0, l1, flushedSeg)'
  BY <1>1, <1>13 DEF Sound, Recovered, Found, Above
<1>15. Durable'
  BY <1>13, <1>14 DEF Durable, Quiet
<1> QED BY <1>10, <1>11, <1>15, QuietReads

\* The replayed memtable becomes the newest table of Level 0, and the watermark
\* moves over all segments.
LEMMA ReadsRecoverFlush ==
  ASSUME Inv, Inv', [Next]_vars, Clean, Clean', Numbers, LoggedActive, Durable, RecoverFlush,
         status' = "recovering", Quiet'
  PROVE  Reads'
<1>1. PICK h, n, f : h = activeSeg /\ n = nextSeg /\ f = flushedSeg
  OBVIOUS
<1>2. rpc = "flush" /\ status = "recovering" /\ UNCHANGED <<manifest, walFiles, allowed, hw>>
  BY DEF RecoverFlush, Inv, Control
<1>3. /\ sstFiles' = Set(sstFiles, n, memtable) /\ l0' = <<n>> \o l0 /\ UNCHANGED l1
      /\ activeSeg' = n + 1 /\ nextSeg' = n + 2 /\ flushedSeg' = h /\ memtable' = Empty /\ rpc' = "flushSave"
      /\ exposed' = exposed \cup (Collision({n}) \cup IF h >= n + 1 THEN {"watermark"} ELSE {})
  BY <1>1 DEF RecoverFlush, OpenFails, Expose
<1>4. /\ h \in Nat /\ n \in Nat /\ f \in Nat /\ hw \in Nat /\ manifest.flushed \in Nat
      /\ IsFiles(walFiles) /\ DOMAIN walFiles \subseteq Nat
      /\ memtable \in Tables /\ l0 \in Seq(Nat) /\ l1 \in Seq(Nat)
  BY <1>1, NumberTypes DEF Inv, TypeInv, TypeData, TypeSegments
<1>5. /\ Restored /\ Numbered(n, f) /\ manifest.flushed <= f /\ h > f /\ h > hw
      /\ \A s \in DOMAIN walFiles : s <= h /\ (s > f => s > hw)
      /\ Sound(l0, l1, f)
  BY <1>1, <1>2, Recovering
<1>6. h < n + 1 /\ n \notin DOMAIN sstFiles
  <2>1. Collision({n}) = {} /\ ~(h >= n + 1)
    BY <1>3 DEF Clean
  <2> QED BY <1>4, <2>1 DEF Collision
<1>7. Numbers'
  <2>1. Numbered(manifest.next, manifest.flushed)'
    BY <1>2 DEF Numbered, Numbers, DiskNumbers
  <2>2. Numbered(nextSeg, flushedSeg)'
    BY <1>2, <1>3, <1>4, <1>5, <1>6 DEF Numbered
  <2>3. manifest'.flushed <= flushedSeg'
    BY <1>2, <1>3, <1>4, <1>5
  <2>4. \A s \in DOMAIN walFiles' : s <= activeSeg' /\ (s > flushedSeg' => s > hw')
    BY <1>2, <1>3, <1>4, <1>5, <1>6
  <2>5. activeSeg' > flushedSeg' /\ activeSeg' > hw' /\ rpc' # "cleanup"
    BY <1>2, <1>3, <1>4, <1>5, <1>6
  <2> QED BY <2>1, <2>2, <2>3, <2>4, <2>5, NumbersRecovering
<1>8. Restored'
  <2>1. \A s \in DOMAIN walFiles : ~(s > h)
    BY <1>4, <1>5
  <2>2. \A k \in Keys : Above(h, k) = None
    BY <2>1, AboveNothing
  <2>3. \A k \in Keys : Above(flushedSeg, k)' = Above(h, k)
    BY <1>2, <1>3 DEF Above
  <2> QED BY <1>3, <2>2, <2>3 DEF Restored, Empty
<1>9. Sound(manifest.l0, manifest.l1, manifest.flushed)'
  <2>1. \A s \in Nat, k \in Keys : s > hw => SameRecord(s, k)
    BY <1>2 DEF SameRecord
  <2>2. \A k \in Keys : Recovered(manifest.l0, manifest.l1, manifest.flushed, k) \in allowed'[k]
    BY <1>2 DEF Durable, Sound
  <2> QED BY <1>2, <2>1, <2>2, ManifestStays
<1>10. ASSUME NEW k \in Keys
       PROVE  /\ Recovered(l0, l1, flushedSeg, k)' = Recovered(l0, l1, f, k)
              /\ Recovered(l0, l1, 0, k)' = Recovered(l0, l1, flushedSeg, k)'
  <2>1. PICK d, all : d = SearchLevels(sstFiles, l0, l1, k) /\ all = <<n>> \o l0
    OBVIOUS
  <2>2. PICK g, lz, lo : g = sstFiles' /\ lz = l0 /\ lo = l1
    OBVIOUS
  <2>3. lz \in Seq(Nat) /\ lo \in Seq(Nat) /\ n \in Nat
    BY <1>4, <2>2
  <2>4. /\ Range(lz) \cup Range(lo) \subseteq DOMAIN sstFiles /\ \A x \in DOMAIN sstFiles : sstFiles[x] \in Tables
    BY <1>4, <2>2, CleanFiles DEF LevelFiles
  <2>5. /\ g[n] = memtable /\ \A x \in DOMAIN sstFiles : g[x] = sstFiles[x]
    BY <1>3, <1>6, <2>2 DEF Set
  <2>6. \A x \in Range(lz) : g[x] \in Tables
    BY <2>4, <2>5
  <2>7. g[n] \in Tables
    BY <1>4, <2>5
  <2>8. FirstEntry(TablesOf(g, all), k) = IF g[n][k] # None THEN g[n][k] ELSE FirstEntry(TablesOf(g, lz), k)
    <3>1. all = <<n>> \o lz
      BY <2>1, <2>2
    <3> QED BY <2>3, <2>6, <2>7, <3>1, FirstPrepended
  <2>9. SearchLevels(g, lz, lo, k) = SearchLevels(sstFiles, lz, lo, k)
    <3>1. Range(lz) \cup Range(lo) \subseteq DOMAIN sstFiles'
      BY <1>3, <2>4 DEF Set
    <3>2. lz \in Seq(Nat) /\ lo \in Seq(Nat) /\ Range(lz) \cup Range(lo) \subseteq DOMAIN sstFiles /\ NoCollision'
      BY <2>4, <2>3, CleanNextFiles
    <3>3. SearchLevels(sstFiles', lz, lo, k) = SearchLevels(sstFiles, lz, lo, k)
      BY <3>1, <3>2, LevelsKept
    <3> QED BY <2>2, <3>3
  <2>10. PICK e : e = SearchLevels(g, all, lo, k)
    OBVIOUS
  <2>11. e = IF memtable[k] # None THEN memtable[k] ELSE d
    BY <2>1, <2>2, <2>5, <2>8, <2>9, <2>10 DEF SearchLevels
  <2>12. Between(f, h, k) = memtable[k]
    <3>1. {s \in DOMAIN walFiles : s > f /\ s <= h} = {s \in DOMAIN walFiles : s > f}
      BY <1>5
    <3>2. Between(f, h, k) = Above(f, k)
      BY <3>1 DEF Between, Above
    <3> QED BY <1>1, <1>5, <3>2 DEF Restored
  <2>13. e = IF Between(f, h, k) # None THEN Between(f, h, k) ELSE d
    BY <2>11, <2>12
  <2>14. \A s \in DOMAIN walFiles : s > f => s > hw
    BY <1>5
  <2>15. f < h /\ hw < h
    BY <1>4, <1>5
  <2>16. /\ Found(h, e, k) = Found(f, d, k)
         /\ Found(0, d, k) = Found(f, d, k) => Found(0, e, k) = Found(h, e, k)
    BY <1>4, <2>13, <2>14, <2>15, FoundFlushed
  <2>17. Found(0, d, k) = Found(f, d, k) /\ Recovered(l0, l1, f, k) = Found(f, d, k)
    BY <1>5, <2>1 DEF Sound, Recovered
  <2>18. Recovered(l0, l1, flushedSeg, k)' = Found(h, e, k) /\ Recovered(l0, l1, 0, k)' = Found(0, e, k)
    BY <1>2, <1>3, <2>1, <2>2, <2>10 DEF Recovered, Found, Above
  <2> QED BY <2>16, <2>17, <2>18
<1>11. Sound(l0, l1, flushedSeg)'
  BY <1>2, <1>5, <1>10 DEF Sound
<1>12. Durable'
  BY <1>9, <1>11 DEF Durable, Quiet
<1> QED BY <1>7, <1>8, <1>12, QuietReads

\* The manifest of the flush is written: its watermark covers every segment.
LEMMA ReadsRecoverFlushSave ==
  ASSUME Inv, Inv', [Next]_vars, Clean, Clean', Numbers, LoggedActive, Durable, RecoverFlushSave,
         status' = "recovering", Quiet'
  PROVE  Reads'
<1>1. PICK n, f : n = nextSeg /\ f = flushedSeg
  OBVIOUS
<1>2. /\ rpc = "flushSave" /\ manifest' = CurrentManifest /\ rpc' = "cleanup" /\ hw' = Max({hw, flushedSeg})
      /\ UNCHANGED <<walFiles, sstFiles, memtable, activeSeg, l0, l1, flushedSeg, nextSeg, allowed>>
  BY DEF RecoverFlushSave, OpenFails, mem, lsm
<1>3. /\ n \in Nat /\ f \in Nat /\ hw \in Nat /\ activeSeg \in Nat /\ DOMAIN walFiles \subseteq Nat
      /\ manifest'.next = n /\ manifest'.flushed = f /\ manifest'.l0 = l0 /\ manifest'.l1 = l1
      /\ flushedSeg' = f /\ nextSeg' = n
  BY <1>1, <1>2, NumberTypes DEF CurrentManifest
<1>4. /\ hw' \in {hw, f} /\ hw' >= hw /\ hw' >= f /\ hw' \in Nat
  BY <1>1, <1>2, NumberTypes, MaxOfTwo
<1>5. /\ Restored /\ Numbered(n, f) /\ activeSeg > f /\ activeSeg > hw
      /\ \A s \in DOMAIN walFiles : s <= activeSeg
      /\ Sound(l0, l1, flushedSeg)
  BY <1>1, <1>2, Recovering
<1>6. \A s \in DOMAIN walFiles : s <= f
  BY <1>1, <1>2 DEF Inv, Disk
<1>7. Numbers'
  <2>1. Numbered(manifest.next, manifest.flushed)' /\ Numbered(nextSeg, flushedSeg)'
    BY <1>2, <1>3, <1>4, <1>5 DEF Numbered
  <2>2. \A s \in DOMAIN walFiles' : s <= activeSeg' /\ (s > flushedSeg' => s > hw')
    BY <1>2, <1>3, <1>5, <1>6
  <2>3. activeSeg' > flushedSeg' /\ activeSeg' > hw' /\ manifest'.flushed <= flushedSeg' /\ flushedSeg' <= hw'
    BY <1>2, <1>3, <1>4, <1>5
  <2> QED BY <2>1, <2>2, <2>3, NumbersRecovering
<1>8. Restored'
  BY <1>2, <1>5 DEF Restored, Above
<1>9. Sound(l0, l1, flushedSeg)'
  BY <1>2, <1>5, SoundFlushed
<1>10. Sound(manifest.l0, manifest.l1, manifest.flushed)'
  BY <1>2, <1>3, <1>9 DEF Sound, Recovered, Found, Above
<1>11. Durable'
  BY <1>9, <1>10 DEF Durable, Quiet
<1> QED BY <1>7, <1>8, <1>11, QuietReads

\* The other steps change no level, no watermark, no memtable and no record
\* above the watermark.
LEMMA ReadsRecoverOther ==
  ASSUME Inv, Inv', [Next]_vars, Clean, Clean', Numbers, LoggedActive, Durable, Quiet', Numbers',
         rpc \notin {"none", "flushSave"},
         UNCHANGED <<sstFiles, memtable, l0, l1, flushedSeg, allowed, hw>>,
         manifest'.l0 = manifest.l0, manifest'.l1 = manifest.l1, manifest'.flushed = manifest.flushed,
         \A s \in Nat, k \in Keys : s > flushedSeg \/ s > hw => SameRecord(s, k)
  PROVE  Reads'
<1>1. /\ Restored /\ flushedSeg \in Nat /\ IsFiles(walFiles) /\ IsFiles(walFiles)'
  BY Recovering, NumberTypes DEF Inv, TypeInv, TypeData
<1>2. Restored'
  <2>1. PICK f : f = flushedSeg
    OBVIOUS
  <2>2. ASSUME NEW k \in Keys PROVE memtable'[k] = Above(f, k)'
    <3>1. f \in Nat /\ \A s \in Nat : s > f => SameRecord(s, k)
      BY <1>1, <2>1
    <3>2. Above(f, k)' = Above(f, k)
      BY <1>1, <3>1, AboveKept
    <3> QED BY <1>1, <2>1, <3>2 DEF Restored
  <2> QED BY <2>1, <2>2 DEF Restored, Above
<1>3. Sound(manifest.l0, manifest.l1, manifest.flushed)'
  <2>1. \A k \in Keys : Recovered(manifest.l0, manifest.l1, manifest.flushed, k) \in allowed'[k]
    BY DEF Durable, Sound
  <2>2. \A s \in Nat, k \in Keys : s > hw => SameRecord(s, k)
    OBVIOUS
  <2> QED BY <2>1, <2>2, ManifestStays
<1>4. l0' = manifest'.l0 /\ l1' = manifest'.l1 /\ flushedSeg' = manifest'.flushed
  BY DEF Inv, Disk
<1>5. Sound(l0, l1, flushedSeg)'
  BY <1>3, <1>4 DEF Sound, Recovered, Found, Above
<1>6. Durable'
  BY <1>3, <1>5 DEF Durable, Quiet
<1> QED BY <1>2, <1>6, QuietReads

\* The segments that the watermark covers are removed.
LEMMA ReadsRecoverCleanup ==
  ASSUME Inv, Inv', [Next]_vars, Clean, Clean', Numbers, LoggedActive, Durable, RecoverCleanup, Quiet'
  PROVE  Reads'
<1>1. /\ rpc = "cleanup" /\ rpc' = "create"
      /\ UNCHANGED <<manifest, sstFiles, memtable, activeSeg, l0, l1, flushedSeg, nextSeg, allowed, hw>>
  BY DEF RecoverCleanup, mem, lsm, history
<1>2. PICK gone \in SUBSET {s \in DOMAIN walFiles : s <= flushedSeg} : walFiles' = Without(walFiles, gone)
  BY DEF RecoverCleanup
<1>3. DOMAIN walFiles' = DOMAIN walFiles \ gone
  BY <1>2, WithoutFiles
<1>4. /\ hw \in Nat /\ flushedSeg \in Nat /\ DOMAIN walFiles \subseteq Nat /\ flushedSeg <= hw
  BY <1>1, NumberTypes DEF Numbers, RemovableNumbers
<1>5. /\ Numbered(nextSeg, flushedSeg) /\ manifest.flushed <= flushedSeg
      /\ activeSeg > flushedSeg /\ activeSeg > hw
      /\ \A s \in DOMAIN walFiles : s <= activeSeg /\ (s > flushedSeg => s > hw)
  BY <1>1, Recovering
<1>6. \A s \in DOMAIN walFiles : s > hw => s \in DOMAIN walFiles'
  BY <1>3, <1>4
<1>7. Numbers'
  <2>1. Numbered(manifest.next, manifest.flushed)
    BY DEF Numbers, DiskNumbers
  <2>2. Numbered(manifest.next, manifest.flushed)' /\ Numbered(nextSeg, flushedSeg)'
    BY <1>1, <1>5, <1>6, <2>1 DEF Numbered
  <2>3. \A s \in DOMAIN walFiles' : s <= activeSeg' /\ (s > flushedSeg' => s > hw')
    BY <1>1, <1>3, <1>5
  <2>4. activeSeg' > flushedSeg' /\ activeSeg' > hw' /\ manifest'.flushed <= flushedSeg' /\ rpc' # "cleanup"
    BY <1>1, <1>5
  <2> QED BY <2>2, <2>3, <2>4, NumbersRecovering
<1>8. \A s \in Nat, k \in Keys : s > flushedSeg \/ s > hw => SameRecord(s, k)
  <2> SUFFICES ASSUME NEW s \in Nat, NEW k \in Keys, s > flushedSeg \/ s > hw PROVE SameRecord(s, k)
    OBVIOUS
  <2>1. s \notin gone
    BY <1>4
  <2> QED BY <1>2, <2>1, RecordWithout
<1>9. rpc \notin {"none", "flushSave"}
  BY <1>1
<1> QED BY <1>1, <1>7, <1>8, <1>9, ReadsRecoverOther

\* A new segment ID is taken: every segment is covered.
LEMMA ReadsRecoverNewSegment ==
  ASSUME Inv, Inv', [Next]_vars, Clean, Clean', Numbers, LoggedActive, Durable, RecoverNewSegment,
         status' = "recovering", Quiet'
  PROVE  Reads'
<1>1. /\ rpc = "newseg" /\ rpc' = "create" /\ activeSeg' = nextSeg /\ nextSeg' = nextSeg + 1
      /\ manifest' = [CurrentManifest EXCEPT !.next = nextSeg + 1]
      /\ UNCHANGED <<walFiles, sstFiles, memtable, l0, l1, flushedSeg, allowed, hw>>
  BY DEF RecoverNewSegment, OpenFails, lsm, history
<1>2. /\ l0 = manifest.l0 /\ l1 = manifest.l1 /\ flushedSeg = manifest.flushed
      /\ \A s \in DOMAIN walFiles : s <= flushedSeg
  BY <1>1 DEF Inv, Disk
<1>3. /\ manifest'.next = nextSeg + 1
      /\ manifest'.l0 = manifest.l0 /\ manifest'.l1 = manifest.l1 /\ manifest'.flushed = manifest.flushed
  BY <1>1, <1>2 DEF CurrentManifest
<1>4. /\ hw \in Nat /\ flushedSeg \in Nat /\ nextSeg \in Nat /\ DOMAIN walFiles \subseteq Nat
  BY NumberTypes
<1>5. Numbered(nextSeg, flushedSeg)
  BY <1>1, Recovering
<1>6. Numbers'
  <2>1. Numbered(manifest.next, manifest.flushed)' /\ Numbered(nextSeg, flushedSeg)'
    BY <1>1, <1>2, <1>3, <1>4, <1>5 DEF Numbered
  <2>2. \A s \in DOMAIN walFiles' : s <= activeSeg' /\ (s > flushedSeg' => s > hw')
    BY <1>1, <1>2, <1>4, <1>5 DEF Numbered
  <2>3. activeSeg' > flushedSeg' /\ activeSeg' > hw' /\ manifest'.flushed <= flushedSeg' /\ rpc' # "cleanup"
    BY <1>1, <1>2, <1>3, <1>4, <1>5 DEF Numbered
  <2> QED BY <2>1, <2>2, <2>3, NumbersRecovering
<1>7. \A s \in Nat, k \in Keys : s > flushedSeg \/ s > hw => SameRecord(s, k)
  BY <1>1 DEF SameRecord
<1>8. rpc \notin {"none", "flushSave"}
  BY <1>1
<1> QED BY <1>1, <1>3, <1>6, <1>7, <1>8, ReadsRecoverOther

\* The active segment is created, empty, or reopened.
LEMMA ReadsRecoverCreate ==
  ASSUME Inv, Inv', [Next]_vars, Clean, Clean', Numbers, LoggedActive, Durable, RecoverCreate,
         status' \in {"recovering", "open"}, Quiet'
  PROVE  Reads'
<1>1. /\ rpc = "create" /\ rpc' \in {"none", "resume"}
      /\ walFiles' = IF activeSeg \in DOMAIN walFiles THEN walFiles ELSE Set(walFiles, activeSeg, Empty)
      /\ nextSeg' \in {nextSeg, activeSeg + 1}
      /\ UNCHANGED <<manifest, sstFiles, memtable, activeSeg, l0, l1, flushedSeg, allowed, hw>>
  BY DEF RecoverCreate, OpenFails, lsm, history
<1>2. /\ hw \in Nat /\ flushedSeg \in Nat /\ nextSeg \in Nat /\ activeSeg \in Nat /\ DOMAIN walFiles \subseteq Nat
  BY NumberTypes
<1>3. /\ Numbered(nextSeg, flushedSeg) /\ manifest.flushed <= flushedSeg
      /\ activeSeg > flushedSeg /\ activeSeg > hw
      /\ \A s \in DOMAIN walFiles : s <= activeSeg /\ (s > flushedSeg => s > hw)
  BY <1>1, Recovering
<1>4. DOMAIN walFiles' = DOMAIN walFiles \cup {activeSeg}
  BY <1>1, CreateFile
<1>5. Numbers'
  <2>1. Numbered(manifest.next, manifest.flushed)
    BY DEF Numbers, DiskNumbers
  <2>2. nextSeg' > hw /\ nextSeg' > flushedSeg
    BY <1>1, <1>2, <1>3 DEF Numbered
  <2>3. Numbered(manifest.next, manifest.flushed)' /\ Numbered(nextSeg, flushedSeg)'
    BY <1>1, <1>3, <1>4, <2>1, <2>2 DEF Numbered
  <2>4. \A s \in DOMAIN walFiles' : s <= activeSeg' /\ (s > flushedSeg' => s > hw')
    BY <1>1, <1>2, <1>3, <1>4
  <2>5. activeSeg' > flushedSeg' /\ activeSeg' > hw' /\ manifest'.flushed <= flushedSeg' /\ rpc' # "cleanup"
    BY <1>1, <1>3
  <2> QED BY <2>3, <2>4, <2>5, NumbersRecovering
<1>6. \A s \in Nat, k \in Keys : s > flushedSeg \/ s > hw => SameRecord(s, k)
  <2> TAKE s \in Nat, k \in Keys
  <2>1. CASE activeSeg \in DOMAIN walFiles
    BY <1>1, <2>1 DEF SameRecord
  <2>2. CASE activeSeg \notin DOMAIN walFiles
    <3>1. walFiles' = Set(walFiles, activeSeg, Empty) /\ Empty[k] = None
      BY <1>1, <2>2 DEF Empty
    <3>2. SameRecord(s, k)
      BY <2>2, <3>1, RecordSet
    <3> QED BY <3>2
  <2> QED BY <2>1, <2>2
<1>7. rpc \notin {"none", "flushSave"}
  BY <1>1
<1> QED BY <1>1, <1>5, <1>6, <1>7, ReadsRecoverOther

\* The manifest gets the new NextSegmentID.
LEMMA ReadsRecoverResume ==
  ASSUME Inv, Inv', [Next]_vars, Clean, Clean', Numbers, LoggedActive, Durable, RecoverResume,
         status' = "open", Quiet'
  PROVE  Reads'
<1>1. /\ rpc = "resume" /\ rpc' = "none" /\ manifest' = CurrentManifest
      /\ UNCHANGED <<walFiles, sstFiles, memtable, activeSeg, l0, l1, flushedSeg, nextSeg, allowed, hw>>
  BY DEF RecoverResume, OpenFails, mem, lsm, history
<1>2. /\ l0 = manifest.l0 /\ l1 = manifest.l1 /\ flushedSeg = manifest.flushed
  BY <1>1 DEF Inv, Disk
<1>3. /\ manifest'.next = nextSeg
      /\ manifest'.l0 = manifest.l0 /\ manifest'.l1 = manifest.l1 /\ manifest'.flushed = manifest.flushed
  BY <1>1, <1>2 DEF CurrentManifest
<1>4. /\ Numbered(nextSeg, flushedSeg) /\ manifest.flushed <= flushedSeg
      /\ activeSeg > flushedSeg /\ activeSeg > hw
      /\ \A s \in DOMAIN walFiles : s <= activeSeg /\ (s > flushedSeg => s > hw)
  BY <1>1, Recovering
<1>5. Numbers'
  <2>1. Numbered(manifest.next, manifest.flushed)' /\ Numbered(nextSeg, flushedSeg)'
    BY <1>1, <1>2, <1>3, <1>4 DEF Numbered
  <2>2. \A s \in DOMAIN walFiles' : s <= activeSeg' /\ (s > flushedSeg' => s > hw')
    BY <1>1, <1>4
  <2>3. activeSeg' > flushedSeg' /\ activeSeg' > hw' /\ manifest'.flushed <= flushedSeg' /\ rpc' # "cleanup"
    BY <1>1, <1>3, <1>4
  <2> QED BY <2>1, <2>2, <2>3, NumbersRecovering
<1>6. \A s \in Nat, k \in Keys : s > flushedSeg \/ s > hw => SameRecord(s, k)
  BY <1>1 DEF SameRecord
<1>7. rpc \notin {"none", "flushSave"}
  BY <1>1
<1> QED BY <1>1, <1>3, <1>5, <1>6, <1>7, ReadsRecoverOther

\* The steps of a stopped or recovering engine keep what a read answers.
LEMMA ReadsRecovery ==
  ASSUME Inv, Inv', [Next]_vars, ~(Running /\ Running'), ~UNCHANGED vars, Clean, Clean', Reads
  PROVE  Reads'
<1>1. Numbers /\ LoggedActive /\ Durable
  BY DEF Reads
<1>2. Quiet'
  BY QuietRecovery
<1>3. CASE status' \in {"down", "failed"}
  BY <1>1, <1>3, ReadsStopped
<1>4. CASE Open /\ status' = "recovering"
  BY <1>1, <1>2, <1>4, ReadsOpen
<1>5. CASE RecoverFlush /\ status' = "recovering"
  BY <1>1, <1>2, <1>5, ReadsRecoverFlush
<1>6. CASE RecoverFlushSave /\ status' = "recovering"
  BY <1>1, <1>2, <1>6, ReadsRecoverFlushSave
<1>7. CASE RecoverCleanup
  BY <1>1, <1>2, <1>7, ReadsRecoverCleanup
<1>8. CASE RecoverNewSegment /\ status' = "recovering"
  BY <1>1, <1>2, <1>8, ReadsRecoverNewSegment
<1>9. CASE RecoverCreate /\ status' \in {"recovering", "open"}
  BY <1>1, <1>2, <1>9, ReadsRecoverCreate
<1>10. CASE RecoverResume /\ status' = "open"
  BY <1>1, <1>2, <1>10, ReadsRecoverResume
<1> QED BY <1>3, <1>4, <1>5, <1>6, <1>7, <1>8, <1>9, <1>10, Phases

\* An empty database: nothing is written, and nothing is what a read may find.
LEMMA ReadsInit == Init => Reads
<1> SUFFICES ASSUME Init PROVE Reads
  OBVIOUS
<1>1. /\ manifest = InitialManifest /\ DOMAIN walFiles = {} /\ DOMAIN sstFiles = {}
      /\ status = "down" /\ allowed = [k \in Keys |-> {None}] /\ hw = 0 /\ Volatile
  BY DEF Init
<1>2. /\ manifest.next = 1 /\ manifest.flushed = 0 /\ manifest.l0 = <<>> /\ manifest.l1 = <<>>
  BY <1>1 DEF InitialManifest
<1>3. /\ imm = <<>> /\ manifestMu = "free" /\ wpc = "idle" /\ fpc = "idle" /\ cpc = "idle" /\ rpc = "none"
      /\ ~Live /\ ~Serving
  BY <1>1 DEF Volatile, Live, Serving
<1>4. Numbers
  BY <1>1, <1>2, <1>3 DEF Numbers, DiskNumbers, LiveNumbers, PendingNumbers, RemovableNumbers, Numbered
<1>5. LoggedQueue /\ LoggedActive /\ FlushedTable /\ Merging /\ Answers
  BY <1>3 DEF LoggedQueue, LoggedActive, FlushedTable, Merging, Answers
<1>6. ASSUME NEW k \in Keys
      PROVE  Recovered(<<>>, <<>>, 0, k) = None
  <2>1. Above(0, k) = None
    <3>1. \A s \in DOMAIN walFiles : ~(s > 0)
      BY <1>1
    <3> QED BY <3>1, AboveNothing
  <2>2. SearchLevels(sstFiles, <<>>, <<>>, k) = None
    BY DEF SearchLevels, FirstEntry, TablesOf, SearchLevel1
  <2>3. Answer(None) = None
    BY TablesAssumption DEF Answer
  <2> QED BY <1>1, <2>1, <2>2, <2>3 DEF Recovered, Found
<1>7. Sound(manifest.l0, manifest.l1, manifest.flushed)
  BY <1>1, <1>2, <1>6 DEF Sound
<1>8. Durable
  BY <1>3, <1>7 DEF Durable
<1> QED BY <1>4, <1>5, <1>8 DEF Reads

\* Every step keeps the invariant.
LEMMA ReadsNext == Inv /\ Reads /\ [Next]_vars => Reads'
<1> SUFFICES ASSUME Inv, Reads, [Next]_vars PROVE Reads'
  OBVIOUS
<1>1. Inv'
  BY InvNext
<1>2. CASE ~Clean'
  BY <1>2 DEF Reads
<1>3. CASE Clean'
  <2>1. Clean
    BY <1>3, ExposedGrows DEF Clean
  <2>2. CASE Running /\ Running'
    <3>1. /\ Numbers /\ LoggedQueue /\ LoggedActive /\ FlushedTable /\ Merging /\ Durable /\ Answers
      BY <2>1 DEF Reads
    <3>2. Numbers' /\ LoggedQueue' /\ LoggedActive'
      BY <1>1, <1>3, <2>2, <3>1, NumbersRunning, LoggedQueueRunning, LoggedActiveRunning
    <3>3. FlushedTable' /\ Merging'
      BY <1>1, <1>3, <2>1, <2>2, <3>1, FlushedTableRunning, MergingRunning
    <3>4. Durable'
      BY <1>1, <1>3, <2>1, <2>2, <3>1, <3>2, <3>3, DurableRunning
    <3>5. Answers'
      BY <1>1, <1>3, <2>1, <2>2, <3>1, AnswersRunning
    <3> QED BY <3>2, <3>3, <3>4, <3>5 DEF Reads
  <2>3. CASE UNCHANGED vars
    <3>1. /\ UNCHANGED <<manifest, walFiles, sstFiles, status, memtable, activeSeg, imm, l0, l1, flushedSeg, nextSeg>>
          /\ UNCHANGED <<bgErr, manifestMu, pending, wpc, batch, fpc, cpc, cinputs, couts, kpc, rpc, allowed, hw>>
      BY <2>3 DEF vars, disk, mem, lsm, mutex, writer, compact, history
    <3>2. /\ Numbers /\ LoggedQueue /\ LoggedActive /\ FlushedTable /\ Merging /\ Durable /\ Answers
      BY <2>1 DEF Reads
    <3>3. Numbers'
      BY <3>1, <3>2 DEF Numbers, DiskNumbers, LiveNumbers, PendingNumbers, RemovableNumbers, Numbered, Live, Drained
    <3>4. LoggedQueue'
      BY <3>1, <3>2 DEF LoggedQueue, Floor, Between
    <3>5. LoggedActive'
      BY <3>1, <3>2, Zenon DEF LoggedActive, ActiveEntry, Floor, Above, Live
    <3>6. FlushedTable' /\ Merging'
      BY <3>1, <3>2 DEF FlushedTable, Merging, Inputs
    <3>7. Durable'
      BY <3>1, <3>2 DEF Durable, Sound, Recovered, Found, Above, Live
    <3>8. Answers'
      BY <3>1, <3>2 DEF Answers, Serving, Get
    <3> QED BY <3>3, <3>4, <3>5, <3>6, <3>7, <3>8 DEF Reads
  <2>4. CASE ~(Running /\ Running') /\ ~UNCHANGED vars
    BY <1>1, <1>3, <2>1, <2>4, ReadsRecovery
  <2> QED BY <2>2, <2>3, <2>4
<1> QED BY <1>2, <1>3

\* ReadsAreAcknowledged: through any interleaving of writes, rotation, flush,
\* compaction, failing I/O, crash and recovery that has met none of the six
\* known weaknesses, Get answers with the last acknowledged write of the key
\* or with a later one that failed in doubt.
THEOREM ReadsAcknowledged == Spec => []ReadsAreAcknowledged
<1>1. Inv /\ Reads => ReadsAreAcknowledged
  BY DEF Reads, Answers, Clean, ReadsAreAcknowledged
<1>2. Spec => []Reads
  BY InvHolds, ReadsInit, ReadsNext, PTL DEF Spec
<1> QED BY <1>1, <1>2, InvHolds, PTL
===============================================================================
