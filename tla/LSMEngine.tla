------------------------------ MODULE LSMEngine ------------------------------
(****************************************************************************)
(* The storage engine of PenguinDB (internal/storage/engine.go, workers.go, *)
(* the rotation in snapshot.go): one foreground writer (writeMu serialises  *)
(* WriteBatch and Snapshot), the flush worker, the compaction worker, Close *)
(* and the recovery in NewEngine, over a disk that holds the manifest, the  *)
(* WAL segments and the SSTables.                                           *)
(*                                                                          *)
(* A step is the code between two points where engine.mu is released, or    *)
(* one disk operation made without it.  A batch is a table: the operations  *)
(* of one WriteBatch, on distinct keys.                                     *)
(****************************************************************************)
EXTENDS LSMTables

CONSTANTS
  MaxMemTableSize,     \* Options.MaxMemTableSize
  MaxImmMemtables,     \* Options.MaxImmMemtables
  CompactionThreshold, \* Options.CompactionThreshold
  Faults,              \* which I/O calls may fail
  MaxBatchKeys,        \* bound: keys in one batch
  MaxWrites,           \* bound: calls of WriteBatch
  MaxOpens,            \* bound: calls of NewEngine
  MaxRolls,            \* bound: segments that one LogWriter opens by itself
  MaxFaults            \* bound: failing I/O calls

FaultKinds == {"wal_close", "wal_create", "wal_append", "wal_remove", "sst_write",
               "merge", "manifest_write", "manifest_sync"}

ASSUME EngineAssumption ==
  /\ MaxMemTableSize \in Nat /\ MaxImmMemtables \in Nat
  /\ CompactionThreshold \in Nat \ {0}
  /\ Faults \subseteq FaultKinds
  /\ MaxBatchKeys \in Nat /\ MaxWrites \in Nat /\ MaxOpens \in Nat
  /\ MaxRolls \in Nat /\ MaxFaults \in Nat

VARIABLES
  \* disk
  manifest,     \* manifest.json: [next, l0, l1, flushed]
  walFiles,     \* segment ID -> table of the records in NNNNNN.wal
  sstFiles,     \* file ID -> table of the entries in NNNNNN.sst
  \* dbEngine
  status,       \* down, recovering, open, closed; failed: NewEngine cannot open
  memtable,
  activeSeg,    \* activeWALSegmentID
  wal,          \* engine.wal # nil
  rolled,       \* currentSegmentID of that LogWriter, from activeSeg on
  imm,          \* immMemtables with immWALSegmentIDs, oldest first
  l0, l1,       \* levels[0] newest first, levels[1] in key order
  flushedSeg,   \* flushedSegmentID
  nextSeg,      \* nextSegmentID
  bgErr,        \* engine.bgErr # nil
  isClosing,
  flushChan, compactChan,   \* whether the capacity-1 channel holds a token
  stopChan,                 \* flushCloseChan and compactCloseChan are closed
  manifestMu,               \* who holds manifestMu
  pending,                  \* the Manifest that its holder has built
  \* goroutines
  wpc, wop, batch,          \* foreground writer: step, call, operations
  fpc,                      \* flushWorker
  cpc, cinputs, cseg, couts,\* compactionWorker: step, input IDs, first output ID, output IDs
  kpc,                      \* Close
  rpc,                      \* NewEngine
  \* history
  allowed,      \* key -> the answers that a Get may give
  hw,           \* highest WAL segment that a durable manifest covers by an SSTable
  exposed,      \* which known weaknesses this behaviour has met
  writes, opens, faults

disk     == <<manifest, walFiles, sstFiles>>
mem      == <<memtable, activeSeg, wal, rolled, imm>>
lsm      == <<l0, l1, flushedSeg>>
chans    == <<flushChan, compactChan, stopChan>>
mutex    == <<manifestMu, pending>>
writer   == <<wpc, wop, batch>>
compact  == <<cpc, cinputs, cseg, couts>>
history  == <<allowed, hw, exposed>>
bounds   == <<writes, opens, faults>>
vars == <<disk, status, mem, lsm, nextSeg, bgErr, isClosing, chans, mutex, writer,
          fpc, compact, kpc, rpc, history, bounds>>

Exposures == {"merge_order", "stale_replay", "file_collision", "watermark", "dangling",
              "wal_rotation"}
Manifests == [next : Nat, l0 : Seq(Nat), l1 : Seq(Nat), flushed : Nat]
NoManifest == [next |-> 0, l0 |-> <<>>, l1 |-> <<>>, flushed |-> 0]

\* newManifest
InitialManifest == [next |-> 1, l0 |-> <<>>, l1 |-> <<>>, flushed |-> 0]

Set(f, id, t) == [x \in DOMAIN f \cup {id} |-> IF x = id THEN t ELSE f[x]]
Without(f, ids) == Restrict(f, DOMAIN f \ ids)

\* dbEngine.Get: active memtable, immutable memtables newest first, levels.
\* It reads all of them under one RLock.
Get(k) ==
  LET queued == FirstEntry([i \in DOMAIN imm |-> imm[Len(imm) + 1 - i].data], k)
  IN  Answer(IF memtable[k] # None THEN memtable[k]
             ELSE IF queued # None THEN queued
             ELSE SearchLevels(sstFiles, l0, l1, k))

\* The call fails; every failure counts against MaxFaults.
Fault(kind) == kind \in Faults /\ faults < MaxFaults /\ faults' = faults + 1

\* writeManifest(m) fails: before the rename the old manifest stays, in the
\* SyncDir after it the new one is already in place.
ManifestFails(m) ==
  \/ Fault("manifest_write") /\ manifest' = manifest
  \/ Fault("manifest_sync") /\ manifest' = m

Expose(kinds) == exposed' = exposed \cup kinds
Collision(ids) == IF ids \cap DOMAIN sstFiles # {} THEN {"file_collision"} ELSE {}

------------------------------------------------------------------------------
(* Foreground: WriteBatch, and the rotation that it shares with Snapshot *)

Batches == {b \in Tables : Cardinality(KeysOf(b)) \in 1..MaxBatchKeys /\ Size(b) <= MaxMemTableSize}

\* The checks before writeMu; the engine refuses after Close or a background error.
WriteBatch ==
  /\ status = "open" /\ wpc = "idle" /\ writes < MaxWrites
  /\ ~isClosing /\ ~bgErr
  /\ \E b \in Batches : batch' = b
  /\ wpc' = "check" /\ wop' = "write" /\ writes' = writes + 1
  /\ UNCHANGED <<disk, status, mem, lsm, nextSeg, bgErr, isClosing, chans, mutex, fpc,
                 compact, kpc, rpc, history, opens, faults>>

\* The loop of WriteBatch returns: context done, background error or closing.
WriteRefused ==
  /\ wpc = "check"
  /\ wpc' = "idle" /\ batch' = Empty /\ UNCHANGED wop
  /\ UNCHANGED <<disk, status, mem, lsm, nextSeg, bgErr, isClosing, chans, mutex, fpc,
                 compact, kpc, rpc, history, bounds>>

FreezeActiveMemTable ==
  /\ imm' = Append(imm, [seg |-> activeSeg, data |-> memtable])
  /\ wal' = FALSE
  /\ activeSeg' = nextSeg /\ rolled' = 0
  /\ nextSeg' = nextSeg + 1
  /\ memtable' = Empty

MutOverflows == Size(memtable) >= MaxMemTableSize
Overflows == Size(memtable) + Size(batch) > MaxMemTableSize

\* The batch does not fit and the queue has room (a full queue is the write stall).
WriteFreeze ==
  /\ wpc = "check" /\ ~bgErr /\ ~isClosing
  /\ Overflows /\ Len(imm) < MaxImmMemtables
  /\ FreezeActiveMemTable
  /\ wpc' = "rotate" /\ UNCHANGED <<wop, batch>>
  /\ UNCHANGED <<disk, status, lsm, bgErr, isClosing, chans, mutex, fpc, compact, kpc,
                 rpc, history, bounds>>

\* Snapshot takes writeMu and rotates a non-empty memtable, whatever the queue holds.
SnapshotFreeze ==
  /\ status = "open" /\ wpc = "idle" /\ ~bgErr /\ ~isClosing
  /\ Size(memtable) > 0
  /\ FreezeActiveMemTable
  /\ wpc' = "rotate" /\ wop' = "snapshot" /\ UNCHANGED batch
  /\ UNCHANGED <<disk, status, lsm, bgErr, isClosing, chans, mutex, fpc, compact, kpc,
                 rpc, history, bounds>>

\* commitRotation: close the old segment, create the new one.
RotateWAL ==
  /\ wpc = "rotate"
  /\ \/ /\ walFiles' = IF activeSeg \in DOMAIN walFiles THEN walFiles
                       ELSE Set(walFiles, activeSeg, Empty)
        /\ wpc' = "build" /\ UNCHANGED <<wal, bgErr, batch, faults>>
     \/ /\ Fault("wal_close")
        /\ bgErr' = TRUE /\ wal' = TRUE /\ wpc' = "idle" /\ batch' = Empty
        /\ UNCHANGED walFiles
     \/ /\ Fault("wal_create")
        /\ bgErr' = TRUE /\ wpc' = "idle" /\ batch' = Empty
        /\ UNCHANGED <<walFiles, wal>>
  /\ UNCHANGED <<manifest, sstFiles, status, memtable, activeSeg, rolled, imm, lsm, nextSeg,
                 isClosing, chans, mutex, wop, fpc, compact, kpc, rpc, history, writes, opens>>

\* The manifest of commitRotation leaves FlushedSegmentID at its zero value.
MutRotationManifest == [next |-> nextSeg, l0 |-> l0, l1 |-> l1, flushed |-> activeSeg]
RotationManifest == [next |-> nextSeg, l0 |-> l0, l1 |-> l1, flushed |-> 0]

\* commitRotation: install the new writer and build the manifest.
RotateBuild ==
  /\ wpc = "build" /\ manifestMu = "free"
  /\ manifestMu' = "writer" /\ wal' = TRUE
  /\ pending' = RotationManifest
  /\ wpc' = "save"
  /\ UNCHANGED <<disk, status, memtable, activeSeg, rolled, imm, lsm, nextSeg, bgErr, isClosing,
                 chans, wop, batch, fpc, compact, kpc, rpc, history, bounds>>

\* commitRotation: write the manifest and signal the flush worker.
RotateSave ==
  /\ wpc = "save"
  /\ manifestMu' = "free" /\ pending' = NoManifest
  /\ \/ /\ manifest' = pending /\ flushChan' = TRUE
        /\ wpc' = (IF wop = "write" THEN "check" ELSE "idle")
        /\ UNCHANGED <<bgErr, batch, faults>>
     \/ /\ ManifestFails(pending)
        /\ bgErr' = TRUE /\ wpc' = "idle" /\ batch' = Empty
        /\ UNCHANGED flushChan
  /\ UNCHANGED <<walFiles, sstFiles, status, mem, lsm, nextSeg, isClosing, compactChan,
                 stopChan, wop, fpc, compact, kpc, rpc, history, writes, opens>>

\* What a segment holds; the LogWriter opens it with O_CREATE and O_APPEND.
Logged(seg) == IF seg \in DOMAIN walFiles THEN walFiles[seg] ELSE Empty

\* The LogWriter syncs records into its segment.  If they no longer fit (sizes in
\* bytes are not modelled) it first moves on by itself to the next ID, which the
\* engine does not know of and hands out as well.
Log(records) ==
  \E r \in {rolled, rolled + 1} \cap 0..MaxRolls :
    /\ rolled' = r
    /\ walFiles' = Set(walFiles, activeSeg + r, Overlay(records, Logged(activeSeg + r)))
    /\ Expose(IF r = rolled THEN {} ELSE {"wal_rotation"})

\* AppendBatch syncs the records of the batch into the log.
WALAppend ==
  /\ wpc = "check" /\ ~bgErr /\ ~isClosing /\ ~Overflows /\ wal
  /\ Log(batch)
  /\ wpc' = "apply" /\ UNCHANGED <<wop, batch>>
  /\ allowed' = [k \in Keys |-> allowed[k] \cup {Answer(e) : e \in {batch[k]} \ {None}}]
  /\ UNCHANGED <<manifest, sstFiles, status, memtable, activeSeg, wal, imm, lsm, nextSeg, bgErr,
                 isClosing, chans, mutex, fpc, compact, kpc, rpc, hw, bounds>>

\* AppendBatch fails, or the process is about to be killed in it: some of the
\* records may have reached the segment.
WALAppendFails ==
  /\ wpc = "check" /\ ~bgErr /\ ~isClosing /\ ~Overflows /\ wal
  /\ Fault("wal_append")
  /\ \E ks \in SUBSET KeysOf(batch) : Log([k \in Keys |-> IF k \in ks THEN batch[k] ELSE None])
  /\ allowed' = [k \in Keys |-> allowed[k] \cup {Answer(e) : e \in {batch[k]} \ {None}}]
  /\ bgErr' = TRUE /\ wpc' = "idle" /\ batch' = Empty /\ UNCHANGED wop
  /\ UNCHANGED <<manifest, sstFiles, status, memtable, activeSeg, wal, imm, lsm, nextSeg, isClosing,
                 chans, mutex, fpc, compact, kpc, rpc, hw, writes, opens>>

\* The batch is applied to the memtable and WriteBatch returns nil, unless a
\* background error came in while engine.mu was released.
WriteApply ==
  /\ wpc = "apply"
  /\ \/ /\ ~bgErr
        /\ memtable' = Overlay(batch, memtable)
        /\ allowed' = [k \in Keys |-> IF batch[k] = None THEN allowed[k] ELSE {Answer(batch[k])}]
     \/ bgErr /\ UNCHANGED <<memtable, allowed>>
  /\ wpc' = "idle" /\ batch' = Empty /\ UNCHANGED wop
  /\ UNCHANGED <<disk, status, activeSeg, wal, rolled, imm, lsm, nextSeg, bgErr, isClosing, chans,
                 mutex, fpc, compact, kpc, rpc, hw, exposed, bounds>>
------------------------------------------------------------------------------
(* flushWorker *)

\* The select: a token, or the closed flushCloseChan; then nextFlushWork.
FlushWake ==
  /\ fpc = "idle" /\ status = "open"
  /\ \/ flushChan /\ flushChan' = FALSE
     \/ stopChan /\ UNCHANGED flushChan
  /\ fpc' = (IF imm # <<>> THEN "write" ELSE IF isClosing THEN "exit" ELSE "idle")
  /\ UNCHANGED <<disk, status, mem, lsm, nextSeg, bgErr, isClosing, compactChan, stopChan,
                 mutex, writer, compact, kpc, rpc, history, bounds>>

\* writeMemTableToSSTable; a failed flush removes the file and ends the worker.
FlushWrite ==
  /\ fpc = "write"
  /\ LET id == Head(imm).seg IN
     \/ /\ sstFiles' = Set(sstFiles, id, Head(imm).data)
        /\ Expose(Collision({id}))
        /\ fpc' = "register" /\ UNCHANGED <<bgErr, faults>>
     \/ /\ Fault("sst_write")
        /\ sstFiles' = Without(sstFiles, {id})
        /\ Expose(Collision({id}))
        /\ bgErr' = TRUE /\ fpc' = "exit"
  /\ UNCHANGED <<manifest, walFiles, status, mem, lsm, nextSeg, isClosing, chans, mutex,
                 writer, compact, kpc, rpc, allowed, hw, writes, opens>>

\* The new file is prepended to Level 0.
MutWithFlushed(id) == l0 \o <<id>>
WithFlushed(id) == <<id>> \o l0

\* registerFlushedSSTable, under manifestMu and mu.
FlushRegister ==
  /\ fpc = "register" /\ manifestMu = "free"
  /\ l0' = WithFlushed(Head(imm).seg)
  /\ flushedSeg' = Head(imm).seg
  /\ imm' = Tail(imm)
  /\ manifestMu' = "flush"
  /\ pending' = [next |-> nextSeg, l0 |-> l0', l1 |-> l1, flushed |-> flushedSeg']
  /\ fpc' = "save"
  /\ UNCHANGED <<disk, status, memtable, activeSeg, wal, rolled, l1, nextSeg, bgErr, isClosing, chans,
                 writer, compact, kpc, rpc, history, bounds>>

FlushSave ==
  /\ fpc = "save"
  /\ manifestMu' = "free" /\ pending' = NoManifest
  /\ \/ /\ manifest' = pending /\ fpc' = "cleanup"
        /\ UNCHANGED <<bgErr, faults>>
     \/ /\ ManifestFails(pending) /\ bgErr' = TRUE /\ fpc' = "exit"
  /\ hw' = IF manifest' = pending THEN Max({hw, flushedSeg}) ELSE hw
  /\ UNCHANGED <<walFiles, sstFiles, status, mem, lsm, nextSeg, isClosing, chans, writer,
                 compact, kpc, rpc, allowed, exposed, writes, opens>>

\* Remove the WAL segment (an error is only logged), trigger a compaction,
\* and leave when the engine is closing and the queue is empty.
FlushCleanup ==
  /\ fpc = "cleanup"
  /\ \/ walFiles' = Without(walFiles, {flushedSeg}) /\ UNCHANGED faults
     \/ Fault("wal_remove") /\ UNCHANGED walFiles
  /\ compactChan' = (compactChan \/ Len(l0) >= CompactionThreshold)
  /\ fpc' = (IF isClosing /\ imm = <<>> THEN "exit" ELSE "idle")
  /\ UNCHANGED <<manifest, sstFiles, status, mem, lsm, nextSeg, bgErr, isClosing, flushChan,
                 stopChan, mutex, writer, compact, kpc, rpc, history, writes, opens>>

------------------------------------------------------------------------------
(* compactionWorker *)

\* The select and the check of the threshold, then collectCompactionInputs and
\* the ID of the first output.  isCompacting is cpc \notin {"idle", "exit"}.
CompactWake ==
  /\ cpc = "idle" /\ status = "open"
  /\ \/ compactChan /\ compactChan' = FALSE
     \/ stopChan /\ UNCHANGED compactChan
  /\ \/ /\ Len(l0) >= CompactionThreshold
        /\ cinputs' = l0 \o l1 /\ cseg' = nextSeg
        /\ nextSeg' = nextSeg + 1 /\ cpc' = "merge"
     \/ /\ Len(l0) < CompactionThreshold
        /\ cpc' = (IF isClosing THEN "exit" ELSE "idle")
        /\ UNCHANGED <<cinputs, cseg, nextSeg>>
  /\ UNCHANGED <<disk, status, mem, lsm, bgErr, isClosing, flushChan, stopChan, mutex,
                 writer, fpc, couts, kpc, rpc, history, bounds>>

\* compactor.Run writes the outputs under consecutive IDs from cseg; only
\* cseg itself has been reserved.  A failed merge removes the outputs that it
\* has begun, unless only the os.Stat after it fails.
CompactMerge ==
  /\ cpc = "merge"
  /\ LET ids  == Range(cinputs)
         n    == OutputCount(LiveKeys(sstFiles, ids))
         outs == cseg .. (cseg + n - 1)
         merged == [id \in DOMAIN sstFiles \cup outs |->
                      IF id \in outs THEN MergeOutput(sstFiles, ids, id - cseg + 1)
                      ELSE sstFiles[id]] IN
     \/ /\ sstFiles' = merged
        /\ couts' = [i \in 1..n |-> cseg + i - 1]
        /\ Expose(Collision(outs) \cup
                  IF LargestIDIsNewest(sstFiles, cinputs) THEN {} ELSE {"merge_order"})
        /\ cpc' = "build" /\ UNCHANGED <<bgErr, faults>>
     \/ /\ Fault("merge")
        /\ \/ \E begun \in {cseg .. (cseg + i - 1) : i \in 0..n} :
                sstFiles' = Without(sstFiles, begun) /\ Expose(Collision(begun))
           \/ sstFiles' = merged /\ Expose(Collision(outs))
        /\ bgErr' = TRUE /\ cpc' = "exit" /\ UNCHANGED couts
  /\ UNCHANGED <<manifest, walFiles, status, mem, lsm, nextSeg, isClosing, chans, mutex,
                 writer, fpc, cinputs, cseg, kpc, rpc, allowed, hw, writes, opens>>

\* Level 0 without the inputs: files flushed during the merge stay.
MutRemainingLevelZero == <<>>
RemainingLevelZero == PartAt(l0, {i \in DOMAIN l0 : l0[i] \notin Range(cinputs)})

\* "Update nextSegmentID to prevent name collisions"
MutNextAfterMerge == cseg + Len(couts)
NextAfterMerge == Max({nextSeg, cseg + Len(couts)})

\* The prospective manifest; the live levels are not touched yet.
CompactBuild ==
  /\ cpc = "build" /\ manifestMu = "free"
  /\ nextSeg' = NextAfterMerge
  /\ manifestMu' = "compaction"
  /\ pending' = [next |-> nextSeg', l0 |-> RemainingLevelZero, l1 |-> couts,
                 flushed |-> flushedSeg]
  /\ cpc' = "save"
  /\ UNCHANGED <<disk, status, mem, lsm, bgErr, isClosing, chans, writer, fpc, cinputs, cseg,
                 couts, kpc, rpc, history, bounds>>

\* When the manifest cannot be written the outputs are deleted again.
CompactSave ==
  /\ cpc = "save"
  /\ \/ /\ manifest' = pending /\ cpc' = "commit"
        /\ UNCHANGED <<sstFiles, bgErr, mutex, exposed, faults>>
     \/ /\ ManifestFails(pending)
        /\ sstFiles' = Without(sstFiles, Range(couts))
        /\ Expose(IF manifest' # manifest THEN {"dangling"} ELSE {})
        /\ bgErr' = TRUE /\ cpc' = "exit"
        /\ manifestMu' = "free" /\ pending' = NoManifest
  /\ UNCHANGED <<walFiles, status, mem, lsm, nextSeg, isClosing, chans, writer, fpc, cinputs,
                 cseg, couts, kpc, rpc, allowed, hw, writes, opens>>

\* Swap the levels, delete the inputs (no reader has them pinned here) and
\* trigger again if the flush worker has refilled Level 0.
CompactCommit ==
  /\ cpc = "commit"
  /\ l0' = pending.l0 /\ l1' = couts
  /\ sstFiles' = Without(sstFiles, Range(cinputs))
  /\ compactChan' = (compactChan \/ Len(l0') >= CompactionThreshold)
  /\ manifestMu' = "free" /\ pending' = NoManifest
  /\ cpc' = "idle" /\ cinputs' = <<>> /\ cseg' = 0 /\ couts' = <<>>
  /\ UNCHANGED <<manifest, walFiles, status, mem, flushedSeg, nextSeg, bgErr, isClosing,
                 flushChan, stopChan, writer, fpc, kpc, rpc, history, bounds>>

------------------------------------------------------------------------------
(* Close *)

CloseStart ==
  /\ status = "open" /\ ~isClosing
  /\ isClosing' = TRUE /\ kpc' = "drain"
  /\ UNCHANGED <<disk, status, mem, lsm, nextSeg, bgErr, chans, mutex, writer, fpc, compact,
                 rpc, history, bounds>>

\* writesInFlight counts WriteBatch calls, not Snapshot.  Whether there is a
\* memtable to flush, and no background error, is looked at once.
CloseDrain ==
  /\ kpc = "drain" /\ (wpc = "idle" \/ wop = "snapshot")
  /\ kpc' = (IF Size(memtable) > 0 /\ ~bgErr THEN "queue" ELSE "signal")
  /\ UNCHANGED <<disk, status, mem, lsm, nextSeg, bgErr, isClosing, chans, mutex, writer, fpc,
                 compact, rpc, history, bounds>>

\* The last memtable joins the queue once there is room, and the WAL is closed.
CloseQueue ==
  /\ kpc = "queue"
  /\ Len(imm) < MaxImmMemtables \/ MaxImmMemtables = 0
  /\ imm' = Append(imm, [seg |-> activeSeg, data |-> memtable])
  /\ memtable' = Empty /\ flushChan' = TRUE /\ wal' = FALSE
  /\ \/ UNCHANGED <<bgErr, faults>>
     \/ wal /\ Fault("wal_close") /\ bgErr' = TRUE
  /\ kpc' = "signal"
  /\ UNCHANGED <<disk, status, activeSeg, rolled, lsm, nextSeg, isClosing, compactChan, stopChan, mutex,
                 writer, fpc, compact, rpc, history, writes, opens>>

\* Both workers are told to stop.
CloseSignal ==
  /\ kpc = "signal" /\ stopChan' = TRUE /\ kpc' = "join"
  /\ UNCHANGED <<disk, status, mem, lsm, nextSeg, bgErr, isClosing, flushChan, compactChan, mutex,
                 writer, fpc, compact, rpc, history, bounds>>

\* Both workers have left: close the WAL and release the directory lock.
CloseFinish ==
  /\ kpc = "join" /\ fpc = "exit" /\ cpc = "exit"
  /\ status' = "closed" /\ kpc' = "done" /\ wal' = FALSE
  /\ UNCHANGED <<disk, memtable, activeSeg, rolled, imm, lsm, nextSeg, bgErr, isClosing, chans, mutex,
                 writer, fpc, compact, rpc, history, bounds>>

------------------------------------------------------------------------------
(* Process stop and NewEngine *)

\* What the memory of a process that does not run the engine holds.
Volatile ==
  /\ memtable = Empty /\ activeSeg = 0 /\ wal = FALSE /\ rolled = 0 /\ imm = <<>>
  /\ l0 = <<>> /\ l1 = <<>> /\ flushedSeg = 0 /\ nextSeg = 0
  /\ bgErr = FALSE /\ isClosing = FALSE
  /\ flushChan = FALSE /\ compactChan = FALSE /\ stopChan = FALSE
  /\ manifestMu = "free" /\ pending = NoManifest
  /\ wpc = "idle" /\ wop = "write" /\ batch = Empty
  /\ fpc = "idle" /\ cpc = "idle" /\ cinputs = <<>> /\ cseg = 0 /\ couts = <<>>
  /\ kpc = "none" /\ rpc = "none"

ResetVolatile ==
  /\ memtable' = Empty /\ activeSeg' = 0 /\ wal' = FALSE /\ rolled' = 0 /\ imm' = <<>>
  /\ l0' = <<>> /\ l1' = <<>> /\ flushedSeg' = 0 /\ nextSeg' = 0
  /\ bgErr' = FALSE /\ isClosing' = FALSE
  /\ flushChan' = FALSE /\ compactChan' = FALSE /\ stopChan' = FALSE
  /\ manifestMu' = "free" /\ pending' = NoManifest
  /\ wpc' = "idle" /\ wop' = "write" /\ batch' = Empty
  /\ fpc' = "idle" /\ cpc' = "idle" /\ cinputs' = <<>> /\ cseg' = 0 /\ couts' = <<>>
  /\ kpc' = "none" /\ rpc' = "none"

\* The process ends, after Close or by a crash at any point; the disk stays.
Stop ==
  /\ status \in {"recovering", "open", "closed"} /\ opens < MaxOpens
  /\ status' = "down" /\ ResetVolatile
  /\ UNCHANGED <<disk, history, bounds>>

\* NewEngine returns an error.
OpenFails == status' = "down" /\ ResetVolatile

Recovery == Replay(walFiles, {s \in DOMAIN walFiles : s > manifest.flushed})
HighestWAL == IF DOMAIN walFiles = {} THEN 1 ELSE Max(DOMAIN walFiles)
ManifestFiles(m) == Range(m.l0) \cup Range(m.l1)

\* The SSTables that cleanupOrphanedSSTables keeps.
MutActiveSSTs(m) == Range(m.l0)
ActiveSSTs(m) == Range(m.l0) \cup Range(m.l1)

\* NewEngine up to recoverActiveState: clean up orphans, open the levels of the
\* manifest, replay the WAL.  Reads resolve what the crash left in doubt.
Open ==
  /\ status = "down" /\ opens < MaxOpens /\ opens' = opens + 1
  /\ sstFiles' = Restrict(sstFiles, DOMAIN sstFiles \cap ActiveSSTs(manifest))
  /\ \/ /\ ManifestFiles(manifest) \subseteq DOMAIN sstFiles'
        /\ status' = "recovering"
        /\ l0' = manifest.l0 /\ l1' = manifest.l1
        /\ flushedSeg' = manifest.flushed /\ nextSeg' = manifest.next
        /\ memtable' = Recovery
        /\ activeSeg' = HighestWAL
        /\ rpc' = (IF Size(Recovery) > MaxMemTableSize THEN "flush"
                   ELSE IF HighestWAL <= manifest.flushed THEN "newseg" ELSE "create")
        /\ allowed' = [k \in Keys |->
              LET v == Answer(IF Recovery[k] # None THEN Recovery[k]
                              ELSE SearchLevels(sstFiles, manifest.l0, manifest.l1, k))
              IN  IF v \in allowed[k] THEN {v} ELSE allowed[k]]
        /\ Expose(IF \E s \in DOMAIN walFiles : manifest.flushed < s /\ s <= hw
                  THEN {"stale_replay"} ELSE {})
     \/ /\ ~(ManifestFiles(manifest) \subseteq DOMAIN sstFiles')
        /\ status' = "failed"
        /\ UNCHANGED <<lsm, nextSeg, memtable, activeSeg, rpc, allowed, exposed>>
  /\ UNCHANGED <<manifest, walFiles, wal, rolled, imm, bgErr, isClosing, chans, mutex, writer, fpc,
                 compact, kpc, hw, writes, faults>>

CurrentManifest == [next |-> nextSeg, l0 |-> l0, l1 |-> l1, flushed |-> flushedSeg]

\* The replayed memtable is too large: write it to Level 0 at once.  activeSeg
\* still holds the highest WAL segment here.
RecoverFlush ==
  /\ rpc = "flush"
  /\ \/ /\ sstFiles' = Set(sstFiles, nextSeg, memtable)
        /\ l0' = <<nextSeg>> \o l0
        /\ activeSeg' = nextSeg + 1 /\ nextSeg' = nextSeg + 2
        /\ flushedSeg' = activeSeg
        /\ memtable' = Empty
        /\ Expose(Collision({nextSeg}) \cup IF activeSeg >= activeSeg' THEN {"watermark"} ELSE {})
        /\ rpc' = "flushSave"
        /\ UNCHANGED <<status, wal, rolled, imm, l1, bgErr, isClosing, chans, mutex, writer, fpc, compact,
                       kpc, faults>>
     \/ /\ Fault("sst_write") /\ OpenFails
        /\ UNCHANGED <<sstFiles, exposed>>
  /\ UNCHANGED <<manifest, walFiles, allowed, hw, writes, opens>>

RecoverFlushSave ==
  /\ rpc = "flushSave"
  /\ \/ /\ manifest' = CurrentManifest /\ rpc' = "cleanup"
        /\ UNCHANGED <<sstFiles, status, mem, lsm, nextSeg, bgErr, isClosing, chans, mutex, writer,
                       fpc, compact, kpc, exposed, faults>>
     \/ /\ ManifestFails(CurrentManifest)
        /\ sstFiles' = Without(sstFiles, {Head(l0)})
        /\ Expose(IF manifest' # manifest THEN {"dangling"} ELSE {})
        /\ OpenFails
  /\ hw' = IF manifest' = CurrentManifest THEN Max({hw, flushedSeg}) ELSE hw
  /\ UNCHANGED <<walFiles, allowed, writes, opens>>

\* cleanupWALFiles; a file that cannot be removed stays.
RecoverCleanup ==
  /\ rpc = "cleanup"
  /\ LET old == {s \in DOMAIN walFiles : s <= flushedSeg} IN
     \/ walFiles' = Without(walFiles, old) /\ UNCHANGED faults
     \/ Fault("wal_remove") /\ \E s \in old : walFiles' = Without(walFiles, old \ {s})
  /\ rpc' = "create"
  /\ UNCHANGED <<manifest, sstFiles, status, mem, lsm, nextSeg, bgErr, isClosing, chans, mutex,
                 writer, fpc, compact, kpc, history, writes, opens>>

\* The replayed memtable fits and every segment is flushed: take a new segment.
RecoverNewSegment ==
  /\ rpc = "newseg"
  /\ \/ /\ activeSeg' = nextSeg /\ nextSeg' = nextSeg + 1
        /\ manifest' = [CurrentManifest EXCEPT !.next = nextSeg']
        /\ rpc' = "create"
        /\ UNCHANGED <<status, memtable, wal, rolled, imm, lsm, bgErr, isClosing, chans, mutex, writer, fpc,
                       compact, kpc, faults>>
     \/ /\ ManifestFails([CurrentManifest EXCEPT !.next = nextSeg + 1])
        /\ OpenFails
  /\ UNCHANGED <<walFiles, sstFiles, history, writes, opens>>

\* Create or reopen the active segment; the workers start unless the segment
\* ID is not yet covered by NextSegmentID.
RecoverCreate ==
  /\ rpc = "create"
  /\ \/ /\ walFiles' = IF activeSeg \in DOMAIN walFiles THEN walFiles
                       ELSE Set(walFiles, activeSeg, Empty)
        /\ wal' = TRUE
        /\ \/ /\ activeSeg >= nextSeg
              /\ nextSeg' = activeSeg + 1 /\ rpc' = "resume" /\ UNCHANGED status
           \/ /\ activeSeg < nextSeg
              /\ rpc' = "none" /\ status' = "open" /\ UNCHANGED nextSeg
        /\ UNCHANGED <<memtable, activeSeg, rolled, imm, lsm, bgErr, isClosing, chans, mutex, writer, fpc,
                       compact, kpc, faults>>
     \/ /\ Fault("wal_create") /\ OpenFails /\ UNCHANGED walFiles
  /\ UNCHANGED <<manifest, sstFiles, history, writes, opens>>

RecoverResume ==
  /\ rpc = "resume"
  /\ \/ /\ manifest' = CurrentManifest
        /\ rpc' = "none" /\ status' = "open"
        /\ UNCHANGED <<mem, lsm, nextSeg, bgErr, isClosing, chans, mutex, writer, fpc, compact, kpc,
                       faults>>
     \/ /\ ManifestFails(CurrentManifest)
        /\ OpenFails
  /\ UNCHANGED <<walFiles, sstFiles, history, writes, opens>>

------------------------------------------------------------------------------
Init ==
  /\ manifest = InitialManifest
  /\ walFiles = [s \in {} |-> Empty] /\ sstFiles = [s \in {} |-> Empty]
  /\ status = "down" /\ Volatile
  /\ allowed = [k \in Keys |-> {None}] /\ hw = 0 /\ exposed = {}
  /\ writes = 0 /\ opens = 0 /\ faults = 0

Foreground == \/ WriteBatch \/ WriteRefused \/ WriteFreeze \/ SnapshotFreeze \/ RotateWAL
              \/ RotateBuild \/ RotateSave \/ WALAppend \/ WALAppendFails \/ WriteApply
Flush    == FlushWake \/ FlushWrite \/ FlushRegister \/ FlushSave \/ FlushCleanup
Compaction == CompactWake \/ CompactMerge \/ CompactBuild \/ CompactSave \/ CompactCommit
Closing  == CloseStart \/ CloseDrain \/ CloseQueue \/ CloseSignal \/ CloseFinish
Recover  == \/ Stop \/ Open \/ RecoverFlush \/ RecoverFlushSave \/ RecoverCleanup
            \/ RecoverNewSegment \/ RecoverCreate \/ RecoverResume
Next == Foreground \/ Flush \/ Compaction \/ Closing \/ Recover
Spec == Init /\ [][Next]_vars

------------------------------------------------------------------------------
(* Properties *)

WriterSteps == {"idle", "check", "rotate", "build", "save", "apply"}
FlushSteps  == {"idle", "write", "register", "save", "cleanup", "exit"}
CompactSteps == {"idle", "merge", "build", "save", "commit", "exit"}
RecoverSteps == {"none", "flush", "flushSave", "cleanup", "newseg", "create", "resume"}

IsFiles(f) == DOMAIN f \subseteq Nat /\ IsFiniteSet(DOMAIN f) /\ \A id \in DOMAIN f : f[id] \in Tables

\* Type correctness of the disk, of the dbEngine fields, of the local state of
\* every goroutine and of the history variables.
TypeOK ==
  /\ manifest \in Manifests /\ pending \in Manifests
  /\ IsFiles(walFiles) /\ IsFiles(sstFiles)
  /\ status \in {"down", "recovering", "open", "closed", "failed"}
  /\ memtable \in Tables /\ batch \in Tables
  /\ imm \in Seq([seg : Nat, data : Tables])
  /\ activeSeg \in Nat /\ rolled \in Nat /\ nextSeg \in Nat /\ flushedSeg \in Nat /\ cseg \in Nat /\ hw \in Nat
  /\ l0 \in Seq(Nat) /\ l1 \in Seq(Nat) /\ cinputs \in Seq(Nat) /\ couts \in Seq(Nat)
  /\ wal \in BOOLEAN /\ bgErr \in BOOLEAN /\ isClosing \in BOOLEAN
  /\ flushChan \in BOOLEAN /\ compactChan \in BOOLEAN /\ stopChan \in BOOLEAN
  /\ manifestMu \in {"free", "writer", "flush", "compaction"}
  /\ wpc \in WriterSteps /\ wop \in {"write", "snapshot"} /\ fpc \in FlushSteps
  /\ cpc \in CompactSteps /\ kpc \in {"none", "drain", "queue", "signal", "join", "done"} /\ rpc \in RecoverSteps
  /\ allowed \in [Keys -> SUBSET (Vals \cup {None})]
  /\ exposed \subseteq Exposures
  /\ writes \in Nat /\ opens \in Nat /\ faults \in Nat

Serving == status \in {"recovering", "open"}

\* Get (engine.go) answers with the last acknowledged write of the key, or with
\* a later one that failed in doubt, through any interleaving of rotation,
\* flush, compaction, I/O failure, crash and recovery that has met none of the
\* weaknesses recorded in exposed: those six are the only ways the engine
\* loses, resurrects or reorders a write.
ReadsAreAcknowledged == Serving /\ exposed = {} => \A k \in Keys : Get(k) \in allowed[k]

\* freezeActiveMemTable, registerFlushedSSTable and recoverActiveState keep the
\* unflushed data in age order: the queue is strictly ordered by segment ID,
\* behind it come only newer segments, and nextSegmentID is above all of them.
\* (Close queues the last memtable without taking a new segment.)
QueueOrder ==
  /\ \A i, j \in 1..Len(imm) : i < j => imm[i].seg < imm[j].seg
  /\ \A i \in 1..Len(imm) : imm[i].seg < activeSeg \/ (isClosing /\ imm[i].seg = activeSeg)
  /\ status = "open" => activeSeg < nextSeg

\* registerFlushedSSTable prepends: in Level 0 a smaller index is a larger and
\* newer segment, and everything still in memory is newer than all of Level 0.
\* searchLevels relies on it when it stops at the first hit.
LevelZeroNewestFirst ==
  /\ \A i, j \in 1..Len(l0) : i < j => l0[i] > l0[j]
  /\ status = "open" => \A i \in 1..Len(l0) :
       /\ l0[i] < activeSeg \/ (isClosing /\ l0[i] = activeSeg)
       /\ \A j \in 1..Len(imm) : l0[i] < imm[j].seg

\* performMerge splits its output by key: an earlier Level 1 file holds only
\* smaller keys, which the binary search of searchLevels relies on.
LevelOneDisjoint ==
  "file_collision" \notin exposed =>
    \A i, j \in 1..Len(l1) : i < j =>
      \A a \in KeysOf(sstFiles[l1[i]]), b \in KeysOf(sstFiles[l1[j]]) : a < b

\* At every point where the process can stop, the manifest on disk names only
\* SSTables that are on disk, so that NewEngine can open it: files are written
\* before the manifest that names them and deleted after the one that drops them.
ManifestOpens ==
  exposed \cap {"dangling", "file_collision"} = {} => ManifestFiles(manifest) \subseteq DOMAIN sstFiles

\* WriteBatch never meets its internal errors: an active WAL that is nil
\* (ErrActiveWALNil) or a memtable too full for a batch that is already logged.
LoggedBatchApplies ==
  /\ wpc = "check" /\ ~bgErr /\ ~isClosing => wal /\ activeSeg \in DOMAIN walFiles
  /\ wpc = "apply" /\ ~bgErr => Size(Overlay(batch, memtable)) <= MaxMemTableSize

\* Every read is an acknowledged one, unconditionally.
NoLostWrites == Serving => \A k \in Keys : Get(k) \in allowed[k]
==============================================================================
