----------------------------- MODULE SSTableRefs -----------------------------
(****************************************************************************)
(* Lifetime of SSTable readers in the storage engine                        *)
(* (internal/storage/engine.go pin/unpin, snapshot.go, iterator.go and the  *)
(* registration steps of workers.go).  Gets, iterators and snapshots pin    *)
(* the readers of the levels that they saw; a compaction marks its inputs   *)
(* obsolete; a reader is closed and its file deleted when it is obsolete    *)
(* and nobody has it pinned.                                                *)
(*                                                                          *)
(* Contents are left out and Levels 0 and 1 are one set.  A reader is known *)
(* by its file; every file is created once.  A flush that fails registers   *)
(* no reader and is left out.                                               *)
(****************************************************************************)
EXTENDS Naturals, FiniteSets

CONSTANTS
  Files,     \* the SSTables that flushes and compactions may create
  Tasks,     \* goroutines that read
  Snaps,     \* snapshots that may be opened
  NoSnap,
  Exclusive  \* whether callers close a snapshot only between their calls on it

Holders == Tasks \cup Snaps

ASSUME RefsAssumption ==
  /\ Tasks \cap Snaps = {} /\ NoSnap \notin Snaps
  /\ IsFiniteSet(Tasks) /\ IsFiniteSet(Snaps)
  /\ Exclusive \in BOOLEAN

VARIABLES
  levels,     \* readers in engine.levels
  registered, \* DOMAIN engine.sstRefs
  refs,       \* sstableRef.refs
  obsolete,   \* sstableRef.obsolete
  reader,     \* none, open or closed
  onDisk,
  stray,      \* history: files on disk that this process will not try to delete again
  pins,       \* holder -> the readers it has pinned and not yet unpinned
  tpc,        \* step of a task
  of,         \* the snapshot that a task is calling
  spc,        \* state of a snapshot
  view,       \* dbSnapshot.levels
  cpc, inputs, outs,    \* compaction
  bgErr, isClosing, kpc

vars == <<levels, registered, refs, obsolete, reader, onDisk, stray, pins, tpc, of, spc, view,
          cpc, inputs, outs, bgErr, isClosing, kpc>>
table   == <<registered, refs, obsolete, reader, onDisk, stray>>
snaps   == <<spc, view>>
workers == <<cpc, inputs, outs, bgErr>>
closing == <<isClosing, kpc>>

Fresh == {f \in Files : reader[f] = "none" /\ f \notin onDisk}

\* os.Remove of each file; one that cannot be removed is logged and left.
Remove(fs) == \E left \in SUBSET fs : onDisk' = onDisk \ (fs \ left) /\ stray' = stray \cup left

\* pinReaders: a reader that is no longer registered is passed over.
MutPinReaders(fs) == UNCHANGED table
PinReaders(fs) ==
  /\ refs' = [f \in Files |-> IF f \in fs \cap registered THEN refs[f] + 1 ELSE refs[f]]
  /\ UNCHANGED <<registered, obsolete, reader, onDisk, stray>>

\* Close a set of readers and delete their files and their entries in sstRefs.
Discard(fs) ==
  /\ reader' = [f \in Files |-> IF f \in fs THEN "closed" ELSE reader[f]]
  /\ Remove(fs)
  /\ registered' = registered \ fs

\* unpinSSTable: the readers of fs whose last pin this is and that are obsolete.
MutLastPin(fs) == {f \in fs \cap registered : f \in obsolete}
LastPin(fs) == {f \in fs \cap registered : refs[f] = 1 /\ f \in obsolete}

UnpinReaders(fs) ==
  /\ refs' = [f \in Files |-> IF f \in fs \cap registered THEN refs[f] - 1 ELSE refs[f]]
  /\ Discard(LastPin(fs))
  /\ UNCHANGED obsolete

------------------------------------------------------------------------------
(* Readers *)

\* A Get that reaches the levels, or a Scan: both pin under engine.mu.RLock.
Read(t) ==
  /\ tpc[t] = "idle" /\ ~isClosing /\ ~bgErr
  /\ PinReaders(levels) /\ pins' = [pins EXCEPT ![t] = levels]
  /\ tpc' = [tpc EXCEPT ![t] = "reading"]
  /\ UNCHANGED <<levels, of, snaps, workers, closing>>

\* The Get returns or the iterator is closed.
ReadDone(t) ==
  /\ tpc[t] = "reading"
  /\ UnpinReaders(pins[t]) /\ pins' = [pins EXCEPT ![t] = {}]
  /\ tpc' = [tpc EXCEPT ![t] = "idle"] /\ of' = [of EXCEPT ![t] = NoSnap]
  /\ UNCHANGED <<levels, snaps, workers, closing>>

\* Engine.Snapshot, after the rotation.
SnapshotOpen(s) ==
  /\ spc[s] = "none" /\ ~isClosing /\ ~bgErr
  /\ PinReaders(levels) /\ pins' = [pins EXCEPT ![s] = levels]
  /\ spc' = [spc EXCEPT ![s] = "open"] /\ view' = [view EXCEPT ![s] = levels]
  /\ UNCHANGED <<levels, tpc, of, workers, closing>>

\* dbSnapshot.Get and dbSnapshot.Scan look at closed and unlock.
SnapshotCall(t, s) ==
  /\ tpc[t] = "idle" /\ spc[s] = "open"
  /\ \E step \in {"snapGet", "snapScan"} : tpc' = [tpc EXCEPT ![t] = step]
  /\ of' = [of EXCEPT ![t] = s]
  /\ UNCHANGED <<levels, table, pins, snaps, workers, closing>>

\* dbSnapshot.Get has searched the view of the snapshot; it pins nothing itself.
SnapshotGetDone(t) ==
  /\ tpc[t] = "snapGet"
  /\ tpc' = [tpc EXCEPT ![t] = "idle"] /\ of' = [of EXCEPT ![t] = NoSnap]
  /\ UNCHANGED <<levels, table, pins, snaps, workers, closing>>

\* onScan pins the view for an iterator that may outlive the snapshot.
MutScanPins(t) == {}
ScanPins(t) == view[of[t]]

SnapshotScanPin(t) ==
  /\ tpc[t] = "snapScan"
  /\ PinReaders(ScanPins(t)) /\ pins' = [pins EXCEPT ![t] = ScanPins(t)]
  /\ tpc' = [tpc EXCEPT ![t] = "reading"]
  /\ UNCHANGED <<levels, of, snaps, workers, closing>>

Calling(s) == \E t \in Tasks : tpc[t] \in {"snapGet", "snapScan"} /\ of[t] = s

\* dbSnapshot.Close sets closed; onClose unpins.
SnapshotClose(s) ==
  /\ spc[s] = "open" /\ (Exclusive => ~Calling(s))
  /\ spc' = [spc EXCEPT ![s] = "closing"]
  /\ UNCHANGED <<levels, table, pins, tpc, of, view, workers, closing>>

SnapshotOnClose(s) ==
  /\ spc[s] = "closing"
  /\ UnpinReaders(pins[s]) /\ pins' = [pins EXCEPT ![s] = {}]
  /\ spc' = [spc EXCEPT ![s] = "closed"]
  /\ UNCHANGED <<levels, tpc, of, view, workers, closing>>

------------------------------------------------------------------------------
(* Flush and compaction *)

\* registerFlushedSSTable
FlushRegister(f) ==
  /\ f \in Fresh /\ kpc \in {"none", "wait"}
  /\ levels' = levels \cup {f} /\ registered' = registered \cup {f}
  /\ refs' = [refs EXCEPT ![f] = 0]
  /\ reader' = [reader EXCEPT ![f] = "open"] /\ onDisk' = onDisk \cup {f}
  /\ UNCHANGED <<obsolete, stray, pins, tpc, of, snaps, workers, closing>>

\* collectCompactionInputs
CompactStart ==
  /\ cpc = "idle" /\ levels # {}
  /\ inputs' = levels /\ cpc' = "merge"
  /\ UNCHANGED <<levels, table, pins, tpc, of, snaps, outs, bgErr, closing>>

\* compactor.Run has written the outputs and they are opened; or it fails: a
\* merge that fails removes what it has written, an os.Stat that fails after
\* the merge leaves the outputs on disk, and the worker removes none of them.
CompactRun ==
  /\ cpc = "merge"
  /\ \/ \E fs \in SUBSET Fresh :
          /\ outs' = fs /\ onDisk' = onDisk \cup fs
          /\ reader' = [f \in Files |-> IF f \in fs THEN "open" ELSE reader[f]]
          /\ cpc' = "save" /\ UNCHANGED <<inputs, stray, bgErr>>
     \/ \E fs \in SUBSET Fresh :
          /\ onDisk' = onDisk \cup fs /\ stray' = stray \cup fs
          /\ bgErr' = TRUE /\ cpc' = "exit" /\ inputs' = {}
          /\ UNCHANGED <<outs, reader>>
  /\ UNCHANGED <<levels, registered, refs, obsolete, pins, tpc, of, snaps, closing>>

\* The manifest cannot be written: the outputs are closed and deleted.
CompactAbort ==
  /\ cpc = "save"
  /\ reader' = [f \in Files |-> IF f \in outs THEN "closed" ELSE reader[f]]
  /\ Remove(outs)
  /\ outs' = {} /\ inputs' = {} /\ bgErr' = TRUE /\ cpc' = "exit"
  /\ UNCHANGED <<levels, registered, refs, obsolete, pins, tpc, of, snaps, closing>>

\* Of the inputs, those that nobody has pinned go at once.
MutUnpinned == {}
Unpinned == {f \in inputs : refs[f] = 0}

\* The level swap.
CompactCommit ==
  /\ cpc = "save"
  /\ levels' = (levels \ inputs) \cup outs
  /\ refs' = [f \in Files |-> IF f \in outs THEN 0 ELSE refs[f]]
  /\ obsolete' = obsolete \cup inputs
  /\ reader' = [f \in Files |-> IF f \in Unpinned THEN "closed" ELSE reader[f]]
  /\ Remove(Unpinned)
  /\ registered' = (registered \ Unpinned) \cup outs
  /\ outs' = {} /\ inputs' = {} /\ cpc' = "idle"
  /\ UNCHANGED <<pins, tpc, of, snaps, bgErr, closing>>

------------------------------------------------------------------------------
(* Engine.Close *)

CloseStart ==
  /\ kpc = "none" /\ isClosing' = TRUE /\ kpc' = "wait"
  /\ UNCHANGED <<levels, table, pins, tpc, of, snaps, workers>>

\* iterWg counts Gets, iterators and snapshots, not the calls on a snapshot.
IterWgZero ==
  /\ \A t \in Tasks : tpc[t] # "reading"
  /\ \A s \in Snaps : spc[s] \notin {"open", "closing"}

\* iterWg.Wait returns, then the workers are joined.
CloseJoin ==
  /\ kpc = "wait" /\ IterWgZero /\ cpc \in {"idle", "exit"}
  /\ kpc' = "joined" /\ cpc' = "exit"
  /\ UNCHANGED <<levels, table, pins, tpc, of, snaps, inputs, outs, bgErr, isClosing>>

\* Every registered reader is closed.
CloseReaders ==
  /\ kpc = "joined" /\ kpc' = "done"
  /\ reader' = [f \in Files |-> IF f \in registered THEN "closed" ELSE reader[f]]
  /\ UNCHANGED <<levels, registered, refs, obsolete, onDisk, stray, pins, tpc, of, snaps,
                 workers, isClosing>>

------------------------------------------------------------------------------
Init ==
  /\ levels = {} /\ registered = {} /\ refs = [f \in Files |-> 0] /\ obsolete = {}
  /\ reader = [f \in Files |-> "none"] /\ onDisk = {} /\ stray = {}
  /\ pins = [h \in Holders |-> {}]
  /\ tpc = [t \in Tasks |-> "idle"] /\ of = [t \in Tasks |-> NoSnap]
  /\ spc = [s \in Snaps |-> "none"] /\ view = [s \in Snaps |-> {}]
  /\ cpc = "idle" /\ inputs = {} /\ outs = {}
  /\ bgErr = FALSE /\ isClosing = FALSE /\ kpc = "none"

Task(t) == \/ Read(t) \/ ReadDone(t) \/ SnapshotGetDone(t) \/ SnapshotScanPin(t)
           \/ \E s \in Snaps : SnapshotCall(t, s)
Snapshot(s) == SnapshotOpen(s) \/ SnapshotClose(s) \/ SnapshotOnClose(s)
Worker == (\E f \in Files : FlushRegister(f)) \/ CompactStart \/ CompactRun \/ CompactAbort \/ CompactCommit
Close == CloseStart \/ CloseJoin \/ CloseReaders
Next == (\E t \in Tasks : Task(t)) \/ (\E s \in Snaps : Snapshot(s)) \/ Worker \/ Close

Spec == Init /\ [][Next]_vars

------------------------------------------------------------------------------
(* Properties *)

\* Type correctness; the reference counts are never negative.
TypeOK ==
  /\ levels \subseteq Files /\ registered \subseteq Files /\ obsolete \subseteq Files
  /\ onDisk \subseteq Files /\ stray \subseteq Files /\ inputs \subseteq Files /\ outs \subseteq Files
  /\ refs \in [Files -> Nat] /\ reader \in [Files -> {"none", "open", "closed"}]
  /\ pins \in [Holders -> SUBSET Files]
  /\ tpc \in [Tasks -> {"idle", "reading", "snapGet", "snapScan"}]
  /\ of \in [Tasks -> Snaps \cup {NoSnap}]
  /\ spc \in [Snaps -> {"none", "open", "closing", "closed"}]
  /\ view \in [Snaps -> SUBSET Files]
  /\ cpc \in {"idle", "merge", "save", "exit"}
  /\ bgErr \in BOOLEAN /\ isClosing \in BOOLEAN /\ kpc \in {"none", "wait", "joined", "done"}

\* What task t is reading from.
InUse(t) == CASE tpc[t] = "reading" -> IF of[t] = NoSnap THEN pins[t] ELSE view[of[t]]
              [] tpc[t] \in {"snapGet", "snapScan"} -> view[of[t]]
              [] OTHER -> {}

\* No Get, iterator or snapshot call ever reads from an SSTable that has been
\* closed or deleted under it (unpinSSTable, the level swap of a compaction and
\* Close all wait for it): searchLevels would miss the key without an error,
\* since BloomMayContain answers false on a closed reader.
ReadersStayOpen == \A t \in Tasks : \A f \in InUse(t) : reader[f] = "open" /\ f \in onDisk

\* No SSTable is leaked: a file on disk is in the levels, is an output that a
\* running compaction has yet to register, is obsolete and still pinned, or was
\* left by a call that failed (os.Remove, or os.Stat after a merge); and what a
\* failure left is in no level, so that the next start removes it as an orphan.
NoLeakedFiles ==
  /\ \A f \in onDisk : f \in levels \cup outs \cup stray \/ (f \in obsolete /\ refs[f] > 0)
  /\ stray \cap (levels \cup outs) = {}
==============================================================================
