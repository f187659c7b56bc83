------------------------- MODULE SSTableRefs_proofs -------------------------
(****************************************************************************)
(* Proofs about SSTableRefs, for any files and any finite sets of reading   *)
(* tasks and snapshots: the reference counts are exact, no reader is closed *)
(* under a Get, an iterator or a snapshot, and no file is leaked.           *)
(****************************************************************************)
EXTENDS SSTableRefs, FiniteSetTheorems, TLAPS

\* The holders that have f pinned when p says what each has pinned.
Pinners(p, f) == {h \in Holders : f \in p[h]}

\* sstableRef.refs counts the holders of a registered reader.
RefsExact == \A f \in registered : refs[f] = Cardinality(Pinners(pins, f))

\* What is pinned is registered.
PinsRegistered == \A h \in Holders : pins[h] \subseteq registered

\* A snapshot has its view pinned from Open until onClose has run.
SnapPins == \A s \in Snaps : pins[s] = IF spc[s] \in {"open", "closing"} THEN view[s] ELSE {}

\* A task has readers pinned only while it reads; an iterator on a snapshot has
\* the view of that snapshot pinned; an idle task is on no snapshot.
TaskPins ==
  \A t \in Tasks :
    /\ tpc[t] # "reading" => pins[t] = {}
    /\ tpc[t] = "idle" => of[t] = NoSnap
    /\ tpc[t] = "reading" /\ of[t] # NoSnap => spc[of[t]] # "none" /\ pins[t] = view[of[t]]

\* Calls on a snapshot find it open throughout.
SnapCalls == \A t \in Tasks : tpc[t] \in {"snapGet", "snapScan"} => of[t] \in Snaps /\ spc[of[t]] = "open"

\* The file of a registered reader is there; it is open until Close closes them all.
RegisteredOpen == \A f \in registered : f \in onDisk /\ (kpc # "done" => reader[f] = "open")

\* Levels, obsolete readers, the inputs and the outputs of a compaction, the
\* files that failed calls left, and the files that were never opened.
Partition ==
  /\ levels \subseteq registered /\ levels \cap obsolete = {}
  /\ registered \subseteq levels \cup obsolete
  /\ onDisk \subseteq registered \cup outs \cup stray
  /\ stray \subseteq onDisk /\ stray \cap (registered \cup outs) = {}
  /\ inputs \subseteq levels
  /\ cpc # "save" => outs = {}
  /\ \A f \in outs : f \notin registered /\ f \notin obsolete /\ reader[f] = "open" /\ f \in onDisk
  /\ \A f \in Files : reader[f] = "none" => f \notin registered \cup obsolete \cup outs

\* An obsolete reader that is still registered is pinned.
ObsoletePinned == \A f \in registered \cap obsolete : refs[f] > 0

\* Close has waited for every reader and for the workers.
Closed ==
  /\ kpc # "none" => isClosing
  /\ kpc \in {"joined", "done"} => IterWgZero /\ cpc = "exit" /\ outs = {}

Inv == /\ TypeOK /\ RefsExact /\ PinsRegistered /\ SnapPins /\ TaskPins /\ SnapCalls
       /\ RegisteredOpen /\ Partition /\ ObsoletePinned /\ Closed

------------------------------------------------------------------------------
(* Counting *)

\* Only finitely many holders can pin a reader.
LEMMA PinnersFinite ==
  ASSUME NEW p, NEW f
  PROVE  IsFiniteSet(Pinners(p, f)) /\ Cardinality(Pinners(p, f)) \in Nat
<1>1. IsFiniteSet(Holders)
  BY RefsAssumption, FS_Union DEF RefsAssumption, Holders
<1>2. Pinners(p, f) \subseteq Holders
  BY DEF Pinners
<1>3. IsFiniteSet(Pinners(p, f))
  BY <1>1, <1>2, FS_Subset
<1> QED BY <1>3, FS_CardinalityType

\* unpinReaders takes one pin from each reader that the holder had pinned.
LEMMA UnpinCount ==
  ASSUME NEW p \in [Holders -> SUBSET Files], NEW h \in Holders, NEW f \in Files
  PROVE  Cardinality(Pinners([p EXCEPT ![h] = {}], f))
           = IF f \in p[h] THEN Cardinality(Pinners(p, f)) - 1 ELSE Cardinality(Pinners(p, f))
<1> DEFINE q == [p EXCEPT ![h] = {}]
<1>1. CASE f \in p[h]
  <2>1. Pinners(q, f) = Pinners(p, f) \ {h}
    BY <1>1 DEF Pinners
  <2>2. h \in Pinners(p, f)
    BY <1>1 DEF Pinners
  <2>3. Cardinality(Pinners(p, f) \ {h}) = Cardinality(Pinners(p, f)) - 1
    BY <2>2, PinnersFinite, FS_RemoveElement
  <2> QED BY <1>1, <2>1, <2>3
<1>2. CASE f \notin p[h]
  <2>1. Pinners(q, f) = Pinners(p, f)
    BY <1>2 DEF Pinners
  <2> QED BY <1>2, <2>1
<1> QED BY <1>1, <1>2

\* A reader with no pins is nobody's.
LEMMA NoPins ==
  ASSUME NEW p \in [Holders -> SUBSET Files], NEW f \in Files
  PROVE  Cardinality(Pinners(p, f)) = 0 <=> \A h \in Holders : f \notin p[h]
<1>1. Cardinality(Pinners(p, f)) = 0 <=> Pinners(p, f) = {}
  BY PinnersFinite, FS_EmptySet
<1> QED BY <1>1 DEF Pinners

------------------------------------------------------------------------------
(* The two operations on the table *)

\* Pinning registered readers keeps the counts exact.
LEMMA PinStep ==
  ASSUME Inv, NEW h \in Holders, pins[h] = {}, NEW fs \in SUBSET registered,
         PinReaders(fs), pins' = [pins EXCEPT ![h] = fs]
  PROVE  /\ refs' \in [Files -> Nat] /\ pins' \in [Holders -> SUBSET Files]
         /\ RefsExact' /\ PinsRegistered' /\ ObsoletePinned'
<1> USE DEF Inv, TypeOK
<1>1. refs' \in [Files -> Nat] /\ pins' \in [Holders -> SUBSET Files]
  BY DEF PinReaders
<1>2. RefsExact'
  <2> SUFFICES ASSUME NEW f \in registered PROVE refs'[f] = Cardinality(Pinners(pins', f))
    BY DEF RefsExact, PinReaders
  <2>1. refs[f] = Cardinality(Pinners(pins, f))
    BY DEF RefsExact
  <2>2. Cardinality(Pinners(pins', f))
          = IF f \in fs THEN Cardinality(Pinners(pins, f)) + 1 ELSE Cardinality(Pinners(pins, f))
    <3>1. CASE f \in fs
      <4>1. Pinners(pins', f) = Pinners(pins, f) \cup {h} /\ h \notin Pinners(pins, f)
        BY <3>1 DEF Pinners
      <4>2. Cardinality(Pinners(pins, f) \cup {h}) = Cardinality(Pinners(pins, f)) + 1
        BY <4>1, PinnersFinite, FS_AddElement
      <4> QED BY <3>1, <4>1, <4>2
    <3>2. CASE f \notin fs
      <4>1. Pinners(pins', f) = Pinners(pins, f)
        BY <3>2 DEF Pinners
      <4> QED BY <3>2, <4>1
    <3> QED BY <3>1, <3>2
  <2>3. refs'[f] = IF f \in fs THEN refs[f] + 1 ELSE refs[f]
    BY DEF PinReaders
  <2> QED BY <2>1, <2>2, <2>3
<1>3. PinsRegistered'
  BY DEF PinsRegistered, PinReaders
<1>4. ObsoletePinned'
  BY DEF ObsoletePinned, PinReaders
<1> QED BY <1>1, <1>2, <1>3, <1>4

\* Unpinning keeps the counts exact and discards only readers that are obsolete
\* and that no other holder has pinned.
LEMMA UnpinStep ==
  ASSUME Inv, NEW h \in Holders,
         UnpinReaders(pins[h]), pins' = [pins EXCEPT ![h] = {}]
  PROVE  /\ refs' \in [Files -> Nat] /\ pins' \in [Holders -> SUBSET Files]
         /\ RefsExact' /\ PinsRegistered' /\ ObsoletePinned'
<1> USE DEF Inv, TypeOK
<1>0. pins' \in [Holders -> SUBSET Files]
  OBVIOUS
<1>1. \A f \in pins[h] : f \in registered /\ refs[f] >= 1
  <2> SUFFICES ASSUME NEW f \in pins[h] PROVE f \in registered /\ refs[f] >= 1
    OBVIOUS
  <2>1. f \in registered /\ f \in Files
    BY DEF PinsRegistered
  <2>2. refs[f] # 0
    BY <2>1, NoPins DEF RefsExact
  <2> QED BY <2>1, <2>2
<1>2. refs' \in [Files -> Nat]
  BY <1>1 DEF UnpinReaders
<1>3. \A f \in registered : refs'[f] = Cardinality(Pinners(pins', f))
  <2> SUFFICES ASSUME NEW f \in registered PROVE refs'[f] = Cardinality(Pinners(pins', f))
    OBVIOUS
  <2>1. refs[f] = Cardinality(Pinners(pins, f))
    BY DEF RefsExact
  <2>2. Cardinality(Pinners(pins', f))
          = IF f \in pins[h] THEN Cardinality(Pinners(pins, f)) - 1 ELSE Cardinality(Pinners(pins, f))
    BY UnpinCount
  <2>3. refs'[f] = IF f \in pins[h] THEN refs[f] - 1 ELSE refs[f]
    BY DEF UnpinReaders
  <2> QED BY <2>1, <2>2, <2>3
<1>4. RefsExact'
  BY <1>3 DEF RefsExact, UnpinReaders, Discard
<1>5. PinsRegistered'
  <2> SUFFICES ASSUME NEW g \in Holders, NEW f \in pins'[g] PROVE f \in registered'
    BY DEF PinsRegistered
  <2>1. g # h /\ f \in pins[g] /\ f \in registered /\ f \in Files
    BY DEF PinsRegistered
  <2>2. refs'[f] # 0
    BY <1>0, <1>3, <2>1, NoPins
  <2>3. f \in LastPin(pins[h]) => refs'[f] = 0
    BY <2>1 DEF UnpinReaders, LastPin
  <2> QED BY <2>1, <2>2, <2>3 DEF UnpinReaders, Discard
<1>6. ObsoletePinned'
  <2> SUFFICES ASSUME NEW f \in registered', f \in obsolete PROVE refs'[f] > 0
    BY DEF ObsoletePinned, UnpinReaders
  <2>1. f \in registered /\ f \notin LastPin(pins[h]) /\ f \in Files
    BY DEF UnpinReaders, Discard
  <2>2. refs[f] > 0
    BY <2>1 DEF ObsoletePinned
  <2> QED BY <1>2, <2>1, <2>2 DEF UnpinReaders, LastPin
<1> QED BY <1>0, <1>2, <1>4, <1>5, <1>6

\* Unpinning keeps the readers of the levels open and loses track of no file.
LEMMA UnpinFiles ==
  ASSUME Inv, NEW h \in Holders, UnpinReaders(pins[h]),
         UNCHANGED <<levels, inputs, outs, cpc, kpc>>
  PROVE  RegisteredOpen' /\ Partition'
<1> USE DEF Inv, TypeOK
<1> DEFINE gone == LastPin(pins[h])
<1>1. gone \subseteq registered \cap obsolete /\ gone \cap outs = {}
  BY DEF LastPin, Partition
<1>2. PICK left \in SUBSET gone : onDisk' = onDisk \ (gone \ left) /\ stray' = stray \cup left
  BY DEF UnpinReaders, Discard, Remove
<1>3. /\ reader' = [f \in Files |-> IF f \in gone THEN "closed" ELSE reader[f]]
      /\ registered' = registered \ gone /\ obsolete' = obsolete
  BY DEF UnpinReaders, Discard
<1>4. RegisteredOpen'
  BY <1>1, <1>2, <1>3 DEF RegisteredOpen
<1>5. left \subseteq onDisk
  BY <1>1, <1>2 DEF RegisteredOpen
<1> HIDE DEF gone
<1>6. Partition'
  BY <1>1, <1>2, <1>3, <1>5 DEF Partition
<1> QED BY <1>4, <1>6

------------------------------------------------------------------------------
(* The invariant *)

\* The initial state satisfies the invariant.
LEMMA InvInit == Init => Inv
<1> SUFFICES ASSUME Init PROVE Inv
  OBVIOUS
<1>1. TypeOK
  BY Zenon DEF Init, TypeOK
<1>2. RefsExact /\ PinsRegistered /\ ObsoletePinned /\ RegisteredOpen /\ Closed
  BY DEF Init, RefsExact, PinsRegistered, ObsoletePinned, RegisteredOpen, Closed, Holders
<1>3. SnapPins /\ TaskPins /\ SnapCalls
  BY DEF Init, SnapPins, TaskPins, SnapCalls, Holders
<1>4. Partition
  BY DEF Init, Partition
<1> QED BY <1>1, <1>2, <1>3, <1>4 DEF Inv

\* Tasks and snapshots are distinct holders.
LEMMA HoldersAre ==
  /\ \A t \in Tasks : t \in Holders /\ t \notin Snaps
  /\ \A s \in Snaps : s \in Holders /\ s \notin Tasks
BY RefsAssumption DEF RefsAssumption, Holders

\* Every step preserves the invariant, if callers close a snapshot only between
\* their calls on it.
LEMMA InvStep == ASSUME Exclusive PROVE Inv /\ [Next]_vars => Inv'
<1> SUFFICES ASSUME Inv, [Next]_vars PROVE Inv'
  OBVIOUS
<1> USE DEF table, snaps, workers, closing
<1>1. ASSUME NEW t \in Tasks, Read(t) PROVE Inv'
  <2>0. t \in Holders /\ pins[t] = {} /\ levels \in SUBSET registered
    BY <1>1, HoldersAre, RefsAssumption
    DEF RefsAssumption, Read, Inv, TypeOK, SnapPins, TaskPins, SnapCalls, PinsRegistered,
        Partition
  <2>1. /\ refs' \in [Files -> Nat] /\ pins' \in [Holders -> SUBSET Files]
        /\ (RefsExact /\ PinsRegistered /\ ObsoletePinned)'
    BY <1>1, <2>0, PinStep DEF Read
  <2>2. TypeOK'
    BY <1>1, <2>1 DEF Read, PinReaders, Inv, TypeOK
  <2>3. (SnapPins /\ TaskPins /\ SnapCalls)'
    BY <1>1, HoldersAre, RefsAssumption
    DEF RefsAssumption, Read, Inv, TypeOK, SnapPins, TaskPins, SnapCalls
  <2>4. (RegisteredOpen /\ Partition)'
    BY <1>1 DEF Read, PinReaders, Inv, TypeOK, RegisteredOpen, Partition
  <2>5. Closed'
    BY <1>1 DEF Read, Inv, TypeOK, Closed, IterWgZero
  <2> QED BY <2>1, <2>2, <2>3, <2>4, <2>5 DEF Inv
<1>2. ASSUME NEW t \in Tasks, ReadDone(t) PROVE Inv'
  <2>1. /\ refs' \in [Files -> Nat] /\ pins' \in [Holders -> SUBSET Files]
        /\ (RefsExact /\ PinsRegistered /\ ObsoletePinned)'
    BY <1>2, HoldersAre, UnpinStep DEF ReadDone
  <2>2. TypeOK'
    BY <1>2, <2>1 DEF ReadDone, UnpinReaders, Discard, Remove, LastPin, Inv, TypeOK
  <2>3. (SnapPins /\ TaskPins /\ SnapCalls)'
    BY <1>2, HoldersAre, RefsAssumption
    DEF RefsAssumption, ReadDone, Inv, TypeOK, SnapPins, TaskPins, SnapCalls
  <2>4. (RegisteredOpen /\ Partition)'
    BY <1>2, HoldersAre, UnpinFiles DEF ReadDone, Inv, RegisteredOpen, Partition
  <2>5. Closed'
    BY <1>2 DEF ReadDone, Inv, TypeOK, Closed, IterWgZero
  <2> QED BY <2>1, <2>2, <2>3, <2>4, <2>5 DEF Inv
<1>3. ASSUME NEW t \in Tasks, SnapshotGetDone(t) PROVE Inv'
  <2>1. (RefsExact /\ PinsRegistered /\ ObsoletePinned)'
    BY <1>3 DEF SnapshotGetDone, Inv, TypeOK, RefsExact, PinsRegistered, ObsoletePinned
  <2>2. TypeOK'
    BY <1>3, <2>1 DEF SnapshotGetDone, Inv, TypeOK
  <2>3. (SnapPins /\ TaskPins /\ SnapCalls)'
    BY <1>3, HoldersAre, RefsAssumption
    DEF RefsAssumption, SnapshotGetDone, Inv, TypeOK, SnapPins, TaskPins, SnapCalls
  <2>4. (RegisteredOpen /\ Partition)'
    BY <1>3 DEF SnapshotGetDone, Inv, TypeOK, RegisteredOpen, Partition
  <2>5. Closed'
    BY <1>3 DEF SnapshotGetDone, Inv, TypeOK, Closed, IterWgZero
  <2> QED BY <2>1, <2>2, <2>3, <2>4, <2>5 DEF Inv
<1>4. ASSUME NEW t \in Tasks, SnapshotScanPin(t) PROVE Inv'
  <2>0. t \in Holders /\ pins[t] = {} /\ ScanPins(t) \in SUBSET registered
    BY <1>4, HoldersAre, RefsAssumption
    DEF RefsAssumption, SnapshotScanPin, Inv, TypeOK, SnapPins, TaskPins, SnapCalls, PinsRegistered,
        Partition, ScanPins
  <2>1. /\ refs' \in [Files -> Nat] /\ pins' \in [Holders -> SUBSET Files]
        /\ (RefsExact /\ PinsRegistered /\ ObsoletePinned)'
    BY <1>4, <2>0, PinStep DEF SnapshotScanPin
  <2>2. TypeOK'
    BY <1>4, <2>1 DEF SnapshotScanPin, PinReaders, ScanPins, Inv, TypeOK
  <2>3. (SnapPins /\ TaskPins /\ SnapCalls)'
    BY <1>4, HoldersAre, RefsAssumption
    DEF RefsAssumption, SnapshotScanPin, Inv, TypeOK, SnapPins, TaskPins, SnapCalls, ScanPins
  <2>4. (RegisteredOpen /\ Partition)'
    BY <1>4 DEF SnapshotScanPin, PinReaders, ScanPins, Inv, TypeOK, RegisteredOpen, Partition
  <2>5. Closed'
    BY <1>4 DEF SnapshotScanPin, Inv, TypeOK, Closed, IterWgZero, Partition, SnapCalls
  <2> QED BY <2>1, <2>2, <2>3, <2>4, <2>5 DEF Inv
<1>5. ASSUME NEW t \in Tasks, NEW s \in Snaps, SnapshotCall(t, s) PROVE Inv'
  <2>1. (RefsExact /\ PinsRegistered /\ ObsoletePinned)'
    BY <1>5 DEF SnapshotCall, Inv, TypeOK, RefsExact, PinsRegistered, ObsoletePinned
  <2>2. TypeOK'
    BY <1>5, <2>1 DEF SnapshotCall, Inv, TypeOK
  <2>3. (SnapPins /\ TaskPins /\ SnapCalls)'
    BY <1>5, HoldersAre, RefsAssumption
    DEF RefsAssumption, SnapshotCall, Inv, TypeOK, SnapPins, TaskPins, SnapCalls
  <2>4. (RegisteredOpen /\ Partition)'
    BY <1>5 DEF SnapshotCall, Inv, TypeOK, RegisteredOpen, Partition
  <2>5. Closed'
    BY <1>5 DEF SnapshotCall, Inv, TypeOK, Closed, IterWgZero
  <2> QED BY <2>1, <2>2, <2>3, <2>4, <2>5 DEF Inv
<1>6. ASSUME NEW s \in Snaps, SnapshotOpen(s) PROVE Inv'
  <2>0. s \in Holders /\ pins[s] = {} /\ levels \in SUBSET registered
    BY <1>6, HoldersAre, RefsAssumption
    DEF RefsAssumption, SnapshotOpen, Inv, TypeOK, SnapPins, TaskPins, SnapCalls, PinsRegistered,
        Partition
  <2>1. /\ refs' \in [Files -> Nat] /\ pins' \in [Holders -> SUBSET Files]
        /\ (RefsExact /\ PinsRegistered /\ ObsoletePinned)'
    BY <1>6, <2>0, PinStep DEF SnapshotOpen
  <2>2. TypeOK'
    BY <1>6, <2>1 DEF SnapshotOpen, PinReaders, Inv, TypeOK
  <2>3. (SnapPins /\ TaskPins /\ SnapCalls)'
    BY <1>6, HoldersAre, RefsAssumption
    DEF RefsAssumption, SnapshotOpen, Inv, TypeOK, SnapPins, TaskPins, SnapCalls
  <2>4. (RegisteredOpen /\ Partition)'
    BY <1>6 DEF SnapshotOpen, PinReaders, Inv, TypeOK, RegisteredOpen, Partition
  <2>5. Closed'
    BY <1>6 DEF SnapshotOpen, Inv, TypeOK, Closed, IterWgZero
  <2> QED BY <2>1, <2>2, <2>3, <2>4, <2>5 DEF Inv
<1>7. ASSUME NEW s \in Snaps, SnapshotClose(s) PROVE Inv'
  <2>1. (RefsExact /\ PinsRegistered /\ ObsoletePinned)'
    BY <1>7 DEF SnapshotClose, Inv, TypeOK, RefsExact, PinsRegistered, ObsoletePinned
  <2>2. TypeOK'
    BY <1>7, <2>1 DEF SnapshotClose, Inv, TypeOK
  <2>3. (SnapPins /\ TaskPins /\ SnapCalls)'
    BY <1>7, HoldersAre, RefsAssumption
    DEF RefsAssumption, SnapshotClose, Inv, TypeOK, SnapPins, TaskPins, SnapCalls, Calling
  <2>4. (RegisteredOpen /\ Partition)'
    BY <1>7 DEF SnapshotClose, Inv, TypeOK, RegisteredOpen, Partition
  <2>5. Closed'
    BY <1>7 DEF SnapshotClose, Inv, TypeOK, Closed, IterWgZero
  <2> QED BY <2>1, <2>2, <2>3, <2>4, <2>5 DEF Inv
<1>8. ASSUME NEW s \in Snaps, SnapshotOnClose(s) PROVE Inv'
  <2>1. /\ refs' \in [Files -> Nat] /\ pins' \in [Holders -> SUBSET Files]
        /\ (RefsExact /\ PinsRegistered /\ ObsoletePinned)'
    BY <1>8, HoldersAre, UnpinStep DEF SnapshotOnClose
  <2>2. TypeOK'
    BY <1>8, <2>1 DEF SnapshotOnClose, UnpinReaders, Discard, Remove, LastPin, Inv, TypeOK
  <2>3. (SnapPins /\ TaskPins /\ SnapCalls)'
    BY <1>8, HoldersAre, RefsAssumption
    DEF RefsAssumption, SnapshotOnClose, Inv, TypeOK, SnapPins, TaskPins, SnapCalls
  <2>4. (RegisteredOpen /\ Partition)'
    BY <1>8, HoldersAre, UnpinFiles DEF SnapshotOnClose, Inv, RegisteredOpen, Partition
  <2>5. Closed'
    BY <1>8 DEF SnapshotOnClose, Inv, TypeOK, Closed, IterWgZero
  <2> QED BY <2>1, <2>2, <2>3, <2>4, <2>5 DEF Inv
<1>9. ASSUME NEW f \in Files, FlushRegister(f) PROVE Inv'
  <2>1. (RefsExact /\ PinsRegistered /\ ObsoletePinned)'
    <3>1. f \notin registered /\ f \notin obsolete
      BY <1>9 DEF FlushRegister, Fresh, Inv, TypeOK, Partition
    <3>2. Cardinality(Pinners(pins, f)) = 0
      BY <3>1, NoPins DEF Inv, TypeOK, PinsRegistered
    <3>3. RefsExact'
      BY <1>9, <3>1, <3>2 DEF FlushRegister, Fresh, Inv, TypeOK, RefsExact
    <3>4. (PinsRegistered /\ ObsoletePinned)'
      BY <1>9, <3>1 DEF FlushRegister, Fresh, Inv, TypeOK, PinsRegistered, ObsoletePinned
    <3> QED BY <3>3, <3>4
  <2>2. TypeOK'
    BY <1>9, <2>1 DEF FlushRegister, Fresh, Inv, TypeOK
  <2>3. (SnapPins /\ TaskPins /\ SnapCalls)'
    BY <1>9, HoldersAre, RefsAssumption
    DEF RefsAssumption, FlushRegister, Inv, TypeOK, SnapPins, TaskPins, SnapCalls
  <2>4. (RegisteredOpen /\ Partition)'
    BY <1>9 DEF FlushRegister, Fresh, Inv, TypeOK, RegisteredOpen, Partition, Closed
  <2>5. Closed'
    BY <1>9 DEF FlushRegister, Fresh, Inv, TypeOK, Closed, IterWgZero
  <2> QED BY <2>1, <2>2, <2>3, <2>4, <2>5 DEF Inv
<1>10. CASE CompactStart
  <2>1. (RefsExact /\ PinsRegistered /\ ObsoletePinned)'
    BY <1>10 DEF CompactStart, Inv, TypeOK, RefsExact, PinsRegistered, ObsoletePinned
  <2>2. TypeOK'
    BY <1>10, <2>1 DEF CompactStart, Inv, TypeOK
  <2>3. (SnapPins /\ TaskPins /\ SnapCalls)'
    BY <1>10, HoldersAre, RefsAssumption
    DEF RefsAssumption, CompactStart, Inv, TypeOK, SnapPins, TaskPins, SnapCalls
  <2>4. (RegisteredOpen /\ Partition)'
    BY <1>10 DEF CompactStart, Inv, TypeOK, RegisteredOpen, Partition
  <2>5. Closed'
    BY <1>10 DEF CompactStart, Inv, TypeOK, Closed, IterWgZero
  <2> QED BY <2>1, <2>2, <2>3, <2>4, <2>5 DEF Inv
<1>11. CASE CompactRun
  <2>1. (RefsExact /\ PinsRegistered /\ ObsoletePinned)'
    BY <1>11 DEF CompactRun, Fresh, Inv, TypeOK, RefsExact, PinsRegistered, ObsoletePinned
  <2>2. TypeOK'
    BY <1>11, <2>1 DEF CompactRun, Fresh, Inv, TypeOK
  <2>3. (SnapPins /\ TaskPins /\ SnapCalls)'
    BY <1>11, HoldersAre, RefsAssumption
    DEF RefsAssumption, CompactRun, Inv, TypeOK, SnapPins, TaskPins, SnapCalls
  <2>4. (RegisteredOpen /\ Partition)'
    BY <1>11 DEF CompactRun, Fresh, Inv, TypeOK, RegisteredOpen, Partition, Closed
  <2>5. Closed'
    BY <1>11 DEF CompactRun, Inv, TypeOK, Closed, IterWgZero
  <2> QED BY <2>1, <2>2, <2>3, <2>4, <2>5 DEF Inv
<1>12. CASE CompactAbort
  <2>1. (RefsExact /\ PinsRegistered /\ ObsoletePinned)'
    BY <1>12 DEF CompactAbort, Remove, Inv, TypeOK, RefsExact, PinsRegistered, ObsoletePinned
  <2>2. TypeOK'
    BY <1>12, <2>1 DEF CompactAbort, Remove, Inv, TypeOK
  <2>3. (SnapPins /\ TaskPins /\ SnapCalls)'
    BY <1>12, HoldersAre, RefsAssumption
    DEF RefsAssumption, CompactAbort, Remove, Inv, TypeOK, SnapPins, TaskPins, SnapCalls
  <2>4. (RegisteredOpen /\ Partition)'
    BY <1>12 DEF CompactAbort, Remove, Inv, TypeOK, RegisteredOpen, Partition, Closed
  <2>5. Closed'
    BY <1>12 DEF CompactAbort, Remove, Inv, TypeOK, Closed, IterWgZero
  <2> QED BY <2>1, <2>2, <2>3, <2>4, <2>5 DEF Inv
<1>13. CASE CompactCommit
  <2>1. (RefsExact /\ PinsRegistered /\ ObsoletePinned)'
    <3>1. \A f \in outs : f \notin registered /\ f \notin obsolete /\ Cardinality(Pinners(pins, f)) = 0
      BY NoPins DEF Inv, TypeOK, Partition, PinsRegistered
    <3>2. \A f \in Unpinned : \A h \in Holders : f \notin pins[h]
      BY NoPins DEF Inv, TypeOK, Partition, RefsExact, Unpinned
    <3>3. RefsExact'
      BY <1>13, <3>1 DEF CompactCommit, Remove, Inv, TypeOK, RefsExact
    <3>4. PinsRegistered'
      BY <1>13, <3>2 DEF CompactCommit, Remove, Inv, TypeOK, PinsRegistered
    <3>5. ObsoletePinned'
      BY <1>13, <3>1 DEF CompactCommit, Remove, Inv, TypeOK, Partition, ObsoletePinned, Unpinned
    <3> QED BY <3>3, <3>4, <3>5
  <2>2. TypeOK'
    BY <1>13, <2>1 DEF CompactCommit, Unpinned, Remove, Inv, TypeOK
  <2>3. (SnapPins /\ TaskPins /\ SnapCalls)'
    BY <1>13, HoldersAre, RefsAssumption
    DEF RefsAssumption, CompactCommit, Remove, Inv, TypeOK, SnapPins, TaskPins, SnapCalls
  <2>4. (RegisteredOpen /\ Partition)'
    BY <1>13 DEF CompactCommit, Unpinned, Remove, Inv, TypeOK, RegisteredOpen, Partition, Closed
  <2>5. Closed'
    BY <1>13 DEF CompactCommit, Remove, Inv, TypeOK, Closed, IterWgZero
  <2> QED BY <2>1, <2>2, <2>3, <2>4, <2>5 DEF Inv
<1>14. CASE CloseStart
  <2>1. (RefsExact /\ PinsRegistered /\ ObsoletePinned)'
    BY <1>14 DEF CloseStart, Inv, TypeOK, RefsExact, PinsRegistered, ObsoletePinned
  <2>2. TypeOK'
    BY <1>14, <2>1 DEF CloseStart, Inv, TypeOK
  <2>3. (SnapPins /\ TaskPins /\ SnapCalls)'
    BY <1>14, HoldersAre, RefsAssumption
    DEF RefsAssumption, CloseStart, Inv, TypeOK, SnapPins, TaskPins, SnapCalls
  <2>4. (RegisteredOpen /\ Partition)'
    BY <1>14 DEF CloseStart, Inv, TypeOK, RegisteredOpen, Partition
  <2>5. Closed'
    BY <1>14 DEF CloseStart, Inv, TypeOK, Closed, IterWgZero
  <2> QED BY <2>1, <2>2, <2>3, <2>4, <2>5 DEF Inv
<1>15. CASE CloseJoin
  <2>1. (RefsExact /\ PinsRegistered /\ ObsoletePinned)'
    BY <1>15 DEF CloseJoin, Inv, TypeOK, RefsExact, PinsRegistered, ObsoletePinned
  <2>2. TypeOK'
    BY <1>15, <2>1 DEF CloseJoin, Inv, TypeOK
  <2>3. (SnapPins /\ TaskPins /\ SnapCalls)'
    BY <1>15, HoldersAre, RefsAssumption
    DEF RefsAssumption, CloseJoin, Inv, TypeOK, SnapPins, TaskPins, SnapCalls
  <2>4. (RegisteredOpen /\ Partition)'
    BY <1>15 DEF CloseJoin, Inv, TypeOK, RegisteredOpen, Partition
  <2>5. Closed'
    BY <1>15 DEF CloseJoin, Inv, TypeOK, Closed, IterWgZero, Partition, SnapCalls
  <2> QED BY <2>1, <2>2, <2>3, <2>4, <2>5 DEF Inv
<1>16. CASE CloseReaders
  <2>1. (RefsExact /\ PinsRegistered /\ ObsoletePinned)'
    BY <1>16 DEF CloseReaders, Inv, TypeOK, RefsExact, PinsRegistered, ObsoletePinned
  <2>2. TypeOK'
    BY <1>16, <2>1 DEF CloseReaders, Inv, TypeOK
  <2>3. (SnapPins /\ TaskPins /\ SnapCalls)'
    BY <1>16, HoldersAre, RefsAssumption
    DEF RefsAssumption, CloseReaders, Inv, TypeOK, SnapPins, TaskPins, SnapCalls
  <2>4. (RegisteredOpen /\ Partition)'
    BY <1>16 DEF CloseReaders, Inv, TypeOK, RegisteredOpen, Partition, Closed
  <2>5. Closed'
    BY <1>16 DEF CloseReaders, Inv, TypeOK, Closed, IterWgZero, Partition, SnapCalls
  <2> QED BY <2>1, <2>2, <2>3, <2>4, <2>5 DEF Inv
<1>17. CASE UNCHANGED vars
  BY <1>17 DEF vars, Inv, TypeOK, RefsExact, PinsRegistered, SnapPins, TaskPins, SnapCalls,
     RegisteredOpen, Partition, ObsoletePinned, Closed, IterWgZero
<1> QED
  BY <1>1, <1>2, <1>3, <1>4, <1>5, <1>6, <1>7, <1>8, <1>9, <1>10, <1>11, <1>12, <1>13, <1>14,
     <1>15, <1>16, <1>17
  DEF Next, Task, Snapshot, Worker, Close

\* Type correctness, and reference counts that never go negative, when callers
\* close a snapshot only between their calls on it (as the RPC server does).
THEOREM RefsTypeCorrect == ASSUME Exclusive PROVE Spec => []TypeOK
<1>1. Inv => TypeOK
  BY DEF Inv
<1> QED BY InvInit, InvStep, <1>1, PTL DEF Spec

\* No Get, iterator or snapshot call reads from a closed or deleted SSTable: the
\* refcount, the obsolete mark and the waits of Close are enough.
THEOREM NoReaderClosedInUse == ASSUME Exclusive PROVE Spec => []ReadersStayOpen
<1>1. Inv => ReadersStayOpen
  <2> SUFFICES ASSUME Inv, NEW t \in Tasks, NEW f \in InUse(t)
               PROVE  reader[f] = "open" /\ f \in onDisk
    BY DEF ReadersStayOpen
  <2> USE HoldersAre DEF Inv
  <2>1. \E h \in Holders : f \in pins[h]
    <3>1. CASE tpc[t] = "reading"
      BY <3>1 DEF InUse, TypeOK, TaskPins
    <3>2. CASE tpc[t] \in {"snapGet", "snapScan"}
      <4>1. of[t] \in Snaps /\ spc[of[t]] = "open" /\ f \in view[of[t]]
        BY <3>2 DEF InUse, SnapCalls
      <4> QED BY <4>1 DEF SnapPins
    <3> QED BY <3>1, <3>2 DEF InUse, TypeOK
  <2>2. kpc # "done"
    BY DEF Closed, IterWgZero, InUse, TypeOK, SnapCalls
  <2> QED BY <2>1, <2>2 DEF PinsRegistered, RegisteredOpen
<1> QED BY InvInit, InvStep, <1>1, PTL DEF Spec

\* Every SSTable on disk is live, about to be registered, pinned, or left by a
\* failed call and in no level: nothing that a compaction has replaced outlives
\* its last reader unless the system refuses to delete it.
THEOREM NoFileLeaks == ASSUME Exclusive PROVE Spec => []NoLeakedFiles
<1>1. Inv => NoLeakedFiles
  BY DEF Inv, TypeOK, Partition, ObsoletePinned, NoLeakedFiles
<1> QED BY InvInit, InvStep, <1>1, PTL DEF Spec
=============================================================================
