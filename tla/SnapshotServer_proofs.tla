------------------------ MODULE SnapshotServer_proofs ------------------------
(****************************************************************************)
(* Proofs about SnapshotServer, for any snapshots and any finite set of     *)
(* requests: an open snapshot has exactly one owner who is bound to close   *)
(* it, and the server implements SnapshotLease.                             *)
(****************************************************************************)
EXTENDS SnapshotServer, FiniteSetTheorems, TLAPS

\* The requests that hold a reference on entry i.
ReadersIn(r, d, i) == {q \in Requests : r[q] \in {"acquired", "using", "used"} /\ d[q] = i}
Readers(i) == ReadersIn(rpc, id, i)

\* The requests that are to close snapshot i, or to hand it to the map.
Closers(i) == {q \in Requests : rpc[q] \in {"created", "close"} /\ id[q] = i}

\* snapshotEntry.refCount counts the requests between acquire and release.
RefsExact == \A i \in Ids : refCount[i] = Cardinality(Readers(i))

\* A request works on a snapshot exactly while it is not idle.
RequestIds == \A q \in Requests : rpc[q] # "idle" => id[q] \in Ids

\* released is set when the entry's releaser has looked at the count.
ReleasedFlag == \A i \in Ids : released[i] <=> release[i] \in {"close", "done"}

\* A snapshot that is in the map, or was taken out of it, is open until the
\* last holder has closed it.
EntryOpen ==
  \A i \in Ids :
    /\ snap[i] = "none" => release[i] = "none"
    /\ i \in snapshots => snap[i] = "open" /\ release[i] = "none"
    /\ release[i] \in {"taken", "close"} => snap[i] = "open"
    /\ release[i] = "close" => refCount[i] = 0
    /\ release[i] = "done" => (snap[i] = "open" <=> refCount[i] > 0 \/ Closers(i) # {})
    /\ release[i] = "none" /\ i \notin snapshots => (snap[i] = "open" <=> Closers(i) # {})

\* The creator of a snapshot has it to itself; so does the reader that was the
\* last to leave a released entry.
SoleCloser ==
  /\ \A q \in Requests : rpc[q] = "created" =>
       id[q] \notin snapshots /\ release[id[q]] = "none" /\ refCount[id[q]] = 0
  /\ \A q \in Requests : rpc[q] = "close" => release[id[q]] = "done" /\ refCount[id[q]] = 0
  /\ \A p, q \in Requests :
       rpc[p] \in {"created", "close"} /\ rpc[q] \in {"created", "close"} /\ id[p] = id[q] => p = q

\* A reader's entry is in the map, or its releaser leaves the closing to it.
ReadersEntry ==
  \A q \in Requests : rpc[q] \in {"acquired", "using", "used"} =>
    id[q] \in snapshots \/ release[id[q]] \in {"taken", "done"}

Inv == TypeOK /\ RefsExact /\ RequestIds /\ ReleasedFlag /\ EntryOpen /\ SoleCloser /\ ReadersEntry

-----------------------------------------------------------------------------
(* Counting *)

\* Only finitely many requests hold a reference.
LEMMA ReadersFinite ==
  ASSUME NEW r, NEW d, NEW i
  PROVE  IsFiniteSet(ReadersIn(r, d, i)) /\ Cardinality(ReadersIn(r, d, i)) \in Nat
<1>1. ReadersIn(r, d, i) \subseteq Requests
  BY DEF ReadersIn
<1>2. IsFiniteSet(ReadersIn(r, d, i))
  BY <1>1, ServerAssumption, FS_Subset DEF ServerAssumption
<1> QED BY <1>2, FS_CardinalityType

\* An entry without references has no reader.
LEMMA NoReaders ==
  ASSUME NEW r, NEW d, NEW i
  PROVE  Cardinality(ReadersIn(r, d, i)) = 0 <=> ReadersIn(r, d, i) = {}
BY ReadersFinite, FS_EmptySet

\* A request that becomes a reader of i adds one to i's readers.
LEMMA ReaderJoins ==
  ASSUME NEW r, NEW d, NEW i, NEW q, q \notin ReadersIn(r, d, i)
  PROVE  Cardinality(ReadersIn(r, d, i) \cup {q}) = Cardinality(ReadersIn(r, d, i)) + 1
BY ReadersFinite, FS_AddElement

\* A reader that leaves takes one from them.
LEMMA ReaderLeaves ==
  ASSUME NEW r, NEW d, NEW i, NEW q \in ReadersIn(r, d, i)
  PROVE  Cardinality(ReadersIn(r, d, i) \ {q}) = Cardinality(ReadersIn(r, d, i)) - 1
BY ReadersFinite, FS_RemoveElement

\* A step that changes nobody's reading keeps the counts.
LEMMA SameReaders ==
  ASSUME RefsExact, UNCHANGED refCount,
         \A i \in Ids : ReadersIn(rpc', id', i) = ReadersIn(rpc, id, i)
  PROVE  RefsExact'
BY DEF RefsExact, Readers

\* A reader's entry has a reference, and its snapshot is open.
LEMMA ReaderHasOpen ==
  ASSUME Inv, NEW q \in Requests, rpc[q] \in {"acquired", "using", "used"}
  PROVE  id[q] \in Ids /\ refCount[id[q]] > 0 /\ snap[id[q]] = "open"
<1>1. id[q] \in Ids
  BY DEF Inv, RequestIds
<1>2. q \in Readers(id[q])
  BY DEF Readers, ReadersIn
<1>3. refCount[id[q]] # 0
  BY <1>1, <1>2, NoReaders DEF Inv, RefsExact, Readers
<1>4. refCount[id[q]] > 0
  BY <1>1, <1>3 DEF Inv, TypeOK
<1>5. snap[id[q]] = "open"
  BY <1>1, <1>4 DEF Inv, ReadersEntry, EntryOpen
<1> QED BY <1>1, <1>4, <1>5

\* No request is calling a snapshot whose entry has no references.
LEMMA NoReference ==
  ASSUME Inv, NEW i \in Ids, refCount[i] = 0
  PROVE  \A q \in Requests : id[q] = i => rpc[q] \notin {"acquired", "using", "used"}
BY ReaderHasOpen DEF Inv, TypeOK

-----------------------------------------------------------------------------
(* The invariant *)

LEMMA InvInit == Init => Inv
<1> SUFFICES ASSUME Init PROVE Inv
  OBVIOUS
<1>1. \A i \in Ids : ReadersIn(rpc, id, i) = {}
  BY DEF Init, ReadersIn
<1>2. RefsExact
  BY <1>1, NoReaders DEF Init, RefsExact, Readers
<1>3. TypeOK
  BY DEF Init, TypeOK
<1> QED
  BY <1>2, <1>3
  DEF Init, Inv, RequestIds, ReleasedFlag, EntryOpen, SoleCloser, ReadersEntry, Closers

LEMMA InvStep == Inv /\ [Next]_vars => Inv'
<1> SUFFICES ASSUME Inv, [Next]_vars PROVE Inv'
  OBVIOUS
<1> USE DEF Inv
<1>1. ASSUME NEW q \in Requests, NEW i \in Ids, CreateSnapshot(q, i) PROVE Inv'
  <2> USE <1>1 DEF CreateSnapshot
  <2>1. TypeOK' /\ RequestIds' /\ ReleasedFlag' /\ ReadersEntry'
    BY DEF TypeOK, RequestIds, ReleasedFlag, ReadersEntry, entry
  <2>2. RefsExact'
    BY SameReaders DEF ReadersIn, TypeOK, entry
  <2>3. Closers(i) = {} /\ i \notin snapshots /\ release[i] = "none" /\ refCount[i] = 0
    <3>1. i \notin snapshots /\ release[i] = "none" /\ Closers(i) = {}
      BY DEF EntryOpen, TypeOK, Closers, SoleCloser
    <3>2. Readers(i) = {}
      BY ReaderHasOpen DEF Readers, ReadersIn
    <3> QED BY <3>1, <3>2, NoReaders DEF RefsExact, Readers
  <2>4. SoleCloser'
    BY <2>3 DEF SoleCloser, TypeOK, Closers, entry
  <2>5. EntryOpen'
    BY <2>3 DEF EntryOpen, TypeOK, Closers, entry
  <2> QED BY <2>1, <2>2, <2>4, <2>5
<1>2. ASSUME NEW q \in Requests, Register(q) PROVE Inv'
  <2> USE <1>2 DEF Register, MayRegister
  <2>0. id[q] \in Ids /\ id[q] \notin snapshots /\ release[id[q]] = "none" /\ refCount[id[q]] = 0
        /\ Closers(id[q]) = {q} /\ snap[id[q]] = "open"
    BY DEF RequestIds, SoleCloser, Closers, EntryOpen
  <2>1. TypeOK' /\ RequestIds' /\ ReleasedFlag' /\ ReadersEntry'
    BY <2>0 DEF TypeOK, RequestIds, ReleasedFlag, ReadersEntry, entry
  <2>2. RefsExact'
    BY <2>0, SameReaders DEF ReadersIn, TypeOK, entry
  <2>4. SoleCloser'
    BY <2>0 DEF SoleCloser, TypeOK, Closers, entry
  <2>5. EntryOpen'
    BY <2>0 DEF EntryOpen, TypeOK, Closers, SoleCloser, entry
  <2> QED BY <2>1, <2>2, <2>4, <2>5
<1>3. ASSUME NEW q \in Requests, NEW i \in Ids, AcquireSnapshot(q, i) PROVE Inv'
  <2> USE <1>3 DEF AcquireSnapshot, Acquired
  <2>1. TypeOK' /\ RequestIds' /\ ReleasedFlag' /\ ReadersEntry'
    BY DEF TypeOK, RequestIds, ReleasedFlag, ReadersEntry
  <2>2. RefsExact'
    <3> SUFFICES ASSUME NEW j \in Ids PROVE refCount'[j] = Cardinality(ReadersIn(rpc', id', j))
      BY DEF RefsExact, Readers
    <3>1. CASE j = i
      <4>1. q \notin ReadersIn(rpc, id, i) /\ ReadersIn(rpc', id', i) = ReadersIn(rpc, id, i) \cup {q}
        BY DEF ReadersIn, TypeOK
      <4>2. Cardinality(ReadersIn(rpc, id, i) \cup {q}) = Cardinality(ReadersIn(rpc, id, i)) + 1
        BY <4>1, ReaderJoins
      <4> QED BY <3>1, <4>1, <4>2 DEF RefsExact, Readers, TypeOK
    <3>2. CASE j # i
      <4>1. ReadersIn(rpc', id', j) = ReadersIn(rpc, id, j)
        BY <3>2 DEF ReadersIn, TypeOK
      <4> QED BY <3>2, <4>1 DEF RefsExact, Readers, TypeOK
    <3> QED BY <3>1, <3>2
  <2>3. release[i] = "none"
    BY DEF EntryOpen
  <2>4. SoleCloser'
    BY <2>3 DEF SoleCloser, TypeOK, RequestIds
  <2>5. EntryOpen'
    BY <2>3 DEF EntryOpen, TypeOK, Closers
  <2> QED BY <2>1, <2>2, <2>4, <2>5
<1>4. ASSUME NEW q \in Requests, CallSnapshot(q) \/ CallReturns(q) PROVE Inv'
  <2> USE <1>4 DEF CallSnapshot, CallReturns
  <2>1. TypeOK' /\ RequestIds' /\ ReleasedFlag' /\ ReadersEntry'
    BY DEF TypeOK, RequestIds, ReleasedFlag, ReadersEntry, entry
  <2>2. RefsExact'
    BY SameReaders DEF ReadersIn, TypeOK, entry
  <2>4. SoleCloser'
    BY DEF SoleCloser, TypeOK, entry
  <2>5. EntryOpen'
    BY DEF EntryOpen, TypeOK, Closers, entry
  <2> QED BY <2>1, <2>2, <2>4, <2>5
<1>5. ASSUME NEW q \in Requests, ReleaseSnapshotRef(q) PROVE Inv'
  <2> USE <1>5 DEF ReleaseSnapshotRef, LastRef
  <2> DEFINE i == id[q]
  <2>0. i \in Ids /\ refCount[i] > 0 /\ snap[i] = "open" /\ release[i] # "close"
        /\ (i \in snapshots \/ release[i] \in {"taken", "done"})
    BY ReaderHasOpen DEF EntryOpen, ReadersEntry
  <2>1. TypeOK' /\ RequestIds' /\ ReleasedFlag' /\ ReadersEntry'
    BY <2>0 DEF TypeOK, RequestIds, ReleasedFlag, ReadersEntry
  <2>2. RefsExact'
    <3> SUFFICES ASSUME NEW j \in Ids PROVE refCount'[j] = Cardinality(ReadersIn(rpc', id', j))
      BY DEF RefsExact, Readers
    <3>1. CASE j = i
      <4>1. q \in ReadersIn(rpc, id, i) /\ ReadersIn(rpc', id', i) = ReadersIn(rpc, id, i) \ {q}
        BY DEF ReadersIn, TypeOK
      <4>2. Cardinality(ReadersIn(rpc', id', i)) = Cardinality(ReadersIn(rpc, id, i)) - 1
        BY <4>1, ReaderLeaves
      <4> QED BY <3>1, <4>2 DEF RefsExact, Readers, TypeOK
    <3>2. CASE j # i
      <4>1. ReadersIn(rpc', id', j) = ReadersIn(rpc, id, j)
        BY <3>2 DEF ReadersIn, TypeOK
      <4> QED BY <3>2, <4>1 DEF RefsExact, Readers, TypeOK
    <3> QED BY <3>1, <3>2
  <2>3. \A p \in Requests : rpc[p] \in {"created", "close"} => id[p] # i
    BY <2>0 DEF SoleCloser
  <2>4. SoleCloser'
    BY <2>0, <2>3 DEF SoleCloser, TypeOK, RequestIds, ReleasedFlag
  <2>5. EntryOpen'
    <3> SUFFICES ASSUME NEW j \in Ids PROVE
          /\ snap[j] = "none" => release[j] = "none"
          /\ j \in snapshots => snap[j] = "open" /\ release[j] = "none"
          /\ release[j] \in {"taken", "close"} => snap[j] = "open"
          /\ release[j] = "close" => refCount'[j] = 0
          /\ release[j] = "done" => (snap[j] = "open" <=> refCount'[j] > 0 \/ Closers(j)' # {})
          /\ release[j] = "none" /\ j \notin snapshots => (snap[j] = "open" <=> Closers(j)' # {})
      BY DEF EntryOpen
    <3>1. CASE j = i
      <4>1. CASE LastRef(i)
        <5>1. q \in Closers(i)'
          BY <4>1 DEF Closers, TypeOK
        <5> QED BY <5>1, <4>1, <3>1, <2>0 DEF EntryOpen, TypeOK, ReleasedFlag
      <4>2. CASE ~LastRef(i)
        BY <4>2, <3>1, <2>0 DEF EntryOpen, TypeOK, ReleasedFlag
      <4> QED BY <4>1, <4>2
    <3>2. CASE j # i
      <4>1. Closers(j)' = Closers(j)
        BY <3>2 DEF Closers, TypeOK
      <4>2. refCount'[j] = refCount[j]
        BY <3>2 DEF TypeOK
      <4> QED BY <4>1, <4>2 DEF EntryOpen
    <3> QED BY <3>1, <3>2
  <2> QED BY <2>1, <2>2, <2>4, <2>5
<1>6. ASSUME NEW q \in Requests, CloseByReader(q) PROVE Inv'
  <2> USE <1>6 DEF CloseByReader
  <2>0. id[q] \in Ids /\ id[q] \notin snapshots /\ release[id[q]] = "done" /\ refCount[id[q]] = 0
        /\ Closers(id[q]) = {q}
    BY DEF RequestIds, SoleCloser, Closers, EntryOpen
  <2>1. TypeOK' /\ RequestIds' /\ ReleasedFlag' /\ ReadersEntry'
    BY <2>0 DEF TypeOK, RequestIds, ReleasedFlag, ReadersEntry, entry
  <2>2. RefsExact'
    BY <2>0, SameReaders DEF ReadersIn, TypeOK, entry
  <2>4. SoleCloser'
    BY <2>0 DEF SoleCloser, TypeOK, entry
  <2>5. EntryOpen'
    BY <2>0 DEF EntryOpen, TypeOK, Closers, SoleCloser, entry
  <2> QED BY <2>1, <2>2, <2>4, <2>5
<1>7. ASSUME NEW i \in Ids, TakeEntry(i) PROVE Inv'
  <2> USE <1>7 DEF TakeEntry
  <2>1. TypeOK' /\ RequestIds' /\ ReleasedFlag' /\ ReadersEntry'
    BY DEF TypeOK, RequestIds, ReleasedFlag, ReadersEntry, EntryOpen, entry
  <2>2. RefsExact'
    BY SameReaders DEF entry
  <2>4. SoleCloser'
    BY DEF SoleCloser, TypeOK, RequestIds, EntryOpen, entry
  <2>5. EntryOpen'
    BY DEF EntryOpen, TypeOK, Closers, entry
  <2> QED BY <2>1, <2>2, <2>4, <2>5
<1>8. ASSUME NEW i \in Ids, MarkReleased(i) PROVE Inv'
  <2> USE <1>8 DEF MarkReleased, Unused
  <2>0. i \notin snapshots /\ snap[i] = "open" /\ \A q \in Requests : rpc[q] \in {"created", "close"} => id[q] # i
    BY DEF EntryOpen, SoleCloser
  <2>1. TypeOK' /\ RequestIds' /\ ReleasedFlag'
    BY DEF TypeOK, RequestIds, ReleasedFlag
  <2>2. RefsExact'
    BY SameReaders
  <2>3. ReadersEntry'
    BY NoReference DEF ReadersEntry, TypeOK
  <2>4. SoleCloser'
    BY <2>0 DEF SoleCloser, TypeOK, RequestIds
  <2>5. EntryOpen'
    BY <2>0 DEF EntryOpen, TypeOK, Closers
  <2> QED BY <2>1, <2>2, <2>3, <2>4, <2>5
<1>9. ASSUME NEW i \in Ids, CloseByReleaser(i) PROVE Inv'
  <2> USE <1>9 DEF CloseByReleaser
  <2>0. i \notin snapshots /\ refCount[i] = 0 /\ \A q \in Requests : rpc[q] \in {"created", "close"} => id[q] # i
    BY DEF EntryOpen, SoleCloser
  <2>1. TypeOK' /\ RequestIds' /\ ReleasedFlag'
    BY DEF TypeOK, RequestIds, ReleasedFlag, entry
  <2>2. RefsExact'
    BY SameReaders DEF entry
  <2>3. ReadersEntry'
    BY DEF ReadersEntry, TypeOK
  <2>4. SoleCloser'
    BY <2>0 DEF SoleCloser, TypeOK, RequestIds, entry
  <2>5. EntryOpen'
    BY <2>0 DEF EntryOpen, TypeOK, Closers, entry
  <2> QED BY <2>1, <2>2, <2>3, <2>4, <2>5
<1>10. ASSUME ReleaseAllSnapshots PROVE Inv'
  <2> USE <1>10 DEF ReleaseAllSnapshots
  <2>1. TypeOK' /\ RequestIds' /\ ReleasedFlag' /\ ReadersEntry'
    BY DEF TypeOK, RequestIds, ReleasedFlag, ReadersEntry, EntryOpen, entry
  <2>2. RefsExact'
    BY SameReaders DEF entry
  <2>4. SoleCloser'
    BY DEF SoleCloser, TypeOK, RequestIds, EntryOpen, entry
  <2>5. EntryOpen'
    BY DEF EntryOpen, TypeOK, Closers, entry
  <2> QED BY <2>1, <2>2, <2>4, <2>5
<1>11. ASSUME Stop \/ ServeReturns \/ EngineCloses \/ UNCHANGED vars PROVE Inv'
  <2> USE <1>11 DEF Stop, ServeReturns, EngineCloses, vars
  <2>1. TypeOK'
    BY DEF TypeOK, entry
  <2>2. RefsExact'
    BY SameReaders DEF entry
  <2>3. RequestIds' /\ ReleasedFlag' /\ EntryOpen' /\ SoleCloser' /\ ReadersEntry'
    BY DEF RequestIds, ReleasedFlag, EntryOpen, SoleCloser, ReadersEntry, Closers, entry
  <2> QED BY <2>1, <2>2, <2>3
<1> QED
  BY <1>1, <1>2, <1>3, <1>4, <1>5, <1>6, <1>7, <1>8, <1>9, <1>10, <1>11
  DEF Next, Handler, Releaser, Shutdown

-----------------------------------------------------------------------------
(* Theorems *)

\* Type correctness of the server; the reference counts are never negative.
THEOREM TypeCorrect == Spec => []TypeOK
<1>1. Inv => TypeOK
  BY DEF Inv
<1> QED
  BY InvInit, InvStep, <1>1, PTL DEF Spec

\* The invariant gives every open snapshot one owner, and a closed one none.
LEMMA InvOneOwner == Inv => OneOwner
<1> SUFFICES ASSUME Inv, NEW i \in Ids
             PROVE  (IF i \in snapshots THEN 1 ELSE 0)
                    + (IF release[i] \in {"taken", "close"} THEN 1 ELSE 0)
                    + (IF released[i] /\ release[i] = "done" /\ refCount[i] > 0 THEN 1 ELSE 0)
                    + Cardinality(Closers(i))
                    = (IF snap[i] = "open" THEN 1 ELSE 0)
  BY DEF OneOwner, Closers
<1> USE DEF Inv
<1>1. Closers(i) = {} => Cardinality(Closers(i)) = 0
  BY FS_EmptySet
<1>2. Closers(i) # {} => Cardinality(Closers(i)) = 1
  <2> SUFFICES ASSUME NEW q \in Closers(i) PROVE Cardinality(Closers(i)) = 1
    OBVIOUS
  <2>1. Closers(i) = {q}
    BY DEF Closers, SoleCloser
  <2> QED BY <2>1, FS_Singleton
<1>3. Closers(i) # {} => i \notin snapshots /\ refCount[i] = 0 /\ release[i] \in {"none", "done"}
  BY DEF Closers, SoleCloser, EntryOpen
<1>4. refCount[i] \in Nat /\ release[i] \in {"none", "taken", "close", "done"}
  BY DEF TypeOK
<1> QED BY <1>1, <1>2, <1>3, <1>4 DEF EntryOpen, ReleasedFlag

\* Exactly one goroutine is bound to close an open snapshot, whatever requests,
\* the janitor and the shutdown do: none leaks, none is closed twice.
THEOREM OwnerIsUnique == Spec => []OneOwner
BY InvInit, InvStep, InvOneOwner, PTL DEF Spec

\* The requests that are calling snapshot i.
Users == [i \in Ids |-> {q \in Requests : rpc[q] = "using" /\ id[q] = i}]

\* Closing a snapshot without references ends a lease that nobody uses.
LEMMA ClosingRevokes ==
  ASSUME Inv, NEW i \in Ids, snap[i] = "open", refCount[i] = 0,
         snap' = [snap EXCEPT ![i] = "closed"], Users' = Users
  PROVE  Lease!Next
<1>1. Users[i] = {}
  BY NoReference DEF Users
<1>2. Lease!Revoke(i)
  BY <1>1 DEF Lease!Revoke, Users
<1> QED BY <1>2 DEF Lease!Next

\* Every step of the server is a step of the lease or leaves it alone.
LEMMA LeaseStep == Inv /\ [Next]_vars => [Lease!Next]_<<snap, Users>>
<1> SUFFICES ASSUME Inv, [Next]_vars, <<snap, Users>>' # <<snap, Users>> PROVE Lease!Next
  OBVIOUS
<1> USE DEF Inv
<1>1. ASSUME NEW q \in Requests, NEW i \in Ids, CreateSnapshot(q, i) PROVE Lease!Next
  <2> USE <1>1 DEF CreateSnapshot
  <2>1. Users' = Users
    BY DEF Users, TypeOK
  <2>2. Lease!Grant(i)
    BY <2>1 DEF Lease!Grant, Users
  <2> QED BY <2>2 DEF Lease!Next
<1>2. ASSUME NEW q \in Requests, Register(q) PROVE Lease!Next
  <2> USE <1>2 DEF Register
  <2>1. Users' = Users
    BY DEF Users, TypeOK
  <2>2. id[q] \in Ids /\ refCount[id[q]] = 0 /\ snap[id[q]] = "open"
    BY DEF RequestIds, SoleCloser, EntryOpen, Closers
  <2>3. snap' = [snap EXCEPT ![id[q]] = "closed"]
    BY <2>1
  <2> QED BY <2>1, <2>2, <2>3, ClosingRevokes
<1>3. ASSUME NEW q \in Requests, CallSnapshot(q) PROVE Lease!Next
  <2> USE <1>3 DEF CallSnapshot
  <2>1. PICK i \in Ids : i = id[q] /\ snap[i] = "open"
    BY ReaderHasOpen
  <2>2. Users[i]' = Users[i] \cup {q} /\ q \notin Users[i]
    BY <2>1 DEF Users, TypeOK
  <2>3. \A j \in Ids : j # i => Users[j]' = Users[j]
    BY <2>1 DEF Users, TypeOK
  <2>4. Users' = [Users EXCEPT ![i] = @ \cup {q}]
    BY <2>2, <2>3 DEF Users
  <2>5. Lease!Use(i, q)
    BY <2>1, <2>2, <2>4 DEF Lease!Use, Users
  <2> QED BY <2>5 DEF Lease!Next
<1>4. ASSUME NEW q \in Requests, CallReturns(q) PROVE Lease!Next
  <2> USE <1>4 DEF CallReturns
  <2>1. PICK i \in Ids : i = id[q]
    BY ReaderHasOpen
  <2>2. Users[i]' = Users[i] \ {q} /\ q \in Users[i]
    BY <2>1 DEF Users, TypeOK
  <2>3. \A j \in Ids : j # i => Users[j]' = Users[j]
    BY <2>1 DEF Users, TypeOK
  <2>4. Users' = [Users EXCEPT ![i] = @ \ {q}]
    BY <2>2, <2>3 DEF Users
  <2>5. Lease!Finish(i, q)
    BY <2>1, <2>2, <2>4 DEF Lease!Finish, Users
  <2> QED BY <2>5 DEF Lease!Next
<1>5. ASSUME NEW q \in Requests, CloseByReader(q) PROVE Lease!Next
  <2> USE <1>5 DEF CloseByReader
  <2>1. Users' = Users
    BY DEF Users, TypeOK
  <2>2. id[q] \in Ids /\ refCount[id[q]] = 0 /\ snap[id[q]] = "open"
    BY DEF RequestIds, SoleCloser, EntryOpen, Closers
  <2> QED BY <2>1, <2>2, ClosingRevokes
<1>6. ASSUME NEW i \in Ids, CloseByReleaser(i) PROVE Lease!Next
  <2> USE <1>6 DEF CloseByReleaser
  <2>1. Users' = Users
    BY DEF Users
  <2>2. refCount[i] = 0 /\ snap[i] = "open"
    BY DEF EntryOpen
  <2> QED BY <2>1, <2>2, ClosingRevokes
<1>7. ASSUME NEW q \in Requests,
             ReleaseSnapshotRef(q) \/ \E i \in Ids : AcquireSnapshot(q, i)
      PROVE  Lease!Next
  BY <1>7 DEF ReleaseSnapshotRef, AcquireSnapshot, Users, TypeOK
<1>8. ASSUME \/ \E i \in Ids : TakeEntry(i) \/ MarkReleased(i)
             \/ Stop \/ ReleaseAllSnapshots \/ ServeReturns \/ EngineCloses \/ UNCHANGED vars
      PROVE  Lease!Next
  BY <1>8 DEF TakeEntry, MarkReleased, Stop, ReleaseAllSnapshots, ServeReturns, EngineCloses,
     vars, Users
<1> QED
  BY <1>1, <1>2, <1>3, <1>4, <1>5, <1>6, <1>7, <1>8
  DEF Next, Handler, Releaser, Shutdown

\* The server keeps the lease: it calls a snapshot only while it is open, and
\* closes it once, when no Get or Scan on it is running.  This is what
\* SSTableRefs assumes of its callers under the name Exclusive.
THEOREM ServerKeepsLease == Spec => KeepsLease
<1>1. Init => Lease!Init
  BY DEF Init, Lease!Init
<1>2. Inv /\ [Next]_vars => [Lease!Next]_<<snap, Users>>
  BY LeaseStep
<1> QED
  BY InvInit, InvStep, <1>1, <1>2, PTL DEF Spec, KeepsLease, Lease!Spec, Users
==============================================================================
