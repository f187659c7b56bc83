---------------------------- MODULE SnapshotServer ----------------------------
(****************************************************************************)
(* Snapshots in the RPC server (internal/rpc/storage_server/server.go) and  *)
(* the shutdown in cmd/storage-node/main.go.  Request handlers create,      *)
(* read and release snapshots, the janitor evicts old ones, Stop releases   *)
(* all of them; engine.Close then waits until the last one is closed.       *)
(*                                                                          *)
(* A step is what runs under s.mu or entry.mu, or one call of the engine.   *)
(* Whoever takes an entry out of the map goes on to release it: release[i]  *)
(* is that goroutine's step on entry i, whichever of the three it is.       *)
(****************************************************************************)
EXTENDS Naturals, FiniteSets

CONSTANTS
  Ids,       \* the snapshots that may be created, by their UUID
  Requests,  \* gRPC handler goroutines
  NoId

ASSUME ServerAssumption == IsFiniteSet(Requests) /\ NoId \notin Ids

VARIABLES
  snap,       \* the engine's snapshot: none, open, closed
  snapshots,  \* DOMAIN s.snapshots
  refCount, released,  \* snapshotEntry
  rpc, id,    \* request: its step, the snapshot it works on
  release,    \* entry: none, taken out of the map, to be closed, done
  stopChan,   \* stopChan is closed
  stopped,    \* ReleaseAllSnapshots has emptied the map
  main        \* startRPCServer: serving, stopping, closing the engine, done

vars == <<snap, snapshots, refCount, released, rpc, id, release, stopChan, stopped, main>>
entry == <<refCount, released>>

-----------------------------------------------------------------------------
(* CreateSnapshot *)

\* engine.Snapshot: the engine refuses once its Close has started, not before.
CreateSnapshot(q, i) ==
  /\ rpc[q] = "idle" /\ main \in {"serving", "stopping"} /\ snap[i] = "none"
  /\ snap' = [snap EXCEPT ![i] = "open"]
  /\ rpc' = [rpc EXCEPT ![q] = "created"] /\ id' = [id EXCEPT ![q] = i]
  /\ UNCHANGED <<snapshots, entry, release, stopChan, stopped, main>>

\* Under s.mu: register the entry, or close the snapshot when the server stops.
MutMayRegister == TRUE
MayRegister == ~stopChan

Register(q) ==
  /\ rpc[q] = "created"
  /\ \/ MayRegister /\ snapshots' = snapshots \cup {id[q]} /\ UNCHANGED snap
     \/ ~MayRegister /\ snap' = [snap EXCEPT ![id[q]] = "closed"] /\ UNCHANGED snapshots
  /\ rpc' = [rpc EXCEPT ![q] = "idle"] /\ id' = [id EXCEPT ![q] = NoId]
  /\ UNCHANGED <<entry, release, stopChan, stopped, main>>

-----------------------------------------------------------------------------
(* Get and Scan on a snapshot *)

MutAcquired(i) == refCount[i]
Acquired(i) == refCount[i] + 1

\* acquireSnapshot; an id that is not in the map is an error and changes nothing.
AcquireSnapshot(q, i) ==
  /\ rpc[q] = "idle" /\ main # "done" /\ i \in snapshots /\ ~released[i]
  /\ refCount' = [refCount EXCEPT ![i] = Acquired(i)]
  /\ rpc' = [rpc EXCEPT ![q] = "acquired"] /\ id' = [id EXCEPT ![q] = i]
  /\ UNCHANGED <<snap, snapshots, released, release, stopChan, stopped, main>>

\* entry.snap.Get or Scan begins, and ends with the iterator closed.
CallSnapshot(q) ==
  /\ rpc[q] = "acquired" /\ rpc' = [rpc EXCEPT ![q] = "using"]
  /\ UNCHANGED <<snap, snapshots, entry, id, release, stopChan, stopped, main>>

CallReturns(q) ==
  /\ rpc[q] = "using" /\ rpc' = [rpc EXCEPT ![q] = "used"]
  /\ UNCHANGED <<snap, snapshots, entry, id, release, stopChan, stopped, main>>

\* releaseSnapshotRef: the last reader of a released entry is to close it.
MutLastRef(i) == refCount[i] = 1
LastRef(i) == released[i] /\ refCount[i] = 1

ReleaseSnapshotRef(q) ==
  /\ rpc[q] = "used"
  /\ refCount' = [refCount EXCEPT ![id[q]] = @ - 1]
  /\ \/ LastRef(id[q]) /\ rpc' = [rpc EXCEPT ![q] = "close"] /\ UNCHANGED id
     \/ /\ ~LastRef(id[q])
        /\ rpc' = [rpc EXCEPT ![q] = "idle"] /\ id' = [id EXCEPT ![q] = NoId]
  /\ UNCHANGED <<snap, snapshots, released, release, stopChan, stopped, main>>

CloseByReader(q) ==
  /\ rpc[q] = "close"
  /\ snap' = [snap EXCEPT ![id[q]] = "closed"]
  /\ rpc' = [rpc EXCEPT ![q] = "idle"] /\ id' = [id EXCEPT ![q] = NoId]
  /\ UNCHANGED <<snapshots, entry, release, stopChan, stopped, main>>

-----------------------------------------------------------------------------
(* ReleaseSnapshot, the janitor and ReleaseAllSnapshots *)

\* A client releases i, or the janitor finds it older than the expiry.
TakeEntry(i) ==
  /\ i \in snapshots /\ main # "done"
  /\ snapshots' = snapshots \ {i} /\ release' = [release EXCEPT ![i] = "taken"]
  /\ UNCHANGED <<snap, entry, rpc, id, stopChan, stopped, main>>

\* released is set and shouldClose computed under entry.mu.
MutUnused(i) == TRUE
Unused(i) == refCount[i] = 0

MarkReleased(i) ==
  /\ release[i] = "taken"
  /\ released' = [released EXCEPT ![i] = TRUE]
  /\ release' = [release EXCEPT ![i] = IF Unused(i) THEN "close" ELSE "done"]
  /\ UNCHANGED <<snap, snapshots, refCount, rpc, id, stopChan, stopped, main>>

CloseByReleaser(i) ==
  /\ release[i] = "close"
  /\ snap' = [snap EXCEPT ![i] = "closed"] /\ release' = [release EXCEPT ![i] = "done"]
  /\ UNCHANGED <<snapshots, entry, rpc, id, stopChan, stopped, main>>

-----------------------------------------------------------------------------
(* Shutdown *)

\* Stop closes stopChan; the goroutine that did so releases all snapshots.
Stop ==
  /\ main = "serving" /\ stopChan' = TRUE /\ main' = "stopping"
  /\ UNCHANGED <<snap, snapshots, entry, rpc, id, release, stopped>>

ReleaseAllSnapshots ==
  /\ stopChan /\ ~stopped /\ stopped' = TRUE
  /\ snapshots' = {} /\ release' = [i \in Ids |-> IF i \in snapshots THEN "taken" ELSE release[i]]
  /\ UNCHANGED <<snap, entry, rpc, id, stopChan, main>>

\* Serve has returned, gracefully or after the timeout of 5 s with handlers still
\* running.  The Stop of startRPCServer finds stopChan closed and returns at once.
ServeReturns ==
  /\ main = "stopping" /\ main' = "closing"
  /\ UNCHANGED <<snap, snapshots, entry, rpc, id, release, stopChan, stopped>>

\* iterWg.Wait in engine.Close
EngineCloses ==
  /\ main = "closing" /\ \A i \in Ids : snap[i] # "open"
  /\ main' = "done"
  /\ UNCHANGED <<snap, snapshots, entry, rpc, id, release, stopChan, stopped>>

-----------------------------------------------------------------------------
Init ==
  /\ snap = [i \in Ids |-> "none"] /\ snapshots = {}
  /\ refCount = [i \in Ids |-> 0] /\ released = [i \in Ids |-> FALSE]
  /\ rpc = [q \in Requests |-> "idle"] /\ id = [q \in Requests |-> NoId]
  /\ release = [i \in Ids |-> "none"]
  /\ stopChan = FALSE /\ stopped = FALSE /\ main = "serving"

\* A handler that has started goes on to its end.
Handler(q) == \/ Register(q) \/ CallSnapshot(q) \/ CallReturns(q)
              \/ ReleaseSnapshotRef(q) \/ CloseByReader(q)
Releaser(i) == MarkReleased(i) \/ CloseByReleaser(i)
Shutdown == ReleaseAllSnapshots \/ ServeReturns \/ EngineCloses
Next ==
  \/ \E q \in Requests : Handler(q) \/ \E i \in Ids : CreateSnapshot(q, i) \/ AcquireSnapshot(q, i)
  \/ \E i \in Ids : TakeEntry(i) \/ Releaser(i)
  \/ Stop \/ Shutdown

\* Go schedules every goroutine; a Get ends, and a Scan ends because it looks at
\* stopChan between entries and its stream is cut when the server stops.  Nobody
\* is obliged to call the server, to release a snapshot or to stop it.
Fairness ==
  /\ \A q \in Requests : WF_vars(Handler(q))
  /\ \A i \in Ids : WF_vars(Releaser(i))
  /\ WF_vars(ReleaseAllSnapshots) /\ WF_vars(ServeReturns) /\ WF_vars(EngineCloses)

Spec == Init /\ [][Next]_vars /\ Fairness

-----------------------------------------------------------------------------
(* Properties *)

\* Type correctness; reference counts are never negative.
TypeOK ==
  /\ snap \in [Ids -> {"none", "open", "closed"}] /\ snapshots \subseteq Ids
  /\ refCount \in [Ids -> Nat] /\ released \in [Ids -> BOOLEAN]
  /\ rpc \in [Requests -> {"idle", "created", "acquired", "using", "used", "close"}]
  /\ id \in [Requests -> Ids \cup {NoId}]
  /\ release \in [Ids -> {"none", "taken", "close", "done"}]
  /\ stopChan \in BOOLEAN /\ stopped \in BOOLEAN
  /\ main \in {"serving", "stopping", "closing", "done"}

\* Exactly one goroutine may close a snapshot, and until then somebody is bound
\* to: an open snapshot is in the map, in the hands of its creator, of the
\* goroutine that took it out of the map, of a reader that will see released, or
\* of the reader about to close it.
OneOwner ==
  \A i \in Ids :
    LET owners == (IF i \in snapshots THEN 1 ELSE 0)
                  + (IF release[i] \in {"taken", "close"} THEN 1 ELSE 0)
                  + (IF released[i] /\ release[i] = "done" /\ refCount[i] > 0 THEN 1 ELSE 0)
                  + Cardinality({q \in Requests : rpc[q] \in {"created", "close"} /\ id[q] = i})
    IN  owners = (IF snap[i] = "open" THEN 1 ELSE 0)

\* The server keeps the lease: no Get or Scan on a snapshot runs after
\* ReleaseSnapshot, the janitor or Stop has closed it, and none is closed twice.
Lease == INSTANCE SnapshotLease
           WITH lease <- snap, users <- [i \in Ids |-> {q \in Requests : rpc[q] = "using" /\ id[q] = i}]
KeepsLease == Lease!Spec

\* Shutdown terminates: after Stop every snapshot is closed, so that engine.Close
\* gets past iterWg.Wait, even one whose creation was under way when the server
\* stopped and even when Serve gave up on running handlers.
ShutdownReturns == stopChan ~> main = "done"
==============================================================================
