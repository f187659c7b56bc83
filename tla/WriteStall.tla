----------------------------- MODULE WriteStall -----------------------------
(****************************************************************************)
(* Flow control of the storage engine (internal/storage/engine.go,          *)
(* workers.go, snapshot.go): clients that write or take snapshots behind    *)
(* writeMu, the stall on flushCond when the queue of immutable memtables is *)
(* full, the flush worker fed by a capacity-1 channel, context              *)
(* cancellation, background errors and Close.                               *)
(*                                                                          *)
(* Data is left out: the active memtable is how many writes it holds, the   *)
(* queue is its length.  A client is a goroutine inside one engine call.    *)
(****************************************************************************)
EXTENDS Naturals, FiniteSets

CONSTANTS
  Clients,
  NoOne,           \* writeMu is free
  MemTableCap,     \* writes that fit in one memtable
  MaxImmMemtables, \* Options.MaxImmMemtables
  MaySnapshot,     \* whether clients call Snapshot
  MayCancel,       \* whether contexts are cancelled
  Faults,          \* which operations may fail: flush, rotate, append, compact
  MaxQueue         \* bound: queue length at which no more snapshots are asked for

ASSUME StallAssumption ==
  /\ NoOne \notin Clients
  /\ MemTableCap \in Nat \ {0} /\ MaxImmMemtables \in Nat \ {0} /\ MaxQueue \in Nat
  /\ MaySnapshot \in BOOLEAN /\ MayCancel \in BOOLEAN
  /\ Faults \subseteq {"flush", "rotate", "append", "compact"}

VARIABLES
  fill,        \* writes in the active memtable
  imm,         \* len(immMemtables)
  flushChan,   \* flushChan holds a token
  stopChan,    \* flushCloseChan is closed
  bgErr, isClosing,
  writeMu,     \* holder of writeMu
  pc,          \* step of every client
  ctxDone,     \* the context of the client's call is done
  notified,    \* its watcher goroutine has broadcast
  snapOpen,    \* the client holds a Snapshot (counted in iterWg)
  fpc,         \* flushWorker
  kpc          \* Close

vars == <<fill, imm, flushChan, stopChan, bgErr, isClosing, writeMu, pc, ctxDone, notified,
          snapOpen, fpc, kpc>>

Writing  == {"enter", "loop", "stalled", "rotate", "append"}   \* in writesInFlight
Snapping == {"snapEnter", "snap", "snapRotate"}

\* flushCond.Broadcast, applied to the steps of the clients and of Close.
MutWoken(p) == p
Woken(p) == [c \in Clients |-> IF p[c] = "stalled" THEN "loop" ELSE p[c]]
MutCloseWoken(k) == k
CloseWoken(k) == IF k = "stalled" THEN "drain" ELSE k

Fails(what) == what \in Faults

\* The call of client c returns and releases writeMu.
Return(c) ==
  /\ pc' = [pc EXCEPT ![c] = "idle"] /\ writeMu' = NoOne
  /\ ctxDone' = [ctxDone EXCEPT ![c] = FALSE] /\ notified' = [notified EXCEPT ![c] = FALSE]

\* It returns after recording a background error and broadcasting.
ReturnBroken(c) ==
  /\ bgErr' = TRUE
  /\ pc' = [Woken(pc) EXCEPT ![c] = "idle"] /\ kpc' = CloseWoken(kpc) /\ writeMu' = NoOne
  /\ ctxDone' = [ctxDone EXCEPT ![c] = FALSE] /\ notified' = [notified EXCEPT ![c] = FALSE]

-----------------------------------------------------------------------------
(* WriteBatch *)

WriteCall(c) ==
  /\ pc[c] = "idle" /\ ~isClosing /\ ~bgErr
  /\ pc' = [pc EXCEPT ![c] = "enter"]
  /\ UNCHANGED <<fill, imm, flushChan, stopChan, bgErr, isClosing, writeMu, ctxDone, notified,
                 snapOpen, fpc, kpc>>

\* Both calls take writeMu.
LockWriteMu(c) ==
  /\ pc[c] \in {"enter", "snapEnter"} /\ writeMu = NoOne
  /\ writeMu' = c
  /\ pc' = [pc EXCEPT ![c] = IF pc[c] = "enter" THEN "loop" ELSE "snap"]
  /\ UNCHANGED <<fill, imm, flushChan, stopChan, bgErr, isClosing, ctxDone, notified, snapOpen,
                 fpc, kpc>>

MutMayProceed(c) == ~bgErr /\ ~isClosing
MayProceed(c) == ~ctxDone[c] /\ ~bgErr /\ ~isClosing

\* The loop returns the first of: context error, background error, closed.
WriteRefused(c) ==
  /\ pc[c] = "loop" /\ ~MayProceed(c)
  /\ Return(c)
  /\ UNCHANGED <<fill, imm, flushChan, stopChan, bgErr, isClosing, snapOpen, fpc, kpc>>

\* The active memtable has room for the batch; the queue has none.
MutFits == fill <= MemTableCap
Fits == fill < MemTableCap
QueueFull == imm >= MaxImmMemtables

\* The batch overflows and the queue is full: flushCond.Wait.
Stall(c) ==
  /\ pc[c] = "loop" /\ MayProceed(c) /\ ~Fits /\ QueueFull
  /\ pc' = [pc EXCEPT ![c] = "stalled"]
  /\ UNCHANGED <<fill, imm, flushChan, stopChan, bgErr, isClosing, writeMu, ctxDone, notified,
                 snapOpen, fpc, kpc>>

\* freezeActiveMemTable
Freeze(c) ==
  /\ pc[c] = "loop" /\ MayProceed(c) /\ ~Fits /\ ~QueueFull
  /\ imm' = imm + 1 /\ fill' = 0
  /\ pc' = [pc EXCEPT ![c] = "rotate"]
  /\ UNCHANGED <<flushChan, stopChan, bgErr, isClosing, writeMu, ctxDone, notified, snapOpen,
                 fpc, kpc>>

\* commitRotation: its last act is to leave a token for the flush worker.
MutTokenAfterRotation == flushChan
TokenAfterRotation == TRUE

CommitRotation(c) ==
  /\ pc[c] = "rotate"
  /\ \/ /\ flushChan' = TokenAfterRotation
        /\ pc' = [pc EXCEPT ![c] = "loop"]
        /\ UNCHANGED <<bgErr, writeMu, ctxDone, notified, kpc>>
     \/ Fails("rotate") /\ ReturnBroken(c) /\ UNCHANGED flushChan
  /\ UNCHANGED <<fill, imm, stopChan, isClosing, snapOpen, fpc>>

\* The batch fits: engine.mu is released for AppendBatch.
BeginAppend(c) ==
  /\ pc[c] = "loop" /\ MayProceed(c) /\ Fits
  /\ pc' = [pc EXCEPT ![c] = "append"]
  /\ UNCHANGED <<fill, imm, flushChan, stopChan, bgErr, isClosing, writeMu, ctxDone, notified,
                 snapOpen, fpc, kpc>>

\* AppendBatch returns; the batch is applied unless there is a background error.
EndAppend(c) ==
  /\ pc[c] = "append"
  /\ \/ /\ fill' = (IF bgErr THEN fill ELSE fill + 1)
        /\ Return(c) /\ UNCHANGED <<bgErr, kpc>>
     \/ Fails("append") /\ ReturnBroken(c) /\ UNCHANGED fill
  /\ UNCHANGED <<imm, flushChan, stopChan, isClosing, snapOpen, fpc>>

\* The context of a running WriteBatch ends; its watcher broadcasts once.
Cancel(c) ==
  /\ MayCancel /\ pc[c] \in Writing /\ ~ctxDone[c]
  /\ ctxDone' = [ctxDone EXCEPT ![c] = TRUE]
  /\ UNCHANGED <<fill, imm, flushChan, stopChan, bgErr, isClosing, writeMu, pc, notified,
                 snapOpen, fpc, kpc>>

\* The watcher runs from the time writeMu is held until the call returns.
Watcher(c) ==
  /\ ctxDone[c] /\ ~notified[c] /\ pc[c] \in Writing \ {"enter"}
  /\ notified' = [notified EXCEPT ![c] = TRUE]
  /\ pc' = Woken(pc) /\ kpc' = CloseWoken(kpc)
  /\ UNCHANGED <<fill, imm, flushChan, stopChan, bgErr, isClosing, writeMu, ctxDone, snapOpen,
                 fpc>>

-----------------------------------------------------------------------------
(* Snapshot *)

SnapshotCall(c) ==
  /\ MaySnapshot /\ pc[c] = "idle" /\ ~snapOpen[c]
  /\ imm + Cardinality({d \in Clients : pc[d] \in Snapping}) < MaxQueue
  /\ pc' = [pc EXCEPT ![c] = "snapEnter"]
  /\ UNCHANGED <<fill, imm, flushChan, stopChan, bgErr, isClosing, writeMu, ctxDone, notified,
                 snapOpen, fpc, kpc>>

\* Refused, opened over an empty memtable, or rotated whatever the queue holds.
SnapshotBody(c) ==
  /\ pc[c] = "snap"
  /\ \/ (bgErr \/ isClosing) /\ Return(c) /\ UNCHANGED <<fill, imm, snapOpen>>
     \/ /\ ~bgErr /\ ~isClosing /\ fill = 0
        /\ snapOpen' = [snapOpen EXCEPT ![c] = TRUE]
        /\ Return(c) /\ UNCHANGED <<fill, imm>>
     \/ /\ ~bgErr /\ ~isClosing /\ fill > 0
        /\ imm' = imm + 1 /\ fill' = 0
        /\ pc' = [pc EXCEPT ![c] = "snapRotate"]
        /\ UNCHANGED <<writeMu, ctxDone, notified, snapOpen>>
  /\ UNCHANGED <<flushChan, stopChan, bgErr, isClosing, fpc, kpc>>

SnapshotRotation(c) ==
  /\ pc[c] = "snapRotate"
  /\ \/ /\ flushChan' = TRUE
        /\ snapOpen' = [snapOpen EXCEPT ![c] = ~bgErr /\ ~isClosing]
        /\ Return(c) /\ UNCHANGED <<bgErr, kpc>>
     \/ Fails("rotate") /\ ReturnBroken(c) /\ UNCHANGED <<flushChan, snapOpen>>
  /\ UNCHANGED <<fill, imm, stopChan, isClosing, fpc>>

\* dbSnapshot.Close
SnapshotClose(c) ==
  /\ snapOpen[c] /\ snapOpen' = [snapOpen EXCEPT ![c] = FALSE]
  /\ UNCHANGED <<fill, imm, flushChan, stopChan, bgErr, isClosing, writeMu, pc, ctxDone, notified,
                 fpc, kpc>>

-----------------------------------------------------------------------------
(* flushWorker, and the background error of a failed compaction *)

FlushWake ==
  /\ fpc = "idle"
  /\ \/ flushChan /\ flushChan' = FALSE
     \/ stopChan /\ UNCHANGED flushChan
  /\ fpc' = (IF imm > 0 THEN "flush" ELSE IF isClosing THEN "exit" ELSE "idle")
  /\ UNCHANGED <<fill, imm, stopChan, bgErr, isClosing, writeMu, pc, ctxDone, notified, snapOpen,
                 kpc>>

\* registerFlushedSSTable dequeues and broadcasts; failFlush broadcasts and the
\* worker leaves.
FlushDone ==
  /\ fpc = "flush"
  /\ \/ imm' = imm - 1 /\ fpc' = "saved" /\ UNCHANGED bgErr
     \/ Fails("flush") /\ bgErr' = TRUE /\ fpc' = "exit" /\ UNCHANGED imm
  /\ pc' = Woken(pc) /\ kpc' = CloseWoken(kpc)
  /\ UNCHANGED <<fill, flushChan, stopChan, isClosing, writeMu, ctxDone, notified, snapOpen>>

\* The manifest is written and the WAL segment removed: the worker looks whether
\* to leave.  It leaves, after a broadcast, when the manifest cannot be written.
FlushNext ==
  /\ fpc = "saved"
  /\ \/ /\ fpc' = (IF isClosing /\ imm = 0 THEN "exit" ELSE "idle")
        /\ UNCHANGED <<bgErr, pc, kpc>>
     \/ /\ Fails("flush") /\ bgErr' = TRUE /\ fpc' = "exit"
        /\ pc' = Woken(pc) /\ kpc' = CloseWoken(kpc)
  /\ UNCHANGED <<fill, imm, flushChan, stopChan, isClosing, writeMu, ctxDone, notified, snapOpen>>

\* A compaction fails: when compactor.Run does, nobody is woken; when the
\* manifest cannot be written, everybody is.
CompactionFails ==
  /\ Fails("compact") /\ ~bgErr /\ kpc # "done"
  /\ bgErr' = TRUE
  /\ \/ UNCHANGED <<pc, kpc>>
     \/ pc' = Woken(pc) /\ kpc' = CloseWoken(kpc)
  /\ UNCHANGED <<fill, imm, flushChan, stopChan, isClosing, writeMu, ctxDone, notified, snapOpen,
                 fpc>>

-----------------------------------------------------------------------------
(* Close *)

CloseStart ==
  /\ kpc = "none" /\ isClosing' = TRUE /\ kpc' = "wait"
  /\ UNCHANGED <<fill, imm, flushChan, stopChan, bgErr, writeMu, pc, ctxDone, notified, snapOpen,
                 fpc>>

\* writesInFlight.Wait, then iterWg.Wait
CloseWaited ==
  /\ kpc = "wait" /\ \A c \in Clients : pc[c] \notin Writing /\ ~snapOpen[c]
  /\ kpc' = "flushLast"
  /\ UNCHANGED <<fill, imm, flushChan, stopChan, bgErr, isClosing, writeMu, pc, ctxDone, notified,
                 snapOpen, fpc>>

\* Wait for room in the queue, or queue the last memtable and leave a token.
WaitOrQueue ==
  \/ QueueFull /\ kpc' = "stalled" /\ UNCHANGED <<fill, imm, flushChan>>
  \/ ~QueueFull /\ imm' = imm + 1 /\ fill' = 0 /\ flushChan' = TRUE /\ kpc' = "signal"

\* Whether there is a memtable to flush, and no background error, is looked at
\* once.
CloseDrain ==
  /\ kpc = "flushLast"
  /\ \/ fill > 0 /\ ~bgErr /\ WaitOrQueue
     \/ (fill = 0 \/ bgErr) /\ kpc' = "signal" /\ UNCHANGED <<fill, imm, flushChan>>
  /\ UNCHANGED <<stopChan, bgErr, isClosing, writeMu, pc, ctxDone, notified, snapOpen, fpc>>

\* Woken by a broadcast, the loop looks at the queue again and not at bgErr.
CloseRecheck ==
  /\ kpc = "drain" /\ WaitOrQueue
  /\ UNCHANGED <<stopChan, bgErr, isClosing, writeMu, pc, ctxDone, notified, snapOpen, fpc>>

CloseSignal ==
  /\ kpc = "signal" /\ stopChan' = TRUE /\ kpc' = "join"
  /\ UNCHANGED <<fill, imm, flushChan, bgErr, isClosing, writeMu, pc, ctxDone, notified, snapOpen,
                 fpc>>

CloseDone ==
  /\ kpc = "join" /\ fpc = "exit" /\ kpc' = "done"
  /\ UNCHANGED <<fill, imm, flushChan, stopChan, bgErr, isClosing, writeMu, pc, ctxDone, notified,
                 snapOpen, fpc>>

-----------------------------------------------------------------------------
Init ==
  /\ fill = 0 /\ imm = 0 /\ flushChan = FALSE /\ stopChan = FALSE
  /\ bgErr = FALSE /\ isClosing = FALSE /\ writeMu = NoOne
  /\ pc = [c \in Clients |-> "idle"]
  /\ ctxDone = [c \in Clients |-> FALSE] /\ notified = [c \in Clients |-> FALSE]
  /\ snapOpen = [c \in Clients |-> FALSE]
  /\ fpc = "idle" /\ kpc = "none"

\* What client c does once it is inside a call, and closing its snapshot.
Inside(c) ==
  \/ WriteRefused(c) \/ Stall(c) \/ Freeze(c) \/ CommitRotation(c) \/ BeginAppend(c)
  \/ EndAppend(c) \/ SnapshotBody(c) \/ SnapshotRotation(c) \/ SnapshotClose(c)
Client(c) == WriteCall(c) \/ SnapshotCall(c) \/ Cancel(c) \/ LockWriteMu(c) \/ Watcher(c) \/ Inside(c)
FlushWorker == FlushWake \/ FlushDone \/ FlushNext
Close == CloseWaited \/ CloseDrain \/ CloseRecheck \/ CloseSignal \/ CloseDone
Next == (\E c \in Clients : Client(c)) \/ FlushWorker \/ CompactionFails \/ CloseStart \/ Close

\* Goroutines are scheduled fairly and sync.Mutex does not starve a waiter.
\* Nobody is obliged to call the engine, to cancel or to close it.
Fairness ==
  /\ \A c \in Clients : WF_vars(Inside(c)) /\ WF_vars(Watcher(c)) /\ SF_vars(LockWriteMu(c))
  /\ WF_vars(FlushWorker) /\ WF_vars(Close)

Spec == Init /\ [][Next]_vars /\ Fairness
-----------------------------------------------------------------------------
(* Properties *)

Steps == {"idle"} \cup Writing \cup Snapping

\* Type correctness of the shared fields and of every goroutine's step.
TypeOK ==
  /\ fill \in 0..MemTableCap /\ imm \in Nat
  /\ flushChan \in BOOLEAN /\ stopChan \in BOOLEAN /\ bgErr \in BOOLEAN /\ isClosing \in BOOLEAN
  /\ writeMu \in Clients \cup {NoOne}
  /\ pc \in [Clients -> Steps]
  /\ ctxDone \in [Clients -> BOOLEAN] /\ notified \in [Clients -> BOOLEAN]
  /\ snapOpen \in [Clients -> BOOLEAN]
  /\ fpc \in {"idle", "flush", "saved", "exit"}
  /\ kpc \in {"none", "wait", "flushLast", "drain", "stalled", "signal", "join", "done"}

Stalled == (\E c \in Clients : pc[c] = "stalled") \/ kpc = "stalled"

\* Somebody who is bound to broadcast on flushCond: the flush worker at work or
\* about to take a token, or a rotation that will leave one.
WakerComing ==
  \/ fpc = "flush"
  \/ fpc \in {"idle", "saved"} /\ flushChan
  \/ \E c \in Clients : pc[c] \in {"rotate", "snapRotate"}

\* No lost wakeup: a goroutine waits on flushCond (WriteBatch or Close) only
\* while the queue of immutable memtables is full and a broadcast is on its
\* way, although rotations that find flushChan full leave no token of their own.
StallHasWaker == Stalled => imm >= MaxImmMemtables /\ WakerComing

\* Every WriteBatch returns, whatever the other clients do: the stall on
\* flushCond ends and writeMu is passed on.
WriteReturns == \A c \in Clients : pc[c] = "enter" ~> pc[c] = "idle"

\* Close terminates once it has been called.
CloseReturns == isClosing ~> kpc = "done"

\* A WriteBatch that is stalled on flushCond when its context ends returns, even
\* if the flush worker never makes room: the watcher's broadcast is not lost.
CancelledStallReturns == \A c \in Clients : pc[c] = "stalled" /\ ctxDone[c] ~> pc[c] = "idle"
=============================================================================
