-------------------------- MODULE WriteStall_proofs --------------------------
(****************************************************************************)
(* Proofs about WriteStall, for any set of clients, any memtable capacity   *)
(* and any MaxImmMemtables: type correctness, mutual exclusion behind       *)
(* writeMu, and the absence of lost wakeups on flushCond.                   *)
(****************************************************************************)
EXTENDS WriteStall, TLAPS

\* The steps that a client takes with writeMu held.
Holding == {"loop", "stalled", "rotate", "append", "snap", "snapRotate"}

\* writeMu serialises the bodies of WriteBatch and Snapshot.
WriteMutex == \A c \in Clients : pc[c] \in Holding => writeMu = c

\* Room found in the memtable is still there when AppendBatch returns.
AppendFits == \A c \in Clients : pc[c] = "append" => fill < MemTableCap

\* The flush worker works on the head of a non-empty queue.
FlushHasWork == fpc = "flush" => imm > 0

\* Parts of TypeOK, which the provers take one at a time.
FlagsOK == flushChan \in BOOLEAN /\ stopChan \in BOOLEAN /\ bgErr \in BOOLEAN /\ isClosing \in BOOLEAN
StepsOK == writeMu \in Clients \cup {NoOne} /\ pc \in [Clients -> Steps]
CallsOK == /\ ctxDone \in [Clients -> BOOLEAN] /\ notified \in [Clients -> BOOLEAN]
           /\ snapOpen \in [Clients -> BOOLEAN]
WorkersOK == /\ fpc \in {"idle", "flush", "saved", "exit"}
             /\ kpc \in {"none", "wait", "flushLast", "drain", "stalled", "signal", "join", "done"}

TypeInv == TypeOK /\ WriteMutex /\ AppendFits /\ FlushHasWork

\* The initial state satisfies the invariant.
LEMMA TypeInvInit == Init => TypeInv
<1> SUFFICES ASSUME Init PROVE TypeInv
  OBVIOUS
<1>1. fill \in 0..MemTableCap /\ imm \in Nat
  BY StallAssumption DEF StallAssumption, Init
<1>2. /\ flushChan \in BOOLEAN /\ stopChan \in BOOLEAN /\ bgErr \in BOOLEAN /\ isClosing \in BOOLEAN
      /\ ctxDone \in [Clients -> BOOLEAN] /\ notified \in [Clients -> BOOLEAN]
      /\ snapOpen \in [Clients -> BOOLEAN]
  BY Zenon DEF Init
<1>3. writeMu \in Clients \cup {NoOne} /\ pc \in [Clients -> Steps]
  BY Zenon DEF Init, Steps
<1>4. /\ fpc \in {"idle", "flush", "saved", "exit"}
      /\ kpc \in {"none", "wait", "flushLast", "drain", "stalled", "signal", "join", "done"}
  BY Zenon DEF Init
<1>5. WriteMutex /\ AppendFits /\ FlushHasWork
  BY DEF Init, WriteMutex, AppendFits, FlushHasWork, Holding
<1> QED BY <1>1, <1>2, <1>3, <1>4, <1>5 DEF TypeInv, TypeOK

\* Every step preserves the invariant.
LEMMA TypeInvStep == TypeInv /\ [Next]_vars => TypeInv'
<1> SUFFICES ASSUME TypeInv, [Next]_vars PROVE TypeInv'
  OBVIOUS
<1> USE StallAssumption DEF StallAssumption, TypeInv, TypeOK, Steps, Writing, Snapping, Holding,
        WriteMutex, AppendFits, FlushHasWork, FlagsOK, StepsOK, CallsOK, WorkersOK
<1>1. ASSUME NEW c \in Clients, WriteCall(c) PROVE TypeInv'
  <2>1. TypeOK'
    BY <1>1 DEF WriteCall
  <2>2. (WriteMutex /\ AppendFits /\ FlushHasWork)'
    BY <1>1 DEF WriteCall
  <2> QED BY <2>1, <2>2
<1>2. ASSUME NEW c \in Clients, LockWriteMu(c) PROVE TypeInv'
  <2>1. TypeOK'
    BY <1>2 DEF LockWriteMu
  <2>2. (WriteMutex /\ AppendFits /\ FlushHasWork)'
    BY <1>2 DEF LockWriteMu
  <2> QED BY <2>1, <2>2
<1>3. ASSUME NEW c \in Clients, WriteRefused(c) PROVE TypeInv'
  <2>1. TypeOK'
    BY <1>3 DEF WriteRefused, Return
  <2>2. (WriteMutex /\ AppendFits /\ FlushHasWork)'
    BY <1>3 DEF WriteRefused, Return
  <2> QED BY <2>1, <2>2
<1>4. ASSUME NEW c \in Clients, Stall(c) PROVE TypeInv'
  <2>1. TypeOK'
    BY <1>4 DEF Stall
  <2>2. (WriteMutex /\ AppendFits /\ FlushHasWork)'
    BY <1>4 DEF Stall
  <2> QED BY <2>1, <2>2
<1>5. ASSUME NEW c \in Clients, Freeze(c) PROVE TypeInv'
  <2>1. TypeOK'
    BY <1>5 DEF Freeze, Fits
  <2>2. (WriteMutex /\ AppendFits /\ FlushHasWork)'
    BY <1>5 DEF Freeze, Fits
  <2> QED BY <2>1, <2>2
<1>6. ASSUME NEW c \in Clients, CommitRotation(c) PROVE TypeInv'
  <2>1. TypeOK'
    BY <1>6, ZenonT(40) DEF CommitRotation, ReturnBroken, Woken, CloseWoken, TokenAfterRotation
  <2>2. (WriteMutex /\ AppendFits /\ FlushHasWork)'
    BY <1>6 DEF CommitRotation, ReturnBroken, Woken, CloseWoken, TokenAfterRotation
  <2> QED BY <2>1, <2>2
<1>7. ASSUME NEW c \in Clients, BeginAppend(c) PROVE TypeInv'
  <2>1. TypeOK'
    BY <1>7 DEF BeginAppend, Fits
  <2>2. (WriteMutex /\ AppendFits /\ FlushHasWork)'
    BY <1>7 DEF BeginAppend, Fits
  <2> QED BY <2>1, <2>2
<1>8. ASSUME NEW c \in Clients, EndAppend(c) PROVE TypeInv'
  <2>0. fill' \in 0..MemTableCap /\ imm' \in Nat
    BY <1>8 DEF EndAppend, Return, ReturnBroken, Woken, CloseWoken
  <2>1. TypeOK'
    <3>1. FlagsOK'
      BY <1>8 DEF EndAppend, Return, ReturnBroken, Woken, CloseWoken
    <3>2. StepsOK'
      BY <1>8 DEF EndAppend, Return, ReturnBroken, Woken, CloseWoken
    <3>3. CallsOK'
      BY <1>8 DEF EndAppend, Return, ReturnBroken, Woken, CloseWoken
    <3>4. WorkersOK'
      BY <1>8 DEF EndAppend, Return, ReturnBroken, Woken, CloseWoken
    <3> QED BY <2>0, <3>1, <3>2, <3>3, <3>4
  <2>2. (WriteMutex /\ AppendFits /\ FlushHasWork)'
    BY <1>8 DEF EndAppend, Return, ReturnBroken, Woken, CloseWoken
  <2> QED BY <2>1, <2>2
<1>9. ASSUME NEW c \in Clients, Cancel(c) PROVE TypeInv'
  <2>1. TypeOK'
    BY <1>9 DEF Cancel
  <2>2. (WriteMutex /\ AppendFits /\ FlushHasWork)'
    BY <1>9 DEF Cancel
  <2> QED BY <2>1, <2>2
<1>10. ASSUME NEW c \in Clients, Watcher(c) PROVE TypeInv'
  <2>1. TypeOK'
    BY <1>10 DEF Watcher, Woken, CloseWoken
  <2>2. (WriteMutex /\ AppendFits /\ FlushHasWork)'
    BY <1>10 DEF Watcher, Woken, CloseWoken
  <2> QED BY <2>1, <2>2
<1>11. ASSUME NEW c \in Clients, SnapshotCall(c) PROVE TypeInv'
  <2>1. TypeOK'
    BY <1>11 DEF SnapshotCall
  <2>2. (WriteMutex /\ AppendFits /\ FlushHasWork)'
    BY <1>11 DEF SnapshotCall
  <2> QED BY <2>1, <2>2
<1>12. ASSUME NEW c \in Clients, SnapshotBody(c) PROVE TypeInv'
  <2>0. fill' \in 0..MemTableCap /\ imm' \in Nat
    BY <1>12 DEF SnapshotBody, Return
  <2>1. TypeOK'
    <3>1. FlagsOK'
      BY <1>12 DEF SnapshotBody, Return
    <3>2. StepsOK'
      BY <1>12 DEF SnapshotBody, Return
    <3>3. CallsOK'
      BY <1>12 DEF SnapshotBody, Return
    <3>4. WorkersOK'
      BY <1>12 DEF SnapshotBody, Return
    <3> QED BY <2>0, <3>1, <3>2, <3>3, <3>4
  <2>2. (WriteMutex /\ AppendFits /\ FlushHasWork)'
    BY <1>12 DEF SnapshotBody, Return
  <2> QED BY <2>1, <2>2
<1>13. ASSUME NEW c \in Clients, SnapshotRotation(c) PROVE TypeInv'
  <2>1. TypeOK'
    BY <1>13, ZenonT(40) DEF SnapshotRotation, Return, ReturnBroken, Woken, CloseWoken
  <2>2. (WriteMutex /\ AppendFits /\ FlushHasWork)'
    BY <1>13 DEF SnapshotRotation, Return, ReturnBroken, Woken, CloseWoken
  <2> QED BY <2>1, <2>2
<1>14. ASSUME NEW c \in Clients, SnapshotClose(c) PROVE TypeInv'
  <2>1. TypeOK'
    BY <1>14 DEF SnapshotClose
  <2>2. (WriteMutex /\ AppendFits /\ FlushHasWork)'
    BY <1>14 DEF SnapshotClose
  <2> QED BY <2>1, <2>2
<1>15. CASE FlushWake
  <2>1. TypeOK'
    BY <1>15 DEF FlushWake
  <2>2. (WriteMutex /\ AppendFits /\ FlushHasWork)'
    BY <1>15 DEF FlushWake
  <2> QED BY <2>1, <2>2
<1>16. CASE FlushDone
  <2>0. fill' \in 0..MemTableCap /\ imm' \in Nat
    BY <1>16 DEF FlushDone, Woken, CloseWoken
  <2>1. TypeOK'
    <3>1. FlagsOK'
      BY <1>16 DEF FlushDone, Woken, CloseWoken
    <3>2. StepsOK'
      BY <1>16 DEF FlushDone, Woken, CloseWoken
    <3>3. CallsOK'
      BY <1>16 DEF FlushDone, Woken, CloseWoken
    <3>4. WorkersOK'
      BY <1>16 DEF FlushDone, Woken, CloseWoken
    <3> QED BY <2>0, <3>1, <3>2, <3>3, <3>4
  <2>2. (WriteMutex /\ AppendFits /\ FlushHasWork)'
    BY <1>16 DEF FlushDone, Woken, CloseWoken
  <2> QED BY <2>1, <2>2
<1>17. CASE FlushNext
  <2>0. fill' \in 0..MemTableCap /\ imm' \in Nat
    BY <1>17 DEF FlushNext
  <2>1. TypeOK'
    <3>1. FlagsOK'
      BY <1>17 DEF FlushNext
    <3>2. StepsOK'
      BY <1>17 DEF FlushNext, Woken
    <3>3. CallsOK'
      BY <1>17 DEF FlushNext
    <3>4. WorkersOK'
      BY <1>17 DEF FlushNext, CloseWoken
    <3> QED BY <2>0, <3>1, <3>2, <3>3, <3>4
  <2>2. (WriteMutex /\ AppendFits /\ FlushHasWork)'
    BY <1>17 DEF FlushNext, Woken
  <2> QED BY <2>1, <2>2
<1>18. CASE CompactionFails
  <2>0. fill' \in 0..MemTableCap /\ imm' \in Nat
    BY <1>18 DEF CompactionFails
  <2>1. TypeOK'
    <3>1. FlagsOK'
      BY <1>18 DEF CompactionFails
    <3>2. StepsOK'
      BY <1>18 DEF CompactionFails, Woken
    <3>3. CallsOK'
      BY <1>18 DEF CompactionFails
    <3>4. WorkersOK'
      BY <1>18 DEF CompactionFails, CloseWoken
    <3> QED BY <2>0, <3>1, <3>2, <3>3, <3>4
  <2>2. (WriteMutex /\ AppendFits /\ FlushHasWork)'
    BY <1>18 DEF CompactionFails, Woken
  <2> QED BY <2>1, <2>2
<1>19. CASE CloseStart
  <2>1. TypeOK'
    BY <1>19 DEF CloseStart
  <2>2. (WriteMutex /\ AppendFits /\ FlushHasWork)'
    BY <1>19 DEF CloseStart
  <2> QED BY <2>1, <2>2
<1>20. CASE CloseWaited
  <2>1. TypeOK'
    BY <1>20 DEF CloseWaited
  <2>2. (WriteMutex /\ AppendFits /\ FlushHasWork)'
    BY <1>20 DEF CloseWaited
  <2> QED BY <2>1, <2>2
<1>21. CASE CloseDrain
  <2>0. fill' \in 0..MemTableCap /\ imm' \in Nat
    BY <1>21 DEF CloseDrain, WaitOrQueue, QueueFull
  <2>1. TypeOK'
    <3>1. FlagsOK'
      BY <1>21 DEF CloseDrain, WaitOrQueue, QueueFull
    <3>2. StepsOK'
      BY <1>21 DEF CloseDrain, WaitOrQueue, QueueFull
    <3>3. CallsOK'
      BY <1>21 DEF CloseDrain, WaitOrQueue, QueueFull
    <3>4. WorkersOK'
      BY <1>21 DEF CloseDrain, WaitOrQueue, QueueFull
    <3> QED BY <2>0, <3>1, <3>2, <3>3, <3>4
  <2>2. (WriteMutex /\ AppendFits /\ FlushHasWork)'
    BY <1>21 DEF CloseDrain, WaitOrQueue, QueueFull
  <2> QED BY <2>1, <2>2
<1>22. CASE CloseRecheck
  <2>0. fill' \in 0..MemTableCap /\ imm' \in Nat
    BY <1>22 DEF CloseRecheck, WaitOrQueue, QueueFull
  <2>1. TypeOK'
    <3>1. FlagsOK'
      BY <1>22 DEF CloseRecheck, WaitOrQueue, QueueFull
    <3>2. StepsOK'
      BY <1>22 DEF CloseRecheck, WaitOrQueue, QueueFull
    <3>3. CallsOK'
      BY <1>22 DEF CloseRecheck, WaitOrQueue, QueueFull
    <3>4. WorkersOK'
      BY <1>22 DEF CloseRecheck, WaitOrQueue, QueueFull
    <3> QED BY <2>0, <3>1, <3>2, <3>3, <3>4
  <2>2. (WriteMutex /\ AppendFits /\ FlushHasWork)'
    BY <1>22 DEF CloseRecheck, WaitOrQueue, QueueFull
  <2> QED BY <2>1, <2>2
<1>23. CASE CloseSignal
  <2>1. TypeOK'
    BY <1>23 DEF CloseSignal
  <2>2. (WriteMutex /\ AppendFits /\ FlushHasWork)'
    BY <1>23 DEF CloseSignal
  <2> QED BY <2>1, <2>2
<1>24. CASE CloseDone
  <2>1. TypeOK'
    BY <1>24 DEF CloseDone
  <2>2. (WriteMutex /\ AppendFits /\ FlushHasWork)'
    BY <1>24 DEF CloseDone
  <2> QED BY <2>1, <2>2
<1>25. CASE UNCHANGED vars
  BY <1>25 DEF vars
<1> QED
  BY <1>1, <1>2, <1>3, <1>4, <1>5, <1>6, <1>7, <1>8, <1>9, <1>10, <1>11, <1>12, <1>13,
     <1>14, <1>15, <1>16, <1>17, <1>18, <1>19, <1>20, <1>21, <1>22, <1>23, <1>24, <1>25
  DEF Next, Client, Inside, FlushWorker, Close

\* Type correctness of the flow control.
THEOREM TypeCorrect == Spec => []TypeOK
<1>1. TypeInv => TypeOK
  BY DEF TypeInv
<1> QED
  BY TypeInvInit, TypeInvStep, <1>1, PTL DEF Spec

------------------------------------------------------------------------------
\* Close moves past writesInFlight.Wait only when no write is left, and no
\* write starts once isClosing is set.
CloseAfterWrites ==
  /\ kpc # "none" <=> isClosing
  /\ kpc \notin {"none", "wait"} => \A c \in Clients : pc[c] \notin Writing
  /\ \A c \in Clients : pc[c] \notin Snapping

\* The flush worker leaves an empty queue behind; what is queued later was
\* queued by Close itself.
WorkerLeaves == fpc = "exit" => isClosing /\ (imm = 0 \/ kpc \in {"signal", "join", "done"})

\* A full queue has a token, a busy worker or an unfinished rotation, unless the
\* worker has left or a background error has cut the rotation short.
FullQueueIsServed ==
  /\ imm <= MaxImmMemtables
  /\ imm >= MaxImmMemtables /\ ~bgErr => WakerComing \/ fpc = "exit"
  /\ kpc = "drain" /\ imm >= MaxImmMemtables => WakerComing

StallInv == CloseAfterWrites /\ WorkerLeaves /\ FullQueueIsServed /\ StallHasWaker

\* The two things that break the argument: Snapshot rotates a full queue, and a
\* failed flush takes the worker away.
OrderlyQueue == ~MaySnapshot /\ "flush" \notin Faults

\* The initial state satisfies the invariant.
LEMMA StallInvInit == Init => StallInv
BY StallAssumption DEF StallAssumption, Init, StallInv, CloseAfterWrites, WorkerLeaves,
   FullQueueIsServed, StallHasWaker, Stalled, Writing, Snapping

\* Every step preserves the invariant.
LEMMA StallInvStep == OrderlyQueue /\ TypeInv /\ StallInv /\ [Next]_vars => StallInv'
<1> SUFFICES ASSUME OrderlyQueue, TypeInv, StallInv, [Next]_vars PROVE StallInv'
  OBVIOUS
<1> USE StallAssumption DEF StallAssumption, OrderlyQueue, TypeInv, TypeOK, Steps, Writing, Snapping,
        FlushHasWork, StallInv, CloseAfterWrites, WorkerLeaves, FullQueueIsServed, StallHasWaker,
        Stalled, WakerComing
<1>1. ASSUME NEW c \in Clients, WriteCall(c) PROVE StallInv'
  <2>1. (CloseAfterWrites /\ WorkerLeaves)'
    BY <1>1 DEF WriteCall
  <2>2. FullQueueIsServed'
    BY <1>1 DEF WriteCall
  <2>3. StallHasWaker'
    BY <1>1 DEF WriteCall
  <2> QED BY <2>1, <2>2, <2>3
<1>2. ASSUME NEW c \in Clients, LockWriteMu(c) PROVE StallInv'
  <2>1. (CloseAfterWrites /\ WorkerLeaves)'
    BY <1>2 DEF LockWriteMu
  <2>2. FullQueueIsServed'
    BY <1>2 DEF LockWriteMu
  <2>3. StallHasWaker'
    BY <1>2 DEF LockWriteMu
  <2> QED BY <2>1, <2>2, <2>3
<1>3. ASSUME NEW c \in Clients, WriteRefused(c) PROVE StallInv'
  <2>1. (CloseAfterWrites /\ WorkerLeaves)'
    BY <1>3 DEF WriteRefused, Return
  <2>2. FullQueueIsServed'
    BY <1>3 DEF WriteRefused, Return
  <2>3. StallHasWaker'
    BY <1>3 DEF WriteRefused, Return
  <2> QED BY <2>1, <2>2, <2>3
<1>4. ASSUME NEW c \in Clients, Stall(c) PROVE StallInv'
  <2>1. (CloseAfterWrites /\ WorkerLeaves)'
    BY <1>4 DEF Stall, QueueFull, MayProceed
  <2>2. FullQueueIsServed'
    BY <1>4 DEF Stall, QueueFull, MayProceed
  <2>3. StallHasWaker'
    BY <1>4 DEF Stall, QueueFull, MayProceed
  <2> QED BY <2>1, <2>2, <2>3
<1>5. ASSUME NEW c \in Clients, Freeze(c) PROVE StallInv'
  <2>1. (CloseAfterWrites /\ WorkerLeaves)'
    BY <1>5 DEF Freeze, QueueFull, MayProceed
  <2>2. FullQueueIsServed'
    BY <1>5 DEF Freeze, QueueFull, MayProceed
  <2>3. StallHasWaker'
    BY <1>5 DEF Freeze, QueueFull, MayProceed
  <2> QED BY <2>1, <2>2, <2>3
<1>6. ASSUME NEW c \in Clients, CommitRotation(c) PROVE StallInv'
  <2>1. (CloseAfterWrites /\ WorkerLeaves)'
    BY <1>6 DEF CommitRotation, ReturnBroken, Woken, CloseWoken, TokenAfterRotation, Fails
  <2>2. FullQueueIsServed'
    BY <1>6 DEF CommitRotation, ReturnBroken, Woken, CloseWoken, TokenAfterRotation, Fails
  <2>3. StallHasWaker'
    <3>1. CASE ~Stalled'
      BY <3>1
    <3>2. CASE Stalled'
      <4>1. Stalled /\ imm' = imm /\ fpc' = fpc /\ flushChan'
        BY <1>6, <3>2 DEF CommitRotation, ReturnBroken, Woken, CloseWoken, TokenAfterRotation, Fails
      <4>2. fpc # "exit"
        BY <1>6, <4>1 DEF CommitRotation
      <4> QED BY <4>1, <4>2
    <3> QED BY <3>1, <3>2
  <2> QED BY <2>1, <2>2, <2>3
<1>7. ASSUME NEW c \in Clients, BeginAppend(c) PROVE StallInv'
  <2>1. (CloseAfterWrites /\ WorkerLeaves)'
    BY <1>7 DEF BeginAppend
  <2>2. FullQueueIsServed'
    BY <1>7 DEF BeginAppend
  <2>3. StallHasWaker'
    BY <1>7 DEF BeginAppend
  <2> QED BY <2>1, <2>2, <2>3
<1>8. ASSUME NEW c \in Clients, EndAppend(c) PROVE StallInv'
  <2>1. (CloseAfterWrites /\ WorkerLeaves)'
    BY <1>8 DEF EndAppend, Return, ReturnBroken, Woken, CloseWoken
  <2>2. FullQueueIsServed'
    BY <1>8 DEF EndAppend, Return, ReturnBroken, Woken, CloseWoken
  <2>3. StallHasWaker'
    BY <1>8 DEF EndAppend, Return, ReturnBroken, Woken, CloseWoken
  <2> QED BY <2>1, <2>2, <2>3
<1>9. ASSUME NEW c \in Clients, Cancel(c) PROVE StallInv'
  <2>1. (CloseAfterWrites /\ WorkerLeaves)'
    BY <1>9 DEF Cancel
  <2>2. FullQueueIsServed'
    BY <1>9 DEF Cancel
  <2>3. StallHasWaker'
    BY <1>9 DEF Cancel
  <2> QED BY <2>1, <2>2, <2>3
<1>10. ASSUME NEW c \in Clients, Watcher(c) PROVE StallInv'
  <2>1. (CloseAfterWrites /\ WorkerLeaves)'
    BY <1>10 DEF Watcher, Woken, CloseWoken
  <2>2. FullQueueIsServed'
    BY <1>10 DEF Watcher, Woken, CloseWoken
  <2>3. StallHasWaker'
    BY <1>10 DEF Watcher, Woken, CloseWoken
  <2> QED BY <2>1, <2>2, <2>3
<1>11. ASSUME NEW c \in Clients, SnapshotCall(c) PROVE StallInv'
  <2>1. (CloseAfterWrites /\ WorkerLeaves)'
    BY <1>11 DEF SnapshotCall
  <2>2. FullQueueIsServed'
    BY <1>11 DEF SnapshotCall
  <2>3. StallHasWaker'
    BY <1>11 DEF SnapshotCall
  <2> QED BY <2>1, <2>2, <2>3
<1>12. ASSUME NEW c \in Clients, SnapshotBody(c) PROVE StallInv'
  <2>1. (CloseAfterWrites /\ WorkerLeaves)'
    BY <1>12 DEF SnapshotBody, Return
  <2>2. FullQueueIsServed'
    BY <1>12 DEF SnapshotBody, Return
  <2>3. StallHasWaker'
    BY <1>12 DEF SnapshotBody, Return
  <2> QED BY <2>1, <2>2, <2>3
<1>13. ASSUME NEW c \in Clients, SnapshotRotation(c) PROVE StallInv'
  <2>1. (CloseAfterWrites /\ WorkerLeaves)'
    BY <1>13 DEF SnapshotRotation, Return, ReturnBroken, Woken, CloseWoken
  <2>2. FullQueueIsServed'
    BY <1>13 DEF SnapshotRotation, Return, ReturnBroken, Woken, CloseWoken
  <2>3. StallHasWaker'
    BY <1>13 DEF SnapshotRotation, Return, ReturnBroken, Woken, CloseWoken
  <2> QED BY <2>1, <2>2, <2>3
<1>14. ASSUME NEW c \in Clients, SnapshotClose(c) PROVE StallInv'
  <2>1. (CloseAfterWrites /\ WorkerLeaves)'
    BY <1>14 DEF SnapshotClose
  <2>2. FullQueueIsServed'
    BY <1>14 DEF SnapshotClose
  <2>3. StallHasWaker'
    BY <1>14 DEF SnapshotClose
  <2> QED BY <2>1, <2>2, <2>3
<1>15. CASE FlushWake
  <2>1. (CloseAfterWrites /\ WorkerLeaves)'
    BY <1>15 DEF FlushWake
  <2>2. FullQueueIsServed'
    BY <1>15 DEF FlushWake
  <2>3. StallHasWaker'
    BY <1>15 DEF FlushWake
  <2> QED BY <2>1, <2>2, <2>3
<1>16. CASE FlushDone
  <2>1. (CloseAfterWrites /\ WorkerLeaves)'
    BY <1>16 DEF FlushDone, Woken, CloseWoken, Fails
  <2>2. FullQueueIsServed'
    BY <1>16 DEF FlushDone, Woken, CloseWoken, Fails
  <2>3. StallHasWaker'
    BY <1>16 DEF FlushDone, Woken, CloseWoken, Fails
  <2> QED BY <2>1, <2>2, <2>3
<1>17. CASE FlushNext
  <2>1. (CloseAfterWrites /\ WorkerLeaves)'
    BY <1>17 DEF FlushNext, Woken, CloseWoken, Fails
  <2>2. FullQueueIsServed'
    BY <1>17 DEF FlushNext, Woken, CloseWoken, Fails
  <2>3. StallHasWaker'
    BY <1>17 DEF FlushNext, Woken, CloseWoken, Fails
  <2> QED BY <2>1, <2>2, <2>3
<1>18. CASE CompactionFails
  <2>1. (CloseAfterWrites /\ WorkerLeaves)'
    BY <1>18 DEF CompactionFails, Woken, CloseWoken, Fails
  <2>2. FullQueueIsServed'
    BY <1>18 DEF CompactionFails, Woken, CloseWoken, Fails
  <2>3. StallHasWaker'
    <3>1. CASE UNCHANGED <<pc, kpc>>
      BY <1>18, <3>1 DEF CompactionFails
    <3>2. CASE pc' = Woken(pc) /\ kpc' = CloseWoken(kpc)
      BY <1>18, <3>2 DEF CompactionFails, Woken, CloseWoken
    <3> QED BY <1>18, <3>1, <3>2 DEF CompactionFails
  <2> QED BY <2>1, <2>2, <2>3
<1>19. CASE CloseStart
  <2>1. (CloseAfterWrites /\ WorkerLeaves)'
    BY <1>19 DEF CloseStart
  <2>2. FullQueueIsServed'
    BY <1>19 DEF CloseStart
  <2>3. StallHasWaker'
    BY <1>19 DEF CloseStart
  <2> QED BY <2>1, <2>2, <2>3
<1>20. CASE CloseWaited
  <2>1. (CloseAfterWrites /\ WorkerLeaves)'
    BY <1>20 DEF CloseWaited
  <2>2. FullQueueIsServed'
    BY <1>20 DEF CloseWaited
  <2>3. StallHasWaker'
    BY <1>20 DEF CloseWaited
  <2> QED BY <2>1, <2>2, <2>3
<1>21. CASE CloseDrain
  <2>1. (CloseAfterWrites /\ WorkerLeaves)'
    BY <1>21 DEF CloseDrain, WaitOrQueue, QueueFull
  <2>2. FullQueueIsServed'
    BY <1>21 DEF CloseDrain, WaitOrQueue, QueueFull
  <2>3. StallHasWaker'
    BY <1>21 DEF CloseDrain, WaitOrQueue, QueueFull
  <2> QED BY <2>1, <2>2, <2>3
<1>22. CASE CloseRecheck
  <2>1. (CloseAfterWrites /\ WorkerLeaves)'
    BY <1>22 DEF CloseRecheck, WaitOrQueue, QueueFull
  <2>2. FullQueueIsServed'
    BY <1>22 DEF CloseRecheck, WaitOrQueue, QueueFull
  <2>3. StallHasWaker'
    BY <1>22 DEF CloseRecheck, WaitOrQueue, QueueFull
  <2> QED BY <2>1, <2>2, <2>3
<1>23. CASE CloseSignal
  <2>1. (CloseAfterWrites /\ WorkerLeaves)'
    BY <1>23 DEF CloseSignal
  <2>2. FullQueueIsServed'
    BY <1>23 DEF CloseSignal
  <2>3. StallHasWaker'
    BY <1>23 DEF CloseSignal
  <2> QED BY <2>1, <2>2, <2>3
<1>24. CASE CloseDone
  <2>1. (CloseAfterWrites /\ WorkerLeaves)'
    BY <1>24 DEF CloseDone
  <2>2. FullQueueIsServed'
    BY <1>24 DEF CloseDone
  <2>3. StallHasWaker'
    BY <1>24 DEF CloseDone
  <2> QED BY <2>1, <2>2, <2>3
<1>25. CASE UNCHANGED vars
  BY <1>25 DEF vars
<1> QED
  BY <1>1, <1>2, <1>3, <1>4, <1>5, <1>6, <1>7, <1>8, <1>9, <1>10, <1>11, <1>12, <1>13,
     <1>14, <1>15, <1>16, <1>17, <1>18, <1>19, <1>20, <1>21, <1>22, <1>23, <1>24, <1>25
  DEF Next, Client, Inside, FlushWorker, Close

\* No lost wakeup: while a WriteBatch or Close waits on flushCond the queue is
\* full and a broadcast is on its way, for any clients and any MaxImmMemtables,
\* unless Snapshot is used or a flush can fail.
THEOREM NoLostWakeup == ASSUME OrderlyQueue PROVE Spec => []StallHasWaker
<1>1. TypeInv /\ StallInv /\ [Next]_vars => (TypeInv /\ StallInv)'
  BY TypeInvStep, StallInvStep
<1>2. TypeInv /\ StallInv => StallHasWaker
  BY DEF StallInv
<1> QED
  BY TypeInvInit, StallInvInit, <1>1, <1>2, PTL DEF Spec
==============================================================================
