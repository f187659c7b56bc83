------------------------------ MODULE WalWriter ------------------------------
(****************************************************************************)
(* The write-ahead log writer (internal/storage/wal/writer.go): callers of  *)
(* AppendBatch enqueue a ticket and wait for its result, the batch worker   *)
(* gathers tickets into group commits, rotates segments, writes and syncs,  *)
(* and Close drains what is queued.  What a later recovery (recovery.go)    *)
(* makes of the segments is the operator Replayed.                          *)
(*                                                                          *)
(* A ticket is known by its caller, who makes one call with a batch of      *)
(* Records records; sizes are counted in records, one frame each.           *)
(****************************************************************************)
EXTENDS Naturals, Sequences, FiniteSets, SequencesExt

CONSTANTS
  Callers,
  NoOne,     \* no leftover ticket
  Torn,      \* an incomplete frame
  Records,   \* records in one call of AppendBatch
  ChanCap,   \* Options.IngestChannelCapacity
  BatchCap,  \* Options.BatchSizeBytes
  SegCap,    \* Options.SegmentSizeBytes
  MayClose,  \* whether Close is called
  Faults     \* which I/O may fail: write (or sync), rotate

ASSUME WalAssumption ==
  /\ NoOne \notin Callers
  /\ {Records, ChanCap, BatchCap, SegCap} \subseteq Nat \ {0}
  /\ Torn \notin [ticket : Callers, record : 1..Records]
  /\ MayClose \in BOOLEAN /\ Faults \subseteq {"write", "rotate"}

VARIABLES
  segments,   \* the segment files, oldest first: sequences of frames
  active,     \* activeFile # nil
  size,       \* currentSizeBytes
  channel,    \* ingestionChannel
  isClosed,   \* isClosed and closedChan, set together
  terminal,   \* terminalErr # nil
  pc,         \* step of a caller, and in the end its result: ok, error, closed
  wpc, batch, leftover,  \* batchWorker
  draining,   \* it is in the loop that drains the channel after Close
  kpc,        \* Close
  queued      \* history: the tickets in the order in which they were enqueued

vars == <<segments, active, size, channel, isClosed, terminal, pc, wpc, batch, leftover,
          draining, kpc, queued>>
disk   == <<segments, active, size>>
worker == <<wpc, batch, leftover, draining>>

-----------------------------------------------------------------------------
(* AppendBatch *)

Enqueue(c) ==
  /\ Len(channel) < ChanCap
  /\ channel' = Append(channel, c) /\ queued' = Append(queued, c)
  /\ pc' = [pc EXCEPT ![c] = "waiting"]

\* Under stateMutex.RLock: refuse, enqueue, or find the channel full.
AppendBatch(c) ==
  /\ pc[c] = "idle"
  /\ \/ isClosed /\ pc' = [pc EXCEPT ![c] = "closed"] /\ UNCHANGED <<channel, queued>>
     \/ /\ ~isClosed /\ terminal
        /\ pc' = [pc EXCEPT ![c] = "error"] /\ UNCHANGED <<channel, queued>>
     \/ ~isClosed /\ ~terminal /\ Enqueue(c)
     \/ /\ ~isClosed /\ ~terminal /\ Len(channel) >= ChanCap
        /\ pc' = [pc EXCEPT ![c] = "blocked"] /\ UNCHANGED <<channel, queued>>
  /\ UNCHANGED <<disk, isClosed, terminal, worker, kpc>>

\* The second select, without the lock: either case when both are ready.
Blocked(c) ==
  /\ pc[c] = "blocked"
  /\ \/ Enqueue(c)
     \/ isClosed /\ pc' = [pc EXCEPT ![c] = "closed"] /\ UNCHANGED <<channel, queued>>
  /\ UNCHANGED <<disk, isClosed, terminal, worker, kpc>>

-----------------------------------------------------------------------------
(* batchWorker *)

\* Send the result of their commit to the callers in cs.
Answer(cs, result) == pc' = [c \in Callers |-> IF c \in cs THEN result ELSE pc[c]]

Receive ==
  /\ channel # <<>>
  /\ batch' = <<Head(channel)>> /\ channel' = Tail(channel) /\ wpc' = "gather"

MutLeftoverNext == IF channel = <<>> THEN leftover # NoOne ELSE FALSE
LeftoverNext == leftover # NoOne

\* Whom the worker answers as it gives up, before it empties the channel.
MutGivenUp == {}
GivenUp == {leftover}

\* The select of the worker may take the closed closedChan.
MutSeesClose == FALSE
SeesClose == isClosed

\* The top of the loop.
WorkerNext ==
  /\ wpc = "top"
  /\ \/ /\ terminal /\ wpc' = "fail" /\ Answer(GivenUp, "error") /\ leftover' = NoOne
        /\ UNCHANGED <<batch, channel, draining>>
     \/ /\ ~terminal /\ LeftoverNext
        /\ batch' = <<leftover>> /\ leftover' = NoOne /\ wpc' = "gather"
        /\ UNCHANGED <<channel, pc, draining>>
     \/ ~terminal /\ ~LeftoverNext /\ Receive /\ UNCHANGED <<leftover, pc, draining>>
     \/ /\ ~terminal /\ ~LeftoverNext /\ SeesClose
        /\ draining' = TRUE /\ wpc' = "drain" /\ UNCHANGED <<batch, leftover, channel, pc>>
  /\ UNCHANGED <<disk, isClosed, terminal, kpc, queued>>

\* After a terminal error: answer what is in the channel and leave.
WorkerFails ==
  /\ wpc = "fail"
  /\ \/ channel # <<>> /\ Answer({Head(channel)}, "error") /\ channel' = Tail(channel) /\ UNCHANGED wpc
     \/ channel = <<>> /\ wpc' = "exit" /\ UNCHANGED <<channel, pc>>
  /\ UNCHANGED <<disk, isClosed, terminal, batch, leftover, draining, kpc, queued>>

\* After Close: commit what is left without looking at terminalErr.
WorkerDrains ==
  /\ wpc = "drain"
  /\ \/ /\ leftover # NoOne /\ batch' = <<leftover>> /\ leftover' = NoOne /\ wpc' = "gather"
        /\ UNCHANGED channel
     \/ leftover = NoOne /\ Receive /\ UNCHANGED leftover
     \/ leftover = NoOne /\ channel = <<>> /\ wpc' = "exit" /\ UNCHANGED <<batch, leftover, channel>>
  /\ UNCHANGED <<disk, isClosed, terminal, pc, draining, kpc, queued>>

MutFits(n) == TRUE
Fits(n) == n * Records <= BatchCap

\* gatherBatch, one turn of its loop.
GatherBatch ==
  /\ wpc = "gather"
  /\ \/ /\ channel # <<>> /\ Fits(Len(batch) + 1)
        /\ batch' = Append(batch, Head(channel)) /\ channel' = Tail(channel)
        /\ UNCHANGED <<wpc, leftover>>
     \/ /\ channel # <<>> /\ ~Fits(Len(batch) + 1)
        /\ leftover' = Head(channel) /\ channel' = Tail(channel) /\ wpc' = "write"
        /\ UNCHANGED batch
     \/ channel = <<>> /\ wpc' = "write" /\ UNCHANGED <<batch, leftover, channel>>
  /\ UNCHANGED <<disk, isClosed, terminal, pc, draining, kpc, queued>>

\* The frames of the gathered tickets, in order.
FramesOf(tickets) ==
  [k \in 1..(Len(tickets) * Records) |->
     [ticket |-> tickets[((k - 1) \div Records) + 1], record |-> ((k - 1) % Records) + 1]]

NeedsRotation == size + Len(batch) * Records > SegCap
NextStep == IF draining THEN "drain" ELSE "top"

MutMarkTerminalError == terminal
MarkTerminalError == TRUE

\* writeAndSyncBatch reports an error to the whole batch.
CommitFails ==
  /\ terminal' = MarkTerminalError
  /\ Answer(Range(batch), "error") /\ batch' = <<>> /\ wpc' = NextStep

\* rotateActiveFile; it may fail before or after it has closed the old file.
RotateActiveFile ==
  /\ wpc = "write" /\ NeedsRotation
  /\ \/ /\ segments' = Append(segments, <<>>) /\ active' = TRUE /\ size' = 0
        /\ wpc' = "commit" /\ UNCHANGED <<terminal, pc, batch>>
     \/ "rotate" \in Faults /\ active' \in {active, FALSE} /\ CommitFails /\ UNCHANGED <<segments, size>>
  /\ UNCHANGED <<channel, isClosed, leftover, draining, kpc, queued>>

Extend(frames) == [segments EXCEPT ![Len(segments)] = @ \o frames]

\* The write and sync of writeAndSyncBatch.  A failed write leaves any prefix
\* of the buffer behind, with or without an incomplete frame.
Commit ==
  /\ wpc = "commit" \/ (wpc = "write" /\ ~NeedsRotation)
  /\ LET frames == FramesOf(batch) IN
     \/ /\ active
        /\ segments' = Extend(frames) /\ size' = size + Len(frames)
        /\ Answer(Range(batch), "ok") /\ batch' = <<>> /\ wpc' = NextStep
        /\ UNCHANGED terminal
     \/ /\ active /\ "write" \in Faults /\ CommitFails
        /\ \E n \in 0..Len(frames), tail \in {<<>>, <<Torn>>} :
             segments' = Extend(SubSeq(frames, 1, n) \o (IF n < Len(frames) THEN tail ELSE <<>>))
        /\ UNCHANGED size
     \/ ~active /\ CommitFails /\ UNCHANGED <<segments, size>>
  /\ UNCHANGED <<active, channel, isClosed, leftover, draining, kpc, queued>>

-----------------------------------------------------------------------------
(* Close *)

CloseStart ==
  /\ MayClose /\ kpc = "none"
  /\ isClosed' = TRUE /\ kpc' = "join"
  /\ UNCHANGED <<disk, channel, terminal, pc, worker, queued>>

CloseFinish ==
  /\ kpc = "join" /\ wpc = "exit" /\ kpc' = "done"
  /\ UNCHANGED <<disk, channel, isClosed, terminal, pc, worker, queued>>

-----------------------------------------------------------------------------
Init ==
  /\ segments = <<<<>>>> /\ active = TRUE /\ size = 0
  /\ channel = <<>> /\ isClosed = FALSE /\ terminal = FALSE
  /\ pc = [c \in Callers |-> "idle"]
  /\ wpc = "top" /\ batch = <<>> /\ leftover = NoOne /\ draining = FALSE
  /\ kpc = "none" /\ queued = <<>>

BatchWorker == WorkerNext \/ WorkerFails \/ WorkerDrains \/ GatherBatch \/ RotateActiveFile \/ Commit
Next == (\E c \in Callers : AppendBatch(c) \/ Blocked(c)) \/ BatchWorker \/ CloseStart \/ CloseFinish

\* Goroutines are scheduled fairly; nobody is obliged to append or to close.
Fairness == WF_vars(BatchWorker) /\ WF_vars(CloseFinish) /\ \A c \in Callers : WF_vars(Blocked(c))

Spec == Init /\ [][Next]_vars /\ Fairness

-----------------------------------------------------------------------------
(* Recovery *)

\* The frames of a segment that replayFile hands out: it stops at the first
\* incomplete one and truncates the segment there.
ReplayFile(s) == {k \in DOMAIN s : \A i \in 1..k : s[i] # Torn}

\* Replay goes through all the segments: the places <<segment, frame>> it reads,
\* and their order.
Replayed == UNION {{j} \X ReplayFile(segments[j]) : j \in DOMAIN segments}
ReadBefore(p, q) == p[1] < q[1] \/ (p[1] = q[1] /\ p[2] < q[2])
FrameAt(p) == segments[p[1]][p[2]]

-----------------------------------------------------------------------------
(* Properties *)

Frames == [ticket : Callers, record : 1..Records] \cup {Torn}

\* Type correctness of the files, the channel and every goroutine's step; a segment
\* outgrows its limit only by the group commit that opened it.
TypeOK ==
  /\ \A j \in DOMAIN segments : Range(segments[j]) \subseteq Frames
  /\ active \in BOOLEAN /\ size \in 0..Max({SegCap, BatchCap, Records})
  /\ Range(channel) \subseteq Callers /\ Len(channel) <= ChanCap
  /\ isClosed \in BOOLEAN /\ terminal \in BOOLEAN /\ draining \in BOOLEAN
  /\ pc \in [Callers -> {"idle", "blocked", "waiting", "ok", "error", "closed"}]
  /\ wpc \in {"top", "gather", "write", "commit", "drain", "fail", "exit"}
  /\ Range(batch) \subseteq Callers /\ leftover \in Callers \cup {NoOne}
  /\ kpc \in {"none", "join", "done"} /\ Range(queued) \subseteq Callers

\* Close came after a failed commit: the drain goes on behind a torn frame.
DrainsBroken == draining /\ terminal

\* Frame f was handed to AppendBatch before frame g.
Precedes(f, g) ==
  \E i, j \in DOMAIN queued :
    queued[i] = f.ticket /\ queued[j] = g.ticket /\ (i < j \/ (i = j /\ f.record < g.record))

\* Durability and order: until Close drains a broken log, a crash at any time
\* leaves every record of the acknowledged batches to be replayed, each once and
\* in the order in which they were enqueued, across group commits, leftover
\* tickets, segment rotations and failed commits.
CommitOrder ==
  LET acked == {p \in Replayed : pc[FrameAt(p).ticket] = "ok"}
  IN  ~DrainsBroken =>
        /\ \A c \in Callers, n \in 1..Records :
             pc[c] = "ok" => \E p \in acked : FrameAt(p) = [ticket |-> c, record |-> n]
        /\ \A p, q \in acked : ReadBefore(p, q) => Precedes(FrameAt(p), FrameAt(q))

\* Caller c waits for a worker that has left.  Its ticket reached the channel
\* after the worker had emptied it (only a caller that found the channel full
\* can come so late: AppendBatch enqueues under the lock), or such tickets have
\* filled the channel and c still waits for room, which only Close ends.
Abandoned(c) ==
  /\ wpc = "exit"
  /\ c \in Range(channel) \/ (pc[c] = "blocked" /\ Len(channel) >= ChanCap /\ ~isClosed)

\* Every AppendBatch that has been accepted or waits for room returns, through
\* commits, failed commits, the drain after Close and the last tickets of a
\* broken log, unless it is abandoned by a worker that has left.
AppendReturns ==
  \A c \in Callers : pc[c] \in {"blocked", "waiting"} ~> (pc[c] \in {"ok", "error", "closed"} \/ Abandoned(c))

\* Close returns: the worker leaves once the channel is drained.
CloseReturns == isClosed ~> kpc = "done"
==============================================================================
