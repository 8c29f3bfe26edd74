-------------------------- MODULE DurabilityWorker --------------------------
(***************************************************************************)
(* commitlog/durability.go: the goroutine that persists committed          *)
(* transactions, the producer that feeds it (EnqueueCommitted), the        *)
(* callers that wait for an fsync (WaitUntilDurable) and Close.            *)
(*                                                                         *)
(* Actors and the granularity of their steps:                              *)
(*   - the executor goroutine, the only caller of EnqueueCommitted.  The   *)
(*     section under stateMu is one step, the channel select is another;   *)
(*   - the worker goroutine run(): every channel receive, segment append,  *)
(*     fsync, atomic store of durable and critical section is one step;    *)
(*   - Close(), one step per blocking point;                               *)
(*   - waiters, which call WaitUntilDurable and later look at the channel. *)
(* A transaction is its ID.  Segment bytes are a count of records.         *)
(***************************************************************************)
EXTENDS Integers, Sequences

CONSTANTS
    Waiters,          \* callers of WaitUntilDurable, each waiting once
    MaxTxID,          \* ^uint64(0): the last transaction ID there is
    Recovered,        \* the transaction recovery replayed last
    ChannelCapacity,  \* CommitLogOptions.ChannelCapacity
    DrainBatchSize,   \* CommitLogOptions.DrainBatchSize
    FsyncPerTx,       \* CommitLogOptions.FsyncMode = FsyncPerTx
    MaxSegmentRecs    \* records that make seg.Size() reach MaxSegmentSize

ASSUME MaxTxIDAssumption == MaxTxID \in Nat \ {0}
ASSUME RecoveredAssumption == Recovered \in 0 .. MaxTxID - 1
ASSUME CapacityAssumption == ChannelCapacity \in Nat \ {0}
ASSUME DrainAssumption == DrainBatchSize \in Nat \ {0}
ASSUME FsyncModeAssumption == FsyncPerTx \in BOOLEAN
ASSUME SegmentSizeAssumption == MaxSegmentRecs \in Nat \ {0}

VARIABLES
    nextTx,    \* executor: the ID its next commit takes
    enq,       \* executor: "idle", or "sending" inside the select
    accepted,  \* history: the last ID whose EnqueueCommitted returned
    refused,   \* history: why an EnqueueCommitted panicked, or "no"
    lastEnq, closing, fatal,    \* guarded by stateMu
    durable,   \* the atomic durable ID
    ch,        \* the buffered channel
    chClosed,  \* close(dw.ch) has happened
    closeCh,   \* closeCh is closed
    pc,        \* the worker's position in run / processBatch
    batch,     \* the items it drained
    item,      \* the index in batch it is working on
    segStart, segLast,  \* active segment: first ID, last ID appended (0: none)
    synced,    \* the last ID whose record an fsync has covered
    closer,    \* Close's position
    wstate,    \* per waiter: idle, pending, ready, closed, ok, err
    wtx        \* per waiter: the ID it waits for

enqVars    == <<nextTx, enq, accepted, refused, lastEnq>>
chanVars   == <<ch, chClosed, closeCh>>
workerVars == <<pc, batch, item, segStart, segLast, synced, durable>>
closeVars  == <<closing, closer>>
waitVars   == <<wstate, wtx>>
vars == <<enqVars, chanVars, workerVars, closeVars, waitVars, fatal>>

TxIDs == 1 .. MaxTxID

-----------------------------------------------------------------------------
(* State after newDurabilityWorkerFromSegment.  The segment the resume plan *)
(* opened either already ends at Recovered, or is a fresh segment created   *)
(* by the plan (durable = start - 1), or is an existing empty segment, for  *)
(* which openSegmentForAppendInPlaceResumePlan reports seg.lastTx = 0.      *)
Init ==
    /\ nextTx = Recovered + 1
    /\ enq = "idle" /\ accepted = Recovered /\ refused = "no"
    /\ \/ /\ Recovered > 0
          /\ segStart \in 1 .. Recovered /\ segLast = Recovered
          /\ durable = Recovered /\ lastEnq = Recovered
       \/ /\ segStart = Recovered + 1 /\ segLast = 0
          /\ durable \in {0, Recovered} /\ lastEnq = durable
    /\ synced = Recovered
    /\ closing = FALSE /\ fatal = FALSE /\ closer = "open"
    /\ ch = <<>> /\ chClosed = FALSE /\ closeCh = FALSE
    /\ pc = "recv" /\ batch = <<>> /\ item = 0
    /\ wstate = [w \in Waiters |-> "idle"]
    /\ wtx = [w \in Waiters |-> 0]

-----------------------------------------------------------------------------
(* The executor goroutine. *)

\* Mutant: a worker that resumed on an empty segment numbers from one.
nextEnqueuedFromOne == lastEnq + 1

\* nextEnqueuedTxIDLocked: MaxTxID + 1 stands for "no further ID".
nextEnqueuedTxIDLocked == IF lastEnq # 0 THEN lastEnq + 1 ELSE segStart

\* EnqueueCommitted up to the unlock.  The executor has consumed nextTx
\* before it calls, whatever the outcome.
EnqueueCommitted ==
    /\ enq = "idle"
    /\ nextTx \in TxIDs
    /\ nextTx' = nextTx + 1
    /\ \/ /\ fatal \/ closing
          /\ refused' = "stopped"
          /\ UNCHANGED <<enq, lastEnq>>
       \/ /\ ~fatal /\ ~closing
          /\ nextTx # nextEnqueuedTxIDLocked
          /\ refused' = "gap"
          /\ UNCHANGED <<enq, lastEnq>>
       \/ /\ ~fatal /\ ~closing
          /\ nextTx = nextEnqueuedTxIDLocked
          /\ lastEnq' = nextTx
          /\ enq' = "sending"
          /\ UNCHANGED refused
    /\ UNCHANGED <<accepted, chanVars, workerVars, closeVars, waitVars, fatal>>

\* The select takes the send.
EnqueueSend ==
    /\ enq = "sending"
    /\ ~chClosed
    /\ Len(ch) < ChannelCapacity
    /\ ch' = Append(ch, lastEnq)
    /\ enq' = "idle"
    /\ accepted' = lastEnq
    /\ UNCHANGED <<nextTx, refused, lastEnq, chClosed, closeCh, workerVars,
                   closeVars, waitVars, fatal>>

\* The select takes closeCh: EnqueueCommitted panics.
EnqueueAbort ==
    /\ enq = "sending"
    /\ closeCh
    /\ enq' = "idle"
    /\ refused' = "stopped"
    /\ UNCHANGED <<nextTx, accepted, lastEnq, chanVars, workerVars, closeVars,
                   waitVars, fatal>>

-----------------------------------------------------------------------------
(* The worker goroutine: run, processBatch, syncBatchTail. *)

Receive ==
    /\ pc = "recv"
    /\ ch # <<>>
    /\ batch' = <<Head(ch)>>
    /\ ch' = Tail(ch)
    /\ pc' = "drain"
    /\ UNCHANGED <<enqVars, chClosed, closeCh, item, segStart, segLast, synced,
                   durable, closeVars, waitVars, fatal>>

\* The receive reports a closed and empty channel: run returns.
ReceiveClosed ==
    /\ pc = "recv"
    /\ ch = <<>> /\ chClosed
    /\ pc' = "done"
    /\ UNCHANGED <<enqVars, chanVars, batch, item, segStart, segLast, synced,
                   durable, closeVars, waitVars, fatal>>

DrainMore ==
    /\ pc = "drain"
    /\ Len(batch) < DrainBatchSize
    /\ ch # <<>>
    /\ batch' = Append(batch, Head(ch))
    /\ ch' = Tail(ch)
    /\ UNCHANGED <<enqVars, chClosed, closeCh, pc, item, segStart, segLast,
                   synced, durable, closeVars, waitVars, fatal>>

DrainStop ==
    /\ pc = "drain"
    /\ Len(batch) = DrainBatchSize \/ ch = <<>>
    /\ pc' = "append"
    /\ item' = 1
    /\ UNCHANGED <<enqVars, chanVars, batch, segStart, segLast, synced,
                   durable, closeVars, waitVars, fatal>>

\* SegmentWriter.Append accepts only the next contiguous ID.
AppendAllowed(tx) == tx = IF segLast # 0 THEN segLast + 1 ELSE segStart

AppendRecord ==
    /\ pc = "append"
    /\ AppendAllowed(batch[item])
    /\ segLast' = batch[item]
    /\ IF FsyncPerTx \/ item = Len(batch)
         THEN pc' = "sync" /\ UNCHANGED item
         ELSE item' = item + 1 /\ UNCHANGED pc
    /\ UNCHANGED <<enqVars, chanVars, batch, segStart, synced, durable,
                   closeVars, waitVars, fatal>>

\* Encoding or writing the record fails, or the segment refuses the ID.
AppendFails ==
    /\ pc = "append"
    /\ pc' = "fail"
    /\ UNCHANGED <<enqVars, chanVars, batch, item, segStart, segLast, synced,
                   durable, closeVars, waitVars, fatal>>

\* SegmentWriter.Sync flushes the buffered records and fsyncs the file.
SyncSegment ==
    /\ pc = "sync"
    /\ synced' = segLast
    /\ pc' = "store"
    /\ UNCHANGED <<enqVars, chanVars, batch, item, segStart, segLast, durable,
                   closeVars, waitVars, fatal>>

SyncFails ==
    /\ pc = "sync"
    /\ pc' = "fail"
    /\ UNCHANGED <<enqVars, chanVars, batch, item, segStart, segLast, synced,
                   durable, closeVars, waitVars, fatal>>

StoreDurable ==
    /\ pc = "store"
    /\ durable' = batch[item]
    /\ pc' = "release"
    /\ UNCHANGED <<enqVars, chanVars, batch, item, segStart, segLast, synced,
                   closeVars, waitVars, fatal>>

\* Mutant: the waiter for the synced transaction itself is not released.
releaseWaitersBelow(tx) ==
    wstate' = [w \in Waiters |->
                 IF wstate[w] = "pending" /\ wtx[w] < tx THEN "ready"
                                                         ELSE wstate[w]]

releaseWaitersUpTo(tx) ==
    wstate' = [w \in Waiters |->
                 IF wstate[w] = "pending" /\ wtx[w] <= tx THEN "ready"
                                                          ELSE wstate[w]]

ReleaseWaiters ==
    /\ pc = "release"
    /\ releaseWaitersUpTo(batch[item])
    /\ IF item < Len(batch)
         THEN item' = item + 1 /\ pc' = "append"
         ELSE pc' = "rotate" /\ UNCHANGED item
    /\ UNCHANGED <<enqVars, chanVars, batch, segStart, segLast, synced,
                   durable, closeVars, wtx, fatal>>

\* processBatch ends: rotate a full segment, then wait for the next item.
SegmentFull == segLast - segStart + 1 >= MaxSegmentRecs /\ segLast # MaxTxID

RotateSegment ==
    /\ pc = "rotate"
    /\ IF SegmentFull
         THEN segStart' = segLast + 1 /\ segLast' = 0
         ELSE UNCHANGED <<segStart, segLast>>
    /\ pc' = "recv"
    /\ batch' = <<>>
    /\ item' = 0
    /\ UNCHANGED <<enqVars, chanVars, synced, durable, closeVars, waitVars,
                   fatal>>

\* Closing the old segment or creating the new one fails.  The batch is
\* already durable, the error is fatal all the same.
RotateFails ==
    /\ pc = "rotate"
    /\ SegmentFull
    /\ pc' = "fail"
    /\ UNCHANGED <<enqVars, chanVars, batch, item, segStart, segLast, synced,
                   durable, closeVars, waitVars, fatal>>

closeWaitersLocked ==
    wstate' = [w \in Waiters |->
                 IF wstate[w] = "pending" THEN "closed" ELSE wstate[w]]

\* Mutant: the error is latched but the waiters are left alone.
LatchFatalOnly ==
    /\ pc = "fail"
    /\ fatal' = TRUE
    /\ pc' = "signal"
    /\ UNCHANGED <<enqVars, chanVars, batch, item, segStart, segLast, synced,
                   durable, closeVars, waitVars>>

\* run latches the error and closes the waiters in one critical section,
\* then signals closeCh.
LatchFatal ==
    /\ pc = "fail"
    /\ fatal' = TRUE
    /\ closeWaitersLocked
    /\ pc' = "signal"
    /\ UNCHANGED <<enqVars, chanVars, batch, item, segStart, segLast, synced,
                   durable, closeVars, wtx>>

SignalFatal ==
    /\ pc = "signal"
    /\ closeCh' = TRUE
    /\ pc' = "done"
    /\ UNCHANGED <<enqVars, ch, chClosed, batch, item, segStart, segLast,
                   synced, durable, closeVars, waitVars, fatal>>

-----------------------------------------------------------------------------
(* Close. *)

CloseBegin ==
    /\ closer = "open"
    /\ closing' = TRUE
    /\ closer' = "signal"
    /\ UNCHANGED <<enqVars, chanVars, workerVars, waitVars, fatal>>

CloseSignal ==
    /\ closer = "signal"
    /\ closeCh' = TRUE
    /\ closer' = "sends"
    /\ UNCHANGED <<enqVars, ch, chClosed, workerVars, closing, waitVars, fatal>>

\* Mutant: Close forgets close(dw.ch).
CloseChannelSkipped ==
    /\ closer = "sends"
    /\ enq # "sending"
    /\ closer' = "join"
    /\ UNCHANGED <<enqVars, chanVars, workerVars, closing, waitVars, fatal>>

\* sends.Wait() has returned: no sender is inside the select.
CloseChannel ==
    /\ closer = "sends"
    /\ enq # "sending"
    /\ chClosed' = TRUE
    /\ closer' = "join"
    /\ UNCHANGED <<enqVars, ch, closeCh, workerVars, closing, waitVars, fatal>>

\* <-done: the segment is closed and the remaining waiters are closed.
CloseFinish ==
    /\ closer = "join"
    /\ pc = "done"
    /\ closeWaitersLocked
    /\ closer' = "closed"
    /\ UNCHANGED <<enqVars, chanVars, workerVars, closing, wtx, fatal>>

-----------------------------------------------------------------------------
(* Waiters: DurabilityWorker.WaitUntilDurable, and the way its callers read *)
(* the channel (Runtime.WaitUntilDurable re-checks DurableTxID when it is   *)
(* closed without a value).  A caller knows only IDs of finished commits.   *)

WaitUntilDurable(w, tx) ==
    /\ wstate[w] = "idle"
    /\ tx < nextTx
    /\ wtx' = [wtx EXCEPT ![w] = tx]
    /\ wstate' = [wstate EXCEPT ![w] =
                    IF durable >= tx THEN "ready"
                    ELSE IF fatal \/ closing THEN "closed" ELSE "pending"]
    /\ UNCHANGED <<enqVars, chanVars, workerVars, closeVars, fatal>>

ObserveWait(w) ==
    /\ wstate[w] \in {"ready", "closed"}
    /\ wstate' = [wstate EXCEPT ![w] =
                    IF wstate[w] = "ready" \/ durable >= wtx[w] THEN "ok"
                                                                ELSE "err"]
    /\ UNCHANGED <<enqVars, chanVars, workerVars, closeVars, wtx, fatal>>

-----------------------------------------------------------------------------
Producer == EnqueueCommitted \/ EnqueueSend \/ EnqueueAbort

Worker ==
    \/ Receive \/ ReceiveClosed \/ DrainMore \/ DrainStop
    \/ AppendRecord \/ AppendFails \/ SyncSegment \/ SyncFails
    \/ StoreDurable \/ ReleaseWaiters \/ RotateSegment \/ RotateFails
    \/ LatchFatal \/ SignalFatal

CloseCall == CloseBegin \/ CloseSignal \/ CloseChannel \/ CloseFinish

WaiterStep(w) == ObserveWait(w) \/ \E tx \in TxIDs : WaitUntilDurable(w, tx)

Next == Producer \/ Worker \/ CloseCall \/ \E w \in Waiters : WaiterStep(w)

(* The worker goroutine keeps running and its system calls return; a send   *)
(* that can proceed, and a Close that has begun, are scheduled.  Nothing    *)
(* obliges the executor to commit, or anyone to call Close.                 *)
Fairness ==
    /\ WF_vars(Worker)
    /\ WF_vars(EnqueueSend \/ EnqueueAbort)
    /\ WF_vars(CloseSignal \/ CloseChannel \/ CloseFinish)

SafetySpec == Init /\ [][Next]_vars

Spec == SafetySpec /\ Fairness

-----------------------------------------------------------------------------
\* Type correctness of the worker's fields and of the actors' positions.
TypeOK ==
    /\ nextTx \in 1 .. MaxTxID + 1
    /\ enq \in {"idle", "sending"}
    /\ accepted \in 0 .. MaxTxID
    /\ refused \in {"no", "stopped", "gap"}
    /\ lastEnq \in 0 .. MaxTxID
    /\ closing \in BOOLEAN /\ fatal \in BOOLEAN
    /\ durable \in 0 .. MaxTxID
    /\ ch \in Seq(TxIDs) /\ Len(ch) <= ChannelCapacity
    /\ chClosed \in BOOLEAN /\ closeCh \in BOOLEAN
    /\ pc \in {"recv", "drain", "append", "sync", "store", "release",
               "rotate", "fail", "signal", "done"}
    /\ batch \in Seq(TxIDs) /\ Len(batch) <= DrainBatchSize
    /\ item \in 0 .. DrainBatchSize
    /\ segStart \in TxIDs
    /\ segLast \in 0 .. MaxTxID
    /\ synced \in 0 .. MaxTxID
    /\ closer \in {"open", "signal", "sends", "join", "closed"}
    /\ wstate \in [Waiters -> {"idle", "pending", "ready", "closed", "ok", "err"}]
    /\ wtx \in [Waiters -> 0 .. MaxTxID]

\* A caller that WaitUntilDurable answered, on the channel or on the
\* re-check of DurableTxID, waits for a record that an fsync has covered.
AckIsDurable ==
    \A w \in Waiters : wstate[w] \in {"ready", "ok"} => wtx[w] <= synced

\* Neither contiguity check ever fires: EnqueueCommitted never sees a gap
\* between the executor's ID and the worker's, whichever segment recovery
\* resumed on, and the segment is always handed its next contiguous ID.
NoGap ==
    /\ refused # "gap"
    /\ pc = "append" => AppendAllowed(batch[item])

\* The panics of the Go channel are unreachable: close(ch) never happens
\* while EnqueueCommitted is inside its select.
NoSendOnClosedChannel == chClosed => enq # "sending"

\* When Close returns without a fatal error, every transaction whose
\* EnqueueCommitted returned is durable, and Close reports exactly it.
CleanCloseKeepsAccepted ==
    closer = "closed" /\ ~fatal =>
        /\ synced = accepted
        /\ accepted > Recovered => durable = accepted

\* Once the worker has failed, or Close has returned, nobody is left on a
\* channel that no one will ever close.
NoStrandedWaiter ==
    fatal \/ closer = "closed" => \A w \in Waiters : wstate[w] # "pending"

\* A waiter is turned away only by a failure or by Close.
ErrOnlyWhenStopping ==
    (\E w \in Waiters : wstate[w] \in {"closed", "err"}) => fatal \/ closing

\* What a waiter is told is true and reaches it: durable means fsynced, the
\* error means that the worker stops, and a stopped worker leaves no one waiting.
WaitersHearTheTruth == AckIsDurable /\ ErrOnlyWhenStopping /\ NoStrandedWaiter

\* What EnqueueCommitted accepted stays one run of consecutive IDs, on whichever
\* segment recovery resumed, and a Close without error keeps all of it.
AcceptedIsKept == NoGap /\ NoSendOnClosedChannel /\ CleanCloseKeepsAccepted

\* After Close has returned nothing is written or published any more: the
\* result that Close cached stays the truth.
ClosedIsFinal ==
    [][closer = "closed" => UNCHANGED <<durable, synced, segLast, fatal>>]_vars

\* A pending waiter for a transaction that was handed to the worker is
\* answered, one way or the other.
EnqueuedWaitEnds ==
    \A w \in Waiters :
        (wstate[w] = "pending" /\ wtx[w] \in Recovered + 1 .. lastEnq)
            ~> wstate[w] # "pending"

\* Close returns once called, whatever the worker and the executor were
\* doing: no deadlock between sends.Wait, the full channel and the worker.
CloseReturns == closing ~> closer = "closed"
=============================================================================
