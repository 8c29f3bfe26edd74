----------------------- MODULE DurabilityWorkerProofs -----------------------
(***************************************************************************)
(* The safety properties of DurabilityWorker, for every channel capacity,  *)
(* batch size, fsync mode, segment size, recovered transaction and set of  *)
(* waiters.                                                                *)
(*                                                                         *)
(* The argument: the IDs in flight are one contiguous run.  accepted is    *)
(* the newest ID in the channel, so the channel, the batch in front of it  *)
(* and the tail of the active segment are determined by accepted and by    *)
(* two lengths (Queued, Working).  The durable ID never passes the fsynced *)
(* one, which never passes the tail of the segment (Persisted).            *)
(***************************************************************************)
EXTENDS DurabilityWorker, TLAPS

\* The ID the active segment takes next.
segNext == IF segLast # 0 THEN segLast + 1 ELSE segStart

\* The channel holds the most recently accepted IDs, in order, and the
\* batch the ones before them.
Queued ==
    /\ \A i \in 1 .. Len(ch) : ch[i] = accepted - Len(ch) + i
    /\ \A i \in 1 .. Len(batch) : batch[i] = accepted - Len(ch) - Len(batch) + i

\* Where the executor stands.  Once an ID was refused or given up, the
\* worker has stopped or is stopping.
Enqueuing ==
    /\ enq = "sending" => lastEnq = accepted + 1 /\ nextTx = lastEnq + 1
    /\ enq = "idle" /\ refused = "no" =>
          /\ nextTx = accepted + 1
          /\ lastEnq \in {0, accepted}
    /\ lastEnq = 0 =>
          /\ accepted = Recovered /\ segStart = Recovered + 1 /\ segLast = 0
          /\ pc \in {"recv", "done"} /\ ch = <<>> /\ batch = <<>>
    /\ lastEnq \in {0, accepted, accepted + 1}
    /\ Recovered <= accepted
    /\ refused # "no" => refused = "stopped" /\ (fatal \/ closing)

\* Where the worker stands.
Working ==
    /\ segLast # 0 => segStart <= segLast
    /\ pc = "recv" => batch = <<>> /\ segNext = accepted - Len(ch) + 1
    /\ pc = "drain" => /\ batch # <<>>
                       /\ segNext = accepted - Len(ch) - Len(batch) + 1
    /\ pc \in {"append", "sync", "store", "release", "rotate"} =>
          item \in 1 .. Len(batch)
    /\ pc = "append" => segNext = batch[item]
    /\ pc \in {"sync", "store", "release", "rotate"} => segLast = batch[item]
    /\ pc = "rotate" => item = Len(batch)
    /\ pc = "done" /\ ~fatal => ch = <<>> /\ segNext = accepted + 1

\* How far the records are durable.
Persisted ==
    /\ Recovered <= synced
    /\ durable <= synced
    /\ synced < segNext
    /\ pc \in {"recv", "drain", "done"} /\ ~fatal => synced = segNext - 1
    /\ pc \in {"store", "release", "rotate"} => synced = segLast
    /\ pc \in {"release", "rotate"} => durable = segLast
    /\ pc \in {"recv", "drain", "done"} /\ ~fatal =>
          (synced > Recovered => durable = synced)

\* How the flags and the positions of the actors go together.
Stopping ==
    /\ closer = "open" <=> ~closing
    /\ fatal => pc \in {"signal", "done"}
    /\ pc = "signal" => fatal
    /\ pc = "done" => fatal \/ chClosed
    /\ closeCh => fatal \/ closing
    /\ chClosed <=> closer \in {"join", "closed"}
    /\ chClosed => enq # "sending"
    /\ closer = "closed" => pc = "done"

\* What the waiters know.
Waiting ==
    /\ AckIsDurable
    /\ NoStrandedWaiter
    /\ ErrOnlyWhenStopping

IInv == TypeOK /\ Queued /\ Enqueuing /\ Working /\ Persisted /\ Stopping /\ Waiting

-----------------------------------------------------------------------------
\* Neighbours in the worker's batch carry consecutive IDs.
LEMMA BatchContiguous ==
    ASSUME TypeOK, Queued, NEW i \in 1 .. Len(batch), NEW j \in 1 .. Len(batch),
           j = i + 1
    PROVE  batch[j] = batch[i] + 1
<1>1. /\ batch[i] = accepted - Len(ch) - Len(batch) + i
      /\ batch[j] = accepted - Len(ch) - Len(batch) + j
    BY DEF Queued
<1>2. accepted \in Int /\ Len(ch) \in Int /\ Len(batch) \in Int
    BY MaxTxIDAssumption DEF TypeOK
<1> QED
    BY <1>1, <1>2

\* newDurabilityWorkerFromSegment establishes the invariant, whichever
\* segment recovery resumed on.
LEMMA InitInv == Init => IInv
<1> USE MaxTxIDAssumption, RecoveredAssumption, CapacityAssumption, DrainAssumption
<1> SUFFICES ASSUME Init PROVE IInv
    OBVIOUS
<1>1. TypeOK
    <2>1. /\ segStart \in TxIDs /\ segLast \in 0 .. MaxTxID
          /\ durable \in 0 .. MaxTxID /\ lastEnq \in 0 .. MaxTxID
        BY DEF Init, TxIDs
    <2>2. ch = <<>> /\ batch = <<>> /\ Len(<<>>) = 0 /\ <<>> \in Seq(TxIDs)
        BY DEF Init
    <2>3. /\ nextTx \in 1 .. MaxTxID + 1 /\ accepted \in 0 .. MaxTxID
          /\ synced \in 0 .. MaxTxID /\ item \in 0 .. DrainBatchSize
          /\ Len(ch) <= ChannelCapacity /\ Len(batch) <= DrainBatchSize
        BY <2>2 DEF Init
    <2>4. /\ wstate \in [Waiters -> {"idle", "pending", "ready", "closed", "ok", "err"}]
          /\ wtx \in [Waiters -> 0 .. MaxTxID]
        BY DEF Init
    <2> QED
        BY <2>1, <2>2, <2>3, <2>4 DEF Init, TypeOK
<1>2. Queued /\ Enqueuing /\ Working /\ Stopping
    BY DEF Init, Queued, Enqueuing, Working, Stopping, segNext
<1>3. Persisted
    BY DEF Init, Persisted, segNext
<1>4. Waiting
    BY DEF Init, Waiting, AckIsDurable, NoStrandedWaiter, ErrOnlyWhenStopping
<1> QED
    BY <1>1, <1>2, <1>3, <1>4 DEF IInv

-----------------------------------------------------------------------------
(* Every step preserves the invariant: one lemma per action. *)

\* WaitUntilDurable and its callers touch only what the waiters know.
LEMMA WaiterStepInv ==
    ASSUME IInv, NEW w \in Waiters, WaiterStep(w)
    PROVE  IInv'
<1> USE DEF IInv
<1>1. UNCHANGED <<enqVars, chanVars, workerVars, closeVars, fatal>>
    BY DEF WaiterStep, ObserveWait, WaitUntilDurable
<1>2. Queued' /\ Enqueuing' /\ Working' /\ Persisted' /\ Stopping'
    BY <1>1 DEF Queued, Enqueuing, Working, Persisted, Stopping, segNext,
                enqVars, chanVars, workerVars, closeVars
<1>3. TypeOK' /\ Waiting'
    <2> USE DEF enqVars, chanVars, workerVars, closeVars
    <2>1. CASE ObserveWait(w)
        BY <2>1 DEF ObserveWait, TypeOK, Waiting, Persisted, AckIsDurable,
                    NoStrandedWaiter, ErrOnlyWhenStopping
    <2>2. ASSUME NEW tx \in TxIDs, WaitUntilDurable(w, tx)
          PROVE  TypeOK' /\ Waiting'
        BY <2>2, MaxTxIDAssumption
           DEF WaitUntilDurable, TypeOK, TxIDs, Waiting, Persisted, Stopping,
               AckIsDurable, NoStrandedWaiter, ErrOnlyWhenStopping
    <2> QED
        BY <2>1, <2>2 DEF WaiterStep
<1> QED
    BY <1>2, <1>3

\* EnqueueCommitted takes the next ID or refuses because the worker stops.
LEMMA EnqueueCommittedStep ==
    ASSUME IInv, EnqueueCommitted
    PROVE  IInv'
<1> USE MaxTxIDAssumption, RecoveredAssumption, CapacityAssumption, DrainAssumption
<1> USE DEF IInv, TxIDs, enqVars, chanVars, workerVars, closeVars, waitVars
<1> USE DEF EnqueueCommitted, nextEnqueuedTxIDLocked
<1>1. TypeOK'
    BY DEF TypeOK
<1>2. Queued'
    BY DEF Queued
<1>3. Enqueuing'
    <2>1. CASE fatal \/ closing
        BY <2>1 DEF TypeOK, Enqueuing
    <2>2. CASE ~fatal /\ ~closing
        <3>1. refused = "no" /\ nextTx = accepted + 1
            BY <2>2 DEF Enqueuing
        <3>2. nextTx = nextEnqueuedTxIDLocked
            BY <3>1 DEF TypeOK, Enqueuing
        <3>3. lastEnq' = nextTx /\ enq' = "sending" /\ UNCHANGED refused
            BY <2>2, <3>2
        <3> QED
            BY <3>1, <3>3 DEF TypeOK, Enqueuing
    <2> QED
        BY <2>1, <2>2
<1>4. Working'
    BY DEF Working, segNext
<1>5. Persisted'
    BY DEF Persisted, segNext
<1>6. Stopping'
    BY DEF Stopping
<1>7. Waiting'
    BY DEF Waiting, AckIsDurable, NoStrandedWaiter,
           ErrOnlyWhenStopping
<1> QED BY <1>1, <1>2, <1>3, <1>4, <1>5, <1>6, <1>7

\* The accepted ID extends the run in the channel.
LEMMA EnqueueSendStep ==
    ASSUME IInv, EnqueueSend
    PROVE  IInv'
<1> USE MaxTxIDAssumption, RecoveredAssumption, CapacityAssumption, DrainAssumption
<1> USE DEF IInv, TxIDs, enqVars, chanVars, workerVars, closeVars, waitVars
<1> USE DEF EnqueueSend
<1>1. TypeOK'
    BY DEF TypeOK, Working, Enqueuing
<1>2. Queued'
    BY DEF TypeOK, Queued, Enqueuing
<1>3. Enqueuing'
    BY DEF TypeOK, Enqueuing
<1>4. Working'
    <2>1. Len(ch') = Len(ch) + 1 /\ accepted' = accepted + 1
        BY DEF TypeOK, Enqueuing
    <2>2. segNext' = segNext
        BY DEF segNext
    <2>3. ~(pc = "done" /\ ~fatal)
        BY DEF Stopping
    <2> QED
        BY <2>1, <2>2, <2>3 DEF TypeOK, Working
<1>5. Persisted'
    BY DEF Persisted, segNext
<1>6. Stopping'
    BY DEF Stopping
<1>7. Waiting'
    BY DEF Waiting, AckIsDurable, NoStrandedWaiter,
           ErrOnlyWhenStopping
<1> QED BY <1>1, <1>2, <1>3, <1>4, <1>5, <1>6, <1>7

\* An aborted send leaves a hole only behind a stopped worker.
LEMMA EnqueueAbortStep ==
    ASSUME IInv, EnqueueAbort
    PROVE  IInv'
<1> USE MaxTxIDAssumption, RecoveredAssumption, CapacityAssumption, DrainAssumption
<1> USE DEF IInv, TxIDs, enqVars, chanVars, workerVars, closeVars, waitVars
<1> USE DEF EnqueueAbort
<1>1. TypeOK'
    BY DEF TypeOK
<1>2. Queued'
    BY DEF Queued
<1>3. Enqueuing'
    BY DEF Enqueuing, Stopping
<1>4. Working'
    BY DEF Working, segNext
<1>5. Persisted'
    BY DEF Persisted, segNext
<1>6. Stopping'
    BY DEF Stopping
<1>7. Waiting'
    BY DEF Waiting, AckIsDurable, NoStrandedWaiter,
           ErrOnlyWhenStopping
<1> QED BY <1>1, <1>2, <1>3, <1>4, <1>5, <1>6, <1>7

\* The oldest ID moves from the channel to a new batch.
LEMMA ReceiveStep ==
    ASSUME IInv, Receive
    PROVE  IInv'
<1> USE MaxTxIDAssumption, RecoveredAssumption, CapacityAssumption, DrainAssumption
<1> USE DEF IInv, TxIDs, enqVars, chanVars, workerVars, closeVars, waitVars
<1> USE DEF Receive
<1>1. TypeOK'
    BY DEF TypeOK
<1>2. Queued'
    <2>1. Len(ch') = Len(ch) - 1 /\ Len(batch') = 1 /\ batch'[1] = ch[1]
        BY DEF TypeOK
    <2>2. \A i \in 1 .. Len(ch') : ch'[i] = ch[i + 1] /\ i + 1 \in 1 .. Len(ch)
        BY <2>1 DEF TypeOK
    <2>3. ch[1] = accepted - Len(ch) + 1
        BY DEF TypeOK, Queued
    <2>4. \A i \in 1 .. Len(ch') : ch'[i] = accepted - Len(ch') + i
        BY <2>1, <2>2 DEF TypeOK, Queued
    <2> QED
        BY <2>1, <2>3, <2>4 DEF TypeOK, Queued
<1>3. Enqueuing'
    BY DEF Enqueuing
<1>4. Working'
    <2>1. Len(ch') = Len(ch) - 1 /\ Len(batch') = 1 /\ batch' # <<>>
        BY DEF TypeOK
    <2>2. segNext' = segNext
        BY DEF segNext
    <2> QED
        BY <2>1, <2>2 DEF TypeOK, Working
<1>5. Persisted'
    BY DEF Persisted, segNext
<1>6. Stopping'
    BY DEF Stopping
<1>7. Waiting'
    BY DEF Waiting, AckIsDurable, NoStrandedWaiter,
           ErrOnlyWhenStopping
<1> QED BY <1>1, <1>2, <1>3, <1>4, <1>5, <1>6, <1>7

\* The worker returns when the closed channel is empty.
LEMMA ReceiveClosedStep ==
    ASSUME IInv, ReceiveClosed
    PROVE  IInv'
<1> USE MaxTxIDAssumption, RecoveredAssumption, CapacityAssumption, DrainAssumption
<1> USE DEF IInv, TxIDs, enqVars, chanVars, workerVars, closeVars, waitVars
<1> USE DEF ReceiveClosed
<1>1. TypeOK'
    BY DEF TypeOK
<1>2. Queued'
    BY DEF Queued
<1>3. Enqueuing'
    BY DEF Enqueuing
<1>4. Working'
    BY DEF TypeOK, Working, segNext
<1>5. Persisted'
    BY DEF Persisted, segNext
<1>6. Stopping'
    BY DEF Stopping
<1>7. Waiting'
    BY DEF Waiting, AckIsDurable, NoStrandedWaiter,
           ErrOnlyWhenStopping
<1> QED BY <1>1, <1>2, <1>3, <1>4, <1>5, <1>6, <1>7

\* The oldest ID of the channel joins the batch.
LEMMA DrainMoreStep ==
    ASSUME IInv, DrainMore
    PROVE  IInv'
<1> USE MaxTxIDAssumption, RecoveredAssumption, CapacityAssumption, DrainAssumption
<1> USE DEF IInv, TxIDs, enqVars, chanVars, workerVars, closeVars, waitVars
<1> USE DEF DrainMore
<1>1. TypeOK'
    <2>1. Head(ch) \in TxIDs /\ Tail(ch) \in Seq(TxIDs)
        BY DEF TypeOK
    <2>2. Len(ch') = Len(ch) - 1 /\ Len(batch') = Len(batch) + 1
        BY DEF TypeOK
    <2>3. batch' \in Seq(TxIDs)
        BY <2>1 DEF TypeOK
    <2> QED
        BY <2>1, <2>2, <2>3 DEF TypeOK
<1>2. Queued'
    <2>1. Len(ch') = Len(ch) - 1 /\ Len(batch') = Len(batch) + 1
        BY DEF TypeOK
    <2>2. \A i \in 1 .. Len(ch') : ch'[i] = ch[i + 1] /\ i + 1 \in 1 .. Len(ch)
        BY <2>1 DEF TypeOK
    <2>3. ch[1] = accepted - Len(ch) + 1
        BY DEF TypeOK, Queued
    <2>4. \A i \in 1 .. Len(ch') : ch'[i] = accepted - Len(ch') + i
        BY <2>1, <2>2 DEF TypeOK, Queued
    <2>5. \A i \in 1 .. Len(batch) : batch'[i] = batch[i]
        BY DEF TypeOK
    <2>6. batch'[Len(batch) + 1] = ch[1]
        BY DEF TypeOK
    <2>7. ASSUME NEW i \in 1 .. Len(batch')
          PROVE  batch'[i] = accepted - Len(ch') - Len(batch') + i
        <3>1. CASE i = Len(batch) + 1
            BY <3>1, <2>1, <2>3, <2>6 DEF TypeOK
        <3>2. CASE i \in 1 .. Len(batch)
            BY <3>2, <2>1, <2>5 DEF TypeOK, Queued
        <3>3. Len(batch) \in Nat /\ Len(batch') = Len(batch) + 1
            BY <2>1 DEF TypeOK
        <3> HIDE DEF DrainMore
        <3> QED
            BY <3>1, <3>2, <3>3
    <2> QED
        BY <2>4, <2>7 DEF Queued
<1>3. Enqueuing'
    BY DEF Enqueuing
<1>4. Working'
    <2>1. /\ Len(ch') = Len(ch) - 1 /\ Len(batch') = Len(batch) + 1
          /\ Len(batch) \in Nat
        BY DEF TypeOK
    <2>2. segNext' = segNext
        BY DEF segNext
    <2>3. batch' # <<>>
        <3> HIDE DEF DrainMore
        <3> QED BY <2>1
    <2> QED
        BY <2>1, <2>2, <2>3 DEF TypeOK, Working
<1>5. Persisted'
    BY DEF Persisted, segNext
<1>6. Stopping'
    BY DEF Stopping
<1>7. Waiting'
    BY DEF Waiting, AckIsDurable, NoStrandedWaiter,
           ErrOnlyWhenStopping
<1> QED BY <1>1, <1>2, <1>3, <1>4, <1>5, <1>6, <1>7

\* The batch is complete; its first ID is the one the segment takes.
LEMMA DrainStopStep ==
    ASSUME IInv, DrainStop
    PROVE  IInv'
<1> USE MaxTxIDAssumption, RecoveredAssumption, CapacityAssumption, DrainAssumption
<1> USE DEF IInv, TxIDs, enqVars, chanVars, workerVars, closeVars, waitVars
<1> USE DEF DrainStop
<1>1. TypeOK'
    BY DEF TypeOK
<1>2. Queued'
    BY DEF Queued
<1>3. Enqueuing'
    BY DEF Enqueuing
<1>4. Working'
    <2>1. segNext' = segNext
        BY DEF segNext
    <2>2. Len(batch) \in Nat /\ Len(batch) >= 1 /\ item' \in 1 .. Len(batch)
        BY DEF TypeOK, Working
    <2>3. batch[1] = accepted - Len(ch) - Len(batch) + 1
        BY <2>2 DEF Queued
    <2> QED
        BY <2>1, <2>2, <2>3 DEF TypeOK, Working
<1>5. Persisted'
    BY DEF Persisted, segNext
<1>6. Stopping'
    BY DEF Stopping
<1>7. Waiting'
    BY DEF Waiting, AckIsDurable, NoStrandedWaiter,
           ErrOnlyWhenStopping
<1> QED BY <1>1, <1>2, <1>3, <1>4, <1>5, <1>6, <1>7

\* The segment grows by the next contiguous ID.
LEMMA AppendRecordStep ==
    ASSUME IInv, AppendRecord
    PROVE  IInv'
<1> USE MaxTxIDAssumption, RecoveredAssumption, CapacityAssumption, DrainAssumption
<1> USE DEF IInv, TxIDs, enqVars, chanVars, workerVars, closeVars, waitVars
<1> USE DEF AppendRecord, AppendAllowed
<1>1. TypeOK'
    <2>1. item \in 1 .. Len(batch) /\ batch[item] \in TxIDs /\ Len(batch) \in Nat
        BY DEF TypeOK, Working
    <2>2. item' \in 0 .. DrainBatchSize
        BY <2>1 DEF TypeOK
    <2>3. pc' \in {"sync", "append"} /\ segLast' \in 0 .. MaxTxID
        BY <2>1
    <2> QED
        BY <2>2, <2>3 DEF TypeOK
<1>2. Queued'
    BY DEF Queued
<1>3. Enqueuing'
    BY DEF Enqueuing
<1>4. Working'
    <2>1. item \in 1 .. Len(batch) /\ batch[item] \in TxIDs /\ Len(batch) \in Nat
        BY DEF TypeOK, Working
    <2>2. segStart <= segLast' /\ segLast' # 0 /\ segLast' = batch[item]
        BY <2>1 DEF TypeOK, Working
    <2>3. CASE pc' = "sync"
        BY <2>1, <2>2, <2>3 DEF TypeOK, Working
    <2>4. CASE pc' = "append"
        <3>1. item' = item + 1 /\ item' \in 1 .. Len(batch)
            BY <2>1, <2>4 DEF TypeOK
        <3>2. batch[item'] = batch[item] + 1
            BY <2>1, <3>1, BatchContiguous
        <3>3. segNext' = batch[item'] /\ batch' = batch
            BY <2>1, <2>2, <3>2 DEF segNext
        <3> QED
            BY <2>2, <2>4, <3>1, <3>3 DEF TypeOK, Working
    <2> QED
        BY <2>3, <2>4 DEF TypeOK
<1>5. Persisted'
    BY DEF TypeOK, Working, Persisted, segNext
<1>6. Stopping'
    BY DEF Stopping
<1>7. Waiting'
    BY DEF Waiting, AckIsDurable, NoStrandedWaiter,
           ErrOnlyWhenStopping
<1> QED BY <1>1, <1>2, <1>3, <1>4, <1>5, <1>6, <1>7

\* A failed append leaves what is durable alone.
LEMMA AppendFailsStep ==
    ASSUME IInv, AppendFails
    PROVE  IInv'
<1> USE MaxTxIDAssumption, RecoveredAssumption, CapacityAssumption, DrainAssumption
<1> USE DEF IInv, TxIDs, enqVars, chanVars, workerVars, closeVars, waitVars
<1> USE DEF AppendFails
<1>1. TypeOK'
    BY DEF TypeOK
<1>2. Queued'
    BY DEF Queued
<1>3. Enqueuing'
    BY DEF Enqueuing
<1>4. Working'
    BY DEF Working, segNext
<1>5. Persisted'
    BY DEF Persisted, segNext
<1>6. Stopping'
    BY DEF Stopping
<1>7. Waiting'
    BY DEF Waiting, AckIsDurable, NoStrandedWaiter,
           ErrOnlyWhenStopping
<1> QED BY <1>1, <1>2, <1>3, <1>4, <1>5, <1>6, <1>7

\* The fsync covers everything appended.
LEMMA SyncSegmentStep ==
    ASSUME IInv, SyncSegment
    PROVE  IInv'
<1> USE MaxTxIDAssumption, RecoveredAssumption, CapacityAssumption, DrainAssumption
<1> USE DEF IInv, TxIDs, enqVars, chanVars, workerVars, closeVars, waitVars
<1> USE DEF SyncSegment
<1>1. TypeOK'
    BY DEF TypeOK
<1>2. Queued'
    BY DEF Queued
<1>3. Enqueuing'
    BY DEF Enqueuing
<1>4. Working'
    BY DEF Working, segNext
<1>5. Persisted'
    BY DEF TypeOK, Working, Persisted, segNext
<1>6. Stopping'
    BY DEF Stopping
<1>7. Waiting'
    BY DEF TypeOK, Persisted, Working, Stopping, Waiting, AckIsDurable, NoStrandedWaiter,
           ErrOnlyWhenStopping, segNext
<1> QED BY <1>1, <1>2, <1>3, <1>4, <1>5, <1>6, <1>7

\* A failed fsync publishes nothing.
LEMMA SyncFailsStep ==
    ASSUME IInv, SyncFails
    PROVE  IInv'
<1> USE MaxTxIDAssumption, RecoveredAssumption, CapacityAssumption, DrainAssumption
<1> USE DEF IInv, TxIDs, enqVars, chanVars, workerVars, closeVars, waitVars
<1> USE DEF SyncFails
<1>1. TypeOK'
    BY DEF TypeOK
<1>2. Queued'
    BY DEF Queued
<1>3. Enqueuing'
    BY DEF Enqueuing
<1>4. Working'
    BY DEF Working, segNext
<1>5. Persisted'
    BY DEF Persisted, segNext
<1>6. Stopping'
    BY DEF Stopping
<1>7. Waiting'
    BY DEF Waiting, AckIsDurable, NoStrandedWaiter,
           ErrOnlyWhenStopping
<1> QED BY <1>1, <1>2, <1>3, <1>4, <1>5, <1>6, <1>7

\* The published ID has been fsynced.
LEMMA StoreDurableStep ==
    ASSUME IInv, StoreDurable
    PROVE  IInv'
<1> USE MaxTxIDAssumption, RecoveredAssumption, CapacityAssumption, DrainAssumption
<1> USE DEF IInv, TxIDs, enqVars, chanVars, workerVars, closeVars, waitVars
<1> USE DEF StoreDurable
<1>1. TypeOK'
    BY DEF TypeOK, Working
<1>2. Queued'
    BY DEF Queued
<1>3. Enqueuing'
    BY DEF Enqueuing
<1>4. Working'
    BY DEF Working, segNext
<1>5. Persisted'
    BY DEF TypeOK, Working, Persisted, segNext
<1>6. Stopping'
    BY DEF Stopping
<1>7. Waiting'
    BY DEF Waiting, AckIsDurable, NoStrandedWaiter,
           ErrOnlyWhenStopping
<1> QED BY <1>1, <1>2, <1>3, <1>4, <1>5, <1>6, <1>7

\* Only waiters at or below the published ID are released.
LEMMA ReleaseWaitersStep ==
    ASSUME IInv, ReleaseWaiters
    PROVE  IInv'
<1> USE MaxTxIDAssumption, RecoveredAssumption, CapacityAssumption, DrainAssumption
<1> USE DEF IInv, TxIDs, enqVars, chanVars, workerVars, closeVars, waitVars
<1> USE DEF ReleaseWaiters, releaseWaitersUpTo
<1>1. TypeOK'
    BY DEF TypeOK
<1>2. Queued'
    BY DEF Queued
<1>3. Enqueuing'
    BY DEF Enqueuing
<1>4. Working'
    <2>1. /\ item \in 1 .. Len(batch) /\ batch[item] \in TxIDs /\ Len(batch) \in Nat
          /\ segLast = batch[item] /\ segLast # 0
        BY DEF TypeOK, Working
    <2>2. CASE item < Len(batch)
        <3>1. item' = item + 1 /\ item' \in 1 .. Len(batch)
            BY <2>1, <2>2 DEF TypeOK
        <3>2. batch[item'] = batch[item] + 1
            BY <2>1, <3>1, BatchContiguous
        <3>3. segNext' = batch[item'] /\ batch' = batch
            BY <2>1, <3>2 DEF segNext
        <3> QED
            BY <2>1, <2>2, <3>1, <3>3 DEF TypeOK, Working
    <2>3. CASE ~(item < Len(batch))
        BY <2>1, <2>3 DEF TypeOK, Working
    <2> QED
        BY <2>2, <2>3
<1>5. Persisted'
    BY DEF Persisted, segNext
<1>6. Stopping'
    BY DEF Stopping
<1>7. Waiting'
    BY DEF TypeOK, Persisted, Working, Stopping, Waiting, AckIsDurable, NoStrandedWaiter,
           ErrOnlyWhenStopping, segNext
<1> QED BY <1>1, <1>2, <1>3, <1>4, <1>5, <1>6, <1>7

\* The new segment starts where the old one ended.
LEMMA RotateSegmentStep ==
    ASSUME IInv, RotateSegment
    PROVE  IInv'
<1> USE MaxTxIDAssumption, RecoveredAssumption, CapacityAssumption,
        DrainAssumption, SegmentSizeAssumption
<1> USE DEF IInv, TxIDs, enqVars, chanVars, workerVars, closeVars, waitVars
<1> USE DEF RotateSegment, SegmentFull
<1>1. TypeOK'
    <2>1. segStart' \in TxIDs /\ segLast' \in 0 .. MaxTxID
        <3>1. CASE SegmentFull
            BY <3>1 DEF TypeOK, Working
        <3>2. CASE ~SegmentFull
            BY <3>2 DEF TypeOK
        <3> QED BY <3>1, <3>2
    <2>2. batch' \in Seq(TxIDs) /\ Len(batch') = 0 /\ item' = 0
        OBVIOUS
    <2> HIDE DEF SegmentFull
    <2> QED
        BY <2>1, <2>2 DEF TypeOK
<1>2. Queued'
    BY DEF Queued
<1>3. Enqueuing'
    BY DEF Enqueuing
<1>4. Working'
    BY DEF TypeOK, Queued, Enqueuing, Working, Persisted, Stopping, segNext
<1>5. Persisted'
    BY DEF TypeOK, Working, Persisted, segNext
<1>6. Stopping'
    BY DEF Stopping
<1>7. Waiting'
    BY DEF Waiting, AckIsDurable, NoStrandedWaiter,
           ErrOnlyWhenStopping
<1> QED BY <1>1, <1>2, <1>3, <1>4, <1>5, <1>6, <1>7

\* A failed rotation leaves what is durable alone.
LEMMA RotateFailsStep ==
    ASSUME IInv, RotateFails
    PROVE  IInv'
<1> USE MaxTxIDAssumption, RecoveredAssumption, CapacityAssumption, DrainAssumption
<1> USE DEF IInv, TxIDs, enqVars, chanVars, workerVars, closeVars, waitVars
<1> USE DEF RotateFails, SegmentFull
<1>1. TypeOK'
    BY DEF TypeOK
<1>2. Queued'
    BY DEF Queued
<1>3. Enqueuing'
    BY DEF Enqueuing
<1>4. Working'
    BY DEF Working, segNext
<1>5. Persisted'
    BY DEF Persisted, segNext
<1>6. Stopping'
    BY DEF Stopping
<1>7. Waiting'
    BY DEF Waiting, AckIsDurable, NoStrandedWaiter,
           ErrOnlyWhenStopping
<1> QED BY <1>1, <1>2, <1>3, <1>4, <1>5, <1>6, <1>7

\* Latching the error closes every waiter.
LEMMA LatchFatalStep ==
    ASSUME IInv, LatchFatal
    PROVE  IInv'
<1> USE MaxTxIDAssumption, RecoveredAssumption, CapacityAssumption, DrainAssumption
<1> USE DEF IInv, TxIDs, enqVars, chanVars, workerVars, closeVars, waitVars
<1> USE DEF LatchFatal, closeWaitersLocked
<1>1. TypeOK'
    BY DEF TypeOK
<1>2. Queued'
    BY DEF Queued
<1>3. Enqueuing'
    BY DEF Enqueuing
<1>4. Working'
    BY DEF Working, segNext
<1>5. Persisted'
    BY DEF Persisted, segNext
<1>6. Stopping'
    BY DEF Stopping
<1>7. Waiting'
    BY DEF Waiting, AckIsDurable, NoStrandedWaiter,
           ErrOnlyWhenStopping
<1> QED BY <1>1, <1>2, <1>3, <1>4, <1>5, <1>6, <1>7

\* closeCh is closed only behind a latched error or a Close.
LEMMA SignalFatalStep ==
    ASSUME IInv, SignalFatal
    PROVE  IInv'
<1> USE MaxTxIDAssumption, RecoveredAssumption, CapacityAssumption, DrainAssumption
<1> USE DEF IInv, TxIDs, enqVars, chanVars, workerVars, closeVars, waitVars
<1> USE DEF SignalFatal
<1>1. TypeOK'
    BY DEF TypeOK
<1>2. Queued'
    BY DEF Queued
<1>3. Enqueuing'
    BY DEF Enqueuing
<1>4. Working'
    BY DEF Working, Stopping, segNext
<1>5. Persisted'
    BY DEF Persisted, Stopping, segNext
<1>6. Stopping'
    BY DEF Stopping
<1>7. Waiting'
    BY DEF Waiting, AckIsDurable, NoStrandedWaiter,
           ErrOnlyWhenStopping
<1> QED BY <1>1, <1>2, <1>3, <1>4, <1>5, <1>6, <1>7

\* Close begins.
LEMMA CloseBeginStep ==
    ASSUME IInv, CloseBegin
    PROVE  IInv'
<1> USE MaxTxIDAssumption, RecoveredAssumption, CapacityAssumption, DrainAssumption
<1> USE DEF IInv, TxIDs, enqVars, chanVars, workerVars, closeVars, waitVars
<1> USE DEF CloseBegin
<1>1. TypeOK'
    BY DEF TypeOK
<1>2. Queued'
    BY DEF Queued
<1>3. Enqueuing'
    BY DEF Enqueuing
<1>4. Working'
    BY DEF Working, segNext
<1>5. Persisted'
    BY DEF Persisted, segNext
<1>6. Stopping'
    BY DEF Stopping
<1>7. Waiting'
    BY DEF Waiting, AckIsDurable, NoStrandedWaiter,
           ErrOnlyWhenStopping
<1> QED BY <1>1, <1>2, <1>3, <1>4, <1>5, <1>6, <1>7

\* Close signals the senders.
LEMMA CloseSignalStep ==
    ASSUME IInv, CloseSignal
    PROVE  IInv'
<1> USE MaxTxIDAssumption, RecoveredAssumption, CapacityAssumption, DrainAssumption
<1> USE DEF IInv, TxIDs, enqVars, chanVars, workerVars, closeVars, waitVars
<1> USE DEF CloseSignal
<1>1. TypeOK'
    BY DEF TypeOK
<1>2. Queued'
    BY DEF Queued
<1>3. Enqueuing'
    BY DEF Enqueuing
<1>4. Working'
    BY DEF Working, segNext
<1>5. Persisted'
    BY DEF Persisted, segNext
<1>6. Stopping'
    BY DEF Stopping
<1>7. Waiting'
    BY DEF Waiting, AckIsDurable, NoStrandedWaiter,
           ErrOnlyWhenStopping
<1> QED BY <1>1, <1>2, <1>3, <1>4, <1>5, <1>6, <1>7

\* The channel is closed when no sender is in its select.
LEMMA CloseChannelStep ==
    ASSUME IInv, CloseChannel
    PROVE  IInv'
<1> USE MaxTxIDAssumption, RecoveredAssumption, CapacityAssumption, DrainAssumption
<1> USE DEF IInv, TxIDs, enqVars, chanVars, workerVars, closeVars, waitVars
<1> USE DEF CloseChannel
<1>1. TypeOK'
    BY DEF TypeOK
<1>2. Queued'
    BY DEF Queued
<1>3. Enqueuing'
    BY DEF Enqueuing
<1>4. Working'
    BY DEF Working, segNext
<1>5. Persisted'
    BY DEF Persisted, segNext
<1>6. Stopping'
    BY DEF Stopping
<1>7. Waiting'
    BY DEF Waiting, AckIsDurable, NoStrandedWaiter,
           ErrOnlyWhenStopping
<1> QED BY <1>1, <1>2, <1>3, <1>4, <1>5, <1>6, <1>7

\* Close returns once the worker has.
LEMMA CloseFinishStep ==
    ASSUME IInv, CloseFinish
    PROVE  IInv'
<1> USE MaxTxIDAssumption, RecoveredAssumption, CapacityAssumption, DrainAssumption
<1> USE DEF IInv, TxIDs, enqVars, chanVars, workerVars, closeVars, waitVars
<1> USE DEF CloseFinish, closeWaitersLocked
<1>1. TypeOK'
    BY DEF TypeOK
<1>2. Queued'
    BY DEF Queued
<1>3. Enqueuing'
    BY DEF Enqueuing
<1>4. Working'
    BY DEF Working, segNext
<1>5. Persisted'
    BY DEF Persisted, segNext
<1>6. Stopping'
    BY DEF Stopping
<1>7. Waiting'
    BY DEF Stopping, Waiting, AckIsDurable, NoStrandedWaiter,
           ErrOnlyWhenStopping
<1> QED BY <1>1, <1>2, <1>3, <1>4, <1>5, <1>6, <1>7

-----------------------------------------------------------------------------
\* Every step of the producer, the worker, Close and the waiters preserves it.
LEMMA NextInv == IInv /\ [Next]_vars => IInv'
<1> SUFFICES ASSUME IInv, [Next]_vars PROVE IInv'
    OBVIOUS
<1>1. CASE Producer
    BY <1>1, EnqueueCommittedStep, EnqueueSendStep, EnqueueAbortStep DEF Producer
<1>2. CASE Worker
    BY <1>2, ReceiveStep, ReceiveClosedStep, DrainMoreStep, DrainStopStep,
       AppendRecordStep, AppendFailsStep, SyncSegmentStep, SyncFailsStep,
       StoreDurableStep, ReleaseWaitersStep, RotateSegmentStep,
       RotateFailsStep, LatchFatalStep, SignalFatalStep
       DEF Worker
<1>3. CASE CloseCall
    BY <1>3, CloseBeginStep, CloseSignalStep, CloseChannelStep, CloseFinishStep
       DEF CloseCall
<1>4. CASE \E w \in Waiters : WaiterStep(w)
    BY <1>4, WaiterStepInv
<1>5. CASE UNCHANGED vars
    <2> USE <1>5 DEF vars, enqVars, chanVars, workerVars, closeVars, waitVars, IInv
    <2>1. TypeOK' /\ Queued'
        BY DEF TypeOK, Queued
    <2>2. Enqueuing' /\ Working' /\ Persisted' /\ Stopping'
        BY DEF Enqueuing, Working, Persisted, Stopping, segNext
    <2>3. Waiting'
        BY DEF Waiting, AckIsDurable, NoStrandedWaiter, ErrOnlyWhenStopping
    <2> QED
        BY <2>1, <2>2, <2>3
<1> QED
    BY <1>1, <1>2, <1>3, <1>4, <1>5 DEF Next

\* The invariant holds in every reachable state of the worker.
THEOREM Invariant == SafetySpec => []IInv
    BY InitInv, NextInv, PTL DEF SafetySpec

\* The fields of the DurabilityWorker keep their types.
THEOREM TypeCorrect == SafetySpec => []TypeOK
<1>1. IInv => TypeOK
    BY DEF IInv
<1> QED
    BY <1>1, Invariant, PTL

\* WaitUntilDurable never acknowledges a transaction before its fsync.
THEOREM AcknowledgedIsDurable == SafetySpec => []AckIsDurable
<1>1. IInv => AckIsDurable
    BY DEF IInv, Waiting
<1> QED
    BY <1>1, Invariant, PTL

\* The contiguity checks of EnqueueCommitted and SegmentWriter.Append never
\* fire, whichever segment recovery resumed on.
THEOREM ContiguityHolds == SafetySpec => []NoGap
<1>1. IInv => NoGap
    BY DEF IInv, Enqueuing, Working, NoGap, AppendAllowed, segNext
<1> QED
    BY <1>1, Invariant, PTL

\* EnqueueCommitted never sends on the channel that Close has closed.
THEOREM ChannelSafe == SafetySpec => []NoSendOnClosedChannel
<1>1. IInv => NoSendOnClosedChannel
    BY DEF IInv, Stopping, NoSendOnClosedChannel
<1> QED
    BY <1>1, Invariant, PTL

\* A Close without a fatal error has made every accepted transaction durable.
THEOREM CloseKeepsAccepted == SafetySpec => []CleanCloseKeepsAccepted
<1>1. IInv => CleanCloseKeepsAccepted
    <2> SUFFICES ASSUME IInv, closer = "closed", ~fatal
                 PROVE  /\ synced = accepted
                        /\ accepted > Recovered => durable = accepted
        BY DEF CleanCloseKeepsAccepted
    <2>1. pc = "done" /\ segNext = accepted + 1
        BY DEF IInv, Stopping, Working
    <2>2. synced = segNext - 1 /\ (synced > Recovered => durable = synced)
        BY <2>1 DEF IInv, Persisted
    <2>3. accepted \in Int
        BY MaxTxIDAssumption DEF IInv, TypeOK
    <2> QED
        BY <2>1, <2>2, <2>3
<1> QED
    BY <1>1, Invariant, PTL

\* Neither a failure nor Close leaves a waiter behind.
THEOREM WaitersNotStranded == SafetySpec => []NoStrandedWaiter
<1>1. IInv => NoStrandedWaiter
    BY DEF IInv, Waiting
<1> QED
    BY <1>1, Invariant, PTL

\* A waiter is turned away only when the worker has failed or is closing.
THEOREM ErrorMeansStopping == SafetySpec => []ErrOnlyWhenStopping
<1>1. IInv => ErrOnlyWhenStopping
    BY DEF IInv, Waiting
<1> QED
    BY <1>1, Invariant, PTL

\* WaitUntilDurable answers every caller, and truthfully.
THEOREM WaitersAnswered == SafetySpec => []WaitersHearTheTruth
    BY AcknowledgedIsDurable, ErrorMeansStopping, WaitersNotStranded, PTL
       DEF WaitersHearTheTruth

\* What EnqueueCommitted accepted has no gap, and Close keeps it.
THEOREM AcceptedKept == SafetySpec => []AcceptedIsKept
    BY ContiguityHolds, ChannelSafe, CloseKeepsAccepted, PTL DEF AcceptedIsKept

\* Nothing is written or published after Close has returned.
THEOREM CloseIsFinal == SafetySpec => ClosedIsFinal
<1>1. IInv /\ [Next]_vars =>
        [closer = "closed" => UNCHANGED <<durable, synced, segLast, fatal>>]_vars
    <2> SUFFICES ASSUME IInv, Next, closer = "closed"
                 PROVE  UNCHANGED <<durable, synced, segLast, fatal>>
        OBVIOUS
    <2>1. pc = "done"
        BY DEF IInv, Stopping
    <2>2. ~Worker
        BY <2>1 DEF Worker, Receive, ReceiveClosed, DrainMore, DrainStop,
           AppendRecord, AppendFails, SyncSegment, SyncFails, StoreDurable,
           ReleaseWaiters, RotateSegment, RotateFails, LatchFatal, SignalFatal
    <2> QED
        BY <2>2 DEF Next, Producer, EnqueueCommitted, EnqueueSend, EnqueueAbort,
           CloseCall, CloseBegin, CloseSignal, CloseChannel, CloseFinish,
           WaiterStep, ObserveWait, WaitUntilDurable, workerVars
<1> QED
    BY <1>1, Invariant, PTL DEF SafetySpec, ClosedIsFinal
=============================================================================
