SPECIFICATION Spec
CONSTANTS
    w1 = w1
    Waiters = {w1}
    MaxTxID = 4
    Recovered = 1
    ChannelCapacity = 1
    DrainBatchSize = 2
    FsyncPerTx = FALSE
    MaxSegmentRecs = 2
CHECK_DEADLOCK FALSE
INVARIANTS
    WaitersHearTheTruth AcceptedIsKept
PROPERTIES
    EnqueuedWaitEnds CloseReturns
