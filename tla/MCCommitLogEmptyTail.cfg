SPECIFICATION Spec
CONSTANTS
    MaxTxID = 1
    MaxEpoch = 2
    MaxSegmentRecs = 1
    Faults = {}
    Resnapshot = FALSE
PROPERTIES SnapshotWaitEnds
CHECK_DEADLOCK FALSE
