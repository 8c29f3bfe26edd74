SPECIFICATION Spec
CONSTANTS
    MaxTxID = 3
    MaxEpoch = 3
    MaxSegmentRecs = 1
    Faults = {"power"}
    Resnapshot = FALSE
INVARIANTS DurableRecoverable
PROPERTY NewHorizonWaitEnds
CHECK_DEADLOCK FALSE
