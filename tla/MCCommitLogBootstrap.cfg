SPECIFICATION SafetySpec
CONSTANTS
    MaxTxID = 1
    MaxEpoch = 2
    MaxSegmentRecs = 1
    Faults = {"process"}
    Resnapshot = FALSE
INVARIANTS BootstrapRestarts
CHECK_DEADLOCK FALSE
