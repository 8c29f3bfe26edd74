SPECIFICATION SafetySpec
CONSTANTS
    MaxTxID = 3
    MaxEpoch = 3
    MaxSegmentRecs = 1
    Faults = {"process", "io"}
    Resnapshot = FALSE
INVARIANTS DurableRecoverable ResumePlanOpens SnapshotsAgree
PROPERTIES IsDurableHistory
CHECK_DEADLOCK FALSE
