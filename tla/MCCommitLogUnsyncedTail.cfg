SPECIFICATION SafetySpec
CONSTANTS
    MaxTxID = 1
    MaxEpoch = 3
    MaxSegmentRecs = 1
    Faults = {"process", "power"}
    Resnapshot = FALSE
PROPERTIES AckedSurvives
CHECK_DEADLOCK FALSE
