SPECIFICATION SafetySpec
CONSTANTS
    MaxTxID = 2
    MaxEpoch = 3
    MaxSegmentRecs = 1
    Faults = {"process"}
    Resnapshot = TRUE
PROPERTIES AckedSurvives
CHECK_DEADLOCK FALSE
