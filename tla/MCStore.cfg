SPECIFICATION MCSpec
CONSTANTS
    Scenarios <- MCScenarios
    MaxReads = 2
    MaxUint64 = 4
    btreePageMaxEntries = 8
INVARIANTS
    IndexesAgree
    TxReadsItsWrites
    AcceptedWorkCommits
    RecoveryRestores
    SnapshotIsPointInTime
PROPERTIES
    CommitIsNetEffect
