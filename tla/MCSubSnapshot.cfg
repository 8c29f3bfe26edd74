SPECIFICATION Spec
CONSTANTS
    ColumnType <- MCColumnType
    EventTables <- MCEventTables
    Indexed <- MCIndexed
    Nullable <- MCNullable
    Scenarios <- MCSnapshotScenarios
    MaxSum = 5
    MaxDeltaRows = 40
    MaxMultiJoinRelations = 3
    MaxMultiJoinRowsPerRelation = 4
    OrderedWindowMaxRows = 10
    MaxQueriesPerSet = 2
    MaxActiveSetsPerConnection = 2
    MaxActiveSubscriptionsPerConnection = 3
    MaxSubscriptionID = 4
INVARIANT ViewsAreResults
CHECK_DEADLOCK FALSE
