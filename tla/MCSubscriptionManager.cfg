SPECIFICATION Spec
CONSTANTS
    ColumnType <- MCColumnType
    EventTables <- MCEventTables
    Indexed <- MCIndexed
    Nullable <- MCNullable
    Scenarios <- MCScenarios
    MaxSum = 5
    MaxDeltaRows = 12
    MaxMultiJoinRelations = 3
    MaxMultiJoinRowsPerRelation = 2
    OrderedWindowMaxRows = 10
    MaxQueriesPerSet = 2
    MaxActiveSetsPerConnection = 2
    MaxActiveSubscriptionsPerConnection = 3
    MaxSubscriptionID = 4
INVARIANTS ViewsAreResults FinalDeletesMatch RegistryIsExact
CHECK_DEADLOCK FALSE
