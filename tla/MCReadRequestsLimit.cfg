SPECIFICATION Spec
CONSTANTS
    ColumnType <- MCColumnType
    EventTables = {}
    Indexed <- MCIndexed
    Nullable <- MCNullable
    MaxSum = 4
    MaxDeltaRows = 20
    MaxMultiJoinRelations = 3
    MaxMultiJoinRowsPerRelation = 3
    OrderedWindowMaxRows = 10
    TableName <- MCTableName
    MaxRows = 3
    Statements <- MCStatements
    Declarations <- MCDeclarations
    Supplied <- MCSupplied
    VisibilitySets <- MCVisibilitySets
    TablePolicy <- MCTablePolicy
    Callers <- MCCallers
    ZeroIdentity <- MCZeroIdentity
    Databases <- MCDatabases
    SnapshotRows = 5
INVARIANTS
    RowLimitHolds
