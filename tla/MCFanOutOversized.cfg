SPECIFICATION SafetySpec
CONSTANTS
    c1 = c1
    c2 = c2
    q1 = q1
    none = none
    Conns = {c1}
    Queries = {q1}
    NoConn = none
    MaxTx = 2
    InboxCapacity = 1
    OutboundCapacity = 2
    FastReads = {}
    MaxProcedures = 0
    Calls <- MCLiveCalls
    Changes <- MCChanges
    MaxUnencoded <- MCLiveUnencoded
    Faults = {}
CHECK_DEADLOCK FALSE
INVARIANTS
    CacheHasNoGap
