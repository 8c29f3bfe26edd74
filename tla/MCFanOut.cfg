SPECIFICATION SafetySpec
CONSTANTS
    c1 = c1
    c2 = c2
    q1 = q1
    none = none
    Conns = {c1, c2}
    Queries = {q1}
    NoConn = none
    MaxTx = 2
    InboxCapacity = 1
    OutboundCapacity = 1
    FastReads = {c2}
    MaxProcedures = 0
    Calls <- MCCalls
    Changes <- MCChanges
    MaxUnencoded <- MCUnencoded
    Faults = {"eval", "durability"}
CHECK_DEADLOCK FALSE
INVARIANTS
    CacheIsAResult ConfirmedRead NoSilentDeath
