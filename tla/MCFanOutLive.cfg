SPECIFICATION Spec
CONSTANTS
    c1 = c1
    c2 = c2
    q1 = q1
    none = none
    Conns = {c1}
    Queries = {q1}
    NoConn = none
    MaxTx = 2
    InboxCapacity = 1
    OutboundCapacity = 2
    FastReads = {}
    MaxProcedures = 1
    Calls <- MCLiveCalls
    Changes <- MCChanges
    MaxUnencoded <- MCLiveUnencoded
    Faults = {"socket", "close"}
CHECK_DEADLOCK FALSE
INVARIANTS
    HeldFramesAreSound
PROPERTIES
    EventuallyCurrent
