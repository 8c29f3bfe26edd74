SPECIFICATION MCSpec
CONSTANTS
    c1 = c1
    c2 = c2
    Conns = {c1, c2}
    IdOf <- MCIdOf
    NoConn = NoConn
    Requests = {"call", "subscribe", "unsubscribe"}
    IncomingQueueMessages = 1
    InboxCapacity = 1
    MaxTxID = 2
SYMMETRY Symmetry
CHECK_DEADLOCK FALSE
INVARIANTS
    NoRowStranded
