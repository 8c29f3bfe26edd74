SPECIFICATION Spec
CONSTANTS
    c1 = c1
    c2 = c2
    sweep = sweep
    Cmds = {c1}
    Kinds = {"call"}
    Sweep = sweep
    MaxTxID = 1
    InboxCapacity = 1
    RejectOnFull = FALSE
    CtxCancel = FALSE
    MaxSweeps = 0
CHECK_DEADLOCK FALSE
PROPERTIES AcceptedAnswered
