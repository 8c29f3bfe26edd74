SPECIFICATION MCSpec
CONSTANTS
    c1 = c1
    c2 = c2
    sweep = sweep
    Cmds = {c1, c2}
    Kinds = {"call", "disconnect", "subs", "snapshot"}
    Sweep = sweep
    MaxTxID = 3
    InboxCapacity = 1
    RejectOnFull = TRUE
    CtxCancel = TRUE
    MaxSweeps = 1
CHECK_DEADLOCK FALSE
INVARIANT LogIsSound
PROPERTIES IsReducerService ShutdownIsFinal ShutdownReturns QueuedAnswered
