SPECIFICATION Spec
CONSTANTS
    Reducers = {"r"}
    Targets = {"r"}
    Sources = {"external"}
    Times = {0}
    Intervals = {0, 1}
    MaxInt64 = 2
    InboxCapacity = 1
    MaxSchedules = 2
    MaxEvents = 2
    MaxRestarts = 1
CHECK_DEADLOCK FALSE
INVARIANT FiringsAreExact
PROPERTIES DueIsQueued SchedulerStops
