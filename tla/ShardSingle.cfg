SPECIFICATION FairSpec
CONSTANTS
    Contexts = {c1}
    Requests = {r1, r2}
    Immediate = {transfer}
    Scheduled = {}
    Checkpointed = {}
    IDCallers = {c1}
    RangeSize = 2
    IOConcurrency = 1
    MaxTimeShift = 1
    MaxRange = 2
    MaxTime = 0
    MaxTasks = 2
    NoContext = none
INVARIANTS TypeOK InflightCounted NoWriteDuringRenew OutcomeSettledWhenAcquired AcquireRunsWhileAcquiring
PROPERTIES LockReleased AcquireEnds
CHECK_DEADLOCK FALSE
