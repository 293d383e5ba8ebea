CONSTANTS
    Contexts = {c1, c2}
    Requests = {r1, r2}
    Immediate = {transfer}
    Scheduled = {}
    Checkpointed = {}
    IDCallers = {}
    RangeSize = 1
    IOConcurrency = 1
    MaxTimeShift = 1
    MaxRange = 2
    MaxTime = 0
    MaxTasks = 1
    NoContext = none
SPECIFICATION Spec
INVARIANTS
    NoImmediateTaskBehindAnyReader
    UniqueTaskIDs
    SingleOwner
PROPERTIES
    StopIsFinal
SYMMETRY Symmetry
CHECK_DEADLOCK FALSE
