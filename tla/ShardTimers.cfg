CONSTANTS
    Contexts = {c1}
    Requests = {r1, r2}
    Immediate = {transfer}
    Scheduled = {timer}
    Checkpointed = {timer}
    IDCallers = {}
    RangeSize = 1
    IOConcurrency = 1
    MaxTimeShift = 1
    MaxRange = 2
    MaxTime = 1
    MaxTasks = 2
    NoContext = none
SPECIFICATION Spec
INVARIANTS
    NoTaskBehindReader
    NoTaskBehindPersistedState
SYMMETRY Symmetry
CHECK_DEADLOCK FALSE
