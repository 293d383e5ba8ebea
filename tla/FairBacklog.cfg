SPECIFICATION Spec
CONSTANTS
  Environments <- KeysOrFaults
  MaxTasks = 3
  MaxTaskBatchSize = 2
  GetTasksBatchSize = 2
  GetTasksReloadAt = 1
  MaxTakeOvers = 1
  MaxCopies = 2
INVARIANTS TypeOK NothingLost NothingSkipped
PROPERTIES AckLevelGrows
CHECK_DEADLOCK FALSE
