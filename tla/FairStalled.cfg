SPECIFICATION FairSpec
CONSTANTS
  Environments <- OnePass
  MaxTasks = 2
  MaxTaskBatchSize = 1
  GetTasksBatchSize = 2
  GetTasksReloadAt = 1
  MaxTakeOvers = 0
  MaxCopies = 2
PROPERTIES EveryTaskStarted
CHECK_DEADLOCK FALSE
