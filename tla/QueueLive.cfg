SPECIFICATION FairSpec
CONSTANTS
  Groups = {g1}
  g1 = g1
  Others = others
  MaxPendingTasksCount <- NoLimit
  MaxPredicateSize = 0
  ShrinkPredicateMaxPendingKeys = 3
  MaxReaderCount = 1
  BatchSize = 1
  PendingTasksCriticalCount = 1
  TargetPendingTasks = 0
  SliceCountCriticalThreshold = 0
  TargetSliceCount = 0
  MoveGroupTaskCountBase = 1
  MoveGroupTaskCountMultiplier = 2
  MoveSliceMinPendingTaskCount = 1
  MoveSliceMinSliceCount = 1
  TaskIDsPerTime = 1
  MaxKey = 4
  MaxTasks = 2
  MaxReloads = 0
  MaxRenewals = 0
  MaxSaves = 0
  MaxDeletions = 0
PROPERTIES TaskExecuted TaskDeleted
CHECK_DEADLOCK FALSE
