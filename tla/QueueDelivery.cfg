SPECIFICATION Spec
CONSTANTS
  Groups = {g1}
  g1 = g1
  Others = others
  MaxPendingTasksCount <- TwoAndOne
  MaxPredicateSize = 0
  ShrinkPredicateMaxPendingKeys = 3
  MaxReaderCount = 1
  BatchSize = 1
  PendingTasksCriticalCount = 0
  TargetPendingTasks = 0
  SliceCountCriticalThreshold = 0
  TargetSliceCount = 0
  MoveGroupTaskCountBase = 1
  MoveGroupTaskCountMultiplier = 2
  MoveSliceMinPendingTaskCount = 1
  MoveSliceMinSliceCount = 1
  TaskIDsPerTime = 1
  MaxKey = 3
  MaxTasks = 2
  MaxReloads = 1
  MaxRenewals = 1
  MaxSaves = 2
  MaxDeletions = 1
INVARIANTS NoTaskForgottenByReload OnlyExecutedDeleted NoTaskLeftBehind
PROPERTIES DeletionWatermarkGrows
CHECK_DEADLOCK FALSE
