SPECIFICATION Spec
CONSTANTS
  Groups = {g1}
  g1 = g1
  Others = others
  MaxPendingTasksCount <- NoLimit
  MaxPredicateSize = 0
  ShrinkPredicateMaxPendingKeys = 3
  MaxReaderCount = 2
  BatchSize = 1
  PendingTasksCriticalCount = 0
  TargetPendingTasks = 0
  SliceCountCriticalThreshold = 0
  TargetSliceCount = 0
  MoveGroupTaskCountBase = 0
  MoveGroupTaskCountMultiplier = 2
  MoveSliceMinPendingTaskCount = 1
  MoveSliceMinSliceCount = 1
  TaskIDsPerTime = 2
  MaxKey = 4
  MaxTasks = 2
  MaxReloads = 1
  MaxRenewals = 0
  MaxSaves = 1
  MaxDeletions = 0
INVARIANTS NoTaskForgotten NoTaskForgottenByReload OnlyExecutedDeleted NoTaskLeftBehind
CHECK_DEADLOCK FALSE
