SPECIFICATION Spec
CONSTANTS
  Groups = {g1, g2}
  g1 = g1
  g2 = g2
  Others = others
  MaxPendingTasksCount <- NoLimit
  MaxPredicateSize = 1
  ShrinkPredicateMaxPendingKeys = 3
  MaxReaderCount = 2
  BatchSize = 1
  PendingTasksCriticalCount = 2
  TargetPendingTasks = 1
  SliceCountCriticalThreshold = 3
  TargetSliceCount = 2
  MoveGroupTaskCountBase = 1
  MoveGroupTaskCountMultiplier = 2
  MoveSliceMinPendingTaskCount = 1
  MoveSliceMinSliceCount = 1
  TaskIDsPerTime = 1
  MaxKey = 4
  MaxTasks = 3
  MaxReloads = 0
  MaxRenewals = 0
  MaxSaves = 0
  MaxDeletions = 0
SYMMETRY GroupSymmetry
INVARIANTS TypeOK NoTaskForgotten SlicesInOrder GroupsCounted
CHECK_DEADLOCK FALSE
