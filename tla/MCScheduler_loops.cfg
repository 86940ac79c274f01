CONSTANTS
  MinInterval = 1
  MaxLifetime = 3
  MaxTasks = 2
  Intervals = {0, 1, 2}
  MaxClock = 5
  MaxLoops = 3
SPECIFICATION MCSpec
INVARIANTS
  SchedulerInv
PROPERTIES
  NoCatchUp
CHECK_DEADLOCK FALSE
