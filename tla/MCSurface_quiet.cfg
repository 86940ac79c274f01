CONSTANTS
  MinInterval = 1
  MaxLifetime = 2
  MaxTasks = 1
  Intervals = {0, 1}
  MaxPrompts = 2
  MaxAsks = 2
  MaxText = 1
  MaxSessions = 3
  MaxKeys = 3
  MaxLoops = 1
  MaxClock = 2
  MaxEvents = 3
SPECIFICATION FairSpec
INVARIANTS
  SurfaceInv
  BusyHasACause
  ParkedCanBeFreed
PROPERTIES
  Settles
  SchedulerSpec
CHECK_DEADLOCK FALSE
