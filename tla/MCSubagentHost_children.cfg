SPECIFICATION FairSpec
CONSTANTS
  MaxAgents = 3
  MaxConcurrent = 1
  Recorded = 1
  MaxTurns = 2
  MaxResets = 1
INVARIANT HostInv
INVARIANT RowsAreTrue
PROPERTY ChildrenEnd
CHECK_DEADLOCK FALSE
