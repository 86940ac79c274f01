CONSTANTS
  MaxSteps = 2
  KeepRecent = 2
  MaxTurns = 1
  MaxCalls = 2
  MaxFragments = 1
  MaxCompactions = 1
  MaxRewinds = 1
  MaxDeaths = 1
  MaxFaults = 1
  MaxEvents = 3
SPECIFICATION FairSpec
INVARIANTS
  TurnInv
  
  AbortStopsRequests

  
CHECK_DEADLOCK FALSE
