SPECIFICATION FairSpec
CONSTANTS
  Tools = {"bash", "patch", "plan", "ruled"}
  Domains = {"d1"}
  Ruled = {"ruled"}
  Shapes <- Networks
  SwitchTo = {"on-request", "never"}
  Stored = {}
  GuardianEnabled = FALSE
  Surfaces = {TRUE}
  MaxTurns = 2
  MaxCalls = 2
  MaxBatch = 1
  MaxRequests = 2
INVARIANT GrantsArePersonal
INVARIANT NobodyAsksTwice
 
PROPERTY CancelUnparks
