SPECIFICATION Spec
CONSTANTS
  Tools = {"bash", "patch", "plan", "ruled"}
  Domains = {"d1"}
  Ruled = {"ruled"}
  Shapes <- Decisions
  SwitchTo = {"on-request", "accept-edits", "on-failure", "auto", "never"}
  Stored = {}
  GuardianEnabled = TRUE
  Surfaces = {TRUE, FALSE}
  MaxTurns = 1
  MaxCalls = 2
  MaxBatch = 2
  MaxRequests = 0
INVARIANT PersonDecides
INVARIANT RightsAreReviewed
