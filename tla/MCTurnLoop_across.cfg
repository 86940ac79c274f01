CONSTANTS
  MaxSteps = 1
  KeepRecent = 2
  MaxTurns = 2
  MaxCalls = 2
  MaxFragments = 1
  MaxCompactions = 1
  MaxRewinds = 1
  MaxDeaths = 1
  MaxFaults = 1
  MaxEvents = 2
SPECIFICATION Spec
INVARIANTS
  ReplayMatchesHistory
  SnapshotsSurviveRestart
  SnapshotsNameTheirTurn
  ReplayIsLog
CHECK_DEADLOCK FALSE
