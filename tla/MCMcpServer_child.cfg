SPECIFICATION Spec
CONSTANTS
  Calls = {c1, c2}
  None = None
INVARIANTS ConnectionInv OwnAnswer
PROPERTY EveryRequestEnds
CHECK_DEADLOCK FALSE
