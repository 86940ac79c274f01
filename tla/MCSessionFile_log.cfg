SPECIFICATION FileSpec
CONSTANTS
  p1 = p1
  p2 = p2
  Procs = {p1, p2}
  CutAt = {1, 2, 3}
  MaxLines = 4
  MaxCuts = 2
  MaxLosses = 1
INVARIANTS  NothingSaidIsLost
SYMMETRY Alike
CHECK_DEADLOCK FALSE
