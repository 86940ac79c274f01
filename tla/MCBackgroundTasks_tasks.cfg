SPECIFICATION FairSpec
CONSTANTS
  Callers = {c1, c2}
  MaxConcurrent = 1
  Cap = 1
  MaxTasks = 2
  MaxLines = 1
  MaxCalls = 3
INVARIANT TasksInv
 
PROPERTY EndIsFinal
PROPERTY NothingHangs
CHECK_DEADLOCK FALSE
