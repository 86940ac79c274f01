SPECIFICATION Spec
CONSTANTS
  t1 = t1
  t2 = t2
  t3 = t3
  p1 = p1
  p2 = p2
  kekeAcc = kekeAcc
  otherAcc = otherAcc
  Tasks = {t1, t2, t3}
  Procs = {p1, p2}
  ProcOf <- TwoKekes
  Wants <- MixedWants
  Persons = {t1, t2}
  Accounts = {kekeAcc, otherAcc}
  InForce = InForce
  DefaultAccount = kekeAcc
  Foreign <- OtherCli
  MaxTokens = 5
  MaxDeaths = 1
INVARIANTS FileInv 
PROPERTY WritesMerge
CONSTRAINT NotCrossed
SYMMETRY Alike
CHECK_DEADLOCK FALSE
