CONSTANTS
  Peers = {1, 2}
  t1 = t1
  t2 = t2
  t3 = t3
  Tids = {t1, t2, t3}
  Initiator <- MCThree
  Path <- MCThreePath
  Answers <- MCAgree
  FaultKinds = {}
  MaxFaults = 0
SPECIFICATION Spec
INVARIANTS LossesGivePriority
CHECK_DEADLOCK FALSE
