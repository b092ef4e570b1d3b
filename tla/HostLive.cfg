CONSTANTS
  Peers = {1, 2, 3}
  t1 = t1
  t2 = t2
  t3 = t3
  Tids = {t1}
  Initiator <- MCOneCall
  Path <- MCOnePath
  Answers <- MCObject
  FaultKinds = {}
  MaxFaults = 0
SPECIFICATION FairSpec
PROPERTIES ReplicateReturns PermittedIsApplied MessagesAreHandled
CHECK_DEADLOCK FALSE
