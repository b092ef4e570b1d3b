CONSTANTS
  Peers = {1, 2, 3}
  t1 = t1
  t2 = t2
  t3 = t3
  Tids = {t1, t2}
  Initiator <- MCRivals
  Path <- MCSamePath
  Answers <- MCAgree
  FaultKinds = {}
  MaxFaults = 0
SPECIFICATION Spec
INVARIANTS ListenerHasReader MirrorHasRequest NotAllRefused SmallerComesAfter
CHECK_DEADLOCK FALSE
