CONSTANTS
  Peers = {1, 2}
  t1 = t1
  t2 = t2
  t3 = t3
  Tids = {t1, t2}
  Initiator <- MCRivals
  Path <- MCSamePath
  Answers <- MCObject
  FaultKinds = {"timeout", "senderr", "down", "lose", "race", "io", "crash"}
  MaxFaults = 1
SPECIFICATION FairSpec
INVARIANTS Unanimity VerdictsAgree IInv ClockCountsConflicts
PROPERTIES ImplementsBallot TablesDrain
CHECK_DEADLOCK FALSE
