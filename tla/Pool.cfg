SPECIFICATION FairSpec
CONSTANTS
  p1 = p1
  p2 = p2
  stranger = stranger
  c1 = c1
  c2 = c2
  c3 = c3
  c4 = c4
  Peers = {p1, p2}
  Offered = {c1, c3, c4}
  Certs <- MCCerts
  Acceptor = Acceptor
  None = None
  Initial = 10
  Max = 15
  Factor = 150
  MaxFactorJitter = 2
INVARIANTS HandlersCounted NoHandlerAfterWait ClosedIsDead DurationInRange
PROPERTIES NeverShrinks CloseEnds
CHECK_DEADLOCK FALSE
