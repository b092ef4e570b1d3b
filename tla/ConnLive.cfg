SPECIFICATION FairSpec
CONSTANTS
  Low = 1
  High = 2
  Conns = {c1}
  Budgets <- LiveBudgets
INVARIANT ClosedStaysClosed
PROPERTIES EstablishReturns HalfOpenHeals  StopReturns
CHECK_DEADLOCK FALSE
