CONSTANTS
  Calls = {c1, c2}
  Works = {w1, w2}
  Responses = 1
SPECIFICATION FairSpec
INVARIANTS OldTransactionsUndisturbed NotPerformedAlone
PROPERTY CloseReturns
CHECK_DEADLOCK FALSE
