SPECIFICATION Spec
CONSTANTS
  Low = 1
  High = 2
  Conns = {c1, c2}
  Budgets <- CrossBudgets
SYMMETRY ConnSymmetry
INVARIANTS ConclusionsAgree NoneLeftOpen NoLostWakeup ActiveIsAlive
CHECK_DEADLOCK FALSE
