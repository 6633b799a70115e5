SPECIFICATION Spec
CONSTANTS
  Callers = {c1, c2}
  PoolSize = 1
  MaxOpens = 1
INVARIANTS
  ClosedManagerHoldsNoState
