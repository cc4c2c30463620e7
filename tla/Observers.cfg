SPECIFICATION Spec
CONSTANTS
  a1 = a1
  a2 = a2
  r1 = r1
  Action <- TwoActions
  Root <- OneRoot
  RootOf <- SameRoot
  App = App
  None = None
  Guard = 2
  Warmup = 2
  MaxDelay = 1
  Horizon = 3
  MaxChanges = 1
  MaxFaults = 2
SYMMETRY Sym
CHECK_DEADLOCK FALSE
INVARIANTS FreshCredit CreditedOnce SparingInv WaitersExact
