SPECIFICATION Spec
CONSTANTS
  h1 = h1
  t1 = t1
  t2 = t2
  l1 = l1
  p1 = p1
  p2 = p2
  None = None
  Torn = Torn
  Process <- TwoProcesses
  Agent <- FourAgents
  Home <- FourHomes
  KindOf <- FourKinds
  Steps <- FourSteps
  MaxCrashes = 1
CHECK_DEADLOCK FALSE
INVARIANTS RecallInv Conserved
