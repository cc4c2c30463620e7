SPECIFICATION FairSpec
CONSTANTS
  a1 = a1
  a2 = a2
  w1 = w1
  p1 = p1
  Action <- TwoActions
  Page <- TwoPages
  Workspace <- WorkspacePages
  Internal <- InternalPages
  None = None
  Idle = 1
  MaxTime = 2
CHECK_DEADLOCK FALSE
INVARIANTS SessionInv
PROPERTIES EveryActionEnds
