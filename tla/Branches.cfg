SPECIFICATION FairSpec
CONSTANTS
  a1 = a1
  Action <- OneAction
  Fans <- ClassFans
  Contexts <- AllContexts
  MaxCycles = 3
CHECK_DEADLOCK FALSE
INVARIANTS BranchInv
PROPERTIES ImplementsDelivery EveryAttemptEnds
