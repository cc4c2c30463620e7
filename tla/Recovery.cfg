SPECIFICATION FairSpec
CONSTANTS
  a1 = a1
  a2 = a2
  k1 = k1
  Attempt <- MCAttempt
  Key <- MCKey
  Contexts <- MCContexts
  Registered <- RegisteredBranches
  Replies <- AllReplies
  OverBudget <- Either
  MaxCycles = 3
  Window = 1
  MaxTime = 3
  MaxFailures = 6
CHECK_DEADLOCK FALSE
INVARIANTS RecoveryInv FailuresAccounted
PROPERTIES QuarantineRespected HeldInWindow ImplementsBreaker EveryAttemptEnds
