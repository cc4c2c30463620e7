SPECIFICATION FairSpec
CONSTANTS
  c1 = c1
  c2 = c2
  c3 = c3
  s1 = s1
  s2 = s2
  s3 = s3
  m1 = m1
  m2 = m2
  None = None
  Call <- ThreeCalls
  Session <- ThreeSessions
  Computer <- TwoComputers
  Asks <- SomeAsks
  PoolSize = 2
  MaxSessions = 3
CHECK_DEADLOCK FALSE
INVARIANTS PoolInv OwnComputer
PROPERTIES EndsUnlessHung
