CONSTANTS
  c1 = c1
  r = r
  x = x
  y = y
  w1 = w1
  w2 = w2
  Null = Null
  NotYet = NotYet
  Failed = Failed
  Call <- MCCall
  Node <- MCNode
  Root = r
  Shapes <- MCShapes
  LabelOf <- MCLabelOf
  Cap <- MCCap
  Capacity <- MCCapacity
  Rate = 1
  MaxTime = 1
  Window = {w1, w2}
  Plans <- MCPlans
  Foreign <- MCForeign
  Titles = {0, 1}
  Pictures = {0, 5, 6}
  MaxUpsets = 1
  MaxPolls = 2
SPECIFICATION FairVerification
INVARIANTS VerdictInv OwnEffectSeen WalkInv
PROPERTIES EveryCallEnds
