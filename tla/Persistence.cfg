SPECIFICATION Spec
CONSTANTS
  c1 = c1
  c2 = c2
  c3 = c3
  r1 = r1
  r2 = r2
  None = None
  Call <- ThreeCalls
  Recording <- TwoRecordings
  Length = 2
  MaxHeals = 1
SYMMETRY Swap
CHECK_DEADLOCK FALSE
INVARIANTS CassetteInv LogComplete
