SPECIFICATION DaemonSpec
CONSTANTS
  c1 = c1
  c2 = c2
  Tool <- TwoCalls
  Kinds <- ClickAndAny
  Proc <- Processes
  Nobody = Nobody
  MaxRestarts = 1
CHECK_DEADLOCK FALSE
INVARIANTS DaemonInv
PROPERTIES CallsEnd
