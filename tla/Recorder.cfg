SPECIFICATION FairRecorder
CONSTANTS
  Kinds <- AllKinds
  MaxEvents = 5
  Modes <- AllModes
CHECK_DEADLOCK FALSE
INVARIANTS RecordingInv
PROPERTIES TextLeaves
