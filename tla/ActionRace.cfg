SPECIFICATION FairSpec
CONSTANTS
  a1 = a1
  Action <- OneAction
  Priorities <- ProfilePriorities
  ActionTypes <- AllTypes
  RegisteredTiers <- AllTiers
  Registries <- MCRegistries
  FifoStart = TRUE
CHECK_DEADLOCK FALSE
INVARIANTS TypeOK RaceInv OutcomeInv ScriptYields
PROPERTIES QuietAfterReturn EveryCallEnds ImplementsDelivery
