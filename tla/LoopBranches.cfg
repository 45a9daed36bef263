SPECIFICATION Spec
CONSTANTS
  None = None
  Branches <- TwoBranches
  Recipe <- OwnModules
  MaxPatch = 1
  MaxEdit = 1
  MaxFailures = 0
  MaxReruns = 0
INVARIANTS
  RebuildsMoveOn
PROPERTIES
  WorkIsHeldForPublish
  NoRepeatedDispatch
  ImplementsReleaseLine
CHECK_DEADLOCK FALSE
