SPECIFICATION AttendedSpec
CONSTANTS
  None = None
  Branches <- OneBranch
  Recipe <- SharedRecipe
  MaxPatch = 1
  MaxEdit = 1
  MaxFailures = 1
  MaxReruns = 0
PROPERTIES
  EventuallySettled
CHECK_DEADLOCK FALSE
