SPECIFICATION Spec
CONSTANTS
  None = None
  Maintained = {804}
  FirstPage <- OnePage
  Coming = {805}
  Ending = {}
  LastPatch <- Patches
  Slots = {1}
  MaxFailures = 1
PROPERTY
  RepairedWasUnrecorded
CHECK_DEADLOCK FALSE
