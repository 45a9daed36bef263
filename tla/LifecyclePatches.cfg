SPECIFICATION FairSpec
CONSTANTS
  None = None
  Maintained = {804}
  FirstPage <- OnePage
  Coming = {805}
  Ending = {}
  LastPatch <- FewPatches
  Slots = {1, 2}
  MaxFailures = 2
PROPERTIES
  RecordsOnlyAdvance
  DuePatchShips
CHECK_DEADLOCK FALSE
