SPECIFICATION Spec
CONSTANTS
  r1 = r1
  r2 = r2
  b1 = b1
  b2 = b2
  None = None
  Runs <- TwoRuns
  BuildIds <- TwoBuilds
  MaxHead = 1
  MaxFeed = 0
  MaxAttempts = 2
  Recipe <- RecipeChanges
  RunnersDie = TRUE
CHECK_DEADLOCK FALSE
SYMMETRY Symmetry
INVARIANTS
  TypeOK
  PublishedBytesWereInstalled
  RecordNamesPublicBytes
PROPERTIES
  ImplementsImmutableRelease
