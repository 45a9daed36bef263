SPECIFICATION Spec
CONSTANTS
  r1 = r1
  r2 = r2
  b1 = b1
  b2 = b2
  None = None
  Runs <- TwoRuns
  BuildIds <- OneBuild
  MaxHead = 1
  MaxFeed = 0
  MaxAttempts = 2
  Recipe <- RecipeChanges
  RunnersDie = FALSE
CHECK_DEADLOCK FALSE
INVARIANTS
  DraftIsReused
