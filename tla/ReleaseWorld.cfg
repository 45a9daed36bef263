SPECIFICATION Spec
CONSTANTS
  r1 = r1
  r2 = r2
  b1 = b1
  b2 = b2
  None = None
  Runs <- TwoRuns
  BuildIds <- OneBuild
  MaxHead = 2
  MaxFeed = 1
  MaxAttempts = 2
  Recipe <- RecipeChanges
  RunnersDie = FALSE
CHECK_DEADLOCK FALSE
SYMMETRY Symmetry
INVARIANTS
  IInv
  PublishedIsTheTaggedBuild
  LiveIsKnown
  RecordedClaimIsTrue
PROPERTIES
  PublicationIsFresh
