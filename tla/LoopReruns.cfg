SPECIFICATION Spec
CONSTANTS
  None = None
  Branches <- OneBranch
  Recipe <- SharedRecipe
  MaxPatch = 1
  MaxEdit = 1
  MaxFailures = 1
  MaxReruns = 1
INVARIANTS
  TypeOK
  EveryPlanIsAdmitted
  SinglePublication
  RevisionsAreASequence
CONSTRAINT
  AtMostMaxTurns
CHECK_DEADLOCK FALSE
