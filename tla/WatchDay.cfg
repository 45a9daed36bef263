SPECIFICATION Spec
CONSTANTS
  None = None
  Worlds <- Days
INVARIANTS
  OnlyUnreadableSourcesFail
  WorkRestsOnReadableEvidence
  LoopSelectsAsTheClassifier
  StatusAgreesWithPlan
  EveryRunIsDescribed
  HeldRunsSayTheyAreHeld
CHECK_DEADLOCK FALSE
