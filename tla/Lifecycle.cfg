SPECIFICATION FairSpec
CONSTANTS
  None = None
  Maintained = {803, 804}
  FirstPage <- FullPage
  Coming = {805}
  Ending = {803}
  LastPatch <- OldPatches
  Slots = {1}
  MaxFailures = 1
INVARIANTS
  TypeOK
  EveryPlanIsAdmitted
  EveryEditApplies
  QuietMeansNothingDue
  RecordsAreBound
  OneLifecycleInFlight
PROPERTIES
  OwedResumeSurvives
  FirstReleaseIsReady
  EditIsRecorded
  ReadyRecordCompletes
CHECK_DEADLOCK FALSE
