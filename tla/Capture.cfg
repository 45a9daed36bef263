SPECIFICATION Spec
CONSTANTS
  Releases = {"r1", "r2", "r3", "r4", "r5"}
  Listed <- ShortList
  PageSize = 2
  MaxPages = 2
INVARIANTS
  WatcherSeesEveryRelease
  TokensAgree
CHECK_DEADLOCK FALSE
