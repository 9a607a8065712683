SPECIFICATION Spec
CONSTANTS
  i1 = i1
  i2 = i2
  c1 = c1
  j1 = j1
  Ids <- TwoItems
  Captures <- OneCapture
  Jobs <- OneJob
  Backends <- Both
  Frequencies <- OnLockAndDaily
  Period <- Apart
  Limits <- TwoOrThree
  DefaultLimit = 2
  Least = 2
  MaxTime = 2
  MaxRev = 3
  MaxMade = 4
  MaxEvents = 3
INVARIANTS
  TypeOK
  RecentSurvive
  SnapshotsHoldTheFiles
  JobsKeepTheirWord
PROPERTIES
  NothingLostByRestore
CHECK_DEADLOCK FALSE
