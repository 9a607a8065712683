SPECIFICATION FairSpec
CONSTANTS
  c1 = c1
  Conns <- OneConn
  UI = UI
  Startup = Startup
  Lease = 1
  Capacity = 1
  MaxTime = 2
  MaxRotations = 1
  MaxPending = 1
  MayFail = TRUE
INVARIANTS
  TypeOK
  LateRequestsRefused
  FileMatchesToken
PROPERTIES
  RevokedSessionsEnd
  SlotsComeBack
  LeaseEndsAfterLock
CHECK_DEADLOCK FALSE
