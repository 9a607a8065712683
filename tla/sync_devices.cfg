SPECIFICATION Spec
CONSTANTS
  d1 = d1
  d2 = d2
  a = a
  b = b
  Devices <- TwoDevices
  Ids <- TwoIds
  MaxTime = 2
  MaxUploads = 2
  MaxEdits = 3
  Conditional <- WithAndWithoutETags
  Backend <- OneOfEach
  Skewed = TRUE
  MayTruncate = TRUE
  MaxLost = 1
INVARIANTS
  TypeOK
  UploadsAreUpToDate
PROPERTIES
  UnknownRemoteKept
  SyncNeverMovesBack
SYMMETRY SymSync
