SPECIFICATION Spec
CONSTANTS
  t1 = t1
  t2 = t2
  o1 = o1
  o2 = o2
  o3 = o3
  o4 = o4
  a = a
  b = b
  Key = Key
  Seed = Seed
  Forged = Forged
  NoState = NoState
  NoTab = NoTab
  NoId = NoId
  Tabs <- OneTab
  Ops <- TwoOps
  Values <- ValuesOfTwo
  Ids <- TwoIds
  Keys <- OneKey
  Backends <- NativeAndOpfs
  Overlap = FALSE
  MayTamper = TRUE
  MaySealFail = TRUE
  MayCrash = TRUE
  MaxVersion = 4
  MaxLate = 1
INVARIANTS
  TypeOK
  ForgeryNeverSealed
  ForgeryNeverShown
PROPERTIES
  WritesAdvanceTheMark
CHECK_DEADLOCK FALSE
SYMMETRY SymTwoOps
