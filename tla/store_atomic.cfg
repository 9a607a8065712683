SPECIFICATION FairSpec
CONSTANTS
  t1 = t1
  t2 = t2
  o1 = o1
  o2 = o2
  o3 = o3
  o4 = o4
  a = a
  b = b
  Key = Key
  Seed = Seed
  Forged = Forged
  NoState = NoState
  NoTab = NoTab
  NoId = NoId
  Tabs <- OneTab
  Ops <- ThreeOps
  Values <- ValuesOfThree
  Ids <- TwoIds
  Keys <- OneKey
  Backends <- Native
  Overlap = FALSE
  MayTamper = FALSE
  MaySealFail = FALSE
  MayCrash = TRUE
  MaxVersion = 9
  MaxLate = 1
INVARIANTS
  IdleTabHoldsTheFile
  NoFalseAlarm
PROPERTIES
  OperationsEnd
  ImplementsRegister
CHECK_DEADLOCK FALSE
