SPECIFICATION Spec
CONSTANTS
  t1 = t1
  t2 = t2
  o1 = o1
  o2 = o2
  o3 = o3
  o4 = o4
  a = a
  b = b
  Key = Key
  Seed = Seed
  Forged = Forged
  NoState = NoState
  NoTab = NoTab
  NoId = NoId
  Tabs <- TwoTabs
  Ops <- FourOps
  Values <- ValuesOfFour
  Ids <- OneId
  Keys <- OneKey
  Backends <- NativeAndMirror
  Overlap = FALSE
  MayTamper = FALSE
  MaySealFail = FALSE
  MayCrash = FALSE
  MaxVersion = 9
  MaxLate = 1
PROPERTIES
  FirstWriteFenced
CHECK_DEADLOCK FALSE
SYMMETRY SymTabs
