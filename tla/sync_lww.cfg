SPECIFICATION Spec
CONSTANTS
  d1 = d1
  d2 = d2
  a = a
  b = b
  Devices <- TwoDevices
  Ids <- OneId
  MaxTime = 4
  MaxUploads = 3
  MaxEdits = 2
  Conditional <- WithoutETags
  Backend <- AllFiles
  Skewed = FALSE
  MayTruncate = FALSE
  MaxLost = 0
PROPERTIES
  LastWriteWins
