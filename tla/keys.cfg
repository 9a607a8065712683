SPECIFICATION Spec
CONSTANTS
  i1 = i1
  a1 = a1
  p1 = p1
  p2 = p2
  Runtimes <- AnyRuntime
  Backends <- AnyBackend
  Items <- OneItem
  Atts <- OneAttachment
  Passwords <- TwoPasswords
  NoPassword = NoPassword
  MaxSalt = 3
  MaxOthers = 1
  MayCrash = TRUE
SYMMETRY PasswordSymmetry
INVARIANTS
  TypeOK
  RowsReadable
  TransactionOwned
  AttachmentsFollowVault
  SessionFollowsVault
  BundleIsCurrent
PROPERTIES
  OnlyTheCurrentPasswordOpens
