SPECIFICATION Spec
CONSTANTS
  i1 = i1
  a1 = a1
  p1 = p1
  p2 = p2
  Runtimes <- WebOnly
  Backends <- SqliteOnly
  Items <- OneItem
  Atts <- OneAttachment
  Passwords <- TwoPasswords
  NoPassword = NoPassword
  MaxSalt = 2
  MaxOthers = 1
  MayCrash = FALSE
INVARIANTS
  AttachmentsReadable
