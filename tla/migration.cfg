SPECIFICATION Spec
CONSTANTS
  i1 = i1
  i2 = i2
  Items <- TwoItems
  Desktops <- AnyRuntime
  MaxEdits = 3
  MaxSalt = 4
SYMMETRY ItemSymmetry
INVARIANTS
  TypeOK
  SavedItemsActive
  SavedItemsDurable
  SessionFitsActive
