CONSTANTS
  Paths = {"home", "system", "other", "nofile"}
  Disks <- MCDisks
  Places <- MCPlaces
  Keysyms = {"a", "b"}
  Results = {"r1", "r2"}
  Unknown = "unknown"
  Unreadable = Unreadable
  Nowhere = "nowhere"
SPECIFICATION Spec
INVARIANTS
  TypeOK
  NoFileInsideItself
  ReadsInOrder
PROPERTY CallReturns
CHECK_DEADLOCK FALSE
