SPECIFICATION Spec
CONSTANTS
  Keyboards <- MCKeyboards
  AtomNames <- MCAtomNames
  BadBytes = {0, 1, 3, 255}
  Unused = 0
INVARIANTS
  NeverPastEnd
  KeymapAsServed
  HoldsTogether
CHECK_DEADLOCK FALSE
