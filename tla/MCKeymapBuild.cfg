CONSTANTS
  Names = {"A", "B"}
  CodeDefs = {9, 300}
  Ranges = {}
  Bodies <- MCBodies
  Offsets = {0, 1}
  GroupNames = {1}
  TypeDefs <- MCTypes
  VModDefs = {}
  LedNames = {}
  LedCodes = {}
  LedMods = {}
  Interprets = {}
  Mods = {}
  Syms = {"a", "b"}
  ModSyms = {}
  NoSymbol = "none"
  AnySym = "any"
  NoType = NoType
  MaxStatements = 4
SPECIFICATION Spec
INVARIANTS
  TypeOK
  EverythingReachable
  TypesFit
PROPERTY
  Implements
CHECK_DEADLOCK FALSE
