CONSTANTS
  Names = {"A", "B"}
  CodeDefs = {9}
  Ranges = {8, 10}
  Bodies <- MCBodies
  Offsets = {1}
  GroupNames = {0}
  TypeDefs <- MCTypes
  VModDefs <- MCVMods
  LedNames = {"Caps"}
  LedCodes = {0, 1}
  LedMods <- MCLedMods
  Interprets <- MCInterprets
  Mods = {"Shift"}
  Syms = {"a", "shift", "twin", "letter", "space", "sign"}
  ModSyms = {"shift"}
  NoSymbol = "none"
  AnySym = "any"
  NoType = NoType
  MaxStatements = 20
  UnicodeLetters = {"letter"}
  Namesakes <- MCNamesakes
  Blanks = {"space"}
  Garbled = {"sign"}
  FirstStatements = 3
SPECIFICATION SSpec
INVARIANT
  RoundTrip
PROPERTIES
  RepeatsDecided
  RangeGrows
CHECK_DEADLOCK FALSE
