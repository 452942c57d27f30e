CONSTANTS
  Mods = {"Shift", "Lock"}
  Keysyms = {"a", "A", "b", "B", "c", "d", "x", "y", "z"}
  LEDNames = {"Caps", "Second"}
  GroupSize = 4
  MaskInputs <- MCMasks
  GroupInputs <- MCGroups
  NoType = NoType
  Keymaps <- MCKeymaps
SPECIFICATION Spec
INVARIANTS
  TypeOK
  TranslationInRange
  ShownIsCurrent
  ComponentsAddUp
PROPERTY OnlyKnownModsMatter
