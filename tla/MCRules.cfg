SPECIFICATION Spec
CONSTANTS
  Calls <- MCCalls
  LayoutTexts <- MCLayoutTexts
INVARIANTS
  LayoutsInTheirGroups
  ResolvedAsWritten
CHECK_DEADLOCK FALSE
