CONSTANTS
  Tokens <- MCTokens
  MaxNest = 1
SPECIFICATION FairSpec
INVARIANTS
  KnowsItsPlace
  AcceptedIsWhole
PROPERTY
  ParseReturns
CHECK_DEADLOCK FALSE
