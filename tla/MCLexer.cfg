CONSTANT
  Texts <- MCTexts
SPECIFICATION FairSpec
INVARIANTS
  PositionsExact
  TokensTile
PROPERTY
  TokenizeEnds
CHECK_DEADLOCK FALSE
