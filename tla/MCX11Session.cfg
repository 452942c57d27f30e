CONSTANTS
  Callers = {"once", "twice"}
  MaxCalls <- Calls
  MaxChanges = 1
  Ranges = {"narrow", "wide"}
SPECIFICATION NarrowFirst
INVARIANTS
  TypeOK
  FreshKeymap
  FailsOnlyInGapOrMixture
PROPERTY EveryCallReturns
CHECK_DEADLOCK FALSE
