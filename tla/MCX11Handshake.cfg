CONSTANTS
  Callers = {"once", "twice"}
  MaxCalls <- Calls
  MaxChanges = 0
  Ranges = {"narrow"}
SPECIFICATION Spec
INVARIANT HandshakeFirst
CHECK_DEADLOCK FALSE
