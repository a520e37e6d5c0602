SPECIFICATION Spec
CONSTANTS
  MaxCalls = 2
  MaxStops = 0
  Faults = {}
INVARIANT StillExpected
CHECK_DEADLOCK FALSE
