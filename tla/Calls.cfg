SPECIFICATION Spec
CONSTANTS
  MaxCalls = 2
  MaxStops = 1
  Faults = {"noaddr", "pppd", "early"}
INVARIANTS CallsPaired NoneLeftBehind
CHECK_DEADLOCK FALSE
