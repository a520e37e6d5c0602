SPECIFICATION FairSpec
CONSTANTS
  MaxCalls = 2
  MaxStops = 0
  Faults = {"noaddr", "pppd", "early"}
PROPERTIES CloseCompletes RequestAnswered
CHECK_DEADLOCK FALSE
