SPECIFICATION Spec
CONSTANTS
  USec = 2
  Tunnels = {t1, t2}
  Dials = {t1}
  MaxRetries = 2
  HelloDelay = 3
  RTimeout = 2
  Late = 1
  MaxEvents = 2
  MaxTime = 14
INVARIANTS
  WakesInTime
  EventsHaveTunnel
  OneHello
  
CHECK_DEADLOCK FALSE
