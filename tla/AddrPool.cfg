SPECIFICATION Spec
CONSTANTS
  Lns = {l1}
  Default = default
  Calls = {c1, c2}
  Peers = {1, 2}
  RemoteAddrs = {1, 2}
  LocalAddrs = {2}
  MaxRules = 3
INVARIANTS RemoteUnique RemoteReserved FromRange AccessRespected
PROPERTIES RefusedOnlyIfFull
CHECK_DEADLOCK FALSE
