SPECIFICATION FairSpec
CONSTANTS
  LacTids = {1}
  LnsTids = {11, 12, 13}
  Secrets = {"s", "other"}
  NoSecret = "none"
  Confs <- MCConfs
INVARIANTS OneTunnelPerRequest
PROPERTIES ImplementsHandshake LnsResolved
CHECK_DEADLOCK FALSE
