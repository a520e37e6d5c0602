SPECIFICATION Spec
CONSTANTS
  MaxCalls = 2
  MsgLens = {16}
  AvpLens = {0, 8}
  Attrs = {"message type", "assigned tunnel", "assigned call", "unknown"}
  Msgs = {"SCCRQ", "SCCRP", "SCCCN", "ICRQ", "ICRP", "ICCN", "OCRP"}
  Ids = {1, 2}
  Odd = {}
  Lax = {"SCCRP", "ICRP"}
INVARIANTS ListSound NoCallForgotten
PROPERTY NumbersStable RoundShortens
CHECK_DEADLOCK FALSE
