SPECIFICATION Spec
CONSTANTS
  MaxCalls = 1
  MsgLens = {18, 26}
  AvpLens = {8, 10}
  Attrs = {"message type", "random vector", "proxy authen",
    "sequencing required", "result code", "protocol version",
    "framing caps", "bearer caps", "firmware revision", "bearer type",
    "framing type", "host name", "dialing number", "dialed number",
    "sub address", "vendor name", "challenge", "challenge response",
    "assigned tunnel", "assigned call", "packet delay",
    "call serial number", "rx speed", "tx speed", "physical channel",
    "receive window size", "unknown", "no handler"}
  Msgs = {"SCCRQ", "SCCRP", "SCCCN", "StopCCN", "Hello", "OCRQ", "OCRP",
    "OCCN", "ICRQ", "ICRP", "ICCN", "CDN"}
  Ids = {1}
  Odd = {"assigned call"}
  Lax = {"ICRQ", "OCRQ"}
INVARIANTS ActedOnlyIfValid HeadExists
CHECK_DEADLOCK FALSE
