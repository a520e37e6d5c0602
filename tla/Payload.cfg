SPECIFICATION Spec
CONSTANTS
  Outgoing <- MCOutgoing
  Incoming <- MCIncoming
  Fcs <- MCFcs
  Modulus = 6
  Fudge = 2
  MaxRecv = 12
  MaxDue = 2
INVARIANTS
  FramesIntact
  Readable
  NoneRefused
