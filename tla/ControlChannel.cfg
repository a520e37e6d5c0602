SPECIFICATION FairSpec
CONSTANTS
  SeqMod = 16
  MaxRetries = 2
  MaxSent = 3
  Start <- AfterSetup
INVARIANTS
  InOrderDelivery
  NoSilentDrop
  StopPending
  StopObeyed
PROPERTIES
  ReliableDelivery
  CloseTerminates
  MessageResolved
  DeadPeerDetected
  EarlierAcked
CHECK_DEADLOCK FALSE
