SPECIFICATION Spec
CONSTANTS
  SeqMod = 8
  MaxRetries = 2
  MaxSent = 9
  Start <- BeforeWrap
INVARIANT NoSilentDrop
CHECK_DEADLOCK FALSE
