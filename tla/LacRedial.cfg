SPECIFICATION FairSpec
CONSTANTS
  Calls = {c1, c2, c3}
  Redial = TRUE
  Rmaxes = {0, 1, 3}
  MaxTries = 5
  MaxTimers = 3
  NoCall = NoCall
INVARIANTS
  NeverIdle GivesUpLate
PROPERTIES
  NoDialPastMax
  KeepsDialling
  DisconnectCompletes
