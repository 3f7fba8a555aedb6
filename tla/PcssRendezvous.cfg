SPECIFICATION FairSpec
CONSTANTS
  Garbled = "garbled"
  NoModel = "none"
  Cameras = {"cam", "twin", "liar"}
  Advertises <- MCAdvertises
  ModelOf <- MCModelOf
  Broadcasts = 2
  Knocks = 1
  InitRetries = 1
  RetryUnicast = TRUE
  Callbacks = 1
  MaxConns = 3
INVARIANTS
  RendezvousIsSound
PROPERTIES
  EverythingEnds
CHECK_DEADLOCK FALSE
