SPECIFICATION FairSpec
CONSTANTS
  Outgoing <- TwoFromClient
  MaxReplayBytes <- OneByte
  Closers <- Nobody
  AckEvery = 2
  MaxTransport = 3
  MaxBreaks = 1
CHECK_DEADLOCK FALSE
PROPERTIES
  HeldIsReleased
