SPECIFICATION Spec
CONSTANTS
  Outgoing <- OneEach
  MaxReplayBytes <- OneByte
  Closers <- OnlyClient
  AckEvery = 2
  MaxTransport = 1
  MaxBreaks = 1
CHECK_DEADLOCK FALSE
INVARIANTS
  PeerCloseReleases
