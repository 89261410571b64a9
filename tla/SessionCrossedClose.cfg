SPECIFICATION Spec
CONSTANTS
  Outgoing <- OneEach
  MaxReplayBytes <- OneByte
  Closers <- Endpoint
  AckEvery = 2
  MaxTransport = 1
  MaxBreaks = 0
CHECK_DEADLOCK FALSE
INVARIANTS
  CloseWritesQueued
