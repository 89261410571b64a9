SPECIFICATION Spec
CONSTANTS
  Outgoing <- MiddleTooLarge
  MaxReplayBytes <- OneByte
  Closers <- Endpoint
  AckEvery = 2
  MaxTransport = 2
  MaxBreaks = 1
CHECK_DEADLOCK FALSE
PROPERTIES
  CloseComesLast
