SPECIFICATION FairLoopSpec
CONSTANTS
  MaxBytes = 2
  Sizes <- MCSizes
  MaxFrames = 3
  Sender = {"t"}
  Work <- MCWork
  QueueSize = 1
  MaxTransports = 2
  MaxReceived = 1
CHECK_DEADLOCK FALSE
PROPERTIES
  CloseStopsWriterAlways
