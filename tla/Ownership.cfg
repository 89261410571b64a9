SPECIFICATION FairOwnSpec
CONSTANTS
  Sender = {"t"}
  MaxSends = 3
  QueueSize = 2
  Task = {"k1", "k2"}
CHECK_DEADLOCK FALSE
INVARIANTS
  CleanCloseWrites
  OneTask
PROPERTIES
  BlockedSendReturns
  UnownedIsFreed
