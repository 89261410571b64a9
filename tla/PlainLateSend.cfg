SPECIFICATION PlainSpec
CONSTANTS
  Sender = {"t1", "t2"}
  MaxSends = 2
  QueueSize = 2
CHECK_DEADLOCK FALSE
INVARIANTS
  SentIsWritten
