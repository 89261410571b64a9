SPECIFICATION Spec
CONSTANTS
  PerMilli = 2
  MaxMillis = 100
  Defaults <- MCDefaults
  Configured <- MCShortDelay
  Senders = {"client", "server"}
  FlushTicks = 1
CHECK_DEADLOCK FALSE
INVARIANTS
  AckInTime
