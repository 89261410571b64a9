SPECIFICATION Spec
CONSTANTS
  PerMilli = 2
  MaxMillis = 100
  Defaults <- MCDefaults
  Configured <- MCLongDelay
  Senders = {"client", "server"}
  FlushTicks = 0
CHECK_DEADLOCK FALSE
INVARIANTS
  HealthyIsKept
