SPECIFICATION Spec
CONSTANTS
  PerMilli = 2
  MaxMillis = 100
  Defaults <- MCDefaults
  Configured <- MCFineInterval
  Senders = {}
  FlushTicks = 0
CHECK_DEADLOCK FALSE
INVARIANTS
  OptionsAccepted
