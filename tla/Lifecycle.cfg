SPECIFICATION Spec
CONSTANTS
  Roles = {"client", "server"}
  Threading = {TRUE, FALSE}
  MaxTransport = 3
CHECK_DEADLOCK FALSE
INVARIANTS
  NotStrandedOnOneThread
  OneDialer
PROPERTIES
  WriterDropsOnlyFailed
  ExpiresOnlyDetached
