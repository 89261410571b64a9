SPECIFICATION Spec
CONSTANTS
  Roles = {"client"}
  Threading = {TRUE}
  MaxTransport = 3
CHECK_DEADLOCK FALSE
INVARIANTS
  NotStranded
