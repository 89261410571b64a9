SPECIFICATION FairSpec
CONSTANTS
  Conn = {a, b, c}
  NoConn = none
  Recovery = TRUE
CHECK_DEADLOCK FALSE
INVARIANTS
  ReturnsAfterAll
  RegistryIsLive
PROPERTIES
  ShutdownEnds
