SPECIFICATION Spec
CONSTANTS
  Stream <- OnlyOne
  MaxMessages = 1
  QueueSize = 1
  Kinds <- GoodOnly
CHECK_DEADLOCK FALSE
INVARIANTS
  ReservedUntilFin
