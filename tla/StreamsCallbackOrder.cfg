SPECIFICATION Spec
CONSTANTS
  Stream <- OnlyOne
  MaxMessages = 1
  QueueSize = 1
  Kinds <- GoodAndBad
CHECK_DEADLOCK FALSE
INVARIANTS
  NewBeforeClose
