SPECIFICATION Spec
CONSTANTS
  Stream <- DefaultAndOne
  MaxMessages = 1
  QueueSize = 1
  Kinds <- GoodAndBad
CHECK_DEADLOCK FALSE
INVARIANTS
  DrainDelivers
