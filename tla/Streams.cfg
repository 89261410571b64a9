SPECIFICATION FairSpec
CONSTANTS
  Stream <- OnlyOne
  MaxMessages = 4
  QueueSize = 1
  Kinds <- SecondMayFail
CHECK_DEADLOCK FALSE
INVARIANTS
  NotReopened
  FinComesLast
  DrainDelivers
PROPERTIES
  ClosedStreamStallsNobody
  TasksEnd
