SPECIFICATION Spec
CONSTANTS
  Caller = {a, b}
  MaxRequest = 2
  Unanswered = {1}
  MayDrop = {}
CHECK_DEADLOCK FALSE
INVARIANTS
  DiscardsOnlyLate
