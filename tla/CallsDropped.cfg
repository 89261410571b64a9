SPECIFICATION Spec
CONSTANTS
  Caller = {a, b}
  MaxRequest = 2
  Unanswered = {}
  MayDrop = {"send_recv", "recv", "peek"}
CHECK_DEADLOCK FALSE
INVARIANTS
  OwnReply
