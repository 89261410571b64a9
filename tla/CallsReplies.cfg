SPECIFICATION Spec
CONSTANTS
  Caller = {a, b}
  MaxRequest = 5
  Unanswered = {}
  MayDrop = {"recv", "peek"}
CHECK_DEADLOCK FALSE
INVARIANTS
  OwnReply
  ReplyIsKept
  DiscardsOnlyLate
