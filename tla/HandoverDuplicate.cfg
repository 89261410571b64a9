SPECIFICATION HandoverSpec
CONSTANTS
  Frames = 4
  MaxGen = 3
  MultiThread = TRUE
CHECK_DEADLOCK FALSE
INVARIANTS
  DeliveredOnce
