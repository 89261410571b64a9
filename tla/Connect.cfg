SPECIFICATION FramingSpec
CONSTANTS
  CodecLists <- MCCodecLists
  MaxFrames <- MCMaxFrames
  MaxDials = 3
  Base = 4
  Messages <- MCMessages
  MaxWritten = 2
CHECK_DEADLOCK FALSE
INVARIANTS
  Agreed
  RecoveryIfBothWant
  FramesArrive
