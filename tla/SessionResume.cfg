SPECIFICATION FairSpec
CONSTANTS
  Outgoing <- ThreeFromClient
  MaxReplayBytes <- TwoBytes
  Closers <- Nobody
  AckEvery = 2
  MaxTransport = 3
  MaxBreaks = 1
CHECK_DEADLOCK FALSE
INVARIANTS
  DeliveredInOrder
  NothingFreedEarly
  NoSequenceGap
  AckIsScheduled
PROPERTIES
  ImplementsChannel
  ClientReattaches
  AcceptedIsDelivered
  BothClose
