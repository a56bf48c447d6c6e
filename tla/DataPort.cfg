CONSTANTS
  QueueSize = 2
  MaxBytes = 3
  MaxCommands = 2
  Environments <- MCEnvironments
SPECIFICATION FairSpec
INVARIANTS
  EachByteOnce
  StreamsNotMixed
  MouseInOrder
  KeyboardInOrder
  StrayByteTolerated
PROPERTIES
  BytesMoveOn
CHECK_DEADLOCK FALSE
