SPECIFICATION Spec
CONSTANTS
  NumTx = 2
  NumRx = 2
  Work = 2
  MaxPackets = 3
  MaxFrames = 2
  MaxRestarts = 1
  ErrorFrames = TRUE
  AllocFails = TRUE
INVARIANTS
  NoPacketLostOrSwapped
  MbufsAccounted
  FramesInOrder
  CurRxIsNextFrame
PROPERTY
  StallEnds
CHECK_DEADLOCK FALSE
