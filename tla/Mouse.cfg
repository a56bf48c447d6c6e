SPECIFICATION Spec
CHECK_DEADLOCK FALSE
CONSTANTS
  ResetLimit = 2
  MaxOdd = 1
  MaxUnread = 2
  MaxStrays = 1
  MaxGlitches = 1
  MaxPlugs = 2
  MaxSleeps = 1
INVARIANTS
  PacketFits
  PluggedIsEnabled
PROPERTY
  SynchronisesAgain
