CONSTANTS
  Drivers = {keyboard, mouse}
  Bits = {"keyboard IRQ", "mouse IRQ", "keyboard clock off", "mouse clock off"}
  ClockOff = "keyboard clock off"
  Update <- MCUpdate
  Initial <- MCInitial
  NoUpdate = NoUpdate
  NoDriver = NoDriver
  ScanCodes <- MCScanCodes
  MaxScans = 2
  MaxCalls = 3
SPECIFICATION FairSpec
PROPERTIES
  UpdatesAtomically
  UpdateEnds
CHECK_DEADLOCK FALSE
