CONSTANTS
  Keys = {"left alt", "right alt", "left ctrl", "delete", "gray delete", "print screen", "pause"}
  QueueSize = 4
  MaxAhead = 2
  MaxHeld = 4
  Debugging = TRUE
  SaveScreenshot = FALSE
SPECIFICATION KeyboardSpec
INVARIANTS
  KeysFollowUser
  ModifiersAgree
PROPERTIES
  DebuggerMeant
CHECK_DEADLOCK FALSE
