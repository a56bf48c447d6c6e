SPECIFICATION Spec
CONSTANTS
  ClickDelay = 2
  ReleaseDelay = 3
  SettleNew = 1
  SettleTap = 2
  SettleLong = 3
  Prefs <- MCPrefs
  Multifinger = FALSE
  UsesButton = TRUE
  MaxInterferences = 1
INVARIANTS
  TimerBehindPromise
  PressPerTap
PROPERTY
  HeldIsReleased
