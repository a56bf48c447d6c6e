CONSTANTS
  Callouts = {t1, t2}
  PmTimeouts = TRUE
  MouseTalksAtWake = TRUE
SPECIFICATION FairSpec
INVARIANTS
  PortFollowsPowerState
  AckTruthful
PROPERTIES
  DriversToldOnline
  AcknowledgedUnlessReset
CHECK_DEADLOCK FALSE
