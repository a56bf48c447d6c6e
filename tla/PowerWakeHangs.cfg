CONSTANTS
  Callouts = {t1, t2}
  PmTimeouts = TRUE
  MouseTalksAtWake = TRUE
SPECIFICATION FairSpec
PROPERTY Acknowledged
CHECK_DEADLOCK FALSE
