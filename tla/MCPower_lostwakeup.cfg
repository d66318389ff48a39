CONSTANTS
  Nil = Nil
  AlwaysNetboot = FALSE
  MinRebootInterval = 1
  Bounds <- LostWakeUpBounds
SPECIFICATION FairSpec
PROPERTIES
  NeededIsOn
CHECK_DEADLOCK FALSE
