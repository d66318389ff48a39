CONSTANTS
  Nil = Nil
  AlwaysNetboot = FALSE
  MinRebootInterval = 1
  Bounds <- StaleAckBounds
SPECIFICATION Spec
INVARIANTS
  PowerOffOfItsTenancy
CHECK_DEADLOCK FALSE
