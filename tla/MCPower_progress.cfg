CONSTANTS
  Nil = Nil
  AlwaysNetboot = FALSE
  MinRebootInterval = 1
  Bounds <- ProgressBounds
SPECIFICATION FairSpec
INVARIANTS
  PowerInv
  NoRequestForgotten
PROPERTIES
  CommandsAreDue
  PowerOffIsAcknowledged
  WipeIsDone
  NeededIsOn
  TenantGetsTalos
  RebootIsServed
  NoRebootLoop
CHECK_DEADLOCK FALSE
