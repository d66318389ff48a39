CONSTANTS
  Nil = Nil
  AlwaysNetboot = FALSE
  MaxWipeId = 1
  MaxInstallEvent = 1
  MaxChanges = 2
SPECIFICATION Spec
PROPERTIES
  WipedIsNotInstalled
CHECK_DEADLOCK FALSE
