CONSTANTS
  Nil = Nil
  AlwaysNetboot = FALSE
  MaxWipeId = 1
  MaxInstallEvent = 1
  MaxChanges = 1
SPECIFICATION Spec
INVARIANTS
  LifecycleInv
  ReadyMeansClean
  TalosServedClean
PROPERTIES
  NoDataLoss
  ImplementsPromise
  RemovesOrderly
CHECK_DEADLOCK FALSE
