CONSTANTS
  Nil = Nil
  PXEBuffer = 1
  MaxTunnels = 2
  MaxBoots = 1
  MaxRegistrations = 1
  MaxMishaps = 1
SPECIFICATION FairSpec
INVARIANTS
  LinkInv
PROPERTIES
  TeardownIsOrderly
  RemovalCompletes
  StatusIsRight
  Discovered
CHECK_DEADLOCK FALSE
