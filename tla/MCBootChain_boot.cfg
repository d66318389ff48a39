CONSTANTS
  Nil = Nil
  Kinds <- MCKinds
  OptionSets <- MCOptionSets
  Interfaces = 2
  MaxMishaps = 2
SPECIFICATION FairSpec
INVARIANTS
  BootInv
  OffersAreSound
PROPERTIES
  GetsBooted
CHECK_DEADLOCK FALSE
