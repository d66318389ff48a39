SPECIFICATION FairSpec
CONSTANTS
  Nil = Nil
  Controllers <- ThreeControllers
  MaxRegistrations = 2
  MaxMishaps = 1
INVARIANTS RemovalInv
PROPERTIES RebootPrecedesRelease KeepsPromises RemovalEnds
CHECK_DEADLOCK FALSE
