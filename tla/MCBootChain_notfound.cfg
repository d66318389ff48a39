CONSTANTS
  Nil = Nil
  Kinds <- PlainPC
  OptionSets <- NotFound
  Interfaces = 2
  MaxMishaps = 0
SPECIFICATION FairSpec
PROPERTIES
  NotFoundBootsFromDisk
CHECK_DEADLOCK FALSE
