CONSTANTS
  Nil = Nil
  Unset = Unset
  AllowMachinesWithoutBMC = TRUE
  p1 = p1
  p2 = p2
  p3 = p3
  Passwords <- MCPasswords
  MaxUserConfigs = 3
  MaxMishaps = 2
SPECIFICATION FairSpec
INVARIANTS
  SetupInv
  StaysManageable
  RestsWhenDone
PROPERTIES
  EndsConfigured
CHECK_DEADLOCK FALSE
