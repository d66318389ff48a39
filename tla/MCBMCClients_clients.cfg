CONSTANTS
  Nil = Nil
  m1 = m1
  m2 = m2
  a1 = a1
  a2 = a2
  poll = poll
  power = power
  Machines <- MCMachines
  Addresses <- MCAddresses
  Callers <- MCCallers
  UseAlways = FALSE
  UseWhenAvailable = TRUE
  MaxReconfigurations = 1
  MaxMishaps = 1
SPECIFICATION FairSpec
INVARIANTS
  ClientsInv
  ProtocolIsRight
PROPERTIES
  AnswersStand
  CallsEnd
CHECK_DEADLOCK FALSE
