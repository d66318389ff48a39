CONSTANTS
  Nil = Nil
  OptionSets <- MCOptionSets
  Kinds = {"RebootStatus"}
  Holdable = {"RebootStatus"}
  CertTTL = 11
  Lag = 1
SPECIFICATION FairSpec
INVARIANTS
  ProviderInv
PROPERTIES
  RefusedUntouched
  TrustSurvives
  EndsTogether
  AgentGetsThrough
CHECK_DEADLOCK FALSE
