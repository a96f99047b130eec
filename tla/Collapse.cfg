SPECIFICATION Spec
CONSTANTS
  SeedCount = 5
  MinPairs = 4
  Alpha = 26
  SourceASR = 90
  MaxFailures = 1
  Outcomes <- SomeSeedsVary
  NameRank <- SomeOrder
  Mixtures <- TwoMixtures
  FailureConditions <- ThreeFailures
  SecondaryMembers <- FourMembers
  Means <- SomeMeans
INVARIANTS
  HolmIsClosed
  SurvivalIsMeasured
  ProtectionSurvives
  ClaimsAreMeasured
  ClaimsStand
PROPERTY MissingIsNoAdvantage
CHECK_DEADLOCK FALSE
