SPECIFICATION Spec
CONSTANTS
  d1 = d1
  d2 = d2
  d3 = d3
  d4 = d4
  d5 = d5
  Domains <- FiveDomains
  Order <- FirstToLast
  NoDomain = NoDomain
  CommitteeSize = 3
  MedianRows = 2
  MaxByzantineRows = 0
  MaxCompromised = 2
  ScreenDomains = 3
  RequiredScreens = 2
  CandidateFreeScreens = 2
  Horizon = 12
  MeasurementEnd = 10
  GateDomains = 4
INVARIANT AdmittedRowsWereVerified
CHECK_DEADLOCK FALSE
