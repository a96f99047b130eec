SPECIFICATION Spec
CONSTANTS
  Domains = {1, 2, 3, 4, 5, 6, 7, 8}
  FaultBound = 1
  MinimumSupport = 3
  UtilityFloor = 80
  HarmCeiling = 2
  Panels <- MCPanels
  ScreenOrders <- MCScreenOrders
  BetaValues = {0, 1}
  ScreenDomains = 3
  RequiredPositiveScreenDomains = 2
  OpeningGain = 20
  OpeningDrop = 2
  OpeningFalseAlarms = 1
  MinimumAdequateDomains = 6
  GateMedian = 80
  GateWorst = 60
  GateDrop = 2
INVARIANTS
  HonestHoldersClear
  FaultsCannotVeto
  SourceHasNoSay
  SharesFollowSupport
  CertificateSeparatesWorlds
CHECK_DEADLOCK FALSE
