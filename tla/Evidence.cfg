SPECIFICATION EvidenceSpec
CONSTANTS
  Plan <- MCPlan
  Configurations <- MCConfigurations
  Natures <- MCNatures
  ScreenOrder <- MCScreenOrder
  RequiredPositive = 1
  FreeRequired = 1
  MaxRuns = 3
  MaxDisturbances = 2
  FirstConfiguration <- MCFirstConfiguration
  NoCell = NoCell
INVARIANTS CheckpointsStayCurrent CompletedCellsLeaveEvidence CountedDecisionsAreScored
