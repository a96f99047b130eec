CONSTANTS
  c1 = c1
  c2 = c2
  x = x
  y = y
  Failed = Failed
  Absent = Absent
  Torn = Torn
  Cells <- TwoCells
  PlanOrder <- Planned
  FileOrders <- BothOrders
  Values <- TwoValues
  MaxInputs = 2
  MaxRuns = 2
SPECIFICATION Spec
SYMMETRY Symmetry
INVARIANTS
  ReportableInPlanOrder
  PersistedReportIsWhole
PROPERTIES
  ReportAgrees
  ReportGoesThrough
