SPECIFICATION Spec
CONSTANTS
  Processes = {a}
  validation = validation
  proposal = proposal
  single = single
  primary = primary
  v1 = v1
  p1 = p1
  p2 = p2
  s1 = s1
  m1 = m1
  Experiments = {validation, proposal, single, primary}
  Cells = {v1, p1, p2, s1, m1}
  Plan <- SmallPlan
  Prerequisites <- SmallPrerequisites
  CollapseOrder <- SmallCollapse
  PostCore = {primary}
  MaxProvenance = 2
  Absent = Absent
  Torn = Torn
INVARIANT BlockedOnlyWithoutCore
