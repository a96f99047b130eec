SPECIFICATION Spec
CONSTANTS
  source = source
  d2 = d2
  d3 = d3
  d4 = d4
  NoDomain = NoDomain
  Domains <- AllDomains
  Sources <- SourceOrNone
  CommitteeSize = 3
  MedianRows = 2
  KrumMinimum = 3
  MaxCompromised = 2
  ClusterMinimum = 2
  TrimMinimum = 3
  TrimEach = 1
SYMMETRY Alike
INVARIANTS
  AncestryIsTrue
  ReportIsOfProduction
  RecordsAreTheCellsOwn
CHECK_DEADLOCK FALSE
