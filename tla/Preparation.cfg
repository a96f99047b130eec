SPECIFICATION Spec
CONSTANTS
  Datasets = {"N-BaIoT", "CICIoT2023"}
  NumViews = 3
  r1 = r1
  r2 = r2
  c1 = c1
  c2 = c2
  stream = stream
  f1 = f1
  f2 = f2
  Raws = {r1, r2}
  Scopes = {c1, c2}
  Scalings = {s1, s2}
  s1 = s1
  s2 = s2
  Streams = {stream}
  Targets = {}
  Benign = {stream}
  StreamOf <- MCStreamOf
  RoleOf <- MCRoleOf
  FileOf <- MCFileOf
  LengthOf <- MCLengthOf
  Intervals <- MCIntervals
  Caps <- MCCaps
  Digest <- MCDigest
  ViewsOf <- MCViewsOf
  Contents <- MCContents
  Bytes <- MCBytes
  MaxChanges = 2
  MaxStops = 1
  Uncovered = Uncovered
  NoFile = NoFile
  Torn = Torn
  Nothing = Nothing
SYMMETRY Symmetry
INVARIANTS
  ReuseIsSound
  ContentOfIdentity
  CompletedRunIsCurrent
  EvidenceIsUnseen
PROPERTIES
  RerunsChangeNothing
