SPECIFICATION Spec
CONSTANTS
  Identities = {i1, i2}
  Payloads = {v1, v2}
  Outputs <- SharedOutputs
  Publishers = {p1, p2}
  Readers = {r1}
  MaxCorruptions = 1
  NoIdentity = NoIdentity
  NoPayload = NoPayload
  Damaged = Damaged
INVARIANT CurrentIsComplete
INVARIANT ReadersSeeOneArtifact
INVARIANT ReturnedWasProduced
PROPERTY ImplementsSlot
SYMMETRY PublisherSymmetry
