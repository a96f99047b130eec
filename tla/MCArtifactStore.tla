-------------------------- MODULE MCArtifactStore --------------------------
EXTENDS ArtifactStore, TLC

\* A recomputation of one identity may produce either payload; the other
\* identity always has the same, which both can produce.
SharedOutputs ==
  LET own == CHOOSE v \in Payloads : TRUE
      one == CHOOSE i \in Identities : TRUE
  IN [i \in Identities |-> IF i = one THEN {own} ELSE Payloads]

\* Two publishers do the same; only the readers of their files are looked at.
PublisherSymmetry == Permutations(Publishers)

=============================================================================
