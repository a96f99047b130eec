-------------------------- MODULE MCAdmissionCell --------------------------
EXTENDS EvidenceScarcity

CONSTANTS d1, d2, d3, d4, d5

FiveDomains == {d1, d2, d3, d4, d5}
FirstToLast == <<d1, d2, d3, d4, d5>>

=============================================================================
