--------------------------- MODULE MCCellRecords ---------------------------
EXTENDS CellRecords, TLC

CONSTANTS source, d2, d3, d4

AllDomains == {source, d2, d3, d4}
SourceOrNone == {source, NoDomain}
Alike == Permutations({d2, d3, d4})

=============================================================================
