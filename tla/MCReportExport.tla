--------------------------- MODULE MCReportExport ---------------------------
(* Two cells, whose record files may sort in either order; what a cell     *)
(* measures is one of two values, which are alike.                         *)
EXTENDS ReportExport, TLC

CONSTANTS c1, c2, x, y

TwoCells == {c1, c2}
Planned == <<c1, c2>>
BothOrders == {<<c1, c2>>, <<c2, c1>>}
TwoValues == {x, y}

Symmetry == Permutations(TwoValues)
=============================================================================
