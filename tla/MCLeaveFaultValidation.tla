------------------------ MODULE MCLeaveFaultValidation ------------------------
(* Panels of three and four holders with every mixture of reports that clear  *)
(* and miss a bar, panels of copies, and panels that raise.                  *)
EXTENDS LeaveFaultValidation

Reports == {Row(<<>>, utility, harm) : utility \in {75, 80}, harm \in {0, 3}}

Panel(evidence, repeated) ==
  [source |-> 1, own |-> Row(<<100, 100>>, 80, 0), evidence |-> evidence, repeated |-> repeated]

Apart(rows) == [d \in DOMAIN rows |-> [rows[d] EXCEPT !.update = <<d, d * d>>]]

MCPanels ==
  {Panel(Apart(rows), {}) : rows \in UNION {[2..n -> Reports] : n \in 4..5}}
    \union {Panel([d \in 2..6 |-> Row(update[d], 80, 0)], {}) :
              update \in [2..6 -> {<<1, 0>>, <<0, 1>>}]}
    \union {Panel(Apart([d \in 1..5 |-> Row(<<>>, 80, 0)]), again) : again \in {{1}, {2}}}
    \union {Panel([d \in 2..4 |-> Row(IF d = 4 THEN odd ELSE <<1, 2>>, 80, 0)], {}) :
              odd \in {<<>>, <<1>>, <<2, 2>>}}
\* Any two of the first three domains come first, or the last three do.
MCScreenOrders(among) ==
  LET count == ScreenCount(among)
      Nth(i) == CHOOSE d \in among : Cardinality({e \in among : e < d}) = i
      last == Cardinality(among) - 1
  IN {[i \in 1..count |-> Nth((first + i * step) % Cardinality(among))] :
        first \in 0..last, step \in {1} \union {s \in {2} : last > 3}}
=============================================================================
