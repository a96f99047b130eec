------------------------ MODULE LeaveFaultCertificate ------------------------
(***************************************************************************)
(* The leave-fault geometric median certificate: what it decides from the  *)
(* evidence of independent domains and which share of the production each  *)
(* of them gets, for the algorithm and its four ablations.                 *)
(*                                                                         *)
(* An admission input is a record                                          *)
(*   source    the proposing domain                                        *)
(*   own       its row: the update, utility and harm it claims             *)
(*   evidence  the rows of the domains that report                         *)
(*   repeated  the domains that report more than once                      *)
(* Domains are numbered in the order of their ids, so that the sort of the *)
(* code is the order of the numbers. Utilities and harms are in percent.   *)
(*                                                                         *)
(* The geometric median is abstracted to what is computed from it: beta,   *)
(* the inverse distance from a coalition's mean to the point, 0 for a mean *)
(* at the point.                                                           *)
(***************************************************************************)
EXTENDS Integers, FiniteSets, FiniteSetsExt, Functions

CONSTANTS
  Domains,           \* numbers of the domains
  FaultBound,        \* f: evidence domains that may be faulty
  MinimumSupport,    \* q: least panel that is decided
  UtilityFloor,      \* tau
  HarmCeiling        \* eta

ASSUME CertificateAssumption ==
  /\ Domains \subseteq Nat /\ IsFiniteSet(Domains)
  /\ FaultBound \in Nat /\ MinimumSupport \in Nat
  /\ UtilityFloor \in Int /\ HarmCeiling \in Int

\* A value that may be absent is a set of at most one member.
Absent == {}

Switches == [
  excludeSource : BOOLEAN, worstCase : BOOLEAN,
  geometricMedian : BOOLEAN, lowerMedian : BOOLEAN]

Full == [excludeSource |-> TRUE, worstCase |-> TRUE,
         geometricMedian |-> TRUE, lowerMedian |-> TRUE]

CertificateMethods ==
  {"LEAVE_FAULT_CERTIFICATE", "WITHOUT_SOURCE_EXCLUSION", "WITHOUT_WORST_CASE",
   "WITHOUT_GEOMETRIC_MEDIAN", "WITHOUT_LOWER_MEDIAN"}

SwitchesFor(method) ==
  CASE method = "LEAVE_FAULT_CERTIFICATE"  -> Full
    [] method = "WITHOUT_SOURCE_EXCLUSION" -> [Full EXCEPT !.excludeSource = FALSE]
    [] method = "WITHOUT_WORST_CASE"       -> [Full EXCEPT !.worstCase = FALSE]
    [] method = "WITHOUT_GEOMETRIC_MEDIAN" -> [Full EXCEPT !.geometricMedian = FALSE]
    [] method = "WITHOUT_LOWER_MEDIAN"     -> [Full EXCEPT !.lowerMedian = FALSE]

(* Order statistics: the value at index j of the sorted values of C.        *)

RankedAt(value, C, j) ==
  CHOOSE v \in {value[d] : d \in C} :
    /\ Cardinality({d \in C : value[d] < v}) <= j
    /\ j < Cardinality({d \in C : value[d] <= v})

\* Mutant: the index of the middle is off by one.
MedianBelow(value, C) == RankedAt(value, C, (Cardinality(C) - 2) \div 2)

LowerMedian(value, C) == RankedAt(value, C, (Cardinality(C) - 1) \div 2)
UpperMedian(value, C) == RankedAt(value, C, Cardinality(C) \div 2)

Least(S) == CHOOSE x \in S : \A y \in S : x <= y
Greatest(S) == CHOOSE x \in S : \A y \in S : y <= x

SumOver(value, C) == MapThenSumSet(LAMBDA d : value[d], C)

(* The evidence that takes part.                                            *)

\* Admission inputs: finitely many rows, with numbers for utility and harm.
IsAdmissionInput(input) ==
  /\ input = [source |-> input.source, own |-> input.own,
              evidence |-> input.evidence, repeated |-> input.repeated]
  /\ IsFiniteSet(DOMAIN input.evidence)
  /\ \A d \in DOMAIN input.evidence :
       input.evidence[d].utility \in Int /\ input.evidence[d].harm \in Int

Independent(input) == DOMAIN input.evidence \ {input.source}

\* Mutant: the source takes part whatever the switch says.
SelectedWithSource(input, excludeSource) == Independent(input) \union {input.source}

Selected(input, excludeSource) ==
  Independent(input) \union (IF excludeSource THEN {} ELSE {input.source})

RowOf(input, d) == IF d = input.source THEN input.own ELSE input.evidence[d]

Reported(input, excludeSource, field) ==
  [d \in Selected(input, excludeSource) |-> RowOf(input, d)[field]]

\* A repeated domain, an empty panel, an empty update and ragged updates raise.
Malformed(input, N) ==
  \/ N \intersect (input.repeated \ {input.source}) # {}
  \/ N = {}
  \/ \E d \in N : RowOf(input, d).update = <<>>
  \/ \E d, e \in N : DOMAIN RowOf(input, d).update # DOMAIN RowOf(input, e).update

\* Mutant: the whole panel is the only coalition.
NoFaultsExpected(worstCase) == 0

EffectiveFaultBound(worstCase) == IF worstCase THEN FaultBound ELSE 0

SupportIsSufficient(N, f) == Cardinality(N) >= MinimumSupport /\ Cardinality(N) >= 2 * f + 1

Coalitions(N, f) == {C \in SUBSET N : Cardinality(C) = Cardinality(N) - f}

\* A coalition's utility, times its size: the ablation's mean stays whole.
CoalitionUtility(utility, C, lowerMedian) ==
  IF lowerMedian THEN Cardinality(C) * LowerMedian(utility, C) ELSE SumOver(utility, C)

\* Mutant: the best coalition decides.
BestUtility(utility, coalitions, lowerMedian) ==
  Greatest({CoalitionUtility(utility, C, lowerMedian) : C \in coalitions})

CertificateUtility(utility, coalitions, lowerMedian) ==
  Least({CoalitionUtility(utility, C, lowerMedian) : C \in coalitions})

CertificateHarm(harm, coalitions) == Greatest({UpperMedian(harm, C) : C \in coalitions})

ThresholdsPass(utility, harm, size) == utility >= size * UtilityFloor /\ harm <= HarmCeiling

(* The production and the shares in it.                                     *)

Axes(input, N) == DOMAIN RowOf(input, CHOOSE d \in N : TRUE).update

\* A coalition's mean, times its size.
Mean(input, N, C) ==
  [a \in Axes(input, N) |-> SumOver([d \in C |-> RowOf(input, d).update[a]], C)]

\* What the distances to a geometric median can be: equal means are equally far,
\* at most one place is the point itself, and a single place always is.
Betas(input, N, coalitions, values) ==
  LET means == [C \in coalitions |-> Mean(input, N, C)]
      places == {means[C] : C \in coalitions}
      atPlace == {near \in [places -> values] :
                    /\ Cardinality({p \in places : near[p] = 0}) <= 1
                    /\ Cardinality(places) = 1 => \A p \in places : near[p] = 0}
  IN {[C \in coalitions |-> near[means[C]]] : near \in atPlace}

Distance(left, right) ==
  SumOver([a \in DOMAIN left |-> (left[a] - right[a]) * (left[a] - right[a])], DOMAIN left)

KrumIsAdmissible(N) == Cardinality(N) >= 2 * FaultBound + 3

\* The sum of the distances to the nearest other rows; domains break ties.
KrumScore(update, N, d) ==
  LET away == [e \in N \ {d} |-> Distance(update[d], update[e])]
      neighbors == {K \in SUBSET (N \ {d}) :
                      Cardinality(K) = Cardinality(N) - FaultBound - 2}
  IN Least({SumOver(away, K) : K \in neighbors})

KrumRanks(update, N) ==
  LET score == [d \in N |-> KrumScore(update, N, d)]
  IN [d \in N |-> Cardinality({e \in N : \/ score[e] < score[d]
                                         \/ score[e] = score[d] /\ e < d})]

SelectKrum(update, N) ==
  LET rank == KrumRanks(update, N) IN CHOOSE d \in N : rank[d] = 0

\* One row is everything: the first that matches the production.
OneHotShares(update, N, production) ==
  LET first == Least({d \in N : update[d] = production})
  IN [d \in N |-> IF d = first THEN 1 ELSE 0]

\* Mutant: coefficients that are all zero stay so.
RawShares(N, beta) == [d \in N |-> SumOver(beta, {C \in DOMAIN beta : d \in C})]

\* The coefficients of the coalitions, handed to their members.
CoalitionShares(N, beta) ==
  LET used == IF \A C \in DOMAIN beta : beta[C] = 0 THEN [C \in DOMAIN beta |-> 1] ELSE beta
  IN [d \in N |-> SumOver(used, {C \in DOMAIN used : d \in C})]

\* The production is a point times some size; shares are not normalised.
Decision(state, utility, harm, production, over, sourceShare, shares) ==
  [state |-> state, utility |-> utility, harm |-> harm, production |-> production,
   over |-> over, sourceShare |-> sourceShare, shares |-> shares]

Closed(state, utility, harm) == Decision(state, utility, harm, Absent, 1, 0, <<>>)

Admitted(input, excludeSource, utility, harm, production, over, shares) ==
  Decision("ADMITTED", utility, harm, {production}, over,
           IF excludeSource THEN 0 ELSE shares[input.source], shares)

\* A point that is no coalition's mean.
Elsewhere == <<>>

PointOf(input, N, beta) ==
  IF \E C \in DOMAIN beta : beta[C] = 0
  THEN Mean(input, N, CHOOSE C \in DOMAIN beta : beta[C] = 0)
  ELSE Elsewhere

\* What an accepted panel gets, for every choice of the geometric median.
Productions(input, method, N, f, utility, harm, values) ==
  LET on == SwitchesFor(method)
      update == Reported(input, on.excludeSource, "update")
      krum == update[SelectKrum(update, N)]
  IN IF on.geometricMedian
     THEN {Admitted(input, on.excludeSource, utility, harm, PointOf(input, N, beta),
                    Cardinality(N) - f, CoalitionShares(N, beta)) :
             beta \in Betas(input, N, Coalitions(N, f), values)}
     ELSE IF ~ KrumIsAdmissible(N) THEN {Closed("DORMANT", utility, harm)}
     ELSE {Admitted(input, on.excludeSource, utility, harm, krum, 1,
                    OneHotShares(update, N, krum))}

\* The decision of decide_leave_fault_certificate.
Decide(input, method, values) ==
  LET on == SwitchesFor(method)
      N == Selected(input, on.excludeSource)
      f == EffectiveFaultBound(on.worstCase)
      utility == CertificateUtility(Reported(input, on.excludeSource, "utility"),
                                    Coalitions(N, f), on.lowerMedian)
      harm == CertificateHarm(Reported(input, on.excludeSource, "harm"), Coalitions(N, f))
  IN IF Malformed(input, N) THEN {Closed("FAILED", Absent, Absent)}
     ELSE IF ~ SupportIsSufficient(N, f) THEN {Closed("DORMANT", Absent, Absent)}
     ELSE IF ~ ThresholdsPass(utility, harm, Cardinality(N) - f)
     THEN {Closed("REJECTED", {utility}, {harm})}
     ELSE Productions(input, method, N, f, {utility}, {harm}, values)
=============================================================================
