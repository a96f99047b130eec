--------------------------- MODULE LeaveFaultProofs ---------------------------
(***************************************************************************)
(* What the leave-fault certificate promises for any fault bound, floor,   *)
(* ceiling, panel and domains.                                             *)
(*                                                                         *)
(* The core is a count.  A worst coalition at the floor bounds how many    *)
(* reports of the whole panel lie below it, because some coalition keeps   *)
(* all of them; the same count decides the medians of any holders that     *)
(* remain when f of them are left out.                                     *)
(***************************************************************************)
EXTENDS LeaveFaultValidation, FiniteSetTheorems, WellFoundedInduction, TLAPS

-----------------------------------------------------------------------------
(* Least and greatest                                                      *)

LEMMA LeastOf ==
  ASSUME NEW S, IsFiniteSet(S), S # {}, NEW value, \A x \in S : value[x] \in Int
  PROVE  \E x \in S : \A y \in S : value[x] <= value[y]
<1> DEFINE Under(x) == {y \in S : value[y] <= value[x]}
<1> DEFINE U == {Under(x) : x \in S}
<1>1. U # {} /\ U \subseteq FiniteSubsetsOf(S)
  <2>1. ASSUME NEW x \in S PROVE Under(x) \in FiniteSubsetsOf(S)
    <3>1. Under(x) \in SUBSET S
      OBVIOUS
    <3> QED BY <3>1, FS_Subset DEF FiniteSubsetsOf
  <2> QED BY <2>1
<1>2. \E u \in U : \A v \in U : ~ (<<v, u>> \in StrictSubsetOrdering(S))
  BY <1>1, FS_StrictSubsetOrderingWellFounded, WFMin
<1>3. PICK x \in S : \A y \in S : ~ (<<Under(y), Under(x)>> \in StrictSubsetOrdering(S))
  BY <1>2
<1>4. ASSUME NEW y \in S, value[y] < value[x] PROVE FALSE
  <2>1. Under(y) \subseteq Under(x) /\ x \in Under(x) /\ x \notin Under(y)
    BY <1>4
  <2>2. <<Under(y), Under(x)>> \in StrictSubsetOrdering(S)
    BY <2>1 DEF StrictSubsetOrdering
  <2> QED BY <2>2, <1>3
<1> QED BY <1>4

LEMMA GreatestOf ==
  ASSUME NEW S, IsFiniteSet(S), S # {}, NEW value, \A x \in S : value[x] \in Int
  PROVE  \E x \in S : \A y \in S : value[y] <= value[x]
<1> DEFINE below == [x \in S |-> -value[x]]
<1>1. \A x \in S : below[x] \in Int
  OBVIOUS
<1>2. PICK x \in S : \A y \in S : below[x] <= below[y]
  <2> HIDE DEF below
  <2> QED BY <1>1, LeastOf
<1>3. ASSUME NEW y \in S PROVE value[y] <= value[x]
  <2>1. below[x] <= below[y] /\ below[x] = -value[x] /\ below[y] = -value[y]
    BY <1>2
  <2> QED BY <2>1
<1> QED BY <1>3

-----------------------------------------------------------------------------
(* Order statistics                                                        *)

\* The value at index j has at most j smaller ones before it, and with it more
\* than j that are no greater.
LEMMA RankedAtCounts ==
  ASSUME NEW C, IsFiniteSet(C), NEW value, \A d \in C : value[d] \in Int,
         NEW j \in Nat, j < Cardinality(C)
  PROVE  LET v == RankedAt(value, C, j)
         IN  /\ v \in Int
             /\ Cardinality({d \in C : value[d] < v}) <= j
             /\ j < Cardinality({d \in C : value[d] <= v})
<1> DEFINE Upto(d) == {e \in C : value[e] <= value[d]}
<1> DEFINE Before(d) == {e \in C : value[e] < value[d]}
<1> DEFINE W == {d \in C : j < Cardinality(Upto(d))}
<1>0. /\ \A d \in C : Cardinality(Upto(d)) \in Nat /\ Cardinality(Before(d)) \in Nat
      /\ C # {}
  BY FS_Subset, FS_CardinalityType, FS_EmptySet
<1>1. W # {}
  <2>1. PICK d \in C : \A e \in C : value[e] <= value[d]
    BY <1>0, GreatestOf
  <2>2. Upto(d) = C
    BY <2>1
  <2> QED BY <2>2
<1>2. IsFiniteSet(W) /\ \A d \in W : value[d] \in Int
  BY FS_Subset
<1>3. PICK d \in W : \A e \in W : value[d] <= value[e]
  <2> HIDE DEF W
  <2> QED BY <1>1, <1>2, LeastOf
<1>4. Cardinality(Before(d)) <= j
  <2>1. CASE Before(d) = {}
    BY <2>1, FS_EmptySet
  <2>2. CASE Before(d) # {}
    <3>1. IsFiniteSet(Before(d)) /\ \A e \in Before(d) : value[e] \in Int
      BY FS_Subset
    <3>2. PICK e \in Before(d) : \A x \in Before(d) : value[x] <= value[e]
      <4> HIDE DEF Before
      <4> QED BY <3>1, <2>2, GreatestOf
    <3>3. Upto(e) = Before(d)
      <4>1. \A x \in C : value[x] <= value[e] => value[x] < value[d]
        <5>1. value[e] < value[d] /\ value[e] \in Int /\ value[d] \in Int
          OBVIOUS
        <5> QED BY <5>1
      <4>2. \A x \in Before(d) : value[x] <= value[e]
        BY <3>2
      <4> QED BY <4>1, <4>2
    <3>4. e \notin W
      <4>1. value[e] < value[d] /\ value[e] \in Int /\ value[d] \in Int
        OBVIOUS
      <4> QED BY <4>1, <1>3
    <3>5. ~ (j < Cardinality(Upto(e))) /\ Cardinality(Upto(e)) \in Nat
      BY <3>4, <1>0
    <3> QED BY <3>3, <3>5
  <2> QED BY <2>1, <2>2
<1>5. \E v \in {value[e] : e \in C} :
        /\ Cardinality({e \in C : value[e] < v}) <= j
        /\ j < Cardinality({e \in C : value[e] <= v})
  BY <1>4
<1>6. \A v \in {value[e] : e \in C} : v \in Int
  OBVIOUS
<1> HIDE DEF Upto, Before, W
<1> QED BY <1>5, <1>6 DEF RankedAt

\* A median at or above a bar has few values below the bar, and the other way round.
LEMMA LowerMedianClears ==
  ASSUME NEW C, IsFiniteSet(C), C # {}, NEW value, \A d \in C : value[d] \in Int, NEW bar \in Int
  PROVE  /\ LowerMedian(value, C) \in Int
         /\ LowerMedian(value, C) >= bar <=>
              Cardinality({d \in C : value[d] < bar}) <= (Cardinality(C) - 1) \div 2
<1> DEFINE j == (Cardinality(C) - 1) \div 2
<1> DEFINE v == LowerMedian(value, C)
<1> DEFINE under == {d \in C : value[d] < bar}
<1>1. Cardinality(C) \in Nat /\ Cardinality(C) > 0
  BY FS_CardinalityType, FS_EmptySet
<1>2. j \in Nat /\ j < Cardinality(C)
  BY <1>1
<1>3. /\ v \in Int
      /\ Cardinality({d \in C : value[d] < v}) <= j
      /\ j < Cardinality({d \in C : value[d] <= v})
  <2> HIDE DEF j
  <2>1. v = RankedAt(value, C, j)
    BY DEF LowerMedian, j
  <2> QED BY <1>2, <2>1, RankedAtCounts
<1>4. ASSUME v >= bar PROVE Cardinality(under) <= j
  <2>1. under \subseteq {d \in C : value[d] < v}
    BY <1>3, <1>4
  <2>2. /\ IsFiniteSet({d \in C : value[d] < v})
        /\ Cardinality({d \in C : value[d] < v}) \in Nat
    BY FS_Subset, FS_CardinalityType
  <2>3. Cardinality(under) <= Cardinality({d \in C : value[d] < v}) /\ Cardinality(under) \in Nat
    BY <2>1, <2>2, FS_Subset, FS_CardinalityType
  <2> HIDE DEF under, v, j
  <2> QED BY <2>2, <2>3, <1>3, <1>2
<1>5. ASSUME Cardinality(under) <= j, ~ (v >= bar) PROVE FALSE
  <2>1. {d \in C : value[d] <= v} \subseteq under
    BY <1>3, <1>5
  <2>2. IsFiniteSet(under) /\ Cardinality(under) \in Nat
    BY FS_Subset, FS_CardinalityType
  <2>3. /\ Cardinality({d \in C : value[d] <= v}) <= Cardinality(under)
        /\ Cardinality({d \in C : value[d] <= v}) \in Nat
    BY <2>1, <2>2, FS_Subset, FS_CardinalityType
  <2> HIDE DEF under, v, j
  <2> QED BY <2>2, <2>3, <1>3, <1>2, <1>5
<1> QED BY <1>3, <1>4, <1>5

LEMMA UpperMedianClears ==
  ASSUME NEW C, IsFiniteSet(C), C # {}, NEW value, \A d \in C : value[d] \in Int, NEW bar \in Int
  PROVE  /\ UpperMedian(value, C) \in Int
         /\ UpperMedian(value, C) <= bar <=>
              Cardinality({d \in C : value[d] > bar}) <= (Cardinality(C) - 1) \div 2
<1> DEFINE j == Cardinality(C) \div 2
<1> DEFINE v == UpperMedian(value, C)
<1> DEFINE over == {d \in C : value[d] > bar}
<1> DEFINE within == {d \in C : value[d] <= bar}
<1>1. Cardinality(C) \in Nat /\ Cardinality(C) > 0
  BY FS_CardinalityType, FS_EmptySet
<1>2. j \in Nat /\ j < Cardinality(C)
  BY <1>1
<1>3. /\ v \in Int
      /\ Cardinality({d \in C : value[d] < v}) <= j
      /\ j < Cardinality({d \in C : value[d] <= v})
  <2> HIDE DEF j
  <2>1. v = RankedAt(value, C, j)
    BY DEF UpperMedian, j
  <2> QED BY <1>2, <2>1, RankedAtCounts
<1>4. /\ Cardinality(over) \in Nat /\ Cardinality(within) \in Nat
      /\ Cardinality(over) + Cardinality(within) = Cardinality(C)
  <2>1. C \ over = within /\ C \intersect over = over
    OBVIOUS
  <2>2. Cardinality(C \ over) = Cardinality(C) - Cardinality(C \intersect over)
    BY FS_Difference
  <2>3. Cardinality(over) \in Nat /\ Cardinality(within) \in Nat
    BY FS_Subset, FS_CardinalityType
  <2>4. Cardinality(within) = Cardinality(C) - Cardinality(over)
    <3> HIDE DEF over, within
    <3> QED BY <2>1, <2>2
  <2> HIDE DEF over, within
  <2> QED BY <2>3, <2>4, <1>1
<1>5. ASSUME v <= bar PROVE j < Cardinality(within)
  <2>1. {d \in C : value[d] <= v} \subseteq within
    BY <1>3, <1>5
  <2>2. IsFiniteSet(within)
    BY FS_Subset
  <2>3. /\ Cardinality({d \in C : value[d] <= v}) <= Cardinality(within)
        /\ Cardinality({d \in C : value[d] <= v}) \in Nat
    BY <2>1, <2>2, FS_Subset, FS_CardinalityType
  <2> HIDE DEF within, v, j
  <2> QED BY <2>3, <1>3, <1>2, <1>4
<1>6. ASSUME ~ (v <= bar) PROVE Cardinality(within) <= j
  <2>1. within \subseteq {d \in C : value[d] < v}
    BY <1>3, <1>6
  <2>2. /\ IsFiniteSet({d \in C : value[d] < v})
        /\ Cardinality({d \in C : value[d] < v}) \in Nat
    BY FS_Subset, FS_CardinalityType
  <2>3. Cardinality(within) <= Cardinality({d \in C : value[d] < v})
    BY <2>1, <2>2, FS_Subset
  <2> HIDE DEF within, v, j
  <2> QED BY <2>2, <2>3, <1>3, <1>2, <1>4
<1>7. v <= bar <=> j < Cardinality(within)
  <2> HIDE DEF within, v, j
  <2> QED BY <1>2, <1>4, <1>5, <1>6
<1>8. j < Cardinality(within) <=> Cardinality(over) <= (Cardinality(C) - 1) \div 2
  <2> HIDE DEF within, over
  <2> QED BY <1>1, <1>4
<1> QED BY <1>3, <1>7, <1>8

-----------------------------------------------------------------------------
(* Coalitions                                                              *)

\* A finite set has subsets of every size up to its own.
LEMMA SubsetOfSize ==
  ASSUME NEW S, IsFiniteSet(S), NEW k \in Nat, k <= Cardinality(S)
  PROVE  \E T \in SUBSET S : Cardinality(T) = k
<1>1. PICK f \in Bijection(1..Cardinality(S), S) : TRUE
  BY FS_CardinalityType DEF ExistsBijection
<1> DEFINE T == {f[i] : i \in 1..k}
<1>2. Cardinality(S) \in Nat
  BY FS_CardinalityType
<1>3. /\ f \in [1..Cardinality(S) -> S]
      /\ \A i, j \in 1..Cardinality(S) : f[i] = f[j] => i = j
  BY <1>1 DEF Bijection, Injection, Surjection, IsInjective
<1>4. 1..k \subseteq 1..Cardinality(S)
  BY <1>2
<1>5. T \subseteq S
  BY <1>3, <1>4
<1>6. [i \in 1..k |-> f[i]] \in Bijection(1..k, T)
  BY <1>3, <1>4 DEF Bijection, Injection, Surjection, IsInjective
<1>7. IsFiniteSet(1..k) /\ Cardinality(1..k) = k
  BY FS_Interval
<1>8. Cardinality(T) = k
  <2> HIDE DEF T
  <2> QED BY <1>6, <1>7, FS_Bijection DEF ExistsBijection
<1> QED BY <1>5, <1>8

\* Any part of a panel either fits in a coalition or fills one.
LEMMA CoalitionAround ==
  ASSUME NEW N, IsFiniteSet(N), NEW f \in Nat, f <= Cardinality(N), NEW part \in SUBSET N
  PROVE  \E C \in Coalitions(N, f) : part \subseteq C \/ C \subseteq part
<1> DEFINE k == Cardinality(N) - f
<1>1. /\ IsFiniteSet(part) /\ Cardinality(part) \in Nat /\ Cardinality(N) \in Nat /\ k \in Nat
      /\ Cardinality(part) <= Cardinality(N)
  BY FS_Subset, FS_CardinalityType
<1>2. CASE k <= Cardinality(part)
  <2>1. PICK T \in SUBSET part : Cardinality(T) = k
    <3> HIDE DEF k
    <3> QED BY <1>1, <1>2, SubsetOfSize
  <2> QED BY <2>1 DEF Coalitions
<1>3. CASE Cardinality(part) < k
  <2>1. IsFiniteSet(N \ part) /\ Cardinality(N \ part) = Cardinality(N) - Cardinality(part)
    <3>1. N \intersect part = part
      OBVIOUS
    <3>2. Cardinality(N \ part) = Cardinality(N) - Cardinality(N \intersect part)
      BY FS_Difference
    <3> QED BY <3>1, <3>2, FS_Difference
  <2>2. PICK T \in SUBSET (N \ part) : Cardinality(T) = k - Cardinality(part)
    <3>1. k - Cardinality(part) \in Nat /\ k - Cardinality(part) <= Cardinality(N \ part)
      BY <1>1, <1>3, <2>1
    <3> HIDE DEF k
    <3> QED BY <2>1, <3>1, SubsetOfSize
  <2>3. IsFiniteSet(T) /\ part \intersect T = {}
    BY <2>1, FS_Subset
  <2>4. Cardinality(part \union T) = Cardinality(part) + Cardinality(T) - Cardinality(part \intersect T)
    BY <1>1, <2>3, FS_Union
  <2>5. Cardinality(part \union T) = k
    <3> HIDE DEF k
    <3> QED BY <1>1, <2>2, <2>3, <2>4, FS_EmptySet
  <2>6. part \union T \in SUBSET N
    OBVIOUS
  <2> QED BY <2>5, <2>6 DEF Coalitions
<1> QED BY <1>1, <1>2, <1>3

\* If every coalition has few members in a part, the whole panel has.
LEMMA FewEverywhere ==
  ASSUME NEW N, IsFiniteSet(N), NEW f \in Nat, f < Cardinality(N), NEW part \in SUBSET N,
         \A C \in Coalitions(N, f) :
           Cardinality(C \intersect part) <= (Cardinality(N) - f - 1) \div 2
  PROVE  Cardinality(part) <= (Cardinality(N) - f - 1) \div 2
<1>1. Cardinality(N) \in Nat
  BY FS_CardinalityType
<1>2. PICK C \in Coalitions(N, f) : part \subseteq C \/ C \subseteq part
  BY <1>1, CoalitionAround
<1>3. Cardinality(C) = Cardinality(N) - f
  BY DEF Coalitions
<1>4. CASE part \subseteq C
  <2>1. C \intersect part = part
    BY <1>4
  <2> QED BY <2>1
<1>5. CASE C \subseteq part
  <2>1. C \intersect part = C
    BY <1>5
  <2>2. Cardinality(C) <= (Cardinality(N) - f - 1) \div 2
    BY <2>1
  <2> QED BY <2>2, <1>1, <1>3
<1> QED BY <1>2, <1>4, <1>5

\* The coalitions of a panel are finitely many finite sets, and there is one.
LEMMA CoalitionsFinite ==
  ASSUME NEW N, IsFiniteSet(N), NEW f \in Nat, f < Cardinality(N)
  PROVE  /\ IsFiniteSet(Coalitions(N, f)) /\ Coalitions(N, f) # {}
         /\ \A C \in Coalitions(N, f) :
              C \subseteq N /\ IsFiniteSet(C) /\ C # {} /\ Cardinality(C) = Cardinality(N) - f
<1>1. Cardinality(N) \in Nat
  BY FS_CardinalityType
<1>2. IsFiniteSet(Coalitions(N, f))
  BY FS_SUBSET, FS_Subset DEF Coalitions
<1>3. Coalitions(N, f) # {}
  BY <1>1, CoalitionAround
<1>4. ASSUME NEW C \in Coalitions(N, f)
      PROVE  C \subseteq N /\ IsFiniteSet(C) /\ C # {} /\ Cardinality(C) = Cardinality(N) - f
  <2>1. C \subseteq N /\ Cardinality(C) = Cardinality(N) - f
    BY DEF Coalitions
  <2> QED BY <2>1, <1>1, FS_Subset, FS_EmptySet
<1> QED BY <1>2, <1>3, <1>4

\* The worst utility passes when every coalition's median does, and only then.
LEMMA WorstUtility ==
  ASSUME NEW N, IsFiniteSet(N), NEW f \in Nat, f < Cardinality(N),
         NEW value, \A d \in N : value[d] \in Int, NEW bar \in Int
  PROVE  CertificateUtility(value, Coalitions(N, f), TRUE) >= (Cardinality(N) - f) * bar
           <=> \A C \in Coalitions(N, f) : LowerMedian(value, C) >= bar
<1> DEFINE k == Cardinality(N) - f
<1> DEFINE median == [C \in Coalitions(N, f) |-> LowerMedian(value, C)]
<1> DEFINE worst == CertificateUtility(value, Coalitions(N, f), TRUE)
<1>1. k \in Nat /\ k > 0
  BY FS_CardinalityType
<1>2. \A C \in Coalitions(N, f) : median[C] \in Int /\ Cardinality(C) = k
  BY CoalitionsFinite, LowerMedianClears
<1>3. PICK C \in Coalitions(N, f) : \A D \in Coalitions(N, f) : median[C] <= median[D]
  <2> HIDE DEF median
  <2> QED BY <1>2, CoalitionsFinite, LeastOf
<1> DEFINE scaled == {CoalitionUtility(value, D, TRUE) : D \in Coalitions(N, f)}
<1>4. scaled = {k * median[D] : D \in Coalitions(N, f)}
  <2>1. \A D \in Coalitions(N, f) : CoalitionUtility(value, D, TRUE) = k * median[D]
    BY <1>2 DEF CoalitionUtility
  <2> QED BY <2>1
<1>5. \A D \in Coalitions(N, f) : k * median[C] <= k * median[D]
  <2> HIDE DEF k, median
  <2>1. \A a, b \in Int : a <= b => k * a <= k * b
    BY <1>1
  <2> QED BY <1>2, <1>3, <2>1
<1>6. worst = k * median[C]
  <2>1. k * median[C] \in scaled /\ \A y \in scaled : k * median[C] <= y
    BY <1>4, <1>5
  <2>2. \A y \in scaled : y \in Int
    <3> HIDE DEF k, median, scaled
    <3> QED BY <1>1, <1>2, <1>4
  <2>3. worst = Least(scaled)
    BY DEF CertificateUtility
  <2>4. k * median[C] \in Int
    BY <2>1, <2>2
  <2> HIDE DEF scaled, worst, k, median
  <2>5. Least(scaled) \in scaled /\ \A y \in scaled : Least(scaled) <= y
    BY <2>1 DEF Least
  <2>6. Least(scaled) \in Int /\ Least(scaled) <= k * median[C] /\ k * median[C] <= Least(scaled)
    BY <2>1, <2>2, <2>5
  <2> QED BY <2>3, <2>4, <2>6
<1>7. k * median[C] >= k * bar <=> median[C] >= bar
  <2> HIDE DEF k, median
  <2>1. median[C] \in Int
    BY <1>2
  <2>2. \A a, b \in Int : (a <= b => k * a <= k * b) /\ (a < b => k * a < k * b)
    BY <1>1
  <2> QED BY <1>1, <2>1, <2>2
<1>8. median[C] >= bar <=> \A D \in Coalitions(N, f) : median[D] >= bar
  <2> HIDE DEF median
  <2> QED BY <1>2, <1>3
<1> QED BY <1>6, <1>7, <1>8

LEMMA WorstHarm ==
  ASSUME NEW N, IsFiniteSet(N), NEW f \in Nat, f < Cardinality(N),
         NEW value, \A d \in N : value[d] \in Int, NEW bar \in Int
  PROVE  CertificateHarm(value, Coalitions(N, f)) <= bar
           <=> \A C \in Coalitions(N, f) : UpperMedian(value, C) <= bar
<1> DEFINE median == [C \in Coalitions(N, f) |-> UpperMedian(value, C)]
<1> DEFINE harms == {UpperMedian(value, D) : D \in Coalitions(N, f)}
<1>1. \A C \in Coalitions(N, f) : median[C] \in Int
  BY CoalitionsFinite, UpperMedianClears
<1>2. PICK C \in Coalitions(N, f) : \A D \in Coalitions(N, f) : median[D] <= median[C]
  <2> HIDE DEF median
  <2> QED BY <1>1, CoalitionsFinite, GreatestOf
<1>3. Greatest(harms) \in harms /\ \A y \in harms : y <= Greatest(harms)
  <2>1. median[C] \in harms /\ \A y \in harms : y <= median[C]
    BY <1>2
  <2> HIDE DEF harms, median
  <2> QED BY <2>1 DEF Greatest
<1>4. CertificateHarm(value, Coalitions(N, f)) = Greatest(harms)
  BY DEF CertificateHarm
<1>5. \A y \in harms : y \in Int
  BY <1>1
<1>6. Greatest(harms) <= bar <=> \A y \in harms : y <= bar
  <2> HIDE DEF harms
  <2> QED BY <1>3, <1>5
<1> QED BY <1>4, <1>6

-----------------------------------------------------------------------------
(* Decisions                                                               *)

\* The full certificate and its ablation of the production judge alike.
Judging == {"LEAVE_FAULT_CERTIFICATE", "WITHOUT_GEOMETRIC_MEDIAN"}

LEMMA JudgingSwitches ==
  ASSUME NEW method \in Judging
  PROVE  /\ SwitchesFor(method).excludeSource = TRUE
         /\ SwitchesFor(method).worstCase = TRUE
         /\ SwitchesFor(method).lowerMedian = TRUE
BY DEF Judging, SwitchesFor, Full

\* What is known of the holders that take part.
LEMMA PanelNumbers ==
  ASSUME NEW input, IsAdmissionInput(input)
  PROVE  LET N == Selected(input, TRUE)
         IN  /\ IsFiniteSet(N) /\ Cardinality(N) \in Nat
             /\ \A d \in N : /\ Reported(input, TRUE, "utility")[d] \in Int
                             /\ Reported(input, TRUE, "harm")[d] \in Int
                             /\ Reported(input, TRUE, "utility")[d] = RowOf(input, d).utility
                             /\ Reported(input, TRUE, "harm")[d] = RowOf(input, d).harm
<1> DEFINE N == Selected(input, TRUE)
<1>1. N = DOMAIN input.evidence \ {input.source}
  BY DEF Selected, Independent
<1>2. IsFiniteSet(N) /\ Cardinality(N) \in Nat
  BY <1>1, FS_Subset, FS_CardinalityType DEF IsAdmissionInput
<1>3. ASSUME NEW d \in N
      PROVE  /\ Reported(input, TRUE, "utility")[d] \in Int
             /\ Reported(input, TRUE, "harm")[d] \in Int
             /\ Reported(input, TRUE, "utility")[d] = RowOf(input, d).utility
             /\ Reported(input, TRUE, "harm")[d] = RowOf(input, d).harm
  BY <1>1, <1>3 DEF Reported, RowOf, IsAdmissionInput
<1> QED BY <1>2, <1>3

\* An admission and a rejection say that the thresholds were and were not passed.
LEMMA VerdictOfDecide ==
  ASSUME NEW input, NEW method \in Judging, NEW values,
         NEW outcome \in Decide(input, method, values)
  PROVE  LET N == Selected(input, TRUE)
             passes == ThresholdsPass(
               CertificateUtility(Reported(input, TRUE, "utility"), Coalitions(N, FaultBound), TRUE),
               CertificateHarm(Reported(input, TRUE, "harm"), Coalitions(N, FaultBound)),
               Cardinality(N) - FaultBound)
         IN  /\ outcome.state = "ADMITTED" => SupportIsSufficient(N, FaultBound) /\ passes
             /\ outcome.state = "REJECTED" => SupportIsSufficient(N, FaultBound) /\ ~ passes
<1> DEFINE N == Selected(input, TRUE)
<1> DEFINE f == FaultBound
<1> DEFINE utility == CertificateUtility(Reported(input, TRUE, "utility"), Coalitions(N, f), TRUE)
<1> DEFINE harm == CertificateHarm(Reported(input, TRUE, "harm"), Coalitions(N, f))
<1> DEFINE passes == ThresholdsPass(utility, harm, Cardinality(N) - f)
<1>1. Decide(input, method, values) =
        IF Malformed(input, N) THEN {Closed("FAILED", Absent, Absent)}
        ELSE IF ~ SupportIsSufficient(N, f) THEN {Closed("DORMANT", Absent, Absent)}
        ELSE IF ~ passes THEN {Closed("REJECTED", {utility}, {harm})}
        ELSE Productions(input, method, N, f, {utility}, {harm}, values)
  BY JudgingSwitches DEF Decide, EffectiveFaultBound
<1>2. \A o \in Productions(input, method, N, f, {utility}, {harm}, values) :
        o.state \in {"ADMITTED", "DORMANT"}
  <2> HIDE DEF N, f, utility, harm
  <2> QED BY DEF Productions, Admitted, Closed, Decision
<1>3. \A state, u, h : Closed(state, u, h).state = state
  BY DEF Closed, Decision
<1> HIDE DEF N, f, utility, harm, passes
<1>4. /\ outcome.state = "ADMITTED" => SupportIsSufficient(N, f) /\ passes
      /\ outcome.state = "REJECTED" => SupportIsSufficient(N, f) /\ ~ passes
  <2>1. CASE Malformed(input, N)
    <3>1. outcome = Closed("FAILED", Absent, Absent)
      BY <1>1, <2>1
    <3> QED BY <3>1, <1>3
  <2>2. CASE ~ Malformed(input, N) /\ ~ SupportIsSufficient(N, f)
    <3>1. outcome = Closed("DORMANT", Absent, Absent)
      BY <1>1, <2>2
    <3> QED BY <3>1, <1>3
  <2>3. CASE ~ Malformed(input, N) /\ SupportIsSufficient(N, f) /\ ~ passes
    <3>1. outcome = Closed("REJECTED", {utility}, {harm})
      BY <1>1, <2>3
    <3> QED BY <3>1, <1>3, <2>3
  <2>4. CASE ~ Malformed(input, N) /\ SupportIsSufficient(N, f) /\ passes
    <3>1. outcome \in Productions(input, method, N, f, {utility}, {harm}, values)
      BY <1>1, <2>4
    <3>2. outcome.state \in {"ADMITTED", "DORMANT"}
      BY <3>1, <1>2
    <3> QED BY <3>2, <2>4
  <2> QED BY <2>1, <2>2, <2>3, <2>4
<1> QED BY <1>4 DEF N, f, utility, harm, passes

\* Few reports miss a bar among all, so few do among those that remain.
LEMMA RemainingClear ==
  ASSUME NEW N, IsFiniteSet(N), 2 * FaultBound + 1 <= Cardinality(N),
         NEW part \in SUBSET N, Cardinality(part) <= (Cardinality(N) - FaultBound - 1) \div 2,
         NEW faulty \in SUBSET N, Cardinality(faulty) <= FaultBound
  PROVE  LET H == N \ faulty
         IN  /\ IsFiniteSet(H) /\ H # {}
             /\ Cardinality({d \in H : d \in part}) <= (Cardinality(H) - 1) \div 2
<1> DEFINE H == N \ faulty
<1> DEFINE left == {d \in H : d \in part}
<1>1. /\ Cardinality(N) \in Nat /\ FaultBound \in Nat
      /\ IsFiniteSet(faulty) /\ Cardinality(faulty) \in Nat
      /\ IsFiniteSet(part) /\ Cardinality(part) \in Nat
  BY CertificateAssumption, FS_CardinalityType, FS_Subset DEF CertificateAssumption
<1>2. IsFiniteSet(H) /\ Cardinality(H) = Cardinality(N) - Cardinality(faulty)
  <2>1. N \intersect faulty = faulty
    OBVIOUS
  <2>2. IsFiniteSet(H) /\ Cardinality(H) = Cardinality(N) - Cardinality(N \intersect faulty)
    BY FS_Difference
  <2> QED BY <2>1, <2>2
<1>3. Cardinality(left) \in Nat /\ Cardinality(left) <= Cardinality(part)
  <2>1. left \in SUBSET part
    OBVIOUS
  <2> QED BY <1>1, <2>1, FS_Subset, FS_CardinalityType
<1>4. Cardinality(H) >= Cardinality(N) - FaultBound /\ Cardinality(H) \in Nat
      /\ Cardinality(H) > 0
  <2> HIDE DEF H
  <2> QED BY <1>1, <1>2
<1>5. H # {}
  <2> HIDE DEF H
  <2> QED BY <1>4, FS_EmptySet
<1>6. Cardinality(left) <= (Cardinality(H) - 1) \div 2
  <2> HIDE DEF H, left
  <2> QED BY <1>1, <1>3, <1>4
<1> QED BY <1>2, <1>5, <1>6

\* Every panel whose worst coalition passes leaves passing medians behind,
\* whichever f holders are left out: decide_leave_fault_certificate's promise.
THEOREM WorstCoalitionCoversFaults ==
  ASSUME NEW input, IsAdmissionInput(input), NEW method \in Judging, NEW values,
         NEW outcome \in Decide(input, method, values), outcome.state = "ADMITTED",
         NEW faulty \in SUBSET Selected(input, TRUE), Cardinality(faulty) <= FaultBound
  PROVE  LET H == Selected(input, TRUE) \ faulty
         IN  /\ LowerMedian(Reported(input, TRUE, "utility"), H) >= UtilityFloor
             /\ UpperMedian(Reported(input, TRUE, "harm"), H) <= HarmCeiling
<1> DEFINE N == Selected(input, TRUE)
<1> DEFINE utility == Reported(input, TRUE, "utility")
<1> DEFINE harm == Reported(input, TRUE, "harm")
<1> DEFINE H == N \ faulty
<1> DEFINE coalitions == Coalitions(N, FaultBound)
<1> DEFINE low == {d \in N : utility[d] < UtilityFloor}
<1> DEFINE harmful == {d \in N : harm[d] > HarmCeiling}
<1>1. /\ IsFiniteSet(N) /\ Cardinality(N) \in Nat
      /\ \A d \in N : utility[d] \in Int /\ harm[d] \in Int
  BY PanelNumbers
<1>2. FaultBound \in Nat /\ UtilityFloor \in Int /\ HarmCeiling \in Int
  BY CertificateAssumption DEF CertificateAssumption
<1>3. /\ SupportIsSufficient(N, FaultBound)
      /\ ThresholdsPass(CertificateUtility(utility, coalitions, TRUE),
                        CertificateHarm(harm, coalitions), Cardinality(N) - FaultBound)
  BY VerdictOfDecide
<1>4. 2 * FaultBound + 1 <= Cardinality(N) /\ FaultBound < Cardinality(N)
  <2> HIDE DEF N
  <2> QED BY <1>1, <1>2, <1>3 DEF SupportIsSufficient
<1> HIDE DEF N, utility, harm
<1>5. /\ \A C \in coalitions : LowerMedian(utility, C) >= UtilityFloor
      /\ \A C \in coalitions : UpperMedian(harm, C) <= HarmCeiling
  BY <1>1, <1>2, <1>3, <1>4, WorstUtility, WorstHarm DEF ThresholdsPass
<1>6. ASSUME NEW C \in coalitions
      PROVE  /\ Cardinality(C \intersect low) <= (Cardinality(N) - FaultBound - 1) \div 2
             /\ Cardinality(C \intersect harmful) <= (Cardinality(N) - FaultBound - 1) \div 2
  <2>1. C \subseteq N /\ IsFiniteSet(C) /\ C # {} /\ Cardinality(C) = Cardinality(N) - FaultBound
    BY <1>1, <1>2, <1>4, CoalitionsFinite
  <2>2. /\ C \intersect low = {d \in C : utility[d] < UtilityFloor}
        /\ C \intersect harmful = {d \in C : harm[d] > HarmCeiling}
    BY <2>1
  <2>3. Cardinality({d \in C : utility[d] < UtilityFloor}) <= (Cardinality(C) - 1) \div 2
    BY <1>1, <1>2, <1>5, <2>1, LowerMedianClears
  <2>4. Cardinality({d \in C : harm[d] > HarmCeiling}) <= (Cardinality(C) - 1) \div 2
    BY <1>1, <1>2, <1>5, <2>1, UpperMedianClears
  <2> HIDE DEF low, harmful
  <2> QED BY <2>1, <2>2, <2>3, <2>4
<1>7. /\ Cardinality(low) <= (Cardinality(N) - FaultBound - 1) \div 2
      /\ Cardinality(harmful) <= (Cardinality(N) - FaultBound - 1) \div 2
  <2>1. low \in SUBSET N /\ harmful \in SUBSET N
    OBVIOUS
  <2> HIDE DEF low, harmful
  <2> QED BY <1>1, <1>2, <1>4, <1>6, <2>1, FewEverywhere
<1>8. /\ IsFiniteSet(H) /\ H # {}
      /\ Cardinality({d \in H : d \in low}) <= (Cardinality(H) - 1) \div 2
      /\ Cardinality({d \in H : d \in harmful}) <= (Cardinality(H) - 1) \div 2
  <2>1. low \in SUBSET N /\ harmful \in SUBSET N /\ faulty \in SUBSET N
    BY DEF N
  <2> HIDE DEF low, harmful
  <2> QED BY <1>1, <1>4, <1>7, <2>1, RemainingClear
<1>9. /\ {d \in H : d \in low} = {d \in H : utility[d] < UtilityFloor}
      /\ {d \in H : d \in harmful} = {d \in H : harm[d] > HarmCeiling}
      /\ \A d \in H : utility[d] \in Int /\ harm[d] \in Int
  BY <1>1
<1> HIDE DEF H, low, harmful
<1>10. LowerMedian(utility, H) >= UtilityFloor /\ UpperMedian(harm, H) <= HarmCeiling
  BY <1>2, <1>8, <1>9, LowerMedianClears, UpperMedianClears
<1> QED BY <1>10 DEF H, N, utility, harm

\* Where all but f of more than 3f holders vouch, no coalition can refuse.
THEOREM VouchedIsNotRejected ==
  ASSUME NEW input, IsAdmissionInput(input), NEW method \in Judging, NEW values,
         NEW outcome \in Decide(input, method, values),
         Cardinality(Selected(input, TRUE)) >= 3 * FaultBound + 1,
         Cardinality({d \in Selected(input, TRUE) :
                        ~ (/\ RowOf(input, d).utility >= UtilityFloor
                           /\ RowOf(input, d).harm <= HarmCeiling)}) <= FaultBound
  PROVE  outcome.state # "REJECTED"
<1> DEFINE N == Selected(input, TRUE)
<1> DEFINE utility == Reported(input, TRUE, "utility")
<1> DEFINE harm == Reported(input, TRUE, "harm")
<1> DEFINE coalitions == Coalitions(N, FaultBound)
<1> DEFINE doubting == {d \in N : ~ (/\ RowOf(input, d).utility >= UtilityFloor
                                     /\ RowOf(input, d).harm <= HarmCeiling)}
<1>1. /\ IsFiniteSet(N) /\ Cardinality(N) \in Nat
      /\ \A d \in N : utility[d] \in Int /\ harm[d] \in Int
      /\ \A d \in N : utility[d] = RowOf(input, d).utility /\ harm[d] = RowOf(input, d).harm
  BY PanelNumbers
<1>2. FaultBound \in Nat /\ UtilityFloor \in Int /\ HarmCeiling \in Int
  BY CertificateAssumption DEF CertificateAssumption
<1>3. /\ FaultBound < Cardinality(N)
      /\ FaultBound <= (Cardinality(N) - FaultBound - 1) \div 2
  <2>1. Cardinality(N) >= 3 * FaultBound + 1
    OBVIOUS
  <2> HIDE DEF N
  <2> QED BY <1>1, <1>2, <2>1
<1>4. doubting = {d \in N : utility[d] < UtilityFloor \/ harm[d] > HarmCeiling}
  <2>1. \A d \in N : ~ (utility[d] >= UtilityFloor /\ harm[d] <= HarmCeiling)
                      <=> (utility[d] < UtilityFloor \/ harm[d] > HarmCeiling)
    <3> HIDE DEF utility, harm, N
    <3> QED BY <1>1, <1>2
  <2> HIDE DEF utility, harm
  <2> QED BY <1>1, <2>1
<1>5. Cardinality(doubting) <= FaultBound
  OBVIOUS
<1> HIDE DEF doubting, utility, harm
<1>6. ASSUME NEW C \in coalitions
      PROVE  LowerMedian(utility, C) >= UtilityFloor /\ UpperMedian(harm, C) <= HarmCeiling
  <2> HIDE DEF N
  <2>1. C \subseteq N /\ IsFiniteSet(C) /\ C # {} /\ Cardinality(C) = Cardinality(N) - FaultBound
    BY <1>1, <1>2, <1>3, CoalitionsFinite
  <2> DEFINE low == {d \in C : utility[d] < UtilityFloor}
  <2> DEFINE harmful == {d \in C : harm[d] > HarmCeiling}
  <2>2. low \subseteq doubting /\ harmful \subseteq doubting /\ IsFiniteSet(doubting)
    BY <1>1, <1>4, <2>1, FS_Subset
  <2>3. /\ Cardinality(low) \in Nat /\ Cardinality(harmful) \in Nat /\ Cardinality(doubting) \in Nat
        /\ Cardinality(low) <= Cardinality(doubting)
        /\ Cardinality(harmful) <= Cardinality(doubting)
    <3> HIDE DEF low, harmful
    <3> QED BY <2>2, FS_Subset, FS_CardinalityType
  <2>4. /\ Cardinality(low) <= (Cardinality(C) - 1) \div 2
        /\ Cardinality(harmful) <= (Cardinality(C) - 1) \div 2
    <3> HIDE DEF low, harmful
    <3> QED BY <1>1, <1>2, <1>3, <1>5, <2>1, <2>3
  <2>5. \A d \in C : utility[d] \in Int /\ harm[d] \in Int
    BY <1>1, <2>1
  <2> QED BY <1>2, <2>1, <2>4, <2>5, LowerMedianClears, UpperMedianClears
<1>7. ThresholdsPass(CertificateUtility(utility, coalitions, TRUE),
                     CertificateHarm(harm, coalitions), Cardinality(N) - FaultBound)
  <2> HIDE DEF N
  <2> QED BY <1>1, <1>2, <1>3, <1>6, WorstUtility, WorstHarm DEF ThresholdsPass
<1> QED BY <1>7, VerdictOfDecide DEF utility, harm

-----------------------------------------------------------------------------
(* The inductive invariant                                                 *)

\* What a case is, whatever was decided of it.
IsCase(c) ==
  /\ c = [world |-> c.world, screened |-> c.screened, input |-> c.input]
  /\ c.world \in DOMAIN Worlds \union {"NONE"}
  /\ IsAdmissionInput(c.input)

\* A result is one that its method gives for the case.
IsResult(c, r) ==
  \/ r = NoResult
  \/ r.method \in Methods /\ r.outcome \in ExecuteRecordedCase(r.method, c)

IInv == IsCase(case) /\ IsResult(case, result)

\* Every pattern of utilities gives numbers to the domains of its worlds.
Patterns ==
  {"HIGH", "OPENING", "ONE_SCREEN_LOW", "TWO_SCREEN_LOW", "TWO_SCREEN_HIGH",
   "ONE_HIGH", "ALTERNATING", "GAP", "CONFLICT"}

LEMMA UtilityIsANumber ==
  ASSUME NEW pattern \in Patterns, NEW i \in Nat, pattern = "GAP" => i \in 1..5,
         NEW d, NEW screened
  PROVE  Utility(pattern, i, d, screened) \in Int
<1>1. UtilityFloor \in Int /\ OpeningGain \in Int /\ Low \in Int
  BY CertificateAssumption, OpeningAssumption DEF CertificateAssumption, OpeningAssumption, Low
<1>2. CASE pattern = "GAP"
  <2>1. <<75, 75, 100, 100, 100>>[i] \in Int
    BY <1>2
  <2>2. Utility(pattern, i, d, screened) = <<75, 75, 100, 100, 100>>[i]
    BY <1>2 DEF Utility
  <2> QED BY <2>1, <2>2
<1>3. CASE pattern = "HIGH"
  BY <1>1, <1>3 DEF Utility
<1>4. CASE pattern = "OPENING"
  BY <1>1, <1>4 DEF Utility
<1>5. CASE pattern = "ONE_SCREEN_LOW"
  BY <1>1, <1>5 DEF Utility
<1>6. CASE pattern = "TWO_SCREEN_LOW"
  BY <1>1, <1>6 DEF Utility
<1>7. CASE pattern = "TWO_SCREEN_HIGH"
  BY <1>1, <1>7 DEF Utility
<1>8. CASE pattern = "ONE_HIGH"
  BY <1>1, <1>8 DEF Utility
<1>9. CASE pattern = "ALTERNATING"
  BY <1>1, <1>9 DEF Utility
<1>10. CASE pattern = "CONFLICT"
  BY <1>1, <1>10 DEF Utility
<1> QED
  BY <1>2, <1>3, <1>4, <1>5, <1>6, <1>7, <1>8, <1>9, <1>10 DEF Patterns

LEMMA ControlledCaseIsCase ==
  ASSUME NEW world \in DOMAIN Worlds, NEW screened
  PROVE  IsCase(ControlledCase(world, screened))
<1> DEFINE count == Worlds[world].count
<1> DEFINE domains == {Place(i) : i \in 1..count}
<1> DEFINE At(d) == CHOOSE i \in 1..count : Place(i) = d
<1> DEFINE c == ControlledCase(world, screened)
<1>1. count \in Nat
  BY DEF Worlds, World
<1>2. IsFiniteSet(domains)
  <2> DEFINE place == [i \in 1..count |-> Place(i)]
  <2>1. place \in Surjection(1..count, domains)
    BY DEF Surjection
  <2> HIDE DEF place, domains, count
  <2>2. IsFiniteSet(1..count)
    BY <1>1, FS_Interval
  <2> QED BY <2>1, <2>2, FS_Surjection
<1>3. \A d \in domains : At(d) \in 1..count
  OBVIOUS
<1>4. /\ c = [world |-> c.world, screened |-> c.screened, input |-> c.input]
      /\ c.world = world
      /\ c.input = [source |-> c.input.source, own |-> c.input.own,
                    evidence |-> c.input.evidence, repeated |-> c.input.repeated]
      /\ DOMAIN c.input.evidence = domains
      /\ \A d \in domains :
           /\ c.input.evidence[d].utility
                = Utility(Worlds[world].utilities, At(d), d, screened)
           /\ c.input.evidence[d].harm = 0
  BY DEF ControlledCase, Row
<1>5. \A d \in domains : Utility(Worlds[world].utilities, At(d), d, screened) \in Int
  <2>1. /\ Worlds[world].utilities \in Patterns
        /\ Worlds[world].utilities = "GAP" => count = 5
    BY DEF Worlds, World, Patterns
  <2> HIDE DEF At, domains, count
  <2>2. ASSUME NEW d \in domains
        PROVE  At(d) \in Nat /\ (Worlds[world].utilities = "GAP" => At(d) \in 1..5)
    BY <1>1, <1>3, <2>1
  <2> QED BY <2>1, <2>2, UtilityIsANumber
<1> HIDE DEF c, domains, At, count
<1>6. IsAdmissionInput(c.input)
  BY <1>2, <1>4, <1>5 DEF IsAdmissionInput
<1> QED BY <1>4, <1>6 DEF IsCase, c

LEMMA IInvHolds == Spec => []IInv
<1>1. Init => IInv
  <2> SUFFICES ASSUME Init PROVE IInv
    OBVIOUS
  <2>1. CASE case \in ControlledCases
    <3> DEFINE Orders(w) == ScreenOrders({Place(i) : i \in 1..Worlds[w].count})
    <3> DEFINE CasesOf(w) == {ControlledCase(w, screened) : screened \in Orders(w)}
    <3>0. ControlledCases = UNION {CasesOf(w) : w \in DOMAIN Worlds}
      BY DEF ControlledCases
    <3> HIDE DEF CasesOf
    <3>2. PICK world \in DOMAIN Worlds : case \in CasesOf(world)
      BY <2>1, <3>0
    <3>1. PICK screened \in Orders(world) : case = ControlledCase(world, screened)
      BY <3>2 DEF CasesOf
    <3> QED BY <3>1, ControlledCaseIsCase DEF Init, IInv, IsResult
  <2>2. CASE case \in OtherCases
    <3> DEFINE CasesOf(panel) ==
          {[world |-> "NONE", screened |-> screened, input |-> panel] :
             screened \in ScreenOrders(DOMAIN panel.evidence)}
    <3>1. OtherCases = UNION {CasesOf(panel) : panel \in Panels}
      BY DEF OtherCases
    <3> HIDE DEF CasesOf
    <3>2. PICK panel \in Panels : case \in CasesOf(panel)
      BY <2>2, <3>1
    <3>3. PICK screened \in ScreenOrders(DOMAIN panel.evidence) :
            case = [world |-> "NONE", screened |-> screened, input |-> panel]
      BY <3>2 DEF CasesOf
    <3>4. IsAdmissionInput(panel)
      BY PanelAssumption DEF PanelAssumption
    <3> QED BY <3>3, <3>4 DEF Init, IInv, IsResult, IsCase
  <2> QED BY <2>1, <2>2 DEF Init
<1>2. IInv /\ [Next]_vars => IInv'
  <2> SUFFICES ASSUME IInv, [Next]_vars PROVE IInv'
    OBVIOUS
  <2>1. ASSUME NEW method \in Methods, ExecuteAdmissionCase(method) PROVE IInv'
    <3>1. PICK outcome \in ExecuteRecordedCase(method, case) :
            \E malicious \in MayMatch(outcome) : result' =
              [method |-> method, outcome |-> outcome, malicious |-> malicious]
      BY <2>1 DEF ExecuteAdmissionCase
    <3>2. result'.method = method /\ result'.outcome = outcome
      BY <3>1
    <3>3. case' = case
      BY <2>1 DEF ExecuteAdmissionCase
    <3> QED BY <3>2, <3>3 DEF IInv, IsResult
  <2>2. CASE UNCHANGED vars
    BY <2>2 DEF vars, IInv, IsCase, IsResult
  <2> QED BY <2>1, <2>2 DEF Next
<1> QED BY <1>1, <1>2, PTL DEF Spec

\* A certificate's result is a decision of the certificate.
LEMMA CertificateResult ==
  ASSUME IInv, result.method \in Judging
  PROVE  result.outcome \in Decide(case.input, result.method, BetaValues)
<1>1. result # NoResult
  BY DEF NoResult, Judging
<1>2. result.method \in CertificateMethods
  BY DEF Judging, CertificateMethods
<1>3. result.outcome \in ExecuteRecordedCase(result.method, case)
  BY <1>1 DEF IInv, IsResult
<1>4. ExecuteRecordedCase(result.method, case) = Decide(case.input, result.method, BetaValues)
  BY <1>2 DEF ExecuteRecordedCase, CertificateMethods
<1> QED BY <1>3, <1>4

\* decide_leave_fault_certificate: what an admission says of the holders without
\* any f of them, for every panel that is handed to it.
THEOREM HonestHoldersAlwaysClear == Spec => []HonestHoldersClear
<1>1. IInv => HonestHoldersClear
  <2> SUFFICES ASSUME IInv,
                      result.method \in Judging, result.outcome.state = "ADMITTED",
                      NEW faulty \in SUBSET Selected(case.input, TRUE),
                      Cardinality(faulty) <= FaultBound
               PROVE  /\ LowerMedian(Reported(case.input, TRUE, "utility"),
                                      Selected(case.input, TRUE) \ faulty) >= UtilityFloor
                      /\ UpperMedian(Reported(case.input, TRUE, "harm"),
                                      Selected(case.input, TRUE) \ faulty) <= HarmCeiling
    BY DEF HonestHoldersClear, Decided, Judging
  <2>1. IsAdmissionInput(case.input)
    BY DEF IInv, IsCase
  <2> QED BY <2>1, CertificateResult, WorstCoalitionCoversFaults
<1> QED BY <1>1, IInvHolds, PTL

\* On panels of more than 3f holders no f of them have an admission refused.
THEOREM FaultsNeverVeto == Spec => []FaultsCannotVeto
<1>1. IInv => FaultsCannotVeto
  <2> SUFFICES ASSUME IInv, result.method = "LEAVE_FAULT_CERTIFICATE",
                      Cardinality(Selected(case.input, TRUE)) >= 3 * FaultBound + 1,
                      Cardinality({d \in Selected(case.input, TRUE) :
                        ~ (/\ RowOf(case.input, d).utility >= UtilityFloor
                           /\ RowOf(case.input, d).harm <= HarmCeiling)}) <= FaultBound
               PROVE  result.outcome.state # "REJECTED"
    BY DEF FaultsCannotVeto, Decided
  <2>1. IsAdmissionInput(case.input) /\ result.method \in Judging
    BY DEF IInv, IsCase, Judging
  <2> QED BY <2>1, CertificateResult, VouchedIsNotRejected
<1> QED BY <1>1, IInvHolds, PTL

-----------------------------------------------------------------------------
(* Types                                                                   *)

\* An outcome in one of the four states; only an admission has a source share.
WellFormed(outcome) ==
  /\ outcome.state \in {"ADMITTED", "REJECTED", "DORMANT", "FAILED"}
  /\ outcome.sourceShare > 0 => outcome.state = "ADMITTED"

LEMMA DecideIsWellFormed ==
  ASSUME NEW input, NEW method, NEW values, NEW outcome \in Decide(input, method, values)
  PROVE  WellFormed(outcome)
<1> DEFINE on == SwitchesFor(method)
<1> DEFINE N == Selected(input, on.excludeSource)
<1> DEFINE f == EffectiveFaultBound(on.worstCase)
<1> DEFINE utility == CertificateUtility(Reported(input, on.excludeSource, "utility"),
                                         Coalitions(N, f), on.lowerMedian)
<1> DEFINE harm == CertificateHarm(Reported(input, on.excludeSource, "harm"), Coalitions(N, f))
<1> DEFINE produced == Productions(input, method, N, f, {utility}, {harm}, values)
<1>1. \A state \in {"REJECTED", "DORMANT", "FAILED"} : \A u, h : WellFormed(Closed(state, u, h))
  BY DEF WellFormed, Closed, Decision
<1>2. \A e, u, h, p, over, shares : WellFormed(Admitted(input, e, u, h, p, over, shares))
  BY DEF WellFormed, Admitted, Decision
<1>3. \A o \in produced : WellFormed(o)
  <2> HIDE DEF N, f, utility, harm
  <2> QED BY <1>1, <1>2 DEF Productions
<1>4. outcome \in {Closed("FAILED", Absent, Absent), Closed("DORMANT", Absent, Absent),
                  Closed("REJECTED", {utility}, {harm})} \union produced
  <2>1. Decide(input, method, values) =
          IF Malformed(input, N) THEN {Closed("FAILED", Absent, Absent)}
          ELSE IF ~ SupportIsSufficient(N, f) THEN {Closed("DORMANT", Absent, Absent)}
          ELSE IF ~ ThresholdsPass(utility, harm, Cardinality(N) - f)
          THEN {Closed("REJECTED", {utility}, {harm})} ELSE produced
    BY DEF Decide
  <2> HIDE DEF N, f, utility, harm, produced
  <2> QED BY <2>1
<1> HIDE DEF N, f, utility, harm, produced
<1> QED BY <1>1, <1>3, <1>4

LEMMA OtherMethodIsWellFormed ==
  ASSUME NEW c, NEW method \in Methods \ CertificateMethods,
         NEW outcome \in ExecuteRecordedCase(method, c)
  PROVE  WellFormed(outcome)
<1>1. \A state \in {"ADMITTED", "REJECTED", "DORMANT"} : WellFormed(ClosedOutcome(state))
  BY DEF WellFormed, ClosedOutcome, Closed, Decision
<1>2. \A p, u, h : /\ WellFormed(Outcome("ADMITTED", p, 0, u, h))
                   /\ WellFormed(Outcome("REJECTED", p, 0, u, h))
                   /\ WellFormed(Outcome("ADMITTED", p, 1, u, h))
  BY DEF WellFormed, Outcome, Decision
<1>3. OpeningState(c) \in {"ADMISSION_OPEN", "REJECTED", "DORMANT"}
  BY DEF OpeningState
<1>4. \A open, adequate : WellFormed(KrumThenGate(c, open, adequate))
  <2> TAKE open, adequate
  <2>1. CASE open /\ OpeningState(c) # "ADMISSION_OPEN"
    <3>1. KrumThenGate(c, open, adequate) = ClosedOutcome(OpeningState(c))
      BY <2>1 DEF KrumThenGate
    <3> QED BY <3>1, <1>1, <1>3, <2>1
  <2>2. CASE ~ (open /\ OpeningState(c) # "ADMISSION_OPEN")
    BY <1>1, <1>2, <2>2 DEF KrumThenGate
  <2> QED BY <2>1, <2>2
<1>5. WellFormed(DirectSource(c.input)) /\ \A p : WellFormed(FullSetAdmission(c.input, p))
  BY <1>1, <1>2 DEF DirectSource, FullSetAdmission
<1>6. WellFormed(Quorum(c))
  BY <1>1, <1>3 DEF Quorum
<1>7. method \in {"LIFECYCLE", "DIRECT_SOURCE", "QUORUM", "KRUM_SELECTION",
                 "COORDINATE_MEDIAN", "BULYAN"}
  BY DEF Methods
<1>8. CASE method \in {"LIFECYCLE", "KRUM_SELECTION"}
  BY <1>4, <1>8 DEF ExecuteRecordedCase, CertificateMethods
<1>9. CASE method \in {"DIRECT_SOURCE", "QUORUM"}
  BY <1>5, <1>6, <1>9 DEF ExecuteRecordedCase, CertificateMethods
<1>10. CASE method = "COORDINATE_MEDIAN"
  BY <1>1, <1>5, <1>10 DEF ExecuteRecordedCase, CertificateMethods
<1>11. CASE method = "BULYAN"
  BY <1>1, <1>5, <1>11 DEF ExecuteRecordedCase, CertificateMethods
<1> QED BY <1>7, <1>8, <1>9, <1>10, <1>11

\* ExecutedAdmission: state and source share of every method's decision fit.
THEOREM TypesHold == Spec => []TypeOK
<1>1. IInv => TypeOK
  <2> SUFFICES ASSUME IInv PROVE TypeOK
    OBVIOUS
  <2>1. case.world \in DOMAIN Worlds \union {"NONE"}
    BY DEF IInv, IsCase
  <2>2. CASE result = NoResult
    BY <2>1, <2>2 DEF TypeOK, NoResult
  <2>3. CASE result # NoResult
    <3>1. result.method \in Methods /\ result.outcome \in ExecuteRecordedCase(result.method, case)
      BY <2>3 DEF IInv, IsResult
    <3>2. CASE result.method \in CertificateMethods
      <4>1. ExecuteRecordedCase(result.method, case) = Decide(case.input, result.method, BetaValues)
        BY <3>2 DEF ExecuteRecordedCase, CertificateMethods
      <4> QED BY <2>1, <3>1, <4>1, DecideIsWellFormed DEF TypeOK, WellFormed
    <3>3. CASE result.method \notin CertificateMethods
      BY <2>1, <3>1, <3>3, OtherMethodIsWellFormed DEF TypeOK, WellFormed
    <3> QED BY <3>2, <3>3
  <2> QED BY <2>2, <2>3
<1> QED BY <1>1, IInvHolds, PTL

-----------------------------------------------------------------------------
(* What the source claims                                                  *)

\* Two inputs that differ at most in the row of the source.
SameElsewhere(input, other) ==
  /\ other.source = input.source
  /\ other.evidence = input.evidence
  /\ other.repeated = input.repeated

ExcludesSource(method) == SwitchesFor(method).excludeSource = TRUE

LEMMA SameRows ==
  ASSUME NEW input, NEW other, SameElsewhere(input, other)
  PROVE  /\ Selected(other, TRUE) = Selected(input, TRUE)
         /\ \A d \in Selected(input, TRUE) : RowOf(other, d) = RowOf(input, d)
         /\ \A field : Reported(other, TRUE, field) = Reported(input, TRUE, field)
<1>1. Selected(other, TRUE) = Selected(input, TRUE)
  BY DEF SameElsewhere, Selected, Independent
<1>2. \A d \in Selected(input, TRUE) : RowOf(other, d) = RowOf(input, d)
  BY DEF SameElsewhere, Selected, Independent, RowOf
<1>3. ASSUME NEW field PROVE Reported(other, TRUE, field) = Reported(input, TRUE, field)
  <2>1. \A d \in Selected(input, TRUE) : RowOf(other, d)[field] = RowOf(input, d)[field]
    BY <1>2
  <2> QED BY <1>1, <2>1 DEF Reported
<1> QED BY <1>1, <1>2, <1>3

LEMMA SameMeans ==
  ASSUME NEW input, NEW other, SameElsewhere(input, other), Selected(input, TRUE) # {}
  PROVE  \A C \in SUBSET Selected(input, TRUE) :
           Mean(other, Selected(input, TRUE), C) = Mean(input, Selected(input, TRUE), C)
<1> DEFINE N == Selected(input, TRUE)
<1>1. \A d \in N : RowOf(other, d) = RowOf(input, d)
  BY SameRows
<1> HIDE DEF N
<1>2. Axes(other, N) = Axes(input, N)
  <2>1. (CHOOSE d \in N : TRUE) \in N
    BY DEF N
  <2> QED BY <1>1, <2>1 DEF Axes
<1>3. ASSUME NEW C \in SUBSET N PROVE Mean(other, N, C) = Mean(input, N, C)
  <2>1. ASSUME NEW a
        PROVE  [d \in C |-> RowOf(other, d).update[a]] = [d \in C |-> RowOf(input, d).update[a]]
    BY <1>1
  <2> DEFINE column(a) == [d \in C |-> RowOf(input, d).update[a]]
  <2>2. Mean(other, N, C) = [a \in Axes(input, N) |-> SumOver(column(a), C)]
    BY <1>2, <2>1 DEF Mean
  <2> QED BY <2>2 DEF Mean
<1> QED BY <1>3 DEF N

LEMMA SameMalformed ==
  ASSUME NEW input, NEW other, SameElsewhere(input, other)
  PROVE  Malformed(other, Selected(input, TRUE)) <=> Malformed(input, Selected(input, TRUE))
<1> DEFINE N == Selected(input, TRUE)
<1>1. \A d \in N : RowOf(other, d) = RowOf(input, d)
  BY SameRows
<1>2. other.repeated = input.repeated /\ other.source = input.source
  BY DEF SameElsewhere
<1> HIDE DEF N
<1>3. Malformed(other, N) <=> Malformed(input, N)
  BY <1>1, <1>2 DEF Malformed
<1> QED BY <1>3 DEF N

LEMMA SameBetas ==
  ASSUME NEW input, NEW other, SameElsewhere(input, other), Selected(input, TRUE) # {},
         NEW coalitions \in SUBSET (SUBSET Selected(input, TRUE)), NEW values
  PROVE  Betas(other, Selected(input, TRUE), coalitions, values)
           = Betas(input, Selected(input, TRUE), coalitions, values)
<1> DEFINE N == Selected(input, TRUE)
<1>1. \A C \in coalitions : Mean(other, N, C) = Mean(input, N, C)
  BY SameMeans
<1> HIDE DEF N
<1> DEFINE means(i) == [C \in coalitions |-> Mean(i, N, C)]
<1>2. means(other) = means(input)
  BY <1>1
<1> DEFINE BetasOf(m) ==
      LET places == {m[C] : C \in coalitions}
          atPlace == {near \in [places -> values] :
                        /\ Cardinality({p \in places : near[p] = 0}) <= 1
                        /\ Cardinality(places) = 1 => \A p \in places : near[p] = 0}
      IN {[C \in coalitions |-> near[m[C]]] : near \in atPlace}
<1>3. /\ Betas(other, N, coalitions, values) = BetasOf(means(other))
      /\ Betas(input, N, coalitions, values) = BetasOf(means(input))
  BY DEF Betas
<1> HIDE DEF means, BetasOf
<1> QED BY <1>2, <1>3 DEF N

LEMMA SamePoint ==
  ASSUME NEW input, NEW other, SameElsewhere(input, other), Selected(input, TRUE) # {},
         NEW beta, DOMAIN beta \subseteq SUBSET Selected(input, TRUE)
  PROVE  PointOf(other, Selected(input, TRUE), beta) = PointOf(input, Selected(input, TRUE), beta)
<1> DEFINE N == Selected(input, TRUE)
<1> DEFINE C == CHOOSE D \in DOMAIN beta : beta[D] = 0
<1>1. CASE \E D \in DOMAIN beta : beta[D] = 0
  <2>1. C \in SUBSET N
    BY <1>1
  <2>2. Mean(other, N, C) = Mean(input, N, C)
    <3> HIDE DEF C
    <3> QED BY <2>1, SameMeans
  <2> QED BY <1>1, <2>2 DEF PointOf
<1>2. CASE ~ \E D \in DOMAIN beta : beta[D] = 0
  BY <1>2 DEF PointOf
<1> QED BY <1>1, <1>2

LEMMA SameProductions ==
  ASSUME NEW input, NEW other, SameElsewhere(input, other), Selected(input, TRUE) # {},
         NEW method, ExcludesSource(method)
  PROVE  \A f, utility, harm, values :
           Productions(other, method, Selected(input, TRUE), f, utility, harm, values)
             = Productions(input, method, Selected(input, TRUE), f, utility, harm, values)
<1> TAKE f, utility, harm, values
<1> DEFINE N == Selected(input, TRUE)
<1> DEFINE update == Reported(input, TRUE, "update")
<1> DEFINE krum == update[SelectKrum(update, N)]
<1> DEFINE coalitions == Coalitions(N, f)
<1> DEFINE Point(i, beta) ==
      Admitted(i, TRUE, utility, harm, PointOf(i, N, beta), Cardinality(N) - f,
               CoalitionShares(N, beta))
<1> DEFINE PointsOf(i) == {Point(i, beta) : beta \in Betas(i, N, coalitions, values)}
<1> DEFINE KrumOf(i) ==
      IF ~ KrumIsAdmissible(N) THEN {Closed("DORMANT", utility, harm)}
      ELSE {Admitted(i, TRUE, utility, harm, krum, 1, OneHotShares(update, N, krum))}
<1>1. \A p, over, shares : Admitted(other, TRUE, utility, harm, p, over, shares)
                            = Admitted(input, TRUE, utility, harm, p, over, shares)
  BY DEF Admitted
<1>2. Reported(other, TRUE, "update") = update
  BY SameRows
<1>3. coalitions \in SUBSET (SUBSET N)
  BY DEF Coalitions
<1>4. PointsOf(other) = PointsOf(input)
  <2>1. Betas(other, N, coalitions, values) = Betas(input, N, coalitions, values)
    BY <1>3, SameBetas
  <2>2. ASSUME NEW beta \in Betas(input, N, coalitions, values)
        PROVE  Point(other, beta) = Point(input, beta)
    <3>1. DOMAIN beta = coalitions
      BY DEF Betas
    <3>2. PointOf(other, N, beta) = PointOf(input, N, beta)
      <4> HIDE DEF coalitions
      <4> QED BY <1>3, <3>1, SamePoint
    <3> QED BY <1>1, <3>2
  <2> HIDE DEF Point, coalitions, N
  <2> QED BY <2>1, <2>2
<1>5. KrumOf(other) = KrumOf(input)
  BY <1>1
<1>6. /\ Productions(other, method, N, f, utility, harm, values)
           = IF SwitchesFor(method).geometricMedian THEN PointsOf(other) ELSE KrumOf(other)
      /\ Productions(input, method, N, f, utility, harm, values)
           = IF SwitchesFor(method).geometricMedian THEN PointsOf(input) ELSE KrumOf(input)
  BY <1>2 DEF Productions, ExcludesSource
<1> HIDE DEF PointsOf, KrumOf
<1>7. CASE SwitchesFor(method).geometricMedian
  BY <1>4, <1>6, <1>7
<1>8. CASE ~ SwitchesFor(method).geometricMedian
  BY <1>5, <1>6, <1>8
<1> QED BY <1>7, <1>8

LEMMA SameDecide ==
  ASSUME NEW input, NEW other, SameElsewhere(input, other),
         NEW method, ExcludesSource(method), NEW values
  PROVE  Decide(other, method, values) = Decide(input, method, values)
<1> DEFINE N == Selected(input, TRUE)
<1> DEFINE on == SwitchesFor(method)
<1> DEFINE f == EffectiveFaultBound(on.worstCase)
<1> DEFINE utility == CertificateUtility(Reported(input, TRUE, "utility"),
                                         Coalitions(N, f), on.lowerMedian)
<1> DEFINE harm == CertificateHarm(Reported(input, TRUE, "harm"), Coalitions(N, f))
<1> DEFINE DecideOf(i) ==
      IF Malformed(i, N) THEN {Closed("FAILED", Absent, Absent)}
      ELSE IF ~ SupportIsSufficient(N, f) THEN {Closed("DORMANT", Absent, Absent)}
      ELSE IF ~ ThresholdsPass(utility, harm, Cardinality(N) - f)
      THEN {Closed("REJECTED", {utility}, {harm})}
      ELSE Productions(i, method, N, f, {utility}, {harm}, values)
<1>1. Decide(input, method, values) = DecideOf(input)
  BY DEF Decide, ExcludesSource
<1>2. Decide(other, method, values) = DecideOf(other)
  <2>1. /\ Selected(other, TRUE) = N
        /\ Reported(other, TRUE, "utility") = Reported(input, TRUE, "utility")
        /\ Reported(other, TRUE, "harm") = Reported(input, TRUE, "harm")
    BY SameRows
  <2> HIDE DEF N
  <2> QED BY <2>1 DEF Decide, ExcludesSource
<1>3. Malformed(other, N) <=> Malformed(input, N)
  BY SameMalformed
<1>4. CASE Malformed(input, N)
  BY <1>1, <1>2, <1>3, <1>4
<1>5. CASE ~ Malformed(input, N)
  <2>1. N # {}
    BY <1>5 DEF Malformed
  <2>2. Productions(other, method, N, f, {utility}, {harm}, values)
          = Productions(input, method, N, f, {utility}, {harm}, values)
    <3> HIDE DEF f, utility, harm
    <3>1. Selected(input, TRUE) # {}
      BY <2>1
    <3>2. \A g, u, h, v : Productions(other, method, N, g, u, h, v)
                           = Productions(input, method, N, g, u, h, v)
      BY <3>1, SameProductions, Zenon
    <3> QED BY <3>2
  <2> HIDE DEF N, f, utility, harm
  <2>3. DecideOf(other) = DecideOf(input)
    BY <1>3, <1>5, <2>2
  <2> HIDE DEF DecideOf
  <2> QED BY <1>1, <1>2, <2>3
<1> QED BY <1>4, <1>5

LEMMA SameCase ==
  ASSUME NEW c, NEW d, SameElsewhere(c.input, d.input), d.screened = c.screened,
         NEW method \in Methods \ {"DIRECT_SOURCE", "WITHOUT_SOURCE_EXCLUSION"}
  PROVE  ExecuteRecordedCase(method, d) = ExecuteRecordedCase(method, c)
<1>1. d.input.evidence = c.input.evidence
  BY DEF SameElsewhere
<1>2. CASE method \in CertificateMethods
  <2>1. ExcludesSource(method)
    BY <1>2 DEF CertificateMethods, SwitchesFor, Full, ExcludesSource
  <2>2. Decide(d.input, method, BetaValues) = Decide(c.input, method, BetaValues)
    BY <2>1, SameDecide
  <2>3. \A e : ExecuteRecordedCase(method, e) = Decide(e.input, method, BetaValues)
    BY <1>2 DEF ExecuteRecordedCase, CertificateMethods
  <2> QED BY <2>2, <2>3
<1>3. CASE method \notin CertificateMethods
  <2>1. Evidence(d.input, "update") = Evidence(c.input, "update")
    BY <1>1 DEF Evidence
  <2>2. OpeningState(d) = OpeningState(c)
    BY <1>1 DEF OpeningState
  <2>3. LifecycleGate(d.input) = LifecycleGate(c.input)
    BY <1>1 DEF LifecycleGate, Evidence
  <2>4. \A open, adequate : KrumThenGate(d, open, adequate) = KrumThenGate(c, open, adequate)
    BY <1>1, <2>1, <2>2, <2>3 DEF KrumThenGate
  <2>5. Quorum(d) = Quorum(c)
    BY <2>2 DEF Quorum
  <2>6. \A p : FullSetAdmission(d.input, p) = FullSetAdmission(c.input, p)
    BY <1>1 DEF FullSetAdmission, Evidence
  <2>7. method \in {"LIFECYCLE", "QUORUM", "KRUM_SELECTION", "COORDINATE_MEDIAN", "BULYAN"}
    BY <1>3 DEF Methods
  <2>8. CASE method = "LIFECYCLE"
    BY <2>4, <2>8 DEF ExecuteRecordedCase, CertificateMethods
  <2>9. CASE method = "QUORUM"
    BY <2>5, <2>9 DEF ExecuteRecordedCase, CertificateMethods
  <2>10. CASE method = "KRUM_SELECTION"
    BY <2>4, <2>10 DEF ExecuteRecordedCase, CertificateMethods
  <2>11. CASE method = "COORDINATE_MEDIAN"
    BY <1>1, <2>1, <2>6, <2>11 DEF ExecuteRecordedCase, CertificateMethods
  <2>12. CASE method = "BULYAN"
    BY <1>1, <2>1, <2>6, <2>12 DEF ExecuteRecordedCase, CertificateMethods
  <2> QED BY <2>7, <2>8, <2>9, <2>10, <2>11, <2>12
<1> QED BY <1>2, <1>3

\* leave_fault_certificate.py and the comparison methods: whatever the source
\* claims of its own model, a source-free method decides, installs and hands out
\* the same.
THEOREM SourceNeverHasASay == Spec => []SourceHasNoSay
<1>1. IInv => SourceHasNoSay
  <2> SUFFICES ASSUME IInv,
                      result.method \notin {"NONE", "DIRECT_SOURCE", "WITHOUT_SOURCE_EXCLUSION"},
                      NEW own
               PROVE  result.outcome
                        \in ExecuteRecordedCase(result.method, [case EXCEPT !.input.own = own])
    BY DEF SourceHasNoSay
  <2> DEFINE other == [case EXCEPT !.input.own = own]
  <2>1. result # NoResult
    BY DEF NoResult
  <2>2. /\ result.method \in Methods \ {"DIRECT_SOURCE", "WITHOUT_SOURCE_EXCLUSION"}
        /\ result.outcome \in ExecuteRecordedCase(result.method, case)
    BY <2>1 DEF IInv, IsResult
  <2>3. other.screened = case.screened /\ other.input = [case.input EXCEPT !.own = own]
    BY DEF IInv, IsCase
  <2>4. SameElsewhere(case.input, other.input)
    BY <2>3 DEF SameElsewhere, IInv, IsCase, IsAdmissionInput
  <2>5. ExecuteRecordedCase(result.method, other) = ExecuteRecordedCase(result.method, case)
    <3> HIDE DEF other
    <3> QED BY <2>2, <2>3, <2>4, SameCase
  <2> QED BY <2>2, <2>5
<1> QED BY <1>1, IInvHolds, PTL

-----------------------------------------------------------------------------
(* Sums                                                                    *)

\* Sums of the code are folds over sets, and a fold takes the members of a set
\* one by one: SomeOf is the one it takes.
SomeOf(S) == CHOOSE x \in S : TRUE
Sums(f, S, sum) ==
  sum = [T \in SUBSET S |-> IF T = {} THEN 0 ELSE f[SomeOf(T)] + sum[T \ {SomeOf(T)}]]
SumsOf(f, S) == CHOOSE sum : Sums(f, S, sum)
SumBy(f, S) == SumsOf(f, S)[S]

\* Induction on finite sets: of bad sets there is one whose parts are good.
LEMMA LeastBadSet ==
  ASSUME NEW S, IsFiniteSet(S), NEW Bad, Bad \subseteq SUBSET S, Bad # {}
  PROVE  \E T \in Bad : \A U \in Bad : U \subseteq T => U = T
<1>1. Bad \subseteq FiniteSubsetsOf(S)
  BY FS_Subset DEF FiniteSubsetsOf
<1>2. PICK T \in Bad : \A U \in Bad : ~ (<<U, T>> \in StrictSubsetOrdering(S))
  BY <1>1, FS_StrictSubsetOrderingWellFounded, WFMin
<1> QED BY <1>2 DEF StrictSubsetOrdering

\* Folds over two sets take the members of a common part alike.
LEMMA SumsAgree ==
  ASSUME NEW f, NEW S, IsFiniteSet(S), NEW R, NEW one, Sums(f, S, one),
         NEW other, Sums(f, R, other)
  PROVE  \A T \in SUBSET (S \intersect R) : one[T] = other[T]
<1> DEFINE Bad == {T \in SUBSET (S \intersect R) : one[T] # other[T]}
<1> SUFFICES ASSUME Bad # {} PROVE FALSE
  OBVIOUS
<1>1. PICK T \in Bad : \A U \in Bad : U \subseteq T => U = T
  <2>1. Bad \subseteq SUBSET S
    OBVIOUS
  <2> HIDE DEF Bad
  <2> QED BY <2>1, LeastBadSet
<1>2. T \in SUBSET S /\ T \in SUBSET R
  OBVIOUS
<1>3. one[T] = IF T = {} THEN 0 ELSE f[SomeOf(T)] + one[T \ {SomeOf(T)}]
  BY <1>2 DEF Sums
<1>4. other[T] = IF T = {} THEN 0 ELSE f[SomeOf(T)] + other[T \ {SomeOf(T)}]
  BY <1>2 DEF Sums
<1>5. T # {}
  BY <1>3, <1>4
<1>6. SomeOf(T) \in T
  BY <1>5 DEF SomeOf
<1>7. one[T \ {SomeOf(T)}] = other[T \ {SomeOf(T)}]
  BY <1>1, <1>6
<1> QED BY <1>3, <1>4, <1>5, <1>7

\* There is such a fold over every finite set.
LEMMA SumsExist ==
  ASSUME NEW f, NEW S, IsFiniteSet(S)
  PROVE  Sums(f, S, SumsOf(f, S))
<1> DEFINE Bad == {T \in SUBSET S : ~ Sums(f, T, SumsOf(f, T))}
<1>1. ASSUME Bad # {} PROVE FALSE
  <2>1. PICK T \in Bad : \A U \in Bad : U \subseteq T => U = T
    <3>1. Bad \subseteq SUBSET S
      OBVIOUS
    <3> HIDE DEF Bad
    <3> QED BY <1>1, <3>1, LeastBadSet
  <2>2. T \in SUBSET S /\ ~ Sums(f, T, SumsOf(f, T))
    OBVIOUS
  <2>3. \A U \in SUBSET T : U # T => Sums(f, U, SumsOf(f, U))
    BY <2>1, <2>2
  <2>4. \A U \in SUBSET T : IsFiniteSet(U)
    BY <2>2, FS_Subset
  <2> DEFINE sum == [U \in SUBSET T |->
        IF U = T /\ T # {} THEN f[SomeOf(T)] + SumBy(f, T \ {SomeOf(T)})
        ELSE IF U = {} THEN 0 ELSE SumBy(f, U)]
  <2>5. ASSUME NEW U \in SUBSET T
        PROVE  sum[U] = IF U = {} THEN 0 ELSE f[SomeOf(U)] + sum[U \ {SomeOf(U)}]
    <3>1. CASE U = {}
      BY <3>1
    <3>2. CASE U # {}
      <4> DEFINE rest == U \ {SomeOf(U)}
      <4>1. SomeOf(U) \in U /\ rest \in SUBSET T /\ rest # T /\ rest # U /\ rest \subseteq U
        BY <3>2 DEF SomeOf
      <4>2. Sums(f, rest, SumsOf(f, rest))
        BY <2>3, <4>1
      <4>3. sum[rest] = SumBy(f, rest)
        <5>1. rest = {} => SumBy(f, rest) = 0
          BY <4>2 DEF Sums, SumBy
        <5> HIDE DEF rest
        <5> QED BY <4>1, <5>1
      <4>4. CASE U = T
        BY <3>2, <4>3, <4>4
      <4>5. CASE U # T
        <5>1. Sums(f, U, SumsOf(f, U))
          BY <2>3, <4>5
        <5>2. SumsOf(f, U)[U] = f[SomeOf(U)] + SumsOf(f, U)[rest]
          BY <3>2, <5>1 DEF Sums
        <5>3. SumsOf(f, U)[rest] = SumsOf(f, rest)[rest]
          <6> HIDE DEF rest
          <6>1. rest \in SUBSET (U \intersect rest) /\ IsFiniteSet(U)
            BY <2>4, <4>1
          <6> QED BY <4>2, <5>1, <6>1, SumsAgree
        <5>4. sum[U] = SumBy(f, U)
          BY <3>2, <4>5
        <5> HIDE DEF sum, rest
        <5>5. sum[U] = f[SomeOf(U)] + sum[rest]
          BY <4>3, <5>2, <5>3, <5>4 DEF SumBy
        <5> QED BY <3>2, <5>5 DEF rest
      <4> QED BY <4>4, <4>5
    <3> QED BY <3>1, <3>2
  <2>6. Sums(f, T, sum)
    <3>1. sum = [U \in SUBSET T |-> sum[U]]
      OBVIOUS
    <3> HIDE DEF sum
    <3> QED BY <2>5, <3>1 DEF Sums
  <2> HIDE DEF sum
  <2>7. Sums(f, T, SumsOf(f, T))
    BY <2>6 DEF SumsOf
  <2> QED BY <2>2, <2>7
<1> QED BY <1>1

LEMMA SumUnfolds ==
  ASSUME NEW f, NEW S, IsFiniteSet(S)
  PROVE  /\ S = {} => SumBy(f, S) = 0
         /\ S # {} => /\ SomeOf(S) \in S
                      /\ SumBy(f, S) = f[SomeOf(S)] + SumBy(f, S \ {SomeOf(S)})
<1>1. Sums(f, S, SumsOf(f, S))
  BY SumsExist
<1>2. SumsOf(f, S)[S] = IF S = {} THEN 0 ELSE f[SomeOf(S)] + SumsOf(f, S)[S \ {SomeOf(S)}]
  BY <1>1 DEF Sums
<1> DEFINE rest == S \ {SomeOf(S)}
<1>3. IsFiniteSet(rest) /\ rest \in SUBSET (S \intersect rest)
  BY FS_Subset
<1>4. SumsOf(f, S)[rest] = SumsOf(f, rest)[rest]
  <2> HIDE DEF rest
  <2> QED BY <1>1, <1>3, SumsExist, SumsAgree
<1>5. S # {} => SomeOf(S) \in S
  BY DEF SomeOf
<1> QED BY <1>2, <1>4, <1>5 DEF SumBy

LEMMA SumType ==
  ASSUME NEW f, NEW S, IsFiniteSet(S), \A x \in S : f[x] \in Int
  PROVE  \A T \in SUBSET S : SumBy(f, T) \in Int
<1> DEFINE Bad == {T \in SUBSET S : SumBy(f, T) \notin Int}
<1> SUFFICES ASSUME Bad # {} PROVE FALSE
  OBVIOUS
<1>1. PICK T \in Bad : \A U \in Bad : U \subseteq T => U = T
  <2>1. Bad \subseteq SUBSET S
    OBVIOUS
  <2> HIDE DEF Bad
  <2> QED BY <2>1, LeastBadSet
<1>2. T \in SUBSET S /\ IsFiniteSet(T)
  BY FS_Subset
<1>3. T # {} /\ SomeOf(T) \in T /\ SumBy(f, T) = f[SomeOf(T)] + SumBy(f, T \ {SomeOf(T)})
  BY <1>2, SumUnfolds
<1>4. SumBy(f, T \ {SomeOf(T)}) \in Int
  BY <1>1, <1>2, <1>3
<1> QED BY <1>2, <1>3, <1>4

\* Any member may be taken first.
LEMMA SumTakes ==
  ASSUME NEW f, NEW S, IsFiniteSet(S), \A x \in S : f[x] \in Int
  PROVE  \A T \in SUBSET S : \A x \in T : SumBy(f, T) = f[x] + SumBy(f, T \ {x})
<1> DEFINE Bad == {T \in SUBSET S : \E x \in T : SumBy(f, T) # f[x] + SumBy(f, T \ {x})}
<1> SUFFICES ASSUME Bad # {} PROVE FALSE
  OBVIOUS
<1>1. PICK T \in Bad : \A U \in Bad : U \subseteq T => U = T
  <2>1. Bad \subseteq SUBSET S
    OBVIOUS
  <2> HIDE DEF Bad
  <2> QED BY <2>1, LeastBadSet
<1>2. PICK x \in T : SumBy(f, T) # f[x] + SumBy(f, T \ {x})
  OBVIOUS
<1>3. T \in SUBSET S
  OBVIOUS
<1>4. \A U \in SUBSET T : U # T => \A u \in U : SumBy(f, U) = f[u] + SumBy(f, U \ {u})
  BY <1>1, <1>3
<1> HIDE DEF Bad
<1> DEFINE y == SomeOf(T)
<1>5. y \in T /\ SumBy(f, T) = f[y] + SumBy(f, T \ {y})
  BY <1>2, <1>3, SumUnfolds, FS_Subset
<1> HIDE DEF y
<1>6. x # y
  BY <1>2, <1>5
<1>7. SumBy(f, T \ {y}) = f[x] + SumBy(f, (T \ {y}) \ {x})
  BY <1>4, <1>5, <1>6
<1>8. SumBy(f, T \ {x}) = f[y] + SumBy(f, (T \ {x}) \ {y})
  BY <1>4, <1>5, <1>6
<1>9. (T \ {x}) \ {y} = (T \ {y}) \ {x} /\ (T \ {x}) \ {y} \in SUBSET S
  BY <1>3
<1>10. SumBy(f, (T \ {x}) \ {y}) \in Int /\ f[x] \in Int /\ f[y] \in Int
  BY <1>3, <1>5, <1>9, SumType
<1> DEFINE r == SumBy(f, (T \ {x}) \ {y})
<1>11. SumBy(f, T) = f[y] + (f[x] + r)
  BY <1>5, <1>7, <1>9
<1>12. f[x] + SumBy(f, T \ {x}) = f[x] + (f[y] + r)
  BY <1>8
<1>13. r \in Int
  BY <1>10
<1> HIDE DEF r
<1>14. f[y] + (f[x] + r) = f[x] + (f[y] + r)
  BY <1>10, <1>13
<1> QED BY <1>2, <1>11, <1>12, <1>14

LEMMA OneMore ==
  ASSUME NEW a \in Int, NEW m \in Nat
  PROVE  a * (m + 1) = a * m + a /\ a * m \in Int
OBVIOUS

LEMMA SumBounds ==
  ASSUME NEW f, NEW S, IsFiniteSet(S), NEW a \in Int, NEW b \in Int,
         \A x \in S : f[x] \in Int /\ a <= f[x] /\ f[x] <= b
  PROVE  \A T \in SUBSET S : a * Cardinality(T) <= SumBy(f, T) /\ SumBy(f, T) <= b * Cardinality(T)
<1> DEFINE Within(T) == a * Cardinality(T) <= SumBy(f, T) /\ SumBy(f, T) <= b * Cardinality(T)
<1> DEFINE Bad == {T \in SUBSET S : ~ Within(T)}
<1> SUFFICES ASSUME Bad # {} PROVE FALSE
  OBVIOUS
<1>1. PICK T \in Bad : \A U \in Bad : U \subseteq T => U = T
  <2>1. Bad \subseteq SUBSET S
    OBVIOUS
  <2> HIDE DEF Bad
  <2> QED BY <2>1, LeastBadSet
<1>2. T \in SUBSET S /\ ~ Within(T)
  OBVIOUS
<1>3. IsFiniteSet(T)
  BY <1>2, FS_Subset
<1>4. CASE T = {}
  <2>1. SumBy(f, T) = 0 /\ Cardinality(T) = 0
    BY <1>3, <1>4, SumUnfolds, FS_EmptySet
  <2> QED BY <1>2, <2>1
<1>5. CASE T # {}
  <2> DEFINE x == SomeOf(T)
  <2> DEFINE rest == T \ {x}
  <2>1. x \in T /\ SumBy(f, T) = f[x] + SumBy(f, rest)
    BY <1>3, <1>5, SumUnfolds
  <2> HIDE DEF x
  <2>2. rest \in SUBSET S /\ Within(rest)
    BY <1>1, <1>2, <2>1
  <2>3. Cardinality(rest) = Cardinality(T) - 1 /\ Cardinality(rest) \in Nat
    BY <1>3, <2>1, FS_RemoveElement, FS_CardinalityType
  <2>4. SumBy(f, rest) \in Int /\ f[x] \in Int /\ a <= f[x] /\ f[x] <= b
    BY <1>2, <2>1, <2>2, SumType
  <2>5. Cardinality(T) \in Nat
    BY <1>3, FS_CardinalityType
  <2> DEFINE m == Cardinality(rest)
  <2>6. /\ a * (m + 1) = a * m + a /\ b * (m + 1) = b * m + b
        /\ a * m \in Int /\ b * m \in Int
    BY <2>3, OneMore
  <2>7. Cardinality(T) = m + 1
    BY <2>3, <2>5
  <2> HIDE DEF rest, m
  <2> QED BY <1>2, <2>1, <2>2, <2>4, <2>6, <2>7 DEF m
<1> QED BY <1>4, <1>5

\* Sums of the certificate are such sums.
LEMMA SumOverIsSum ==
  ASSUME NEW value, NEW C
  PROVE  SumOver(value, C) = SumBy(value, C)
BY DEF SumOver, MapThenSumSet, MapThenFoldSet, SumBy, SumsOf, Sums, SomeOf

\* A part of numbers that are not negative adds up to no more than all of them.
LEMMA SumOfPart ==
  ASSUME NEW f, NEW S, IsFiniteSet(S), \A x \in S : f[x] \in Nat, NEW part
  PROVE  SumBy(f, S \intersect part) <= SumBy(f, S)
<1> DEFINE Bad == {T \in SUBSET S : ~ (SumBy(f, T \intersect part) <= SumBy(f, T))}
<1> SUFFICES ASSUME Bad # {} PROVE FALSE
  OBVIOUS
<1>1. PICK T \in Bad : \A U \in Bad : U \subseteq T => U = T
  <2>1. Bad \subseteq SUBSET S
    OBVIOUS
  <2> HIDE DEF Bad
  <2> QED BY <2>1, LeastBadSet
<1>2. T \in SUBSET S /\ ~ (SumBy(f, T \intersect part) <= SumBy(f, T)) /\ IsFiniteSet(T)
  BY FS_Subset
<1>3. \A U \in SUBSET S : SumBy(f, U) \in Int
  BY SumType
<1>4. T # {}
  <2>1. CASE T = {}
    <3>1. T \intersect part = T
      BY <2>1
    <3> QED BY <1>2, <1>3, <3>1
  <2> QED BY <2>1
<1> DEFINE x == SomeOf(T)
           rest == T \ {x}
<1>5. x \in T /\ SumBy(f, T) = f[x] + SumBy(f, rest)
  BY <1>2, <1>4, SumUnfolds
<1> HIDE DEF x
<1>6. rest \in SUBSET S /\ rest \intersect part \in SUBSET S
  BY <1>2
<1>7. SumBy(f, rest \intersect part) <= SumBy(f, rest)
  BY <1>1, <1>5, <1>6
<1>8. f[x] \in Nat /\ SumBy(f, rest) \in Int /\ SumBy(f, rest \intersect part) \in Int
  BY <1>2, <1>3, <1>5, <1>6
<1>9. CASE x \in part
  <2>1. x \in T \intersect part /\ (T \intersect part) \ {x} = rest \intersect part
    BY <1>5, <1>9
  <2>2. SumBy(f, T \intersect part) = f[x] + SumBy(f, (T \intersect part) \ {x})
    BY <1>2, <2>1, SumTakes
  <2> HIDE DEF rest, Bad
  <2>3. SumBy(f, T \intersect part) = f[x] + SumBy(f, rest \intersect part)
    BY <2>1, <2>2
  <2> QED BY <1>2, <1>5, <1>7, <1>8, <2>3
<1>10. CASE x \notin part
  <2>1. T \intersect part = rest \intersect part
    BY <1>10
  <2> HIDE DEF rest, Bad
  <2> QED BY <1>2, <1>5, <1>7, <1>8, <2>1
<1> QED BY <1>9, <1>10

\* The sum of sums is the sum of the sums.
LEMMA SumAdds ==
  ASSUME NEW f, NEW g, NEW S, IsFiniteSet(S), \A x \in S : f[x] \in Int /\ g[x] \in Int
  PROVE  SumBy([x \in S |-> f[x] + g[x]], S) = SumBy(f, S) + SumBy(g, S)
<1> DEFINE h == [x \in S |-> f[x] + g[x]]
           Bad == {T \in SUBSET S : SumBy(h, T) # SumBy(f, T) + SumBy(g, T)}
<1> SUFFICES ASSUME Bad # {} PROVE FALSE
  OBVIOUS
<1>1. PICK T \in Bad : \A U \in Bad : U \subseteq T => U = T
  <2>1. Bad \subseteq SUBSET S
    OBVIOUS
  <2> HIDE DEF Bad
  <2> QED BY <2>1, LeastBadSet
<1>2. T \in SUBSET S /\ SumBy(h, T) # SumBy(f, T) + SumBy(g, T) /\ IsFiniteSet(T)
  BY FS_Subset
<1> DEFINE x == SomeOf(T)
           rest == T \ {x}
<1>3. T # {}
  <2>1. ASSUME T = {} PROVE SumBy(f, T) = 0 /\ SumBy(g, T) = 0 /\ SumBy(h, T) = 0
    <3> HIDE DEF h
    <3> QED BY <1>2, <2>1, SumUnfolds
  <2> HIDE DEF h, Bad
  <2> QED BY <1>2, <2>1
<1>4. /\ x \in T /\ SumBy(f, T) = f[x] + SumBy(f, rest) /\ SumBy(g, T) = g[x] + SumBy(g, rest)
      /\ SumBy(h, T) = h[x] + SumBy(h, rest)
  <2> HIDE DEF h
  <2> QED BY <1>2, <1>3, SumUnfolds
<1> HIDE DEF x
<1>5. rest \in SUBSET S /\ SumBy(h, rest) = SumBy(f, rest) + SumBy(g, rest)
  BY <1>1, <1>2, <1>4
<1>6. h[x] = f[x] + g[x] /\ f[x] \in Int /\ g[x] \in Int
  BY <1>2, <1>4
<1>7. SumBy(f, rest) \in Int /\ SumBy(g, rest) \in Int
  BY <1>5, SumType
<1> HIDE DEF h, rest, Bad
<1> QED BY <1>2, <1>4, <1>5, <1>6, <1>7

\* A value for each member of a part adds up to the value times the part's size.
LEMMA SumOfMarked ==
  ASSUME NEW S, IsFiniteSet(S), NEW part \in SUBSET S, NEW v \in Int
  PROVE  SumBy([x \in S |-> IF x \in part THEN v ELSE 0], S) = v * Cardinality(part)
<1> DEFINE h == [x \in S |-> IF x \in part THEN v ELSE 0]
           Bad == {T \in SUBSET S : SumBy(h, T) # v * Cardinality(T \intersect part)}
<1>0. ASSUME Bad # {} PROVE FALSE
  <2>1. PICK T \in Bad : \A U \in Bad : U \subseteq T => U = T
    <3>1. Bad \subseteq SUBSET S
      OBVIOUS
    <3> HIDE DEF Bad
    <3> QED BY <1>0, <3>1, LeastBadSet
  <2>2. T \in SUBSET S /\ SumBy(h, T) # v * Cardinality(T \intersect part) /\ IsFiniteSet(T)
    BY FS_Subset
  <2> DEFINE x == SomeOf(T)
             rest == T \ {x}
  <2>3. T # {}
    <3>1. ASSUME T = {} PROVE SumBy(h, T) = 0 /\ Cardinality(T \intersect part) = 0
      <4> HIDE DEF h
      <4> QED BY <2>2, <3>1, SumUnfolds, FS_EmptySet
    <3> HIDE DEF h, Bad
    <3> QED BY <2>2, <3>1
  <2>4. x \in T /\ SumBy(h, T) = h[x] + SumBy(h, rest)
    <3> HIDE DEF h
    <3> QED BY <2>2, <2>3, SumUnfolds
  <2> HIDE DEF x
  <2> DEFINE kept == rest \intersect part
  <2>5. rest \in SUBSET S /\ SumBy(h, rest) = v * Cardinality(kept)
    BY <2>1, <2>2, <2>4
  <2>6. IsFiniteSet(kept) /\ Cardinality(kept) \in Nat
    BY <2>2, FS_Subset, FS_CardinalityType
  <2>7. v * (Cardinality(kept) + 1) = v * Cardinality(kept) + v
        /\ v * Cardinality(kept) \in Int
    <3> HIDE DEF kept
    <3> QED BY <2>6, OneMore
  <2>8. CASE x \in part
    <3>1. h[x] = v
      BY <2>2, <2>4, <2>8
    <3>2. T \intersect part = kept \union {x} /\ x \notin kept
      BY <2>4, <2>8
    <3>3. Cardinality(T \intersect part) = Cardinality(kept) + 1
      <4> HIDE DEF kept
      <4> QED BY <2>6, <3>2, FS_AddElement
    <3> HIDE DEF h, Bad, rest, kept
    <3> QED BY <2>2, <2>4, <2>5, <2>7, <3>1, <3>3
  <2>9. CASE x \notin part
    <3>1. h[x] = 0
      BY <2>2, <2>4, <2>9
    <3>2. T \intersect part = kept
      BY <2>9
    <3> HIDE DEF h, Bad, rest, kept
    <3>3. \A a \in Int : 0 + a = a
      OBVIOUS
    <3>4. SumBy(h, T) = v * Cardinality(kept)
      BY <2>4, <2>5, <2>7, <3>1, <3>3
    <3> QED BY <2>2, <3>2, <3>4
  <2> QED BY <2>8, <2>9
<1>1. SumBy(h, S) = v * Cardinality(S \intersect part)
  BY <1>0
<1>2. S \intersect part = part
  OBVIOUS
<1> QED BY <1>1, <1>2

-----------------------------------------------------------------------------
(* Shares                                                                  *)

\* What coalitions of m members hand to each of their members adds up to m
\* times what they have.
LEMMA HandedOut ==
  ASSUME NEW N, IsFiniteSet(N), NEW K \in SUBSET (SUBSET N), IsFiniteSet(K), NEW used,
         \A C \in K : used[C] \in Int, NEW m \in Nat, \A C \in K : Cardinality(C) = m
  PROVE  SumBy([d \in N |-> SumBy(used, {C \in K : d \in C})], N) = m * SumBy(used, K)
<1> DEFINE handed(L) == [d \in N |-> SumBy(used, {C \in L : d \in C})]
           Bad == {L \in SUBSET K : SumBy(handed(L), N) # m * SumBy(used, L)}
<1>0. ASSUME Bad # {} PROVE FALSE
  <2>1. PICK L \in Bad : \A U \in Bad : U \subseteq L => U = L
    <3>1. Bad \subseteq SUBSET K
      OBVIOUS
    <3> HIDE DEF Bad
    <3> QED BY <1>0, <3>1, LeastBadSet
  <2>2. L \in SUBSET K /\ SumBy(handed(L), N) # m * SumBy(used, L) /\ IsFiniteSet(L)
    BY FS_Subset
  <2>3. \A U \in SUBSET K : SumBy(used, U) \in Int
    BY SumType
  <2>4. CASE L = {}
    <3>1. SumBy(used, L) = 0 /\ \A d \in N : {C \in L : d \in C} = L
      BY <2>2, <2>4, SumUnfolds
    <3>2. \A d \in N : handed(L)[d] = 0
      BY <3>1
    <3> DEFINE h == handed(L)
    <3>3. \A d \in N : h[d] \in Int /\ 0 <= h[d] /\ h[d] <= 0
      BY <3>2
    <3>4. 0 * Cardinality(N) <= SumBy(h, N) /\ SumBy(h, N) <= 0 * Cardinality(N)
          /\ SumBy(h, N) \in Int
      <4> HIDE DEF h
      <4>1. 0 \in Int
        OBVIOUS
      <4> QED BY <3>3, <4>1, SumBounds, SumType
    <3>5. SumBy(h, N) = 0
      <4> HIDE DEF h
      <4> QED BY <3>4, FS_CardinalityType
    <3> HIDE DEF h, Bad
    <3> QED BY <2>2, <3>1, <3>5 DEF h
  <2>5. CASE L # {}
    <3> DEFINE c == SomeOf(L)
               rest == L \ {c}
    <3>1. c \in L /\ SumBy(used, L) = used[c] + SumBy(used, rest)
      BY <2>2, <2>5, SumUnfolds
    <3> HIDE DEF c
    <3>2. rest \in SUBSET K /\ SumBy(handed(rest), N) = m * SumBy(used, rest)
      <4>1. rest \in SUBSET K /\ rest \subseteq L /\ rest # L
        BY <2>2, <3>1
      <4> HIDE DEF rest
      <4>2. rest \notin Bad
        <5> HIDE DEF Bad
        <5> QED BY <2>1, <4>1
      <4> HIDE DEF handed
      <4> QED BY <4>1, <4>2
    <3>3. c \in K /\ c \in SUBSET N /\ used[c] \in Int /\ Cardinality(c) = m
      BY <2>2, <3>1
    <3> DEFINE mark == [d \in N |-> IF d \in c THEN used[c] ELSE 0]
    <3>4. ASSUME NEW d \in N
          PROVE  /\ handed(L)[d] = handed(rest)[d] + mark[d]
                 /\ handed(rest)[d] \in Int /\ mark[d] \in Int
      <4> DEFINE after == {C \in rest : d \in C}
                 before == {C \in L : d \in C}
      <4>1. after \in SUBSET K /\ before \in SUBSET K /\ SumBy(used, after) \in Int
        BY <2>2, <2>3
      <4>2. CASE d \in c
        <5>1. c \in before /\ before \ {c} = after
          BY <3>1, <4>2
        <5>2. SumBy(used, before) = used[c] + SumBy(used, before \ {c})
          <6> HIDE DEF before
          <6> QED BY <4>1, <5>1, SumTakes
        <5>3. SumBy(used, before) = used[c] + SumBy(used, after)
          BY <5>1, <5>2
        <5>4. handed(L)[d] = SumBy(used, before) /\ handed(rest)[d] = SumBy(used, after)
              /\ mark[d] = used[c]
          BY <4>2
        <5> HIDE DEF before, after, rest, handed, mark
        <5> QED BY <3>3, <4>1, <5>3, <5>4
      <4>3. CASE d \notin c
        <5>1. before = after
          BY <4>3
        <5>2. handed(L)[d] = SumBy(used, before) /\ handed(rest)[d] = SumBy(used, after)
              /\ mark[d] = 0
          BY <4>3
        <5> HIDE DEF before, after, rest, handed, mark
        <5> QED BY <4>1, <5>1, <5>2
      <4> QED BY <4>2, <4>3
    <3>5. handed(L) = [d \in N |-> handed(rest)[d] + mark[d]]
      <4>1. handed(L) = [d \in N |-> handed(L)[d]]
        OBVIOUS
      <4> HIDE DEF handed, mark, rest
      <4> QED BY <3>4, <4>1
    <3>6. SumBy(mark, N) = used[c] * m
      BY <3>3, SumOfMarked
    <3> DEFINE g == handed(rest)
    <3>7. SumBy([d \in N |-> g[d] + mark[d]], N) = SumBy(g, N) + SumBy(mark, N)
      <4>1. \A d \in N : g[d] \in Int /\ mark[d] \in Int
        BY <3>4
      <4> HIDE DEF g, mark
      <4> QED BY <4>1, SumAdds
    <3>8. SumBy(handed(L), N) = m * SumBy(used, rest) + used[c] * m
      <4> HIDE DEF handed, mark, rest
      <4> QED BY <3>2, <3>5, <3>6, <3>7
    <3>9. \A a, b \in Int : m * a + b * m = m * (b + a)
      OBVIOUS
    <3>10. SumBy(used, rest) \in Int
      BY <2>3, <3>2
    <3> HIDE DEF handed, rest, Bad
    <3>11. m * SumBy(used, rest) + used[c] * m = m * (used[c] + SumBy(used, rest))
      BY <3>3, <3>9, <3>10
    <3> QED BY <2>2, <3>1, <3>8, <3>11
  <2> QED BY <2>4, <2>5
<1> HIDE DEF handed
<1>1. SumBy(handed(K), N) = m * SumBy(used, K)
  BY <1>0
<1> QED BY <1>1 DEF handed

\* The shares of coalitions: some, and to no holders more than their part.
LEMMA SharesOfCoalitions ==
  ASSUME NEW N, IsFiniteSet(N), NEW f \in Nat, f < Cardinality(N),
         NEW beta \in [Coalitions(N, f) -> Nat]
  PROVE  LET shares == CoalitionShares(N, beta)
         IN /\ DOMAIN shares = N
            /\ SumOver(shares, N) > 0
            /\ \A group \in SUBSET N :
                 (Cardinality(N) - f) * SumOver(shares, group)
                   <= Cardinality(group) * SumOver(shares, N)
<1> DEFINE K == Coalitions(N, f)
           used == IF \A C \in DOMAIN beta : beta[C] = 0 THEN [C \in DOMAIN beta |-> 1] ELSE beta
           shares == [d \in N |-> SumBy(used, {C \in K : d \in C})]
           m == Cardinality(N) - f
           total == SumBy(used, K)
<1>1. CoalitionShares(N, beta) = shares
  <2>1. DOMAIN used = K
    OBVIOUS
  <2>2. CoalitionShares(N, beta) = [d \in N |-> SumOver(used, {C \in DOMAIN used : d \in C})]
    BY DEF CoalitionShares
  <2> HIDE DEF used
  <2> QED BY <2>1, <2>2, SumOverIsSum
<1>2. Cardinality(N) \in Nat /\ m \in Nat /\ m > 0
  BY FS_CardinalityType
<1>3. /\ IsFiniteSet(K) /\ K # {} /\ K \in SUBSET (SUBSET N)
      /\ \A C \in K : Cardinality(C) = m
  BY CoalitionsFinite
<1>4. /\ \A C \in K : used[C] \in Nat
      /\ \E C \in K : used[C] > 0
  <2>1. CASE \A C \in K : beta[C] = 0
    <3>1. \A C \in K : used[C] = 1
      BY <2>1
    <3> HIDE DEF used
    <3> QED BY <1>3, <3>1
  <2>2. CASE \E C \in K : beta[C] # 0
    <3>1. used = beta
      BY <2>2
    <3> HIDE DEF used
    <3> QED BY <2>2, <3>1
  <2> QED BY <2>1, <2>2
<1> HIDE DEF K, used, m
<1>5. \A L \in SUBSET K : SumBy(used, L) \in Nat
  <2>1. ASSUME NEW L \in SUBSET K PROVE SumBy(used, L) \in Nat
    <3>1. SumBy(used, L) \in Int
      BY <1>3, <1>4, SumType
    <3>2. L \intersect {} = {} /\ IsFiniteSet(L) /\ \A C \in L : used[C] \in Nat
      BY <1>3, <1>4, FS_Subset
    <3>3. SumBy(used, L \intersect {}) <= SumBy(used, L)
      BY <3>2, SumOfPart
    <3>4. SumBy(used, {}) = 0
      BY SumUnfolds, FS_EmptySet
    <3> QED BY <3>1, <3>2, <3>3, <3>4
  <2> QED BY <2>1
<1>6. total \in Nat /\ total > 0
  <2>1. PICK C \in K : used[C] > 0
    BY <1>4
  <2>2. SumBy(used, K) = used[C] + SumBy(used, K \ {C})
    BY <1>3, <1>4, SumTakes
  <2>3. SumBy(used, K \ {C}) \in Nat /\ SumBy(used, K) \in Nat
    BY <1>5
  <2> QED BY <1>4, <2>1, <2>2, <2>3
<1>7. ASSUME NEW d \in N PROVE shares[d] \in Int /\ 0 <= shares[d] /\ shares[d] <= total
  <2> DEFINE own == {C \in K : d \in C}
             with == {C \in SUBSET N : d \in C}
  <2>1. own \in SUBSET K /\ own = K \intersect with
    BY <1>3
  <2>2. SumBy(used, own) <= total
    <3> HIDE DEF own, with
    <3> QED BY <1>3, <1>4, <2>1, SumOfPart
  <2>3. shares[d] = SumBy(used, own) /\ SumBy(used, own) \in Nat
    BY <1>5, <2>1
  <2> HIDE DEF own, shares, total
  <2> QED BY <2>2, <2>3
<1>8. SumBy(shares, N) = m * total
  BY <1>2, <1>3, <1>4, HandedOut
<1>9. DOMAIN shares = N
  OBVIOUS
<1> HIDE DEF shares, total
<1>10. SumBy(shares, N) > 0
  <2>1. \A a, b \in Nat : a > 0 /\ b > 0 => a * b > 0
    OBVIOUS
  <2> QED BY <1>2, <1>6, <1>8, <2>1
<1>11. ASSUME NEW group \in SUBSET N
       PROVE  m * SumBy(shares, group) <= Cardinality(group) * SumBy(shares, N)
  <2>1. IsFiniteSet(group) /\ Cardinality(group) \in Nat
    BY FS_Subset, FS_CardinalityType
  <2>2. SumBy(shares, group) <= total * Cardinality(group) /\ SumBy(shares, group) \in Int
    <3>1. 0 \in Int /\ total \in Int
      BY <1>6
    <3> QED BY <1>7, <3>1, SumBounds, SumType
  <2>3. \A a, b, c, s \in Int : 0 < a /\ s <= b * c => a * s <= c * (a * b)
    <3>1. ASSUME NEW a \in Int, NEW b \in Int, NEW c \in Int, NEW s \in Int,
                 0 < a, s <= b * c
          PROVE  a * s <= c * (a * b)
      <4>1. a * s <= a * (b * c)
        <5> DEFINE t == b * c
        <5>1. t \in Int /\ s <= t
          BY <3>1
        <5> HIDE DEF t
        <5>2. a * s <= a * t
          BY <3>1, <5>1
        <5> QED BY <5>2 DEF t
      <4>2. a * (b * c) = c * (a * b)
        OBVIOUS
      <4> QED BY <4>1, <4>2
    <3> QED BY <3>1
  <2> QED BY <1>2, <1>6, <1>8, <2>1, <2>2, <2>3
<1>12. \A group \in SUBSET N : SumOver(CoalitionShares(N, beta), group) = SumBy(shares, group)
  BY <1>1, SumOverIsSum
<1> QED BY <1>1, <1>9, <1>10, <1>11, <1>12 DEF m

\* An admission at a geometric median hands out the shares of its coalitions.
LEMMA AdmittedShares ==
  ASSUME NEW input, IsAdmissionInput(input),
         NEW method \in CertificateMethods \ {"WITHOUT_GEOMETRIC_MEDIAN"},
         NEW outcome \in Decide(input, method, BetaValues), outcome.state = "ADMITTED"
  PROVE  LET N == Selected(input, SwitchesFor(method).excludeSource)
             f == EffectiveFaultBound(SwitchesFor(method).worstCase)
         IN /\ IsFiniteSet(N) /\ f \in Nat /\ f < Cardinality(N)
            /\ \E beta \in [Coalitions(N, f) -> Nat] :
                 outcome.shares = CoalitionShares(N, beta)
<1> DEFINE on == SwitchesFor(method)
           N == Selected(input, on.excludeSource)
           f == EffectiveFaultBound(on.worstCase)
           utility == CertificateUtility(Reported(input, on.excludeSource, "utility"),
                                    Coalitions(N, f), on.lowerMedian)
           harm == CertificateHarm(Reported(input, on.excludeSource, "harm"), Coalitions(N, f))
<1>1. IsFiniteSet(N) /\ Cardinality(N) \in Nat
  <2>1. IsFiniteSet(DOMAIN input.evidence) /\ IsFiniteSet({input.source}) /\ IsFiniteSet({})
    BY FS_Singleton, FS_EmptySet DEF IsAdmissionInput
  <2>2. IsFiniteSet(Independent(input))
    BY <2>1, FS_Difference DEF Independent
  <2>3. IsFiniteSet(N)
    BY <2>1, <2>2, FS_Union DEF Selected
  <2> QED BY <2>3, FS_CardinalityType
<1>2. f \in Nat
  BY CertificateAssumption DEF CertificateAssumption, EffectiveFaultBound
<1>3. on.geometricMedian
  BY DEF CertificateMethods, SwitchesFor, Full
<1>4. Decide(input, method, BetaValues) =
        IF Malformed(input, N) THEN {Closed("FAILED", Absent, Absent)}
        ELSE IF ~ SupportIsSufficient(N, f) THEN {Closed("DORMANT", Absent, Absent)}
        ELSE IF ~ ThresholdsPass(utility, harm, Cardinality(N) - f)
        THEN {Closed("REJECTED", {utility}, {harm})}
        ELSE Productions(input, method, N, f, {utility}, {harm}, BetaValues)
  BY DEF Decide
<1> HIDE DEF utility, harm
<1>5. \A state, u, h : Closed(state, u, h).state = state
  BY DEF Closed, Decision
<1>6. SupportIsSufficient(N, f) /\ outcome \in Productions(input, method, N, f, {utility}, {harm}, BetaValues)
  <2> HIDE DEF N, f
  <2> QED BY <1>4, <1>5
<1>7. f < Cardinality(N)
  <2> HIDE DEF N, f
  <2> QED BY <1>1, <1>2, <1>6 DEF SupportIsSufficient
<1>8. PICK beta \in Betas(input, N, Coalitions(N, f), BetaValues) :
        outcome = Admitted(input, on.excludeSource, {utility}, {harm}, PointOf(input, N, beta),
                           Cardinality(N) - f, CoalitionShares(N, beta))
  <2> HIDE DEF N, f
  <2> QED BY <1>3, <1>6 DEF Productions
<1>9. outcome.shares = CoalitionShares(N, beta)
  <2> HIDE DEF N, f
  <2> QED BY <1>8 DEF Admitted, Decision
<1>10. beta \in [Coalitions(N, f) -> Nat]
  <2> HIDE DEF N, f
  <2> DEFINE K == Coalitions(N, f)
             means == [C \in K |-> Mean(input, N, C)]
             places == {means[C] : C \in K}
  <2>1. PICK near \in [places -> BetaValues] : beta = [C \in K |-> near[means[C]]]
    BY DEF Betas
  <2>2. \A C \in K : means[C] \in places
    OBVIOUS
  <2> HIDE DEF K, means, places
  <2>3. \A C \in K : near[means[C]] \in Nat
    BY <2>2, BetaAssumption DEF BetaAssumption
  <2> QED BY <2>1, <2>3 DEF K
<1> QED BY <1>1, <1>2, <1>7, <1>9, <1>10

\* _participant_weights: whatever geometric median an admitted panel of
\* any size has, no holders get more of it than as many of a coalition's members
\* have of its mean, and somebody gets some.
THEOREM SharesAlwaysFollowSupport == Spec => []SharesFollowSupport
<1>1. IInv => SharesFollowSupport
  <2> SUFFICES ASSUME IInv, Decided(CertificateMethods \ {"WITHOUT_GEOMETRIC_MEDIAN"}, "ADMITTED")
               PROVE  LET shares == result.outcome.shares
                          N == DOMAIN shares
                          f == EffectiveFaultBound(SwitchesFor(result.method).worstCase)
                      IN /\ SumOver(shares, N) > 0
                         /\ \A group \in SUBSET N :
                              (Cardinality(N) - f) * SumOver(shares, group)
                                <= Cardinality(group) * SumOver(shares, N)
    BY DEF SharesFollowSupport
  <2>1. /\ result.method \in CertificateMethods \ {"WITHOUT_GEOMETRIC_MEDIAN"}
        /\ result.outcome.state = "ADMITTED" /\ IsAdmissionInput(case.input)
    BY DEF Decided, IInv, IsCase
  <2>2. result.outcome \in Decide(case.input, result.method, BetaValues)
    <3>1. result # NoResult
      BY <2>1 DEF NoResult, CertificateMethods
    <3>2. result.outcome \in ExecuteRecordedCase(result.method, case)
      BY <3>1 DEF IInv, IsResult
    <3> QED BY <2>1, <3>2 DEF ExecuteRecordedCase, CertificateMethods
  <2> DEFINE N == Selected(case.input, SwitchesFor(result.method).excludeSource)
             f == EffectiveFaultBound(SwitchesFor(result.method).worstCase)
  <2>3. /\ IsFiniteSet(N) /\ f \in Nat /\ f < Cardinality(N)
        /\ \E beta \in [Coalitions(N, f) -> Nat] :
             result.outcome.shares = CoalitionShares(N, beta)
    BY <2>1, <2>2, AdmittedShares
  <2> HIDE DEF N, f
  <2>4. PICK beta \in [Coalitions(N, f) -> Nat] : result.outcome.shares = CoalitionShares(N, beta)
    BY <2>3
  <2> QED BY <2>3, <2>4, SharesOfCoalitions DEF f
<1> QED BY <1>1, IInvHolds, PTL

-----------------------------------------------------------------------------
(* Places                                                                  *)

\* There is one domain with any number of domains before it.
LEMMA PlaceStands ==
  ASSUME NEW i \in Nat, i < Cardinality(Domains)
  PROVE  Place(i) \in Domains /\ Cardinality({e \in Domains : e < Place(i)}) = i
<1> DEFINE before(d) == {e \in Domains : e < d}
           late == {d \in Domains : Cardinality(before(d)) >= i}
           number == [d \in Domains |-> d]
<1>1. IsFiniteSet(Domains) /\ Domains \subseteq Nat /\ Cardinality(Domains) \in Nat
  BY CertificateAssumption, FS_CardinalityType DEF CertificateAssumption
<1>2. \A d \in Domains : IsFiniteSet(before(d)) /\ Cardinality(before(d)) \in Nat
  BY <1>1, FS_Subset, FS_CardinalityType
<1>3. \A S \in SUBSET Domains : S # {} =>
        /\ \E x \in S : \A y \in S : x <= y
        /\ \E x \in S : \A y \in S : y <= x
  <2> SUFFICES ASSUME NEW S \in SUBSET Domains, S # {}
               PROVE  /\ \E x \in S : \A y \in S : x <= y
                      /\ \E x \in S : \A y \in S : y <= x
    OBVIOUS
  <2>0. IsFiniteSet(S)
    BY <1>1, FS_Subset
  <2>1. \A x \in S : number[x] \in Int /\ number[x] = x
    BY <1>1
  <2> HIDE DEF number
  <2>2. \E x \in S : \A y \in S : number[x] <= number[y]
    BY <2>0, <2>1, LeastOf
  <2>3. \E x \in S : \A y \in S : number[y] <= number[x]
    BY <2>0, <2>1, GreatestOf
  <2> QED BY <2>1, <2>2, <2>3
<1>4. late # {}
  <2>1. Domains # {}
    BY FS_EmptySet
  <2>2. PICK top \in Domains : \A y \in Domains : y <= top
    BY <1>3, <2>1
  <2>3. before(top) = Domains \ {top}
    <3>1. \A y \in Domains : y < top <=> y # top
      BY <1>1, <2>2
    <3> QED BY <3>1
  <2>4. Cardinality(Domains \ {top}) = Cardinality(Domains) - 1
    BY <1>1, FS_RemoveElement
  <2>5. Cardinality(before(top)) >= i
    <3> HIDE DEF before
    <3> QED BY <1>1, <2>3, <2>4
  <2> QED BY <2>5
<1>5. PICK d \in late : \A y \in late : d <= y
  <2>1. late \in SUBSET Domains
    OBVIOUS
  <2> HIDE DEF late
  <2> QED BY <1>3, <1>4, <2>1
<1>6. Cardinality(before(d)) = i
  <2> SUFFICES ASSUME Cardinality(before(d)) # i PROVE FALSE
    OBVIOUS
  <2>1. d \in Domains /\ Cardinality(before(d)) > i
    BY <1>2
  <2>2. before(d) # {}
    <3> HIDE DEF before
    <3> QED BY <2>1, FS_EmptySet
  <2>3. PICK p \in before(d) : \A y \in before(d) : y <= p
    <3>1. before(d) \in SUBSET Domains
      OBVIOUS
    <3> HIDE DEF before
    <3> QED BY <1>3, <2>2, <3>1
  <2>4. p \in Domains /\ p < d
    OBVIOUS
  <2>5. before(p) = before(d) \ {p}
    <3>1. \A y \in Domains : y < d /\ y # p => y < p
      BY <1>1, <2>1, <2>3, <2>4
    <3>2. \A y \in Domains : y < p => y < d /\ y # p
      BY <1>1, <2>1, <2>4
    <3> QED BY <3>1, <3>2
  <2>6. Cardinality(before(p)) >= i
    <3>1. IsFiniteSet(before(d)) /\ Cardinality(before(d)) \in Nat /\ p \in before(d)
      BY <1>2, <2>1, <2>3
    <3> HIDE DEF before
    <3>2. Cardinality(before(d) \ {p}) = Cardinality(before(d)) - 1
      BY <3>1, FS_RemoveElement
    <3> QED BY <2>1, <2>5, <3>1, <3>2
  <2>7. p \in late
    BY <2>4, <2>6
  <2> HIDE DEF late, before
  <2> QED BY <1>1, <1>5, <2>1, <2>4, <2>7
<1>7. d \in Domains
  OBVIOUS
<1> HIDE DEF late
<1> QED BY <1>6, <1>7 DEF Place

\* The panel of a controlled world: the places after the source's.
LEMMA PlacesAreApart ==
  ASSUME NEW count \in Nat, count < Cardinality(Domains)
  PROVE  LET place == [i \in 1..count |-> Place(i)]
             domains == {Place(i) : i \in 1..count}
         IN /\ place \in Bijection(1..count, domains)
            /\ domains \subseteq Domains \ {Source}
            /\ IsFiniteSet(domains) /\ Cardinality(domains) = count
<1> DEFINE place == [i \in 1..count |-> Place(i)]
           domains == {Place(i) : i \in 1..count}
<1>1. Cardinality(Domains) \in Nat
  BY CertificateAssumption, FS_CardinalityType DEF CertificateAssumption
<1>2. \A i \in 1..count :
        Place(i) \in Domains /\ Cardinality({e \in Domains : e < Place(i)}) = i
  BY <1>1, PlaceStands
<1>3. place \in Bijection(1..count, domains)
  <2>1. \A i, j \in 1..count : Place(i) = Place(j) => i = j
    BY <1>2
  <2> QED BY <2>1 DEF Bijection, Injection, Surjection, IsInjective
<1>4. IsFiniteSet(1..count) /\ Cardinality(1..count) = count
  BY FS_Interval
<1>5. IsFiniteSet(domains) /\ Cardinality(domains) = count
  <2>1. ExistsBijection(1..count, domains)
    BY <1>3 DEF ExistsBijection
  <2> HIDE DEF domains
  <2> QED BY <1>4, <2>1, FS_Bijection
<1>6. Source \notin domains
  <2> SUFFICES ASSUME NEW i \in 1..count, Place(i) = Source PROVE FALSE
    OBVIOUS
  <2>1. Domains \subseteq Nat /\ IsFiniteSet(Domains) /\ Domains # {}
    BY <1>2, CertificateAssumption DEF CertificateAssumption
  <2>2. \E x \in Domains : \A y \in Domains : x <= y
    <3> DEFINE number == [d \in Domains |-> d]
    <3>1. \A x \in Domains : number[x] \in Int /\ number[x] = x
      BY <2>1
    <3> HIDE DEF number
    <3>2. \E x \in Domains : \A y \in Domains : number[x] <= number[y]
      BY <2>1, <3>1, LeastOf
    <3> QED BY <3>1, <3>2
  <2>3. Source \in Domains /\ \A y \in Domains : Source <= y
    BY <2>2 DEF Source, Least
  <2>4. {e \in Domains : e < Place(i)} = {}
    <3>1. \A e \in Domains : ~ (e < Source)
      BY <2>1, <2>3
    <3>2. Place(i) = Source
      OBVIOUS
    <3> QED BY <3>1, <3>2
  <2>5. Cardinality({e \in Domains : e < Place(i)}) = 0
    BY <2>4, FS_EmptySet
  <2> QED BY <1>2, <2>5
<1> QED BY <1>2, <1>3, <1>5, <1>6

-----------------------------------------------------------------------------
(* The controlled worlds                                                   *)

\* The verdict on a panel without harm: how many utilities lie below the floor.
LEMMA VerdictCounts ==
  ASSUME NEW input, IsAdmissionInput(input), HarmCeiling >= 0,
         ~ Malformed(input, Selected(input, TRUE)),
         \A d \in Selected(input, TRUE) : RowOf(input, d).harm = 0,
         NEW outcome \in Decide(input, "LEAVE_FAULT_CERTIFICATE", BetaValues)
  PROVE  LET N == Selected(input, TRUE)
         IN outcome.state = "ADMITTED" <=>
              /\ SupportIsSufficient(N, FaultBound)
              /\ Cardinality({d \in N : RowOf(input, d).utility < UtilityFloor})
                   <= (Cardinality(N) - FaultBound - 1) \div 2
<1> DEFINE N == Selected(input, TRUE)
           f == FaultBound
           value == Reported(input, TRUE, "utility")
           harms == Reported(input, TRUE, "harm")
           utility == CertificateUtility(value, Coalitions(N, f), TRUE)
           harm == CertificateHarm(harms, Coalitions(N, f))
           low == {d \in N : value[d] < UtilityFloor}
<1>1. SwitchesFor("LEAVE_FAULT_CERTIFICATE") = Full /\ "LEAVE_FAULT_CERTIFICATE" \in Judging
  BY DEF SwitchesFor, Judging
<1>2. /\ IsFiniteSet(N) /\ Cardinality(N) \in Nat
      /\ \A d \in N : value[d] \in Int /\ harms[d] = 0 /\ value[d] = RowOf(input, d).utility
  BY PanelNumbers
<1>3. f \in Nat /\ UtilityFloor \in Int /\ HarmCeiling \in Int
  BY CertificateAssumption DEF CertificateAssumption
<1>4. Decide(input, "LEAVE_FAULT_CERTIFICATE", BetaValues) =
        IF ~ SupportIsSufficient(N, f) THEN {Closed("DORMANT", Absent, Absent)}
        ELSE IF ~ ThresholdsPass(utility, harm, Cardinality(N) - f)
        THEN {Closed("REJECTED", {utility}, {harm})}
        ELSE Productions(input, "LEAVE_FAULT_CERTIFICATE", N, f, {utility}, {harm}, BetaValues)
  BY <1>1, JudgingSwitches DEF Decide, EffectiveFaultBound
<1>5. low = {d \in N : RowOf(input, d).utility < UtilityFloor}
  BY <1>2
<1>6. \A o \in Productions(input, "LEAVE_FAULT_CERTIFICATE", N, f, {utility}, {harm}, BetaValues) :
        o.state = "ADMITTED"
  <2> HIDE DEF N, f, utility, harm
  <2> QED BY <1>1 DEF Productions, Full, Admitted, Decision
<1>7. \A state, u, h : Closed(state, u, h).state = state
  BY DEF Closed, Decision
<1> HIDE DEF N, f, utility, harm, value, harms
<1>8. SupportIsSufficient(N, f) => f < Cardinality(N)
  BY <1>2, <1>3 DEF SupportIsSufficient
<1>9. ASSUME f < Cardinality(N)
      PROVE  ThresholdsPass(utility, harm, Cardinality(N) - f)
               <=> Cardinality(low) <= (Cardinality(N) - f - 1) \div 2
  <2> DEFINE bound == (Cardinality(N) - f - 1) \div 2
  <2>0. \A C \in Coalitions(N, f) :
          C \subseteq N /\ IsFiniteSet(C) /\ C # {} /\ Cardinality(C) = Cardinality(N) - f
    BY <1>2, <1>3, <1>9, CoalitionsFinite
  <2>1. harm <= HarmCeiling
    <3>1. ASSUME NEW C \in Coalitions(N, f) PROVE UpperMedian(harms, C) <= HarmCeiling
      <4>1. {d \in C : harms[d] > HarmCeiling} = {}
        BY <1>2, <1>3, <2>0
      <4>2. Cardinality({d \in C : harms[d] > HarmCeiling}) <= (Cardinality(C) - 1) \div 2
        <5>1. Cardinality({d \in C : harms[d] > HarmCeiling}) = 0
          BY <4>1, FS_EmptySet
        <5>2. Cardinality(C) = Cardinality(N) - f
          BY <2>0
        <5>3. 0 <= (Cardinality(N) - f - 1) \div 2
          BY <1>2, <1>3, <1>9
        <5> QED BY <5>1, <5>2, <5>3
      <4>3. \A d \in C : harms[d] \in Int
        BY <1>2, <2>0
      <4> QED BY <1>3, <2>0, <4>2, <4>3, UpperMedianClears
    <3>2. \A d \in N : harms[d] \in Int
      BY <1>2
    <3> QED BY <1>2, <1>3, <1>9, <3>1, <3>2, WorstHarm DEF harm
  <2>2. utility >= (Cardinality(N) - f) * UtilityFloor
          <=> \A C \in Coalitions(N, f) : LowerMedian(value, C) >= UtilityFloor
    BY <1>2, <1>3, <1>9, WorstUtility DEF utility
  <2>3. ASSUME NEW C \in Coalitions(N, f)
        PROVE  LowerMedian(value, C) >= UtilityFloor <=> Cardinality(C \intersect low) <= bound
    <3>1. {d \in C : value[d] < UtilityFloor} = C \intersect low
      BY <2>0
    <3>2. \A d \in C : value[d] \in Int
      BY <1>2, <2>0
    <3> HIDE DEF low
    <3> QED BY <1>3, <2>0, <3>1, <3>2, LowerMedianClears
  <2>4. (\A C \in Coalitions(N, f) : Cardinality(C \intersect low) <= bound)
          <=> Cardinality(low) <= bound
    <3>1. low \in SUBSET N
      OBVIOUS
    <3> HIDE DEF low
    <3>2. ASSUME \A C \in Coalitions(N, f) : Cardinality(C \intersect low) <= bound
          PROVE  Cardinality(low) <= bound
      BY <1>2, <1>3, <1>9, <3>1, <3>2, FewEverywhere
    <3>3. ASSUME Cardinality(low) <= bound, NEW C \in Coalitions(N, f)
          PROVE  Cardinality(C \intersect low) <= bound
      <4>1. IsFiniteSet(low) /\ C \intersect low \in SUBSET low
        BY <1>2, <3>1, FS_Subset
      <4>2. /\ Cardinality(C \intersect low) <= Cardinality(low) /\ Cardinality(low) \in Nat
            /\ Cardinality(C \intersect low) \in Nat
        BY <4>1, FS_Subset, FS_CardinalityType
      <4>3. bound \in Int
        BY <1>2, <1>3
      <4> HIDE DEF bound
      <4> QED BY <3>3, <4>2, <4>3
    <3> QED BY <3>2, <3>3
  <2> QED BY <2>1, <2>2, <2>3, <2>4 DEF ThresholdsPass
<1> HIDE DEF low
<1>10. outcome.state = "ADMITTED" <=>
         SupportIsSufficient(N, f) /\ Cardinality(low) <= (Cardinality(N) - f - 1) \div 2
  <2>1. CASE ~ SupportIsSufficient(N, f)
    BY <1>4, <1>7, <2>1
  <2>2. CASE SupportIsSufficient(N, f) /\ ~ ThresholdsPass(utility, harm, Cardinality(N) - f)
    <3>1. outcome = Closed("REJECTED", {utility}, {harm})
      BY <1>4, <2>2
    <3> QED BY <1>7, <1>8, <1>9, <2>2, <3>1
  <2>3. CASE SupportIsSufficient(N, f) /\ ThresholdsPass(utility, harm, Cardinality(N) - f)
    BY <1>4, <1>6, <1>8, <1>9, <2>3
  <2> QED BY <2>1, <2>2, <2>3
<1> QED BY <1>5, <1>10 DEF N, f

\* What the controlled worlds take for granted of their settings.
WorldsFit ==
  /\ FaultBound = 1 /\ MinimumSupport \in 3..7 /\ HarmCeiling >= 0
  /\ Cardinality(Domains) >= 8 /\ ScreenDomains \in 2..3
  /\ OpeningGain < UtilityFloor /\ 75 < UtilityFloor

Pairs == {<<a, b>> : a, b \in Int}

LEMMA UpdatesOfWorlds ==
  ASSUME NEW world \in DOMAIN Worlds, NEW i \in 1..Worlds[world].count
  PROVE  Geometry(Worlds[world].geometry, i) \in Pairs
<1> DEFINE kind == Worlds[world].geometry
<1>1. /\ kind \in {"HONEST", "KRUM", "FAULT", "COPIED", "DISAGREEING", "CONSTANT"}
      /\ i \in 1..7
  BY DEF Worlds, World
<1> SUFFICES Geometry(kind, i) \in Pairs
  OBVIOUS
<1> HIDE DEF kind
<1>0. \A a, b \in Int : <<a, b>> \in Pairs
  BY DEF Pairs
<1>2. CASE kind \in {"COPIED", "DISAGREEING", "CONSTANT"}
  <2>1. Geometry(kind, i) \in {<<100, 100>>, <<80, 80>>, <<-80, -80>>, <<5, 5>>}
    BY <1>2 DEF Geometry
  <2> QED BY <1>0, <2>1
<1>3. CASE kind = "HONEST"
  <2>1. Geometry(kind, i) \in
          {<<0, 10>>, <<0, -10>>, <<10, 0>>, <<-10, 0>>, <<5, 5>>, <<5, -5>>, <<10, 10>>}
    <3>1. Geometry(kind, i) =
            <<<<0, 10>>, <<0, -10>>, <<10, 0>>, <<-10, 0>>, <<5, 5>>, <<5, -5>>, <<10, 10>>>>[i]
      BY <1>3 DEF Geometry
    <3>2. \/ i = 1 \/ i = 2 \/ i = 3 \/ i = 4 \/ i = 5 \/ i = 6 \/ i = 7
      BY <1>1
    <3> QED BY <3>1, <3>2
  <2> QED BY <1>0, <2>1 DEF Malicious
<1>4. CASE kind = "KRUM"
  <2>1. Geometry(kind, i) \in
          {<<0, 10>>, <<0, -10>>, <<10, 0>>, <<-10, 0>>, <<80, 80>>, <<-80, -80>>, Malicious}
    <3>1. Geometry(kind, i) =
            <<<<0, 10>>, <<0, -10>>, <<10, 0>>, <<-10, 0>>, <<80, 80>>, <<-80, -80>>, Malicious>>[i]
      BY <1>4 DEF Geometry
    <3>2. \/ i = 1 \/ i = 2 \/ i = 3 \/ i = 4 \/ i = 5 \/ i = 6 \/ i = 7
      BY <1>1
    <3> QED BY <3>1, <3>2
  <2> QED BY <1>0, <2>1 DEF Malicious
<1>5. CASE kind = "FAULT"
  <2>1. Geometry(kind, i) \in
          {<<0, 10>>, <<0, -10>>, <<10, 0>>, <<-10, 0>>, <<5, 5>>, <<5, -5>>, Malicious}
    <3>1. Geometry(kind, i) =
            <<<<0, 10>>, <<0, -10>>, <<10, 0>>, <<-10, 0>>, <<5, 5>>, <<5, -5>>, Malicious>>[i]
      BY <1>5 DEF Geometry
    <3>2. \/ i = 1 \/ i = 2 \/ i = 3 \/ i = 4 \/ i = 5 \/ i = 6 \/ i = 7
      BY <1>1
    <3> QED BY <3>1, <3>2
  <2> QED BY <1>0, <2>1 DEF Malicious
<1> QED BY <1>1, <1>2, <1>3, <1>4, <1>5

\* The panel that a controlled world puts before the certificate.
LEMMA WorldPanel ==
  ASSUME Cardinality(Domains) >= 8, NEW world \in DOMAIN Worlds, NEW screened
  PROVE  LET input == ControlledCase(world, screened).input
             count == Worlds[world].count
             N == {Place(i) : i \in 1..count}
         IN /\ Selected(input, TRUE) = N
            /\ ~ Malformed(input, N)
            /\ \A d \in N : RowOf(input, d).harm = 0
            /\ \A i \in 1..count :
                 RowOf(input, Place(i)).utility
                   = Utility(Worlds[world].utilities, i, Place(i), screened)
<1> DEFINE input == ControlledCase(world, screened).input
           count == Worlds[world].count
           N == {Place(i) : i \in 1..count}
           place == [i \in 1..count |-> Place(i)]
           At(d) == CHOOSE i \in 1..count : Place(i) = d
<1>1. count \in 1..7
  BY DEF Worlds, World
<1>2. Cardinality(Domains) \in Nat
  BY CertificateAssumption, FS_CardinalityType DEF CertificateAssumption
<1>3. place \in Bijection(1..count, N) /\ N \subseteq Domains \ {Source} /\ Cardinality(N) = count
  <2>1. count \in Nat /\ count < Cardinality(Domains)
    BY <1>1, <1>2
  <2> HIDE DEF count
  <2> QED BY <2>1, PlacesAreApart
<1>4. \A i, j \in 1..count : Place(i) = Place(j) => i = j
  BY <1>3 DEF Bijection, Injection, IsInjective
<1>5. \A i \in 1..count : At(Place(i)) = i
  BY <1>4
<1>6. /\ input.source = Source /\ DOMAIN input.evidence = N /\ input.repeated = {}
      /\ \A d \in N :
           input.evidence[d] = Row(Geometry(Worlds[world].geometry, At(d)),
                                   Utility(Worlds[world].utilities, At(d), d, screened), 0)
  BY DEF ControlledCase
<1> HIDE DEF input, At
<1>7. Selected(input, TRUE) = N
  <2> HIDE DEF N
  <2> QED BY <1>3, <1>6 DEF Selected, Independent
<1>8. \A d \in N : RowOf(input, d) = input.evidence[d]
  <2> HIDE DEF N
  <2> QED BY <1>3, <1>6 DEF RowOf
<1>9. ASSUME NEW i \in 1..count
      PROVE  /\ RowOf(input, Place(i)).harm = 0
             /\ RowOf(input, Place(i)).utility
                  = Utility(Worlds[world].utilities, i, Place(i), screened)
             /\ RowOf(input, Place(i)).update = Geometry(Worlds[world].geometry, i)
  <2>1. Place(i) \in N
    OBVIOUS
  <2>2. RowOf(input, Place(i)) = Row(Geometry(Worlds[world].geometry, i),
                                     Utility(Worlds[world].utilities, i, Place(i), screened), 0)
    <3> HIDE DEF N, count
    <3> QED BY <1>5, <1>6, <1>8, <2>1
  <2> HIDE DEF count
  <2> QED BY <2>2 DEF Row
<1>10. \A d \in N : RowOf(input, d).harm = 0
  BY <1>9
<1>11. ASSUME NEW d \in N
       PROVE  RowOf(input, d).update # <<>> /\ DOMAIN RowOf(input, d).update = 1..2
  <2>1. PICK i \in 1..count : d = Place(i)
    OBVIOUS
  <2>2. RowOf(input, d).update = Geometry(Worlds[world].geometry, i)
    BY <1>9, <2>1
  <2>3. PICK a \in Int, b \in Int : Geometry(Worlds[world].geometry, i) = <<a, b>>
    BY UpdatesOfWorlds DEF Pairs
  <2> QED BY <2>2, <2>3
<1>12. N # {}
  BY <1>1
<1>13. ~ Malformed(input, N)
  <2> HIDE DEF N, count
  <2> QED BY <1>6, <1>11, <1>12 DEF Malformed
<1> QED BY <1>7, <1>9, <1>10, <1>13 DEF input

\* The first n screened domains are n domains at most.
LEMMA FewAreFirst ==
  ASSUME NEW screened, NEW n \in Nat
  PROVE  LET first == {screened[k] : k \in 1..n}
         IN IsFiniteSet(first) /\ Cardinality(first) \in Nat /\ Cardinality(first) <= n
<1> DEFINE first == {screened[k] : k \in 1..n}
           named == [k \in 1..n |-> screened[k]]
<1>1. named \in Surjection(1..n, first)
  BY DEF Surjection
<1>2. IsFiniteSet(1..n) /\ Cardinality(1..n) = n
  BY FS_Interval
<1> HIDE DEF first, named
<1>3. IsFiniteSet(first) /\ Cardinality(first) <= n
  BY <1>1, <1>2, FS_Surjection
<1> QED BY <1>3, FS_CardinalityType DEF first

LEMMA OthersAreMany ==
  ASSUME NEW N, IsFiniteSet(N), NEW first, IsFiniteSet(first), NEW n \in Nat,
         Cardinality(first) <= n
  PROVE  Cardinality(N \ first) >= Cardinality(N) - n
<1>1. /\ Cardinality(N \ first) = Cardinality(N) - Cardinality(N \intersect first)
      /\ Cardinality(N) \in Nat
  BY FS_Difference, FS_CardinalityType
<1>2. Cardinality(N \intersect first) <= Cardinality(first)
      /\ Cardinality(N \intersect first) \in Nat /\ Cardinality(first) \in Nat
  <2>1. N \intersect first \in SUBSET first
    OBVIOUS
  <2> QED BY <2>1, FS_Subset, FS_CardinalityType
<1> QED BY <1>1, <1>2

\* Which worlds are useful, by how many domains report what.
LEMMA WorldsByPattern ==
  ASSUME NEW world \in DOMAIN Worlds
  PROVE  LET spec == Worlds[world]
         IN \/ spec.useful = TRUE /\ spec.count = 7
                 /\ spec.utilities \in {"HIGH", "ONE_SCREEN_LOW", "TWO_SCREEN_LOW"}
            \/ spec.useful = FALSE /\ spec.count = 2
            \/ spec.useful = FALSE /\ spec.count = 7
                 /\ spec.utilities \in {"OPENING", "ALTERNATING", "ONE_HIGH", "TWO_SCREEN_HIGH"}
            \/ spec.useful = FALSE /\ spec.count = 5
                 /\ spec.utilities \in {"CONFLICT", "GAP"}
BY DEF Worlds, World

LEMMA TwoOf ==
  ASSUME NEW a, NEW b, a # b
  PROVE  IsFiniteSet({a, b}) /\ Cardinality({a, b}) = 2
<1>1. IsFiniteSet({a}) /\ Cardinality({a}) = 1
  BY FS_Singleton
<1>2. {a} \union {b} = {a, b} /\ b \notin {a}
  OBVIOUS
<1>3. IsFiniteSet({a, b}) /\ Cardinality({a, b}) = 1 + 1
  BY <1>1, <1>2, FS_AddElement
<1> QED BY <1>3

LEMMA ThreeOf ==
  ASSUME NEW a, NEW b, NEW c, a # b, a # c, b # c
  PROVE  Cardinality({a, b, c}) = 3
<1>1. {a, b} \union {c} = {a, b, c} /\ c \notin {a, b}
  OBVIOUS
<1>2. IsFiniteSet({a, b}) /\ Cardinality({a, b}) = 2
  BY TwoOf
<1>3. Cardinality({a, b, c}) = 2 + 1
  BY <1>1, <1>2, FS_AddElement
<1> QED BY <1>3

LEMMA MoreThanAPart ==
  ASSUME NEW S, IsFiniteSet(S), NEW part \in SUBSET S
  PROVE  Cardinality(part) <= Cardinality(S)
         /\ Cardinality(part) \in Nat /\ Cardinality(S) \in Nat
BY FS_Subset, FS_CardinalityType

\* In a useful world few domains report low, in any other too few report high.
LEMMA LowOfWorlds ==
  ASSUME WorldsFit, NEW world \in DOMAIN Worlds,
         NEW screened \in ScreenOrders({Place(i) : i \in 1..Worlds[world].count})
  PROVE  LET input == ControlledCase(world, screened).input
             N == Selected(input, TRUE)
             low == {d \in N : RowOf(input, d).utility < UtilityFloor}
         IN /\ IsFiniteSet(N) /\ Cardinality(N) = Worlds[world].count
            /\ Worlds[world].useful = TRUE => Worlds[world].count = 7 /\ Cardinality(low) <= 2
            /\ Worlds[world].useful = FALSE =>
                 \/ Worlds[world].count = 2
                 \/ Worlds[world].count = 7 /\ Cardinality(low) >= 3
                 \/ Worlds[world].count = 5 /\ Cardinality(low) >= 2
<1> DEFINE input == ControlledCase(world, screened).input
           pattern == Worlds[world].utilities
           useful == Worlds[world].useful
           count == Worlds[world].count
           N == {Place(i) : i \in 1..count}
           U(i) == Utility(pattern, i, Place(i), screened)
           low == {d \in N : RowOf(input, d).utility < UtilityFloor}
           First(n) == {screened[k] : k \in 1..n}
<1>1. count \in {2, 5, 7} /\ count \in Nat
  <2>1. count \in {2, 5, 7}
    BY DEF Worlds, World
  <2> HIDE DEF count
  <2> QED BY <2>1
<1>2. Cardinality(Domains) \in Nat /\ UtilityFloor \in Int /\ OpeningGain \in Int
  BY CertificateAssumption, OpeningAssumption, FS_CardinalityType
  DEF CertificateAssumption, OpeningAssumption
<1>3. /\ IsFiniteSet(N) /\ Cardinality(N) = count /\ N \subseteq Domains
      /\ \A i, j \in 1..count : Place(i) = Place(j) => i = j
  <2>1. count < Cardinality(Domains)
    BY <1>1, <1>2 DEF WorldsFit
  <2>2. \A i, j \in 1..count :
          [k \in 1..count |-> Place(k)][i] = [k \in 1..count |-> Place(k)][j] => i = j
    <3> HIDE DEF count
    <3> QED BY <1>1, <2>1, PlacesAreApart DEF Bijection, Injection, IsInjective
  <2> HIDE DEF count
  <2>3. IsFiniteSet(N) /\ Cardinality(N) = count /\ N \subseteq Domains
    BY <1>1, <2>1, PlacesAreApart
  <2> QED BY <2>2, <2>3
<1>4. Selected(input, TRUE) = N /\ \A i \in 1..count : RowOf(input, Place(i)).utility = U(i)
  BY WorldPanel DEF WorldsFit
<1> HIDE DEF input
<1>5. \A i \in 1..count : Place(i) \in low <=> U(i) < UtilityFloor
  BY <1>4
<1>6. low \subseteq N /\ IsFiniteSet(low)
  BY <1>3, FS_Subset
<1>7. \A d \in N : \E i \in 1..count : d = Place(i)
  OBVIOUS
<1>8. Low < UtilityFloor
  BY <1>2 DEF WorldsFit, Low
<1> HIDE DEF low, N, count, pattern, useful
<1>9. ASSUME count = 7, pattern \in {"HIGH", "ONE_SCREEN_LOW", "TWO_SCREEN_LOW"}
      PROVE  Cardinality(low) <= 2
  <2>1. \A i \in 1..count : U(i) # UtilityFloor => Place(i) \in First(2)
    <3>1. CASE pattern = "HIGH"
      BY <3>1 DEF Utility
    <3>2. CASE pattern = "ONE_SCREEN_LOW"
      BY <3>2 DEF Utility
    <3>3. CASE pattern = "TWO_SCREEN_LOW"
      BY <3>3 DEF Utility
    <3> QED BY <1>9, <3>1, <3>2, <3>3
  <2>2. low \subseteq First(2)
    <3> HIDE DEF U
    <3>1. ~ (UtilityFloor < UtilityFloor)
      BY <1>2
    <3> QED BY <1>5, <1>6, <1>7, <2>1, <3>1
  <2>3. IsFiniteSet(First(2)) /\ Cardinality(First(2)) <= 2
    BY FewAreFirst
  <2> HIDE DEF First
  <2>4. Cardinality(low) <= Cardinality(First(2))
        /\ Cardinality(low) \in Nat /\ Cardinality(First(2)) \in Nat
    BY <2>2, <2>3, MoreThanAPart
  <2> QED BY <2>3, <2>4
<1>10. ASSUME count = 7, pattern \in {"OPENING", "ALTERNATING", "ONE_HIGH"}
       PROVE  Cardinality(low) >= 3
  <2>1. ASSUME NEW i \in {2, 4, 6} PROVE Place(i) \in low
    <3>1. U(i) < UtilityFloor
      <4>1. CASE pattern = "OPENING"
        BY <4>1 DEF Utility, WorldsFit
      <4>2. CASE pattern = "ALTERNATING"
        <5>1. i % 2 # 1
          OBVIOUS
        <5> QED BY <1>8, <4>2, <5>1 DEF Utility
      <4>3. CASE pattern = "ONE_HIGH"
        BY <1>8, <4>3 DEF Utility
      <4> QED BY <1>10, <4>1, <4>2, <4>3
    <3>2. i \in 1..count
      BY <1>10
    <3> HIDE DEF U
    <3> QED BY <1>5, <3>1, <3>2
  <2> DEFINE part == {Place(2), Place(4), Place(6)}
  <2>2. Cardinality(part) = 3
    <3>1. 2 \in 1..count /\ 4 \in 1..count /\ 6 \in 1..count
      BY <1>10
    <3>2. Place(2) # Place(4) /\ Place(2) # Place(6) /\ Place(4) # Place(6)
      BY <1>3, <3>1
    <3> QED BY <3>2, ThreeOf
  <2>3. part \in SUBSET low
    BY <2>1
  <2> HIDE DEF part
  <2> QED BY <1>6, <2>2, <2>3, MoreThanAPart
<1>11. ASSUME NEW n \in Nat, count >= n, \A i \in 1..count : Place(i) \notin First(n) => U(i) < UtilityFloor
       PROVE  Cardinality(low) >= count - n
  <2> DEFINE part == N \ First(n)
  <2>1. part \in SUBSET low
    <3> HIDE DEF U
    <3> QED BY <1>5, <1>7, <1>11
  <2>2. Cardinality(part) >= count - n
    <3>1. IsFiniteSet(First(n)) /\ Cardinality(First(n)) <= n
      BY FewAreFirst
    <3> HIDE DEF First
    <3> QED BY <1>3, <3>1, OthersAreMany
  <2> HIDE DEF part
  <2> QED BY <1>1, <1>6, <2>1, <2>2, MoreThanAPart
<1>12. ASSUME count = 7, pattern = "TWO_SCREEN_HIGH" PROVE Cardinality(low) >= 3
  <2>1. \A i \in 1..count : Place(i) \notin First(2) => U(i) < UtilityFloor
    BY <1>8, <1>12 DEF Utility
  <2>2. Cardinality(low) >= count - 2
    <3> HIDE DEF U, First
    <3> QED BY <1>11, <1>12, <2>1
  <2> QED BY <1>6, <1>12, <2>2, FS_CardinalityType
<1>13. ASSUME count = 5, pattern = "CONFLICT" PROVE Cardinality(low) >= 2
  <2>1. Len(screened) \in 2..3
    <3>1. screened \in [1..ScreenCount(N) -> N]
      BY <1>3, ScreenAssumption DEF ScreenAssumption, N, count
    <3>2. ScreenCount(N) \in 2..3
      BY <1>3, <1>13 DEF ScreenCount, WorldsFit
    <3>3. Len(screened) = ScreenCount(N)
      BY <3>1, <3>2
    <3> QED BY <3>2, <3>3
  <2>2. \A i \in 1..count : Place(i) \notin First(Len(screened)) => U(i) < UtilityFloor
    BY <1>8, <1>13 DEF Utility
  <2>3. Cardinality(low) >= count - Len(screened)
    <3> DEFINE n == Len(screened)
    <3>1. n \in 2..3 /\ \A i \in 1..count : Place(i) \notin First(n) => U(i) < UtilityFloor
      BY <2>1, <2>2
    <3> HIDE DEF U, First, n
    <3>2. n \in Nat /\ count >= n
      BY <1>13, <3>1
    <3>3. Cardinality(low) >= count - n
      BY <1>11, <3>1, <3>2
    <3> QED BY <3>3 DEF n
  <2>4. Cardinality(low) \in Nat
    BY <1>6, FS_CardinalityType
  <2>5. \A n \in 2..3, c \in Nat : c >= 5 - n => c >= 2
    OBVIOUS
  <2> QED BY <1>13, <2>1, <2>3, <2>4, <2>5
<1>14. ASSUME count = 5, pattern = "GAP" PROVE Cardinality(low) >= 2
  <2>1. ASSUME NEW i \in {1, 2} PROVE Place(i) \in low
    <3>1. U(i) = <<75, 75, 100, 100, 100>>[i]
      BY <1>14 DEF Utility
    <3>2. U(i) = 75
      <4>1. i = 1 \/ i = 2
        OBVIOUS
      <4> HIDE DEF U
      <4> QED BY <3>1, <4>1
    <3>3. U(i) < UtilityFloor /\ i \in 1..count
      <4> HIDE DEF U
      <4> QED BY <1>14, <3>2 DEF WorldsFit
    <3> HIDE DEF U
    <3> QED BY <1>5, <3>3
  <2> DEFINE part == {Place(1), Place(2)}
  <2>2. Cardinality(part) = 2
    <3>1. Place(1) # Place(2)
      <4>1. 1 \in 1..count /\ 2 \in 1..count
        BY <1>14
      <4> QED BY <1>3, <4>1
    <3> QED BY <3>1, TwoOf
  <2>3. part \in SUBSET low
    BY <2>1
  <2> HIDE DEF part
  <2> QED BY <1>6, <2>2, <2>3, MoreThanAPart
<1>15. \/ useful = TRUE /\ count = 7 /\ Cardinality(low) <= 2
       \/ useful = FALSE /\ (\/ count = 2
                             \/ count = 7 /\ Cardinality(low) >= 3
                             \/ count = 5 /\ Cardinality(low) >= 2)
  <2> HIDE DEF U, First
  <2>1. \/ useful = TRUE /\ count = 7 /\ pattern \in {"HIGH", "ONE_SCREEN_LOW", "TWO_SCREEN_LOW"}
        \/ useful = FALSE /\ count = 2
        \/ useful = FALSE /\ count = 7
             /\ pattern \in {"OPENING", "ALTERNATING", "ONE_HIGH", "TWO_SCREEN_HIGH"}
        \/ useful = FALSE /\ count = 5 /\ pattern \in {"CONFLICT", "GAP"}
    BY WorldsByPattern DEF useful, count, pattern
  <2> QED BY <2>1, <1>9, <1>10, <1>12, <1>13, <1>14
<1> QED BY <1>3, <1>4, <1>15 DEF low, useful, count, input

\* A certificate on a controlled world.
LEMMA WorldVerdict ==
  ASSUME WorldsFit, NEW world \in DOMAIN Worlds,
         NEW screened \in ScreenOrders({Place(i) : i \in 1..Worlds[world].count}),
         NEW outcome \in Decide(ControlledCase(world, screened).input,
                                "LEAVE_FAULT_CERTIFICATE", BetaValues)
  PROVE  outcome.state = "ADMITTED" <=> Worlds[world].useful
<1> DEFINE input == ControlledCase(world, screened).input
           N == Selected(input, TRUE)
           low == {d \in N : RowOf(input, d).utility < UtilityFloor}
           count == Worlds[world].count
<1>1. IsAdmissionInput(input)
  BY ControlledCaseIsCase DEF IsCase
<1>2. ~ Malformed(input, N) /\ \A d \in N : RowOf(input, d).harm = 0
  BY WorldPanel DEF WorldsFit
<1>3. /\ IsFiniteSet(N) /\ Cardinality(N) = count
      /\ Worlds[world].useful = TRUE => count = 7 /\ Cardinality(low) <= 2
      /\ Worlds[world].useful = FALSE =>
           count = 2 \/ (count = 7 /\ Cardinality(low) >= 3) \/ (count = 5 /\ Cardinality(low) >= 2)
  BY LowOfWorlds
<1>4. Worlds[world].useful \in BOOLEAN
  BY WorldsByPattern
<1> HIDE DEF input
<1>5. outcome.state = "ADMITTED" <=>
        SupportIsSufficient(N, FaultBound) /\ Cardinality(low) <= (Cardinality(N) - FaultBound - 1) \div 2
  <2>1. HarmCeiling >= 0 /\ outcome \in Decide(input, "LEAVE_FAULT_CERTIFICATE", BetaValues)
    BY DEF WorldsFit, input
  <2> QED BY <1>1, <1>2, <2>1, VerdictCounts
<1>6. IsFiniteSet(low) /\ Cardinality(low) \in Nat
  BY <1>3, FS_Subset, FS_CardinalityType
<1> DEFINE lows == Cardinality(low)
<1>7. outcome.state = "ADMITTED" <=>
        count >= MinimumSupport /\ count >= 3 /\ lows <= (count - 2) \div 2
  <2> HIDE DEF low, N
  <2>1. FaultBound = 1
    BY DEF WorldsFit
  <2> HIDE DEF count
  <2> QED BY <1>3, <1>5, <2>1 DEF SupportIsSufficient
<1>8. MinimumSupport \in 3..7 /\ lows \in Nat
  BY <1>6 DEF WorldsFit
<1> HIDE DEF count, lows, low, N
<1>9. CASE Worlds[world].useful = TRUE
  <2>1. count = 7 /\ lows <= 2
    BY <1>3, <1>9 DEF lows
  <2> QED BY <1>7, <1>8, <1>9, <2>1
<1>10. CASE Worlds[world].useful = FALSE
  <2>1. count = 2 \/ (count = 7 /\ lows >= 3) \/ (count = 5 /\ lows >= 2)
    BY <1>3, <1>10 DEF lows
  <2> QED BY <1>7, <1>8, <1>10, <2>1
<1> QED BY <1>4, <1>9, <1>10

\* Cases are those that were prepared.
LEMMA CasesStand == Spec => [](case \in ControlledCases \union OtherCases)
<1>1. Init => case \in ControlledCases \union OtherCases
  BY DEF Init
<1>2. case \in ControlledCases \union OtherCases /\ [Next]_vars
        => (case \in ControlledCases \union OtherCases)'
  <2>1. [Next]_vars => case' = case
    BY DEF Next, ExecuteAdmissionCase, vars
  <2>2. ASSUME case' = case PROVE ControlledCases' = ControlledCases /\ OtherCases' = OtherCases
    BY DEF ControlledCases, OtherCases
  <2> QED BY <2>1, <2>2
<1> QED BY <1>1, <1>2, PTL DEF Spec

\* controlled_admission_case and decide_leave_fault_certificate: on eight domains
\* or more and whatever screens a seed draws, one tolerated fault lets the
\* certificate admit the worlds that are useful and refuse all others.
THEOREM CertificateAlwaysSeparates ==
  ASSUME FaultBound = 1, MinimumSupport \in 3..7, HarmCeiling >= 0,
         Cardinality(Domains) >= 8, ScreenDomains \in 2..3,
         OpeningGain < UtilityFloor, 75 < UtilityFloor
  PROVE  Spec => []CertificateSeparatesWorlds
<1>1. IInv /\ case \in ControlledCases \union OtherCases => CertificateSeparatesWorlds
  <2> SUFFICES ASSUME IInv, case \in ControlledCases \union OtherCases,
                      result.method = "LEAVE_FAULT_CERTIFICATE", case.world # "NONE"
               PROVE  result.outcome.state = "ADMITTED" <=> Worlds[case.world].useful
    BY DEF CertificateSeparatesWorlds
  <2>1. case \notin OtherCases
    BY DEF OtherCases
  <2> DEFINE Orders(w) == ScreenOrders({Place(i) : i \in 1..Worlds[w].count})
             CasesOf(w) == {ControlledCase(w, screened) : screened \in Orders(w)}
  <2>2. ControlledCases = UNION {CasesOf(w) : w \in DOMAIN Worlds}
    BY DEF ControlledCases
  <2> HIDE DEF CasesOf
  <2>3. PICK world \in DOMAIN Worlds : case \in CasesOf(world)
    BY <2>1, <2>2
  <2>4. PICK screened \in Orders(world) : case = ControlledCase(world, screened)
    BY <2>3 DEF CasesOf
  <2>5. case.world = world /\ case.input = ControlledCase(world, screened).input
    <3>1. ControlledCase(world, screened).world = world
      BY DEF ControlledCase
    <3> QED BY <2>4, <3>1
  <2>6. result.outcome \in Decide(case.input, "LEAVE_FAULT_CERTIFICATE", BetaValues)
    BY CertificateResult DEF Judging
  <2>7. WorldsFit
    BY DEF WorldsFit
  <2> QED BY <2>4, <2>5, <2>6, <2>7, WorldVerdict
<1> QED BY <1>1, IInvHolds, CasesStand, PTL
=============================================================================
