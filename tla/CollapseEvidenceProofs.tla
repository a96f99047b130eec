----------------------- MODULE CollapseEvidenceProofs -----------------------
(***************************************************************************)
(* What CollapseEvidence does for any number of master seeds, any outcomes *)
(* of the cells, any significance level and any order of the names.        *)
(*                                                                         *)
(* The core is Holm's procedure: an adjusted p-value is significant        *)
(* exactly when the closed test rejects (AdjustedIsClosed).  The closed    *)
(* test only gets easier when p-values fall, and a missing p-value enters  *)
(* as the greatest there is, so completing a family takes nothing away.    *)
(***************************************************************************)
EXTENDS ClaimDecisions, FiniteSetTheorems, WellFoundedInduction, TLAPS

-----------------------------------------------------------------------------
(* Least and greatest numbers                                              *)

LEMMA Least ==
  ASSUME NEW T, T \subseteq Nat, T # {}
  PROVE  \E x \in T : \A y \in T : x <= y
<1> DEFINE U == {0..x : x \in T}
<1>1. U # {} /\ U \subseteq FiniteSubsetsOf(Nat)
  <2>1. ASSUME NEW x \in T PROVE 0..x \in FiniteSubsetsOf(Nat)
    <3>1. x \in Int /\ 0 \in Int
      OBVIOUS
    <3>2. IsFiniteSet(0..x)
      BY <3>1, FS_Interval
    <3> QED BY <3>1, <3>2 DEF FiniteSubsetsOf
  <2> QED BY <2>1
<1>2. \E u \in U : \A v \in U : ~ (<<v, u>> \in StrictSubsetOrdering(Nat))
  BY <1>1, FS_StrictSubsetOrderingWellFounded, WFMin
<1>3. PICK x \in T : \A y \in T : ~ (<<0..y, 0..x>> \in StrictSubsetOrdering(Nat))
  BY <1>2
<1>4. ASSUME NEW y \in T, y < x PROVE FALSE
  <2>1. y \in Nat /\ x \in Nat
    OBVIOUS
  <2>2. 0..y \subseteq 0..x /\ 0..y # 0..x /\ 0..y \in SUBSET Nat /\ 0..x \in SUBSET Nat
    BY <2>1, <1>4
  <2> QED BY <2>2, <1>3 DEF StrictSubsetOrdering
<1> QED BY <1>4

LEMMA MaxIsGreatest ==
  ASSUME NEW T, T \subseteq Nat, T # {}, NEW bound \in Nat, \A x \in T : x <= bound
  PROVE  Max(T) \in T /\ \A y \in T : y <= Max(T)
<1> DEFINE Distance == {bound - x : x \in T}
<1>1. Distance \subseteq Nat /\ Distance # {}
  <2>1. \A x \in T : x \in Nat /\ bound - x \in Nat
    OBVIOUS
  <2> QED BY <2>1
<1>2. PICK least \in Distance : \A y \in Distance : least <= y
  BY <1>1, Least
<1>3. PICK greatest \in T : least = bound - greatest
  OBVIOUS
<1>4. ASSUME NEW y \in T PROVE greatest >= y
  <2>1. bound - greatest <= bound - y
    BY <1>2, <1>3
  <2> QED BY <2>1
<1>5. \E x \in T : \A y \in T : x >= y
  BY <1>4
<1>6. Max(T) \in T /\ \A y \in T : Max(T) >= y
  BY <1>5 DEF Max
<1>7. Max(T) \in Nat
  BY <1>6
<1> QED BY <1>6, <1>7

LEMMA ProductsGrow ==
  ASSUME NEW k \in Nat, NEW a \in Nat, NEW b \in Nat, a <= b
  PROVE  k * a <= k * b /\ a * k <= b * k
OBVIOUS

-----------------------------------------------------------------------------
(* The order of a family                                                   *)

PValues(S) == [S -> 0..One]

LEMMA SeedsFinite ==
  /\ IsFiniteSet(Seeds)
  /\ IsFiniteSet(SUBSET Seeds)
  /\ One \in Nat
<1>1. IsFiniteSet(Seeds)
  BY CollapseAssumption, FS_Interval DEF CollapseAssumption, Seeds
<1>2. IsFiniteSet(SUBSET Seeds)
  BY <1>1, FS_SUBSET
<1>3. One \in Nat
  BY <1>2, FS_CardinalityType DEF One
<1> QED BY <1>1, <1>2, <1>3

LEMMA MembersFinite ==
  ASSUME NEW S, S \subseteq DOMAIN NameRank
  PROVE  IsFiniteSet(S)
<1> DEFINE rank == [c \in S |-> NameRank[c]]
<1>1. rank \in Injection(S, 0..99)
  BY NameAssumption DEF NameAssumption, Injection, IsInjective
<1>2. IsFiniteSet(0..99)
  <2>1. 0 \in Int /\ 99 \in Int
    OBVIOUS
  <2> QED BY <2>1, FS_Interval
<1> QED BY <1>1, <1>2, FS_Injection

\* Every part of a family has a first member.
LEMMA FirstExists ==
  ASSUME NEW S, S \subseteq DOMAIN NameRank, NEW p \in PValues(S),
         NEW part, part \subseteq S, part # {}
  PROVE  \E d \in part : \A e \in part : NotAfter(p, d, e)
<1> DEFINE Key(c) == 100 * p[c] + NameRank[c]
           T == {Key(c) : c \in part}
<1>1. \A c \in S : p[c] \in Nat /\ NameRank[c] \in 0..99
  BY NameAssumption, SeedsFinite DEF NameAssumption, PValues
<1>2. \A c \in S : Key(c) \in Nat
  BY <1>1
<1>3. T \subseteq Nat /\ T # {}
  BY <1>2
<1>4. PICK least \in T : \A y \in T : least <= y
  BY <1>3, Least
<1>5. PICK d \in part : least = Key(d)
  OBVIOUS
<1>6. ASSUME NEW e \in part PROVE NotAfter(p, d, e)
  <2>1. Key(d) <= Key(e)
    BY <1>4, <1>5
  <2>2. p[d] \in Nat /\ p[e] \in Nat /\ NameRank[d] \in 0..99 /\ NameRank[e] \in 0..99
    BY <1>1
  <2>3. p[d] <= p[e] /\ (p[d] = p[e] => NameRank[d] <= NameRank[e])
    <3> HIDE DEF T
    <3> DEFINE a == p[d]
               b == p[e]
               i == NameRank[d]
               j == NameRank[e]
    <3>1. a \in Nat /\ b \in Nat /\ i \in 0..99 /\ j \in 0..99
          /\ 100 * a + i <= 100 * b + j
      BY <2>1, <2>2
    <3> HIDE DEF a, b, i, j
    <3>2. a <= b /\ (a = b => i <= j)
      BY <3>1
    <3> QED BY <3>2 DEF a, b, i, j
  <2> QED BY <2>2, <2>3 DEF NotAfter
<1> QED BY <1>6

LEMMA RemainingBounds ==
  ASSUME NEW S, S \subseteq DOMAIN NameRank, NEW p \in PValues(S), NEW d \in S,
         NEW part, part \subseteq S, \A e \in part : NotAfter(p, d, e)
  PROVE  /\ Remaining(p, d) \in Nat
         /\ Cardinality(part) \in Nat
         /\ Cardinality(part) <= Remaining(p, d)
         /\ Remaining(p, d) <= Cardinality(S)
         /\ Cardinality(S) \in Nat
<1> DEFINE after == {e \in DOMAIN p : NotAfter(p, d, e)}
<1>1. DOMAIN p = S
  BY DEF PValues
<1>2. IsFiniteSet(S)
  BY MembersFinite
<1>3. after \in SUBSET S /\ part \in SUBSET after
  BY <1>1
<1>4. IsFiniteSet(after) /\ Cardinality(after) <= Cardinality(S)
  BY <1>2, <1>3, FS_Subset
<1>5. IsFiniteSet(part) /\ Cardinality(part) <= Cardinality(after)
  BY <1>3, <1>4, FS_Subset
<1> QED BY <1>2, <1>4, <1>5, FS_CardinalityType DEF Remaining

LEMMA RemainingType ==
  ASSUME NEW S, S \subseteq DOMAIN NameRank, NEW p \in PValues(S), NEW d \in S
  PROVE  /\ Remaining(p, d) \in Nat
         /\ Cardinality(S) \in Nat
         /\ Remaining(p, d) <= Cardinality(S)
<1> DEFINE none == {}
<1>1. none \subseteq S /\ \A e \in none : NotAfter(p, d, e)
  OBVIOUS
<1> HIDE DEF none
<1> QED BY <1>1, RemainingBounds

-----------------------------------------------------------------------------
(* Holm's procedure is the closed test                                     *)

LEMMA ProductType ==
  ASSUME NEW S, S \subseteq DOMAIN NameRank, NEW p \in PValues(S), NEW d \in S
  PROVE  /\ p[d] \in Nat
         /\ Remaining(p, d) * p[d] \in Nat
         /\ Cardinality(S) * One \in Nat
         /\ Remaining(p, d) * p[d] <= Cardinality(S) * One
<1>1. p[d] \in Nat /\ p[d] <= One /\ One \in Nat
  BY SeedsFinite DEF PValues
<1>2. /\ Remaining(p, d) \in Nat
      /\ Cardinality(S) \in Nat
      /\ Remaining(p, d) <= Cardinality(S)
  BY RemainingType
<1>3. /\ Remaining(p, d) * p[d] <= Cardinality(S) * p[d]
      /\ Cardinality(S) * p[d] <= Cardinality(S) * One
  BY <1>1, <1>2, ProductsGrow
<1>4. /\ Remaining(p, d) * p[d] \in Nat
      /\ Cardinality(S) * p[d] \in Nat
      /\ Cardinality(S) * One \in Nat
  BY <1>1, <1>2
<1> QED BY <1>1, <1>3, <1>4

\* The running maximum is significant when every product it covers is.
LEMMA AdjustedBelow ==
  ASSUME NEW S, S \subseteq DOMAIN NameRank, NEW p \in PValues(S), NEW c \in S
  PROVE  /\ Adjusted(p, c) \in 0..One
         /\ Adjusted(p, c) < Alpha <=>
              \A d \in S : NotAfter(p, d, c) => Remaining(p, d) * p[d] < Alpha
<1> DEFINE before == {e \in DOMAIN p : NotAfter(p, e, c)}
           products == {Remaining(p, d) * p[d] : d \in before}
           highest == Max(products)
<1>1. DOMAIN p = S
  BY DEF PValues
<1>2. c \in before
  <2>1. p[c] \in Nat /\ NameRank[c] \in Nat
    BY ProductType, NameAssumption DEF NameAssumption
  <2> QED BY <1>1, <2>1 DEF NotAfter
<1>3. products \subseteq Nat /\ products # {}
  BY <1>1, <1>2, ProductType
<1>4. Cardinality(S) * One \in Nat /\ \A x \in products : x <= Cardinality(S) * One
  BY <1>1, ProductType
<1>5. highest \in products /\ \A y \in products : y <= highest
  <2> HIDE DEF products
  <2> QED BY <1>3, <1>4, MaxIsGreatest
<1>6. highest \in Nat /\ One \in Nat /\ Alpha \in Nat /\ Alpha <= One
  BY <1>3, <1>5, SeedsFinite, CollapseAssumption DEF CollapseAssumption
<1>7. Adjusted(p, c) = IF highest > One THEN One ELSE highest
  BY DEF Adjusted
<1>8. Adjusted(p, c) < Alpha <=> highest < Alpha
  <2> HIDE DEF highest
  <2> QED BY <1>6, <1>7
<1>9. highest < Alpha <=> \A x \in products : x < Alpha
  <2> HIDE DEF products, highest
  <2> QED BY <1>3, <1>5, <1>6
<1>10. (\A x \in products : x < Alpha)
         <=> \A d \in S : NotAfter(p, d, c) => Remaining(p, d) * p[d] < Alpha
  BY <1>1
<1>11. Adjusted(p, c) \in 0..One
  <2> HIDE DEF highest
  <2> QED BY <1>6, <1>7
<1> QED BY <1>8, <1>9, <1>10, <1>11

LEMMA PartSize ==
  ASSUME NEW S, S \subseteq DOMAIN NameRank, NEW c \in S, NEW others \in SUBSET (S \ {c})
  PROVE  Cardinality(others \union {c}) = Cardinality(others) + 1
<1>1. IsFiniteSet(others)
  BY MembersFinite
<1> QED BY <1>1, FS_AddElement

THEOREM AdjustedIsClosed ==
  ASSUME NEW S, S \subseteq DOMAIN NameRank, NEW p \in PValues(S), NEW c \in S
  PROVE  Adjusted(p, c) < Alpha <=> ClosedTest(p, c)
<1>1. DOMAIN p = S /\ Alpha \in Nat
  BY CollapseAssumption DEF PValues, CollapseAssumption
<1>2. ASSUME Adjusted(p, c) < Alpha, NEW others \in SUBSET (S \ {c})
      PROVE  \E d \in others \union {c} : p[d] * (Cardinality(others) + 1) < Alpha
  <2> DEFINE part == others \union {c}
  <2>1. part \subseteq S /\ part # {} /\ c \in part
    OBVIOUS
  <2>2. PICK d \in part : \A e \in part : NotAfter(p, d, e)
    BY <2>1, FirstExists
  <2>3. d \in S /\ NotAfter(p, d, c)
    BY <2>1, <2>2
  <2>4. Remaining(p, d) * p[d] < Alpha
    BY <1>2, <2>3, AdjustedBelow
  <2>5. /\ Remaining(p, d) \in Nat
        /\ Cardinality(part) \in Nat
        /\ Cardinality(part) <= Remaining(p, d)
    BY <2>1, <2>2, <2>3, RemainingBounds
  <2>6. p[d] \in Nat
    BY <2>3, ProductType
  <2>7. p[d] * Cardinality(part) <= p[d] * Remaining(p, d)
    BY <2>5, <2>6, ProductsGrow
  <2>8. Cardinality(part) = Cardinality(others) + 1
    BY PartSize
  <2>9. p[d] * Cardinality(part) < Alpha
    <3> DEFINE a == p[d] * Cardinality(part)
               b == Remaining(p, d) * p[d]
    <3>1. a \in Nat /\ b \in Nat /\ a <= b
      BY <2>5, <2>6, <2>7
    <3> HIDE DEF a
    <3>2. a < Alpha
      BY <3>1, <2>4, <1>1
    <3> QED BY <3>2 DEF a
  <2> QED BY <2>8, <2>9
<1>3. ASSUME ClosedTest(p, c), NEW d \in S, NotAfter(p, d, c)
      PROVE  Remaining(p, d) * p[d] < Alpha
  <2> DEFINE part == {e \in S : NotAfter(p, d, e)}
             others == part \ {c}
  <2>1. c \in part /\ others \in SUBSET (S \ {c}) /\ others \union {c} = part
    BY <1>3
  <2>2. PICK e \in part : p[e] * (Cardinality(others) + 1) < Alpha
    BY <1>1, <1>3, <2>1 DEF ClosedTest
  <2>3. Cardinality(others) + 1 = Remaining(p, d)
    BY <1>1, <2>1, PartSize DEF Remaining
  <2>4. p[e] \in Nat /\ p[d] \in Nat /\ p[d] <= p[e]
    BY ProductType DEF NotAfter
  <2>5. Remaining(p, d) \in Nat
    BY RemainingType
  <2>6. p[e] * Remaining(p, d) < Alpha
    BY <2>2, <2>3
  <2>7. p[d] * Remaining(p, d) <= p[e] * Remaining(p, d)
    BY <2>4, <2>5, ProductsGrow
  <2> DEFINE a == p[d] * Remaining(p, d)
             b == p[e] * Remaining(p, d)
  <2>8. a \in Nat /\ b \in Nat /\ Remaining(p, d) * p[d] = a
    BY <2>4, <2>5
  <2> HIDE DEF a, b
  <2>9. a < Alpha
    BY <2>6, <2>7, <2>8, <1>1 DEF a, b
  <2> QED BY <2>8, <2>9
<1>4. ASSUME ClosedTest(p, c) PROVE Adjusted(p, c) < Alpha
  BY <1>3, <1>4, AdjustedBelow
<1>5. ASSUME Adjusted(p, c) < Alpha PROVE ClosedTest(p, c)
  BY <1>1, <1>2, <1>5 DEF ClosedTest
<1> QED BY <1>4, <1>5

\* Smaller p-values are no disadvantage to a member.
LEMMA ClosedTestFalls ==
  ASSUME NEW S, S \subseteq DOMAIN NameRank, NEW p \in PValues(S), NEW q \in PValues(S),
         \A d \in S : q[d] <= p[d], NEW c \in S, ClosedTest(p, c)
  PROVE  ClosedTest(q, c)
<1>1. DOMAIN p = S /\ DOMAIN q = S /\ Alpha \in Nat
  BY CollapseAssumption DEF PValues, CollapseAssumption
<1>2. ASSUME NEW others \in SUBSET (S \ {c})
      PROVE  \E d \in others \union {c} : q[d] * (Cardinality(others) + 1) < Alpha
  <2>1. PICK d \in others \union {c} : p[d] * (Cardinality(others) + 1) < Alpha
    BY <1>1 DEF ClosedTest
  <2>2. p[d] \in Nat /\ q[d] \in Nat /\ q[d] <= p[d]
    BY ProductType
  <2>3. IsFiniteSet(others)
    BY MembersFinite
  <2> DEFINE size == Cardinality(others) + 1
  <2>4. size \in Nat
    BY <2>3, FS_CardinalityType
  <2>5. q[d] * size <= p[d] * size /\ q[d] * size \in Nat /\ p[d] * size \in Nat
    <3> HIDE DEF size
    <3> QED BY <2>2, <2>4, ProductsGrow
  <2> DEFINE a == q[d] * size
             b == p[d] * size
  <2>6. a < Alpha
    <3> HIDE DEF size
    <3>1. a \in Nat /\ b \in Nat /\ a <= b
      BY <2>5
    <3>2. b < Alpha
      BY <2>1 DEF size
    <3> HIDE DEF a, b
    <3> QED BY <3>1, <3>2, <1>1
  <2> QED BY <2>6
<1> QED BY <1>1, <1>2 DEF ClosedTest

\* When even the smallest p-value times the size of the family is not
\* significant, no member of the family ever is.
THEOREM CrowdedFamilyPassesNothing ==
  ASSUME NEW S, S \subseteq DOMAIN NameRank, NEW p \in PValues(S), NEW least \in Nat,
         \A d \in S : least <= p[d], least * Cardinality(S) >= Alpha, NEW c \in S
  PROVE  ~ (Adjusted(p, c) < Alpha)
<1> SUFFICES ASSUME ClosedTest(p, c) PROVE FALSE
  BY AdjustedIsClosed
<1> DEFINE others == S \ {c}
<1>1. DOMAIN p = S /\ Alpha \in Nat
  BY CollapseAssumption DEF PValues, CollapseAssumption
<1>2. others \union {c} = S /\ others \in SUBSET (S \ {c})
  OBVIOUS
<1>3. Cardinality(S) = Cardinality(others) + 1 /\ Cardinality(S) \in Nat
  BY <1>2, PartSize, RemainingType
<1>4. PICK d \in S : p[d] * Cardinality(S) < Alpha
  <2> HIDE DEF others
  <2> QED BY <1>1, <1>2, <1>3 DEF ClosedTest
<1>5. p[d] \in Nat /\ least <= p[d]
  BY ProductType
<1>6. least * Cardinality(S) <= p[d] * Cardinality(S)
  BY <1>3, <1>5, ProductsGrow
<1> DEFINE a == least * Cardinality(S)
           b == p[d] * Cardinality(S)
<1>7. a \in Nat /\ b \in Nat /\ a <= b /\ a >= Alpha /\ b < Alpha
  BY <1>3, <1>4, <1>5, <1>6
<1> HIDE DEF a, b
<1> QED BY <1>1, <1>7

-----------------------------------------------------------------------------
(* The comparisons of an experiment                                        *)

LEMMA TableIsFunction ==
  ASSUME NEW function
  PROVE  Table(function) = function
BY DEF Table

LEMMA CountsAreCounts ==
  ASSUME NEW T, T \subseteq SUBSET Seeds
  PROVE  Cardinality(T) \in 0..One
<1>1. /\ IsFiniteSet(T)
      /\ Cardinality(T) <= Cardinality(SUBSET Seeds)
  BY SeedsFinite, FS_Subset
<1> QED BY <1>1, FS_CardinalityType, SeedsFinite DEF One

LEMMA SeedCounts ==
  ASSUME NEW T, T \subseteq Seeds
  PROVE  IsFiniteSet(T) /\ Cardinality(T) \in Nat
BY SeedsFinite, FS_Subset, FS_CardinalityType

RawValues == {Undefined} \union 0..One

\* A member that has a p-value has enough pairs, and the p-value is a count.
LEMMA EvaluateType ==
  ASSUME NEW f, NEW rec, NEW c
  PROVE  /\ Evaluate(f, rec, c).raw \in RawValues
         /\ Evaluate(f, rec, c).raw # Undefined => Cardinality(Pairs(f, rec, c)) >= MinPairs
<1> DEFINE d == Table([s \in Pairs(f, rec, c) |-> Benefit(f, rec, c, s)])
           n == Cardinality(Pairs(f, rec, c))
<1>1. n \in Nat /\ MinPairs \in Nat
  <2>1. Pairs(f, rec, c) \subseteq Seeds
    BY DEF Pairs, PairedSeeds
  <2> QED BY <2>1, SeedCounts, CollapseAssumption DEF CollapseAssumption
<1>2. TwoSidedP(d) \in 0..One
  BY CountsAreCounts DEF TwoSidedP
<1>3. NonInferiorityP(d, Margin[c.metric]) \in 0..One
  BY CountsAreCounts DEF NonInferiorityP
<1> DEFINE e == Evaluate(f, rec, c)
<1>4. e.raw = IF n < MinPairs THEN Undefined
              ELSE IF c.test = "SUPERIORITY" THEN TwoSidedP(d)
              ELSE NonInferiorityP(d, Margin[c.metric])
  BY DEF Evaluate
<1> HIDE DEF d, n, e
<1>5. e.raw \in RawValues
  BY <1>2, <1>3, <1>4 DEF RawValues
<1>6. e.raw # Undefined => n >= MinPairs
  BY <1>1, <1>4
<1> QED BY <1>5, <1>6 DEF e, n

LEMMA MembersAreNamed ==
  ASSUME NEW f \in Families
  PROVE  Members(f) \subseteq DOMAIN NameRank
BY NameAssumption DEF NameAssumption

\* An evaluated family, and its p-values.
Evaluated(ev, f) ==
  /\ ev = [c \in Members(f) |-> ev[c]]
  /\ \A c \in Members(f) : ev[c].raw \in RawValues

LEMMA EntryType ==
  ASSUME NEW f, NEW ev, Evaluated(ev, f)
  PROVE  /\ Entry(ev) \in PValues(Members(f))
         /\ Table(Entry(ev)) = Entry(ev)
<1>1. DOMAIN ev = Members(f)
  BY DEF Evaluated
<1>2. One \in 0..One
  BY SeedsFinite
<1>3. \A c \in Members(f) : Entry(ev)[c] \in 0..One
  BY <1>1, <1>2 DEF Entry, Evaluated, RawValues
<1>4. Entry(ev) = [c \in Members(f) |-> Entry(ev)[c]]
  BY <1>1 DEF Entry
<1>5. Entry(ev) \in PValues(Members(f))
  BY <1>3, <1>4 DEF PValues
<1>6. Table(Entry(ev)) = Entry(ev)
  BY <1>4, TableIsFunction
<1> QED BY <1>5, <1>6

\* What the published family of an evaluated one says.
LEMMA AdjustedFamilyIs ==
  ASSUME NEW f \in Families, NEW ev, Evaluated(ev, f)
  PROVE  /\ DOMAIN AdjustedFamily(ev) = Members(f)
         /\ Entry(AdjustedFamily(ev)) = Entry(ev)
         /\ \A c \in Members(f) :
              LET r == AdjustedFamily(ev)[c]
              IN /\ r.raw = ev[c].raw
                 /\ r.material = ev[c].material
                 /\ r.adjusted = Adjusted(Entry(ev), c)
                 /\ r.state = Verdict(ev[c], r.adjusted)
<1>1. DOMAIN ev = Members(f)
  BY DEF Evaluated
<1>2. Table(Entry(ev)) = Entry(ev)
  BY EntryType
<1>3. AdjustedFamily(ev) =
        [c \in Members(f) |->
           [raw |-> ev[c].raw, material |-> ev[c].material,
            adjusted |-> Adjusted(Entry(ev), c),
            state |-> Verdict(ev[c], Adjusted(Entry(ev), c))]]
  BY <1>1, <1>2 DEF AdjustedFamily
<1>4. DOMAIN AdjustedFamily(ev) = Members(f)
  BY <1>3
<1>5. \A c \in Members(f) :
        LET r == AdjustedFamily(ev)[c]
        IN /\ r.raw = ev[c].raw
           /\ r.material = ev[c].material
           /\ r.adjusted = Adjusted(Entry(ev), c)
           /\ r.state = Verdict(ev[c], r.adjusted)
  BY <1>3
<1>6. Entry(AdjustedFamily(ev)) = Entry(ev)
  BY <1>1, <1>4, <1>5 DEF Entry
<1> QED BY <1>4, <1>5, <1>6

LEMMA ComparisonsAreEvaluated ==
  ASSUME NEW f, NEW rec
  PROVE  \E ev :
           /\ Evaluated(ev, f)
           /\ Comparisons(f, rec) = AdjustedFamily(ev)
           /\ \A c \in Members(f) : ev[c] = Evaluate(f, rec, c)
<1> DEFINE ev == [c \in Members(f) |-> Evaluate(f, rec, c)]
<1>1. ev = [c \in Members(f) |-> ev[c]] /\ \A c \in Members(f) : ev[c] = Evaluate(f, rec, c)
  OBVIOUS
<1>2. Evaluated(ev, f)
  BY <1>1, EvaluateType DEF Evaluated
<1>3. Table(ev) = ev
  BY <1>1, TableIsFunction
<1>4. Comparisons(f, rec) = AdjustedFamily(ev)
  BY <1>3 DEF Comparisons
<1> QED BY <1>1, <1>2, <1>4

-----------------------------------------------------------------------------
(* Type correctness                                                        *)

Terminals == {"NONE", "FAILED", "COMPLETED"}

TypeInv ==
  /\ TypeOK
  /\ record = [cell \in Cells(family) |-> record[cell]]

LEMMA PlanType ==
  ASSUME NEW f \in Families
  PROVE  /\ Len(Plan(f)) \in Nat
         /\ \A i \in 1..Len(Plan(f)) : Plan(f)[i] \in Cells(f)
<1> DEFINE conditions == Conditions(f)
           perSide == Len(conditions) * SeedCount
<1>1. SeedCount \in Nat
  BY CollapseAssumption DEF CollapseAssumption
<1>2. DOMAIN conditions = 1..Len(conditions) /\ Len(conditions) \in 1..4
  <2>1. CASE f = "PROPOSAL_SCREEN"
    BY <2>1 DEF Conditions
  <2>2. CASE f = "PLURALITY"
    BY <2>2 DEF Conditions
  <2>3. CASE f = "SOURCE_EXCLUSION"
    BY <2>3 DEF Conditions
  <2>4. CASE f = "EXTERNAL_VERIFICATION"
    BY <2>4 DEF Conditions
  <2> QED BY <2>1, <2>2, <2>3, <2>4 DEF Families
<1>3. perSide \in Nat
  BY <1>1, <1>2
<1>4. Len(Sides(f)) = 2 /\ \A i \in 1..2 : Sides(f)[i] \in {"method", "reference"}
  BY DEF Families, Sides
<1>5. DOMAIN Plan(f) = 1..(2 * perSide)
  BY DEF Plan
<1>6. Len(Plan(f)) = 2 * perSide
  <2> HIDE DEF perSide
  <2>1. 2 * perSide \in Nat
    BY <1>3
  <2> QED BY <1>5, <2>1
<1>7. ASSUME NEW i \in 1..(2 * perSide)
      PROVE  Plan(f)[i] \in Cells(f)
  <2> DEFINE side == ((i - 1) \div perSide) + 1
             condition == (((i - 1) % perSide) \div SeedCount) + 1
             seed == ((i - 1) % SeedCount) + 1
  <2>1. Plan(f)[i] = [side |-> Sides(f)[side], condition |-> conditions[condition],
                      seed |-> seed]
    BY DEF Plan
  <2>2. SeedCount > 0 /\ perSide > 0 /\ i \in 1..(2 * perSide)
    <3>1. perSide > 0
      <4> HIDE DEF perSide
      <4> QED BY <1>3
    <3>2. CASE SeedCount = 0
      <4>1. perSide = 0
        BY <1>2, <3>2
      <4> QED BY <3>1, <4>1
    <3> QED BY <1>1, <3>1, <3>2
  <2>3. side \in 1..2
    <3> HIDE DEF perSide
    <3> QED BY <1>3, <2>2
  <2>4. (i - 1) % perSide \in 0..(perSide - 1)
    <3> HIDE DEF perSide
    <3> QED BY <1>3, <2>2
  <2>5. condition \in 1..Len(conditions)
    <3> DEFINE x == (i - 1) % perSide
               y == x \div SeedCount
    <3>1. x \in Nat /\ x < Len(conditions) * SeedCount
      <4> HIDE DEF x
      <4> QED BY <1>2, <1>3, <2>2, <2>4 DEF x
    <3> HIDE DEF x
    <3>2. y \in Nat /\ y < Len(conditions)
      BY <1>1, <1>2, <2>2, <3>1
    <3> QED BY <1>2, <3>2 DEF x
  <2>6. seed \in Seeds
    BY <1>1, <2>2 DEF Seeds
  <2>7. conditions[condition] \in Range(conditions)
    <3> HIDE DEF condition, conditions
    <3> QED BY <1>2, <2>5 DEF Range
  <2> HIDE DEF side, condition, seed, conditions
  <2> QED BY <1>4, <2>1, <2>3, <2>6, <2>7 DEF Cells, conditions
<1> QED BY <1>3, <1>6, <1>7

LEMMA PlaceType ==
  ASSUME family \in Families, next \in 1..(Len(Plan(family)) + 1)
  PROVE  /\ Place \in 1..(Len(Plan(family)) + 1)
         /\ Place <= Len(Plan(family)) => Plan(family)[Place] \in Cells(family)
<1> DEFINE last == Len(Plan(family))
           open == {i \in next..last : record[Plan(family)[i]].terminal # "COMPLETED"}
<1>1. last \in Nat
  BY PlanType
<1>2. open \subseteq Nat /\ open \subseteq 1..last
  <2> HIDE DEF last
  <2> QED BY <1>1
<1>3. Place = IF open = {} THEN last + 1 ELSE Min(open)
  BY DEF Place
<1>4. CASE open # {}
  <2>1. PICK x \in open : \A y \in open : x <= y
    <3> HIDE DEF open
    <3> QED BY <1>2, <1>4, Least
  <2>2. Min(open) \in open
    BY <2>1 DEF Min
  <2> HIDE DEF open, last
  <2> QED BY <1>1, <1>2, <1>3, <1>4, <2>2, PlanType DEF last
<1>5. CASE open = {}
  <2> HIDE DEF open, last
  <2> QED BY <1>1, <1>3, <1>5 DEF last
<1> QED BY <1>4, <1>5

LEMMA TypeInit == Init => TypeInv
<1> SUFFICES ASSUME Init PROVE TypeInv
  OBVIOUS
<1>1. Len(Plan(family)) \in Nat
  BY PlanType DEF Init
<1>2. next \in 1..(Len(Plan(family)) + 1)
  BY <1>1 DEF Init
<1>3. MaxFailures \in Nat
  BY CollapseAssumption DEF CollapseAssumption
<1>4. record = [cell \in Cells(family) |-> record[cell]]
      /\ \A cell \in Cells(family) : record[cell].terminal \in Terminals
  BY DEF Init, Blank, Terminals
<1> QED BY <1>2, <1>3, <1>4 DEF Init, TypeInv, TypeOK, Terminals

LEMMA TypeStep == TypeInv /\ [Next]_vars => TypeInv'
<1> SUFFICES ASSUME TypeInv, [Next]_vars PROVE TypeInv'
  OBVIOUS
<1> USE DEF TypeInv, TypeOK
<1>1. Len(Plan(family)) \in Nat /\ MaxFailures \in Nat
  BY PlanType, CollapseAssumption DEF CollapseAssumption
<1>2. /\ Place \in 1..(Len(Plan(family)) + 1)
      /\ Place <= Len(Plan(family)) => Plan(family)[Place] \in Cells(family)
  BY PlaceType
<1>3. CASE Finish
  <2> DEFINE place == Place
             cell == Plan(family)[place]
  <2>1. cell \in Cells(family) /\ place \in 1..Len(Plan(family)) /\ family' = family
    BY <1>1, <1>2, <1>3 DEF Finish
  <2>2. PICK o \in Outcomes(family, cell) :
          /\ durations' = IF o.opened THEN o.cost ELSE durations
          /\ record' = [record EXCEPT ![cell] = Completed(o, durations')]
    BY <1>3 DEF Finish
  <2>3. o.cost \in Nat
    <3>1. o \in Outcome
      BY <2>1, OutcomeAssumption DEF OutcomeAssumption
    <3> QED BY <3>1 DEF Outcome
  <2>4. durations' \in Nat
    BY <2>2, <2>3
  <2>5. next' = place + 1 /\ UNCHANGED <<failures, phase>>
    BY <1>3 DEF Finish
  <2>6. Completed(o, durations').terminal \in Terminals
    BY DEF Completed, Terminals
  <2> HIDE DEF place, cell
  <2>7. next' \in 1..(Len(Plan(family)) + 1)
    BY <1>1, <2>1, <2>5
  <2>8. record' = [x \in Cells(family) |-> record'[x]]
        /\ \A x \in Cells(family) : record'[x].terminal \in Terminals
    BY <2>1, <2>2, <2>6 DEF Terminals
  <2> QED BY <2>1, <2>4, <2>5, <2>7, <2>8 DEF Terminals
<1>4. CASE Fail
  <2> DEFINE place == Place
             cell == Plan(family)[place]
  <2>1. cell \in Cells(family) /\ place \in 1..Len(Plan(family)) /\ family' = family
    BY <1>1, <1>2, <1>4 DEF Fail
  <2>2. /\ record' = [record EXCEPT ![cell] = Failed]
        /\ durations' \in Nat
        /\ failures' = failures + 1
        /\ failures < MaxFailures
        /\ next' = place + 1
        /\ phase' = phase
    BY <1>4 DEF Fail
  <2> HIDE DEF place, cell
  <2>3. next' \in 1..(Len(Plan(family)) + 1) /\ failures' \in 0..MaxFailures
    BY <1>1, <2>1, <2>2
  <2>4. record' = [x \in Cells(family) |-> record'[x]]
        /\ \A x \in Cells(family) : record'[x].terminal \in Terminals
    BY <2>1, <2>2 DEF Failed, Terminals
  <2> QED BY <2>1, <2>2, <2>3, <2>4 DEF Terminals
<1>5. CASE Analyse
  BY <1>5 DEF Analyse
<1>6. CASE Resume
  <2>1. next' \in 1..(Len(Plan(family)) + 1)
    BY <1>1, <1>6 DEF Resume
  <2> QED BY <1>6, <2>1 DEF Resume
<1>7. CASE Decide
  BY <1>7 DEF Decide
<1>8. CASE UNCHANGED vars
  BY <1>8 DEF vars
<1> QED BY <1>3, <1>4, <1>5, <1>6, <1>7, <1>8 DEF Next

\* The variables of an experiment have their types.
THEOREM TypesHold == Spec => []TypeOK
<1>1. TypeInv => TypeOK
  BY DEF TypeInv
<1> QED BY <1>1, TypeInit, TypeStep, PTL DEF Spec

-----------------------------------------------------------------------------
(* The invariant of the evidence                                           *)

PublishedInv ==
  \/ DOMAIN published = {}
  \/ \E ev : Evaluated(ev, family) /\ published = AdjustedFamily(ev)

\* A completed experiment's evidence is of its records, and its decision of both.
SettledInv ==
  /\ phase \in {"completed", "decided"} => published = Comparisons(family, record)
  /\ \/ decision = NoDecision
     \/ /\ phase = "decided"
        /\ decision = Decision(family, record, published)

IInv ==
  /\ family \in Families
  /\ PublishedInv
  /\ SettledInv

LEMMA EvidenceInit == Init => IInv
BY DEF Init, IInv, PublishedInv, SettledInv, NoEvidence

LEMMA EvidenceStep == IInv /\ [Next]_vars => IInv'
<1> SUFFICES ASSUME IInv, [Next]_vars PROVE IInv'
  OBVIOUS
<1> USE DEF IInv
<1>1. ASSUME Finish \/ Fail
      PROVE  /\ UNCHANGED <<family, phase, published, decision>>
             /\ phase = "running"
  BY <1>1 DEF Finish, Fail
<1>2. CASE Finish \/ Fail
  BY <1>1, <1>2 DEF PublishedInv, SettledInv
<1>3. CASE Analyse
  <2>1. /\ UNCHANGED <<family, record, decision>>
        /\ phase = "running"
        /\ published' = Comparisons(family, record)
    BY <1>3 DEF Analyse
  <2>2. PublishedInv'
    BY <2>1, ComparisonsAreEvaluated DEF PublishedInv
  <2>3. SettledInv'
    BY <2>1 DEF SettledInv
  <2> QED BY <2>1, <2>2, <2>3
<1>4. CASE Resume
  BY <1>4 DEF Resume, PublishedInv, SettledInv
<1>5. CASE Decide
  BY <1>5 DEF Decide, PublishedInv, SettledInv
<1>6. CASE UNCHANGED vars
  BY <1>6 DEF vars, PublishedInv, SettledInv
<1> QED BY <1>2, <1>3, <1>4, <1>5, <1>6 DEF Next

LEMMA PublishedIsClosed ==
  ASSUME IInv PROVE HolmIsClosed
<1>1. CASE DOMAIN published = {}
  BY <1>1 DEF HolmIsClosed
<1>2. CASE \E ev : Evaluated(ev, family) /\ published = AdjustedFamily(ev)
  <2>1. PICK ev : Evaluated(ev, family) /\ published = AdjustedFamily(ev)
    BY <1>2
  <2>2. /\ DOMAIN published = Members(family)
        /\ Entry(published) = Entry(ev)
        /\ \A c \in Members(family) : published[c].adjusted = Adjusted(Entry(ev), c)
    BY <2>1, AdjustedFamilyIs DEF IInv
  <2>3. Entry(ev) \in PValues(Members(family)) /\ Table(Entry(ev)) = Entry(ev)
    BY <2>1, EntryType
  <2>4. Members(family) \subseteq DOMAIN NameRank
    BY MembersAreNamed DEF IInv
  <2>5. \A c \in Members(family) : Adjusted(Entry(ev), c) < Alpha <=> ClosedTest(Entry(ev), c)
    BY <2>3, <2>4, AdjustedIsClosed
  <2> QED BY <2>2, <2>3, <2>5 DEF HolmIsClosed
<1> QED BY <1>1, <1>2 DEF IInv, PublishedInv

\* Whatever the experiment, its records and the order of its names, what is
\* published as adjusted is significant exactly when the closed test rejects.
THEOREM HolmAlwaysClosed == Spec => []HolmIsClosed
BY EvidenceInit, EvidenceStep, PublishedIsClosed, PTL DEF Spec

\* A completed family keeps what an incomplete one already passed.
MoreIsNoLess ==
  \A c \in DOMAIN published :
    /\ published' # published
    /\ published[c].state = "PASSED"
    /\ published'[c].raw = published[c].raw
    /\ published'[c].material
    /\ \A d \in DOMAIN published :
         published[d].raw = Undefined \/ published'[d].raw = published[d].raw
    => published'[c].state = "PASSED"

LEMMA StepKeepsPassed ==
  ASSUME IInv, IInv', [Next]_vars PROVE MoreIsNoLess
<1> SUFFICES ASSUME NEW c \in DOMAIN published,
                    published' # published,
                    published[c].state = "PASSED",
                    published'[c].raw = published[c].raw,
                    published'[c].material,
                    \A d \in DOMAIN published :
                      published[d].raw = Undefined \/ published'[d].raw = published[d].raw
             PROVE  published'[c].state = "PASSED"
  BY DEF MoreIsNoLess
<1>1. family' = family /\ published' = Comparisons(family, record)
  BY DEF Next, Finish, Fail, Analyse, Resume, Decide, vars
<1> DEFINE S == Members(family)
<1>2. family \in Families /\ S \subseteq DOMAIN NameRank
  BY MembersAreNamed DEF IInv
<1>3. PICK ev : Evaluated(ev, family) /\ published = AdjustedFamily(ev)
  BY DEF IInv, PublishedInv
<1>4. PICK new : Evaluated(new, family) /\ published' = AdjustedFamily(new)
  BY <1>1, ComparisonsAreEvaluated
<1>5. /\ DOMAIN published = S
      /\ \A d \in S : /\ published[d].raw = ev[d].raw
                      /\ published[d].adjusted = Adjusted(Entry(ev), d)
                      /\ published[d].state = Verdict(ev[d], published[d].adjusted)
  BY <1>2, <1>3, AdjustedFamilyIs
<1>6. \A d \in S : /\ published'[d].raw = new[d].raw
                   /\ published'[d].material = new[d].material
                   /\ published'[d].adjusted = Adjusted(Entry(new), d)
                   /\ published'[d].state = Verdict(new[d], published'[d].adjusted)
  BY <1>2, <1>4, AdjustedFamilyIs
<1>7. Entry(ev) \in PValues(S) /\ Entry(new) \in PValues(S)
  BY <1>3, <1>4, EntryType
<1>8. c \in S
  BY <1>5
<1>9. ASSUME NEW d \in S PROVE Entry(new)[d] <= Entry(ev)[d]
  <2>1. Entry(new)[d] \in 0..One /\ Entry(ev)[d] \in 0..One /\ One \in Nat
    BY <1>7, SeedsFinite DEF PValues
  <2>2. ev[d].raw = Undefined \/ new[d].raw = ev[d].raw
    BY <1>5, <1>6
  <2>3. /\ Entry(ev)[d] = IF ev[d].raw = Undefined THEN One ELSE ev[d].raw
        /\ Entry(new)[d] = IF new[d].raw = Undefined THEN One ELSE new[d].raw
    BY <1>3, <1>4 DEF Entry, Evaluated
  <2>4. CASE ev[d].raw = Undefined
    BY <2>1, <2>3, <2>4
  <2>5. CASE new[d].raw = ev[d].raw
    BY <2>1, <2>3, <2>5
  <2> QED BY <2>2, <2>4, <2>5
<1>10. ev[c].raw # Undefined /\ Adjusted(Entry(ev), c) < Alpha
  BY <1>5, <1>8 DEF Verdict
<1>11. ClosedTest(Entry(new), c)
  <2>1. ClosedTest(Entry(ev), c)
    BY <1>2, <1>7, <1>8, <1>10, AdjustedIsClosed
  <2> QED BY <1>2, <1>7, <1>8, <1>9, <2>1, ClosedTestFalls
<1>12. Adjusted(Entry(new), c) < Alpha
  BY <1>2, <1>7, <1>8, <1>11, AdjustedIsClosed
<1>13. new[c].raw # Undefined /\ new[c].material
  BY <1>5, <1>6, <1>8, <1>10
<1> QED BY <1>6, <1>8, <1>12, <1>13 DEF Verdict

\* A comparison that passed while others lacked pairs passes still when a
\* resumed run completes them, in every family and at every level.
THEOREM NothingGainedByMissing == Spec => MissingIsNoAdvantage
<1>1. IInv /\ [Next]_vars => [MoreIsNoLess]_vars
  BY EvidenceStep, StepKeepsPassed
<1>2. Spec => [][MoreIsNoLess]_vars
  BY <1>1, EvidenceInit, EvidenceStep, PTL DEF Spec
<1> QED BY <1>2 DEF MissingIsNoAdvantage, MoreIsNoLess

-----------------------------------------------------------------------------
(* A surviving mechanism was measured                                      *)

LEMMA FirstPassed ==
  ASSUME NEW f \in Families, NEW comparisons,
         DOMAIN comparisons = Members(f),
         \A c \in Members(f) : comparisons[c].adjusted \in 0..One,
         PassedPositive(f, comparisons) # {}, NEW rec
  PROVE  \E c \in PassedPositive(f, comparisons) :
           Decision(f, rec, comparisons).effect = {c.metric}
<1> DEFINE passed == PassedPositive(f, comparisons)
           p == [c \in Members(f) |-> comparisons[c].adjusted]
           first(c) == \A d \in passed : NotAfter(p, c, d)
<1>1. passed \subseteq Members(f) /\ Members(f) \subseteq DOMAIN NameRank
  BY MembersAreNamed DEF PassedPositive
<1>2. p \in PValues(Members(f))
  BY DEF PValues
<1>3. PICK c \in passed : first(c)
  <2> HIDE DEF passed, p
  <2> QED BY <1>1, <1>2, FirstExists DEF passed
<1>4. ASSUME NEW d \in passed, first(d) PROVE d = c
  <2>1. NotAfter(p, c, d) /\ NotAfter(p, d, c)
    BY <1>3, <1>4
  <2>2. /\ p[c] \in Nat /\ p[d] \in Nat
        /\ NameRank[c] \in Nat /\ NameRank[d] \in Nat
        /\ NameRank[c] = NameRank[d] => c = d
    <3> HIDE DEF passed, p
    <3>1. c \in Members(f) /\ d \in Members(f)
      BY <1>1
    <3>2. p[c] \in Nat /\ p[d] \in Nat
      BY <1>1, <1>2, <3>1, ProductType
    <3>3. /\ NameRank[c] \in Nat /\ NameRank[d] \in Nat
          /\ NameRank[c] = NameRank[d] => c = d
      BY <1>1, <3>1, NameAssumption DEF NameAssumption
    <3> QED BY <3>2, <3>3
  <2> QED BY <2>1, <2>2 DEF NotAfter
<1>5. {d \in passed : first(d)} = {c}
  BY <1>3, <1>4
<1>6. Decision(f, rec, comparisons).effect = {d.metric : d \in {e \in passed : first(e)}}
  <2>1. \A d, e \in passed : NotAfter(p, d, e) <=>
          \/ comparisons[d].adjusted < comparisons[e].adjusted
          \/ /\ comparisons[d].adjusted = comparisons[e].adjusted
             /\ NameRank[d] <= NameRank[e]
    BY <1>1 DEF NotAfter
  <2> QED BY <2>1 DEF Decision
<1> HIDE DEF first
<1>7. Decision(f, rec, comparisons).effect = {c.metric}
  BY <1>5, <1>6
<1> QED BY <1>7

\* A pair of target or supported performance needs two productions.
LEMMA PairIsReported ==
  ASSUME NEW condition, NEW metric \in {"SUPPORTED_HARM", "TARGET_F1", "BENIGN_FAR_INCREASE"}
  PROVE  PairedSeeds(family, record, condition, metric) \subseteq Reported(condition)
<1> SUFFICES ASSUME NEW s \in PairedSeeds(family, record, condition, metric),
                    NEW side \in {"method", "reference"}
             PROVE  LET r == record[[side |-> side, condition |-> condition, seed |-> s]]
                    IN r.terminal = "COMPLETED" /\ r.outcome.report # "none"
  BY DEF PairedSeeds, Reported
<1> DEFINE r == record[[side |-> side, condition |-> condition, seed |-> s]]
<1>1. MetricValue(family, record, side, condition, s, metric) # Undefined
  BY DEF PairedSeeds
<1>2. r.terminal = "COMPLETED" /\ Observation(family, condition, r, metric) # Undefined
  BY <1>1 DEF MetricValue
<1>3. r.outcome.report # "none"
  BY <1>2 DEF Observation
<1> QED BY <1>2, <1>3

LEMMA SurvivorMeasured ==
  ASSUME IInv PROVE SurvivalIsMeasured
<1> SUFFICES ASSUME decision.survives PROVE SurvivalIsMeasured
  BY DEF SurvivalIsMeasured
<1>1. phase = "decided" /\ decision = Decision(family, record, published)
  BY DEF IInv, SettledInv, NoDecision
<1>2. published = Comparisons(family, record) /\ family \in Families
  BY <1>1 DEF IInv, SettledInv
<1>3. PassedPositive(family, published) # {} /\ ConstraintsPass(family, record)
  BY <1>1 DEF Decision
<1>4. PICK ev : /\ Evaluated(ev, family)
                /\ published = AdjustedFamily(ev)
                /\ \A c \in Members(family) : ev[c] = Evaluate(family, record, c)
  BY <1>2, ComparisonsAreEvaluated
<1>5. /\ DOMAIN published = Members(family)
      /\ \A c \in Members(family) :
           /\ published[c].adjusted = Adjusted(Entry(ev), c)
           /\ published[c].state = Verdict(ev[c], published[c].adjusted)
  BY <1>2, <1>4, AdjustedFamilyIs
<1>6. \A c \in Members(family) : published[c].adjusted \in 0..One
  BY <1>2, <1>4, <1>5, EntryType, MembersAreNamed, AdjustedBelow
<1>7. PICK c \in PassedPositive(family, published) : decision.effect = {c.metric}
  BY <1>1, <1>2, <1>3, <1>5, <1>6, FirstPassed
<1>8. c \in Members(family) /\ published[c].state = "PASSED"
  BY <1>5, <1>7 DEF PassedPositive
<1>9. Cardinality(Pairs(family, record, c)) >= MinPairs
  <2>1. ev[c].raw # Undefined
    BY <1>5, <1>8 DEF Verdict
  <2> QED BY <1>4, <1>8, <2>1, EvaluateType
<1>10. ASSUME NEW k \in Constraints(family), NEW condition \in k.conditions,
              k.metric \in {"SUPPORTED_HARM", "TARGET_F1", "BENIGN_FAR_INCREASE"}
       PROVE  Cardinality(Reported(condition)) >= MinPairs
  <2> DEFINE pairs == PairedSeeds(family, record, condition, k.metric)
  <2>1. Cardinality(pairs) >= MinPairs
    BY <1>3 DEF ConstraintsPass, Within
  <2>2. pairs \subseteq Reported(condition)
    BY <1>10, PairIsReported
  <2>3. Reported(condition) \subseteq Seeds
    BY DEF Reported
  <2>4. /\ Cardinality(Reported(condition)) \in Nat
        /\ Cardinality(pairs) \in Nat
        /\ Cardinality(pairs) <= Cardinality(Reported(condition))
    BY <2>2, <2>3, SeedCounts, FS_Subset
  <2>5. MinPairs \in Nat
    BY CollapseAssumption DEF CollapseAssumption
  <2> HIDE DEF pairs
  <2> QED BY <2>1, <2>4, <2>5
<1> QED BY <1>7, <1>8, <1>9, <1>10 DEF SurvivalIsMeasured

\* Whatever the outcomes of the cells, no mechanism is said to survive on
\* pairs that are not there.
THEOREM SurvivorsAreMeasured == Spec => []SurvivalIsMeasured
BY EvidenceInit, EvidenceStep, SurvivorMeasured, PTL DEF Spec

-----------------------------------------------------------------------------
(* A decided claim was measured                                            *)

\* Where no contributor is compromised, nothing malicious can be admitted and
\* the comparison of malicious admissions has no pairs.
LEMMA CleanConditionHasNoPairs ==
  ASSUME NEW f, NEW rec, NEW c, c.metric = "MALICIOUS_ADMISSION", ~Fixture(f, c.condition)
  PROVE  Pairs(f, rec, c) = {}
<1>1. \A side, s : MetricValue(f, rec, side, c.condition, s, c.metric) = Undefined
  BY DEF MetricValue, Observation
<1> QED BY <1>1 DEF Pairs, PairedSeeds

\* A resolved family has enough pairs everywhere.
LEMMA ResolvedIsPaired ==
  ASSUME IInv, phase = "decided", FamilyResolved(family, published)
  PROVE  \A c \in Members(family) : Cardinality(Pairs(family, record, c)) >= MinPairs
<1>1. published = Comparisons(family, record) /\ family \in Families
  BY DEF IInv, SettledInv
<1>2. PICK ev : /\ Evaluated(ev, family)
                /\ published = AdjustedFamily(ev)
                /\ \A c \in Members(family) : ev[c] = Evaluate(family, record, c)
  BY <1>1, ComparisonsAreEvaluated
<1>3. \A c \in Members(family) : published[c].state = Verdict(ev[c], published[c].adjusted)
  BY <1>1, <1>2, AdjustedFamilyIs
<1> SUFFICES ASSUME NEW c \in Members(family)
             PROVE  Cardinality(Pairs(family, record, c)) >= MinPairs
  OBVIOUS
<1>4. ev[c].raw # Undefined
  BY <1>3 DEF FamilyResolved, Verdict
<1> QED BY <1>2, <1>4, EvaluateType

\* Malicious admission is compared under site shift, where it has no value:
\* the families of plurality and external verification are never resolved.
LEMMA SiteShiftIsNeverResolved ==
  ASSUME IInv, phase = "decided", FamilyResolved(family, published)
  PROVE  family \in {"PROPOSAL_SCREEN", "SOURCE_EXCLUSION"}
<1> SUFFICES ASSUME family \in {"PLURALITY", "EXTERNAL_VERIFICATION"} PROVE FALSE
  BY DEF IInv, Families
<1> DEFINE c == [condition |-> "SITE_SHIFT", metric |-> "MALICIOUS_ADMISSION",
                 test |-> "SUPERIORITY"]
<1>1. "SITE_SHIFT" \in Range(Conditions(family))
  <2>1. /\ Conditions(family)[2] = "SITE_SHIFT"
        /\ 2 \in DOMAIN Conditions(family)
    BY DEF Conditions
  <2> QED BY <2>1 DEF Range
<1>2. c \in Members(family)
  BY <1>1 DEF Members, Superiority
<1>3. ~Fixture(family, c.condition) /\ c.metric = "MALICIOUS_ADMISSION"
  BY DEF Fixture
<1> HIDE DEF c
<1>4. Pairs(family, record, c) = {}
  BY <1>3, CleanConditionHasNoPairs
<1>5. Cardinality(Pairs(family, record, c)) = 0
  BY <1>4, FS_EmptySet
<1>6. MinPairs \in Nat \ {0}
  BY CollapseAssumption DEF CollapseAssumption
<1> QED BY <1>2, <1>5, <1>6, ResolvedIsPaired

LEMMA ClaimMeasured ==
  ASSUME IInv PROVE ClaimsAreMeasured
<1> SUFFICES ASSUME phase = "decided", NEW admitted \in Declarations,
                    ClaimOf(family, published, decision, admitted) # "NOT_TESTED"
             PROVE  /\ \A c \in Members(family) :
                         Cardinality(Pairs(family, record, c)) >= MinPairs
                    /\ \A k \in Constraints(family) : \A condition \in k.conditions :
                         Cardinality(PairedSeeds(family, record, condition, k.metric)) >= MinPairs
  BY DEF ClaimsAreMeasured
<1>1. FamilyResolved(family, published)
  BY DEF ClaimOf, SalvageClaim, NecessityClaim, Claimable
<1>2. \A c \in Members(family) : Cardinality(Pairs(family, record, c)) >= MinPairs
  BY <1>1, ResolvedIsPaired
<1>3. family \in {"PROPOSAL_SCREEN", "SOURCE_EXCLUSION"}
  BY <1>1, SiteShiftIsNeverResolved
<1>4. MinPairs \in Nat
  BY CollapseAssumption DEF CollapseAssumption
<1>5. ASSUME NEW condition, NEW metric, NEW c \in Members(family),
             Pairs(family, record, c) \subseteq PairedSeeds(family, record, condition, metric)
      PROVE  Cardinality(PairedSeeds(family, record, condition, metric)) >= MinPairs
  <2> DEFINE more == PairedSeeds(family, record, condition, metric)
             pairs == Pairs(family, record, c)
  <2>1. more \subseteq Seeds
    BY DEF PairedSeeds
  <2>2. pairs \subseteq more /\ Cardinality(pairs) >= MinPairs
    BY <1>2, <1>5
  <2> HIDE DEF more, pairs
  <2>3. /\ IsFiniteSet(more) /\ Cardinality(more) \in Nat
        /\ Cardinality(pairs) \in Nat
    BY <2>1, <2>2, SeedCounts
  <2>4. Cardinality(pairs) <= Cardinality(more)
    BY <2>2, <2>3, FS_Subset
  <2>5. Cardinality(more) >= MinPairs
    BY <1>4, <2>2, <2>3, <2>4
  <2> QED BY <2>5 DEF more
<1>6. ASSUME NEW k \in Constraints(family), NEW condition \in k.conditions
      PROVE  Cardinality(PairedSeeds(family, record, condition, k.metric)) >= MinPairs
  <2>1. CASE family = "PROPOSAL_SCREEN"
    <3> DEFINE c == [condition |-> condition, metric |-> k.metric, test |-> "NON_INFERIORITY"]
    <3>1. c \in Members(family)
      BY <1>6, <2>1 DEF Constraints, Members, NonInferiority
    <3>2. Pairs(family, record, c) \subseteq PairedSeeds(family, record, condition, k.metric)
      BY DEF Pairs
    <3> HIDE DEF c
    <3> QED BY <1>5, <3>1, <3>2
  <2>2. CASE family = "SOURCE_EXCLUSION"
    <3> DEFINE c == [condition |-> "USEFUL_BACKDOORED", metric |-> "TARGET_F1",
                     test |-> "NON_INFERIORITY"]
    <3>1. c \in Members(family)
      BY <2>2 DEF Members, NonInferiority
    <3>2. /\ condition = "USEFUL_BACKDOORED"
          /\ k.metric \in {"TARGET_F1", "SUPPORTED_HARM", "BENIGN_FAR_INCREASE"}
      BY <1>6, <2>2 DEF Constraints
    <3>3. Pairs(family, record, c) \subseteq PairedSeeds(family, record, condition, "TARGET_F1")
      BY <3>2 DEF Pairs
    <3>4. PairedSeeds(family, record, condition, "TARGET_F1")
            \subseteq PairedSeeds(family, record, condition, k.metric)
      <4> SUFFICES ASSUME NEW s \in PairedSeeds(family, record, condition, "TARGET_F1"),
                          NEW side \in {"method", "reference"}
                   PROVE  MetricValue(family, record, side, condition, s, k.metric) # Undefined
        BY DEF PairedSeeds
      <4>1. MetricValue(family, record, side, condition, s, "TARGET_F1") # Undefined
        BY DEF PairedSeeds
      <4> DEFINE r == record[[side |-> side, condition |-> condition, seed |-> s]]
      <4>2. r.terminal = "COMPLETED" /\ r.outcome.report # "none"
        BY <4>1 DEF MetricValue, Observation
      <4>3. Observation(family, condition, r, k.metric) \in
              {Rate(r.outcome.report = "good"), Rate(r.outcome.report = "poor")}
        <5> HIDE DEF r
        <5> QED BY <3>2, <4>2, Zenon DEF Observation
      <4>4. \A b \in BOOLEAN : Rate(b) # Undefined
        BY SMT DEF Rate, Undefined
      <4> HIDE DEF r
      <4>5. Observation(family, condition, r, k.metric) # Undefined
        BY <4>3, <4>4, Zenon
      <4> QED BY <4>2, <4>5 DEF r, MetricValue
    <3> HIDE DEF c
    <3> QED BY <1>5, <3>1, <3>3, <3>4
  <2> QED BY <1>3, <2>1, <2>2
<1> QED BY <1>2, <1>6

\* Whatever the outcomes of the cells, a claim that was decided for or against
\* a mechanism rests on enough pairs for all that its rule compares and bounds.
THEOREM ClaimsMeasured == Spec => []ClaimsAreMeasured
BY EvidenceInit, EvidenceStep, ClaimMeasured, PTL DEF Spec

\* Plurality and external verification are never claimed to be necessary or
\* not: their families hold a comparison that has no pairs by design.
TwoClaimsStayOpen ==
  phase = "decided" /\ family \in {"PLURALITY", "EXTERNAL_VERIFICATION"}
    => NecessityClaim(family, published, decision) = "NOT_TESTED"

THEOREM TwoClaimsAreNeverTested == Spec => []TwoClaimsStayOpen
<1>1. IInv => TwoClaimsStayOpen
  BY SiteShiftIsNeverResolved DEF TwoClaimsStayOpen, NecessityClaim, Claimable
<1> QED BY <1>1, EvidenceInit, EvidenceStep, PTL DEF Spec

-----------------------------------------------------------------------------
(* Claims stand                                                            *)

\* Another result resolves its own comparison and leaves all others.
LEMMA OneMoreResult ==
  ASSUME NEW members, NEW e \in [members -> Results], NEW c \in members, NEW r \in Results,
         ~Resolved(e, c)
  PROVE  LET more == [e EXCEPT ![c] = r]
         IN /\ more \in [members -> Results]
            /\ \A d \in members : Resolved(e, d) => more[d] = e[d]
            /\ \A d \in members : Significant(e, d) => Significant(more, d)
<1> DEFINE more == [e EXCEPT ![c] = r]
<1>1. more \in [members -> Results] /\ \A d \in members : d # c => more[d] = e[d]
  OBVIOUS
<1>2. e[c].state = "OPEN"
  BY DEF Resolved
<1> HIDE DEF more
<1>3. \A d \in members : Resolved(e, d) => more[d] = e[d]
  BY <1>1, <1>2 DEF Resolved
<1>4. \A d \in members : Significant(e, d) => Significant(more, d)
  BY <1>1, <1>2 DEF Significant
<1> QED BY <1>1, <1>3, <1>4 DEF more

LEMMA GranularityStands == Stands(GranularityClaim, Mixtures)
<1> SUFFICES ASSUME NEW e \in [Mixtures -> Results], NEW c \in Mixtures, NEW r \in Results,
                    ~Resolved(e, c), GranularityClaim(e) # "NOT_TESTED"
             PROVE  FALSE
  BY DEF Stands
<1> QED BY DEF GranularityClaim, AllResolved

LEMMA SecondaryStands == Stands(SecondaryClaim, SecondaryMembers)
<1> SUFFICES ASSUME NEW e \in [SecondaryMembers -> Results], NEW c \in SecondaryMembers,
                    NEW r \in Results, ~Resolved(e, c), SecondaryClaim(e) # "NOT_TESTED"
             PROVE  FALSE
  BY DEF Stands
<1> QED BY DEF SecondaryClaim, AllResolved

LEMMA ReproducibilityStands ==
  ASSUME NEW certified
  PROVE  LET claim(e) == ReproducibilityClaim(e, certified)
         IN Stands(claim, FailureConditions)
<1> DEFINE claim(e) == ReproducibilityClaim(e, certified)
<1> SUFFICES ASSUME NEW e \in [FailureConditions -> Results], NEW c \in FailureConditions,
                    NEW r \in Results, ~Resolved(e, c), claim(e) # "NOT_TESTED"
             PROVE  claim([e EXCEPT ![c] = r]) = claim(e)
  BY DEF Stands
<1> DEFINE more == [e EXCEPT ![c] = r]
<1>1. \E d \in FailureConditions : Significant(e, d)
  BY DEF ReproducibilityClaim, AllResolved
<1>2. \E d \in FailureConditions : Significant(more, d)
  BY <1>1, OneMoreResult
<1>3. certified \in {"Yes", "No"}
  BY <1>1 DEF ReproducibilityClaim
<1> HIDE DEF more
<1>4. ReproducibilityClaim(more, certified) = ReproducibilityClaim(e, certified)
  BY <1>1, <1>2, <1>3 DEF ReproducibilityClaim
<1> QED BY <1>4 DEF more

\* With another result no regime is lost that was tested or tolerated.
LEMMA HeterogeneityGrows ==
  ASSUME NEW e \in [HeterogeneityMembers -> Results], NEW c \in HeterogeneityMembers,
         NEW r \in Results, ~Resolved(e, c)
  PROVE  HeterogeneityClaim([e EXCEPT ![c] = r]) >= HeterogeneityClaim(e)
<1> DEFINE more == [e EXCEPT ![c] = r]
<1>1. Len(Regimes) = 4
  BY DEF Regimes
<1>2. \A i \in 2..4 : RegimeMembers(i) \subseteq HeterogeneityMembers
  BY <1>1 DEF HeterogeneityMembers
<1>3. \A d \in HeterogeneityMembers : Resolved(e, d) => more[d] = e[d]
  BY OneMoreResult
<1> HIDE DEF more
<1>4. ASSUME NEW i \in Tested(e)
      PROVE  i \in Tested(more) /\ \A d \in RegimeMembers(i) : more[d] = e[d]
  <2>1. i \in 2..4 /\ \A d \in RegimeMembers(i) : Resolved(e, d)
    BY <1>1 DEF Tested, AllResolved
  <2>2. \A d \in RegimeMembers(i) : more[d] = e[d]
    BY <1>2, <1>3, <2>1
  <2>3. \A d \in RegimeMembers(i) : Resolved(more, d)
    BY <2>1, <2>2 DEF Resolved
  <2> QED BY <1>1, <2>1, <2>2, <2>3 DEF Tested, AllResolved
<1>5. Tolerated(e) \subseteq Tolerated(more)
  BY <1>4 DEF Tolerated
<1>6. /\ Tolerated(more) \subseteq 2..4
      /\ Tolerated(e) \subseteq Tested(e) /\ Tolerated(more) \subseteq Tested(more)
  BY <1>1 DEF Tolerated, Tested
<1>7. \A T \in SUBSET (2..4) : T # {} => Max(T) \in T /\ \A x \in T : x <= Max(T)
  <2> SUFFICES ASSUME NEW T \in SUBSET (2..4), T # {}
               PROVE  Max(T) \in T /\ \A x \in T : x <= Max(T)
    OBVIOUS
  <2>1. T \subseteq Nat /\ \A x \in T : x <= 4
    OBVIOUS
  <2> QED BY <2>1, MaxIsGreatest
<1>8. CASE Tested(e) = {}
  <2>1. HeterogeneityClaim(more) \in Nat /\ HeterogeneityClaim(e) = 0
    BY <1>6, <1>7, <1>8 DEF HeterogeneityClaim
  <2> QED BY <2>1 DEF more
<1>9. CASE Tested(e) # {} /\ Tolerated(e) = {}
  <2>1. Tested(more) # {} /\ HeterogeneityClaim(e) = 1
    BY <1>4, <1>9 DEF HeterogeneityClaim
  <2>2. HeterogeneityClaim(more) \in Nat /\ HeterogeneityClaim(more) >= 1
    BY <1>6, <1>7, <2>1 DEF HeterogeneityClaim
  <2> QED BY <2>1, <2>2 DEF more
<1>10. CASE Tolerated(e) # {}
  <2>1. Tested(e) # {} /\ Tested(more) # {} /\ Tolerated(more) # {}
    BY <1>5, <1>6, <1>10
  <2>2. /\ HeterogeneityClaim(e) = Max(Tolerated(e))
        /\ HeterogeneityClaim(more) = Max(Tolerated(more))
    BY <1>10, <2>1 DEF HeterogeneityClaim
  <2>3. Max(Tolerated(e)) \in Tolerated(more)
    BY <1>5, <1>6, <1>7, <1>10
  <2>4. Max(Tolerated(e)) <= Max(Tolerated(more)) /\ Max(Tolerated(more)) \in 2..4
    BY <1>6, <1>7, <2>1, <2>3
  <2> QED BY <1>6, <2>2, <2>3, <2>4 DEF more
<1> QED BY <1>8, <1>9, <1>10

LEMMA MechanismKeepsStanding == MechanismStands
<1> SUFFICES ASSUME family \in Necessities,
                    NEW before \in [Necessities -> {"SUPPORTED", "NULL_RESULT", "NOT_TESTED"}],
                    before[family] = "NOT_TESTED"
             PROVE  LET claim == NecessityClaim(family, published, decision)
                        after == [before EXCEPT ![family] = claim]
                    IN \/ MechanismNecessity(before) \in {"NOT_TESTED", MechanismNecessity(after)}
                       \/ /\ MechanismNecessity(before) = "PARTIALLY_SUPPORTED"
                          /\ MechanismNecessity(after) = "SUPPORTED"
  BY DEF MechanismStands
<1> DEFINE claim == NecessityClaim(family, published, decision)
<1> DEFINE after == [before EXCEPT ![family] = claim]
<1> DEFINE supported(claims) == {f \in DOMAIN claims : claims[f] = "SUPPORTED"}
<1>1. /\ DOMAIN before = Necessities /\ DOMAIN after = Necessities
      /\ \A f \in Necessities : f # family => after[f] = before[f]
  OBVIOUS
<1> HIDE DEF after
<1>2. family \notin supported(before) /\ supported(before) \subseteq supported(after)
  BY <1>1
<1>3. CASE supported(before) = {}
  <2>1. MechanismNecessity(before) = "NOT_TESTED"
    BY <1>1, <1>3 DEF MechanismNecessity
  <2> QED BY <2>1
<1>4. CASE supported(before) # {}
  <2>1. MechanismNecessity(before) = "PARTIALLY_SUPPORTED"
    BY <1>1, <1>2, <1>4 DEF MechanismNecessity
  <2>2. MechanismNecessity(after) \in {"PARTIALLY_SUPPORTED", "SUPPORTED"}
    BY <1>1, <1>2, <1>4 DEF MechanismNecessity
  <2> QED BY <2>1, <2>2 DEF after
<1> QED BY <1>3, <1>4

\* claim_support.py: for any mixtures, failures, members and means, results
\* that come in later take no decided claim back.
THEOREM ClaimsKeepStanding == Spec => []ClaimsStand
<1>1. BoundariesStand
  <2>1. \A certified \in Declarations :
          LET claim(e) == ReproducibilityClaim(e, certified)
          IN Stands(claim, FailureConditions)
    BY ReproducibilityStands DEF Stands
  <2>2. \A e \in [HeterogeneityMembers -> Results], c \in HeterogeneityMembers, r \in Results :
          ~Resolved(e, c) => HeterogeneityClaim([e EXCEPT ![c] = r]) >= HeterogeneityClaim(e)
    BY HeterogeneityGrows
  <2> QED BY <2>1, <2>2, GranularityStands, SecondaryStands DEF BoundariesStand, Stands
<1>2. ClaimsStand
  BY <1>1, MechanismKeepsStanding DEF ClaimsStand
<1> QED BY <1>2, PTL

-----------------------------------------------------------------------------
(* Sums                                                                    *)

\* Sums of the code are folds over sets, and a fold takes the members of a set
\* one by one: SomeOf is the one it takes.
SomeOf(S) == CHOOSE x \in S : TRUE
Sums(f, S, sum) ==
  sum = [T \in SUBSET S |-> IF T = {} THEN 0 ELSE f[SomeOf(T)] + sum[T \ {SomeOf(T)}]]
SumsOf(f, S) == CHOOSE sum : Sums(f, S, sum)
SumBy(f, S) == SumsOf(f, S)[S]

\* Induction on finite sets: of bad sets there is one whose parts are good.
LEMMA LeastBadSet ==
  ASSUME NEW S, IsFiniteSet(S), NEW Bad, Bad \subseteq SUBSET S, Bad # {}
  PROVE  \E T \in Bad : \A U \in Bad : U \subseteq T => U = T
<1>1. Bad \subseteq FiniteSubsetsOf(S)
  BY FS_Subset DEF FiniteSubsetsOf
<1>2. PICK T \in Bad : \A U \in Bad : ~ (<<U, T>> \in StrictSubsetOrdering(S))
  BY <1>1, FS_StrictSubsetOrderingWellFounded, WFMin
<1> QED BY <1>2 DEF StrictSubsetOrdering

\* Folds over two sets take the members of a common part alike.
LEMMA SumsAgree ==
  ASSUME NEW f, NEW S, IsFiniteSet(S), NEW R, NEW one, Sums(f, S, one),
         NEW other, Sums(f, R, other)
  PROVE  \A T \in SUBSET (S \intersect R) : one[T] = other[T]
<1> DEFINE Bad == {T \in SUBSET (S \intersect R) : one[T] # other[T]}
<1> SUFFICES ASSUME Bad # {} PROVE FALSE
  OBVIOUS
<1>1. PICK T \in Bad : \A U \in Bad : U \subseteq T => U = T
  <2>1. Bad \subseteq SUBSET S
    OBVIOUS
  <2> HIDE DEF Bad
  <2> QED BY <2>1, LeastBadSet
<1>2. T \in SUBSET S /\ T \in SUBSET R
  OBVIOUS
<1>3. one[T] = IF T = {} THEN 0 ELSE f[SomeOf(T)] + one[T \ {SomeOf(T)}]
  BY <1>2 DEF Sums
<1>4. other[T] = IF T = {} THEN 0 ELSE f[SomeOf(T)] + other[T \ {SomeOf(T)}]
  BY <1>2 DEF Sums
<1>5. T # {}
  BY <1>3, <1>4
<1>6. SomeOf(T) \in T
  BY <1>5 DEF SomeOf
<1>7. one[T \ {SomeOf(T)}] = other[T \ {SomeOf(T)}]
  BY <1>1, <1>6
<1> QED BY <1>3, <1>4, <1>5, <1>7

\* There is such a fold over every finite set.
LEMMA SumsExist ==
  ASSUME NEW f, NEW S, IsFiniteSet(S)
  PROVE  Sums(f, S, SumsOf(f, S))
<1> DEFINE Bad == {T \in SUBSET S : ~ Sums(f, T, SumsOf(f, T))}
<1>1. ASSUME Bad # {} PROVE FALSE
  <2>1. PICK T \in Bad : \A U \in Bad : U \subseteq T => U = T
    <3>1. Bad \subseteq SUBSET S
      OBVIOUS
    <3> HIDE DEF Bad
    <3> QED BY <1>1, <3>1, LeastBadSet
  <2>2. T \in SUBSET S /\ ~ Sums(f, T, SumsOf(f, T))
    OBVIOUS
  <2>3. \A U \in SUBSET T : U # T => Sums(f, U, SumsOf(f, U))
    BY <2>1, <2>2
  <2>4. \A U \in SUBSET T : IsFiniteSet(U)
    BY <2>2, FS_Subset
  <2> DEFINE sum == [U \in SUBSET T |->
        IF U = T /\ T # {} THEN f[SomeOf(T)] + SumBy(f, T \ {SomeOf(T)})
        ELSE IF U = {} THEN 0 ELSE SumBy(f, U)]
  <2>5. ASSUME NEW U \in SUBSET T
        PROVE  sum[U] = IF U = {} THEN 0 ELSE f[SomeOf(U)] + sum[U \ {SomeOf(U)}]
    <3>1. CASE U = {}
      BY <3>1
    <3>2. CASE U # {}
      <4> DEFINE rest == U \ {SomeOf(U)}
      <4>1. SomeOf(U) \in U /\ rest \in SUBSET T /\ rest # T /\ rest # U /\ rest \subseteq U
        BY <3>2 DEF SomeOf
      <4>2. Sums(f, rest, SumsOf(f, rest))
        BY <2>3, <4>1
      <4>3. sum[rest] = SumBy(f, rest)
        <5>1. rest = {} => SumBy(f, rest) = 0
          BY <4>2 DEF Sums, SumBy
        <5> HIDE DEF rest
        <5> QED BY <4>1, <5>1
      <4>4. CASE U = T
        BY <3>2, <4>3, <4>4
      <4>5. CASE U # T
        <5>1. Sums(f, U, SumsOf(f, U))
          BY <2>3, <4>5
        <5>2. SumsOf(f, U)[U] = f[SomeOf(U)] + SumsOf(f, U)[rest]
          BY <3>2, <5>1 DEF Sums
        <5>3. SumsOf(f, U)[rest] = SumsOf(f, rest)[rest]
          <6> HIDE DEF rest
          <6>1. rest \in SUBSET (U \intersect rest) /\ IsFiniteSet(U)
            BY <2>4, <4>1
          <6> QED BY <4>2, <5>1, <6>1, SumsAgree
        <5>4. sum[U] = SumBy(f, U)
          BY <3>2, <4>5
        <5> HIDE DEF sum, rest
        <5>5. sum[U] = f[SomeOf(U)] + sum[rest]
          BY <4>3, <5>2, <5>3, <5>4 DEF SumBy
        <5> QED BY <3>2, <5>5 DEF rest
      <4> QED BY <4>4, <4>5
    <3> QED BY <3>1, <3>2
  <2>6. Sums(f, T, sum)
    <3>1. sum = [U \in SUBSET T |-> sum[U]]
      OBVIOUS
    <3> HIDE DEF sum
    <3> QED BY <2>5, <3>1 DEF Sums
  <2> HIDE DEF sum
  <2>7. Sums(f, T, SumsOf(f, T))
    BY <2>6 DEF SumsOf
  <2> QED BY <2>2, <2>7
<1> QED BY <1>1

LEMMA SumUnfolds ==
  ASSUME NEW f, NEW S, IsFiniteSet(S)
  PROVE  /\ S = {} => SumBy(f, S) = 0
         /\ S # {} => /\ SomeOf(S) \in S
                      /\ SumBy(f, S) = f[SomeOf(S)] + SumBy(f, S \ {SomeOf(S)})
<1>1. Sums(f, S, SumsOf(f, S))
  BY SumsExist
<1>2. SumsOf(f, S)[S] = IF S = {} THEN 0 ELSE f[SomeOf(S)] + SumsOf(f, S)[S \ {SomeOf(S)}]
  BY <1>1 DEF Sums
<1> DEFINE rest == S \ {SomeOf(S)}
<1>3. IsFiniteSet(rest) /\ rest \in SUBSET (S \intersect rest)
  BY FS_Subset
<1>4. SumsOf(f, S)[rest] = SumsOf(f, rest)[rest]
  <2> HIDE DEF rest
  <2> QED BY <1>1, <1>3, SumsExist, SumsAgree
<1>5. S # {} => SomeOf(S) \in S
  BY DEF SomeOf
<1> QED BY <1>2, <1>4, <1>5 DEF SumBy

LEMMA SumType ==
  ASSUME NEW f, NEW S, IsFiniteSet(S), \A x \in S : f[x] \in Int
  PROVE  \A T \in SUBSET S : SumBy(f, T) \in Int
<1> DEFINE Bad == {T \in SUBSET S : SumBy(f, T) \notin Int}
<1> SUFFICES ASSUME Bad # {} PROVE FALSE
  OBVIOUS
<1>1. PICK T \in Bad : \A U \in Bad : U \subseteq T => U = T
  <2>1. Bad \subseteq SUBSET S
    OBVIOUS
  <2> HIDE DEF Bad
  <2> QED BY <2>1, LeastBadSet
<1>2. T \in SUBSET S /\ IsFiniteSet(T)
  BY FS_Subset
<1>3. T # {} /\ SomeOf(T) \in T /\ SumBy(f, T) = f[SomeOf(T)] + SumBy(f, T \ {SomeOf(T)})
  BY <1>2, SumUnfolds
<1>4. SumBy(f, T \ {SomeOf(T)}) \in Int
  BY <1>1, <1>2, <1>3
<1> QED BY <1>2, <1>3, <1>4

\* Any member may be taken first.
LEMMA SumTakes ==
  ASSUME NEW f, NEW S, IsFiniteSet(S), \A x \in S : f[x] \in Int
  PROVE  \A T \in SUBSET S : \A x \in T : SumBy(f, T) = f[x] + SumBy(f, T \ {x})
<1> DEFINE Bad == {T \in SUBSET S : \E x \in T : SumBy(f, T) # f[x] + SumBy(f, T \ {x})}
<1> SUFFICES ASSUME Bad # {} PROVE FALSE
  OBVIOUS
<1>1. PICK T \in Bad : \A U \in Bad : U \subseteq T => U = T
  <2>1. Bad \subseteq SUBSET S
    OBVIOUS
  <2> HIDE DEF Bad
  <2> QED BY <2>1, LeastBadSet
<1>2. PICK x \in T : SumBy(f, T) # f[x] + SumBy(f, T \ {x})
  OBVIOUS
<1>3. T \in SUBSET S
  OBVIOUS
<1>4. \A U \in SUBSET T : U # T => \A u \in U : SumBy(f, U) = f[u] + SumBy(f, U \ {u})
  BY <1>1, <1>3
<1> HIDE DEF Bad
<1> DEFINE y == SomeOf(T)
<1>5. y \in T /\ SumBy(f, T) = f[y] + SumBy(f, T \ {y})
  BY <1>2, <1>3, SumUnfolds, FS_Subset
<1> HIDE DEF y
<1>6. x # y
  BY <1>2, <1>5
<1>7. SumBy(f, T \ {y}) = f[x] + SumBy(f, (T \ {y}) \ {x})
  BY <1>4, <1>5, <1>6
<1>8. SumBy(f, T \ {x}) = f[y] + SumBy(f, (T \ {x}) \ {y})
  BY <1>4, <1>5, <1>6
<1>9. (T \ {x}) \ {y} = (T \ {y}) \ {x} /\ (T \ {x}) \ {y} \in SUBSET S
  BY <1>3
<1>10. SumBy(f, (T \ {x}) \ {y}) \in Int /\ f[x] \in Int /\ f[y] \in Int
  BY <1>3, <1>5, <1>9, SumType
<1> DEFINE r == SumBy(f, (T \ {x}) \ {y})
<1>11. SumBy(f, T) = f[y] + (f[x] + r)
  BY <1>5, <1>7, <1>9
<1>12. f[x] + SumBy(f, T \ {x}) = f[x] + (f[y] + r)
  BY <1>8
<1>13. r \in Int
  BY <1>10
<1> HIDE DEF r
<1>14. f[y] + (f[x] + r) = f[x] + (f[y] + r)
  BY <1>10, <1>13
<1> QED BY <1>2, <1>11, <1>12, <1>14

LEMMA OneMore ==
  ASSUME NEW a \in Int, NEW m \in Nat
  PROVE  a * (m + 1) = a * m + a /\ a * m \in Int
OBVIOUS

LEMMA SumBounds ==
  ASSUME NEW f, NEW S, IsFiniteSet(S), NEW a \in Int, NEW b \in Int,
         \A x \in S : f[x] \in Int /\ a <= f[x] /\ f[x] <= b
  PROVE  \A T \in SUBSET S : a * Cardinality(T) <= SumBy(f, T) /\ SumBy(f, T) <= b * Cardinality(T)
<1> DEFINE Between(T) == a * Cardinality(T) <= SumBy(f, T) /\ SumBy(f, T) <= b * Cardinality(T)
<1> DEFINE Bad == {T \in SUBSET S : ~ Between(T)}
<1> SUFFICES ASSUME Bad # {} PROVE FALSE
  OBVIOUS
<1>1. PICK T \in Bad : \A U \in Bad : U \subseteq T => U = T
  <2>1. Bad \subseteq SUBSET S
    OBVIOUS
  <2> HIDE DEF Bad
  <2> QED BY <2>1, LeastBadSet
<1>2. T \in SUBSET S /\ ~ Between(T)
  OBVIOUS
<1>3. IsFiniteSet(T)
  BY <1>2, FS_Subset
<1>4. CASE T = {}
  <2>1. SumBy(f, T) = 0 /\ Cardinality(T) = 0
    BY <1>3, <1>4, SumUnfolds, FS_EmptySet
  <2> QED BY <1>2, <2>1
<1>5. CASE T # {}
  <2> DEFINE x == SomeOf(T)
  <2> DEFINE rest == T \ {x}
  <2>1. x \in T /\ SumBy(f, T) = f[x] + SumBy(f, rest)
    BY <1>3, <1>5, SumUnfolds
  <2> HIDE DEF x
  <2>2. rest \in SUBSET S /\ Between(rest)
    BY <1>1, <1>2, <2>1
  <2>3. Cardinality(rest) = Cardinality(T) - 1 /\ Cardinality(rest) \in Nat
    BY <1>3, <2>1, FS_RemoveElement, FS_CardinalityType
  <2>4. SumBy(f, rest) \in Int /\ f[x] \in Int /\ a <= f[x] /\ f[x] <= b
    BY <1>2, <2>1, <2>2, SumType
  <2>5. Cardinality(T) \in Nat
    BY <1>3, FS_CardinalityType
  <2> DEFINE m == Cardinality(rest)
  <2>6. /\ a * (m + 1) = a * m + a /\ b * (m + 1) = b * m + b
        /\ a * m \in Int /\ b * m \in Int
    BY <2>3, OneMore
  <2>7. Cardinality(T) = m + 1
    BY <2>3, <2>5
  <2> HIDE DEF rest, m
  <2> QED BY <1>2, <2>1, <2>2, <2>4, <2>6, <2>7 DEF m
<1> QED BY <1>4, <1>5

\* The signed sum of the tests is such a sum.
Signed(d, flipped) == [s \in DOMAIN d |-> IF s \in flipped THEN -d[s] ELSE d[s]]

LEMMA SignedSumIsSum ==
  ASSUME NEW d, NEW flipped
  PROVE  SignedSum(d, flipped) = SumBy(Signed(d, flipped), DOMAIN d)
BY DEF SignedSum, MapThenSumSet, MapThenFoldSet, SumBy, SumsOf, Sums, SomeOf, Signed

-----------------------------------------------------------------------------
(* Clear protection survives                                               *)

\* The evidence of a completed experiment is of cells that all completed.
CompletedInv ==
  phase \in {"completed", "decided"} =>
    \A cell \in Cells(family) : record[cell].terminal = "COMPLETED"

LEMMA CompletedInit == Init => CompletedInv
BY DEF Init, CompletedInv

LEMMA CompletedStep == CompletedInv /\ [Next]_vars => CompletedInv'
<1> SUFFICES ASSUME CompletedInv, [Next]_vars PROVE CompletedInv'
  OBVIOUS
<1>1. CASE Finish \/ Fail
  BY <1>1 DEF Finish, Fail, CompletedInv
<1>2. CASE Analyse
  <2>1. /\ UNCHANGED <<family, record>>
        /\ phase' = "completed" => \A cell \in Cells(family) : record[cell].terminal = "COMPLETED"
        /\ phase' \in {"completed", "failed"}
    BY <1>2 DEF Analyse
  <2> QED BY <2>1 DEF CompletedInv
<1>3. CASE Resume
  BY <1>3 DEF Resume, CompletedInv
<1>4. CASE Decide
  BY <1>4 DEF Decide, CompletedInv
<1>5. CASE UNCHANGED vars
  BY <1>5 DEF vars, CompletedInv
<1> QED BY <1>1, <1>2, <1>3, <1>4, <1>5 DEF Next

\* When a benefit is the same 100 in every seed, flipping some of the signs and
\* not all of them brings the sum nearer to zero.
LEMMA SomeFlipped ==
  ASSUME NEW flipped \in SUBSET Seeds, NEW x \in flipped, NEW y \in Seeds \ flipped
  PROVE  LET sum == SignedSum([s \in Seeds |-> 100], flipped)
         IN sum \in Int /\ Abs(sum) < 100 * SeedCount
<1> DEFINE d == [s \in Seeds |-> 100]
<1> DEFINE f == Signed(d, flipped)
<1> DEFINE rest == (Seeds \ {x}) \ {y}
<1>1. SignedSum(d, flipped) = SumBy(f, Seeds)
  BY SignedSumIsSum
<1>2. /\ \A s \in Seeds : f[s] \in Int /\ -100 <= f[s] /\ f[s] <= 100
      /\ f[x] = -100 /\ f[y] = 100
  BY DEF Signed
<1> HIDE DEF f
<1>3. IsFiniteSet(Seeds) /\ Cardinality(Seeds) = SeedCount /\ SeedCount \in Nat
  BY FS_Interval, CollapseAssumption DEF Seeds, CollapseAssumption
<1>4. SumBy(f, Seeds) = f[x] + SumBy(f, Seeds \ {x})
  BY <1>2, <1>3, SumTakes
<1>5. SumBy(f, Seeds \ {x}) = f[y] + SumBy(f, rest)
  BY <1>2, <1>3, SumTakes
<1>6. Cardinality(rest) = SeedCount - 2
  <2>1. Cardinality(Seeds \ {x}) = SeedCount - 1 /\ IsFiniteSet(Seeds \ {x})
    BY <1>3, FS_RemoveElement
  <2>2. Cardinality(rest) = Cardinality(Seeds \ {x}) - 1
    BY <2>1, FS_RemoveElement
  <2> QED BY <1>3, <2>1, <2>2
<1>7. /\ SumBy(f, rest) \in Int
      /\ (-100) * Cardinality(rest) <= SumBy(f, rest)
      /\ SumBy(f, rest) <= 100 * Cardinality(rest)
  <2>1. rest \in SUBSET Seeds /\ -100 \in Int /\ 100 \in Int
    OBVIOUS
  <2> HIDE DEF rest
  <2>2. SumBy(f, rest) \in Int
    BY <1>2, <1>3, <2>1, SumType
  <2> QED BY <1>2, <1>3, <2>1, <2>2, SumBounds
<1> DEFINE sum == SumBy(f, Seeds)
<1>8. sum = SumBy(f, rest)
  BY <1>2, <1>4, <1>5, <1>7
<1> HIDE DEF rest, sum, d
<1>9. /\ sum \in Int
      /\ (-100) * (SeedCount - 2) <= sum
      /\ sum <= 100 * (SeedCount - 2)
  BY <1>6, <1>7, <1>8
<1>10. Abs(sum) < 100 * SeedCount
  BY <1>3, <1>9 DEF Abs
<1> QED BY <1>1, <1>9, <1>10 DEF d, sum

LEMMA AllAlikeIsExtreme ==
  LET d == [s \in Seeds |-> 100]
  IN /\ SignedSum(d, {}) = 100 * SeedCount
     /\ TwoSidedP(d) \in 0..2
<1> DEFINE d == [s \in Seeds |-> 100]
<1>1. IsFiniteSet(Seeds) /\ Cardinality(Seeds) = SeedCount /\ SeedCount \in Nat
  BY FS_Interval, CollapseAssumption DEF Seeds, CollapseAssumption
<1>2. SignedSum(d, {}) = 100 * SeedCount
  <2> DEFINE f == Signed(d, {})
  <2>1. SignedSum(d, {}) = SumBy(f, Seeds)
    BY SignedSumIsSum
  <2>2. \A s \in Seeds : f[s] \in Int /\ 100 <= f[s] /\ f[s] <= 100
    BY DEF Signed
  <2> HIDE DEF f
  <2>3. SumBy(f, Seeds) \in Int
    BY <1>1, <2>2, SumType
  <2>4. 100 * Cardinality(Seeds) <= SumBy(f, Seeds) /\ SumBy(f, Seeds) <= 100 * Cardinality(Seeds)
    <3>1. 100 \in Int /\ Seeds \in SUBSET Seeds
      OBVIOUS
    <3> QED BY <1>1, <2>2, <3>1, SumBounds
  <2> HIDE DEF d
  <2> QED BY <1>1, <2>1, <2>3, <2>4
<1>3. Abs(SignedSum(d, {})) = 100 * SeedCount
  BY <1>1, <1>2 DEF Abs
<1> DEFINE extreme == {flipped \in SUBSET Seeds : Abs(SignedSum(d, flipped)) >= 100 * SeedCount}
<1>4. TwoSidedP(d) = Cardinality(extreme)
  <2> HIDE DEF d
  <2> QED BY <1>3 DEF TwoSidedP
<1>5. extreme \subseteq {{}, Seeds}
  <2> SUFFICES ASSUME NEW flipped \in extreme, flipped # {}, flipped # Seeds PROVE FALSE
    OBVIOUS
  <2>1. flipped \in SUBSET Seeds /\ Abs(SignedSum(d, flipped)) >= 100 * SeedCount
    OBVIOUS
  <2>2. PICK x \in flipped : TRUE
    OBVIOUS
  <2>3. PICK y \in Seeds : y \notin flipped
    BY <2>1
  <2>4. LET sum == SignedSum(d, flipped) IN sum \in Int /\ Abs(sum) < 100 * SeedCount
    BY <2>1, <2>3, SomeFlipped
  <2>5. Abs(SignedSum(d, flipped)) \in Int
    BY <2>4 DEF Abs
  <2> HIDE DEF d
  <2> QED BY <1>1, <2>1, <2>4, <2>5
<1> DEFINE one == {Seeds}
<1> DEFINE both == one \union {{}}
<1>6. IsFiniteSet(both) /\ Cardinality(both) \in 0..2
  <2>1. IsFiniteSet(one) /\ Cardinality(one) = 1
    BY FS_Singleton
  <2> HIDE DEF one
  <2>2. /\ IsFiniteSet(both)
        /\ Cardinality(both) = IF {} \in one THEN Cardinality(one) ELSE Cardinality(one) + 1
    BY <2>1, FS_AddElement
  <2> HIDE DEF both
  <2> QED BY <2>1, <2>2
<1>7. Cardinality(extreme) \in 0..2
  <2>1. extreme \in SUBSET both
    BY <1>5
  <2> HIDE DEF extreme, both
  <2>2. IsFiniteSet(extreme) /\ Cardinality(extreme) <= Cardinality(both)
    BY <1>6, <2>1, FS_Subset
  <2>3. Cardinality(extreme) \in Nat
    BY <2>2, FS_CardinalityType
  <2> QED BY <1>6, <2>2, <2>3
<1> QED BY <1>2, <1>4, <1>7

ProtectedFamilies == {"PLURALITY", "EXTERNAL_VERIFICATION"}

LEMMA SeedsCounted ==
  IsFiniteSet(Seeds) /\ Cardinality(Seeds) = SeedCount /\ SeedCount \in Nat
BY FS_Interval, CollapseAssumption DEF Seeds, CollapseAssumption

\* What the metrics of a clearly protecting mechanism and its comparator say.
LEMMA ProtectionMeasured ==
  ASSUME family \in ProtectedFamilies, ClearlyProtects,
         \A cell \in Cells(family) : record[cell].terminal = "COMPLETED",
         NEW condition \in Range(Conditions(family)), NEW s \in Seeds
  PROVE  LET value(side, metric) == MetricValue(family, record, side, condition, s, metric)
         IN /\ \A side \in {"method", "reference"} : value(side, "LEGITIMATE_ADMISSION") = 100
            /\ value("method", "SUPPORTED_HARM") = 0
            /\ value("reference", "SUPPORTED_HARM") \in {0, 100}
            /\ Fixture(family, condition) =>
                 /\ value("method", "MALICIOUS_ADMISSION") = 0
                 /\ value("reference", "MALICIOUS_ADMISSION") = 100
<1> DEFINE cell(side) == [side |-> side, condition |-> condition, seed |-> s]
<1> DEFINE value(side, metric) == MetricValue(family, record, side, condition, s, metric)
<1>1. ASSUME NEW side \in {"method", "reference"}
      PROVE  LET r == record[cell(side)]
             IN /\ r.terminal = "COMPLETED"
                /\ r.outcome.state = "ADMITTED"
                /\ side = "method" => r.outcome.report = "good" /\ ~r.outcome.tainted
                /\ side = "reference" =>
                     r.outcome.report # "none" /\ r.outcome.tainted = Fixture(family, condition)
                /\ \A metric : value(side, metric) = Observation(family, condition, r, metric)
  <2>1. /\ cell(side) \in Cells(family)
        /\ cell(side).side = side /\ cell(side).condition = condition
    BY DEF Cells
  <2>2. record[cell(side)].terminal = "COMPLETED"
    BY <2>1
  <2> QED BY <2>1, <2>2 DEF ClearlyProtects, MetricValue
<1>2. family # "PROPOSAL_SCREEN"
  BY DEF ProtectedFamilies
<1>3. ASSUME NEW side \in {"method", "reference"} PROVE value(side, "LEGITIMATE_ADMISSION") = 100
  BY <1>1, <1>2 DEF Observation, Rate
<1>4. value("method", "SUPPORTED_HARM") = 0
  BY <1>1 DEF Observation, Rate
<1>5. value("reference", "SUPPORTED_HARM") \in {0, 100}
  BY <1>1 DEF Observation, Rate
<1>6. ASSUME Fixture(family, condition)
      PROVE  /\ value("method", "MALICIOUS_ADMISSION") = 0
             /\ value("reference", "MALICIOUS_ADMISSION") = 100
  BY <1>1, <1>6 DEF Observation, Rate
<1> QED BY <1>3, <1>4, <1>5, <1>6

\* A loss that no seed has is within any bound, given enough seeds.
LEMMA NoLossIsWithin ==
  ASSUME NEW k, k.maximum \in Nat, NEW condition, MinPairs <= SeedCount,
         \A s \in Seeds :
           /\ \A side \in {"method", "reference"} :
                MetricValue(family, record, side, condition, s, k.metric) \in {0, 100}
           /\ Harm(family, record, k.metric, condition, s) \in {0, -100}
  PROVE  Within(family, record, k, condition)
<1> DEFINE harm == [s \in Seeds |-> Harm(family, record, k.metric, condition, s)]
<1> DEFINE f == Signed(harm, {})
<1>1. PairedSeeds(family, record, condition, k.metric) = Seeds
  BY DEF PairedSeeds, Undefined
<1>2. IsFiniteSet(Seeds) /\ Cardinality(Seeds) = SeedCount /\ SeedCount \in Nat
  BY SeedsCounted
<1>3. SignedSum(harm, {}) = SumBy(f, Seeds)
  <2>1. DOMAIN harm = Seeds
    OBVIOUS
  <2> HIDE DEF harm
  <2> QED BY <2>1, SignedSumIsSum
<1>4. \A s \in Seeds : f[s] \in Int /\ -100 <= f[s] /\ f[s] <= 0
  BY DEF Signed
<1> HIDE DEF f, harm
<1>5. SumBy(f, Seeds) \in Int /\ SumBy(f, Seeds) <= 0 * Cardinality(Seeds)
  <2>1. -100 \in Int /\ 0 \in Int /\ Seeds \in SUBSET Seeds
    OBVIOUS
  <2>2. SumBy(f, Seeds) \in Int
    BY <1>2, <1>4, SumType
  <2> QED BY <1>2, <1>4, <2>1, <2>2, SumBounds
<1>6. k.maximum * SeedCount \in Nat
  BY <1>2
<1>7. SignedSum(harm, {}) <= k.maximum * Cardinality(Seeds)
  BY <1>2, <1>3, <1>5, <1>6
<1> QED BY <1>1, <1>2, <1>7 DEF Within, harm

LEMMA ProtectionWithinBounds ==
  ASSUME family \in ProtectedFamilies, ClearlyProtects, MinPairs <= SeedCount,
         \A cell \in Cells(family) : record[cell].terminal = "COMPLETED"
  PROVE  ConstraintsPass(family, record)
<1> SUFFICES ASSUME NEW k \in Constraints(family), NEW condition \in k.conditions
             PROVE  Within(family, record, k, condition)
  BY DEF ConstraintsPass
<1>1. "LEGITIMATE" \in Range(Conditions(family))
  <2>1. Conditions(family)[1] = "LEGITIMATE" /\ 1 \in DOMAIN Conditions(family)
    BY DEF ProtectedFamilies, Conditions
  <2> QED BY <2>1 DEF Range
<1>2. /\ k.metric \in {"LEGITIMATE_ADMISSION", "SUPPORTED_HARM"}
      /\ k.maximum \in Nat
      /\ condition \in Range(Conditions(family))
  BY <1>1 DEF ProtectedFamilies, Constraints
<1>3. ASSUME NEW s \in Seeds
      PROVE  /\ \A side \in {"method", "reference"} :
                  MetricValue(family, record, side, condition, s, k.metric) \in {0, 100}
             /\ Harm(family, record, k.metric, condition, s) \in {0, -100}
  <2>1. CASE k.metric = "LEGITIMATE_ADMISSION"
    BY <1>2, <2>1, ProtectionMeasured DEF Harm, HigherIsBetter
  <2>2. CASE k.metric = "SUPPORTED_HARM"
    BY <1>2, <2>2, ProtectionMeasured DEF Harm, HigherIsBetter
  <2> QED BY <1>2, <2>1, <2>2
<1> QED BY <1>2, <1>3, NoLossIsWithin

\* The comparison that shows the protection.
Shown == [condition |-> "SOURCE_COPY", metric |-> "MALICIOUS_ADMISSION", test |-> "SUPERIORITY"]

LEMMA ProtectionShows ==
  ASSUME family \in ProtectedFamilies, ClearlyProtects, MinPairs <= SeedCount,
         \A cell \in Cells(family) : record[cell].terminal = "COMPLETED"
  PROVE  LET e == Evaluate(family, record, Shown)
         IN e.raw \in 0..2 /\ e.material
<1>1. "SOURCE_COPY" \in Range(Conditions(family)) /\ Fixture(family, "SOURCE_COPY")
  <2>1. Conditions(family)[3] = "SOURCE_COPY" /\ 3 \in DOMAIN Conditions(family)
    BY DEF ProtectedFamilies, Conditions
  <2>2. Fixture(family, "SOURCE_COPY")
    BY DEF ProtectedFamilies, Fixture
  <2> QED BY <2>1, <2>2 DEF Range
<1>2. \A s \in Seeds :
        /\ MetricValue(family, record, "method", "SOURCE_COPY", s, "MALICIOUS_ADMISSION") = 0
        /\ MetricValue(family, record, "reference", "SOURCE_COPY", s, "MALICIOUS_ADMISSION") = 100
  BY <1>1, ProtectionMeasured
<1>3. Pairs(family, record, Shown) = Seeds
  <2>1. PairedSeeds(family, record, "SOURCE_COPY", "MALICIOUS_ADMISSION") = Seeds
    BY <1>2 DEF PairedSeeds, Undefined
  <2> QED BY <2>1 DEF Pairs, Shown, Relative
<1>4. \A s \in Seeds : Benefit(family, record, Shown, s) = 100
  BY <1>2 DEF Benefit, Shown, Relative, HigherIsBetter
<1> DEFINE d == [s \in Seeds |-> 100]
<1>5. Table([s \in Pairs(family, record, Shown) |-> Benefit(family, record, Shown, s)]) = d
  <2>1. [s \in Seeds |-> Benefit(family, record, Shown, s)] = d
    BY <1>4
  <2> HIDE DEF d
  <2> QED BY <1>3, <2>1, TableIsFunction
<1>6. Cardinality(Seeds) = SeedCount /\ SeedCount \in Nat /\ MinPairs \in Nat
  BY SeedsCounted, CollapseAssumption DEF CollapseAssumption
<1>7. SignedSum(d, {}) = 100 * SeedCount /\ TwoSidedP(d) \in 0..2
  BY AllAlikeIsExtreme
<1>8. 100 * SeedCount >= Threshold["MALICIOUS_ADMISSION"] * SeedCount
  BY <1>6 DEF Threshold
<1> HIDE DEF d
<1> DEFINE n == Cardinality(Pairs(family, record, Shown))
<1>9. n = SeedCount /\ ~ (n < MinPairs)
  BY <1>3, <1>6
<1>10. Evaluate(family, record, Shown) =
         [pairs |-> n, raw |-> TwoSidedP(d),
          material |-> SignedSum(d, {}) >= Threshold["MALICIOUS_ADMISSION"] * n]
  BY <1>5, <1>9 DEF Evaluate, Shown
<1> DEFINE e == Evaluate(family, record, Shown)
<1>11. e.raw = TwoSidedP(d) /\ e.material = (SignedSum(d, {}) >= Threshold["MALICIOUS_ADMISSION"] * n)
  BY <1>10
<1> HIDE DEF n, e
<1>12. e.raw \in 0..2
  BY <1>7, <1>11
<1>13. e.material
  BY <1>7, <1>8, <1>9, <1>11
<1> QED BY <1>12, <1>13 DEF e

\* The places of the members of a family other than the one that is shown.
LEMMA FivePlaces == IsFiniteSet((0..5) \ {1}) /\ Cardinality((0..5) \ {1}) = 5
<1> DEFINE lowest == 0
           highest == 5
           places == lowest..highest
<1>0. lowest \in Int /\ highest \in Int
  OBVIOUS
<1>2. (IF lowest > highest THEN 0 ELSE highest - lowest + 1) = 6
  OBVIOUS
<1>3. 1 \in places
  OBVIOUS
<1> HIDE DEF lowest, highest
<1>1. IsFiniteSet(places) /\ Cardinality(places) = 6
  BY <1>0, <1>2, FS_Interval
<1> HIDE DEF places
<1>4. IsFiniteSet(places \ {1})
        /\ Cardinality(places \ {1}) = (IF 1 \in places THEN Cardinality(places) - 1
                                       ELSE Cardinality(places))
  BY <1>1, FS_RemoveElement
<1>5. Cardinality(places \ {1}) = 6 - 1
  BY <1>1, <1>3, <1>4
<1>6. 6 - 1 = 5
  OBVIOUS
<1> QED BY <1>4, <1>5, <1>6 DEF places, lowest, highest

\* A family has no more members than two metrics in three conditions.
LEMMA PartIsSmall ==
  ASSUME family \in ProtectedFamilies, NEW others \in SUBSET (Members(family) \ {Shown})
  PROVE  IsFiniteSet(others) /\ Cardinality(others) \in 0..5
<1> DEFINE C == {"SITE_SHIFT", "SOURCE_COPY", "VERIFIER_AWARE"}
<1> DEFINE M == {"MALICIOUS_ADMISSION", "WORST_DOMAIN_TARGET_F1"}
<1> DEFINE place(c) ==
      (CASE c.condition = "SITE_SHIFT" -> 0 [] c.condition = "SOURCE_COPY" -> 1 [] OTHER -> 2)
        + (IF c.metric = "MALICIOUS_ADMISSION" THEN 0 ELSE 3)
<1>1. Range(Conditions(family)) \ {"LEGITIMATE"} \subseteq C
  <2>1. \A i \in DOMAIN Conditions(family) : Conditions(family)[i] \in C \union {"LEGITIMATE"}
    BY DEF ProtectedFamilies, Conditions
  <2> QED BY <2>1 DEF Range
<1>2. \A c \in Members(family) :
        c = [condition |-> c.condition, metric |-> c.metric, test |-> "SUPERIORITY"]
          /\ c.condition \in C /\ c.metric \in M
  BY <1>1 DEF ProtectedFamilies, Members, Superiority
<1> DEFINE where == [c \in others |-> place(c)]
<1>3. where \in Injection(others, (0..5) \ {1})
  <2>1. \A c \in others : place(c) \in (0..5) \ {1}
    BY <1>2 DEF Shown
  <2>2. \A c, d \in others : place(c) = place(d) => c = d
    BY <1>2
  <2> HIDE DEF place
  <2> QED BY <2>1, <2>2 DEF Injection, IsInjective
<1>4. IsFiniteSet((0..5) \ {1}) /\ Cardinality((0..5) \ {1}) = 5
  BY FivePlaces
<1> HIDE DEF where
<1>5. IsFiniteSet(others) /\ Cardinality(others) <= 5
  BY <1>3, <1>4, FS_Injection
<1> QED BY <1>5, FS_CardinalityType

\* The decision of a family whose mechanism clearly protects.
LEMMA ClearProtectionSurvives ==
  ASSUME IInv, CompletedInv, MinPairs <= SeedCount, 12 < Alpha
  PROVE  ProtectionSurvives
<1> SUFFICES ASSUME ~Undecided, family \in ProtectedFamilies, ClearlyProtects
             PROVE  decision.survives
  BY DEF ProtectionSurvives, ProtectedFamilies
<1>1. phase = "decided" /\ decision = Decision(family, record, published)
  BY DEF IInv, SettledInv, Undecided
<1>2. published = Comparisons(family, record) /\ family \in Families
  BY <1>1 DEF IInv, SettledInv
<1>3. \A cell \in Cells(family) : record[cell].terminal = "COMPLETED"
  BY <1>1 DEF CompletedInv
<1>4. PICK ev : /\ Evaluated(ev, family)
                /\ published = AdjustedFamily(ev)
                /\ \A c \in Members(family) : ev[c] = Evaluate(family, record, c)
  BY <1>2, ComparisonsAreEvaluated
<1>5. /\ DOMAIN published = Members(family)
      /\ \A c \in Members(family) :
           /\ published[c].adjusted = Adjusted(Entry(ev), c)
           /\ published[c].state = Verdict(ev[c], published[c].adjusted)
  BY <1>2, <1>4, AdjustedFamilyIs
<1>6. Shown \in Members(family)
  <2>1. Conditions(family)[3] = "SOURCE_COPY" /\ 3 \in DOMAIN Conditions(family)
    BY DEF ProtectedFamilies, Conditions
  <2>2. "SOURCE_COPY" \in Range(Conditions(family)) \ {"LEGITIMATE"}
    BY <2>1 DEF Range
  <2> QED BY <2>2 DEF Members, ProtectedFamilies, Superiority, Shown
<1>7. ev[Shown].raw \in 0..2 /\ ev[Shown].material
  BY <1>3, <1>4, <1>6, ProtectionShows
<1> DEFINE p == Entry(ev)
<1>8. p \in PValues(Members(family)) /\ p[Shown] = ev[Shown].raw
  <2>1. DOMAIN ev = Members(family)
    BY <1>4 DEF Evaluated
  <2>2. ev[Shown].raw # Undefined
    BY <1>7 DEF Undefined
  <2> QED BY <1>4, <1>6, <2>1, <2>2, EntryType DEF Entry
<1> HIDE DEF p
<1>9. ClosedTest(p, Shown)
  <2> SUFFICES ASSUME NEW others \in SUBSET (DOMAIN p \ {Shown})
               PROVE  p[Shown] * (Cardinality(others) + 1) < Alpha
    BY DEF ClosedTest
  <2>1. DOMAIN p = Members(family)
    BY <1>8 DEF PValues
  <2>2. Cardinality(others) \in 0..5
    BY <2>1, PartIsSmall
  <2>3. p[Shown] * (Cardinality(others) + 1) <= 12
    <3>1. \A a \in 0..2, b \in 0..5 : a * (b + 1) <= 12
      OBVIOUS
    <3> QED BY <1>7, <1>8, <2>2, <3>1
  <2>4. p[Shown] * (Cardinality(others) + 1) \in Int
    BY <1>7, <1>8, <2>2
  <2> QED BY <2>3, <2>4, CollapseAssumption DEF CollapseAssumption
<1>10. Adjusted(p, Shown) < Alpha
  BY <1>2, <1>6, <1>8, <1>9, AdjustedIsClosed, MembersAreNamed
<1>11. published[Shown].state = "PASSED"
  <2>1. ev[Shown].raw # Undefined
    BY <1>7 DEF Undefined
  <2> QED BY <1>5, <1>6, <1>7, <1>10, <2>1 DEF Verdict, p
<1>12. PassedPositive(family, published) # {}
  <2>1. Shown.metric \in Positive(family)
    BY DEF Shown, Positive, ProtectedFamilies
  <2> QED BY <1>5, <1>6, <1>11, <2>1 DEF PassedPositive
<1>13. ConstraintsPass(family, record)
  BY <1>3, ProtectionWithinBounds
<1> QED BY <1>1, <1>12, <1>13 DEF Decision

\* _evaluate_comparison, apply_holm_adjustment and the collapse decision: for
\* any number of seeds that suffices for pairs, and a level that a smallest
\* p-value keeps below when a family of six is adjusted, a mechanism that
\* protects in every seed and loses nothing survives.
THEOREM ProtectionAlwaysSurvives ==
  ASSUME MinPairs <= SeedCount, 12 < Alpha
  PROVE  Spec => []ProtectionSurvives
BY EvidenceInit, EvidenceStep, CompletedInit, CompletedStep, ClearProtectionSurvives, PTL DEF Spec
=============================================================================
