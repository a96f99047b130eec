------------------------ MODULE AdmissionCellProofs ------------------------
(***************************************************************************)
(* What AdmissionCell does for any number of domains, every reproducer     *)
(* order, every committee size and whichever reproducers are compromised.  *)
(*                                                                         *)
(* The argument for the scan is a count.  A round either trains a domain   *)
(* that is adequate, and so is not the source, or it fails and so do all   *)
(* rounds after it (RoundsCounted).  There are as many rounds as domains,  *)
(* one more than can train: a scan that has trained in each round has a    *)
(* round left, in which it settles.                                        *)
(***************************************************************************)
EXTENDS EvidenceScarcity, FiniteSetTheorems, WellFoundedInduction, TLAPS

\* The cell is one the data can give.
CellInv == cell \in Cells /\ Realistic(cell)

\* Domains train once, and only adequate ones, but for the source of the
\* origin ablation.
RowsInv ==
  /\ rows \in Seq(Domains)
  /\ Len(rows) = Cardinality(Rows)
  /\ \A d \in Rows :
       \/ d \in cell.adequate
       \/ cell.method = "NoOriginExclusion" /\ d = cell.source
  /\ phase \in {"screen", "evidence", "single"} => rows = <<>>
  /\ phase \in {"screen", "evidence"} => iteration = 0

\* Every round of the scan has trained a domain, or the next domain cannot
\* train in this round or any later one.
RoundsCounted ==
  phase = "scan" =>
    /\ state = "VERIFICATION_PENDING" => Rows # {}
    /\ state \in {"VERIFICATION_PENDING", "REPRODUCTION_PENDING"}
    /\ \/ iteration = Cardinality(Rows \ {cell.source})
       \/ /\ state = "REPRODUCTION_PENDING"
          /\ \E d \in Domains : IsNext(d, Rows) /\ CannotTrain(d)

\* Before the gate nothing is contributed, what is contributed are rows, and
\* there are enough certified ones of them; a cell without external
\* verification leaves the scan as soon as there are.
EnoughRows ==
  /\ contributors \subseteq Rows
  /\ phase # "done" => contributors = {}
  /\ phase = "synthesis" \/ contributors # {} => Reached(Rows)
  /\ phase = "scan" /\ ~External => ~Reached(Rows)

\* A cell of the single verifier does not scan, is not admitted before the end
\* and has no row without a positive report of an independent domain.
SingleReports ==
  /\ IF Single(cell.method) THEN phase # "scan" ELSE phase # "single"
  /\ phase # "done" => state # "ADMITTED"
  /\ Single(cell.method) =>
       \A d \in Rows : \E v \in votes :
         v.row = d /\ v.vote = "POSITIVE" /\ v.verifier \notin {d, cell.source}

IInv ==
  /\ TypeOK
  /\ CellInv
  /\ RowsInv
  /\ RoundsCounted
  /\ EnoughRows
  /\ SingleReports
  /\ InReproducerOrder
  /\ StopsAtRequirement
  /\ ScanSettles

-----------------------------------------------------------------------------
(* Rows, counts and the order                                              *)

\* Any set of domains is finite and has no more members than there are rounds.
LEMMA DomainsFinite ==
  ASSUME NEW S \in SUBSET Domains
  PROVE  IsFiniteSet(S) /\ Cardinality(S) \in Nat /\ Cardinality(S) <= Len(Order)
<1>1. IsFiniteSet(S) /\ Cardinality(S) <= Cardinality(Domains)
  BY ParametersAssumption, FS_Subset
<1>2. Cardinality(S) \in Nat /\ Cardinality(Domains) \in Nat
  BY <1>1, ParametersAssumption, FS_CardinalityType
<1>3. Len(Order) = Cardinality(Domains)
  BY <1>2, ParametersAssumption
<1> QED BY <1>1, <1>2, <1>3

\* The rows are domains; a domain that was not among them adds one.
LEMMA RowAdded ==
  ASSUME rows \in Seq(Domains), Len(rows) = Cardinality(Rows),
         NEW d \in Domains, d \notin Rows
  PROVE  /\ Append(rows, d) \in Seq(Domains)
         /\ Range(Append(rows, d)) = Rows \union {d}
         /\ Len(Append(rows, d)) = Len(rows) + 1
         /\ Len(Append(rows, d)) = Cardinality(Range(Append(rows, d)))
<1>1. Rows \subseteq Domains
  BY DEF Rows, Range
<1>2. /\ Append(rows, d) \in Seq(Domains) /\ Len(Append(rows, d)) = Len(rows) + 1
  OBVIOUS
<1>3. Range(Append(rows, d)) = Rows \union {d}
  <2>1. DOMAIN rows = 1..Len(rows) /\ DOMAIN Append(rows, d) = 1..(Len(rows) + 1)
        /\ Len(rows) \in Nat
    OBVIOUS
  <2>2. \A k \in 1..Len(rows) : Append(rows, d)[k] = rows[k]
    OBVIOUS
  <2>3. Append(rows, d)[Len(rows) + 1] = d
    OBVIOUS
  <2> DEFINE more == Append(rows, d)
             n == Len(rows)
  <2>4. DOMAIN rows = 1..n /\ DOMAIN more = 1..(n + 1) /\ n \in Nat
    BY <2>1
  <2>5. (\A k \in 1..n : more[k] = rows[k]) /\ more[n + 1] = d
    BY <2>2, <2>3
  <2> HIDE DEF more, n
  <2>6. 1..(n + 1) = (1..n) \union {n + 1}
    BY <2>4
  <2>7. Range(more) = {more[k] : k \in 1..n} \union {more[n + 1]}
    BY <2>4, <2>6, Zenon DEF Range
  <2>8. {more[k] : k \in 1..n} = {rows[k] : k \in 1..n}
    BY <2>5, Zenon
  <2>9. Rows = {rows[k] : k \in 1..n}
    BY <2>4 DEF Rows, Range
  <2> QED BY <2>5, <2>7, <2>8, <2>9 DEF more
<1>4. Cardinality(Rows \union {d}) = Cardinality(Rows) + 1
  BY <1>1, DomainsFinite, FS_AddElement
<1> QED BY <1>2, <1>3, <1>4

\* One row.
LEMMA OneRow ==
  ASSUME NEW d \in Domains
  PROVE  /\ <<d>> \in Seq(Domains) /\ Range(<<d>>) = {d}
         /\ Len(<<d>>) = 1 /\ Cardinality({d}) = 1
<1>1. Range(<<d>>) = {d}
  BY DEF Range
<1>2. Cardinality({d}) = 1
  BY FS_Singleton
<1> QED BY <1>1, <1>2

\* No rows.
LEMMA NoRows ==
  /\ <<>> \in Seq(Domains) /\ Range(<<>>) = {}
  /\ Len(<<>>) = 0 /\ Cardinality({}) = 0
BY FS_EmptySet DEF Range

\* Every method needs a row, and Krum the rows that it takes to outvote the
\* Byzantine ones.
LEMMA RequirementFacts ==
  ASSUME NEW m \in Methods
  PROVE  /\ RowRequirement(m) \in Nat \ {0}
         /\ m \in PluralitySynthesis => RowRequirement(m) >= 2 * MaxByzantineRows + 3
         /\ m = "OneRetrain" => RowRequirement(m) = 1
<1>1. CommitteeSize \in Nat \ {0} /\ MedianRows \in Nat \ {0}
  BY ParametersAssumption
<1>2. CASE m \in {"CoreBare", "OneRetrain"}
  BY <1>2 DEF RowRequirement, PluralitySynthesis
<1>3. CASE m = "ThreeRowMedian"
  BY <1>1, <1>3 DEF RowRequirement, PluralitySynthesis
<1>4. CASE m \notin {"CoreBare", "OneRetrain", "ThreeRowMedian"}
  <2>1. RowRequirement(m) = CommitteeSize
    BY <1>4 DEF RowRequirement
  <2> QED BY <2>1, <1>1, <1>4, ParametersAssumption
<1> QED BY <1>2, <1>3, <1>4

\* Certified rows are among the rows; without external verification they all
\* are.
LEMMA CertifiedFacts ==
  ASSUME NEW done \in SUBSET Domains
  PROVE  /\ CertifiedCount(done) \in Nat /\ Cardinality(done) \in Nat
         /\ CertifiedCount(done) <= Cardinality(done)
         /\ ~External \/ Single(cell.method) => CertifiedCount(done) = Cardinality(done)
<1>1. {d \in done : IsCertified(d)} \subseteq done
  OBVIOUS
<1>2. CertifiedCount(done) <= Cardinality(done)
  BY <1>1, DomainsFinite, FS_Subset DEF CertifiedCount
<1>3. CertifiedCount(done) \in Nat /\ Cardinality(done) \in Nat
  BY <1>1, DomainsFinite DEF CertifiedCount
<1>4. ~External \/ Single(cell.method) => {d \in done : IsCertified(d)} = done
  BY DEF IsCertified
<1> QED BY <1>2, <1>3, <1>4 DEF CertifiedCount

\* There is one next domain at most.
LEMMA NextIsUnique ==
  ASSUME NEW used, NEW d, NEW f, IsNext(d, used), IsNext(f, used)
  PROVE  d = f
<1>1. \E i, j \in DOMAIN Order : Order[i] = d /\ Order[j] = f /\ i <= j
  BY DEF IsNext
<1>2. \E i, j \in DOMAIN Order : Order[i] = f /\ Order[j] = d /\ i <= j
  BY DEF IsNext
<1>3. DOMAIN Order = 1..Cardinality(Domains) /\ Cardinality(Domains) \in Nat
  BY ParametersAssumption, FS_CardinalityType
<1>4. PICK i, j \in DOMAIN Order : Order[i] = d /\ Order[j] = f /\ i <= j
  BY <1>1
<1>5. PICK k, l \in DOMAIN Order : Order[k] = f /\ Order[l] = d /\ k <= l
  BY <1>2
<1>6. i = l /\ j = k
  BY <1>4, <1>5, ParametersAssumption
<1>7. i = j
  BY <1>3, <1>4, <1>5, <1>6
<1> QED BY <1>4, <1>7

\* What is decided by the cell alone stays decided.
LEMMA SameCell ==
  ASSUME cell' = cell
  PROVE  /\ External' <=> External
         /\ \A S : Reached(S)' <=> Reached(S)
         /\ \A d, S : IsNext(d, S)' <=> IsNext(d, S)
         /\ \A d : CannotTrain(d)' <=> CannotTrain(d)
<1>1. External' <=> External
  BY DEF External
<1>2. Compromised' = Compromised
  BY DEF Compromised
<1>3. \A d : IsCertified(d)' <=> IsCertified(d)
  BY <1>1, <1>2 DEF IsCertified
<1>4. \A S : CertifiedCount(S)' = CertifiedCount(S)
  <2> TAKE S
  <2>1. {d \in S : IsCertified(d)'} = {d \in S : IsCertified(d)}
    BY <1>3
  <2> QED BY <2>1 DEF CertifiedCount
<1>5. \A S : Reached(S)' <=> Reached(S)
  BY <1>4 DEF Reached
<1>6. \A d, S : IsNext(d, S)' <=> IsNext(d, S)
  BY DEF IsNext
<1>7. \A d : CannotTrain(d)' <=> CannotTrain(d)
  BY <1>2 DEF CannotTrain
<1> QED BY <1>1, <1>5, <1>6, <1>7

-----------------------------------------------------------------------------
(* The initial states                                                      *)

\* A cell that has done nothing yet.
THEOREM CellInit == Init => IInv
<1> SUFFICES ASSUME Init PROVE IInv
    OBVIOUS
<1>1. /\ cell \in Cells /\ Realistic(cell) /\ phase \in {"screen", "evidence"}
      /\ state = "CANDIDATE_SCREEN" /\ rows = <<>> /\ iteration = 0
      /\ consumed = {} /\ votes = {} /\ contributors = {} /\ Rows = {}
  BY NoRows DEF Init, Rows
<1>2. Len(Order) \in Nat /\ Cardinality(Domains) \in Nat
  BY ParametersAssumption, FS_CardinalityType
<1>3. TypeOK
  BY <1>1, <1>2, NoRows DEF TypeOK, States
<1>4. CellInv /\ RowsInv
  BY <1>1, NoRows DEF CellInv, RowsInv
<1>5. RoundsCounted /\ EnoughRows /\ ScanSettles
  BY <1>1 DEF RoundsCounted, EnoughRows, ScanSettles
<1>6. SingleReports /\ InReproducerOrder
  BY <1>1 DEF SingleReports, InReproducerOrder
<1>7. StopsAtRequirement
  BY <1>1, NoRows, RequirementFacts DEF StopsAtRequirement, Cells
<1> QED BY <1>3, <1>4, <1>5, <1>6, <1>7 DEF IInv

-----------------------------------------------------------------------------
(* One lemma per kind of step                                              *)

\* A step that trains nobody, from one phase to another.
LEMMA MoveKeepsInv ==
  ASSUME IInv, UNCHANGED <<cell, rows, iteration, consumed, votes, contributors>>,
         state' \in States \ {"ADMITTED"},
         \/ phase' = "done"
         \/ phase = "screen" /\ phase' = "evidence"
         \/ phase = "evidence" /\ phase' = "single" /\ Single(cell.method)
         \/ phase = "scan" /\ phase' = "synthesis" /\ Reached(Rows)
  PROVE  IInv'
<1>1. Rows' = Rows
  BY DEF Rows
<1>2. TypeOK'
  BY DEF IInv, TypeOK
<1>3. CellInv'
  BY DEF IInv, CellInv, Realistic
<1>4. RowsInv'
  BY <1>1 DEF IInv, RowsInv
<1>5. RoundsCounted' /\ ScanSettles'
  BY DEF RoundsCounted, ScanSettles
<1>6. EnoughRows'
  BY <1>1, SameCell DEF IInv, EnoughRows
<1>7. SingleReports'
  BY <1>1 DEF IInv, SingleReports
<1>8. InReproducerOrder' /\ StopsAtRequirement'
  BY <1>1, SameCell DEF IInv, InReproducerOrder, StopsAtRequirement
<1> QED BY <1>2, <1>3, <1>4, <1>5, <1>6, <1>7, <1>8 DEF IInv

\* The scan begins without rows, or with that of the origin ablation.
LEMMA StartScanKeepsInv ==
  ASSUME IInv, StartScan
  PROVE  IInv'
<1>1. /\ phase = "evidence" /\ phase' = "scan" /\ ~Single(cell.method)
      /\ UNCHANGED <<cell, iteration, consumed, votes, contributors>>
      /\ iteration = 0 /\ contributors = {} /\ cell.method \in Methods
  BY DEF StartScan, IInv, RowsInv, EnoughRows, TypeOK, Cells
<1>2. CASE rows' = <<>> /\ state' = "REPRODUCTION_PENDING"
  <2>1. Rows' = {}
    BY <1>2, NoRows DEF Rows
  <2>2. TypeOK'
    BY <1>1, <1>2, NoRows, DomainsFinite DEF IInv, TypeOK, States
  <2>3. CellInv'
    BY <1>1 DEF IInv, CellInv, Realistic
  <2>4. RowsInv'
    BY <1>1, <1>2, <2>1, NoRows DEF RowsInv
  <2>5. RoundsCounted' /\ ScanSettles'
    BY <1>1, <1>2, <2>1, NoRows DEF RoundsCounted, ScanSettles
  <2>6. EnoughRows'
    <3>1. ~External => ~Reached({})
      BY <1>1, CertifiedFacts, RequirementFacts, NoRows DEF Reached
    <3> QED BY <1>1, <2>1, <3>1, SameCell DEF EnoughRows
  <2>7. SingleReports' /\ InReproducerOrder'
    BY <1>1, <1>2, <2>1 DEF SingleReports, InReproducerOrder
  <2>8. StopsAtRequirement'
    BY <1>1, <1>2, NoRows, RequirementFacts DEF StopsAtRequirement
  <2> QED BY <2>2, <2>3, <2>4, <2>5, <2>6, <2>7, <2>8 DEF IInv
<1>3. CASE /\ rows' = <<cell.source>> /\ state' = "VERIFICATION_PENDING"
           /\ cell.method = "NoOriginExclusion" /\ cell.sourceUpdate
  <2>1. cell.source \in Domains /\ Cardinality(Domains) \in Nat
    BY <1>3, ParametersAssumption, FS_CardinalityType DEF IInv, CellInv, Cells, Realistic
  <2>2. Rows' = {cell.source} /\ Len(rows') = 1 /\ rows' \in Seq(Domains)
    BY <1>3, <2>1, OneRow DEF Rows
  <2>3. External
    BY <1>3 DEF External, ExternalVerification
  <2>4. TypeOK'
    <3>1. Cardinality(Domains) >= 1
      BY <2>1, ParametersAssumption, FS_EmptySet
    <3> QED BY <1>1, <1>3, <2>1, <2>2, <3>1 DEF IInv, TypeOK, States
  <2>5. CellInv'
    BY <1>1 DEF IInv, CellInv, Realistic
  <2>6. RowsInv'
    BY <1>1, <1>3, <2>1, <2>2, OneRow DEF RowsInv
  <2>7. RoundsCounted' /\ ScanSettles'
    <3>1. {cell.source} \ {cell.source} = {}
      OBVIOUS
    <3> QED BY <1>1, <1>3, <2>2, <3>1, NoRows DEF RoundsCounted, ScanSettles
  <2>8. EnoughRows'
    BY <1>1, <2>3, SameCell DEF EnoughRows
  <2>9. SingleReports' /\ InReproducerOrder'
    BY <1>1, <1>3, <2>2 DEF SingleReports, InReproducerOrder
  <2>10. StopsAtRequirement'
    BY <1>1, <2>3, SameCell DEF StopsAtRequirement
  <2> QED BY <2>4, <2>5, <2>6, <2>7, <2>8, <2>9, <2>10 DEF IInv
<1>4. \/ rows' = <<>> /\ state' = "REPRODUCTION_PENDING"
      \/ /\ rows' = <<cell.source>> /\ state' = "VERIFICATION_PENDING"
         /\ cell.method = "NoOriginExclusion" /\ cell.sourceUpdate
  <2>1. <<cell.source>> # <<>>
    OBVIOUS
  <2> QED BY <2>1 DEF StartScan
<1> QED BY <1>2, <1>3, <1>4

\* The domains a scan can train are fewer than its rounds.
LEMMA FewerThanRounds ==
  ASSUME IInv
  PROVE  /\ IsFiniteSet(Rows \ {cell.source}) /\ Cardinality(Rows \ {cell.source}) \in Nat
         /\ Len(Order) \in Nat
         /\ Rows # {} => Cardinality(Rows \ {cell.source}) < Len(Order)
<1>1. Rows \subseteq Domains /\ cell \in Cells /\ Realistic(cell)
  BY DEF Rows, Range, IInv, RowsInv, CellInv
<1>2. /\ IsFiniteSet(Rows \ {cell.source}) /\ Cardinality(Rows \ {cell.source}) \in Nat
      /\ Len(Order) \in Nat /\ Len(Order) = Cardinality(Domains)
  BY <1>1, DomainsFinite, ParametersAssumption, FS_CardinalityType
<1>3. CASE cell.source \in Domains
  <2>1. Rows \ {cell.source} \in SUBSET (Domains \ {cell.source})
    BY <1>1
  <2>2. /\ IsFiniteSet(Domains \ {cell.source})
        /\ Cardinality(Domains \ {cell.source}) = Cardinality(Domains) - 1
    BY <1>3, ParametersAssumption, FS_RemoveElement
  <2>3. Cardinality(Rows \ {cell.source}) <= Cardinality(Domains \ {cell.source})
    BY <2>1, <2>2, FS_Subset
  <2> QED BY <1>2, <2>2, <2>3
<1>4. CASE cell.source \notin Domains
  <2>1. cell.adequate = {} /\ Rows = {}
    BY <1>1, <1>4 DEF Cells, Realistic, IInv, RowsInv
  <2> QED BY <1>2, <2>1
<1> QED BY <1>2, <1>3, <1>4

\* A domain that trains was adequate and had not trained; no round has failed
\* before it.
LEMMA TrainedFacts ==
  ASSUME IInv, NEW d \in Domains, Scanning, IsNext(d, Rows), ~CannotTrain(d),
         rows' = Append(rows, d), UNCHANGED cell
  PROVE  /\ d \in cell.adequate /\ d \notin Rows /\ d # cell.source
         /\ Rows' = Rows \union {d} /\ rows' \in Seq(Domains)
         /\ Len(rows') = Len(rows) + 1 /\ Len(rows') = Cardinality(Rows')
         /\ iteration = Cardinality(Rows \ {cell.source})
         /\ Cardinality(Rows' \ {cell.source}) = iteration + 1
<1>1. d \in cell.adequate /\ d \notin Rows /\ d # cell.source
  BY DEF IsNext, IInv, CellInv, Realistic
<1>2. /\ Rows' = Rows \union {d} /\ rows' \in Seq(Domains)
      /\ Len(rows') = Len(rows) + 1 /\ Len(rows') = Cardinality(Rows')
  <2>1. rows \in Seq(Domains) /\ Len(rows) = Cardinality(Rows)
    BY DEF IInv, RowsInv
  <2> QED BY <1>1, <2>1, RowAdded DEF Rows
<1>3. iteration = Cardinality(Rows \ {cell.source})
  <2>1. ~\E f \in Domains : IsNext(f, Rows) /\ CannotTrain(f)
    BY NextIsUnique
  <2> QED BY <2>1 DEF Scanning, IInv, RoundsCounted
<1>4. Cardinality(Rows' \ {cell.source}) = iteration + 1
  <2>1. Rows' \ {cell.source} = (Rows \ {cell.source}) \union {d}
    BY <1>1, <1>2
  <2>2. d \notin Rows \ {cell.source}
    BY <1>1
  <2> QED BY <2>1, <2>2, <1>3, FewerThanRounds, FS_AddElement
<1> QED BY <1>1, <1>2, <1>3, <1>4

\* A round that trains a domain.
LEMMA ReproduceKeepsInv ==
  ASSUME IInv, NEW d \in Domains, Reproduce(d)
  PROVE  IInv'
<1>1. /\ Scanning /\ phase = "scan" /\ IsNext(d, Rows) /\ ~CannotTrain(d)
      /\ rows' = Append(rows, d) /\ iteration' = iteration + 1
      /\ UNCHANGED <<cell, consumed, votes, contributors>>
      /\ contributors = {} /\ ~Single(cell.method)
      /\ cell \in Cells /\ cell.method \in Methods
  BY DEF Reproduce, Scanning, IInv, EnoughRows, SingleReports, TypeOK, Cells
<1>2. /\ d \in cell.adequate /\ d \notin Rows /\ d # cell.source
      /\ Rows' = Rows \union {d} /\ rows' \in Seq(Domains)
      /\ Len(rows') = Len(rows) + 1 /\ Len(rows') = Cardinality(Rows')
      /\ iteration = Cardinality(Rows \ {cell.source})
      /\ Cardinality(Rows' \ {cell.source}) = iteration + 1
  BY <1>1, TrainedFacts
<1>3. \/ phase' = "scan" /\ state' = "VERIFICATION_PENDING" /\ External
      \/ phase' = "scan" /\ state' = "REPRODUCTION_PENDING" /\ ~External /\ ~Reached(Rows')
      \/ phase' = "synthesis" /\ state' = "SYNTHESIS_PENDING" /\ ~External /\ Reached(Rows')
  BY <1>1, <1>2 DEF Reproduce
<1>4. Rows' \in SUBSET Domains
  BY <1>2 DEF Rows, Range, IInv, RowsInv
<1>5. iteration' \in 0..Len(Order)
  BY <1>1, FewerThanRounds DEF Scanning, IInv, TypeOK
<1>6. Len(rows') <= Cardinality(Domains)
  BY <1>2, <1>4, ParametersAssumption, FS_Subset
<1>7. TypeOK'
  BY <1>1, <1>2, <1>3, <1>5, <1>6 DEF IInv, TypeOK, States
<1>8. CellInv'
  BY <1>1 DEF IInv, CellInv, Realistic
<1>9. RowsInv'
  BY <1>1, <1>2, <1>3 DEF IInv, RowsInv
<1>10. RoundsCounted' /\ ScanSettles'
  BY <1>1, <1>2, <1>3 DEF RoundsCounted, ScanSettles
<1>11. EnoughRows'
  BY <1>1, <1>3, SameCell DEF EnoughRows
<1>12. SingleReports'
  BY <1>1, <1>3 DEF SingleReports
<1>13. InReproducerOrder'
  <2> SUFFICES ASSUME NEW i \in DOMAIN Order, NEW j \in DOMAIN Order, i < j,
                      Order[i] \in cell.adequate, Order[j] \in Rows' \ {cell.source}
               PROVE  Order[i] \in Rows'
      BY <1>1 DEF InReproducerOrder
  <2>1. CASE Order[j] \in Rows
    BY <2>1, <1>1, <1>2 DEF IInv, InReproducerOrder
  <2>2. CASE Order[j] = d /\ Order[i] \notin Rows
    <3>1. PICK k, l \in DOMAIN Order : Order[k] = d /\ Order[l] = Order[i] /\ k <= l
      BY <1>1, <2>2 DEF IsNext
    <3>2. k = j /\ l = i
      BY <3>1, <2>2, ParametersAssumption
    <3>3. DOMAIN Order \subseteq Nat
      BY ParametersAssumption
    <3> QED BY <3>1, <3>2, <3>3
  <2> QED BY <2>1, <2>2, <1>2
<1>14. StopsAtRequirement'
  <2> SUFFICES ASSUME ~External PROVE Len(rows') <= RowRequirement(cell.method)
      BY <1>1, SameCell DEF StopsAtRequirement
  <2>1. ~Reached(Rows) /\ Rows \in SUBSET Domains /\ Len(rows) = Cardinality(Rows)
    BY <1>1, <1>2, <1>4 DEF IInv, EnoughRows, RowsInv
  <2>2. Len(rows) < RowRequirement(cell.method) /\ Len(rows) \in Nat
    BY <1>1, <2>1, CertifiedFacts, RequirementFacts DEF Reached
  <2> QED BY <1>1, <1>2, <2>2, RequirementFacts
<1> QED BY <1>7, <1>8, <1>9, <1>10, <1>11, <1>12, <1>13, <1>14 DEF IInv

\* A round that trains nobody.
LEMMA FailKeepsInv ==
  ASSUME IInv, NEW d \in Domains, FailToReproduce(d)
  PROVE  IInv'
<1>1. /\ phase = "scan" /\ phase' = "scan" /\ Rows' = Rows
      /\ IsNext(d, Rows) /\ CannotTrain(d)
      /\ state' = "REPRODUCTION_PENDING" /\ iteration' = iteration + 1 /\ iteration < Len(Order)
      /\ UNCHANGED <<cell, phase, rows, consumed, votes, contributors>>
  BY DEF FailToReproduce, Scanning, Rows
<1>2. TypeOK'
  BY <1>1, FewerThanRounds DEF IInv, TypeOK, States
<1>3. CellInv' /\ RowsInv'
  BY <1>1 DEF IInv, CellInv, Realistic, RowsInv
<1>4. RoundsCounted' /\ ScanSettles'
  BY <1>1, SameCell DEF RoundsCounted, ScanSettles
<1>5. EnoughRows'
  BY <1>1, SameCell DEF IInv, EnoughRows
<1>6. SingleReports'
  BY <1>1 DEF IInv, SingleReports
<1>7. InReproducerOrder' /\ StopsAtRequirement'
  BY <1>1, SameCell DEF IInv, InReproducerOrder, StopsAtRequirement
<1> QED BY <1>2, <1>3, <1>4, <1>5, <1>6, <1>7 DEF IInv

\* The one row of a single verifier's cell is the one reported on.
LEMMA TrySingleKeepsInv ==
  ASSUME IInv, NEW d \in Domains, NEW verifier \in Domains,
         NEW vote \in {"POSITIVE", "NEGATIVE", "ABSTAIN"}, TrySingle(d, verifier, vote)
  PROVE  IInv'
<1> DEFINE report == [row |-> d, verifier |-> verifier, vote |-> vote]
<1>1. /\ phase = "single" /\ rows = <<>> /\ Rows = {} /\ contributors = {}
      /\ Single(cell.method) /\ External /\ d \in cell.adequate
      /\ verifier \notin {d, cell.source}
      /\ consumed' = consumed \union {d} /\ votes' = votes \union {report}
      /\ UNCHANGED <<cell, iteration, contributors>>
  BY NoRows DEF TrySingle, IsNext, IInv, RowsInv, EnoughRows, SingleReports, Rows, Single,
                External, ExternalVerification
<1>2. report \in Vote
  BY DEF Vote
<1>3. CellInv'
  BY <1>1 DEF IInv, CellInv, Realistic
<1>4. CASE /\ vote = "POSITIVE" /\ rows' = <<d>>
           /\ phase' = "synthesis" /\ state' = "SYNTHESIS_PENDING"
  <2>1. Rows' = {d} /\ Len(rows') = 1 /\ rows' \in Seq(Domains) /\ Cardinality({d}) = 1
    BY <1>4, OneRow DEF Rows
  <2>2. Cardinality(Domains) >= 1
    BY ParametersAssumption, FS_EmptySet, FS_CardinalityType
  <2>3. TypeOK'
    BY <1>1, <1>2, <1>4, <2>1, <2>2 DEF IInv, TypeOK, States
  <2>4. RowsInv'
    BY <1>1, <1>4, <2>1 DEF RowsInv
  <2>5. RoundsCounted' /\ ScanSettles'
    BY <1>4 DEF RoundsCounted, ScanSettles
  <2>6. EnoughRows'
    <3>1. Reached({d})
      BY <1>1, <2>1, CertifiedFacts, RequirementFacts DEF Reached, Single, IInv, TypeOK, Cells
    <3> QED BY <1>1, <1>4, <2>1, <3>1, SameCell DEF EnoughRows
  <2>7. SingleReports'
    <3>1. /\ report \in votes' /\ report.row = d /\ report.vote = "POSITIVE"
          /\ report.verifier \notin {d, cell.source}
      BY <1>1, <1>4
    <3> HIDE DEF report
    <3> QED BY <1>1, <1>4, <2>1, <3>1 DEF SingleReports
  <2>8. InReproducerOrder' /\ StopsAtRequirement'
    BY <1>1, SameCell DEF InReproducerOrder, StopsAtRequirement
  <2> QED BY <1>3, <2>3, <2>4, <2>5, <2>6, <2>7, <2>8 DEF IInv
<1>5. CASE vote # "POSITIVE" /\ UNCHANGED <<rows, phase, state>>
  <2>1. Rows' = {}
    BY <1>1, <1>5 DEF Rows
  <2>2. TypeOK'
    BY <1>1, <1>2, <1>5 DEF IInv, TypeOK
  <2>3. RowsInv'
    BY <1>1, <1>5, <2>1 DEF IInv, RowsInv
  <2>4. RoundsCounted' /\ ScanSettles'
    BY <1>1, <1>5 DEF RoundsCounted, ScanSettles
  <2>5. EnoughRows'
    BY <1>1, <1>5, SameCell DEF EnoughRows
  <2>6. SingleReports'
    BY <1>1, <1>5, <2>1 DEF IInv, SingleReports
  <2>7. InReproducerOrder' /\ StopsAtRequirement'
    BY <1>1, SameCell DEF InReproducerOrder, StopsAtRequirement
  <2> QED BY <1>3, <2>2, <2>3, <2>4, <2>5, <2>6, <2>7 DEF IInv
<1> QED BY <1>4, <1>5 DEF TrySingle

\* The production update is made of rows, of which there are enough.
LEMMA SynthesiseKeepsInv ==
  ASSUME IInv, NEW production \in SUBSET Domains,
         NEW gate \in {"Inadequate", "Fails", "Passes"}, Synthesise(production, gate)
  PROVE  IInv'
<1>1. /\ phase = "synthesis" /\ phase' = "done" /\ production \in Productions
      /\ contributors' = production /\ state' \in States
      /\ UNCHANGED <<cell, rows, iteration, consumed, votes>> /\ Rows' = Rows
      /\ cell.method \in Methods
  BY DEF Synthesise, Settle, GateState, States, Rows, IInv, TypeOK, Cells
<1>2. Reached(Rows)
  BY <1>1 DEF IInv, EnoughRows
<1>3. Rows # {}
  <2>1. {} \in SUBSET Domains /\ Cardinality({}) = 0
    BY NoRows
  <2>2. CertifiedCount({}) \in Nat /\ CertifiedCount({}) <= 0
    BY <2>1, CertifiedFacts
  <2>3. ~Reached({})
    BY <1>1, <2>2, RequirementFacts DEF Reached
  <2> QED BY <1>2, <2>3
<1>4. rows[1] \in Rows
  <2>1. rows \in Seq(Domains) /\ rows # <<>>
    BY <1>3, NoRows DEF IInv, RowsInv, Rows
  <2>2. 1 \in DOMAIN rows
    BY <2>1
  <2> QED BY <2>2 DEF Rows, Range
<1>5. production \subseteq Rows
  BY <1>1, <1>4 DEF Productions
<1>6. TypeOK' /\ CellInv'
  BY <1>1 DEF IInv, TypeOK, CellInv, Realistic
<1>7. RowsInv' /\ RoundsCounted' /\ ScanSettles'
  BY <1>1 DEF IInv, RowsInv, RoundsCounted, ScanSettles
<1>8. EnoughRows'
  BY <1>1, <1>2, <1>5, SameCell DEF EnoughRows
<1>9. SingleReports'
  BY <1>1 DEF IInv, SingleReports
<1>10. InReproducerOrder' /\ StopsAtRequirement'
  BY <1>1, SameCell DEF IInv, InReproducerOrder, StopsAtRequirement
<1> QED BY <1>6, <1>7, <1>8, <1>9, <1>10 DEF IInv

-----------------------------------------------------------------------------
(* Every step                                                              *)

\* No step of a cell breaks the invariant.
THEOREM CellStep == IInv /\ [Next]_vars => IInv'
<1> SUFFICES ASSUME IInv, [Next]_vars PROVE IInv'
    OBVIOUS
<1>1. ASSUME NEW opening \in Openings, NEW adequate \in 0..ScreenDomains,
             NEW positive \in 0..adequate, Screen(opening, adequate, positive)
      PROVE  IInv'
  BY <1>1, MoveKeepsInv DEF Screen, Settle, States
<1>2. CASE LackEvidence \/ ExhaustSingle \/ RejectCommittee
  BY <1>2, MoveKeepsInv DEF LackEvidence, ExhaustSingle, RejectCommittee, Settle, States
<1>3. CASE StartSingle
  <2>1. state \in States \ {"ADMITTED"}
    BY <1>3 DEF StartSingle, IInv, TypeOK, SingleReports
  <2> QED BY <1>3, <2>1, MoveKeepsInv DEF StartSingle
<1>4. CASE StartScan
  BY <1>4, StartScanKeepsInv
<1>5. ASSUME NEW d \in Domains, Reproduce(d) \/ FailToReproduce(d)
      PROVE  IInv'
  BY <1>5, ReproduceKeepsInv, FailKeepsInv
<1>6. CASE ExhaustDomains
  BY <1>6, MoveKeepsInv DEF ExhaustDomains, Scanning, Settle, States
<1>7. CASE EndScan
  <2>1. state # "VERIFICATION_PENDING"
    BY <1>7, FewerThanRounds DEF EndScan, IInv, RoundsCounted
  <2>2. state \in States \ {"ADMITTED"}
    BY <1>7 DEF EndScan, IInv, TypeOK, SingleReports
  <2> QED BY <1>7, <2>1, <2>2, MoveKeepsInv DEF EndScan
<1>8. ASSUME NEW d \in Domains, NEW v \in Domains,
             NEW vote \in {"POSITIVE", "NEGATIVE", "ABSTAIN"}, TrySingle(d, v, vote)
      PROVE  IInv'
  BY <1>8, TrySingleKeepsInv
<1>9. ASSUME NEW production \in SUBSET Domains,
             NEW gate \in {"Inadequate", "Fails", "Passes"}, Synthesise(production, gate)
      PROVE  IInv'
  BY <1>9, SynthesiseKeepsInv
<1>10. CASE UNCHANGED vars
  <2>1. Rows' = Rows /\ UNCHANGED <<cell, phase, state, rows, iteration, consumed, votes, contributors>>
    BY <1>10 DEF vars, Rows
  <2> QED BY <2>1, SameCell DEF IInv, TypeOK, CellInv, Realistic, RowsInv, RoundsCounted,
                EnoughRows, SingleReports, InReproducerOrder, StopsAtRequirement, ScanSettles
<1> QED BY <1>1, <1>2, <1>3, <1>4, <1>5, <1>6, <1>7, <1>8, <1>9, <1>10 DEF Next

-----------------------------------------------------------------------------
(* The theorems                                                            *)

\* In every run of every cell the strengthened invariant holds.
THEOREM CellInvariant == Spec => []IInv
<1>1. Init => IInv
  BY CellInit
<1>2. IInv /\ [Next]_vars => IInv'
  BY CellStep
<1> QED BY <1>1, <1>2, PTL DEF Spec

\* Rows, reports, contributors and states stay within the cell's domains.
THEOREM CellTypeCorrect == Spec => []TypeOK
<1>1. IInv => TypeOK
  BY DEF IInv
<1> QED BY <1>1, CellInvariant, PTL

\* The proposing domain neither reproduces nor contributes, but for the
\* ablation that studies this.
THEOREM SourceExcluded == Spec => []SourceStaysOut
<1>1. IInv => SourceStaysOut
  BY DEF IInv, CellInv, Realistic, RowsInv, EnoughRows, SourceStaysOut
<1> QED BY <1>1, CellInvariant, PTL

\* For no cell does the scan end waiting for external verification, whatever
\* the domains, their evidence and the compromised among them: the panels of
\* _advance_protocol are never convened.
THEOREM ScansSettle == Spec => []ScanSettles
<1>1. IInv => ScanSettles
  BY DEF IInv
<1> QED BY <1>1, CellInvariant, PTL

\* Krum is given at least 2f + 3 rows.
THEOREM KrumSufficient == Spec => []KrumAdmissible
<1>1. IInv => KrumAdmissible
  <2> SUFFICES ASSUME IInv, phase = "synthesis", cell.method \in PluralitySynthesis
               PROVE  Len(rows) >= 2 * MaxByzantineRows + 3
      BY DEF KrumAdmissible
  <2>1. /\ Reached(Rows) /\ Len(rows) = Cardinality(Rows) /\ Rows \in SUBSET Domains
        /\ cell.method \in Methods
    BY DEF IInv, EnoughRows, RowsInv, TypeOK, Cells, Rows, Range
  <2> QED BY <2>1, CertifiedFacts, RequirementFacts, ParametersAssumption DEF Reached
<1> QED BY <1>1, CellInvariant, PTL

\* Reproducers come in the precommitted order.
THEOREM OrderKept == Spec => []InReproducerOrder
<1>1. IInv => InReproducerOrder
  BY DEF IInv
<1> QED BY <1>1, CellInvariant, PTL

\* Without external verification no more reproducers train than are needed.
THEOREM NoIdleTraining == Spec => []StopsAtRequirement
<1>1. IInv => StopsAtRequirement
  BY DEF IInv
<1> QED BY <1>1, CellInvariant, PTL

\* The final gate judges updates made of a full set of certified rows, and a
\* single verifier's cell is only admitted on a positive report of a domain
\* that is neither the reproducer nor the source.
THEOREM AdmissionBacked == Spec => []AdmissionIsBacked
<1>1. IInv => AdmissionIsBacked
  BY DEF IInv, EnoughRows, SingleReports, AdmissionIsBacked
<1> QED BY <1>1, CellInvariant, PTL

-----------------------------------------------------------------------------
(* Evidence scarcity                                                       *)

LEMMA Least ==
  ASSUME NEW T, T \subseteq Nat, T # {}
  PROVE  \E x \in T : \A y \in T : x <= y
<1> DEFINE U == {0..x : x \in T}
<1>1. U # {} /\ U \subseteq FiniteSubsetsOf(Nat)
  <2>1. ASSUME NEW x \in T PROVE 0..x \in FiniteSubsetsOf(Nat)
    <3>1. x \in Int /\ 0 \in Int
      OBVIOUS
    <3>2. IsFiniteSet(0..x)
      BY <3>1, FS_Interval
    <3> QED BY <3>1, <3>2 DEF FiniteSubsetsOf
  <2> QED BY <2>1
<1>2. \E u \in U : \A v \in U : ~ (<<v, u>> \in StrictSubsetOrdering(Nat))
  BY <1>1, FS_StrictSubsetOrderingWellFounded, WFMin
<1>3. PICK x \in T : \A y \in T : ~ (<<0..y, 0..x>> \in StrictSubsetOrdering(Nat))
  BY <1>2
<1>4. ASSUME NEW y \in T, y < x PROVE FALSE
  <2>1. y \in Nat /\ x \in Nat
    OBVIOUS
  <2>2. 0..y \subseteq 0..x /\ 0..y # 0..x /\ 0..y \in SUBSET Nat /\ 0..x \in SUBSET Nat
    BY <2>1, <1>4
  <2> QED BY <2>2, <1>3 DEF StrictSubsetOrdering
<1> QED BY <1>4

\* Evidence that arrives at the first cycle is there at the first cycle.
LEMMA ArrivesAtOnce ==
  ASSUME NEW schedule, NEW required, Arrival(schedule, required) = 0
  PROVE  HolderCount(schedule, 0) >= required
<1> DEFINE enough == {cycle \in MeasuredCycles : HolderCount(schedule, cycle) >= required}
<1>1. enough # {} /\ Min(enough) = 0
  BY DEF Arrival, Never
<1>2. enough \subseteq Nat
  BY ScarcityAssumption DEF ScarcityAssumption, MeasuredCycles
<1> HIDE DEF enough
<1>3. \E x \in enough : \A y \in enough : x <= y
  BY <1>1, <1>2, Least
<1>4. 0 \in enough
  BY <1>1, <1>3 DEF Min
<1> QED BY <1>4 DEF enough

\* Only the immediate quorum lets a cell advance the protocol.
LEMMA OnlyQuorumAdvances ==
  ASSUME NEW schedule \in Schedules, TauK(schedule) = 0
  PROVE  schedule = "IMMEDIATE_QUORUM"
<1>1. HolderCount(schedule, 0) >= GateDomains
  BY ArrivesAtOnce DEF TauK
<1>2. Max({0}) = 0
  BY DEF Max
<1> DEFINE reached == {b[2] : b \in {c \in Breakpoints : c[1] <= 0}}
<1>3. reached = {0}
  <2>1. {c \in Breakpoints : c[1] <= 0} = {<<0, 0>>}
    <3>1. \A c \in Breakpoints : c[1] <= 0 => c = <<0, 0>>
      BY SMT DEF Breakpoints
    <3>2. <<0, 0>> \in Breakpoints /\ <<0, 0>>[1] <= 0
      BY SMT DEF Breakpoints
    <3> QED BY <3>1, <3>2
  <2>2. \A here : here = {<<0, 0>>} => {b[2] : b \in here} = {0}
    OBVIOUS
  <2> QED BY ONLY <2>1, <2>2 DEF reached
<1>4. EligibleDomains \in Int /\ GateDomains \in Nat /\ GateDomains > 1
  BY ParametersAssumption, ScarcityAssumption
     DEF ScarcityAssumption, ParametersAssumption, EligibleDomains
<1>5. schedule # "IMMEDIATE_QUORUM" => HolderCount(schedule, 0) <= 0
  <2> SUFFICES ASSUME schedule # "IMMEDIATE_QUORUM" PROVE HolderCount(schedule, 0) <= 0
    OBVIOUS
  <2>1. \/ HolderCount(schedule, 0) = 0
        \/ HolderCount(schedule, 0) = EligibleDomains /\ 0 > EligibleDomains
    <3>1. CASE schedule = "GRADUAL_TO_QUORUM"
      BY <1>2, <1>3, <3>1 DEF HolderCount
    <3>2. CASE schedule = "PERMANENT_SINGLETON"
      BY <3>2 DEF HolderCount
    <3>3. CASE schedule = "ONE_HONEST_HOLDER"
      BY <3>3 DEF HolderCount
    <3> QED BY <3>1, <3>2, <3>3 DEF Schedules
  <2> QED BY <2>1, <1>4
<1>6. HolderCount(schedule, 0) <= 0 => FALSE
  <2> SUFFICES ASSUME HolderCount(schedule, 0) <= 0 PROVE FALSE
    OBVIOUS
  <2>1. HolderCount(schedule, 0) \in Int
    <3>1. CASE schedule = "IMMEDIATE_QUORUM"
      BY <1>4, <3>1 DEF HolderCount
    <3>2. CASE schedule = "GRADUAL_TO_QUORUM"
      BY <1>2, <1>3, <1>4, <3>2 DEF HolderCount
    <3>3. CASE schedule \in {"PERMANENT_SINGLETON", "ONE_HONEST_HOLDER"}
      BY <1>4, <3>3 DEF HolderCount
    <3> QED BY <3>1, <3>2, <3>3 DEF Schedules
  <2> QED BY <1>1, <1>4, <2>1
<1> QED BY <1>5, <1>6

LEMMA AdmittedMeansQuorum ==
  ASSUME NEW schedule \in Schedules, NEW s, NEW cycle \in Cycles,
         Trajectory(schedule, s)[cycle] = "ADMITTED"
  PROVE  schedule = "IMMEDIATE_QUORUM" /\ TauK(schedule) = 0
<1>1. Completion(schedule, s) = "ADMITTED"
  BY DEF Trajectory, Expire
<1>2. TauK(schedule) = 0
  BY <1>1 DEF Completion
<1> QED BY <1>2, OnlyQuorumAdvances

\* For any horizon, schedule and outcome of the protocol: a trajectory admits
\* only at cycles at which enough domains hold evidence for the gate.
THEOREM AdmissionsHaveEvidence ==
  ASSUME NEW schedule \in Schedules, NEW s, NEW cycle \in Cycles,
         Trajectory(schedule, s)[cycle] = "ADMITTED"
  PROVE  HolderCount(schedule, cycle) >= GateDomains
<1>1. schedule = "IMMEDIATE_QUORUM" /\ TauK(schedule) = 0
  BY AdmittedMeansQuorum
<1>2. HolderCount(schedule, 0) >= GateDomains
  BY <1>1, ArrivesAtOnce DEF TauK
<1>3. HolderCount(schedule, cycle) = HolderCount(schedule, 0)
  BY <1>1 DEF HolderCount
<1> QED BY <1>2, <1>3

\* A trajectory ends in a final state, and a final state stays.
THEOREM TrajectoriesSettle ==
  ASSUME NEW schedule \in Schedules, NEW s
  PROVE  /\ Trajectory(schedule, s)[Horizon] \in Terminal
         /\ \A cycle \in Cycles \ {Horizon} :
              Trajectory(schedule, s)[cycle] \in Terminal =>
                Trajectory(schedule, s)[cycle + 1] = Trajectory(schedule, s)[cycle]
<1> DEFINE arrival == TauK(schedule)
           done == Completion(schedule, s)
           before(cycle) == IF arrival = Never \/ cycle < arrival THEN "DORMANT"
                            ELSE IF cycle = arrival THEN "VERIFICATION_PENDING" ELSE done
<1>1. \A cycle \in Cycles : Trajectory(schedule, s)[cycle] = Expire(before(cycle), cycle)
  BY DEF Trajectory
<1>2. Horizon \in Nat /\ Horizon \in Cycles
  BY ScarcityAssumption DEF ScarcityAssumption, Cycles
<1>3. "EXPIRED" \in Terminal /\ "DORMANT" \notin Terminal /\ "VERIFICATION_PENDING" \notin Terminal
  BY DEF Terminal
<1> HIDE DEF done
<1>4. arrival = Never \/ arrival \in Nat
  <2> DEFINE enough == {cycle \in MeasuredCycles : HolderCount(schedule, cycle) >= GateDomains}
  <2>1. enough \subseteq Nat
    BY ScarcityAssumption DEF ScarcityAssumption, MeasuredCycles
  <2>2. arrival = IF enough = {} THEN Never ELSE Min(enough)
    BY DEF TauK, Arrival
  <2> HIDE DEF enough
  <2>3. enough # {} => Min(enough) \in enough
    BY <2>1, Least DEF Min
  <2> QED BY <2>1, <2>2, <2>3
<1> HIDE DEF arrival
<1>5. Trajectory(schedule, s)[Horizon] \in Terminal
  BY <1>1, <1>2, <1>3 DEF Expire
<1>6. ASSUME NEW cycle \in Cycles \ {Horizon}, Trajectory(schedule, s)[cycle] \in Terminal
      PROVE  Trajectory(schedule, s)[cycle + 1] = Trajectory(schedule, s)[cycle]
  <2>1. /\ cycle \in Nat /\ cycle < Horizon
        /\ cycle + 1 \in Cycles
    BY <1>2 DEF Cycles
  <2>2. Trajectory(schedule, s)[cycle] = before(cycle)
    BY <1>1, <1>2, <2>1 DEF Expire
  <2>3. before(cycle) \in Terminal
    BY <1>6, <2>2
  <2>4. before(cycle) = done /\ arrival # Never /\ ~(cycle < arrival) /\ cycle # arrival
    BY <1>3, <2>3
  <2>5. ~(cycle + 1 < arrival) /\ cycle + 1 # arrival
    BY <1>4, <2>1, <2>4
  <2>6. before(cycle + 1) = done
    BY <2>4, <2>5
  <2> HIDE DEF before
  <2>7. Trajectory(schedule, s)[cycle + 1] = Expire(done, cycle + 1)
    BY <1>1, <2>1, <2>6
  <2>8. done \in Terminal
    BY <2>3, <2>4
  <2> QED BY <2>2, <2>4, <2>7, <2>8 DEF Expire
<1> QED BY <1>5, <1>6

\* The gradual schedule, on which evidence does arrive, is never verified,
\* whatever the protocol would have come to: the cell is recorded dormant.
THEOREM GradualIsNeverVerified ==
  ASSUME NEW s, TEvidence("GRADUAL_TO_QUORUM") # Never
  PROVE  ~DormancyIsVerified("GRADUAL_TO_QUORUM", s)
<1>1. "GRADUAL_TO_QUORUM" \in Schedules
  BY DEF Schedules
<1>2. \A cycle \in Cycles : Trajectory("GRADUAL_TO_QUORUM", s)[cycle] # "ADMITTED"
  BY <1>1, AdmittedMeansQuorum
<1> QED BY <1>2 DEF DormancyIsVerified

\* A trajectory is pending, expired or what the protocol came to.
LEMMA TrajectoryStates ==
  ASSUME NEW schedule, NEW s
  PROVE  /\ DOMAIN Trajectory(schedule, s) = Cycles
         /\ \A cycle \in Cycles : Trajectory(schedule, s)[cycle] \in
              {"DORMANT", "VERIFICATION_PENDING", "EXPIRED", Completion(schedule, s)}
BY DEF Trajectory, Expire

\* Trajectories in the vocabulary can be written,
LEMMA TrajectoryWritable ==
  ASSUME NEW schedule, NEW s \in Vocabulary
  PROVE  Range(Trajectory(schedule, s)) \subseteq Vocabulary
<1>1. Completion(schedule, s) \in Vocabulary
  BY DEF Completion, Vocabulary
<1> QED BY <1>1, TrajectoryStates DEF Range, Vocabulary

\* and the counts of any number of them make up the cells.
LEMMA CountsMakeUpTheCells ==
  ASSUME NEW n \in Nat, NEW trajectories, DOMAIN trajectories = 1..n,
         Len(trajectories) = n, Writable(trajectories),
         \A i \in 1..n : DOMAIN trajectories[i] = Cycles
  PROVE  Readable(trajectories)
<1> SUFFICES ASSUME NEW cycle \in Cycles
             PROVE  Count(trajectories, cycle, "DORMANT")
                      + Count(trajectories, cycle, "VERIFICATION_PENDING")
                      + Count(trajectories, cycle, "ADMITTED")
                      + Count(trajectories, cycle, "REJECTED")
                      + Count(trajectories, cycle, "EXPIRED") = n
  BY DEF Readable
<1> DEFINE cells(s) == {i \in 1..n : trajectories[i][cycle] = s}
           c1 == cells("DORMANT")
           c2 == cells("VERIFICATION_PENDING")
           c3 == cells("ADMITTED")
           c4 == cells("REJECTED")
           c5 == cells("EXPIRED")
<1>1. \A s : Count(trajectories, cycle, s) = Cardinality(cells(s))
  BY DEF Count
<1>2. \A i \in 1..n : trajectories[i][cycle] \in Vocabulary
  BY DEF Writable, Range
<1>3. 1..n = (((c1 \union c2) \union c3) \union c4) \union c5
  BY <1>2 DEF Vocabulary
<1>4. /\ c1 \cap c2 = {} /\ (c1 \union c2) \cap c3 = {}
      /\ ((c1 \union c2) \union c3) \cap c4 = {}
      /\ (((c1 \union c2) \union c3) \union c4) \cap c5 = {}
  OBVIOUS
<1>5. IsFiniteSet(1..n) /\ Cardinality(1..n) = n
  BY FS_Interval
<1>6. \A part \in SUBSET (1..n) : IsFiniteSet(part) /\ Cardinality(part) \in Nat
  BY <1>5, FS_Subset, FS_CardinalityType
<1>7. c1 \subseteq 1..n /\ c2 \subseteq 1..n /\ c3 \subseteq 1..n /\ c4 \subseteq 1..n
      /\ c5 \subseteq 1..n
  OBVIOUS
<1>8. \A a, b \in SUBSET (1..n) :
        a \cap b = {} => Cardinality(a \union b) = Cardinality(a) + Cardinality(b)
  <2> SUFFICES ASSUME NEW a \in SUBSET (1..n), NEW b \in SUBSET (1..n), a \cap b = {}
               PROVE  Cardinality(a \union b) = Cardinality(a) + Cardinality(b)
    OBVIOUS
  <2>1. Cardinality(a \union b) = Cardinality(a) + Cardinality(b) - Cardinality({})
    BY <1>6, FS_Union
  <2> QED BY <2>1, <1>6, FS_EmptySet
<1>9. Cardinality(c1) + Cardinality(c2) + Cardinality(c3) + Cardinality(c4)
        + Cardinality(c5) = n
  <2> HIDE DEF c1, c2, c3, c4, c5
  <2>1. Cardinality(c1 \union c2) = Cardinality(c1) + Cardinality(c2)
    BY <1>4, <1>7, <1>8
  <2>2. Cardinality((c1 \union c2) \union c3) = Cardinality(c1 \union c2) + Cardinality(c3)
    <3>1. c1 \union c2 \in SUBSET (1..n)
      BY <1>7
    <3> QED BY <3>1, <1>4, <1>7, <1>8
  <2>3. Cardinality(((c1 \union c2) \union c3) \union c4)
          = Cardinality((c1 \union c2) \union c3) + Cardinality(c4)
    <3>1. (c1 \union c2) \union c3 \in SUBSET (1..n)
      BY <1>7
    <3> QED BY <3>1, <1>4, <1>7, <1>8
  <2>4. n = Cardinality(((c1 \union c2) \union c3) \union c4) + Cardinality(c5)
    <3>1. ((c1 \union c2) \union c3) \union c4 \in SUBSET (1..n)
      BY <1>7
    <3> QED BY <3>1, <1>3, <1>4, <1>5, <1>7, <1>8
  <2> QED BY <2>1, <2>2, <2>3, <2>4
<1> QED BY <1>1, <1>9

\* The immediate quorum's holders are all domains, from the start.
LEMMA QuorumHolds ==
  /\ EligibleDomains \in Int
  /\ \A cycle : HolderCount("IMMEDIATE_QUORUM", cycle) = EligibleDomains
BY ParametersAssumption DEF ParametersAssumption, EligibleDomains, HolderCount

LEMMA QuorumArrives ==
  ASSUME NEW required \in Nat, required <= EligibleDomains
  PROVE  Arrival("IMMEDIATE_QUORUM", required) = 0
<1>1. {cycle \in MeasuredCycles : HolderCount("IMMEDIATE_QUORUM", cycle) >= required}
        = MeasuredCycles
  BY QuorumHolds
<1>2. 0 \in MeasuredCycles /\ \A cycle \in MeasuredCycles : 0 <= cycle /\ cycle \in Nat
  BY ScarcityAssumption DEF MeasuredCycles
<1>3. Min(MeasuredCycles) = 0
  BY <1>2 DEF Min
<1> QED BY <1>1, <1>2, <1>3 DEF Arrival

\* What the protocol can come to in the experiment is recorded soundly. The
\* committee has to be one that the domains can make up.
LEMMA OutcomesAreRecordedSoundly ==
  ASSUME CommitteeSize <= EligibleDomains, NEW s \in {"DORMANT", "ADMITTED", "REJECTED"}
  PROVE  s \in RecordedSoundly
<1> SUFFICES ASSUME NEW schedule \in Schedules
             PROVE  LET trajectory == Trajectory(schedule, s)
                        two == <<trajectory, Trajectory(schedule, "REJECTED")>>
                    IN /\ Sound(trajectory, schedule)
                       /\ ~SingletonAdmission(schedule, s)
                       /\ Writable(two) /\ Readable(two)
                       /\ \/ schedule = "GRADUAL_TO_QUORUM"
                          \/ schedule = "IMMEDIATE_QUORUM" /\ s # "ADMITTED"
                          \/ DormancyIsVerified(schedule, s)
  BY DEF RecordedSoundly, States
<1> DEFINE trajectory == Trajectory(schedule, s)
           two == <<trajectory, Trajectory(schedule, "REJECTED")>>
<1>0. /\ CommitteeSize \in Nat /\ GateDomains \in Nat /\ GateDomains > 1
      /\ MeasurementEnd \in Nat /\ Horizon \in Nat /\ Horizon > MeasurementEnd
  BY ParametersAssumption, ScarcityAssumption
<1>1. \A cycle \in Cycles : trajectory[cycle] = "ADMITTED" =>
        /\ HolderCount(schedule, cycle) >= GateDomains
        /\ HolderCount(schedule, cycle) >= CommitteeSize
        /\ schedule = "IMMEDIATE_QUORUM" /\ TauK(schedule) = 0
  BY <1>0, AdmittedMeansQuorum, AdmissionsHaveEvidence, QuorumHolds
<1>2. Sound(trajectory, schedule)
  BY <1>1, TrajectoriesSettle DEF Sound
<1>3. ~SingletonAdmission(schedule, s)
  <2> SUFFICES ASSUME SingletonAdmission(schedule, s) PROVE FALSE
    OBVIOUS
  <2>1. TauK(schedule) = 0 /\ \A cycle \in MeasuredCycles : HolderCount(schedule, cycle) <= 1
    BY DEF SingletonAdmission, Completion
  <2>2. 0 \in MeasuredCycles
    BY <1>0 DEF MeasuredCycles
  <2>3. HolderCount(schedule, 0) >= GateDomains /\ HolderCount(schedule, 0) = EligibleDomains
    BY <2>1, ArrivesAtOnce, OnlyQuorumAdvances, QuorumHolds DEF TauK
  <2> QED BY <1>0, <2>1, <2>2, <2>3, QuorumHolds
<1>4. Writable(two) /\ Readable(two)
  <2>1. s \in Vocabulary /\ "REJECTED" \in Vocabulary
    BY DEF Vocabulary
  <2>2. DOMAIN two = 1..2 /\ Len(two) = 2
    OBVIOUS
  <2>3. \A i \in 1..2 : two[i] = trajectory \/ two[i] = Trajectory(schedule, "REJECTED")
    OBVIOUS
  <2>4. Writable(two)
    BY <2>1, <2>2, <2>3, TrajectoryWritable DEF Writable
  <2>5. \A i \in 1..2 : DOMAIN two[i] = Cycles
    BY <2>3, TrajectoryStates
  <2> QED BY <2>2, <2>4, <2>5, CountsMakeUpTheCells
<1>5. \/ schedule = "GRADUAL_TO_QUORUM"
      \/ schedule = "IMMEDIATE_QUORUM" /\ s # "ADMITTED"
      \/ DormancyIsVerified(schedule, s)
  <2>1. CASE schedule \in {"PERMANENT_SINGLETON", "ONE_HONEST_HOLDER"}
    <3>1. {cycle \in Cycles : Trajectory(schedule, s)[cycle] = "ADMITTED"} = {}
      BY <2>1, <1>1
    <3> QED BY <2>1, <3>1 DEF DormancyIsVerified
  <2>2. CASE schedule = "IMMEDIATE_QUORUM" /\ s = "ADMITTED"
    <3> DEFINE admitted == {cycle \in Cycles : Trajectory(schedule, s)[cycle] = "ADMITTED"}
    <3>1. \A cycle \in admitted : cycle >= 0
      BY <1>0 DEF Cycles
    <3>2. CASE GateDomains <= EligibleDomains
      <4>1. TauK(schedule) = 0 /\ Arrival(schedule, CommitteeSize) = 0
        BY <1>0, <2>2, <3>2, QuorumArrives DEF TauK
      <4>2. Max({0, 0}) = 0
        BY DEF Max
      <4>3. TEvidence(schedule) = 0 /\ TEvidence(schedule) # Never
        BY <4>1, <4>2 DEF TEvidence, TauK, Never
      <4>4. 1 \in Cycles
        BY <1>0 DEF Cycles
      <4>5. Trajectory(schedule, s)[1] = "ADMITTED"
        BY <2>2, <4>1, <4>4 DEF Trajectory, Expire, Completion, Terminal, Never
      <4>6. admitted # {}
        BY <4>4, <4>5
      <4> QED BY <2>2, <3>1, <4>3, <4>6 DEF DormancyIsVerified
    <3>3. CASE ~(GateDomains <= EligibleDomains)
      <4>1. \A cycle : ~(HolderCount(schedule, cycle) >= GateDomains)
        BY <1>0, <2>2, <3>3, QuorumHolds
      <4>2. Arrival(schedule, GateDomains) = Never
        BY <4>1 DEF Arrival
      <4>3. TEvidence(schedule) = Never
        BY <4>2 DEF TEvidence
      <4>4. admitted = {}
        BY <1>1, <4>1
      <4> QED BY <4>3, <4>4 DEF DormancyIsVerified
    <3> QED BY <3>2, <3>3
  <2> QED BY <2>1, <2>2 DEF Schedules
<1> QED BY <1>2, <1>3, <1>4, <1>5

\* Where nobody is compromised every scan settles in one of its rounds, so
\* that a cell ends with a decision or dormant.
Decided ==
  phase = "done" /\ cell.compromised = 0 => state \in {"DORMANT", "ADMITTED", "REJECTED"}

LEMMA DecidedStep ==
  ASSUME Domains # {}, IInv, Decided, [Next]_vars
  PROVE  Decided'
<1>1. CASE EndScan
  <2> SUFFICES ASSUME cell.compromised = 0 PROVE FALSE
    BY <1>1 DEF EndScan, Decided
  <2>1. Len(Order) = Cardinality(Domains) /\ Cardinality(Domains) \in Nat \ {0}
    <3>1. Cardinality(Domains) \in Nat /\ Cardinality(Domains) # 0
      BY ParametersAssumption, FS_CardinalityType, FS_EmptySet
    <3> QED BY <3>1, ParametersAssumption
  <2>2. ~\E d \in Domains : CannotTrain(d)
    <3>1. 1..cell.compromised = {}
      OBVIOUS
    <3>2. Compromised = {}
      BY <3>1 DEF Compromised
    <3> QED BY <3>2 DEF CannotTrain
  <2>3. iteration = Cardinality(Rows \ {cell.source}) /\ iteration = Len(Order)
    BY <1>1, <2>2 DEF EndScan, IInv, RoundsCounted
  <2>4. Rows = {}
    BY <2>1, <2>3, FewerThanRounds
  <2> QED BY <2>1, <2>3, <2>4, FS_EmptySet
<1>2. ASSUME phase' = "done", state' \in {"DORMANT", "ADMITTED", "REJECTED"} PROVE Decided'
  BY <1>2 DEF Decided
<1>3. ASSUME phase' # "done" PROVE Decided'
  BY <1>3 DEF Decided
<1>4. CASE UNCHANGED vars
  BY <1>4 DEF vars, Decided
<1>5. ASSUME NEW opening \in Openings, NEW adequate \in 0..ScreenDomains,
             NEW positive \in 0..adequate, Screen(opening, adequate, positive)
      PROVE  Decided'
  BY <1>2, <1>3, <1>5 DEF Screen, Settle
<1>6. ASSUME NEW d \in Domains, Reproduce(d) \/ FailToReproduce(d) PROVE Decided'
  BY <1>3, <1>6 DEF Reproduce, FailToReproduce, Scanning
<1>7. ASSUME NEW d \in Domains, NEW v \in Domains,
             NEW vote \in {"POSITIVE", "NEGATIVE", "ABSTAIN"}, TrySingle(d, v, vote)
      PROVE  Decided'
  BY <1>3, <1>7 DEF TrySingle
<1>8. ASSUME NEW production \in SUBSET Domains,
             NEW gate \in {"Inadequate", "Fails", "Passes"}, Synthesise(production, gate)
      PROVE  Decided'
  BY <1>2, <1>8 DEF Synthesise, Settle, GateState
<1>9. CASE LackEvidence \/ StartScan \/ StartSingle \/ ExhaustDomains \/ ExhaustSingle
           \/ RejectCommittee
  BY <1>2, <1>3, <1>9
  DEF LackEvidence, StartScan, StartSingle, ExhaustDomains, ExhaustSingle, RejectCommittee,
      Settle
<1> QED BY <1>1, <1>4, <1>5, <1>6, <1>7, <1>8, <1>9 DEF Next

\* Whatever the horizon, the thresholds and the run of the protocol: the cells
\* of the scarcity experiment record trajectories that are sound, reportable
\* and verifiable, given domains enough for a committee.
THEOREM ScarcityIsRecordedSoundly ==
  ASSUME CommitteeSize <= EligibleDomains
  PROVE  Spec => []TrajectoriesAreSafe
<1>0. Domains # {}
  <2>1. Domains = {} => Cardinality(Domains) = 0
    BY FS_EmptySet
  <2>2. Domains = {} => Len(Order) = 0
    BY <2>1, ParametersAssumption
  <2>3. CommitteeSize >= 3
    BY ParametersAssumption
  <2> QED BY <2>2, <2>3, ParametersAssumption DEF EligibleDomains
<1>1. Init => Decided
  BY DEF Init, Decided
<1>2. IInv /\ Decided /\ [Next]_vars => Decided'
  BY <1>0, DecidedStep
<1>3. Decided => TrajectoriesAreSafe
  BY OutcomesAreRecordedSoundly DEF Decided, TrajectoriesAreSafe, ScarcityRun
<1> QED BY <1>1, <1>2, <1>3, CellInvariant, PTL DEF Spec

=============================================================================
