------------------------- MODULE CellRecordsProofs -------------------------
(***************************************************************************)
(* What CellRecords promises of the record of a cell, for every set of     *)
(* domains, every committee size and any number of cells of one executor.  *)
(***************************************************************************)
EXTENDS CellRecords, FiniteSetTheorems, TLAPS

(* What the proofs need to know of the cells. *)

Kind(c) ==
  /\ c.source \in Domains \union {NoDomain}
  /\ c.attackers \subseteq Domains
  /\ c.attack \in Attacks
  /\ c.handler = "validation" => c.path = "Check"
  /\ c.handler \in {"opening", "mixed", Relabelled} => c.path \in {"FirstRow", "Krum"}
  /\ c.handler = "opening" => c.attack \in {"None", "SourceBackdoor"}
  /\ c.handler \in {"mixed", "delay", "efficiency"} => c.attack = "None"
  /\ c.handler \in {"plurality", "external"} =>
       c.path \in ReproductionPaths /\ c.attack \in {"None"} \union ReproducerAttacks
  /\ c.handler = "exclusion" =>
       /\ c.attack \in {"None", "SourceBackdoor"}
       /\ c.path \in ReproductionPaths \union SourcePaths \union {"ReviewThenSingle"}
  /\ c.handler = "released" =>
       c.attack = "SourceBackdoor" /\ c.path \in {"ReviewSource", "CheckedSource"}
  /\ c.handler = "ablation" =>
       /\ c.path \in ReproductionPaths
       /\ c.attack \in {"ModelReplacement", "VerifierAware"} =>
            c.path \in {"FirstRow", "Krum", "Median"}
  /\ c.handler = "verifiers" => c.path = "Krum" /\ c.attack \in {"None", "ModelReplacement"}
  /\ c.handler = "reproducers" =>
       IF c.attack = "None" THEN c.path \in {"FirstRow", "Krum"}
       ELSE c.path = "Robust" /\ c.attack \in ReproducerAttacks
  /\ c.path = "Robust" => c.handler = "reproducers" /\ c.attack # "None"
  /\ c.path \in ClientPaths => c.attack \in {"None", "SourceBackdoor", "Client"}
  /\ c.path \in SourcePaths \union UntouchedPaths =>
       c.attack \in {"None", "SourceBackdoor", "Nobody"}
  /\ c.attack = "Client" => c.path \in ClientPaths
  /\ c.path \in ReproductionPaths \union ClientPaths \union SourcePaths \union UntouchedPaths
                 \union {"Robust", "ReviewThenSingle", "Check"}
  /\ c.path = "Check" => c.handler = "validation"

LEMMA CellsOfParts ==
  ASSUME NEW h, NEW P, NEW A, NEW c \in CellsOf(h, P, A)
  PROVE  /\ c.handler = h /\ c.path \in P /\ c.attack \in A
         /\ c.source \in Domains \union {NoDomain} /\ c.attackers \subseteq Domains
BY ParametersAssumption DEF CellsOf

LEMMA AllCellsHaveKind ==
  ASSUME NEW c \in AllCells
  PROVE  Kind(c)
<1> USE DEF Kind, Attacks, Relabelled, ReproductionPaths, ReproducerAttacks, ClientPaths,
            SourcePaths, UntouchedPaths
<1>1. CASE c \in OpeningCells
  BY <1>1, CellsOfParts DEF OpeningCells
<1>2. CASE c \in PluralityCells
  BY <1>2, CellsOfParts DEF PluralityCells
<1>3. CASE c \in ExclusionCells
  BY <1>3, CellsOfParts DEF ExclusionCells
<1>4. CASE c \in ExternalCells
  BY <1>4, CellsOfParts DEF ExternalCells
<1>5. CASE c \in BaselineCells
  BY <1>5, CellsOfParts DEF BaselineCells
<1>6. CASE c \in AblationCells
  BY <1>6, CellsOfParts 
  DEF AblationCells, AdvancedAblations, MixedCells, ReleasedCells, RelabelledCells
<1>7. CASE c \in ReproducerCells
  BY <1>7, CellsOfParts DEF ReproducerCells
<1>8. CASE c \in VerifierCells
  BY <1>8, CellsOfParts DEF VerifierCells
<1>9. CASE c \in DelayCells
  BY <1>9, CellsOfParts DEF DelayCells
<1>10. CASE c \in BoundaryCells
  BY <1>10, CellsOfParts DEF BoundaryCells
<1>11. CASE c \in ValidationCells
  BY <1>11, CellsOfParts DEF ValidationCells
<1>12. CASE c \in EfficiencyCells
  BY <1>12, CellsOfParts DEF EfficiencyCells
<1>. QED BY <1>1, <1>2, <1>3, <1>4, <1>5, <1>6, <1>7, <1>8, <1>9, <1>10, <1>11, <1>12 DEF AllCells

-----------------------------------------------------------------------------
(* When the attributes were written                                        *)

Fresh(fs) == \A f \in fs : age[f] = "This"

Advances == cell.path \in ReproductionPaths \union {"ReviewThenSingle"}

BaseInv ==
  /\ phase \in Phases
  /\ phase # "idle" => Kind(cell)
  /\ phase \in {"start", "scan"} => Advances
  /\ phase = "gate" => Advances \/ cell.path = "Robust"
  /\ phase = "recover" => cell.path = "Recover"
  /\ phase = "rounds" => cell.path \in ClientPaths
  /\ phase \notin {"over", "crashed"} => record.outcome \in {"None", "Pending"}
  /\ record.outcome = "Pending" => cell.handler = "mixed"
  /\ phase = "idle" => record.outcome = "None" /\ cell = NoCell

AgeInv ==
  /\ age \in [Fields -> {"Unset", "Earlier", "This"}]
  /\ age["durations"] # "Unset"
  /\ phase # "idle" =>
       Fresh(ResetByCell) /\ (cell.handler = "delay" => Fresh({"durations"}))
  /\ phase = "scan" => Fresh(Fields)
  /\ phase = "gate" => Fresh(IF cell.path = "Robust" THEN {"strategy", "deltas"} ELSE Fields)
  /\ phase = "judge" =>
       /\ cell.path \in ReproductionPaths /\ ~OpensFirst => Fresh(Fields)
       /\ cell.path = "Robust" => Fresh({"strategy", "deltas"})
       /\ OpensFirst /\ Admitted => Fresh({"durations"})
  /\ record.outcome = "Pending" /\ record.state = "ADMITTED" => Fresh({"durations"})
  /\ inherited \subseteq {"durations"}
  /\ record.outcome = "None" => inherited = {}
  /\ record.outcome \in {"Pending", "Completed"} =>
       inherited = {} \/ (OpensFirst /\ record.state # "ADMITTED")
  /\ phase # "crashed"

LEMMA FieldsReset ==
  /\ ResetByCell \subseteq Fields /\ {"durations", "strategy", "deltas", "stage"} \subseteq Fields
  /\ "durations" \in ResetByAdvance
BY DEF Fields, ResetByCell, ResetByAdvance

\* What a handler reads was written for this cell, the durations of a
\* proposal cell that was not admitted excepted.
LEMMA ReadsAreFresh ==
  ASSUME BaseInv, AgeInv, phase = "judge", NEW f \in ReadFields
  PROVE  /\ f \in Fields
         /\ age[f] = "This" \/ (f = "durations" /\ OpensFirst /\ ~Admitted)
<1> USE DEF BaseInv, AgeInv, Fresh, Kind, Fields, ResetByCell
<1>1. f \in Fields
  BY DEF ReadFields, RecomputedFrom
<1>2. CASE OpensFirst
  BY <1>2 DEF ReadFields, OpensFirst
<1>3. CASE cell.handler \in {"plurality", "external", "released", "baseline", "advanced",
                              "validation", Relabelled}
  BY <1>3 DEF ReadFields, OpensFirst, Relabelled
<1>4. CASE cell.handler = "exclusion"
  BY <1>4 DEF ReadFields, OpensFirst, ReproductionPaths
<1>5. CASE cell.handler = "delay"
  BY <1>5 DEF ReadFields, OpensFirst
<1>6. CASE cell.handler = "ablation"
  BY <1>6 DEF ReadFields, OpensFirst, RecomputedFrom
<1>7. CASE cell.handler \in {"reproducers", "verifiers"}
  BY <1>7 DEF ReadFields, OpensFirst, RecomputedFrom, ReproductionPaths
<1>8. CASE cell.handler \notin {"plurality", "external", "released", "baseline", "advanced",
                                "validation", Relabelled, "exclusion", "delay", "ablation",
                                "reproducers", "verifiers", "opening", "mixed"}
  BY <1>8 DEF ReadFields
<1>. QED BY <1>1, <1>2, <1>3, <1>4, <1>5, <1>6, <1>7, <1>8 DEF OpensFirst

\* Every step keeps a cell on the phases of its path.
LEMMA BaseStep ==
  ASSUME BaseInv, Next
  PROVE  BaseInv'
<1> USE DEF BaseInv, Phases, Advances
<1>1. ASSUME NEW c \in Cells, NEW prepared \in BOOLEAN, Begin(c, prepared)
      PROVE  BaseInv'
  BY <1>1, AllCellsHaveKind DEF Begin, Cells, Invalid, NoRecord
<1>2. ASSUME Fail
      PROVE  BaseInv'
  BY <1>2 DEF Fail, Running, Invalid, NoRecord
<1>3. ASSUME RejectVariant
      PROVE  BaseInv'
  BY <1>3 DEF RejectVariant, Invalid, NoRecord
<1>4. ASSUME Validate
      PROVE  BaseInv'
  BY <1>4 DEF Validate, Settle
<1>5. ASSUME NEW outcome \in {"OPEN", "REJECTED", "DORMANT"}, OpenStage(outcome)
      PROVE  BaseInv'
  BY <1>5 DEF OpenStage, Settle, OpensFirst, Kind, ReproductionPaths
<1>6. ASSUME NEW outcome \in {"OPEN", "REJECTED", "DORMANT"}, StartAdvance(outcome)
      PROVE  BaseInv'
  BY <1>6 DEF StartAdvance, AtStart, Settle
<1>7. ASSUME AdvanceStop
      PROVE  BaseInv'
  BY <1>7 DEF AdvanceStop, Settle
<1>8. ASSUME NEW u \in Scans, Scan(u)
      PROVE  BaseInv'
  BY <1>8 DEF Scan, Settle
<1>9. ASSUME NEW u \in Scans, RobustScan(u)
      PROVE  BaseInv'
  BY <1>9 DEF RobustScan, Settle
<1>10. ASSUME NEW p \in Synthesised, NEW outcome \in GateOutcomes, NEW b \in BOOLEAN,
              Gate(p, outcome, b)
       PROVE  BaseInv'
  BY <1>10 DEF Gate, Judged, Settle
<1>11. ASSUME StopBaseline
       PROVE  BaseInv'
  BY <1>11 DEF StopBaseline, Settle
<1>12. ASSUME NEW b \in BOOLEAN, Review(b)
       PROVE  BaseInv'
  BY <1>12 DEF Review, Settle
<1>13. ASSUME RejectSource
       PROVE  BaseInv'
  BY <1>13 DEF RejectSource, Settle
<1>14. ASSUME AdmitLocally
       PROVE  BaseInv'
  BY <1>14 DEF AdmitLocally, Settle
<1>15. ASSUME RejectAssessment
       PROVE  BaseInv'
  BY <1>15 DEF RejectAssessment, Settle
<1>16. ASSUME NEW outcome \in GateOutcomes, NEW b \in BOOLEAN, ReleaseSource(outcome, b)
       PROVE  BaseInv'
  BY <1>16 DEF ReleaseSource, Judged, Settle
<1>17. ASSUME NEW outcome \in GateOutcomes, NEW b \in BOOLEAN, NEW rollback \in BOOLEAN,
              Recover(rollback, outcome, b)
       PROVE  BaseInv'
  BY <1>17 DEF Recover, Judged, Settle
<1>18. ASSUME NEW outcome \in GateOutcomes, NEW b \in BOOLEAN, JudgeTrained(outcome, b)
       PROVE  BaseInv'
  BY <1>18 DEF JudgeTrained, Judged, Settle
<1>19. ASSUME NEW outcome \in GateOutcomes, NEW b \in BOOLEAN, Untouched(outcome, b)
       PROVE  BaseInv'
  BY <1>19 DEF Untouched, Judged, Settle
<1>20. ASSUME Record
       PROVE  BaseInv'
  BY <1>20 DEF Record, FirstOfTwo
<1>21. ASSUME Return
       PROVE  BaseInv'
  BY <1>21 DEF Return, NoRecord
<1>22. ASSUME NEW able \in ClientsWithRows, GatherClients(able)
       PROVE  BaseInv'
  BY <1>22 DEF GatherClients
<1>23. ASSUME NEW kept \in Kept, TrainRound(kept)
       PROVE  BaseInv'
  BY <1>23 DEF TrainRound
<1>24. ASSUME TrainingFails
       PROVE  BaseInv'
  BY <1>24 DEF TrainingFails, Judged, Settle
<1>25. ASSUME WarmUp
       PROVE  BaseInv'
  BY <1>25 DEF WarmUp
<1>. QED
  BY <1>1, <1>2, <1>3, <1>4, <1>5, <1>6, <1>7, <1>8, <1>9, <1>10, <1>11, <1>12,
     <1>13, <1>14, <1>15, <1>16, <1>17, <1>18, <1>19, <1>20, <1>21, <1>22, <1>23, <1>24, <1>25
  DEF Next, BaselineSteps

\* A handler that ends without a write keeps what is known of the ages, if
\* they are what the end of its path needs.
LEMMA SettleAge ==
  ASSUME BaseInv, AgeInv, phase # "idle", phase' = "judge",
         UNCHANGED <<cell, age, inherited, record>>,
         cell.path \in ReproductionPaths /\ ~OpensFirst => Fresh(Fields),
         cell.path = "Robust" => Fresh({"strategy", "deltas"}),
         OpensFirst /\ Admitted' => Fresh({"durations"})
  PROVE  AgeInv'
BY DEF AgeInv, BaseInv, Fresh, OpensFirst, Admitted

\* Every step keeps what the metrics of the cell will need fresh.
LEMMA AgeStep ==
  ASSUME BaseInv, AgeInv, BaseInv', Next
  PROVE  AgeInv'
<1> USE DEF AgeInv, BaseInv, OpensFirst, Admitted, Fresh, Settle, Judged, Invalid, NoRecord,
         Advances, Kind, ReproductionPaths
<1>1. ASSUME NEW c \in Cells, NEW prepared \in BOOLEAN, Begin(c, prepared)
      PROVE  AgeInv'
  BY <1>1, FieldsReset, AllCellsHaveKind DEF Begin, BeginAge, Cells
<1>2. ASSUME Fail
      PROVE  AgeInv'
  BY <1>2 DEF Fail, Running
<1>3. ASSUME RejectVariant
      PROVE  AgeInv'
  BY <1>3, FieldsReset DEF RejectVariant, Written, Relabelled
<1>4. ASSUME Validate
      PROVE  AgeInv'
  BY <1>4, SettleAge DEF Validate
<1>5. ASSUME NEW outcome \in {"OPEN", "REJECTED", "DORMANT"}, OpenStage(outcome)
      PROVE  AgeInv'
  BY <1>5, FieldsReset DEF OpenStage, Written
<1>6. ASSUME NEW outcome \in {"OPEN", "REJECTED", "DORMANT"}, StartAdvance(outcome)
      PROVE  AgeInv'
  BY <1>6, FieldsReset DEF StartAdvance, AtStart, Written, ResetByAdvance, ResetByCell, Fields
<1>7. ASSUME AdvanceStop
      PROVE  AgeInv'
  BY <1>7, SettleAge DEF AdvanceStop
<1>8. ASSUME NEW u \in Scans, Scan(u)
      PROVE  AgeInv'
  <2>1. CASE phase' = "judge"
    BY <1>8, <2>1, FieldsReset, SettleAge DEF Scan
  <2>2. CASE phase' # "judge"
    BY <1>8, <2>2, FieldsReset DEF Scan
  <2>. QED BY <2>1, <2>2
<1>9. ASSUME NEW u \in Scans, RobustScan(u)
      PROVE  AgeInv'
  <2>1. CASE phase' = "judge"
    BY <1>9, <2>1, FieldsReset DEF RobustScan, Written
  <2>2. CASE phase' # "judge"
    BY <1>9, <2>2, FieldsReset DEF RobustScan, Written
  <2>. QED BY <2>1, <2>2
<1>10. ASSUME NEW p \in Synthesised, NEW outcome \in GateOutcomes, NEW b \in BOOLEAN,
              Gate(p, outcome, b)
       PROVE  AgeInv'
  BY <1>10, FieldsReset, SettleAge DEF Gate
<1>11. ASSUME StopBaseline
       PROVE  AgeInv'
  BY <1>11, SettleAge DEF StopBaseline, UntouchedPaths, ClientPaths, SourcePaths
<1>12. ASSUME NEW b \in BOOLEAN, Review(b)
       PROVE  AgeInv'
  <2>1. CASE phase' = "judge"
    BY <1>12, <2>1, FieldsReset, SettleAge DEF Review, Reviewed
  <2>2. CASE phase' # "judge"
    BY <1>12, <2>2, FieldsReset DEF Review, Reviewed
  <2>. QED BY <2>1, <2>2
<1>13. ASSUME RejectSource
       PROVE  AgeInv'
  BY <1>13, SettleAge DEF RejectSource, UntouchedPaths, ClientPaths, SourcePaths
<1>14. ASSUME AdmitLocally
       PROVE  AgeInv'
  BY <1>14, SettleAge DEF AdmitLocally, UntouchedPaths, ClientPaths, SourcePaths
<1>15. ASSUME RejectAssessment
       PROVE  AgeInv'
  BY <1>15, SettleAge DEF RejectAssessment, UntouchedPaths, ClientPaths, SourcePaths
<1>16. ASSUME NEW outcome \in GateOutcomes, NEW b \in BOOLEAN, ReleaseSource(outcome, b)
       PROVE  AgeInv'
  BY <1>16, SettleAge DEF ReleaseSource, UntouchedPaths, ClientPaths, SourcePaths
<1>17. ASSUME NEW outcome \in GateOutcomes, NEW b \in BOOLEAN, NEW rollback \in BOOLEAN,
              Recover(rollback, outcome, b)
       PROVE  AgeInv'
  BY <1>17, SettleAge DEF Recover
<1>18. ASSUME NEW outcome \in GateOutcomes, NEW b \in BOOLEAN, JudgeTrained(outcome, b)
       PROVE  AgeInv'
  BY <1>18, SettleAge DEF JudgeTrained, UntouchedPaths, ClientPaths, SourcePaths
<1>19. ASSUME NEW outcome \in GateOutcomes, NEW b \in BOOLEAN, Untouched(outcome, b)
       PROVE  AgeInv'
  BY <1>19, SettleAge DEF Untouched, UntouchedPaths, ClientPaths, SourcePaths
<1>20. ASSUME Record
       PROVE  AgeInv'
  BY <1>20, ReadsAreFresh DEF Record, FirstOfTwo
<1>21. ASSUME Return
       PROVE  AgeInv'
  BY <1>21 DEF Return
<1>22. ASSUME NEW able \in ClientsWithRows, GatherClients(able)
       PROVE  AgeInv'
  BY <1>22 DEF GatherClients
<1>23. ASSUME NEW kept \in Kept, TrainRound(kept)
       PROVE  AgeInv'
  BY <1>23 DEF TrainRound
<1>24. ASSUME TrainingFails
       PROVE  AgeInv'
  BY <1>24, SettleAge DEF TrainingFails, UntouchedPaths, ClientPaths, SourcePaths
<1>25. ASSUME WarmUp
       PROVE  AgeInv'
  BY <1>25 DEF WarmUp
<1>. QED
  BY <1>1, <1>2, <1>3, <1>4, <1>5, <1>6, <1>7, <1>8, <1>9, <1>10, <1>11, <1>12,
     <1>13, <1>14, <1>15, <1>16, <1>17, <1>18, <1>19, <1>20, <1>21, <1>22, <1>23, <1>24, <1>25
  DEF Next, BaselineSteps

LEMMA AgesHold ==
  Spec => [](BaseInv /\ AgeInv)
<1>1. Init => BaseInv /\ AgeInv
  BY FieldsReset
  DEF Init, BaseInv, AgeInv, Phases, NoRecord, GivenAtInit, ResetByCell, Fresh
<1>2. BaseInv /\ AgeInv /\ [Next]_vars => (BaseInv /\ AgeInv)'
  <2>1. CASE Next
    BY <2>1, BaseStep, AgeStep
  <2>2. CASE UNCHANGED vars
    BY <2>2 DEF vars, BaseInv, AgeInv, Phases, Advances, Fresh, Admitted, OpensFirst
  <2>. QED BY <2>1, <2>2
<1>. QED BY <1>1, <1>2, PTL DEF Spec

\* Whatever cells an executor ran before, failed or rejected ones among them,
\* nothing recorded of a cell was written for another; the overhead of a
\* proposal cell that admits nothing is the exception (handlers.py:1118).
THEOREM RecordsAreOwn ==
  Spec => []RecordsAreTheCellsOwn
<1>1. BaseInv /\ AgeInv => RecordsAreTheCellsOwn
  BY DEF BaseInv, AgeInv, RecordsAreTheCellsOwn, Completed, OpensFirst
<1>. QED BY <1>1, AgesHold, PTL

\* No sequence of cells makes a handler read an attribute that its executor
\* never wrote, which would end the whole experiment.
THEOREM NothingReadUnset ==
  Spec => []NothingUnset
<1>1. BaseInv /\ AgeInv => NothingUnset
  BY DEF AgeInv, NothingUnset
<1>. QED BY <1>1, AgesHold, PTL

-----------------------------------------------------------------------------
(* Types                                                                   *)

Malice == {"NotRecorded", "NA", "Zero", "One"}

RecordType ==
  [outcome : Outcomes, state : AdmissionStates, malicious : Malice,
   production : SUBSET Domains, report : SUBSET SUBSET Domains]

MemoryType ==
  [report : SUBSET SUBSET Domains, contributors : SUBSET Domains,
   designated : SUBSET Domains, compromised : SUBSET Domains,
   deltas : Deltas, strategy : {"None", "ModelReplacement", "VerifierAware"}]

\* Rows that a synthesis can be made of, and what is kept of them.
Synthesisable(u) == Enough(u.rows) /\ {u.first, u.krum} \subseteq u.rows
Selectable(d) == Enough(d.rows) /\ d.krum \in d.rows

TypeInv ==
  /\ cell \in AllCells \union {NoCell}
  /\ state \in AdmissionStates
  /\ updates \in Updates /\ memory \in MemoryType /\ record \in RecordType
  /\ production \subseteq Domains
  /\ training \in [able : SUBSET Domains, accepted : SUBSET Domains]
  /\ phase = "gate" => Synthesisable(updates)

LEMMA SourcesAreDomains ==
  ASSUME TypeInv
  PROVE  /\ SourceOf(cell) \subseteq Domains
         /\ Selected(cell) \subseteq Domains /\ Designated(cell) \subseteq Domains
         /\ Strategy(cell) \in {"None", "ModelReplacement", "VerifierAware"}
<1>1. cell.source \in Domains \union {NoDomain} /\ cell.attackers \subseteq Domains
  BY AllCellsHaveKind DEF TypeInv, Kind, NoCell
<1>. QED BY <1>1 DEF SourceOf, Selected, Designated, Strategy

LEMMA ScansAreUpdates ==
  ASSUME TypeInv, NEW u \in Scans
  PROVE  /\ u \in Updates /\ DeltasOf(u) \in Deltas
         /\ Enough(u.rows) => Synthesisable(u) /\ Selectable(DeltasOf(u))
<1>1. u \in Updates /\ DeltasOf(u) \in Deltas
  BY SourcesAreDomains DEF Scans, Updates, Deltas, DeltasOf, Trainable
<1>2. u.rows = {} => ~Enough(u.rows)
  BY FS_EmptySet, ParametersAssumption DEF Enough
<1>. QED BY <1>1, <1>2 DEF Scans, Synthesisable, Selectable, DeltasOf

LEMMA SynthesisedOfDomains ==
  ASSUME TypeInv, phase = "gate", NEW p \in Synthesised
  PROVE  p \subseteq Domains
BY SourcesAreDomains, Zenon DEF TypeInv, Synthesisable, Synthesised, Updates

LEMMA KeptAreDomains ==
  ASSUME TypeInv, NEW kept \in Kept
  PROVE  kept \subseteq Domains
<1>1. training.able \subseteq Domains
  BY DEF TypeInv
<1>2. \A d \in training.able : {d} \subseteq Domains
  BY <1>1
<1>3. KrumSelected \subseteq SUBSET Domains
  BY <1>2 DEF KrumSelected
<1>4. \A k \in SUBSET training.able : Retained(k) \subseteq SUBSET Domains
  BY <1>1 DEF Retained
<1>5. ClusterRetained \subseteq SUBSET Domains
  BY <1>4 DEF ClusterRetained, Clusters
<1>6. {FilterAccepted, Averaged, Ensembled} \subseteq SUBSET SUBSET Domains
  BY <1>1 DEF FilterAccepted, Averaged, Ensembled
<1>. QED BY <1>3, <1>5, <1>6, Zenon DEF Kept

LEMMA MaliciousIsMalice ==
  Malicious \in Malice
BY Zenon DEF Malicious, Malice, Ancestry, Recomputed

LEMMA NothingIsUpdates ==
  NoUpdates \in Updates /\ NoDeltas \in Deltas
BY DEF NoUpdates, Updates, NoDeltas, Deltas

LEMMA AdvanceMemoryTyped ==
  ASSUME memory \in MemoryType
  PROVE  AdvanceMemory \in MemoryType /\ [AdvanceMemory EXCEPT !.report = {}] \in MemoryType
<1>1. AdvanceMemory \in MemoryType
  BY NothingIsUpdates, Zenon DEF AdvanceMemory, MemoryType
<1>. QED BY <1>1, Zenon DEF MemoryType

LEMMA TypeStep ==
  ASSUME TypeInv, Next
  PROVE  TypeInv'
<1> USE DEF TypeInv, Settle, Judged, Invalid, AdmissionStates, Outcomes, RecordType, MemoryType
<1>1. ASSUME NEW c \in Cells, NEW prepared \in BOOLEAN, Begin(c, prepared)
      PROVE  TypeInv'
  <2>1. memory' \in MemoryType
    BY <1>1, Zenon DEF Begin, BeginMemory
  <2>. QED BY <1>1, <2>1 DEF Begin, BeginMemory, Cells, NoRecord, Malice
<1>2. ASSUME Fail
      PROVE  TypeInv'
  BY <1>2 DEF Fail, NoRecord, Malice
<1>3. ASSUME RejectVariant
      PROVE  TypeInv'
  <2>1. memory' \in MemoryType
    BY <1>3, AdvanceMemoryTyped, Zenon DEF RejectVariant
  <2>. QED BY <1>3, <2>1, AdvanceMemoryTyped DEF RejectVariant, NoRecord, Malice
<1>4. ASSUME Validate
      PROVE  TypeInv'
  BY <1>4, SourcesAreDomains DEF Validate
<1>5. ASSUME NEW outcome \in {"OPEN", "REJECTED", "DORMANT"}, OpenStage(outcome)
      PROVE  TypeInv'
  BY <1>5 DEF OpenStage
<1>6. ASSUME NEW outcome \in {"OPEN", "REJECTED", "DORMANT"}, StartAdvance(outcome)
      PROVE  TypeInv'
  <2>1. memory' \in MemoryType
    BY <1>6, AdvanceMemoryTyped, Zenon DEF StartAdvance
  <2>. QED BY <1>6, <2>1, AdvanceMemoryTyped DEF StartAdvance
<1>7. ASSUME AdvanceStop
      PROVE  TypeInv'
  BY <1>7, SourcesAreDomains DEF AdvanceStop
<1>8. ASSUME NEW u \in Scans, Scan(u)
      PROVE  TypeInv'
  <2>1. memory' \in MemoryType
    BY <1>8, ScansAreUpdates, SourcesAreDomains, Zenon DEF Scan
  <2>. QED BY <1>8, <2>1, ScansAreUpdates, SourcesAreDomains DEF Scan, Synthesisable, Enough
<1>9. ASSUME NEW u \in Scans, RobustScan(u)
      PROVE  TypeInv'
  <2>1. memory' \in MemoryType
    BY <1>9, ScansAreUpdates, SourcesAreDomains, Zenon DEF RobustScan
  <2>. QED BY <1>9, <2>1, ScansAreUpdates, SourcesAreDomains DEF RobustScan, Synthesisable, Enough
<1>10. ASSUME NEW p \in Synthesised, NEW outcome \in GateOutcomes, NEW b \in BOOLEAN,
              Gate(p, outcome, b)
       PROVE  TypeInv'
  <2>0. (IF b THEN {p} ELSE {}) \in SUBSET SUBSET Domains
    BY <1>10, SynthesisedOfDomains DEF Gate
  <2>1. memory' \in MemoryType
    BY <1>10, <2>0, SynthesisedOfDomains, Zenon DEF Gate
  <2>. QED BY <1>10, <2>1, SynthesisedOfDomains DEF Gate, GateOutcomes
<1>11. ASSUME StopBaseline
       PROVE  TypeInv'
  BY <1>11, SourcesAreDomains DEF StopBaseline
<1>12. ASSUME NEW b \in BOOLEAN, Review(b)
       PROVE  TypeInv'
  BY <1>12, SourcesAreDomains DEF Review
<1>13. ASSUME RejectSource
       PROVE  TypeInv'
  BY <1>13, SourcesAreDomains DEF RejectSource
<1>14. ASSUME AdmitLocally
       PROVE  TypeInv'
  BY <1>14, SourcesAreDomains DEF AdmitLocally
<1>15. ASSUME RejectAssessment
       PROVE  TypeInv'
  BY <1>15, SourcesAreDomains DEF RejectAssessment
<1>16. ASSUME NEW outcome \in GateOutcomes, NEW b \in BOOLEAN, ReleaseSource(outcome, b)
       PROVE  TypeInv'
  <2>0. (IF b THEN {SourceOf(cell)} ELSE {}) \in SUBSET SUBSET Domains
    BY <1>16, SourcesAreDomains DEF ReleaseSource
  <2>1. memory' \in MemoryType
    BY <1>16, <2>0, SourcesAreDomains, Zenon DEF ReleaseSource
  <2>. QED BY <1>16, <2>1, SourcesAreDomains DEF ReleaseSource, GateOutcomes
<1>17. ASSUME NEW outcome \in GateOutcomes, NEW b \in BOOLEAN, NEW rollback \in BOOLEAN,
              Recover(rollback, outcome, b)
       PROVE  TypeInv'
  <2>1. (IF rollback THEN Domains \ {cell.source} ELSE SourceOf(cell)) \in SUBSET Domains
    BY SourcesAreDomains
  <2>2. (IF b THEN {IF rollback THEN Domains \ {cell.source} ELSE SourceOf(cell)} ELSE {})
          \in SUBSET SUBSET Domains
    BY <2>1
  <2>3. memory' \in MemoryType
    BY <1>17, <2>1, <2>2, SourcesAreDomains, Zenon DEF Recover
  <2>. QED BY <1>17, <2>1, <2>3 DEF Recover, GateOutcomes
<1>18. ASSUME NEW outcome \in GateOutcomes, NEW b \in BOOLEAN, JudgeTrained(outcome, b)
       PROVE  TypeInv'
  <2>0. (IF b THEN {production} ELSE {}) \in SUBSET SUBSET Domains
    BY <1>18
  <2>1. TrainingMemory \in MemoryType
    BY SourcesAreDomains, Zenon DEF TrainingMemory
  <2>2. memory' \in MemoryType
    BY <1>18, <2>0, <2>1, Zenon DEF JudgeTrained
  <2>. QED BY <1>18, <2>2 DEF JudgeTrained, GateOutcomes
<1>19. ASSUME NEW outcome \in GateOutcomes, NEW b \in BOOLEAN, Untouched(outcome, b)
       PROVE  TypeInv'
  BY <1>19, SourcesAreDomains DEF Untouched, GateOutcomes
<1>20. ASSUME Record
       PROVE  TypeInv'
  BY <1>20, MaliciousIsMalice, NothingIsUpdates DEF Record
<1>21. ASSUME Return
       PROVE  TypeInv'
  BY <1>21, NothingIsUpdates DEF Return, NoRecord, NoTraining, Malice
<1>22. ASSUME NEW able \in ClientsWithRows, GatherClients(able)
       PROVE  TypeInv'
  BY <1>22 DEF GatherClients, ClientsWithRows
<1>23. ASSUME NEW kept \in Kept, TrainRound(kept)
       PROVE  TypeInv'
  BY <1>23, KeptAreDomains, SourcesAreDomains DEF TrainRound
<1>24. ASSUME TrainingFails
       PROVE  TypeInv'
  <2>1. memory' \in MemoryType
    BY <1>24, SourcesAreDomains, Zenon DEF TrainingFails, TrainingMemory
  <2>. QED BY <1>24, <2>1 DEF TrainingFails
<1>25. ASSUME WarmUp
       PROVE  TypeInv'
  BY <1>25, NothingIsUpdates DEF WarmUp
<1>. QED
  BY <1>1, <1>2, <1>3, <1>4, <1>5, <1>6, <1>7, <1>8, <1>9, <1>10, <1>11, <1>12,
     <1>13, <1>14, <1>15, <1>16, <1>17, <1>18, <1>19, <1>20, <1>21, <1>22, <1>23, <1>24, <1>25
  DEF Next, BaselineSteps

-----------------------------------------------------------------------------
(* Where the production came from                                          *)

Clean == memory.designated = {} /\ memory.compromised = {}

\* The attributes that a scan leaves to the metrics.
Scanned ==
  /\ memory.designated = {} /\ memory.compromised = Selected(cell)
  /\ KeepsDeltas => Selectable(memory.deltas)

Reproduced == cell.path \in ReproductionPaths \union {"Robust", "ReviewThenSingle"}

\* What each path tells of a production that was admitted.
AncestryKept ==
  /\ Reproduced =>
       /\ Scanned /\ memory.contributors = production
       /\ cell.path \in {"Krum", "Robust"} => production = {memory.deltas.krum}
       /\ cell.path = "Median" => production = memory.deltas.rows
  /\ cell.path \in SourcePaths =>
       Clean /\ memory.contributors \intersect SourceOf(cell) = production \intersect SourceOf(cell)
  /\ cell.path \in ClientPaths =>
       /\ memory.compromised = {} /\ memory.designated = Designated(cell)
       /\ memory.contributors \subseteq Designated(cell)
       /\ production \intersect Designated(cell) = memory.contributors
  /\ cell.path \in UntouchedPaths => memory.contributors = {}

KeptInv ==
  /\ phase = "route" /\ record.outcome = "None" =>
       Clean /\ memory.report = {} /\ memory.contributors = {}
  /\ phase = "start" /\ record.outcome = "None" => memory.report = {}
  /\ phase \in {"scan", "gate", "recover", "rounds"} => memory.report = {}
  /\ phase \in {"scan", "recover", "rounds"} => Clean
  /\ phase = "rounds" => training.accepted = production \intersect Designated(cell)
  /\ phase = "gate" => Scanned /\ (KeepsDeltas => memory.deltas = DeltasOf(updates))
  /\ phase = "judge" /\ record.outcome = "None" => memory.report \subseteq {production}
  /\ phase = "judge" /\ Admitted => AncestryKept
  /\ record.outcome \in {"Pending", "Completed"} => record.report \subseteq {record.production}

\* An action that ends a handler has to show what the metrics may rely on.
LEMMA SettleMemory ==
  ASSUME KeptInv, phase' = "judge", UNCHANGED <<cell, record>>,
         record.outcome = "None" => memory'.report \subseteq {production'},
         Admitted' => AncestryKept'
  PROVE  KeptInv'
BY DEF KeptInv

\* The four ways to a production exclude each other.
LEMMA PathsAreDistinct ==
  /\ Reproduced => cell.path \notin SourcePaths \union ClientPaths \union UntouchedPaths
  /\ cell.path \in SourcePaths => ~Reproduced /\ cell.path \notin ClientPaths \union UntouchedPaths
  /\ cell.path \in ClientPaths => ~Reproduced /\ cell.path \notin SourcePaths \union UntouchedPaths
  /\ cell.path \in UntouchedPaths => ~Reproduced /\ cell.path \notin SourcePaths \union ClientPaths
  /\ cell.path = "Check" =>
       ~Reproduced /\ cell.path \notin SourcePaths \union ClientPaths \union UntouchedPaths
BY DEF Reproduced, ReproductionPaths, SourcePaths, ClientPaths, UntouchedPaths

\* Only a path of the resolved core comes to mixed proposals.
LEMMA OthersRecordOnce ==
  ASSUME BaseInv, phase \notin {"idle", "over", "crashed"},
         cell.path \notin {"FirstRow", "Krum"}
  PROVE  record.outcome = "None"
BY DEF BaseInv, Kind

LEMMA KeptStep ==
  ASSUME BaseInv, TypeInv, KeptInv, BaseInv', TypeInv', Next, cell.handler # "efficiency"
  PROVE  KeptInv'
<1> USE DEF KeptInv, BaseInv, Settle, Judged, Invalid, Clean, Admitted
<1>1. ASSUME NEW c \in Cells, NEW prepared \in BOOLEAN, Begin(c, prepared)
      PROVE  KeptInv'
  BY <1>1 DEF Begin, BeginMemory, NoRecord
<1>2. ASSUME Fail
      PROVE  KeptInv'
  BY <1>2 DEF Fail, NoRecord
<1>3. ASSUME RejectVariant
      PROVE  KeptInv'
  BY <1>3 DEF RejectVariant, NoRecord
<1>4. ASSUME Validate
      PROVE  KeptInv'
  BY <1>4, PathsAreDistinct DEF Validate, AncestryKept, Reproduced, Kind
<1>5. ASSUME NEW outcome \in {"OPEN", "REJECTED", "DORMANT"}, OpenStage(outcome)
      PROVE  KeptInv'
  BY <1>5 DEF OpenStage
<1>6. ASSUME NEW outcome \in {"OPEN", "REJECTED", "DORMANT"}, StartAdvance(outcome)
      PROVE  KeptInv'
  <2>1. /\ AdvanceMemory.report = memory.report /\ AdvanceMemory.contributors = {}
        /\ AdvanceMemory.designated = {} /\ AdvanceMemory.compromised = {}
    BY Zenon DEF AdvanceMemory, TypeInv, MemoryType
  <2>2. CASE outcome = "OPEN"
    BY <1>6, <2>1, <2>2, AdvanceMemoryTyped DEF StartAdvance, TypeInv, MemoryType
  <2>3. CASE outcome # "OPEN"
    BY <1>6, <2>1, <2>3 DEF StartAdvance, AtStart
  <2>. QED BY <2>2, <2>3
<1>7. ASSUME AdvanceStop
      PROVE  KeptInv'
  BY <1>7 DEF AdvanceStop
<1>8. ASSUME NEW u \in Scans, Scan(u)
      PROVE  KeptInv'
  <2>1. /\ memory'.compromised = Selected(cell) /\ memory'.designated = memory.designated
        /\ memory'.report = {} /\ (KeepsDeltas => memory'.deltas = DeltasOf(u))
    BY <1>8 DEF Scan, TypeInv, MemoryType, KeepsDeltas
  <2>2. CASE phase' = "gate"
    BY <1>8, <2>1, <2>2, OthersRecordOnce, ScansAreUpdates
    DEF Scan, Scanned, Selected, KeepsDeltas, TypeInv, Selectable, Enough
  <2>3. CASE phase' = "judge"
    BY <1>8, <2>1, <2>3, SettleMemory DEF Scan
  <2>. QED BY <1>8, <2>2, <2>3 DEF Scan
<1>9. ASSUME NEW u \in Scans, RobustScan(u)
      PROVE  KeptInv'
  <2>1. /\ memory'.compromised = Selected(cell) /\ memory'.designated = memory.designated
        /\ memory'.report = {} /\ (KeepsDeltas => memory'.deltas = DeltasOf(u))
    BY <1>9 DEF RobustScan, TypeInv, MemoryType, KeepsDeltas
  <2>2. CASE phase' = "gate"
    BY <1>9, <2>1, <2>2, OthersRecordOnce, ScansAreUpdates
    DEF RobustScan, Scanned, Selected, KeepsDeltas, TypeInv, Selectable, Enough
  <2>3. CASE phase' = "judge"
    BY <1>9, <2>1, <2>3, SettleMemory DEF RobustScan
  <2>. QED BY <1>9, <2>2, <2>3 DEF RobustScan
<1>10. ASSUME NEW p \in Synthesised, NEW outcome \in GateOutcomes, NEW b \in BOOLEAN,
              Gate(p, outcome, b)
       PROVE  KeptInv'
  <2>1. /\ memory'.compromised = memory.compromised /\ memory'.designated = memory.designated
        /\ memory'.deltas = memory.deltas /\ memory'.contributors = p
        /\ memory'.report \subseteq {p}
    BY <1>10 DEF Gate, TypeInv, MemoryType
  <2>2. Reproduced /\ Reproduced'
    BY <1>10 DEF Gate, Advances, Reproduced
  <2>3. cell.path \in {"Krum", "Robust"} => p = {updates.krum}
    BY <1>10, Zenon DEF Gate, Synthesised
  <2>4. cell.path = "Median" => p = updates.rows
    BY <1>10, Zenon DEF Gate, Synthesised
  <2>5. Scanned'
    BY <1>10, <2>1 DEF Gate, Scanned, Selected, KeepsDeltas, Selectable, Enough
  <2>6. AncestryKept'
    BY <1>10, <2>1, <2>2, <2>3, <2>4, <2>5, PathsAreDistinct
    DEF Gate, AncestryKept, KeepsDeltas, DeltasOf
  <2>. QED BY <1>10, <2>1, <2>6, SettleMemory DEF Gate
<1>11. ASSUME StopBaseline
       PROVE  KeptInv'
  BY <1>11 DEF StopBaseline
<1>12. ASSUME NEW b \in BOOLEAN, Review(b)
       PROVE  KeptInv'
  <2>1. /\ memory'.compromised = {} /\ memory'.designated = {} /\ memory'.report = {}
        /\ record.outcome = "None"
    BY <1>12, OthersRecordOnce DEF Review, Reviewed, TypeInv, MemoryType
  <2>2. CASE phase' # "judge"
    BY <1>12, <2>1, <2>2 DEF Review
  <2>3. CASE phase' = "judge" /\ state' # "ADMITTED"
    BY <1>12, <2>1, <2>3, SettleMemory DEF Review
  <2>4. CASE phase' = "judge" /\ state' = "ADMITTED"
    <3>1. /\ cell.path = "ReviewSource" /\ memory'.contributors = SourceOf(cell)
          /\ production' = SourceOf(cell)
      BY <1>12, <2>4 DEF Review, TypeInv, MemoryType
    <3>2. AncestryKept'
      BY <1>12, <2>1, <3>1, PathsAreDistinct DEF Review, AncestryKept, Reproduced, SourceOf, SourcePaths
    <3>. QED BY <1>12, <2>1, <2>4, <3>2, SettleMemory DEF Review
  <2>. QED BY <2>2, <2>3, <2>4
<1>13. ASSUME RejectSource
       PROVE  KeptInv'
  BY <1>13 DEF RejectSource
<1>14. ASSUME AdmitLocally
       PROVE  KeptInv'
  <2>1. /\ memory'.compromised = {} /\ memory'.designated = {}
        /\ memory'.contributors \intersect SourceOf(cell) = production' \intersect SourceOf(cell)
        /\ memory'.report \subseteq {production'} /\ record.outcome = "None"
    BY <1>14, OthersRecordOnce DEF AdmitLocally, TypeInv, MemoryType, SourceOf
  <2>2. AncestryKept'
    BY <1>14, <2>1, PathsAreDistinct DEF AdmitLocally, AncestryKept, Reproduced, SourceOf, SourcePaths
  <2>. QED BY <1>14, <2>1, <2>2, SettleMemory DEF AdmitLocally
<1>15. ASSUME RejectAssessment
       PROVE  KeptInv'
  BY <1>15 DEF RejectAssessment
<1>16. ASSUME NEW outcome \in GateOutcomes, NEW b \in BOOLEAN, ReleaseSource(outcome, b)
       PROVE  KeptInv'
  <2>1. /\ memory'.compromised = {} /\ memory'.designated = {}
        /\ memory'.contributors \intersect SourceOf(cell) = production' \intersect SourceOf(cell)
        /\ memory'.report \subseteq {production'} /\ record.outcome = "None"
    BY <1>16, OthersRecordOnce DEF ReleaseSource, TypeInv, MemoryType, SourceOf
  <2>2. AncestryKept'
    BY <1>16, <2>1, PathsAreDistinct DEF ReleaseSource, AncestryKept, Reproduced, SourceOf, SourcePaths
  <2>. QED BY <1>16, <2>1, <2>2, SettleMemory DEF ReleaseSource
<1>17. ASSUME NEW outcome \in GateOutcomes, NEW b \in BOOLEAN, NEW rollback \in BOOLEAN,
              Recover(rollback, outcome, b)
       PROVE  KeptInv'
  <2>1. /\ memory'.compromised = {} /\ memory'.designated = {}
        /\ memory'.contributors \intersect SourceOf(cell) = production' \intersect SourceOf(cell)
        /\ memory'.report \subseteq {production'} /\ record.outcome = "None"
    BY <1>17, OthersRecordOnce DEF Recover, TypeInv, MemoryType, SourceOf
  <2>2. AncestryKept'
    BY <1>17, <2>1, PathsAreDistinct DEF Recover, AncestryKept, Reproduced, SourceOf, SourcePaths
  <2>. QED BY <1>17, <2>1, <2>2, SettleMemory DEF Recover
<1>18. ASSUME NEW outcome \in GateOutcomes, NEW b \in BOOLEAN, JudgeTrained(outcome, b)
       PROVE  KeptInv'
  <2>1. /\ memory'.compromised = {} /\ memory'.designated = Designated(cell)
        /\ memory'.contributors = training.accepted
        /\ memory'.report \subseteq {production'} /\ record.outcome = "None"
    BY <1>18, OthersRecordOnce DEF JudgeTrained, TrainingMemory, ClientPaths, TypeInv, MemoryType
  <2>2. AncestryKept'
    BY <1>18, <2>1, PathsAreDistinct
    DEF JudgeTrained, AncestryKept, Reproduced, Designated, SourceOf
  <2>. QED BY <1>18, <2>1, <2>2, SettleMemory DEF JudgeTrained
<1>19. ASSUME NEW outcome \in GateOutcomes, NEW b \in BOOLEAN, Untouched(outcome, b)
       PROVE  KeptInv'
  <2>1. /\ memory'.contributors = {}
        /\ memory'.report \subseteq {production'} /\ record.outcome = "None"
    BY <1>19, OthersRecordOnce DEF Untouched, UntouchedPaths, TypeInv, MemoryType
  <2>2. AncestryKept'
    BY <1>19, <2>1, PathsAreDistinct DEF Untouched, AncestryKept, Reproduced
  <2>. QED BY <1>19, <2>1, <2>2, SettleMemory DEF Untouched
<1>20. ASSUME Record
       PROVE  KeptInv'
  BY <1>20 DEF Record, FirstOfTwo, TypeInv, RecordType
<1>21. ASSUME Return
       PROVE  KeptInv'
  BY <1>21 DEF Return, NoRecord
<1>22. ASSUME NEW able \in ClientsWithRows, GatherClients(able)
       PROVE  KeptInv'
  BY <1>22, OthersRecordOnce DEF GatherClients, ClientPaths
<1>23. ASSUME NEW kept \in Kept, TrainRound(kept)
       PROVE  KeptInv'
  <2>1. training'.accepted = training.accepted \union (kept \intersect Designated(cell))
    BY <1>23 DEF TrainRound, TypeInv
  <2>. QED BY <1>23, <2>1 DEF TrainRound, Designated, SourceOf
<1>24. ASSUME TrainingFails
       PROVE  KeptInv'
  <2>1. memory'.report = {}
    BY <1>24 DEF TrainingFails, TrainingMemory, TypeInv, MemoryType
  <2>. QED BY <1>24, <2>1, SettleMemory DEF TrainingFails
<1>25. ASSUME WarmUp
       PROVE  KeptInv'
  BY <1>25 DEF WarmUp
<1>. QED
  BY <1>1, <1>2, <1>3, <1>4, <1>5, <1>6, <1>7, <1>8, <1>9, <1>10, <1>11, <1>12,
     <1>13, <1>14, <1>15, <1>16, <1>17, <1>18, <1>19, <1>20, <1>21, <1>22, <1>23, <1>24, <1>25
  DEF Next, BaselineSteps

\* A timed cell finds what the execution before it left: no metric reads it.
MemoryInv ==
  /\ cell.handler # "efficiency" => KeptInv
  /\ record.outcome \in {"Pending", "Completed"} => record.report \subseteq {record.production}

\* A timed cell records no report, whatever its executions leave.
LEMMA TimedStep ==
  ASSUME BaseInv, MemoryInv, Next, cell.handler = "efficiency"
  PROVE  MemoryInv'
<1> USE DEF MemoryInv
<1>1. phase # "idle"
  BY DEF BaseInv, NoCell
<1>2. CASE Record
  <2>1. "report" \notin ReadFields
    BY Zenon DEF ReadFields
  <2>2. record.outcome \in {"None", "Pending"}
    BY <1>2 DEF Record, BaseInv
  <2>3. CASE record.outcome = "Pending"
    BY <2>3, Zenon DEF BaseInv
  <2>4. CASE record.outcome = "None"
    <3>1. record'.report = {} /\ cell' = cell
      BY <1>2, <2>1, <2>4, Zenon DEF Record
    <3>. QED BY <3>1
  <2>. QED BY <2>2, <2>3, <2>4
<1>3. CASE Return
  BY <1>3 DEF Return, KeptInv, NoRecord
<1>4. CASE Fail \/ RejectVariant
  BY <1>4 DEF Fail, RejectVariant, Invalid, NoRecord
<1>5. CASE ~(Record \/ Return \/ Fail \/ RejectVariant)
  <2>1. UNCHANGED <<cell, record>>
    BY <1>1, <1>5
    DEF Next, BaselineSteps, Begin, Validate, OpenStage, StartAdvance, AdvanceStop, Scan, RobustScan,
        Gate, StopBaseline, Review, RejectSource, AdmitLocally, RejectAssessment, GatherClients,
        TrainRound, TrainingFails, ReleaseSource, Recover, JudgeTrained, Untouched, WarmUp
  <2>. QED BY <2>1
<1>. QED BY <1>2, <1>3, <1>4, <1>5

LEMMA MemoryStep ==
  ASSUME BaseInv, TypeInv, MemoryInv, BaseInv', TypeInv', Next
  PROVE  MemoryInv'
<1>1. CASE cell.handler = "efficiency"
  BY <1>1, TimedStep
<1>2. CASE cell.handler # "efficiency"
  BY <1>2, KeptStep DEF MemoryInv, KeptInv
<1>. QED BY <1>1, <1>2

-----------------------------------------------------------------------------
(* Malicious admission                                                     *)

LEMMA RowsAreCounted ==
  ASSUME TypeInv, Selectable(memory.deltas)
  PROVE  /\ memory.deltas.rows # {}
         /\ cell.path \in {"Krum", "Robust"} => Cardinality(memory.deltas.rows) >= KrumMinimum
         /\ cell.path = "Median" => ~(Cardinality(memory.deltas.rows) >= KrumMinimum)
<1>1. memory.deltas.rows \subseteq Domains
  BY DEF TypeInv, MemoryType, Deltas
<1>2. Cardinality(memory.deltas.rows) \in Nat
  BY <1>1, FS_Subset, FS_CardinalityType, ParametersAssumption
<1>. QED BY <1>2, ParametersAssumption DEF Selectable, Enough

\* Recomputing who produced the model from the rows that a scan left names
\* the row that Krum selected or every row of the median.
LEMMA RecomputedIsTrue ==
  ASSUME BaseInv, TypeInv, KeptInv, phase = "judge", Admitted,
         cell.path \in {"Krum", "Robust", "Median"}
  PROVE  ProductionIsCompromised <=> production \intersect Selected(cell) # {}
<1>1. /\ Selectable(memory.deltas) /\ memory.compromised = Selected(cell)
      /\ cell.path \in {"Krum", "Robust"} => production = {memory.deltas.krum}
      /\ cell.path = "Median" => production = memory.deltas.rows
  BY DEF KeptInv, AncestryKept, Scanned, KeepsDeltas, Reproduced, ReproductionPaths
<1>. QED BY <1>1, RowsAreCounted DEF ProductionIsCompromised

Truth == Admitted /\ production \intersect Compromised # {}

\* What the metrics compute is what really happened.
LEMMA MaliciousIsTrue ==
  ASSUME BaseInv, TypeInv, MemoryInv, phase = "judge", ~FullReference
  PROVE  /\ Malicious = "One" => Truth
         /\ Malicious = "Zero" => ~Truth
         /\ Malicious = "NA" => ~Truth
<1> USE DEF Truth, Compromised, Kind, ReproducerAttacks
<1>0. Kind(cell)
  BY DEF BaseInv
<1>1. cell.handler # "efficiency" => KeptInv /\ (Admitted => AncestryKept)
  BY DEF MemoryInv, KeptInv
<1>2. cell.attack = "None" => ~Truth
  BY DEF Selected, Designated
<1>3. CASE cell.handler \in {"opening", "mixed"}
  <2>1. Malicious = Ancestry(cell.attack = "SourceBackdoor", SourceOf(cell))
    BY <1>3, Zenon DEF Malicious
  <2>. QED
    BY <1>0, <1>1, <1>2, <1>3, <2>1
    DEF Ancestry, AncestryKept, Reproduced, ReproductionPaths, UntouchedPaths, Selected, Designated,
        ClientPaths
<1>4. CASE cell.handler \in {"plurality", "external"}
  <2>1. Malicious = Ancestry(cell.attack # "None", memory.compromised)
    BY <1>4, Zenon DEF Malicious
  <2>. QED
    BY <1>0, <1>1, <1>2, <1>4, <2>1
    DEF Ancestry, AncestryKept, Scanned, Reproduced, ReproductionPaths, Selected, Designated
<1>5. CASE cell.handler = "exclusion"
  <2>1. Malicious = Ancestry(cell.attack = "SourceBackdoor", SourceOf(cell) \union memory.compromised)
    BY <1>5, Zenon DEF Malicious
  <2>. QED
    BY <1>0, <1>1, <1>2, <1>5, <2>1
    DEF Ancestry, AncestryKept, Scanned, Clean, Reproduced, ReproductionPaths, SourcePaths,
        UntouchedPaths, Selected, Designated, ClientPaths
<1>6. CASE cell.handler \in {"baseline", "delay"}
  <2>1. Malicious = Ancestry(cell.attack # "None", ScenarioIds)
    BY <1>6, Zenon DEF Malicious
  <2>2. CASE Reproduced
    BY <1>0, <1>1, <1>2, <2>1, <2>2
    DEF Ancestry, AncestryKept, Scanned, ScenarioIds, Reproduced, ReproductionPaths,
        UntouchedPaths, Selected, Designated, ClientPaths
  <2>3. CASE cell.path \in SourcePaths
    BY <1>0, <1>1, <1>2, <2>1, <2>3
    DEF Ancestry, AncestryKept, Clean, ScenarioIds, SourcePaths, UntouchedPaths, Selected, Designated,
        ClientPaths
  <2>4. CASE cell.path \in ClientPaths
    BY <1>0, <1>1, <1>2, <2>1, <2>4
    DEF Ancestry, AncestryKept, ScenarioIds, UntouchedPaths, Selected, Designated, ClientPaths
  <2>5. CASE cell.path \in UntouchedPaths
    BY <1>0, <1>1, <1>2, <2>1, <2>5
    DEF Ancestry, AncestryKept, UntouchedPaths, SourcePaths, Selected, Designated, ClientPaths
  <2>. QED BY <1>0, <1>6, <2>2, <2>3, <2>4, <2>5 DEF Reproduced
<1>7. CASE cell.handler = "released"
  <2>1. Malicious = Ancestry(cell.source # NoDomain, SourceOf(cell))
    BY <1>7, Zenon DEF Malicious
  <2>. QED
    BY <1>0, <1>1, <1>7, <2>1
    DEF Ancestry, AncestryKept, SourceOf, SourcePaths, UntouchedPaths, Selected, Designated,
        ClientPaths
<1>8. CASE cell.handler = "ablation"
  <2>1. Malicious = IF cell.attack \notin {"ModelReplacement", "VerifierAware"} THEN "NotRecorded"
                    ELSE IF memory.compromised = {} THEN "NA" ELSE Recomputed
    BY <1>8, Zenon DEF Malicious
  <2>. QED
    BY <1>0, <1>1, <1>8, <2>1, RecomputedIsTrue
    DEF Recomputed, FullReference, AncestryKept, Scanned, Reproduced, ReproductionPaths, Selected,
        Designated
<1>9. CASE cell.handler \in {"reproducers", "verifiers"}
  <2>1. Malicious = IF cell.attack = "None" THEN "NA" ELSE Recomputed
    BY <1>9, Zenon DEF Malicious
  <2>. QED
    BY <1>0, <1>1, <1>2, <1>9, <2>1, RecomputedIsTrue DEF Recomputed, Selected, Designated
<1>10. CASE cell.handler \notin {"opening", "mixed", "plurality", "external", "exclusion", "baseline",
                                 "delay", "released", "ablation", "reproducers", "verifiers"}
  <2>1. Malicious = "NotRecorded"
    BY <1>10, Zenon DEF Malicious
  <2>. QED BY <2>1
<1>. QED BY <1>3, <1>4, <1>5, <1>6, <1>7, <1>8, <1>9, <1>10

\* A cell that was recorded, and the first of two that are recorded as one.
RecordedInv ==
  /\ record.outcome = "Completed" => AncestryIsTrue /\ phase \in {"over", "crashed"}
  /\ record.outcome = "Invalid" => phase = "over"

LEMMA RecordedStep ==
  ASSUME BaseInv, TypeInv, MemoryInv, RecordedInv, Next
  PROVE  RecordedInv'
<1> USE DEF RecordedInv, Completed
<1>1. ASSUME Record, record.outcome = "Pending"
      PROVE  RecordedInv'
  <2>1. Kind(cell) /\ cell.handler = "mixed"
    BY <1>1 DEF Record, BaseInv
  <2>2. ~TrueAncestry = "One" /\ cell' = cell
    BY <1>1, <2>1 DEF Record, TrueAncestry, Compromised, Selected, Designated, Kind, ReproducerAttacks
  <2>3. Malicious = "NA"
    <3>1. Malicious = Ancestry(cell.attack = "SourceBackdoor", SourceOf(cell))
      BY <2>1, Zenon DEF Malicious
    <3>. QED BY <2>1, <3>1 DEF Ancestry, Kind
  <2>4. record'.malicious = "NA" /\ Compromised' = {}
    BY <1>1, <2>1, <2>3
    DEF Record, TypeInv, RecordType, Compromised, Selected, Designated, Kind, ReproducerAttacks
  <2>5. AncestryIsTrue'
    BY <2>4 DEF AncestryIsTrue, TrueAncestry
  <2>. QED BY <1>1, <2>5 DEF Record, FirstOfTwo
<1>2. ASSUME Record, record.outcome = "None"
      PROVE  RecordedInv'
  <2>1. CASE FirstOfTwo
    BY <1>2, <2>1 DEF Record
  <2>2. CASE ~FirstOfTwo
    <3>1. /\ record'.malicious = Malicious /\ record'.state = state
          /\ record'.production = production /\ record'.outcome = "Completed"
          /\ cell' = cell /\ phase' \in {"over", "crashed"}
      BY <1>2, <2>2 DEF Record
    <3>2. Compromised' = Compromised /\ FullReference' = FullReference
      BY <3>1 DEF Compromised, FullReference
    <3>3. TrueAncestry' = IF Truth THEN "One" ELSE "Zero"
      BY <3>1, <3>2 DEF TrueAncestry, Truth, Admitted
    <3>4. AncestryIsTrue'
      BY <1>2, <3>1, <3>2, <3>3, MaliciousIsTrue DEF Record, AncestryIsTrue
    <3>. QED BY <3>1, <3>4
  <2>. QED BY <2>1, <2>2
<1>3. ASSUME Record
      PROVE  RecordedInv'
  BY <1>1, <1>2, <1>3 DEF Record, BaseInv
<1>4. CASE UNCHANGED <<cell, record>> /\ phase \notin {"over", "crashed"}
  BY <1>4 DEF BaseInv
<1>5. ASSUME NEW c \in Cells, NEW prepared \in BOOLEAN, Begin(c, prepared)
      PROVE  RecordedInv'
  BY <1>5 DEF Begin, Invalid, NoRecord, BaseInv
<1>6. CASE Fail \/ RejectVariant
  BY <1>6 DEF Fail, RejectVariant, Invalid, NoRecord
<1>7. CASE Return
  BY <1>7 DEF Return, NoRecord
<1>8. CASE Validate \/ AdvanceStop \/ StopBaseline \/ RejectSource \/ AdmitLocally \/ RejectAssessment
              \/ WarmUp
  BY <1>4, <1>8
  DEF Validate, AdvanceStop, StopBaseline, RejectSource, AdmitLocally, RejectAssessment, Settle, WarmUp
<1>9. ASSUME NEW outcome \in {"OPEN", "REJECTED", "DORMANT"}, OpenStage(outcome) \/ StartAdvance(outcome)
      PROVE  RecordedInv'
  BY <1>4, <1>9 DEF OpenStage, StartAdvance, AtStart
<1>10. ASSUME NEW u \in Scans, Scan(u) \/ RobustScan(u)
       PROVE  RecordedInv'
  BY <1>4, <1>10 DEF Scan, RobustScan
<1>11. ASSUME NEW p \in Synthesised, NEW outcome \in GateOutcomes, NEW b \in BOOLEAN,
              Gate(p, outcome, b)
       PROVE  RecordedInv'
  BY <1>4, <1>11 DEF Gate
<1>12. ASSUME NEW b \in BOOLEAN, Review(b)
       PROVE  RecordedInv'
  BY <1>4, <1>12 DEF Review
<1>14. CASE TrainingFails
  BY <1>4, <1>14 DEF TrainingFails
<1>15. ASSUME NEW able \in ClientsWithRows, GatherClients(able)
       PROVE  RecordedInv'
  BY <1>4, <1>15 DEF GatherClients
<1>16. ASSUME NEW kept \in Kept, TrainRound(kept)
       PROVE  RecordedInv'
  BY <1>4, <1>16 DEF TrainRound
<1>13. CASE BaselineSteps
  BY <1>4, <1>13 DEF BaselineSteps, ReleaseSource, Recover, JudgeTrained, Untouched
<1>. QED
  BY <1>3, <1>5, <1>6, <1>7, <1>8, <1>9, <1>10, <1>11, <1>12, <1>13, <1>14, <1>15, <1>16 DEF Next

LEMMA RecordsHold ==
  Spec => [](BaseInv /\ AgeInv /\ TypeInv /\ MemoryInv /\ RecordedInv)
<1>1. Init => TypeInv /\ MemoryInv /\ RecordedInv
  BY NothingIsUpdates
  DEF Init, TypeInv, MemoryInv, KeptInv, RecordedInv, NoRecord, NoTraining, AdmissionStates, MemoryType, RecordType,
      Outcomes, Malice, Completed
<1>2. BaseInv /\ BaseInv' /\ TypeInv /\ MemoryInv /\ RecordedInv /\ [Next]_vars
        => (TypeInv /\ MemoryInv /\ RecordedInv)'
  <2>1. CASE Next
    BY <2>1, TypeStep, MemoryStep, RecordedStep
  <2>2. CASE UNCHANGED vars
    BY <2>2
    DEF vars, TypeInv, MemoryInv, KeptInv, RecordedInv, Completed, Clean, Scanned, Selected, Strategy,
        KeepsDeltas, Synthesisable, Selectable, Enough, AncestryKept, Reproduced, Admitted, SourceOf, Designated,
        AncestryIsTrue, FullReference, TrueAncestry, Compromised
  <2>. QED BY <2>1, <2>2
<1>. QED BY <1>1, <1>2, AgesHold, PTL DEF Spec

\* Attributes, records and what a scan keeps stay of their types through any
\* sequence of cells.
THEOREM TypesHold ==
  Spec => []TypeOK
<1>1. BaseInv /\ AgeInv /\ TypeInv => TypeOK
  BY DEF BaseInv, AgeInv, TypeInv, TypeOK, MemoryType, RecordType, Fields
<1>. QED BY <1>1, RecordsHold, PTL

\* The report that a cell is recorded with was given on its own production.
THEOREM ReportsAreOwn ==
  Spec => []ReportIsOfProduction
<1>1. MemoryInv => ReportIsOfProduction
  BY DEF MemoryInv, ReportIsOfProduction, Completed
<1>. QED BY <1>1, RecordsHold, PTL

\* The malicious admission recorded of a cell is what happened, for any
\* number of domains and rows and in every order of cells.
THEOREM AncestryHolds ==
  Spec => []AncestryIsTrue
<1>1. RecordedInv => AncestryIsTrue
  BY DEF RecordedInv, AncestryIsTrue, Completed
<1>. QED BY <1>1, RecordsHold, PTL

=============================================================================
