---------------------------- MODULE CellRecords ----------------------------
(***************************************************************************)
(* One ProtocolCellExecutor executes the cells of an experiment one after  *)
(* the other.  Its handlers hand results to each other through attributes  *)
(* of the executor (_last_..., _pending_real_report) that outlive a cell;  *)
(* the metrics of a cell are read from them at its end.  A cell may stop   *)
(* with a ValueError between any two writes, and the next one begins with  *)
(* what is left.                                                           *)
(*                                                                         *)
(* Which rows a scan trains is AdmissionCell's matter: here a scan ends    *)
(* with any rows that its path allows, a first one among them and the one  *)
(* Krum selects.  Training, panels and the gate appear as outcomes.        *)
(***************************************************************************)
EXTENDS Naturals, FiniteSets

CONSTANTS
  Domains,
  NoDomain,         \* no domain has a target stream to propose from
  Sources,          \* domains that propose; those of a run's cells
  CommitteeSize,    \* protocol.synthesis.committee_size
  MedianRows,       \* baselines.three_row_coordinate_median.row_count
  KrumMinimum,      \* rows below which Krum is inadmissible
  MaxCompromised,   \* most reproducers any condition compromises
  ClusterMinimum,   \* baselines.density_cluster_trimmed_mean.dbscan_min_samples
  TrimMinimum,      \* .minimum_cluster_size_for_trimming
  TrimEach          \* .trim_each_tail_count

ASSUME ParametersAssumption ==
  /\ NoDomain \notin Domains /\ IsFiniteSet(Domains)
  /\ Sources \subseteq Domains \union {NoDomain}
  /\ {CommitteeSize, MedianRows, KrumMinimum, MaxCompromised} \subseteq Nat \ {0}
  /\ MedianRows < KrumMinimum /\ KrumMinimum <= CommitteeSize
  /\ {ClusterMinimum, TrimMinimum, TrimEach} \subseteq Nat \ {0}

(* Cells: the handler that executes one, the way it comes to a production,
   and who is compromised in its condition. *)

\* Mechanism-ablation variants whose cell is handed on under the method of
\* another experiment.
Relabelled == "relabelled"

ReproductionPaths == {"FirstRow", "Single", "Krum", "OriginKrum", "Median"}
ClientPaths == {"Averaging", "KrumClients", "Density", "Filter", "Assessed", "Ensemble"}
SourcePaths == {"ReviewSource", "CheckedSource", "Sanitise", "Recover", "LocalReview"}
UntouchedPaths == {"LocalOnly", "Centralized"}

Attacks == {"None", "SourceBackdoor", "SourceCopy", "VerifierAware",
            "ModelReplacement", "Client", "Nobody"}

CellsOf(handler, paths, attacks) ==
  [handler : {handler}, path : paths, attack : attacks,
   source : Sources, attackers : SUBSET Domains]

OpeningCells ==
  CellsOf("opening", {"FirstRow"}, {"None", "SourceBackdoor"})

PluralityCells ==
  CellsOf("plurality", {"Single", "Krum"}, {"None", "SourceCopy"})

ExclusionCells ==
  CellsOf("exclusion",
          {"FirstRow", "Single", "ReviewSource", "ReviewThenSingle", "Sanitise", "Recover"},
          {"None", "SourceBackdoor"})

ExternalCells ==
  CellsOf("external", {"FirstRow", "Krum"}, {"None", "SourceCopy", "VerifierAware"})

\* "Nobody" is a condition that attacks clients, with a method that has none.
BaselineCells ==
  CellsOf("baseline", {"FirstRow", "Single", "Krum", "ReviewThenSingle"},
          {"None", "SourceBackdoor", "SourceCopy"})
  \union CellsOf("baseline", {"Median"} \union (SourcePaths \ {"CheckedSource"}) \union UntouchedPaths,
                 {"None", "SourceBackdoor", "Nobody"})
  \union CellsOf("baseline", ClientPaths, {"None", "SourceBackdoor", "Client"})

MixedCells == CellsOf("mixed", {"FirstRow", "Krum"}, {"None"})
ReleasedCells == CellsOf("released", {"ReviewSource", "CheckedSource"}, {"SourceBackdoor"})
RelabelledCells == CellsOf(Relabelled, {"FirstRow", "Krum"}, {"None"})

\* Variants that advance, each under the one scenario of its own.
AdvancedAblations ==
  CellsOf("ablation", {"FirstRow"},
          {"None", "SourceBackdoor", "ModelReplacement", "VerifierAware"})
  \union CellsOf("ablation", {"Krum"}, {"None", "ModelReplacement", "VerifierAware"})
  \union CellsOf("ablation", {"Single"}, {"None"})
  \union CellsOf("ablation", {"Median"}, {"ModelReplacement"})
  \union CellsOf("ablation", {"OriginKrum"}, {"SourceBackdoor"})

\* The rows and contracts counted beside an ablation read no attribute.
AblationCells == MixedCells \union ReleasedCells \union RelabelledCells \union AdvancedAblations

\* The bound experiment executes reproducer and verifier cells of its own.
ReproducerCells ==
  CellsOf("reproducers", {"FirstRow", "Krum"}, {"None"})
  \union CellsOf("reproducers", {"Robust"}, {"SourceCopy", "VerifierAware", "ModelReplacement"})

VerifierCells ==
  CellsOf("verifiers", {"Krum"}, {"None", "ModelReplacement"})

DelayCells ==
  CellsOf("delay", {"Single", "Krum"}, {"None"})

\* A core or a baseline, timed: only its state comes into the record.
EfficiencyCells ==
  CellsOf("efficiency", {"Single", "Krum", "ReviewSource"}, {"None"})

\* boundaries and the secondary dataset: the advance and its report, no ancestry
BoundaryCells ==
  CellsOf("advanced", {"FirstRow", "Single", "Krum", "KrumClients"}, {"None"})

ValidationCells == CellsOf("validation", {"Check"}, {"None"})

AllCells ==
  OpeningCells \union PluralityCells \union ExclusionCells \union ExternalCells
    \union BaselineCells \union AblationCells \union ReproducerCells \union VerifierCells
    \union DelayCells \union EfficiencyCells \union BoundaryCells \union ValidationCells

ReproducerAttacks == {"SourceCopy", "VerifierAware", "ModelReplacement"}

\* select_compromised_reproducers may take any domain, the source too; the
\* client of an ordinary attack is never the source.
Cells ==
  {c \in AllCells :
     IF c.attack \in ReproducerAttacks
     THEN Cardinality(c.attackers) \in 1..MaxCompromised
     ELSE IF c.attack = "Client"
          THEN Cardinality(c.attackers) = 1 /\ c.source \notin c.attackers
          ELSE c.attackers = {}}

SourceOf(c) == {c.source} \ {NoDomain}

\* compromised_reproducers of _advance_protocol and the robustness handler
Selected(c) == IF c.attack \in ReproducerAttacks THEN c.attackers ELSE {}

\* _model_replacement_training_args
Designated(c) ==
  IF c.attack = "Client" THEN c.attackers
  ELSE IF c.attack = "SourceBackdoor" /\ c.path \in ClientPaths \ {"KrumClients"}
       THEN SourceOf(c) ELSE {}

Strategy(c) ==
  IF c.attack \in {"ModelReplacement", "VerifierAware"}
  THEN c.attack ELSE "None"

AdmissionStates == {"OPEN", "ADMITTED", "REJECTED", "DORMANT"}

Fields == {"report", "contributors", "designated", "compromised", "durations",
           "stage", "deltas", "rowIds", "strategy", "counts"}

ResetByCell == {"report", "contributors", "designated", "compromised"}
ResetByAdvance == Fields \ {"report", "stage"}
GivenAtInit == ResetByCell \union {"durations"}

NoUpdates == [rows |-> {}, first |-> NoDomain, krum |-> NoDomain]
NoDeltas == [rows |-> {}, krum |-> NoDomain]
NoTraining == [able |-> {}, accepted |-> {}]
NoRecord == [outcome |-> "None", state |-> "OPEN", malicious |-> "NotRecorded",
             production |-> {}, report |-> {}]

VARIABLES
  cell,
  phase,        \* where the handler of the cell is
  state,        \* AdmissionState
  updates,      \* rows of this cell's scan: a local variable of the code
  memory,       \* values of the executor's attributes that metrics read
  age,          \* when an attribute was last written
  training,     \* clients with rows, those recorded as accepted: local too
  production,   \* domains the production model of this cell really comes from
  inherited,    \* attributes read by this cell though an earlier one wrote them
  record        \* what has been recorded of the cell

vars == <<cell, phase, state, updates, memory, age, training, production, inherited,
          record>>

NoCell == [handler |-> "validation", path |-> "Check", attack |-> "None",
           source |-> NoDomain, attackers |-> {}]

Init ==
  /\ cell = NoCell
  /\ phase = "idle"
  /\ state = "OPEN"
  /\ updates = NoUpdates
  /\ memory = [report |-> {}, contributors |-> {}, designated |-> {},
               compromised |-> {}, deltas |-> NoDeltas, strategy |-> "None"]
  /\ age = [f \in Fields |-> IF f \in GivenAtInit THEN "Earlier" ELSE "Unset"]
  /\ training = NoTraining
  /\ production = {}
  /\ inherited = {}
  /\ record = NoRecord

Written(fs) == [f \in Fields |-> IF f \in fs THEN "This" ELSE age[f]]

Settle(s) == phase' = "judge" /\ state' = s

\* The ways in which execute_cell comes to an invalid cell: no prepared
\* evidence, an error of the computation, or a variant nothing dispatches.
Invalid ==
  /\ phase' = "over"
  /\ record' = [NoRecord EXCEPT !.outcome = "Invalid"]

-----------------------------------------------------------------------------
(* execute_cell                                                            *)

\* Mutant: the report of the cell before is not dropped.
MUTBeginMemory ==
  [memory EXCEPT !.contributors = {}, !.designated = {}, !.compromised = {}]

BeginMemory ==
  [memory EXCEPT !.report = {}, !.contributors = {}, !.designated = {}, !.compromised = {}]

BeginAge(c) ==
  [f \in Fields |->
     IF f \in ResetByCell \/ (f = "durations" /\ c.handler = "delay") THEN "This"
     ELSE IF age[f] = "Unset" THEN "Unset" ELSE "Earlier"]

\* Without prepared evidence the cell is invalid before its handler runs.
Begin(c, prepared) ==
  /\ phase = "idle"
  /\ cell' = c
  /\ memory' = BeginMemory
  /\ age' = BeginAge(c)
  /\ IF prepared THEN phase' = "route" /\ UNCHANGED record ELSE Invalid
  /\ UNCHANGED <<state, updates, training, production, inherited>>

Running == phase \in {"route", "start", "scan", "gate", "recover", "rounds", "judge"}

\* A ValueError of training, of an attack fixture, of a validator or of a
\* metric ends the cell and nothing else: the attributes stay as they are.
Fail ==
  /\ Running
  /\ Invalid
  /\ UNCHANGED <<cell, state, updates, memory, age, training, production, inherited>>

AdvanceMemory ==
  [memory EXCEPT !.contributors = {}, !.designated = {}, !.compromised = {},
                 !.deltas = NoDeltas, !.strategy = "None"]

\* AblationVariant(cell.method) of a method that is no ablation variant
RejectVariant ==
  /\ phase = "route" /\ cell.handler = Relabelled
  /\ Invalid
  /\ IF cell.path = "Krum"
     THEN memory' = AdvanceMemory /\ age' = Written(ResetByAdvance \union {"stage"})
     ELSE UNCHANGED <<memory, age>>
  /\ UNCHANGED <<cell, state, updates, training, production, inherited>>

Validate ==
  /\ phase = "route" /\ cell.handler = "validation"
  /\ Settle("ADMITTED")
  /\ UNCHANGED <<cell, updates, memory, age, training, production, inherited, record>>

-----------------------------------------------------------------------------
(* _advance_protocol                                                       *)

OpensFirst == cell.handler \in {"opening", "mixed"}

OpenStage(outcome) ==
  /\ phase = "route" /\ OpensFirst
  /\ outcome = "OPEN" => cell.source # NoDomain
  /\ IF outcome = "OPEN" THEN phase' = "start" /\ UNCHANGED state ELSE Settle(outcome)
  /\ age' = Written({"stage"})
  /\ UNCHANGED <<cell, updates, memory, training, production, inherited, record>>

AtStart ==
  \/ phase = "start"
  \/ /\ phase = "route"
     /\ cell.path \in ReproductionPaths
     /\ ~OpensFirst /\ cell.handler # Relabelled

\* Ablations and the resolved core screen the proposal inside the advance.
HasStage == cell.handler \in {"ablation", "baseline", "delay", "efficiency", "advanced"}

StartAdvance(outcome) ==
  /\ AtStart
  /\ outcome # "OPEN" => HasStage
  /\ IF outcome = "OPEN"
     THEN phase' = "scan" /\ memory' = [AdvanceMemory EXCEPT !.report = {}]
          /\ age' = Written(Fields) /\ UNCHANGED state
     ELSE Settle(outcome) /\ memory' = AdvanceMemory /\ age' = Written(Fields \ {"report"})
  /\ UNCHANGED <<cell, updates, training, production, inherited, record>>

\* no reproduction evidence, no anchor or no resolved core
AdvanceStop ==
  /\ phase = "scan"
  /\ Settle("DORMANT")
  /\ UNCHANGED <<cell, updates, memory, age, training, production, inherited, record>>

\* Rows of a scan that reaches its requirement.
Enough(rows) ==
  /\ cell.path \in {"Single", "ReviewThenSingle"} => Cardinality(rows) = 1
  /\ cell.path = "Median" => Cardinality(rows) = MedianRows
  /\ cell.path \notin {"Single", "ReviewThenSingle", "Median"} => Cardinality(rows) >= CommitteeSize

Trainable == IF cell.source = NoDomain THEN {} ELSE Domains \ {cell.source}

\* Updates a scan may end with; the origin ablation puts the source first.
Scans ==
  {u \in [rows : SUBSET (Trainable \union IF cell.path = "OriginKrum" THEN SourceOf(cell) ELSE {}),
          first : Domains \union {NoDomain}, krum : Domains \union {NoDomain}] :
     IF u.rows = {} THEN u = NoUpdates ELSE {u.first, u.krum} \subseteq u.rows}

\* The deltas the executor keeps say nothing of the order they came in.
DeltasOf(u) == [rows |-> u.rows, krum |-> u.krum]

KeepsDeltas == cell.path \notin {"Single", "ReviewThenSingle"}

Scan(u) ==
  /\ phase = "scan"
  /\ updates' = u
  /\ memory' = [memory EXCEPT
       !.compromised = Selected(cell), !.strategy = Strategy(cell),
       !.deltas = IF KeepsDeltas THEN DeltasOf(u) ELSE memory.deltas]
  /\ IF Enough(u.rows) THEN phase' = "gate" /\ UNCHANGED state ELSE Settle("DORMANT")
  /\ UNCHANGED <<cell, age, training, production, inherited, record>>

\* Mutant: the robustness handler leaves strategy and rows to the advance.
MUTRobustScan(u) ==
  /\ phase = "route" /\ cell.path = "Robust"
  /\ updates' = u
  /\ memory' = [memory EXCEPT !.compromised = Selected(cell), !.deltas = DeltasOf(u)]
  /\ age' = Written({"compromised", "deltas", "counts"})
  /\ IF Enough(u.rows) THEN phase' = "gate" /\ UNCHANGED state ELSE Settle("DORMANT")
  /\ UNCHANGED <<cell, training, production, inherited, record>>

\* _execute_reproducer_robustness_cell with compromised reproducers does not
\* advance: it scans by itself and keeps the report of the gate or none.
RobustScan(u) ==
  /\ phase = "route" /\ cell.path = "Robust"
  /\ updates' = u
  /\ memory' = [memory EXCEPT !.compromised = Selected(cell),
       !.strategy = Strategy(cell), !.deltas = DeltasOf(u), !.report = {}]
  /\ age' = Written({"compromised", "strategy", "deltas", "counts", "report"})
  /\ IF Enough(u.rows) THEN phase' = "gate" /\ UNCHANGED state ELSE Settle("DORMANT")
  /\ UNCHANGED <<cell, training, production, inherited, record>>

\* final_gate_decision: the update the production is made of.  The source may
\* replace a row in the copy that is synthesised, never in the rows kept.
Synthesised ==
  CASE cell.path \in {"Krum", "Robust"} -> {{updates.krum}}
    [] cell.path = "OriginKrum" -> {{d} : d \in updates.rows \union SourceOf(cell)}
    [] cell.path = "Median" -> {updates.rows}
    [] OTHER -> {{updates.first}}

GateOutcomes == {"ADMITTED", "REJECTED", "DORMANT"}

\* The gate judges a checkpoint made of p; its report may be undefined.
Judged(p, outcome) ==
  /\ Settle(outcome)
  /\ production' = p

Gate(p, outcome, reported) ==
  /\ phase = "gate"
  /\ p \in Synthesised
  /\ Judged(p, outcome)
  /\ memory' = [memory EXCEPT !.contributors = p,
                              !.report = IF reported THEN {p} ELSE {}]
  /\ UNCHANGED <<cell, updates, age, training, inherited, record>>

-----------------------------------------------------------------------------
(* Baselines that do not reproduce                                         *)

StopBaseline ==
  /\ \/ phase = "route" /\ cell.path \in ClientPaths \union SourcePaths \union UntouchedPaths
     \/ phase = "recover"
  /\ Settle("DORMANT")
  /\ UNCHANGED <<cell, updates, memory, age, training, production, inherited, record>>

Reviewed == {"ReviewSource", "ReviewThenSingle", "Recover"}

\* client_review_outcome.  The exclusion experiment notes the source as the
\* contributor of a direct admission whatever the review says.
Review(passes) ==
  LET released == passes \/ (cell.handler = "exclusion" /\ cell.path = "ReviewSource")
  IN
  /\ phase = "route" /\ cell.path \in Reviewed
  /\ passes => cell.source # NoDomain
  /\ memory' = [memory EXCEPT !.contributors = IF released THEN SourceOf(cell) ELSE @]
  /\ \/ ~passes /\ Settle(IF cell.path = "ReviewThenSingle" THEN "DORMANT" ELSE "REJECTED")
     \/ passes /\ cell.path = "ReviewSource" /\ Settle("ADMITTED")
     \/ passes /\ cell.path = "ReviewThenSingle" /\ phase' = "start" /\ UNCHANGED state
     \/ passes /\ cell.path = "Recover" /\ phase' = "recover" /\ UNCHANGED state
  /\ production' = IF passes /\ cell.path = "ReviewSource" THEN SourceOf(cell) ELSE {}
  /\ UNCHANGED <<cell, updates, age, training, inherited, record>>

\* Sanitisation and the release after the full external check share the shape:
\* a source-derived model that reviewers pass goes to the gate.
RejectSource ==
  /\ phase = "route" /\ cell.path \in {"Sanitise", "CheckedSource", "LocalReview"}
  /\ cell.source # NoDomain
  /\ Settle("REJECTED")
  /\ UNCHANGED <<cell, updates, memory, age, training, production, inherited, record>>

ReleaseSource(outcome, reported) ==
  /\ phase = "route" /\ cell.path \in {"Sanitise", "CheckedSource"}
  /\ cell.source # NoDomain
  /\ Judged(SourceOf(cell), outcome)
  /\ memory' = [memory EXCEPT !.contributors = SourceOf(cell),
                              !.report = IF reported THEN {SourceOf(cell)} ELSE {}]
  /\ UNCHANGED <<cell, updates, age, training, inherited, record>>

\* Reviewers with local references admit the source's model without a gate.
AdmitLocally ==
  /\ phase = "route" /\ cell.path = "LocalReview"
  /\ cell.source # NoDomain
  /\ Settle("ADMITTED")
  /\ production' = SourceOf(cell)
  /\ memory' = [memory EXCEPT !.contributors = SourceOf(cell)]
  /\ UNCHANGED <<cell, updates, age, training, inherited, record>>

\* Mutant: the rollback forgets to drop the source from the ancestry.
MUTRecover(rollback, outcome, reported) ==
  LET p == IF rollback THEN Domains \ {cell.source} ELSE SourceOf(cell) IN
  /\ phase = "recover"
  /\ Judged(p, outcome)
  /\ memory' = [memory EXCEPT !.report = IF reported THEN {p} ELSE {}]
  /\ UNCHANGED <<cell, updates, age, training, inherited, record>>

\* Admitted after review, then either kept or rolled back to the anchor and
\* trained again by the other domains.
Recover(rollback, outcome, reported) ==
  LET p == IF rollback THEN Domains \ {cell.source} ELSE SourceOf(cell) IN
  /\ phase = "recover"
  /\ Judged(p, outcome)
  /\ memory' = [memory EXCEPT !.contributors = IF rollback THEN {} ELSE SourceOf(cell),
                              !.report = IF reported THEN {p} ELSE {}]
  /\ UNCHANGED <<cell, updates, age, training, inherited, record>>

(* Baselines trained by their clients, round after round.  The rounds are not
   counted; one without a kept client leaves everything as it is.           *)

\* An attacker is chosen among the clients whose view can be poisoned; a source
\* takes part with the rows it proposes from, if it has any.  The groups of the
\* ensemble may leave a domain out.
ClientsWithRows ==
  {able \in SUBSET Domains :
     /\ cell.attack = "Client" /\ cell.path # "Ensemble" => cell.attackers \subseteq able
     /\ cell.path = "Assessed" => cell.source \in able
     /\ cell.path = "KrumClients" => cell.source \notin able}

GatherClients(able) ==
  /\ phase = "route" /\ cell.path \in ClientPaths
  /\ able \in ClientsWithRows
  /\ phase' = "rounds"
  /\ training' = [able |-> able, accepted |-> {}]
  /\ production' = {}
  /\ UNCHANGED <<cell, state, updates, memory, age, inherited, record>>

\* Every client of a federated average is part of it.
Averaged == {training.able}

\* Each group of the ensemble averages its own clients; all of them have a vote.
Ensembled == {training.able}

\* A group none of whose domains has rows to train an anchor on ends them all.
GroupWithoutAnchor == cell.path = "Ensemble"

\* Krum takes the update of one client of a sampled committee.
KrumSelected ==
  IF Cardinality(training.able) >= CommitteeSize THEN {{d} : d \in training.able} ELSE {}

\* The largest density cluster of the normalised updates; all may be noise.
Clusters == {c \in SUBSET training.able : Cardinality(c) >= ClusterMinimum}

\* A client of the largest cluster is out if each of its coordinates is trimmed.
Retained(cluster) ==
  IF Cardinality(cluster) < TrimMinimum THEN {cluster}
  ELSE {r \in SUBSET cluster : Cardinality(r) + 2 * TrimEach >= Cardinality(cluster)}

ClusterRetained == UNION {Retained(c) : c \in Clusters}

\* Clients whose update their own anchor validation rows reconstruct.
FilterAccepted == SUBSET training.able

Kept ==
  CASE cell.path = "KrumClients" -> KrumSelected
    [] cell.path = "Density" -> ClusterRetained
    [] cell.path = "Filter" -> FilterAccepted
    [] cell.path = "Ensemble" -> Ensembled
    [] OTHER -> Averaged

\* The next model starts from this one, so no client is ever forgotten.
TrainRound(kept) ==
  /\ phase = "rounds" /\ kept \in Kept \ {{}}
  /\ production' = production \union kept
  /\ training' = [training EXCEPT !.accepted = @ \union (kept \intersect Designated(cell))]
  /\ UNCHANGED <<cell, phase, state, updates, memory, age, inherited, record>>

\* _store_ordinary_attack_ancestry
TrainingMemory ==
  [memory EXCEPT !.contributors = training.accepted,
                 !.designated = IF Designated(cell) = {} THEN @ ELSE Designated(cell)]

\* Training ends without a model: nobody takes part, no round kept an update, a
\* sampled committee is incomplete in any round, or a group has no anchor.
TrainingFails ==
  /\ phase = "rounds"
  /\ \/ cell.path \in {"Averaging", "Assessed"} /\ training.able = {}
     \/ cell.path \in {"Density", "Filter"} /\ production = {}
     \/ cell.path = "KrumClients" /\ (KrumSelected = {} \/ Domains \ {cell.source} # training.able)
     \/ GroupWithoutAnchor
  /\ Judged({}, "DORMANT")
  /\ memory' = TrainingMemory
  /\ UNCHANGED <<cell, updates, age, training, inherited, record>>

\* The ensemble judges by itself and keeps no report; a group without a client
\* that can be trained votes with its anchor.
JudgeTrained(outcome, reported) ==
  /\ phase = "rounds"
  /\ production # {} \/ cell.path = "Ensemble"
  /\ Judged(production, outcome)
  /\ memory' = [TrainingMemory EXCEPT
       !.report = IF cell.path = "Ensemble" THEN @ ELSE IF reported THEN {production} ELSE {}]
  /\ UNCHANGED <<cell, updates, age, training, inherited, record>>

\* secure continual assessment: the review of the source comes first
RejectAssessment ==
  /\ phase = "route" /\ cell.path = "Assessed"
  /\ Settle("REJECTED")
  /\ UNCHANGED <<cell, updates, memory, age, training, production, inherited, record>>

\* The local and the centralised reference never say who contributed.
Untouched(outcome, reported) ==
  /\ phase = "route" /\ cell.path \in UntouchedPaths
  /\ Judged(Domains, outcome)
  /\ memory' = [memory EXCEPT
       !.report = IF cell.path = "LocalOnly" THEN @ ELSE IF reported THEN {Domains} ELSE {}]
  /\ UNCHANGED <<cell, updates, age, training, inherited, record>>

-----------------------------------------------------------------------------
(* Metrics                                                                 *)

Admitted == state = "ADMITTED"

\* malicious_admission_from_ancestry
Ancestry(fixture, compromised) ==
  IF ~fixture THEN "NA"
  ELSE IF Admitted /\ memory.contributors \intersect compromised # {} THEN "One" ELSE "Zero"

\* _ablation_production_is_compromised
ProductionIsCompromised ==
  /\ memory.compromised # {}
  /\ IF memory.deltas.rows = {} THEN memory.strategy # "ModelReplacement"
     ELSE IF Cardinality(memory.deltas.rows) >= KrumMinimum
          THEN memory.deltas.krum \in memory.compromised
          ELSE memory.compromised \intersect memory.deltas.rows # {}

Recomputed == IF Admitted /\ ProductionIsCompromised THEN "One" ELSE "Zero"

ScenarioIds ==
  memory.compromised \union memory.designated
    \union (IF cell.attack = "SourceBackdoor" THEN SourceOf(cell) ELSE {})

Malicious ==
  CASE cell.handler \in {"opening", "mixed"} ->
         Ancestry(cell.attack = "SourceBackdoor", SourceOf(cell))
    [] cell.handler \in {"plurality", "external"} ->
         Ancestry(cell.attack # "None", memory.compromised)
    [] cell.handler = "exclusion" ->
         Ancestry(cell.attack = "SourceBackdoor", SourceOf(cell) \union memory.compromised)
    [] cell.handler \in {"baseline", "delay"} -> Ancestry(cell.attack # "None", ScenarioIds)
    [] cell.handler = "released" -> Ancestry(cell.source # NoDomain, SourceOf(cell))
    [] cell.handler = "ablation" ->
         IF cell.attack \notin {"ModelReplacement", "VerifierAware"} THEN "NotRecorded"
         ELSE IF memory.compromised = {} THEN "NA" ELSE Recomputed
    [] cell.handler \in {"reproducers", "verifiers"} ->
         IF cell.attack = "None" THEN "NA" ELSE Recomputed
    [] OTHER -> "NotRecorded"

\* Attributes the metrics of the cell are read from; the recomputation looks
\* at strategy and rows only for an admitted cell with compromised rows.
RecomputedFrom == IF Admitted THEN {"compromised", "strategy", "deltas"} ELSE {}

ReadFields ==
  CASE cell.handler \in {"opening", "mixed"} -> {"report", "durations", "contributors"}
    [] cell.handler \in {"plurality", "external"} -> {"report", "contributors", "compromised"}
    [] cell.handler = "exclusion" ->
         {"report", "contributors", "compromised"}
           \union IF cell.path \in {"FirstRow", "Single"} THEN {"rowIds"} ELSE {}
    [] cell.handler = "baseline" -> {"report", "contributors", "compromised", "designated"}
    [] cell.handler = "delay" ->
         {"report", "contributors", "compromised", "designated", "durations"}
    [] cell.handler = "released" -> {"report", "contributors"}
    [] cell.handler = "ablation" ->
         {"report", "compromised", "counts", "durations"} \union RecomputedFrom
    [] cell.handler = "reproducers" ->
         {"report"} \union IF cell.attack = "None" THEN {} ELSE RecomputedFrom
    [] cell.handler = "verifiers" ->
         {"report", "counts"} \union IF cell.attack = "None" THEN {} ELSE RecomputedFrom
    [] cell.handler = "advanced" -> {"report"}
    [] OTHER -> {}

\* A mixed proposal cell executes a legitimate and an irrelevant instance and
\* records the state and metrics of the first, the ancestry of the second.
FirstOfTwo == cell.handler = "mixed" /\ record.outcome = "None"

\* A timed cell is executed once and again before the execution that counts:
\* warmup_forward_passes times, here any number of times.
WarmUp ==
  /\ phase = "judge" /\ cell.handler = "efficiency"
  /\ phase' = "route" /\ state' = "OPEN"
  /\ updates' = NoUpdates /\ production' = {}
  /\ UNCHANGED <<cell, memory, age, training, inherited, record>>

\* A read of an attribute that nobody ever wrote raises AttributeError, which
\* execute_cell does not catch.
Record ==
  /\ phase = "judge"
  /\ inherited' = inherited \union {f \in ReadFields : age[f] = "Earlier"}
  /\ record' =
       IF record.outcome = "Pending"
       THEN [record EXCEPT !.outcome = "Completed", !.malicious = Malicious]
       ELSE [outcome |-> IF FirstOfTwo THEN "Pending" ELSE "Completed",
             state |-> state, malicious |-> Malicious, production |-> production,
             report |-> IF "report" \in ReadFields THEN memory.report ELSE {}]
  /\ IF FirstOfTwo
     THEN /\ phase' = "route"
          /\ updates' = NoUpdates /\ production' = {} /\ state' = "OPEN"
     ELSE /\ phase' = IF \E f \in ReadFields : age[f] = "Unset" THEN "crashed" ELSE "over"
          /\ UNCHANGED <<updates, production, state>>
  /\ UNCHANGED <<cell, memory, age, training>>

\* execute_cell returns the record: what it held in local variables is gone.
Return ==
  /\ phase = "over"
  /\ phase' = "idle"
  /\ cell' = NoCell /\ state' = "OPEN" /\ updates' = NoUpdates
  /\ training' = NoTraining /\ production' = {} /\ inherited' = {} /\ record' = NoRecord
  /\ UNCHANGED <<memory, age>>

BaselineSteps ==
  \E outcome \in GateOutcomes, b \in BOOLEAN :
    \/ ReleaseSource(outcome, b)
    \/ \E rollback \in BOOLEAN : Recover(rollback, outcome, b)
    \/ JudgeTrained(outcome, b)
    \/ Untouched(outcome, b)

Next ==
  \/ \E c \in Cells, prepared \in BOOLEAN : Begin(c, prepared)
  \/ Fail
  \/ RejectVariant
  \/ Validate
  \/ \E outcome \in {"OPEN", "REJECTED", "DORMANT"} : OpenStage(outcome) \/ StartAdvance(outcome)
  \/ AdvanceStop
  \/ \E u \in Scans : Scan(u) \/ RobustScan(u)
  \/ \E p \in Synthesised, outcome \in GateOutcomes, b \in BOOLEAN : Gate(p, outcome, b)
  \/ StopBaseline
  \/ \E b \in BOOLEAN : Review(b)
  \/ RejectSource
  \/ AdmitLocally
  \/ RejectAssessment
  \/ \E able \in ClientsWithRows : GatherClients(able)
  \/ \E kept \in Kept : TrainRound(kept)
  \/ TrainingFails
  \/ BaselineSteps
  \/ WarmUp
  \/ Record
  \/ Return

Spec == Init /\ [][Next]_vars

-----------------------------------------------------------------------------
(* Properties                                                              *)

Outcomes == {"None", "Pending", "Completed", "Invalid"}
Phases == {"idle", "over", "route", "start", "scan", "gate", "recover", "rounds", "judge",
           "crashed"}
Updates == [rows : SUBSET Domains, first : Domains \union {NoDomain},
            krum : Domains \union {NoDomain}]
Deltas == [rows : SUBSET Domains, krum : Domains \union {NoDomain}]

TypeOK ==
  /\ cell \in AllCells \union {NoCell}
  /\ phase \in Phases /\ state \in AdmissionStates
  /\ updates \in Updates
  /\ memory \in [report : SUBSET SUBSET Domains, contributors : SUBSET Domains,
                 designated : SUBSET Domains, compromised : SUBSET Domains,
                 deltas : Deltas, strategy : {"None", "ModelReplacement", "VerifierAware"}]
  /\ age \in [Fields -> {"Unset", "Earlier", "This"}]
  /\ training \in [able : SUBSET Domains, accepted : SUBSET Domains]
  /\ production \subseteq Domains /\ inherited \subseteq Fields
  /\ record.outcome \in Outcomes /\ record.production \subseteq Domains

\* Who is compromised in the condition of the cell: the source where its own
\* update carries the backdoor, the selected reproducers, the client.
Compromised ==
  Selected(cell) \union Designated(cell)
    \union (IF cell.attack = "SourceBackdoor" /\ cell.path \notin UntouchedPaths \union {"KrumClients"}
            THEN SourceOf(cell) ELSE {})

TrueAncestry ==
  IF record.state = "ADMITTED" /\ record.production \intersect Compromised # {}
  THEN "One" ELSE "Zero"

\* The full reference of the ablation, whose production is its first row.
FullReference == cell.handler = "ablation" /\ cell.path = "FirstRow"

Completed == record.outcome = "Completed"

\* The malicious admission recorded of a cell says whether the model it really
\* admitted depends on someone compromised, though each handler computes it
\* from attributes written by others; a missing value hides no such admission.
AncestryIsTrue ==
  Completed /\ ~FullReference =>
    /\ record.malicious \in {"Zero", "One"} => record.malicious = TrueAncestry
    /\ record.malicious = "NA" => TrueAncestry = "Zero"

\* A report recorded with a cell judges the production of that cell.
ReportIsOfProduction ==
  Completed => record.report \subseteq {record.production}

\* What is recorded of a cell does not depend on the cells the executor ran
\* before, completed, failed or rejected; only the overhead of a proposal cell
\* whose opening stage does not open is inherited.
RecordsAreTheCellsOwn ==
  Completed => inherited \subseteq (IF OpensFirst /\ record.state # "ADMITTED"
                                    THEN {"durations"} ELSE {})

\* No handler reads an attribute that its executor never wrote.
NothingUnset == phase # "crashed"

=============================================================================
