--------------------------- MODULE AdmissionCell ---------------------------
(***************************************************************************)
(* One scientific cell of the admission protocol, from the opening screen  *)
(* to the final gate: ProtocolCellExecutor._advance_protocol with          *)
(* _run_opening_stage, reproduction_progression, single_verifier_          *)
(* progression and final_gate_decision.  Training, metrics and hashes are  *)
(* abstracted to their outcomes; what is kept is which domains train, in   *)
(* which order, who certifies their rows and which rows make the update.   *)
(*                                                                         *)
(* Where the external verification of a plural cell would start, with the  *)
(* scan ending in VERIFICATION_PENDING, the model has no further action:   *)
(* ScanSettles shows that no cell gets there.                              *)
(***************************************************************************)
EXTENDS Naturals, Sequences, FiniteSets, SequencesExt

CONSTANTS
  Domains,
  Order,                 \* reproducer_order_for_cell
  NoDomain,              \* no domain has a target stream to propose from
  CommitteeSize,         \* protocol.synthesis.committee_size
  MedianRows,            \* baselines.three_row_coordinate_median.row_count
  MaxByzantineRows,      \* maximum_byzantine_reproduction_rows
  MaxCompromised,        \* most reproducers any condition compromises
  ScreenDomains,         \* protocol.admission_opening
  RequiredScreens,
  CandidateFreeScreens

ASSUME ParametersAssumption ==
  /\ NoDomain \notin Domains
  /\ IsFiniteSet(Domains)
  /\ Order \in [1..Cardinality(Domains) -> Domains]
  /\ \A i, j \in DOMAIN Order : Order[i] = Order[j] => i = j
  /\ CommitteeSize \in Nat /\ MedianRows \in Nat \ {0}
  /\ MaxByzantineRows \in Nat /\ MaxCompromised \in Nat
  /\ CommitteeSize >= 2 * MaxByzantineRows + 3
  /\ {ScreenDomains, RequiredScreens, CandidateFreeScreens} \subseteq Nat \ {0}

\* The paths that methods, ablations and resolved cores select.  FullPath
\* stands for every method with panels, Krum and the gate (the resolved core
\* with plurality and verification, the copied-source and screen ablations),
\* OneRetrain for every method with one fresh verifier, DirectKrum for those
\* that synthesise unverified rows, FullReference for the full references,
\* whose production update is their first row.
Methods ==
  {"FullPath", "FullReference", "NoOriginExclusion", "RandomCommittee",
   "OneRetrain", "DirectKrum", "NoFinalGate", "ThreeRowMedian", "Unverified",
   "CoreBare"}

ExternalVerification ==
  {"FullPath", "FullReference", "NoOriginExclusion", "RandomCommittee", "OneRetrain"}

PluralitySynthesis ==
  {"FullPath", "NoOriginExclusion", "RandomCommittee", "DirectKrum", "NoFinalGate"}

Single(m) == m = "OneRetrain"

\* Mutant: every path but the full one makes do with the rows of the median.
MUTRowRequirement(m) == IF m = "FullPath" THEN CommitteeSize ELSE MedianRows

\* row_requirement
RowRequirement(m) ==
  CASE m \in {"CoreBare", "OneRetrain"} -> 1
    [] m = "ThreeRowMedian" -> MedianRows
    [] OTHER -> CommitteeSize

Openings == {"ProposalAssisted", "CandidateFree"}

States ==
  {"CANDIDATE_SCREEN", "ADMISSION_OPEN", "REPRODUCTION_PENDING",
   "VERIFICATION_PENDING", "SYNTHESIS_PENDING", "ADMITTED", "REJECTED", "DORMANT"}

VARIABLES
  cell,          \* the cell and what the data make of it
  phase,         \* where _advance_protocol is
  state,         \* AdmissionState
  rows,          \* domains that trained an update, in order of training
  iteration,     \* rounds of the reproduction scan
  consumed,      \* reproducers the single-verifier path has tried
  votes,         \* reports of single fresh verifiers
  contributors   \* rows the production update was made of

vars == <<cell, phase, state, rows, iteration, consumed, votes, contributors>>

Rows == Range(rows)
External == cell.method \in ExternalVerification

\* select_compromised_reproducers takes the head of the reproducer order.
Compromised == {Order[k] : k \in 1..cell.compromised}

\* A row counts as certified unless its reproducer is designated compromised;
\* the source row of the origin ablation and a positively verified single row
\* always count.
IsCertified(d) ==
  ~External \/ Single(cell.method) \/ d \notin Compromised \/ d = cell.source
CertifiedCount(done) == Cardinality({d \in done : IsCertified(d)})
Reached(done) == CertifiedCount(done) >= RowRequirement(cell.method)

Cells ==
  [method : Methods, source : Domains \union {NoDomain}, adequate : SUBSET Domains,
   compromised : 0..MaxCompromised, copying : BOOLEAN, sourceUpdate : BOOLEAN]

\* Mutant: the source is not taken out of the adequate domains.
MUTSourceAdequate(c) == c.source = NoDomain => c.adequate = {}

\* A domain with reproduction evidence has a target stream, so it could have
\* been selected as source; the source itself never reproduces.  What a compromised
\* reproducer submits changes nothing for the single verifier's path.
Realistic(c) ==
  /\ c.source \notin c.adequate
  /\ c.source = NoDomain => c.adequate = {} /\ ~c.sourceUpdate
  /\ c.copying => c.compromised > 0
  /\ Single(c.method) => c.compromised = 0 /\ ~c.sourceUpdate

Init ==
  /\ cell \in {c \in Cells : Realistic(c)}
  /\ phase \in {"screen", "evidence"}
  /\ state = "CANDIDATE_SCREEN"
  /\ rows = <<>>
  /\ iteration = 0
  /\ consumed = {}
  /\ votes = {}
  /\ contributors = {}

Settle(s) == phase' = "done" /\ state' = s

-----------------------------------------------------------------------------
(* Opening and preconditions                                               *)

\* candidate_screen_transition over the adequate and the positive domains of
\* the screen; without a source there is nothing to screen.
Screen(opening, adequate, positive) ==
  LET needed == IF opening = "ProposalAssisted"
                THEN RequiredScreens ELSE CandidateFreeScreens
  IN
  /\ phase = "screen"
  /\ IF cell.source = NoDomain \/ adequate < RequiredScreens THEN Settle("DORMANT")
     ELSE IF positive >= needed
          THEN phase' = "evidence" /\ state' = "ADMISSION_OPEN"
          ELSE Settle("REJECTED")
  /\ UNCHANGED <<cell, rows, iteration, consumed, votes, contributors>>

\* Too little reproduction evidence, no anchor or no resolved core.
LackEvidence ==
  /\ phase = "evidence"
  /\ Settle("DORMANT")
  /\ UNCHANGED <<cell, rows, iteration, consumed, votes, contributors>>

\* The origin ablation puts the source's own update first.
StartScan ==
  LET first == IF cell.method = "NoOriginExclusion" /\ cell.sourceUpdate
               THEN <<cell.source>> ELSE <<>>
  IN
  /\ phase = "evidence"
  /\ ~Single(cell.method)
  /\ rows' = first
  /\ phase' = "scan"
  /\ state' = IF first # <<>> THEN "VERIFICATION_PENDING" ELSE "REPRODUCTION_PENDING"
  /\ UNCHANGED <<cell, iteration, consumed, votes, contributors>>

StartSingle ==
  /\ phase = "evidence"
  /\ Single(cell.method)
  /\ phase' = "single"
  /\ UNCHANGED <<cell, state, rows, iteration, consumed, votes, contributors>>

-----------------------------------------------------------------------------
(* reproduction_progression                                                *)

\* next_reproducer_domain
IsNext(d, used) ==
  /\ d \in cell.adequate \ used
  /\ \A e \in cell.adequate \ used :
       \E i, j \in DOMAIN Order : Order[i] = d /\ Order[j] = e /\ i <= j

\* A compromised source-copy reproducer without a source update to copy.
CannotTrain(d) == d \in Compromised /\ cell.copying /\ ~cell.sourceUpdate

Scanning == phase = "scan" /\ iteration < Len(Order)

\* Mutant: a cell without external verification goes on after its last row.
MUTReproduceOn(d) ==
  /\ Scanning
  /\ IsNext(d, Rows)
  /\ ~CannotTrain(d)
  /\ rows' = Append(rows, d)
  /\ iteration' = iteration + 1
  /\ state' = "VERIFICATION_PENDING"
  /\ UNCHANGED <<cell, phase, consumed, votes, contributors>>

\* Mutant: any adequate domain that did not train yet.
MUTReproduceAny(d) ==
  /\ Scanning
  /\ d \in cell.adequate \ Rows
  /\ rows' = Append(rows, d)
  /\ iteration' = iteration + 1
  /\ state' = "VERIFICATION_PENDING"
  /\ UNCHANGED <<cell, phase, consumed, votes, contributors>>

\* The next adequate domain trains once, commits and is consumed.
Reproduce(d) ==
  /\ Scanning
  /\ IsNext(d, Rows)
  /\ ~CannotTrain(d)
  /\ rows' = Append(rows, d)
  /\ iteration' = iteration + 1
  /\ IF External THEN state' = "VERIFICATION_PENDING" /\ UNCHANGED phase
     ELSE IF Reached(Rows \union {d})
          THEN state' = "SYNTHESIS_PENDING" /\ phase' = "synthesis"
          ELSE state' = "REPRODUCTION_PENDING" /\ UNCHANGED phase
  /\ UNCHANGED <<cell, consumed, votes, contributors>>

\* Mutant: a training without result does not spend the round.
MUTFailForEver(d) ==
  /\ Scanning
  /\ IsNext(d, Rows)
  /\ CannotTrain(d)
  /\ state' = IF state = "REPRODUCTION_PENDING" THEN "DORMANT" ELSE "REPRODUCTION_PENDING"
  /\ UNCHANGED <<cell, phase, rows, iteration, consumed, votes, contributors>>

\* Its training returns nothing: the round is spent, the domain is not.
FailToReproduce(d) ==
  /\ Scanning
  /\ IsNext(d, Rows)
  /\ CannotTrain(d)
  /\ iteration' = iteration + 1
  /\ state' = "REPRODUCTION_PENDING"
  /\ UNCHANGED <<cell, phase, rows, consumed, votes, contributors>>

\* Mutant: the scan stops without deciding what its rows amount to.
MUTStopScan ==
  /\ Scanning
  /\ cell.adequate \subseteq Rows
  /\ iteration' = Len(Order)
  /\ UNCHANGED <<cell, phase, state, rows, consumed, votes, contributors>>

\* handle_no_adequate_unconsumed_domain
ExhaustDomains ==
  /\ Scanning
  /\ cell.adequate \subseteq Rows
  /\ IF Reached(Rows) THEN phase' = "synthesis" /\ state' = "SYNTHESIS_PENDING"
     ELSE Settle("DORMANT")
  /\ UNCHANGED <<cell, rows, iteration, consumed, votes, contributors>>

\* The scan ends after as many rounds as there are domains, and the cell with
\* the state of its last round; only VERIFICATION_PENDING would go on.
EndScan ==
  /\ phase = "scan" /\ iteration = Len(Order)
  /\ phase' = IF state = "VERIFICATION_PENDING" THEN "panels" ELSE "done"
  /\ UNCHANGED <<cell, state, rows, iteration, consumed, votes, contributors>>

-----------------------------------------------------------------------------
(* single_verifier_progression                                             *)

\* Mutant: an abstention lets the row pass.
MUTAbstainPasses(d, verifier, vote) ==
  /\ phase = "single"
  /\ IsNext(d, consumed)
  /\ verifier \in Domains \ {d, cell.source}
  /\ consumed' = consumed \union {d}
  /\ votes' = votes \union {[row |-> d, verifier |-> verifier, vote |-> vote]}
  /\ IF vote # "NEGATIVE"
     THEN rows' = <<d>> /\ phase' = "synthesis" /\ state' = "SYNTHESIS_PENDING"
     ELSE UNCHANGED <<rows, phase, state>>
  /\ UNCHANGED <<cell, iteration, contributors>>

\* The next reproducer trains, and the first domain of the panel order, any
\* domain but the source and the reproducer, reports on its row.  Whatever is
\* not a positive report rejects the row.
TrySingle(d, verifier, vote) ==
  /\ phase = "single"
  /\ IsNext(d, consumed)
  /\ verifier \in Domains \ {d, cell.source}
  /\ consumed' = consumed \union {d}
  /\ votes' = votes \union {[row |-> d, verifier |-> verifier, vote |-> vote]}
  /\ IF vote = "POSITIVE"
     THEN rows' = <<d>> /\ phase' = "synthesis" /\ state' = "SYNTHESIS_PENDING"
     ELSE UNCHANGED <<rows, phase, state>>
  /\ UNCHANGED <<cell, iteration, contributors>>

ExhaustSingle ==
  /\ phase = "single"
  /\ cell.adequate \subseteq consumed
  /\ Settle("DORMANT")
  /\ UNCHANGED <<cell, rows, iteration, consumed, votes, contributors>>

-----------------------------------------------------------------------------
(* Synthesis and the final gate                                            *)

\* The random committee is too likely to be contaminated.
RejectCommittee ==
  /\ phase = "synthesis"
  /\ cell.method = "RandomCommittee"
  /\ Settle("DORMANT")
  /\ UNCHANGED <<cell, rows, iteration, consumed, votes, contributors>>

\* Rows a production update may be made of: the median of all, Krum's choice
\* among all, or the first.
Productions ==
  IF cell.method = "ThreeRowMedian" THEN {Rows}
  ELSE IF cell.method \in PluralitySynthesis THEN {{d} : d \in Rows}
  ELSE {{rows[1]}}

\* synthesis_pending_transition
GateState(gate) ==
  CASE cell.method = "NoFinalGate" \/ gate = "Passes" -> "ADMITTED"
    [] gate = "Fails" -> "REJECTED"
    [] OTHER -> "DORMANT"

Synthesise(production, gate) ==
  /\ phase = "synthesis"
  /\ production \in Productions
  /\ contributors' = production
  /\ Settle(GateState(gate))
  /\ UNCHANGED <<cell, rows, iteration, consumed, votes>>

Next ==
  \/ \E opening \in Openings, adequate \in 0..ScreenDomains :
       \E positive \in 0..adequate : Screen(opening, adequate, positive)
  \/ LackEvidence
  \/ StartScan
  \/ StartSingle
  \/ \E d \in Domains : Reproduce(d)
  \/ \E d \in Domains : FailToReproduce(d)
  \/ ExhaustDomains
  \/ EndScan
  \/ \E d, v \in Domains, vote \in {"POSITIVE", "NEGATIVE", "ABSTAIN"} :
       TrySingle(d, v, vote)
  \/ ExhaustSingle
  \/ RejectCommittee
  \/ \E production \in SUBSET Domains, gate \in {"Inadequate", "Fails", "Passes"} :
       Synthesise(production, gate)

Spec == Init /\ [][Next]_vars /\ WF_vars(Next)

-----------------------------------------------------------------------------
(* Properties                                                              *)

Vote ==
  [row : Domains, verifier : Domains, vote : {"POSITIVE", "NEGATIVE", "ABSTAIN"}]

\* Rows, reports and states stay within the cell's domains.
TypeOK ==
  /\ cell \in Cells
  /\ phase \in {"screen", "evidence", "scan", "panels", "single", "synthesis", "done"}
  /\ state \in States
  /\ rows \in Seq(Domains) /\ Len(rows) <= Cardinality(Domains)
  /\ iteration \in 0..Len(Order)
  /\ consumed \subseteq Domains
  /\ votes \subseteq Vote
  /\ contributors \subseteq Domains

\* The domain that proposed the capability neither reproduces it nor has a
\* row in the production update, except in the ablation that studies this.
SourceStaysOut ==
  cell.method # "NoOriginExclusion" => cell.source \notin Rows \union contributors

\* No scan ends waiting for verification: the panels of _advance_protocol are
\* convened for no cell, so a plural cell's rows are certified by designation.
ScanSettles == phase # "panels"

\* select_krum_update is never given a committee it refuses, which would
\* turn the cell INVALID after all its training.
KrumAdmissible ==
  phase = "synthesis" /\ cell.method \in PluralitySynthesis
    => Len(rows) >= 2 * MaxByzantineRows + 3

\* No metric of a later domain lets it in before an earlier adequate one.
InReproducerOrder ==
  \A i, j \in DOMAIN Order :
    /\ i < j
    /\ Order[i] \in cell.adequate
    /\ Order[j] \in Rows \ {cell.source}
    /\ ~Single(cell.method)
    => Order[i] \in Rows

\* A cell without external verification trains no more reproducers than the
\* production update needs.
StopsAtRequirement == ~External => Len(rows) <= RowRequirement(cell.method)

\* The final gate only judges an update made of a full set of certified rows,
\* and a single-verifier cell is only admitted on a positive report of a domain
\* that is neither the row's reproducer nor the source.
AdmissionIsBacked ==
  /\ contributors # {} => Reached(Rows)
  /\ Single(cell.method) /\ state = "ADMITTED"
       => \A d \in contributors : \E v \in votes :
            v.row = d /\ v.vote = "POSITIVE" /\ v.verifier \notin {d, cell.source}

\* Every cell comes to an end, whatever the domains can train and report.
CellEnds == <>(phase = "done")

\* The documentation's certification rule: with external verification, a row
\* contributes to an admitted update only after a positive report about it.
AdmittedRowsWereVerified ==
  External /\ cell.method # "NoOriginExclusion" /\ state = "ADMITTED"
    => \A d \in contributors : \E v \in votes : v.row = d /\ v.vote = "POSITIVE"

=============================================================================
