------------------------ MODULE EvidencePublication ------------------------
(***************************************************************************)
(* What the cells of an experiment run leave in the artifact store.  A     *)
(* cell publishes, one after the other, the checkpoints it trained, the    *)
(* scores, screens and calibrations it computed and its gate decision.     *)
(* publish_artifact derives an identity from the slot and the declared     *)
(* dependencies; the payload is not part of it.  A recomputation with a    *)
(* different payload is turned away and takes the slot's pointer with it.  *)
(*                                                                         *)
(* ArtifactStore takes one publication apart; here it is one step.  What   *)
(* training and evaluation compute is a term: of the inputs they use for a *)
(* model or a prediction, of "nature" for a verdict.  A report may look at *)
(* the gate decisions while an experiment runs.                            *)
(*                                                                         *)
(* EvidenceInit, EvidenceNext and EvidenceSpec are named so that the       *)
(* theorems can be about this module and ArtifactStore side by side.       *)
(***************************************************************************)
EXTENDS Naturals, Sequences, FiniteSets

CONSTANTS
  Plan,              \* Plan[e]: the cells of experiment e in plan order
  Configurations,    \* the parts of a scientific configuration, as digested
  FirstConfiguration,
  Natures,           \* verdicts the data may bear out
  ScreenOrder,       \* screen_domain_order: the domains that screen
  RequiredPositive,  \* admission_opening.required_positive_screen_domains
  FreeRequired,      \* .candidate_free_required_adequate_domains
  MaxRuns,           \* bound on experiment runs
  MaxDisturbances,   \* bound on failures, interruptions, reconfigurations and
                     \* runs with --overwrite
  NoCell

Experiments == DOMAIN Plan
Cells == UNION {{Plan[e][k] : k \in DOMAIN Plan[e]} : e \in Experiments}

\* The prepared data; optimizer, training and data loader; anchor_fedavg;
\* post_reference and its override; attacks_and_boundaries; baselines; protocol,
\* capability contract and thresholds.
Parts == {"data", "training", "fedavg", "reference", "attacks", "baselines", "rules"}

NotRecorded == [part \in Parts |-> ""]   \* no configuration

IsSequence(s) == s \in Seq({s[k] : k \in DOMAIN s})

\* Plans, the screens and the rows of a cell are sequences.
PlanIsOfSequences ==
  /\ IsSequence(ScreenOrder)
  /\ \A e \in Experiments : IsSequence(Plan[e])
  /\ \A c \in Cells : IsSequence(c.rows)

ASSUME PlanAssumption ==
  /\ PlanIsOfSequences
  /\ NoCell \notin Cells
  /\ FirstConfiguration \in Configurations
  /\ NotRecorded \notin Configurations
  /\ \A e \in Experiments : \A k \in DOMAIN Plan[e] : Plan[e][k].experiment = e
  /\ \A n \in Natures : n.judged \subseteq {"gate", "report"}
  /\ {RequiredPositive, FreeRequired, MaxRuns, MaxDisturbances} \subseteq Nat

VARIABLES
  configuration,   \* the scientific configuration of the processes
  nature,          \* never changes: what evaluation finds
  stored,          \* complete artifacts: payload by identity
  pointer,         \* current.json: identity by slot
  latest,          \* what was last offered to a slot: [identity, configuration]
  made,            \* configuration under which an artifact was stored (history)
  process,         \* the experiment run in progress
  anchored,        \* seeds in real_anchor_cache of that process
  recorded,        \* configuration under which a cell was last completed
  report,          \* the claim-state artifact of the report in progress
  changes          \* runs and disturbances so far

evidenceVars ==
  <<configuration, nature, stored, pointer, latest, made, process, anchored, recorded,
    report, changes>>
store == <<stored, pointer, latest, made>>

-----------------------------------------------------------------------------
(* Identities.  Every dependency is a tuple of strings.                    *)

SlotOf(i) == [family |-> i.family, experiment |-> i.experiment, instance |-> i.instance]

Shared == "project"   \* an artifact slot without an owning experiment

Identity(family, experiment, instance, dependencies) ==
  [family |-> family, experiment |-> experiment, instance |-> instance,
   dependencies |-> dependencies]

Product(identity, payload) == [identity |-> identity, payload |-> payload]

(* What is trained.  A digest of the configuration covers the parts that
   publish_checkpoint lists for the family.  The bytes depend on more: sources
   and reproductions are trained from the anchor and handed on as differences
   from it, baselines retrain with the post-reference settings and take the
   size of their committees from the protocol.                             *)

Covered(family, cfg) ==
  <<cfg.data, cfg.training>>
    \o CASE family = "anchor"   -> <<cfg.fedavg>>
         [] family = "baseline" -> <<cfg.fedavg, cfg.baselines, cfg.attacks>>
         [] OTHER               -> <<cfg.reference, cfg.attacks>>

LeftOut(family, cfg) ==
  CASE family = "anchor"   -> <<>>
    [] family = "baseline" -> <<cfg.reference, cfg.rules>>
    [] OTHER               -> <<cfg.fedavg>>

Material(family) == Covered(family, configuration) \o LeftOut(family, configuration)

AnchorModel(c) == <<"anchor", c.seed>> \o Material("anchor")

NoCandidate == <<"no candidate">>

HasCandidate(c) == c.opening = "Assisted" /\ nature.trainable

CandidateUpdate(c) == <<"candidate", c.seed, c.source, c.episode>> \o Material("source")

CandidateModel(c) == IF HasCandidate(c) THEN CandidateUpdate(c) ELSE NoCandidate

\* _train_reproduction_update: a copying reproducer hands on the source's update
RowUpdate(c, d) ==
  IF d \in c.copiers
  THEN CandidateUpdate([c EXCEPT !.episode = IF HasCandidate(c) THEN @ ELSE "copy"])
  ELSE <<"row", c.seed, d, c.shift>> \o Material("reproduction")

BaselineUpdate(c) == <<"baseline", c.seed, c.method, c.condition>> \o Material("baseline")

\* Krum hands on the update of one row; a single reproduction that of the first.
ProductionModel(c) ==
  IF c.path = "Baseline" THEN BaselineUpdate(c)
  ELSE RowUpdate(c, IF c.plural /\ nature.krumTakesLast
                    THEN c.rows[Len(c.rows)] ELSE c.rows[1])

-----------------------------------------------------------------------------
(* Checkpoints                                                             *)

\* Mutant: the stage of a checkpoint does not tell the conditions of a method.
MUTStageWithoutCondition(c) == <<c.seed, c.method>>

\* f"baseline-{cell.method}-{cell.condition}" of a seed
BaselineStage(c) == <<c.seed, c.method, c.condition>>

Checkpoint(family, instance, update) ==
  Product(Identity(family, Shared, instance, <<Covered(family, configuration)>>),
          [update |-> update])

\* publish_anchor_checkpoints: the final model, then the round starts.
AnchorEvidence(c) ==
  <<Checkpoint("anchor", <<c.seed, "final">>, AnchorModel(c)),
    Checkpoint("anchor", <<c.seed, "round-start-00">>, AnchorModel(c) \o <<"round 0">>)>>

\* The candidates of the hard-example and irrelevant episodes are not published.
PublishedEpisodes == {"legitimate", "backdoored"}

SourceEvidence(c) ==
  IF HasCandidate(c) /\ c.episode \in PublishedEpisodes
  THEN <<Checkpoint("source", <<c.seed, c.episode, c.source>>, CandidateUpdate(c))>>
  ELSE <<>>

RowEvidence(c) ==
  [k \in DOMAIN c.rows |->
     Checkpoint("reproduction", <<c.seed, c.rows[k], c.condition>>, RowUpdate(c, c.rows[k]))]

-----------------------------------------------------------------------------
(* Scores: the view of an evaluation lists the samples, not what a shift   *)
(* made of them.                                                           *)

Score(model, domain, role, shift) ==
  Product(Identity("score", Shared, model \o <<domain, role>>, <<model, <<domain, role>> >>),
          [predictions |-> <<shift>>])

\* evaluate_domain has no score for rows that are too few.
RoleScores(c, role, shift) ==
  IF role \in nature.judged
  THEN <<Score(AnchorModel(c), c.judge, role, shift),
         Score(ProductionModel(c), c.judge, role, shift)>>
  ELSE <<>>

\* real_final_gate_metrics, then compute_real_report_summary
GateScores(c) == RoleScores(c, "gate", c.shift) \o RoleScores(c, "report", "none")

-----------------------------------------------------------------------------
(* The opening screen                                                      *)

Adequate(d) == d \in nature.adequate

\* The predicate a domain reports on the candidate, or on the anchor alone.
MeetsPredicate(c, d) ==
  CASE c.opening = "Free" -> d \in nature.weakAnchor
    [] c.opening = "Assisted" /\ ~nature.trainable -> FALSE
    [] c.opening = "Assisted" /\ nature.trainable ->
         /\ d \in nature.improved
         /\ c.variant = "Matched" => d \in nature.matched
         /\ c.variant = "Unmatched" => d \in nature.unmatched

ScreenScores(c, d) ==
  IF ~Adequate(d) \/ (c.opening = "Assisted" /\ ~HasCandidate(c)) THEN <<>>
  ELSE <<Score(AnchorModel(c), d, "screen", "none")>>
       \o (IF HasCandidate(c) THEN <<Score(CandidateModel(c), d, "screen", "none")>> ELSE <<>>)

\* evaluate_screen_domain records its result on every branch.
ScreenResult(c, d) ==
  Product(Identity("screen", Shared, <<d>> \o AnchorModel(c) \o CandidateModel(c),
                   <<AnchorModel(c), CandidateModel(c), <<configuration.data>>,
                     <<configuration.rules, c.seed>> >>),
          [mode |-> c.opening, variant |-> c.variant, adequate |-> Adequate(d),
           meets |-> Adequate(d) /\ MeetsPredicate(c, d)])

ScreenEvidence(c) ==
  IF c.opening = "None" THEN <<>>
  ELSE LET upTo[k \in 0..Len(ScreenOrder)] ==
             IF k = 0 THEN <<>>
             ELSE upTo[k - 1] \o ScreenScores(c, ScreenOrder[k])
                              \o <<ScreenResult(c, ScreenOrder[k])>>
       IN  upTo[Len(ScreenOrder)]

Screens == {ScreenOrder[k] : k \in DOMAIN ScreenOrder}

\* candidate_screen_transition = ADMISSION_OPEN
Opens(c) ==
  LET adequate == {d \in Screens : Adequate(d)}
      positive == {d \in adequate : MeetsPredicate(c, d)}
  IN  /\ Cardinality(adequate) >= RequiredPositive
      /\ Cardinality(positive) >= IF c.opening = "Assisted" THEN RequiredPositive
                                  ELSE FreeRequired

-----------------------------------------------------------------------------
(* Protocol evidence: slots of the owning experiment                       *)

\* record_baseline_calibration
CalibrationEvidence(c) ==
  IF c.calibrated
  THEN <<Product(Identity("calibration", c.experiment, <<c.method>>,
                          << <<configuration.data, configuration.baselines>> >>),
                 [seed |-> c.seed, population |-> AnchorModel(c)])>>
  ELSE <<>>

\* Without an adequate domain the gate waits for one.
Admits(c) == ~c.gated \/ ("gate" \in nature.judged /\ nature.gatePasses)

\* record_production_evidence: a Krum synthesis, then the decision of the gate
DecisionEvidence(c) ==
  (IF c.plural
   THEN <<Product(Identity("synthesis", c.experiment, ProductionModel(c),
                           <<ProductionModel(c), <<configuration.rules>> >>),
                  [seed |-> c.seed, committee |-> Len(c.rows)])>>
   ELSE <<>>)
  \o <<Product(Identity("decision", c.experiment, ProductionModel(c),
                        <<ProductionModel(c), <<configuration.rules>> >>),
               [seed |-> c.seed, plural |-> c.plural, admitted |-> Admits(c)])>>

\* Mutant: the decision is recorded before the gate has looked at the model.
MUTDecisionFirst(c) ==
  CalibrationEvidence(c) \o <<Checkpoint("baseline", BaselineStage(c), BaselineUpdate(c))>>
    \o DecisionEvidence(c) \o GateScores(c)

\* _execute_baseline_cell down to _final_gate_outcome
BaselineEvidence(c) ==
  CalibrationEvidence(c) \o <<Checkpoint("baseline", BaselineStage(c), BaselineUpdate(c))>>
    \o GateScores(c) \o DecisionEvidence(c)

\* _run_opening_stage, then _advance_protocol if the admission is open
ProtocolEvidence(c) ==
  SourceEvidence(c) \o ScreenEvidence(c)
    \o IF c.opening # "None" /\ ~Opens(c) THEN <<>>
       ELSE RowEvidence(c) \o GateScores(c) \o DecisionEvidence(c)

Evidence(c) == IF c.path = "Baseline" THEN BaselineEvidence(c) ELSE ProtocolEvidence(c)

-----------------------------------------------------------------------------
(* publish_artifact, undisturbed                                           *)

Without(f, x) == [y \in DOMAIN f \ {x} |-> f[y]]

With(f, x, v) == [y \in DOMAIN f \union {x} |-> IF y = x THEN v ELSE f[y]]

\* Published, reused with the pointer rewritten, or turned away: then the
\* pointer goes if it names this identity (_retire_current_pointer).
Publish(p) ==
  LET i == p.identity
      s == SlotOf(i)
      conflict == i \in DOMAIN stored /\ stored[i] # p.payload
  IN  /\ latest' = With(latest, s, [identity |-> i, configuration |-> configuration])
      /\ stored' = IF i \in DOMAIN stored THEN stored ELSE With(stored, i, p.payload)
      /\ made' = IF i \in DOMAIN stored THEN made ELSE With(made, i, configuration)
      /\ pointer' = IF ~conflict THEN With(pointer, s, i)
                    ELSE IF s \in DOMAIN pointer /\ pointer[s] = i
                         THEN Without(pointer, s) ELSE pointer

-----------------------------------------------------------------------------
(* A run of an experiment                                                  *)

NoProcess ==
  [phase |-> "idle", experiment |-> Shared, position |-> 0, overwrite |-> FALSE,
   cell |-> NoCell, todo |-> <<>>]

NoReport == [phase |-> "idle", slots |-> {}, upstream |-> {}]

EvidenceInit ==
  /\ configuration = FirstConfiguration
  /\ nature \in Natures
  /\ stored = <<>> /\ pointer = <<>> /\ latest = <<>> /\ made = <<>>
  /\ process = NoProcess
  /\ anchored = {}
  /\ recorded = [c \in Cells |-> NotRecorded]
  /\ report = NoReport
  /\ changes = [runs |-> 0, disturbances |-> 0]

StartRun(e, overwrite) ==
  /\ process.phase = "idle"
  /\ process' = [NoProcess EXCEPT !.phase = "next", !.experiment = e,
                                  !.position = 1, !.overwrite = overwrite]
  /\ anchored' = {}
  /\ changes.runs < MaxRuns
  /\ overwrite => changes.disturbances < MaxDisturbances
  /\ changes' = [changes EXCEPT !.runs = @ + 1,
                                !.disturbances = IF overwrite THEN @ + 1 ELSE @]
  /\ UNCHANGED <<configuration, nature, store, recorded, report>>

Exhausted == process.position > Len(Plan[process.experiment])

NextCell == Plan[process.experiment][process.position]

\* A completed record of this configuration is reused.
Reusable(c) == recorded[c] = configuration /\ ~process.overwrite

SkipCell ==
  /\ process.phase = "next" /\ ~Exhausted
  /\ Reusable(NextCell)
  /\ process' = [process EXCEPT !.position = @ + 1]
  /\ UNCHANGED <<configuration, nature, store, anchored, recorded, report, changes>>

\* real_anchor of a seed trains and publishes the anchor once per process.
BeginCell ==
  /\ process.phase = "next" /\ ~Exhausted
  /\ ~Reusable(NextCell)
  /\ LET c == NextCell
         cached == c.seed \in anchored
     IN  process' = [process EXCEPT
           !.phase = IF cached THEN "cell" ELSE "anchor",
           !.cell = c,
           !.todo = IF cached THEN Evidence(c) ELSE AnchorEvidence(c)]
  /\ UNCHANGED <<configuration, nature, store, anchored, recorded, report, changes>>

PublishNext ==
  /\ process.phase \in {"anchor", "cell"} /\ process.todo # <<>>
  /\ Publish(Head(process.todo))
  /\ process' = [process EXCEPT !.todo = Tail(@)]
  /\ UNCHANGED <<configuration, nature, anchored, recorded, report, changes>>

\* Mutant: the anchor is cached before all its checkpoints are published.
MUTCacheEarly ==
  /\ process.phase = "anchor"
  /\ anchored' = anchored \union {process.cell.seed}
  /\ process' = [process EXCEPT !.phase = "cell", !.todo = @ \o Evidence(process.cell)]
  /\ UNCHANGED <<configuration, nature, store, recorded, report, changes>>

CacheAnchor ==
  /\ process.phase = "anchor" /\ process.todo = <<>>
  /\ anchored' = anchored \union {process.cell.seed}
  /\ process' = [process EXCEPT !.phase = "cell", !.todo = Evidence(process.cell)]
  /\ UNCHANGED <<configuration, nature, store, recorded, report, changes>>

LeaveCell ==
  process' = [process EXCEPT !.phase = "next", !.position = @ + 1,
                             !.cell = NoCell, !.todo = <<>>]

CompleteCell ==
  /\ process.phase = "cell" /\ process.todo = <<>>
  /\ LeaveCell
  /\ recorded' = [recorded EXCEPT ![process.cell] = configuration]
  /\ UNCHANGED <<configuration, nature, store, anchored, report, changes>>

Disturbed ==
  /\ changes.disturbances < MaxDisturbances
  /\ changes' = [changes EXCEPT !.disturbances = @ + 1]

\* A ValueError anywhere in a cell: an Invalid record, and the next cell.
FailCell ==
  /\ process.phase \in {"anchor", "cell"}
  /\ LeaveCell
  /\ recorded' = [recorded EXCEPT ![process.cell] = NotRecorded]
  /\ Disturbed
  /\ UNCHANGED <<configuration, nature, store, anchored, report>>

\* The process ends within a cell.
EndProcess ==
  /\ process.phase \in {"anchor", "cell"}
  /\ process' = NoProcess
  /\ Disturbed
  /\ UNCHANGED <<configuration, nature, store, anchored, recorded, report>>

FinishRun ==
  /\ process.phase = "next" /\ Exhausted
  /\ process' = NoProcess
  /\ UNCHANGED <<configuration, nature, store, anchored, recorded, report, changes>>

Reconfigure ==
  /\ process.phase = "idle"
  /\ Disturbed
  /\ configuration' \in Configurations \ {configuration}
  /\ UNCHANGED <<nature, store, process, anchored, recorded, report>>

-----------------------------------------------------------------------------
(* The claim-state artifact of a project report                            *)

\* load_published_manifests finds every manifest that was ever published, the
\* ones superseded since among them: of those, the slots of the decisions.
DecisionSlots == {s \in DOMAIN latest : s.family = "decision"}

\* _current_claim_upstream_manifests: a slot without a current artifact is
\* passed over; comparisons are current throughout.
CurrentUpstream(slots) == {pointer[s] : s \in slots \intersect DOMAIN pointer}

\* The report of the whole project: what is verified besides decides only
\* whether it is refused.
LoadCatalog ==
  /\ report.phase = "idle"
  /\ report' = [NoReport EXCEPT !.phase = "catalog", !.slots = DecisionSlots]
  /\ UNCHANGED <<configuration, nature, store, process, anchored, recorded, changes>>

\* A verification that failed, results, trajectories or telemetry that are
\* missing: the report ends before it publishes anything.
RefuseReport ==
  /\ report.phase = "catalog"
  /\ report' = NoReport
  /\ UNCHANGED <<configuration, nature, store, process, anchored, recorded, changes>>

\* publish_claim_state_artifact; without any current decision it is an error.
PublishClaims ==
  /\ report.phase = "catalog"
  /\ LET upstream == CurrentUpstream(report.slots) IN
     report' = IF upstream = {} THEN NoReport
               ELSE [report EXCEPT !.phase = "published", !.upstream = upstream]
  /\ UNCHANGED <<configuration, nature, store, process, anchored, recorded, changes>>

\* read_claim_state_artifact: the upstream it names must still be the current one.
VerifyClaims ==
  /\ report.phase = "published"
  /\ report' = IF CurrentUpstream(report.slots) = report.upstream
               THEN [report EXCEPT !.phase = "verified"] ELSE NoReport
  /\ UNCHANGED <<configuration, nature, store, process, anchored, recorded, changes>>

\* The summary is refused for a claim that is not tested or is written, from
\* what the report holds: no cell and no later report reads it.
CloseReport ==
  /\ report.phase = "verified"
  /\ report' = NoReport
  /\ UNCHANGED <<configuration, nature, store, process, anchored, recorded, changes>>

EvidenceNext ==
  \/ \E e \in Experiments, overwrite \in BOOLEAN : StartRun(e, overwrite)
  \/ SkipCell \/ BeginCell \/ PublishNext \/ CacheAnchor \/ CompleteCell
  \/ FailCell \/ EndProcess \/ FinishRun \/ Reconfigure
  \/ LoadCatalog \/ RefuseReport \/ PublishClaims \/ VerifyClaims \/ CloseReport

EvidenceSpec == EvidenceInit /\ [][EvidenceNext]_evidenceVars

-----------------------------------------------------------------------------
(* Properties                                                              *)

\* Families whose payload depends on the configuration and the slot alone
Determined == {"anchor", "source", "baseline"}

\* An anchor, source or baseline checkpoint that was published last into its
\* slot is the current artifact there, whatever cells, repeated runs,
\* interruptions and returns to an earlier configuration came in between;
\* unless what is stored under its identity was trained under other settings
\* of those the identity leaves out: another anchor for a source, other
\* post-reference settings or rules for a baseline, nothing for an anchor.
CheckpointsStayCurrent ==
  \A s \in DOMAIN latest :
    LET offer == latest[s]
    IN s.family \in Determined =>
         \/ s \in DOMAIN pointer /\ pointer[s] = offer.identity
         \/ LeftOut(s.family, made[offer.identity]) # LeftOut(s.family, offer.configuration)

IdentitiesIn(products) == {products[k].identity : k \in DOMAIN products}

\* A cell that counts as completed has left all its evidence in the store,
\* the checkpoints of its anchor included, although the anchor is published
\* by whichever cell of the process needed it first and that one may fail.
CompletedCellsLeaveEvidence ==
  \A c \in Cells : recorded[c] = configuration =>
    IdentitiesIn(AnchorEvidence(c) \o Evidence(c)) \subseteq DOMAIN stored

Scored(model, role) ==
  \E i \in DOMAIN stored :
    i.family = "score" /\ i.dependencies[1] = model /\ i.dependencies[2][2] = role

\* A report counts no gate decision, of a cell that still runs, failed or was
\* interrupted neither, whose model has not been scored, for the gate and for
\* the report, where the data let any domain judge.
CountedDecisionsAreScored ==
  \A i \in report.upstream : \A role \in nature.judged : Scored(i.instance, role)

=============================================================================
