# FedSIRA in TLA+

FedSIRA is a research program: a command line (`doctor`, `preprocess`, `plan`,
`smoke`, `run`, `status`, `report`) that executes registered experiments about
admitting a capability into a federated model, and publishes what they show.
This directory models the parts of it whose correctness depends on the order of
steps: how artifacts are published and read, how experiments are executed,
interrupted and resumed, how prepared data is written and reused, how one
scientific cell goes from a proposed capability to an admitted, rejected or
dormant claim, and what is recorded, compared and decided afterwards. Training
and metrics appear as the outcomes they lead to; the tests and the certificate
that decide from them are computed, in integers.

## 1. The system

| part | state it keeps | operations | what makes it correct |
|---|---|---|---|
| artifact store (`artifacts/store.py`, `paths.py`) | per slot: payload files, manifests, `current.json`, staging files | `publish_artifact`, `read_current_artifact`, listing of manifests | an identity is written once unless calls disagree on it; `current.json` names complete artifacts; readers get bytes the identity's procedure computed |
| experiment execution (`experiments/execution.py`, `engine.py`, `planning.py`) | one record file per planned cell; nothing else survives a run | `execute_experiment`, `execute_cell_with_retry`, lifecycle derivation, reuse | Completed means every planned cell completed under one provenance; work is resumed, not repeated |
| resolved core and comparison evidence (`experiments/collapse.py`, `application.py`, `evaluation/comparison_evidence.py`) | evidence and core artifacts in the store | `publish_comparison_evidence`, `_materialize_core_if_complete`, `read_resolved_core` | the core rests on whole runs of the collapse experiments; it unblocks the post-core experiments |
| admission cell (`experiments/handlers.py`, `reproduction_progression.py`, `protocol/*`) | in memory: state, rows, consumed domains, reports | opening screen, scan of reproducers, verification, synthesis, final gate | source exclusion, precommitted order, full committees, verified rows, every cell ends |
| verification panels, rules, capability contract, attacks | none | pure predicates, seeded selections | agreement with their definitions |
| cell records (`experiments/handlers.py`, `protocol/baselines/outcomes.py`) | attributes of one executor that outlive a cell: report, contributors, compromised domains, rows, durations | `execute_cell` and the handlers of the experiments | a record is of its own cell; the recorded malicious admission is what happened |
| collapse decisions (`evaluation/*`, `experiments/collapse.py`) | comparison evidence | pairs, sign-flip tests, Holm's adjustment, decision of a mechanism | adjusted tests are closed tests; a survival is measured; missing data is no advantage |
| leave-fault certificate (`protocol/leave_fault_certificate.py`, `admission_comparison.py`, `experiments/leave_fault_validation.py`) | none | certificate over coalitions of rows, other admission methods, controlled cases | soundness for every coalition within the bound; the source has no say |
| evidence scarcity, delay | a trajectory of logical cycles | cycle advance, completion | admission on evidence only; final states are kept |
| evidence publication (`experiments/checkpoints.py`, `protocol_evidence.py`, `evaluation/scores.py`, `screen_evidence.py`) | artifacts of the store, the anchors a process has cached | publishing checkpoints, scores, screens, calibrations, decisions; the claim-state artifact | completed cells have left their evidence; checkpoints stay current; a counted decision rests on stored predictions |
| baselines, learning | tensors | training, aggregation | numerical; the control of the baselines is part of the cell records |
| dataset preparation (`datasets/*`) | parquet files, sidecars, role split, view and scaler artifacts | materialise, reuse, publish, validate, overwrite | what is reused is what its inputs write; an identity names what its inputs produce; repeating changes nothing |
| reporting and export (`reporting/export.py`, `publication.py`) | metric evidence files, report products, current artifacts of evidence, source data and export | `_export_completed_experiment`, `export_experiment_report`, verification of what is on disk | reported numbers are those of the records; a report after kills is of one piece |
| other evaluation | none | bootstrap intervals, effect sizes, metric arithmetic | numerical |
| configuration, runtime, CLI | configuration, seeds, timers | load, bound, seed | - |

Interactions: a `run` process reads the resolved core, checks prerequisites in
the record store, executes cells (each of which publishes and reads shared
checkpoints in the artifact store), writes records, publishes comparison
evidence and, after a collapse experiment, the resolved core. Processes of one
stage may run at the same time and share nothing but files. The end of a run
writes the experiment's metric evidence; a `report` process reads records and
evidence and leaves tables, figures and published artifacts that name them.

What is hard: several processes over the same files without locks; death
between any two files; inputs (configuration, code revision, prepared data)
that change between or during runs; records that outlive the inputs they were
computed from; a protocol whose branches are taken per method and per round;
results handed from one handler to the next through attributes that any of
them may have left behind; decisions that depend on orders, on missing values
and on how many tests are adjusted together.

## 2. Modules

| module | what it is |
|---|---|
| `PublicationSlot` | abstract slot: commit an identity once, activate a committed identity, retire, lose a payload |
| `ArtifactStore` | one slot file by file: publishers, readers, crashes, damage |
| `MCArtifactStore` | outputs of the publishers for TLC |
| `ArtifactStoreProofs` | theorems about `ArtifactStore` and `EvidencePublication` |
| `ExperimentRuns` | `fedsira run`: processes, records, comparison evidence, resolved core |
| `MCExperimentRuns` | a plan of four experiments and five cells |
| `ExperimentRunsProofs` | theorems about `ExperimentRuns` |
| `ReportExport` | one experiment's records, metric evidence and report |
| `MCReportExport` | two cells with two values each, whose record files sort in either order |
| `ReportExportProofs` | theorems about `ReportExport` |
| `AdmissionCell` | one scientific cell of the admission protocol |
| `MCAdmissionCell` | five domains |
| `EvidenceScarcity` | what the evidence-scarcity cells record around it, cycle by cycle |
| `AdmissionCellProofs` | theorems about both |
| `CellRecords` | one executor and its cells, fifteen kinds of them, one after the other |
| `MCCellRecords` | four domains, one of them the source |
| `CellRecordsProofs` | theorems about `CellRecords` |
| `EvidencePublication` | what the cells of a run leave in the artifact store, and the report that counts their decisions |
| `MCEvidencePublication` | two experiments of two cells each, three configurations |
| `CollapseEvidence` | a collapse experiment from its cells to the decision |
| `ClaimDecisions` | what is claimed from the comparisons of an experiment |
| `MCCollapseEvidence` | five seeds, and what their cells may come to |
| `CollapseEvidenceProofs` | theorems about both |
| `LeaveFaultCertificate` | the certificate as a function of an admission input |
| `LeaveFaultValidation` | the admission methods beside it, the controlled worlds, the validation cell |
| `MCLeaveFaultValidation` | panels of three to five holders |
| `LeaveFaultProofs` | theorems about both |
| `DatasetPreparation` | `fedsira preprocess` of one dataset, write by write |
| `RoleSplit` | which rows of the raw files a view of `DatasetPreparation` holds |
| `MCDatasetPreparation` | one stream, three views, two versions of the raw files, two configurations, two scalings |
| `DatasetPreparationProofs` | theorems about both |

`ArtifactStore` implements `PublicationSlot` (`ImplementsSlot`). `ExperimentRuns`
uses the store's promise: one piece of evidence, or the core, is published or
read in one step. The promise has an exception, calls that overlap on one
identity with different payloads, which those modules do not take up: there one
process at a time publishes what belongs to an experiment.
`AdmissionCell` is what `ExperimentRuns` calls `ExecuteCell`, seen from inside.
`ReportExport` looks at one experiment more closely than `ExperimentRuns` does:
its records have values, and what follows a completed run is there file by file.
`CellRecords` takes a scan of `AdmissionCell` as one step and follows what is
recorded of it; `CollapseEvidence` starts from such records and ends where
`ExperimentRuns` decides the core. `EvidencePublication` joins a run, its cells
and the store: the cells are those of `CellRecords`, seen by what they publish.
`DatasetPreparation` uses the store's promise as `ExperimentRuns` does.

### ArtifactStore

`payloadFile`, `manifestFile` and `current` are the three kinds of file of a
slot directory. `publisher[p]` is a `publish_artifact` call in progress: the
manifest is read (`CheckManifest`), the payload compared (`CheckPayload`), the
manifest read once more (`CompareExisting`), and the call reuses (`Reuse`),
rejects and retires the pointer (`InspectPointer`, `UnlinkPointer`) or writes
payload, manifest and pointer (`ReplacePayload`, `WriteManifest`,
`WritePointer`). `reader[r]` is a `read_current_artifact` call: existence test,
pointer, manifest, manifest again, payload. Each file is replaced atomically
(`os.replace` of a uniquely named staging file), so each step is atomic and the
sequence is not. `Crash` ends a call between any two steps. `Corrupt` damages a
payload file. A checksum is the payload itself.

No lock keeps the calls of several processes apart, and the model has none.
`contended` is history: the identities for which a call began while another one,
in progress, had a different payload (`Disagrees`). The last writes of two such
calls may leave the manifest of one beside the payload of the other. The slot then
holds nothing readable (`PublicationSlot` calls it `Spoil`), until the next
publication of the identity replaces both. The properties therefore except exactly
these identities: overlapping calls with the same payload, calls with different
payloads one after the other, and everything at other identities are covered.
What a reader returns is covered without exception (`ReturnedWasProduced`).

Staging files are left out: their names are unique to a call and nothing looks
at one afterwards.

### ExperimentRuns

`records[c]` is the record file of cell `c`: absent, torn or a terminal state
with the provenance of the run that wrote it. `inputs` is the provenance a
process would compute now; `ChangeInputs` stands for a commit, a preprocessing
or an edited configuration. A run begins (`Block`, `MeetTornPrerequisite`,
`Begin`), takes its provenance (`Capture`), goes through its cells (`Reuse`,
`MeetTornRecord`, `ExecuteCell`, `WriteRecord`), derives the lifecycle and
publishes evidence (`FinishCells`), and ends with
`_materialize_core_if_complete`. That function goes through the collapse
experiments twice, and other processes take steps in between: the first loop
finds each one completed (`CheckCompleted`), the second one reads the current
records of each (`ReadRecords`), then its comparison evidence, and decides if
that is of the records just read (`EvidenceMatches`, `Decide`); with all
decisions made the core is published (`MaterialiseCore`). A torn record ends the
process (`MeetTornDecision`), anything else that is missing ends the attempt
(`PassCore`). Writing a record takes two steps because `write_text` opens the
file, which truncates it, before it writes. `core` has two places: the slot
directory that the core is published in and the family root it is read from.
`rerun` is history: the experiments that wrote records since a process began to
decide.

`MayRun` states the use the documentation describes: one process per
experiment at a time, experiments of one stage side by side. A refused command
changes nothing and is not a step. Both datasets are prepared throughout.
FAILED stands for INVALID as well: both end the reuse of a record and the
completeness of an experiment in the same way. A timeout is the only failure
the engine produces and it is not retriable, so `ExecuteCell` never repeats.
A run that is refused or raises keeps its step and forgets the rest (`Leave`).
The record files of one experiment are read in one step.

### AdmissionCell

`cell` is fixed at the start: the method, the source, the domains with enough
evidence to reproduce, how many reproducers are designated compromised, whether
these copy the source and whether a source update exists. Methods with the same
control flow are one (`FullPath` is every method with verification, Krum and
gate). `phase` is where `_advance_protocol` is; `state` is `AdmissionState`.
`Screen` is the opening stage, `Reproduce`, `FailToReproduce`,
`ExhaustDomains` and `EndScan` the rounds of `reproduction_progression`,
`TrySingle` and `ExhaustSingle` those of `single_verifier_progression`,
`Synthesise` the production update and the gate. Training, review and gate
outcomes are nondeterministic. The panel block is not modelled, because no
scan ends in the state that starts it: that is what `ScanSettles` checks, with
the phase `panels` as the place where it would start. The expiry transition
never applies to a single cell (logical cycle 0).

### EvidenceScarcity

A schedule says how many domains hold evidence at each logical cycle. One
handler decides whether the protocol is run at all (`Completion`), and the
trajectory that is recorded follows from the state it came to (`Trajectory`,
`Expire`). There is no state between cycles in the code, so there is none here:
the operators are functions of a schedule and of the state that `AdmissionCell`
ends in, and the property looks at every state of that run. `Writable` and
`Readable` are the refusals of the report that counts trajectories, with the
lineage of the counts left out; `DormancyIsVerified` is its verification.

### ReportExport

`records[c]` is the record of a cell: what it measured, under which inputs. The
run goes through its cells (`BeginRun`, `ReuseCell`, `ExecuteCell`,
`FinishCells`), writes the metric evidence files one after the other
(`OpenEvidenceFile` truncates, `WriteEvidenceFile` fills) and registers them
(`PublishEvidence`); `files` are the files, `evidence` is the current artifact
with the execution digest and the content that is registered. The report loads
the records and compares the evidence with them (`Load`, `RefuseValues`), looks
at the evidence a second time and keeps its identity (`Check`), writes table
and figure in place (`OpenProduct`, `WriteProduct`), publishes the source data
with the digests of what is on disk now (`PublishSource`, `RefuseSource`),
writes summary and manifest, publishes the export (`PublishExport`) and
verifies what it left (`Verify`). `products`, `source` and `export` are what it
leaves on disk. `CrashRun` and `CrashReport` end a process anywhere;
`ChangeInputs` is that of `ExperimentRuns`.

`ExecutionDigest` is the order of the outcomes: the code hashes the semantic
keys in that order and nothing else of a completed experiment. A run has the
planned order (`PlanOrder`). A report has the order of the record file names,
which are SHA-256 digests of the keys and sort anyhow: `fileOrder` is one of
`FileOrders`, chosen at the start.
An artifact's identity is its content, so publishing the same again is reusing
it. `alone` is history: no run was at work since the report loaded. Nothing
keeps the two apart in the code, so runs beside reports are modelled too, and
each property says whether it needs `alone`.

Left out: comparisons with other experiments, the optional trajectory and
telemetry files, torn records (`ExperimentRuns` has them), the summary of all
experiments, and what a table or a figure looks like.

### CellRecords

`memory` holds the attributes of a `ProtocolCellExecutor` that metrics read,
`age` says of each when it was last written: never, by an earlier cell, by this
one. `cell` is drawn from `Cells`, a set per handler of what its experiment
plans: the path to a production (`path`), who attacks, the source, the domains
an attack selects. A cell begins (`Begin` drops four of the attributes, as
`execute_cell` does), is routed to its handler, and ends in `judge`, from which
`Record` computes what the metrics say; `Return` is the end of `execute_cell`.
In between, `Fail` may end it anywhere with a `ValueError`.

The paths: the advance (`OpenStage`, `StartAdvance`, `AdvanceStop`, `Scan`,
`Gate`), the robustness handler that scans by itself (`RobustScan`), client
review and what follows it (`Review`, `Recover`), releases of the source's own
model (`ReleaseSource`, `RejectSource`, `AdmitLocally`), models that clients
train in rounds (`RejectAssessment`, `GatherClients`, `TrainRound`,
`TrainingFails`, `JudgeTrained`), the two references (`Untouched`) and the
validations (`Validate`). `production` is what nobody can see in the code: the
domains that the judged checkpoint was really trained by. A round starts from
the model of the one before, so `production` only grows, whereas the code notes
an attacker when a round accepts it (`training.accepted`): every client of an
average or of the groups of the ensemble, the one Krum selects in a sampled
committee, those of a density cluster that its trimmed mean retains, those the
reconstruction filter accepts (`Kept`). Which of them these are is any choice
their thresholds allow: the distances themselves are left out. Two
variants of the ablation reach no path at all (`RejectVariant`). A mixed
proposal cell executes two instances and is recorded once, which is why
`record.outcome` may be `Pending`. A timed cell of the efficiency experiment is
executed any number of times before the execution that counts (`WarmUp`), each
beginning with the attributes the one before left; its metrics read none of them.
What counts rows and contracts beside an ablation or a boundary, and the delays
themselves, are left out: they read the data, not the executor.

### EvidencePublication

A run goes through `Plan`: a cell that is recorded under this configuration is
skipped (`SkipCell`), any other begins (`BeginCell`) with the checkpoints of
its anchor, unless the process has cached it, and goes on with `Evidence(c)`,
the sequence of what its handler publishes: calibration, checkpoint, scores and
decision of a baseline; candidate, screens, rows, scores and decision of the
protocol. `PublishNext` publishes one of them as `publish_artifact` does
undisturbed. `CompleteCell` records, `FailCell` and `EndProcess` end a cell
anywhere, `Reconfigure` changes the configuration between runs. What training
computes is a term of its inputs, so that different inputs give different
payloads; `Identity` has what the code digests and nothing else. A configuration
has the parts that some identity covers or leaves out (`Parts`): `Covered` is what
`publish_checkpoint` digests for a family, `LeftOut` what the bytes depend on
besides. A source or reproduction checkpoint is a difference from the anchor and
its identity leaves out `anchor_fedavg`; a baseline retrains with the post-reference
settings and sizes its committees by the protocol, and its identity has
neither. `made` is history: the configuration under which what is stored was
stored. The verdicts of the data are fixed (`nature`). A report of the
whole project (`LoadCatalog`, `PublishClaims`, `VerifyClaims`) reads the decisions
while a run is at work; it may be refused before it publishes (`RefuseReport`), and
ends without a trace that a cell would read (`CloseReport`).
Comparison evidence is current throughout, and a score stands for the scores of
all domains.

### CollapseEvidence

A run goes through the plan of one family: `Finish` records what the
protocol run of a cell came to, `Fail` leaves it open, a resumed run (`Resume`)
executes what is missing. `Analyse` turns the records into the family's
comparisons (`Evaluate`: pairs of seeds, mean difference, sign-flip p-value),
adjusted together (`AdjustedFamily`), and `Decide` maps the published
comparisons and the constraints of the family to survival or collapse. Metrics
are computed from the outcome as the handlers do. A p-value is a number of sign
assignments of all seeds, so that no fraction is needed: Holm's factor
multiplies it. Only the two methods that a family compares are in its plan.
Every seed has a source and an anchor.

### ClaimDecisions

Three rules turn published comparisons into claims. The necessity of a mechanism
follows from the decision of its collapse experiment when every registered
member of the family passed or failed (`ClaimOf`); `MechanismNecessity` joins
the four. Other rules compare and bound by themselves (`GranularityClaim`,
`SecondaryClaim`, `ReproducibilityClaim`, `HeterogeneityClaim`; a check of the
code that compares a decision with the very comparisons it was made from is left
out, being true here by construction); their results are enumerated over small
families as well, because their experiments are not those of the run.
`Significant` is the code's rule for support; means count seeds, as in
`CollapseEvidence`.

### LeaveFaultCertificate and LeaveFaultValidation

`Decide` is the certificate for given switches: panel, coalitions of the size
that the fault bound leaves, median utility and harm of each, the weakest
coalition, the verdict, and shares of the production. The geometric median
itself is abstracted to the coefficients that shares are computed from (`beta`,
inverse distances; zero for a coalition mean at the point, which is where the
iteration may stop). `LeaveFaultValidation` adds the other admission methods
and the controlled worlds, a `case` and its `result`; the actions execute one
case each, as the validation cell does, or hand a malformed input in.

### DatasetPreparation

`parquet[v]` is the file of a view, `sidecar[v]` what it claims to be
made from; `held` and `current` are the store's slots, used as
`ArtifactStore` promises. A command (`job`) begins with or without
`--overwrite`, takes its raw version, materialises or reuses view by view, each
write a step, describes them, and publishes role split, views and scaler; for
CICIoT2023 the manifest is last. `Stop` ends a command between any two steps;
`ChangeInputs` replaces the raw files or edits the configuration between two
commands. Contents are what a preparation would compute from its inputs
(`Bytes`); a digest is the content. `Covered` is what the code digests into the
identity: for CICIoT2023 the scaling is not part of it, although the bytes of every
view depend on it, so inputs that differ in nothing else share their identities
(`Alike`). The properties say what holds all the same: what is found under an
identity was `Made` by inputs of that identity, and for N-BaIoT that is one content.

### RoleSplit

Says what those contents are. A row at a position of its stream has the first
role whose window it lies in (`HasRole`), a cap keeps the rows with the lowest
digests (`Sampled`), a view holds the kept rows of one stream and one role
(`RowsOf`), and the scaler is fitted to the rows of the training role of all
supported streams (`TrainingRows`). Of an interval the code checks only that it
is not empty, so windows may overlap. Features are left out, and moments are
the rows they are computed from; that is what `EvidenceIsUnseen` needs. Its
assumptions say that `Bytes` of `DatasetPreparation` is this content.

## 3. Runs

| run | expects | shows |
|---|---|---|
| `store` | pass | two publishers interleaved file by file without a lock, one identity recomputed differently and one always alike, crashes between any two files and damage at any moment: until the first damage a write-once slot, complete pointer, matching pairs and reads that only fail on withdrawal, for every identity on which no overlapping calls disagreed; whatever is returned was produced, without exception |
| `admission` | pass | who trains, in which order, what may be synthesised; every cell ends; recorded trajectories admit on evidence only, keep final states and can be reported |
| `admission_unverified` | violation | a row contributes without any report about it |
| `runs` | pass | two processes: coverage, prerequisites, evidence, resumption, and what a core rests on that is decided experiment by experiment while the other process works |
| `runs_core_found` | violation | a materialised core does not unblock |
| `report` | pass | a run and a report, killed anywhere, repeated, side by side: a completed run can be reported exactly when its record files sort in planned order, a report shows what the records hold, goes through once checked, and is of one piece |
| `preparation` | pass | commands stopped anywhere and repeated while raw files, configuration and scaling change: what is reused, published and left alone, and that no row of a view that trains or scales is in one that is evidence |
| `collapse` | pass | four collapse experiments with cells that fail and are resumed: adjusted p-values, survival, clear protection survives, missing pairs are no advantage; what a claim rests on, and that it stands when more results come |
| `collapse_central` | violation | source exclusion collapses although its productions resist the trigger in every seed and the comparator's never do |
| `leave_fault` | pass | every mixture of honest and faulty holders in small panels: few faults change nothing they must not, the source has no say, shares follow support, controlled worlds are told apart |
| `records` | pass | any sequence of cells through one executor: what is recorded of a cell is of that cell, and the recorded ancestry is true |
| `evidence` | pass | runs of two experiments that fail, end, resume and overwrite, configurations that change in what identities cover and in what they leave out, and a report beside them: checkpoints stay current unless settings were left out that differ, completed cells have left their evidence, counted decisions are of scored models |

Bounds. Store: two publishers, one reader, one identity whose payload varies and
one with a fixed one: enough for a conflict, a reuse, a repair after a crash,
calls that overlap in agreement and in disagreement, and an activation of
another identity in the middle of each; one damage, at any moment; the
publishers are symmetric, as no property tells them apart. Cell: five domains
and a committee of three with no Byzantine row (the code has nine, five and
one): one to five adequate domains, so committees that are short, exact and
exceeded, and up to two compromised reproducers, so that designation can use up
the order; MedianRows 2 keeps the median path shorter than Krum's; cycles to 12,
measured to 10, and four domains for the gate, as configured, of the four the
order has after its first. Runs: one validation experiment, two collapse
experiments with two and one cells, one post-core experiment; two provenances,
so that every record can be current or stale; crashes and overwrites are not
bounded; the two processes are symmetric, and no property tells them apart; with
a collapse order of two experiments, each loop of the deciding process meets the
other process before, between and after its reads. Report: two cells, so that a
run can be killed with one of them new, and two interchangeable values (no
property compares a value with a constant); two inputs and two runs, so that a
completed run is followed by one that reuses, repeats, fails or is killed at any
step; records in both orders. Preparation: one stream with three views, of the
role that trains and scales, the uncapped one and one of the evidence; two raw
versions, with four rows and with one, so that a version lacks views; two
configurations, with the intervals of the code's configuration and with
overlapping ones that give a row another role; caps of one row where a window
has two; two symmetric scalings; two changes and one stop, so that a stopped or
completed command is followed by one under other inputs and by a return to the
first. Collapse: five seeds with a minimum of four pairs, so that a family is
complete, just enough or short; level 26 of 32 assignments so that five seeds
can pass at all; some seeds of some conditions vary, one cell fails technically.
Leave fault: f = 1, q = 3, panels of three and four holders with every mixture
of reports that clear and miss a bar, panels of five with copies, malformed
ones, a dozen screening orders, beta 0 or 1. Records: four domains, one the
source; committees of three, a median of two, Krum from three, up to two
compromised; density clusters of two, trimmed by one at each end from three on,
so that a cluster is absent, kept whole or trimmed; rounds and cells are not
counted, any number follow each other. Evidence: two conditions of a calibrated
baseline, whose second decides otherwise than its first for the same seed, and
the full method beside its variant without a gate, which decides otherwise about
the same production; three configurations, the first and two that differ from it
in `anchor_fedavg` and in `post_reference`, each of which some identities cover
and others leave out; three runs and two disturbances (failures, ended
processes, new configurations, overwriting runs), so that a failed or ended run
is resumed, and a configuration is left and returned to; one screen domain and
one domain that judges.

Deadlock is not checked where the system stops: a cell that is `done`
(admission), a decided family (collapse), an executed case (leave fault), an
executor that an exception has ended (records). In the other modules something
can always happen.

Fairness. `CellEnds` assumes weak fairness of the cell's next step: a cell is
sequential code without waiting. No other property needs any.

## 4. What the runs found

* The panels of the plural path are never convened. A scan makes one round per
  domain of the reproducer order, which includes the source; the adequate
  domains are at least one fewer, so the scan always meets the round without a
  domain and settles there, and rows are certified by not being designated
  compromised (`admission_unverified`).
* The resolved core is published where it is not read (`runs_core_found`).
* The attack success rate that decides source exclusion is measured on a model
  trained for the measurement, the same on both sides of every pair
  (`collapse_central`).

`PROJECT.json` gives the lines and the documentation they disagree with.

What the models contain and no run is about, or what was met on the way:

* Store. When two processes publish different payloads for one identity at the
  same time, both find no artifact (`store.py:443`), and the manifest of one can
  come to stand beside the payload of the other: readers raise or find nothing until
  the next publication of the identity. Without overlap the second payload is
  refused. `_retire_current_pointer` reads and unlinks in two steps
  (`store.py:424`), so it may withdraw the pointer of another identity that was
  activated in between.
* Core. The second loop of `_materialize_core_if_complete`
  (`application.py:631`) reads the records again and does not check again that
  they are complete; only the comparison evidence must be of the same records.
  When a collapse experiment is run again beside the deciding process, the core
  can rest on a run of it that did not complete, or on experiments of different
  provenances; TLC finds both in about thirty steps. `CoreRestsOnRuns` says what
  remains: whole runs, completed unless run again meanwhile.
* Records are written in place, so a kill can leave a torn one, on which later
  runs raise; they go on once the file is removed or overwritten. The code
  revision is part of what a record must match, so that a commit alone makes
  completed cells execute again (docs/Roadmap.md:2812 says otherwise).
* An abstaining single verifier rejects the row (docs/Roadmap.md:2219).
* Report. Without `alone`, `ReportAgrees` does not hold: a run beside a report
  can replace the evidence between the report's two looks at it, and cell
  metrics that are half written can enter the source data. Values alone tie
  records to evidence, so a report also accepts evidence of earlier inputs
  after a run was killed that measured the same. The execution digest
  (`engine.py:348`) depends on the order of outcomes: when record files sort
  otherwise than the plan, which hashed names do in all but one of their orders, a
  completed experiment cannot be reported (`ReportableInPlanOrder`,
  `export.py:673`).
* Preparation. Cells check view by view that file and artifact agree
  (`prepared_validation.py:57`); a preparation stopped half-way leaves views of
  two inputs that pass together (docs/Roadmap.md:2937). The identity of a
  CICIoT2023 view does not cover the scaling (`role_split.py:60`,
  `ciciot2023/prepare.py:676`). After the scaling changed, a preparation takes
  the old files for current; with `--overwrite`, or where files are missing, it
  writes new ones whose publication is refused and whose pointers are withdrawn,
  so that the views cannot be consumed.
* Records. Three of the eighteen ablation variants can never execute: they are
  handed on under the method of another experiment and `opening_mode_for_cell`
  (`cell_parameters.py:23`) or `_ablation_opening_stage` (`handlers.py:1354`)
  makes an `AblationVariant` of it, so the experiment ends INVALID
  (docs/Roadmap.md:3192). The full reference of the ablation deploys its first
  row while its malicious admission is judged by selecting a row once more
  (`handlers.py:1838`, `:1186`): `AncestryIsTrue` leaves it out. A proposal cell
  that is screened out records the overhead of the cell before it
  (`handlers.py:1118`), which `RecordsAreTheCellsOwn` leaves out. Sanitisation,
  recovery and the full external check train the source without its backdoor.
  Records that are admitted without a gate have no target F1. Cells of the
  secondary dataset use the adapter of the primary one (`handlers.py:2780`,
  `:3081`). The plural reproducers of the bound experiment train honestly
  (docs/Roadmap.md:3374).
* Collapse. Members without a p-value stay in their family. With as many
  comparisons as the later families have, 1024 assignments and level 0.05,
  nothing can pass (`CrowdedFamilyPassesNothing`). A constraint is undefined
  when the full path never comes to a production, so that plurality cannot
  survive then. False launches and attempts are counted over admitted cells
  only (docs/Roadmap.md:1952).
* Certificate. With two to three f holders one faulty holder can refuse what all
  others vouch for; from 3f + 1 on none can (`FaultsCannotVeto`). When the
  iteration stops at a coalition's mean, that coalition's coefficient is zero
  and the shares do not describe the production.
* Evidence scarcity. Only the immediate quorum advances the protocol; the other
  schedules raise in `validate_no_safety_completion_before_tau_k` and are
  recorded dormant, so that dormancy is never followed by an admission. The
  verification of safe dormancy demands one of the gradual schedule
  (`verification.py:234`, docs/Roadmap.md:4000), so that it can never pass
  (`GradualIsNeverVerified`). What counts is the requirement of the gate, not
  that of the rows.
* Evidence. The identity of an artifact covers its slot and its declared
  dependencies, and some payloads hold more: a calibration holds the seed and
  the anchor (`protocol_evidence.py:292`, docs/Roadmap.md:2964 lists the
  population as a dependency), a screen the variant of its predicate, a decision
  whether plurality was active and what the gate of that variant said, a score
  the predictions under a feature shift, a reproduction checkpoint the update of
  a copied source. The second seed, variant or condition is turned away and
  takes `current.json` with it; whoever reads the slot then finds nothing, and a
  report counts no decision of that production (docs/Roadmap.md:2947).
  `CheckpointsStayCurrent` is about the families where this cannot happen under one
  configuration. It can when settings change that an identity leaves out
  (`LeftOut`): after a change of `anchor_fedavg` the source and reproduction
  checkpoints are trained from another anchor and turned away
  (`checkpoints.py:271`), after one of `post_reference` or of the protocol the
  baselines are (`checkpoints.py:244`); the pointer is withdrawn, and the gate
  decision is recorded of a model whose checkpoint the store refused.
* Claims. Two of the four collapse families register a member that is undefined
  in every cell, and a claim needs all members: their necessity is never tested
  (`TwoClaimsAreNeverTested`, docs/Roadmap.md:3914). No caller supplies the
  declarations that two of the claims ask for (`export.py:1154`), so that
  Reproducibility Is Not Truth and Malicious Source Salvage are never supported.
  Mechanism Necessity is partially supported by one supported claim and two that
  were not tested (docs/Roadmap.md:3986). Heterogeneity looks for the highest
  regime among the resolved ones and passes over those that are not. As some
  claims are never tested and the project summary asks for all of them
  (`export.py:1210`), it is always refused, after the claim artifact has been
  published.

## 5. Proofs

`ArtifactStoreProofs` (for all sets of identities, payloads and processes):

* `TypeCorrect`, from `TInv`: the types, and that a call past its first step
  has an identity.
* `ReturnsOnlyProduced`, from `ProducedInv`: a manifest records what its
  identity's procedure can compute, a publisher carries such a payload, and a
  reader past its last check holds one. This needs no assumption about
  scheduling or damage.
* `CurrentComplete`, `PairsAgree`, `ReadsGoThrough` and their conjunction
  `ReadersAgree`, with no assumption about scheduling. Until a payload is
  damaged, `PublicationInv` holds of every identity that is not contended: a
  manifest is backed by its payload, the pointer names an identity with a
  manifest, and each publisher and reader step may rely on what it has seen.
  Calls in progress on such an identity have the same payload (`CallsAgree`),
  because the later of two that differ marks it when it begins; so nobody
  replaces the payload under a manifest with a different one. A mark is never
  taken back: a reader that began before it is covered up to the mark.
* About `EvidencePublication`, for every plan, configuration and outcome of
  training that `PlanAssumption` allows (the code's plans, screens and rows are
  sequences; no configuration has empty digests; the rows that judge a model are
  those of the gate and of the report); its `EvidenceSpec` stands beside the
  `Spec` of `ArtifactStore` in this module: `CheckpointsAlwaysCurrent`, from
  `CheckpointInv`. `UpdateOf` reads the update of a checkpoint off its identity
  and the settings this leaves out; every product in the store `Fits` the
  configuration it was stored under, every product the cell in progress still
  has to publish the current one, so that a checkpoint conflicts only where the
  two differ in what is left out. What a cell leaves is a sequence of such
  products (`EvidenceFits`); for the screens, which are gathered by recursion,
  by a least counterexample. `CompletedCellsAlwaysLeaveEvidence`, from
  `CompletedInv`: a completed record stands for the evidence of the
  configuration that it names (`RecordsHold`), which need not be the current
  one, so that the evidence is stated in an instance of the module, `Under` a
  given configuration; the cached seeds of a running process have left their
  anchors (`AnchorsHold`); what the cell in progress has not left is still to be
  published (`CellHolds`). `CountedDecisionsScored`, from `ScoredInv`: in front
  of every decision that is still to be published are the scores of its model
  (`Backed`), so that whenever a cell ends the decisions in the store are of
  scored models, and a report counts decisions of the store.
* `StoreImplementsSlot`, with any damage: `SlotInv` adds what publishers of an
  identity that is not contended know even then. The artifact that a call is
  about to replace is not readable, or only ever has one payload, and what it
  put in its place stays there until it is damaged. So a write is a `Commit` of
  the slot or nothing, damage a `Lose`, a call that disagrees a `Contest`, and
  what writers do to a contended identity a `Commit` or a `Spoil`.

`ExperimentRunsProofs` (for every plan that satisfies `PlanAssumption`, where no
two cells have the same semantic key; for any number of processes and any bound
on the inputs; `RecordFileAssumption` says that an absent and a torn file are no
record). The inductive invariant `IInv` has a part for each thing a run relies on:

* `RunsSeparate`: what `MayRun` establishes at the start of a run stays true of
  all runs in progress. With distinct keys, no process writes a record that
  another one reads (`OnlyOwnCells`).
* `RunPosition`: a run that is not idle is at a cell of its experiment's plan.
* `CellsPassed`: the cells a run has passed are recorded under its provenance.
* `PrerequisitesChecked` and `EvidenceMatchesRecords`: what the run found when it
  began, and the evidence it left.

`DecisionInv` is about a process that decides the core: evidence is of all
records of one run (`EvidenceWhole`), experiments found completed stay so unless
they are run again (`CheckedStay`), and so do the records read of them
(`ReadCompleted`). The evidence being of the records just read, these are a
whole run's.

From both follow `RunsTypeCorrect`, `CompletedRuns`, `PrerequisitesStay`,
`EvidenceCurrent`, `CoreRests`, and the action property `WorkIsKept`.

`AdmissionCellProofs` (for every set of domains, committee size and order that
satisfy `ParametersAssumption`):

* `ScansSettle`: no scan reaches the panels. It is a counting argument: every
  round of a scan consumes a domain (`RoundsCounted`), a domain that can train
  is consumed once, and a scan has one round more than there are such domains.
* `KrumSufficient`, from `EnoughRows`; `AdmissionBacked`, from that and
  `SingleReports`; `SourceExcluded`, `OrderKept` and `NoIdleTraining`, from
  `CellInv` and `RowsInv`, which relate the rows, the consumed domains and the
  phase.
* `AdmissionsHaveEvidence`, `TrajectoriesSettle` and `GradualIsNeverVerified`
  are about the functions of `EvidenceScarcity`, for any horizon and threshold:
  an admission needs arrival at cycle zero (`AdmittedMeansQuorum`), which only
  one schedule gives. `ScarcityIsRecordedSoundly` joins them with the states
  that a cell ends in: what is recorded of any run of the protocol is safe. It
  assumes domains enough for a committee (`CommitteeSize <= EligibleDomains`),
  as the code has them; with fewer, a core of one row could be admitted by a
  method without the committee while the evidence never arrives.

`ReportExportProofs` (for all cells, values, inputs and numbers of runs, any planned
order and any order of the record files). What a report shows goes
through records, evidence files, registration, products and source data; the
inductive invariant has a part for each: `EvidenceWritten` (what a run has
written so far is of the records it completed), `RegisteredTogether` (files
are registered when one run wrote them all), `ProductsRendered` and
`SourceOfReport` (a report finds its own work), `SourceFromEvidence` (source
data is of one report and of the seed metrics it names) and `Undisturbed` (with
no run beside it, all that a report checked is still so). From it follow
`ReportTypeCorrect`, `PersistedReportsAreWhole`, `ReportsAgree` and
`ReportsGoThrough`, and `ReportableExactly`: the two digests agree exactly when the
two orders do.

`DatasetPreparationProofs` (for any views, versions, changes and stops). No
theorem assumes that identities cover the inputs. The inductive invariant joins
the base facts of a command, `SidecarTruth` (a whole sidecar tells that its file
was made by inputs of its identity), `ContentOfIdentity`, what the store was
offered (`Offered`: an artifact is current exactly when its identity names the
bytes offered), and what follows a completed preparation (`SettledInv`).
`PrimaryIsExact` draws the conclusion for N-BaIoT, whose identity leaves nothing
out: what a completed preparation left is exactly what its inputs make.
`EvidenceStaysUnseen` adds what the files hold: a row has one role because the
first window decides (`HasRole`), whatever the windows are, and different roles
are different views of one stream. It assumes that a file belongs to one stream:
two byte-identical raw files are one digest, and the code would not tell their
rows apart. The property is about the views of a completed preparation: after
raw files that were replaced and put back with commands killed in between, a
view that was left over may be valid beside views of other inputs (section 4).

`CollapseEvidenceProofs` (for any number of seeds, outcomes, level and order of
names). `AdjustedIsClosed`: a member's adjusted p-value is significant exactly
when the Bonferroni test rejects every part of the family with that member. The
closed test only gets easier when p-values fall, and a missing one counts as the
greatest, which gives `NothingGainedByMissing`. `SurvivorsAreMeasured` follows
from an invariant that says what is published is computed from the records.
`ClaimsMeasured` adds what each rule of a claim has looked at, and
`TwoClaimsAreNeverTested` that a member without defined values stays unresolved.
`ClaimsKeepStanding` goes through the rules one at a time: a result that comes
in resolves a member and changes none that is resolved.
`ProtectionAlwaysSurvives` holds for any number of seeds that suffices for pairs
and any level at which six members can pass (`12 < Alpha`; a member that is
alike in all seeds has p = 2 of the sign assignments, `AllAlikeIsExtreme`, and a
closed test of at most six members asks for twelve). The code's sums are folds
over sets; that the order does not matter (`SumTakes`), bounds and additivity
are proved by a smallest set that would be a counterexample, since induction
theorems take an operator.

`LeaveFaultProofs` (for any bound, floor, ceiling and panel). A worst coalition
at the floor bounds how many reports of the whole panel lie below it, since some
coalition keeps them all; the same count decides the medians of the holders that
remain when any f are left out (`WorstCoalitionCoversFaults`,
`VouchedIsNotRejected`). The theorems about behaviours follow because a result
is always that of its case. `SharesAlwaysFollowSupport` counts twice: what
coalitions of one size hand to each of their members adds up to that size times
what they have (`HandedOut`), so that shares add up, and a holder in more
coalitions has no less. It needs that coefficients are not negative, an
assumption on `BetaValues` (they are inverse distances or zero).
`CertificateAlwaysSeparates` is about the controlled worlds: it places the
domains of a world (`PlaceStands`, `PlacesAreApart`) and counts how many reports
of the panel are low (`LowOfWorlds`), which decides the certificate
(`VerdictCounts`). Its hypotheses are ranges around the code's parameters: one
fault, a support of three to seven, eight domains or more, two or three screens,
and a floor that the small gains of the worlds miss.

`CellRecordsProofs` (for any domains, committee size and number of cells). The
inductive invariant: `BaseInv` keeps a cell on the phases of its path, `AgeInv`
says which attributes are fresh in each phase, `TypeInv` what a synthesis may be
made of, `MemoryInv` what the attributes tell of the production, path by path (with
the exception of a timed cell, which finds what its warm-up left), and
`RecordedInv` what was recorded. The properties of the run follow, and that no
handler reads an attribute that was never written (`NothingReadUnset`).

Model-checked only: the liveness of `CellEnds`, which the proof system cannot
treat, and the three violations, which are behaviours of small instances. Every
invariant and action property of a passing run is a theorem. Proved and in no run:
`KrumSufficient`, `OrderKept`, `NoIdleTraining`, and some type invariants.

## 6. Plan and what is not modelled

Done: the artifact store with its refinement, experiment runs, the admission
cell, the records of all cells, the collapse decisions, the certificate, the
preparation of datasets, the evidence that cells publish, the report of one
experiment.

Not modelled:

* Training, aggregation, bootstrap intervals and effect sizes: real arithmetic.
* Durations and the delays computed from them.
* Verification panels, protocol rules, capability contract, attacks: pure
  predicates; the panels are convened for no cell.
* Comparisons of the later experiments and their families, structural claims, the
  files of the project summary, run costs, ablation references.
* Parsing of the raw datasets, validation of the configuration, tables and
  figures, logging, the console.

These are most of the lines of the repository: it is a large program of which a
moderate part decides anything by the order of its steps. `PROJECT.json` has a
status for each part and the hazards that no property covers.
