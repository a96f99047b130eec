---------------------------- MODULE ReportExport ----------------------------
(***************************************************************************)
(* `fedsira report <experiment>` after `fedsira run <experiment>`: the run  *)
(* records its cells, writes the metric evidence files in place and        *)
(* publishes what it wrote; the report loads the records, checks that the  *)
(* published evidence belongs to them, renders its products, publishes     *)
(* their source data and the export, and verifies what it left on disk.    *)
(* Either process can be killed between any two of these steps.            *)
(*                                                                         *)
(* The artifacts are those of ArtifactStore: an artifact's identity is its *)
(* content, and publishing it again reuses it.  The aggregate file is      *)
(* written and checked with the seed file; comparison, trajectory and      *)
(* telemetry files are optional and left out, and so are torn records,     *)
(* which ExperimentRuns has.                                               *)
(***************************************************************************)
EXTENDS Naturals, Sequences, Functions

CONSTANTS
  Cells,       \* semantic keys of the experiment's planned cells
  PlanOrder,   \* the cells in planned order
  FileOrders,  \* orders that the record file names, which are hashes, can sort the cells in
  Values,      \* what a cell can measure; timings differ between executions
  MaxInputs,   \* bound on how often configuration, code or data change
  MaxRuns,     \* bound on the runs that are begun
  Failed,      \* the cell ended without a measurement
  Absent,      \* there is no such file or artifact
  Torn         \* a file that was not written to its end

Inputs == 1..MaxInputs

IsOrder(order) ==
  /\ order \in Seq(Cells)
  /\ Range(order) = Cells
  /\ \A i, j \in DOMAIN order : order[i] = order[j] => i = j

ASSUME ReportAssumption ==
  /\ IsOrder(PlanOrder)
  /\ FileOrders # {}
  /\ \A order \in FileOrders : IsOrder(order)
  /\ MaxInputs \in Nat \ {0}
  /\ MaxRuns \in Nat
  /\ Failed \notin Values

VARIABLES
  fileOrder,  \* the cells in the order of their record file names
  records,    \* per cell: the execution record
  inputs,     \* configuration, code and data of today
  files,      \* metric evidence files of the experiment
  evidence,   \* the current metric evidence artifact
  products,   \* files of the report
  source,     \* the current source-data artifact
  export,     \* the source data that the current export artifact names
  run,        \* the run in progress, or how the last one ended
  report,     \* the report in progress, or how the last one ended
  alone       \* history: no run was at work since the report loaded

vars == <<fileOrder, records, inputs, files, evidence, products, source, export, run, report, alone>>
given == <<fileOrder, inputs>>
runSide == <<records, files, evidence, run>>
reportSide == <<products, source, export, report, alone>>

EvidenceFiles == {"cell_metrics", "seed_metrics"}
Products == {"table", "figure", "summary", "manifest"}

Measurements == [Cells -> Values]
Content == [inputs : Inputs, values : Measurements]
Record == [inputs : Inputs, value : Values \union {Failed}]

\* experiment_execution_digest of a completed experiment: a hash of the
\* semantic keys in the order of the outcomes.
ExecutionDigest(order) == order

Evidence ==
  [digest : Seq(Cells), registered : [EvidenceFiles -> Content]]

Source ==
  [digest : Seq(Cells), upstream : Evidence, table : Measurements,
   figure : Measurements, files : [EvidenceFiles -> Content \union {Torn}]]

ASSUME FilesAssumption ==
  /\ Absent # Torn
  /\ {Absent, Torn} \intersect Record = {}
  /\ {Absent, Torn} \intersect Content = {}
  /\ {Absent, Torn} \intersect Measurements = {}
  /\ {Absent, Torn} \intersect Seq(Cells) = {}
  /\ {Absent, Torn} \intersect Evidence = {}
  /\ {Absent, Torn} \intersect Source = {}

RunSteps == {"idle", "cells", "cell_metrics", "seed_metrics", "publish", "published"}
ReportSteps ==
  {"idle", "check", "table", "figure", "source", "summary", "manifest",
   "export", "verify", "done", "refused"}

\* Neither process is at work; what is left is how it ended.
RunRests == run.step \in {"idle", "published"}
ReportRests == report.step \in {"idle", "done", "refused"}

NoRun ==
  [step |-> "idle", begun |-> 0, next |-> 1, inputs |-> 1, overwrite |-> FALSE, open |-> FALSE]
NoReport == [step |-> "idle", loaded |-> Absent, evidence |-> Absent, open |-> FALSE]

Init ==
  /\ fileOrder \in FileOrders
  /\ records = [c \in Cells |-> Absent]
  /\ inputs = 1
  /\ files = [f \in EvidenceFiles |-> Absent]
  /\ evidence = Absent
  /\ products = [p \in Products |-> Absent]
  /\ source = Absent
  /\ export = Absent
  /\ run = NoRun
  /\ report = NoReport
  /\ alone = FALSE

\* The operator commits, changes the configuration or prepares other data.
ChangeInputs ==
  /\ inputs < MaxInputs
  /\ inputs' = inputs + 1
  /\ UNCHANGED <<fileOrder, runSide, reportSide>>

-----------------------------------------------------------------------------
(* fedsira run                                                             *)

StopRun == run' = [NoRun EXCEPT !.begun = run.begun]

BeginRun(overwrite) ==
  /\ RunRests
  /\ run.begun < MaxRuns
  /\ run' = [NoRun EXCEPT !.step = "cells", !.begun = run.begun + 1,
                          !.inputs = inputs, !.overwrite = overwrite]
  /\ alone' = FALSE
  /\ UNCHANGED <<records, given, files, evidence, products, source, export, report>>

AllCellsDone == run.next > Len(PlanOrder)
Executing(c) == run.step = "cells" /\ ~AllCellsDone /\ PlanOrder[run.next] = c

Measured(r, v) == r # Absent /\ r.inputs = v /\ r.value # Failed

Reusable(c) == ~run.overwrite /\ Measured(records[c], run.inputs)

ReuseCell(c) ==
  /\ Executing(c)
  /\ Reusable(c)
  /\ run' = [run EXCEPT !.next = @ + 1]
  /\ UNCHANGED <<records, given, files, evidence, reportSide>>

ExecuteCell(c, value) ==
  /\ Executing(c)
  /\ ~Reusable(c)
  /\ records' = [records EXCEPT ![c] = [inputs |-> run.inputs, value |-> value]]
  /\ run' = [run EXCEPT !.next = @ + 1]
  /\ UNCHANGED <<given, files, evidence, reportSide>>

CompleteUnder(v) == \A c \in Cells : Measured(records[c], v)

\* Mutant: the metric evidence of an incomplete experiment is written.
MUTFinishAny ==
  /\ run.step = "cells"
  /\ AllCellsDone
  /\ run' = [run EXCEPT !.step = "cell_metrics"]
  /\ UNCHANGED <<records, given, files, evidence, reportSide>>

\* _export_completed_experiment does nothing for an incomplete experiment.
FinishCells ==
  /\ run.step = "cells"
  /\ AllCellsDone
  /\ IF CompleteUnder(run.inputs)
     THEN run' = [run EXCEPT !.step = "cell_metrics"]
     ELSE StopRun
  /\ UNCHANGED <<records, given, files, evidence, reportSide>>

RecordValues == [c \in Cells |-> records[c].value]

\* to_parquet truncates the file that is there and then fills it.
OpenEvidenceFile(f) ==
  /\ run.step = f
  /\ ~run.open
  /\ files' = [files EXCEPT ![f] = Torn]
  /\ run' = [run EXCEPT !.open = TRUE]
  /\ UNCHANGED <<records, given, evidence, reportSide>>

AfterFile == [cell_metrics |-> "seed_metrics", seed_metrics |-> "publish"]

WriteEvidenceFile(f) ==
  /\ run.step = f
  /\ run.open
  /\ files' = [files EXCEPT ![f] = [inputs |-> run.inputs, values |-> RecordValues]]
  /\ run' = [run EXCEPT !.open = FALSE, !.step = AfterFile[f]]
  /\ UNCHANGED <<records, given, evidence, reportSide>>

\* Mutant: evidence that was published once is left as it is.
MUTPublishOnce ==
  /\ run.step = "publish"
  /\ evidence' = IF evidence = Absent
                 THEN [digest |-> ExecutionDigest(PlanOrder), registered |-> files]
                 ELSE evidence
  /\ run' = [run EXCEPT !.step = "published"]
  /\ UNCHANGED <<records, given, files, reportSide>>

PublishEvidence ==
  /\ run.step = "publish"
  /\ evidence' = [digest |-> ExecutionDigest(PlanOrder), registered |-> files]
  /\ run' = [run EXCEPT !.step = "published"]
  /\ UNCHANGED <<records, given, files, reportSide>>

CrashRun ==
  /\ ~RunRests
  /\ StopRun
  /\ UNCHANGED <<records, given, files, evidence, reportSide>>

-----------------------------------------------------------------------------
(* fedsira report                                                          *)

\* _metric_evidence_publication_failures of a completed result finds none.
MetricEvidencePublished ==
  /\ evidence # Absent
  /\ evidence.digest = ExecutionDigest(fileOrder)
  /\ files = evidence.registered

\* A result that is not completed has another execution digest.
Loadable == CompleteUnder(inputs) /\ MetricEvidencePublished

\* Mutant: the published values are not compared with the records.
MUTPublishedValuesMatch == TRUE

PublishedValuesMatch == files["cell_metrics"].values = RecordValues

EndReport(step) == report' = [NoReport EXCEPT !.step = step]

\* _load_experiment_result; without evidence the values are dropped.
Load ==
  /\ ReportRests
  /\ Loadable => PublishedValuesMatch
  /\ report' = [NoReport EXCEPT
       !.step = "check", !.loaded = IF Loadable THEN RecordValues ELSE Absent]
  /\ alone' = RunRests
  /\ UNCHANGED <<runSide, given, products, source, export>>

\* The evidence disagrees with the records: _load_published_metric_values raises.
RefuseValues ==
  /\ ReportRests
  /\ Loadable /\ ~PublishedValuesMatch
  /\ EndReport("refused")
  /\ UNCHANGED <<runSide, given, products, source, export, alone>>

\* export_experiment_report looks at the evidence a second time and keeps
\* its identity.
Check ==
  /\ report.step = "check"
  /\ IF report.loaded # Absent /\ MetricEvidencePublished
     THEN report' = [report EXCEPT !.step = "table", !.evidence = evidence]
     ELSE EndReport("refused")
  /\ UNCHANGED <<runSide, given, products, source, export, alone>>

OpenProduct(p) ==
  /\ report.step = p
  /\ ~report.open
  /\ products' = [products EXCEPT ![p] = Torn]
  /\ report' = [report EXCEPT !.open = TRUE]
  /\ UNCHANGED <<runSide, given, source, export, alone>>

Rendering(p) ==
  IF p \in {"table", "figure"} THEN report.loaded ELSE ExecutionDigest(fileOrder)

\* Mutant: the source data is published before the figure is drawn.
MUTAfterProduct ==
  [table |-> "source", figure |-> "summary", summary |-> "manifest", manifest |-> "export"]

AfterProduct ==
  [table |-> "figure", figure |-> "source", summary |-> "manifest", manifest |-> "export"]

WriteProduct(p) ==
  /\ report.step = p
  /\ report.open
  /\ products' = [products EXCEPT ![p] = Rendering(p)]
  /\ report' = [report EXCEPT !.open = FALSE, !.step = AfterProduct[p]]
  /\ UNCHANGED <<runSide, given, source, export, alone>>

\* _verified_metric_evidence_payload and _verified_metric_sources pass.
EvidenceStillCurrent ==
  /\ evidence = report.evidence
  /\ files["seed_metrics"] = evidence.registered["seed_metrics"]

\* The source data is published with the digests of what is on disk now.
PublishSource ==
  /\ report.step = "source"
  /\ EvidenceStillCurrent
  /\ source' = [digest |-> ExecutionDigest(fileOrder), upstream |-> evidence,
                table |-> products["table"], figure |-> products["figure"],
                files |-> files]
  /\ report' = [report EXCEPT !.step = "summary"]
  /\ UNCHANGED <<runSide, given, products, export, alone>>

RefuseSource ==
  /\ report.step = "source"
  /\ ~EvidenceStillCurrent
  /\ EndReport("refused")
  /\ UNCHANGED <<runSide, given, products, source, export, alone>>

\* Only a report publishes source data: the current one is its own.
PublishExport ==
  /\ report.step = "export"
  /\ export' = source
  /\ report' = [report EXCEPT !.step = "verify"]
  /\ UNCHANGED <<runSide, given, products, source, alone>>

\* Mutant: the evidence files are not compared with the source data.
MUTSourceProductsCurrent ==
  /\ source.table = products["table"]
  /\ source.figure = products["figure"]

\* _source_product_failures finds none.
SourceProductsCurrent ==
  /\ source.table = products["table"]
  /\ source.figure = products["figure"]
  /\ source.files = files

\* verify_persisted_experiment_report of a completed result passes.
PersistedReportPasses ==
  /\ source # Absent
  /\ export = source
  /\ source.digest = ExecutionDigest(fileOrder)
  /\ \A p \in Products : products[p] # Absent
  /\ SourceProductsCurrent
  /\ products["summary"] = ExecutionDigest(fileOrder)

\* metric_artifact_is_semantically_complete of the required files
EvidenceFilesComplete == \A f \in EvidenceFiles : files[f] \notin {Absent, Torn}

\* verify_experiment_artifacts and the verification of what is persisted.
Verify ==
  /\ report.step = "verify"
  /\ EndReport(IF EvidenceFilesComplete /\ PersistedReportPasses THEN "done" ELSE "refused")
  /\ UNCHANGED <<runSide, given, products, source, export, alone>>

CrashReport ==
  /\ ~ReportRests
  /\ report' = NoReport
  /\ UNCHANGED <<runSide, given, products, source, export, alone>>

-----------------------------------------------------------------------------
RunNext ==
  \/ \E overwrite \in BOOLEAN : BeginRun(overwrite)
  \/ \E c \in Cells : ReuseCell(c) \/ \E value \in Values \union {Failed} : ExecuteCell(c, value)
  \/ FinishCells
  \/ \E f \in EvidenceFiles : OpenEvidenceFile(f) \/ WriteEvidenceFile(f)
  \/ PublishEvidence
  \/ CrashRun

ReportNext ==
  \/ Load \/ RefuseValues \/ Check
  \/ \E p \in Products : OpenProduct(p) \/ WriteProduct(p)
  \/ PublishSource \/ RefuseSource \/ PublishExport \/ Verify
  \/ CrashReport

Next == ChangeInputs \/ RunNext \/ ReportNext

Spec == Init /\ [][Next]_vars

-----------------------------------------------------------------------------
(* Properties                                                              *)

\* Type invariant: what records, evidence, products and published artifacts
\* can hold; in particular no failed cell ever reaches the evidence.
TypeOK ==
  /\ fileOrder \in FileOrders
  /\ records \in [Cells -> Record \union {Absent}]
  /\ inputs \in Inputs
  /\ files \in [EvidenceFiles -> Content \union {Absent, Torn}]
  /\ evidence \in Evidence \union {Absent}
  /\ products \in [Products -> Measurements \union Seq(Cells) \union {Absent, Torn}]
  /\ source \in Source \union {Absent}
  /\ export \in Source \union {Absent}
  /\ run \in [step : RunSteps, begun : Nat, next : Nat, inputs : Inputs, overwrite : BOOLEAN, open : BOOLEAN]
  /\ report \in [step : ReportSteps, loaded : Measurements \union {Absent},
                 evidence : Evidence \union {Absent}, open : BOOLEAN]
  /\ alone \in BOOLEAN

\* A report that ends well without a run beside it shows what the records
\* hold: its table, its figure and the metric evidence files all have the
\* values of the experiment's records, whatever runs and reports were killed
\* or repeated before, although the execution digest covers no value.
ReportAgrees ==
  [][alone /\ report.step = "verify" /\ report'.step = "done" =>
       /\ products["table"] = RecordValues
       /\ products["figure"] = RecordValues
       /\ \A f \in EvidenceFiles : files[f].values = RecordValues]_vars

\* The last run completed, and nothing changed since.
Settled == run.step = "published" /\ run.inputs = inputs

\* `fedsira report` of an experiment whose run completed accepts its evidence
\* exactly when the record files happen to sort in planned order: the run
\* hashes the semantic keys in planned order, the report in file order
\* ("Experiment-specific reporting may still materialize an individually
\* complete experiment").  The values never stand in its way.
ReportableInPlanOrder ==
  Settled =>
    /\ PublishedValuesMatch
    /\ Loadable <=> fileOrder = PlanOrder

\* What the report checked before it renders holds to its end: without a run
\* beside it, it is refused neither at its source data nor by its own
\* verification.
ReportGoesThrough ==
  [][alone /\ ~ReportRests /\ report.step # "check" => report'.step # "refused"]_vars

\* verify_persisted_experiment_report accepts no mixture of two reports and
\* no evidence but the one the source data names, even beside runs: when
\* what is on disk passes, table and figure show the same values and the
\* seed metrics are the registered ones.
PersistedReportIsWhole ==
  PersistedReportPasses =>
    /\ products["table"] = products["figure"]
    /\ files["seed_metrics"] = source.upstream.registered["seed_metrics"]
=============================================================================
