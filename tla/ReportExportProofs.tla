------------------------- MODULE ReportExportProofs -------------------------
(***************************************************************************)
(* What ReportExport does for every set of cells, values and inputs, any   *)
(* number of runs and any orders of plan and files.                        *)
(*                                                                         *)
(* What a report shows goes through five hands: records, evidence files,   *)
(* registration, products and source data.  Each part of the invariant     *)
(* says what one hand may rely on; Undisturbed says that all of it still   *)
(* holds while no run begins beside the report.                            *)
(***************************************************************************)
EXTENDS ReportExport, TLAPS

USE DEF given

RunContent == [inputs |-> run.inputs, values |-> RecordValues]

\* A run writes evidence of cells it completed, file after file, and what it
\* registers is what it wrote.
EvidenceWritten ==
  /\ run.step \in {"cell_metrics", "seed_metrics", "publish", "published"} =>
       CompleteUnder(run.inputs)
  /\ run.step \in {"seed_metrics", "publish", "published"} =>
       files["cell_metrics"] = RunContent
  /\ run.step \in {"publish", "published"} => files["seed_metrics"] = RunContent
  /\ run.step = "published" =>
       evidence = [digest |-> ExecutionDigest(PlanOrder), registered |-> files]

\* Files are registered together only when one run wrote them, and never go
\* away afterwards.
RegisteredTogether ==
  evidence # Absent =>
    /\ evidence.registered["cell_metrics"] = evidence.registered["seed_metrics"]
    /\ \A f \in EvidenceFiles : files[f] # Absent

Publishing == {"summary", "manifest", "export", "verify"}
Drawn == Publishing \union {"source"}
Tabled == Drawn \union {"figure"}
Checked == Tabled \union {"table"}

\* Products hold what the report loaded once it is past them.
ProductsRendered ==
  /\ report.step \in Checked => report.loaded # Absent /\ report.evidence # Absent
  /\ report.step \in Tabled => products["table"] = report.loaded
  /\ report.step \in Drawn => products["figure"] = report.loaded
  /\ report.step \in Publishing \ {"summary"} =>
       products["summary"] = ExecutionDigest(fileOrder)
  /\ report.step \in {"export", "verify"} =>
       products["manifest"] = ExecutionDigest(fileOrder)

\* A report past its publication finds its own source data and export.
SourceOfReport ==
  /\ report.step \in Publishing =>
       /\ source # Absent
       /\ source.digest = ExecutionDigest(fileOrder)
       /\ source.table = report.loaded
       /\ source.figure = report.loaded
  /\ report.step = "verify" => export = source

\* Source data is of one report and of the seed metrics it names.
SourceFromEvidence ==
  source # Absent =>
    /\ source.table = source.figure
    /\ source.files["seed_metrics"] = source.upstream.registered["seed_metrics"]

\* Without a run beside it, what a report checked stays as it was.
Undisturbed ==
  alone /\ ~ReportRests =>
    /\ RunRests
    /\ report.loaded # Absent =>
         report.loaded = RecordValues /\ MetricEvidencePublished /\ PublishedValuesMatch
    /\ report.step \in Checked => report.evidence = evidence
    /\ report.step \in Publishing => source.files = files

IInv ==
  /\ TypeOK
  /\ EvidenceWritten
  /\ RegisteredTogether
  /\ ProductsRendered
  /\ SourceOfReport
  /\ SourceFromEvidence
  /\ Undisturbed

-----------------------------------------------------------------------------
(* The invariant and the run                                               *)

LEMMA FirstInputs == 1 \in Inputs
BY ReportAssumption DEF Inputs

\* The digest of what a report reads is a sequence of semantic keys.
LEMMA DigestOfFiles == IInv => ExecutionDigest(fileOrder) \in Seq(Cells)
BY ReportAssumption DEF IInv, TypeOK, ExecutionDigest, IsOrder

\* Complete records are measurements.
LEMMA CompleteRecords ==
  ASSUME TypeOK, NEW v, CompleteUnder(v)
  PROVE  RecordValues \in Measurements
<1>1. \A c \in Cells : records[c] \in Record /\ records[c].value # Failed
  BY DEF TypeOK, CompleteUnder, Measured
<1> QED BY <1>1 DEF Record, RecordValues, Measurements

\* The initial state.
LEMMA InitInv == Init => IInv
<1> SUFFICES ASSUME Init PROVE IInv
  OBVIOUS
<1>1. TypeOK
  BY FirstInputs DEF Init, TypeOK, NoRun, NoReport, RunSteps, ReportSteps
<1>2. EvidenceWritten /\ RegisteredTogether
  BY DEF Init, NoRun, EvidenceWritten, RegisteredTogether
<1>3. ProductsRendered /\ SourceOfReport /\ SourceFromEvidence
  BY DEF Init, NoReport, ProductsRendered, SourceOfReport, SourceFromEvidence, Checked,
      Tabled, Drawn, Publishing
<1>4. Undisturbed
  BY DEF Init, Undisturbed
<1> QED BY <1>1, <1>2, <1>3, <1>4 DEF IInv

\* Changing the inputs changes nothing that was recorded.
LEMMA ChangeInputsKeeps ==
  ASSUME IInv, ChangeInputs
  PROVE  IInv'
<1>1. TypeOK'
  BY ReportAssumption DEF IInv, ChangeInputs, runSide, reportSide, TypeOK, Inputs
<1>2. EvidenceWritten'
  BY DEF IInv, ChangeInputs, runSide, EvidenceWritten, RunContent, RecordValues, CompleteUnder
<1>3. RegisteredTogether'
  BY DEF IInv, ChangeInputs, runSide, RegisteredTogether
<1>4. ProductsRendered' /\ SourceOfReport' /\ SourceFromEvidence'
  BY DEF IInv, ChangeInputs, reportSide, ProductsRendered, SourceOfReport, SourceFromEvidence
<1>5. Undisturbed'
  BY DEF IInv, ChangeInputs, runSide, reportSide, Undisturbed, RunRests, ReportRests,
      RecordValues, MetricEvidencePublished, PublishedValuesMatch
<1> QED BY <1>1, <1>2, <1>3, <1>4, <1>5 DEF IInv

\* A run that begins ends the calm of a report.
LEMMA BeginRunKeeps ==
  ASSUME IInv, NEW overwrite \in BOOLEAN, BeginRun(overwrite)
  PROVE  IInv'
<1>1. TypeOK'
  <2>1. run' = [step |-> "cells", begun |-> run.begun + 1, next |-> 1, inputs |-> inputs,
                overwrite |-> overwrite, open |-> FALSE]
    BY DEF BeginRun, NoRun
  <2>2. run' \in [step : RunSteps, begun : Nat, next : Nat, inputs : Inputs,
                 overwrite : BOOLEAN, open : BOOLEAN]
    BY <2>1 DEF IInv, TypeOK, RunSteps
  <2>3. alone' \in BOOLEAN
    BY DEF BeginRun
  <2> QED BY <2>2, <2>3 DEF IInv, BeginRun, TypeOK
<1>2. EvidenceWritten'
  BY DEF BeginRun, EvidenceWritten
<1>3. RegisteredTogether'
  BY DEF IInv, BeginRun, RegisteredTogether
<1>4. ProductsRendered' /\ SourceOfReport' /\ SourceFromEvidence'
  BY DEF IInv, BeginRun, ProductsRendered, SourceOfReport, SourceFromEvidence
<1>5. Undisturbed'
  BY DEF BeginRun, Undisturbed
<1> QED BY <1>1, <1>2, <1>3, <1>4, <1>5 DEF IInv

\* A reused record is left alone.
LEMMA ReuseCellKeeps ==
  ASSUME IInv, NEW c \in Cells, ReuseCell(c)
  PROVE  IInv'
<1>1. TypeOK'
  BY DEF IInv, ReuseCell, reportSide, TypeOK
<1>2. EvidenceWritten'
  BY DEF ReuseCell, Executing, EvidenceWritten
<1>3. RegisteredTogether'
  BY DEF IInv, ReuseCell, RegisteredTogether
<1>4. ProductsRendered' /\ SourceOfReport' /\ SourceFromEvidence'
  BY DEF IInv, ReuseCell, reportSide, ProductsRendered, SourceOfReport, SourceFromEvidence
<1>5. Undisturbed'
  BY DEF IInv, ReuseCell, Executing, reportSide, Undisturbed, RunRests, ReportRests
<1> QED BY <1>1, <1>2, <1>3, <1>4, <1>5 DEF IInv

\* A cell is executed only while no report counts on the records.
LEMMA ExecuteCellKeeps ==
  ASSUME IInv, NEW c \in Cells, NEW value \in Values \union {Failed}, ExecuteCell(c, value)
  PROVE  IInv'
<1>1. TypeOK'
  BY DEF IInv, ExecuteCell, reportSide, TypeOK, Record
<1>2. EvidenceWritten'
  BY DEF ExecuteCell, Executing, EvidenceWritten
<1>3. RegisteredTogether'
  BY DEF IInv, ExecuteCell, RegisteredTogether
<1>4. ProductsRendered' /\ SourceOfReport' /\ SourceFromEvidence'
  BY DEF IInv, ExecuteCell, reportSide, ProductsRendered, SourceOfReport, SourceFromEvidence
<1>5. Undisturbed'
  BY DEF IInv, ExecuteCell, Executing, reportSide, Undisturbed, RunRests, ReportRests
<1> QED BY <1>1, <1>2, <1>3, <1>4, <1>5 DEF IInv

\* Only a complete experiment goes on to its evidence.
LEMMA FinishCellsKeeps ==
  ASSUME IInv, FinishCells
  PROVE  IInv'
<1>1. TypeOK'
  <2>1. CASE CompleteUnder(run.inputs)
    BY <2>1 DEF IInv, FinishCells, reportSide, TypeOK, RunSteps
  <2>2. CASE StopRun
    BY <2>2, FirstInputs DEF IInv, FinishCells, StopRun, NoRun, reportSide, TypeOK, RunSteps
  <2> QED BY <2>1, <2>2 DEF FinishCells
<1>2. EvidenceWritten'
  BY DEF IInv, FinishCells, StopRun, NoRun, EvidenceWritten, CompleteUnder, TypeOK
<1>3. RegisteredTogether'
  BY DEF IInv, FinishCells, RegisteredTogether
<1>4. ProductsRendered' /\ SourceOfReport' /\ SourceFromEvidence'
  BY DEF IInv, FinishCells, reportSide, ProductsRendered, SourceOfReport, SourceFromEvidence
<1>5. Undisturbed'
  BY DEF IInv, FinishCells, reportSide, Undisturbed, RunRests, ReportRests
<1> QED BY <1>1, <1>2, <1>3, <1>4, <1>5 DEF IInv

\* A file is opened by the run that then writes it.
LEMMA OpenEvidenceFileKeeps ==
  ASSUME IInv, NEW f \in EvidenceFiles, OpenEvidenceFile(f)
  PROVE  IInv'
<1>1. TypeOK'
  BY DEF IInv, OpenEvidenceFile, reportSide, TypeOK
<1>2. EvidenceWritten'
  BY DEF IInv, OpenEvidenceFile, EvidenceFiles, EvidenceWritten, RunContent, RecordValues,
      CompleteUnder
<1>3. RegisteredTogether'
  BY FilesAssumption
  DEF IInv, TypeOK, OpenEvidenceFile, EvidenceFiles, reportSide, RegisteredTogether
<1>4. ProductsRendered' /\ SourceOfReport' /\ SourceFromEvidence'
  BY DEF IInv, OpenEvidenceFile, reportSide, ProductsRendered, SourceOfReport,
      SourceFromEvidence
<1>5. Undisturbed'
  BY DEF IInv, OpenEvidenceFile, EvidenceFiles, reportSide, Undisturbed, RunRests, ReportRests
<1> QED BY <1>1, <1>2, <1>3, <1>4, <1>5 DEF IInv

\* A file is written from records that are complete.
LEMMA WriteEvidenceFileKeeps ==
  ASSUME IInv, NEW f \in EvidenceFiles, WriteEvidenceFile(f)
  PROVE  IInv'
<1>1. TypeOK'
  <2>1. RunContent \in Content
    BY CompleteRecords
    DEF IInv, WriteEvidenceFile, EvidenceWritten, TypeOK, RunContent, Content, EvidenceFiles
  <2>2. files' \in [EvidenceFiles -> Content \union {Absent, Torn}]
    BY <2>1 DEF IInv, WriteEvidenceFile, TypeOK, RunContent
  <2>3. AfterFile[f] \in RunSteps
    BY DEF AfterFile, RunSteps, EvidenceFiles
  <2> QED BY <2>2, <2>3 DEF IInv, WriteEvidenceFile, reportSide, TypeOK
<1>2. EvidenceWritten'
  BY DEF IInv, WriteEvidenceFile, EvidenceFiles, AfterFile, EvidenceWritten, RunContent,
      RecordValues, CompleteUnder, TypeOK
<1>3. RegisteredTogether'
  <2>1. RunContent \in Content
    BY CompleteRecords
    DEF IInv, WriteEvidenceFile, EvidenceWritten, TypeOK, RunContent, Content, EvidenceFiles
  <2>2. RunContent # Absent
    BY <2>1, FilesAssumption
  <2> QED BY <2>2
      DEF IInv, TypeOK, WriteEvidenceFile, reportSide, RegisteredTogether, RunContent
<1>4. ProductsRendered' /\ SourceOfReport' /\ SourceFromEvidence'
  BY DEF IInv, WriteEvidenceFile, reportSide, ProductsRendered, SourceOfReport,
      SourceFromEvidence
<1>5. Undisturbed'
  BY DEF IInv, WriteEvidenceFile, EvidenceFiles, reportSide, Undisturbed, RunRests, ReportRests
<1> QED BY <1>1, <1>2, <1>3, <1>4, <1>5 DEF IInv

\* What is registered is what the run wrote.
LEMMA PublishEvidenceKeeps ==
  ASSUME IInv, PublishEvidence
  PROVE  IInv'
<1>1. TypeOK'
  <2>1. RunContent \in Content
    BY CompleteRecords DEF IInv, PublishEvidence, EvidenceWritten, TypeOK, RunContent, Content
  <2>2. files \in [EvidenceFiles -> Content]
    BY <2>1 DEF IInv, PublishEvidence, EvidenceWritten, TypeOK, EvidenceFiles
  <2>3. evidence' \in Evidence
    BY <2>2, ReportAssumption DEF PublishEvidence, Evidence, ExecutionDigest, IsOrder
  <2> QED BY <2>3 DEF IInv, PublishEvidence, reportSide, TypeOK, RunSteps
<1>2. EvidenceWritten'
  BY DEF IInv, PublishEvidence, EvidenceWritten, RunContent, RecordValues, CompleteUnder
<1>3. RegisteredTogether'
  <2>1. RunContent \in Content
    BY CompleteRecords DEF IInv, PublishEvidence, EvidenceWritten, TypeOK, RunContent, Content
  <2>2. RunContent # Absent
    BY <2>1, FilesAssumption
  <2> QED BY <2>2
      DEF IInv, PublishEvidence, EvidenceFiles, RegisteredTogether, EvidenceWritten
<1>4. ProductsRendered' /\ SourceOfReport' /\ SourceFromEvidence'
  BY DEF IInv, PublishEvidence, reportSide, ProductsRendered, SourceOfReport, SourceFromEvidence
<1>5. Undisturbed'
  BY DEF IInv, PublishEvidence, reportSide, Undisturbed, RunRests, ReportRests
<1> QED BY <1>1, <1>2, <1>3, <1>4, <1>5 DEF IInv

\* A killed run leaves the records and files as they are.
LEMMA CrashRunKeeps ==
  ASSUME IInv, CrashRun
  PROVE  IInv'
<1>1. TypeOK'
  BY FirstInputs DEF IInv, CrashRun, StopRun, NoRun, reportSide, TypeOK, RunSteps
<1>2. EvidenceWritten'
  BY DEF CrashRun, StopRun, NoRun, EvidenceWritten
<1>3. RegisteredTogether'
  BY DEF IInv, CrashRun, RegisteredTogether
<1>4. ProductsRendered' /\ SourceOfReport' /\ SourceFromEvidence'
  BY DEF IInv, CrashRun, reportSide, ProductsRendered, SourceOfReport, SourceFromEvidence
<1>5. Undisturbed'
  BY DEF IInv, CrashRun, reportSide, Undisturbed, ReportRests
<1> QED BY <1>1, <1>2, <1>3, <1>4, <1>5 DEF IInv

-----------------------------------------------------------------------------
(* The invariant and the report                                            *)

\* What is loaded is what the records hold.
LEMMA LoadKeeps ==
  ASSUME IInv, Load
  PROVE  IInv'
<1>1. TypeOK'
  <2>1. Loadable => RecordValues \in Measurements
    BY CompleteRecords DEF IInv, Loadable
  <2>2. report' = [step |-> "check", loaded |-> IF Loadable THEN RecordValues ELSE Absent,
                   evidence |-> Absent, open |-> FALSE]
    BY DEF Load, NoReport
  <2>3. report' \in [step : ReportSteps, loaded : Measurements \union {Absent},
                    evidence : Evidence \union {Absent}, open : BOOLEAN]
    BY <2>1, <2>2 DEF ReportSteps
  <2>4. alone' \in BOOLEAN
    BY DEF Load, RunRests
  <2> QED BY <2>3, <2>4 DEF IInv, Load, runSide, TypeOK
<1>2. EvidenceWritten' /\ RegisteredTogether'
  BY DEF IInv, Load, runSide, EvidenceWritten, RegisteredTogether, RunContent, RecordValues,
      CompleteUnder
<1>3. ProductsRendered'
  BY DEF Load, ProductsRendered, Checked, Tabled, Drawn, Publishing
<1>4. SourceOfReport' /\ SourceFromEvidence'
  BY DEF IInv, Load, SourceOfReport, SourceFromEvidence, Publishing
<1>5. Undisturbed'
  BY DEF Load, NoReport, runSide, Undisturbed, RunRests, Loadable, MetricEvidencePublished,
      PublishedValuesMatch, RecordValues, Checked, Tabled, Drawn, Publishing
<1> QED BY <1>1, <1>2, <1>3, <1>4, <1>5 DEF IInv

\* The report keeps the identity it checked.
LEMMA CheckKeeps ==
  ASSUME IInv, Check
  PROVE  IInv'
<1>1. UNCHANGED <<runSide, given, products, source, export, alone>> /\ report.step = "check"
  BY DEF Check
<1>2. EvidenceWritten' /\ RegisteredTogether'
  BY <1>1 DEF IInv, runSide, EvidenceWritten, RegisteredTogether, RunContent, RecordValues,
      CompleteUnder
<1>3. CASE EndReport("refused")
  BY <1>1, <1>2, <1>3
  DEF IInv, EndReport, NoReport, runSide, TypeOK, ReportSteps, ProductsRendered, SourceOfReport,
      SourceFromEvidence, Undisturbed, ReportRests, Checked, Tabled, Drawn, Publishing
<1>4. CASE /\ report.loaded # Absent /\ MetricEvidencePublished
           /\ report' = [report EXCEPT !.step = "table", !.evidence = evidence]
  <2>1. report'.step = "table" /\ report'.loaded = report.loaded /\ report'.evidence = evidence
    BY <1>4 DEF IInv, TypeOK
  <2>2. TypeOK'
    BY <1>1, <1>4 DEF IInv, TypeOK, runSide, ReportSteps
  <2>3. ProductsRendered' /\ SourceOfReport' /\ SourceFromEvidence'
    BY <1>1, <1>4, <2>1
    DEF IInv, runSide, ProductsRendered, SourceOfReport, SourceFromEvidence,
        MetricEvidencePublished, Checked, Tabled, Drawn, Publishing
  <2>4. Undisturbed'
    BY <1>1, <1>4, <2>1
    DEF IInv, runSide, Undisturbed, RunRests, ReportRests, RecordValues,
        MetricEvidencePublished, PublishedValuesMatch, Checked, Tabled, Drawn, Publishing
  <2> QED BY <1>2, <2>2, <2>3, <2>4 DEF IInv
<1> QED BY <1>3, <1>4 DEF Check

\* A product is opened by the step that then writes it.
LEMMA OpenProductKeeps ==
  ASSUME IInv, NEW p \in Products, OpenProduct(p)
  PROVE  IInv'
<1>1. TypeOK'
  BY DEF IInv, OpenProduct, runSide, TypeOK
<1>2. EvidenceWritten' /\ RegisteredTogether'
  BY DEF IInv, OpenProduct, runSide, EvidenceWritten, RegisteredTogether, RunContent,
      RecordValues, CompleteUnder
<1>3. ProductsRendered'
  BY DEF IInv, OpenProduct, ProductsRendered, Tabled, Drawn, Publishing
<1>4. SourceOfReport' /\ SourceFromEvidence'
  BY DEF IInv, OpenProduct, SourceOfReport, SourceFromEvidence
<1>5. Undisturbed'
  BY DEF IInv, OpenProduct, runSide, Undisturbed, ReportRests, RunRests,
      MetricEvidencePublished, PublishedValuesMatch, RecordValues
<1> QED BY <1>1, <1>2, <1>3, <1>4, <1>5 DEF IInv

\* A product shows what the report loaded.
LEMMA WriteProductKeeps ==
  ASSUME IInv, NEW p \in Products, WriteProduct(p)
  PROVE  IInv'
<1>1. TypeOK'
  <2>1. Rendering(p) \in Measurements \union Seq(Cells)
    BY DigestOfFiles
    DEF IInv, TypeOK, WriteProduct, ProductsRendered, Checked, Tabled, Drawn, Rendering
  <2>2. AfterProduct[p] \in ReportSteps
    BY DEF AfterProduct, Products, ReportSteps
  <2> QED BY <2>1, <2>2 DEF IInv, WriteProduct, runSide, TypeOK
<1>2. EvidenceWritten' /\ RegisteredTogether'
  BY DEF IInv, WriteProduct, runSide, EvidenceWritten, RegisteredTogether, RunContent,
      RecordValues, CompleteUnder
<1>3. ProductsRendered'
  BY DEF IInv, WriteProduct, Products, AfterProduct, Rendering, ProductsRendered, Checked,
      Tabled, Drawn, Publishing, TypeOK
<1>4. SourceOfReport' /\ SourceFromEvidence'
  BY DEF IInv, WriteProduct, Products, AfterProduct, SourceOfReport, SourceFromEvidence,
      Publishing
<1>5. Undisturbed'
  BY DEF IInv, WriteProduct, Products, AfterProduct, runSide, Undisturbed, ReportRests,
      RunRests, MetricEvidencePublished, PublishedValuesMatch, RecordValues, Checked, Tabled,
      Drawn, Publishing
<1> QED BY <1>1, <1>2, <1>3, <1>4, <1>5 DEF IInv

\* Source data takes up what is on disk.
LEMMA PublishSourceKeeps ==
  ASSUME IInv, PublishSource
  PROVE  IInv'
<1>a. /\ source' # Absent
      /\ source'.digest = ExecutionDigest(fileOrder) /\ source'.upstream = evidence
      /\ source'.table = report.loaded /\ source'.figure = report.loaded
      /\ source'.files = files
      /\ source' \in Source
  <2>1. evidence \in Evidence /\ report.loaded \in Measurements
    BY DEF IInv, TypeOK, PublishSource, EvidenceStillCurrent, ProductsRendered, Checked,
        Tabled, Drawn
  <2>2. files \in [EvidenceFiles -> Content \union {Torn}]
    BY <2>1, FilesAssumption DEF IInv, TypeOK, RegisteredTogether
  <2>3. products["table"] = report.loaded /\ products["figure"] = report.loaded
    BY DEF IInv, PublishSource, ProductsRendered, Tabled, Drawn
  <2>4. source' = [digest |-> ExecutionDigest(fileOrder), upstream |-> evidence,
                   table |-> report.loaded, figure |-> report.loaded, files |-> files]
    BY <2>3 DEF PublishSource
  <2>5. source' \in Source
    BY <2>1, <2>2, <2>4, DigestOfFiles DEF Source
  <2> QED BY <2>4, <2>5, FilesAssumption
<1>1. TypeOK'
  BY <1>a DEF IInv, PublishSource, runSide, TypeOK, ReportSteps
<1>2. EvidenceWritten' /\ RegisteredTogether'
  BY DEF IInv, PublishSource, runSide, EvidenceWritten, RegisteredTogether, RunContent,
      RecordValues, CompleteUnder
<1>3. ProductsRendered'
  BY DEF IInv, PublishSource, ProductsRendered, Checked, Tabled, Drawn
<1>4. SourceOfReport' /\ SourceFromEvidence'
  BY <1>a DEF PublishSource, EvidenceStillCurrent, SourceOfReport, SourceFromEvidence
<1>5. Undisturbed'
  BY <1>a DEF IInv, PublishSource, EvidenceStillCurrent, runSide, Undisturbed, ReportRests,
      RunRests, MetricEvidencePublished, PublishedValuesMatch, RecordValues
<1> QED BY <1>1, <1>2, <1>3, <1>4, <1>5 DEF IInv

\* The export names the report's own source data.
LEMMA PublishExportKeeps ==
  ASSUME IInv, PublishExport
  PROVE  IInv'
<1>1. TypeOK'
  BY DEF IInv, PublishExport, runSide, TypeOK, ReportSteps
<1>2. EvidenceWritten' /\ RegisteredTogether'
  BY DEF IInv, PublishExport, runSide, EvidenceWritten, RegisteredTogether, RunContent,
      RecordValues, CompleteUnder
<1>3. ProductsRendered'
  BY DEF IInv, PublishExport, ProductsRendered, Checked, Tabled, Drawn, Publishing
<1>4. SourceOfReport' /\ SourceFromEvidence'
  BY DEF IInv, PublishExport, SourceOfReport, SourceFromEvidence, Publishing
<1>5. Undisturbed'
  BY DEF IInv, PublishExport, runSide, Undisturbed, ReportRests, RunRests,
      MetricEvidencePublished, PublishedValuesMatch, RecordValues, Checked, Tabled, Drawn,
      Publishing
<1> QED BY <1>1, <1>2, <1>3, <1>4, <1>5 DEF IInv

\* A refused report claims nothing.
LEMMA RefuseValuesKeeps ==
  ASSUME IInv, RefuseValues
  PROVE  IInv'
<1>1. TypeOK'
  BY DEF IInv, RefuseValues, EndReport, NoReport, runSide, TypeOK, ReportSteps
<1>2. EvidenceWritten' /\ RegisteredTogether'
  BY DEF IInv, RefuseValues, runSide, EvidenceWritten, RegisteredTogether, RunContent,
      RecordValues, CompleteUnder
<1>3. ProductsRendered'
  BY DEF RefuseValues, EndReport, ProductsRendered, Checked, Tabled, Drawn, Publishing
<1>4. SourceOfReport' /\ SourceFromEvidence'
  BY DEF IInv, RefuseValues, EndReport, SourceOfReport, SourceFromEvidence, Publishing
<1>5. Undisturbed'
  BY DEF RefuseValues, EndReport, Undisturbed, ReportRests
<1> QED BY <1>1, <1>2, <1>3, <1>4, <1>5 DEF IInv

\* Nor does one refused at its source data,
LEMMA RefuseSourceKeeps ==
  ASSUME IInv, RefuseSource
  PROVE  IInv'
<1>1. TypeOK'
  BY DEF IInv, RefuseSource, EndReport, NoReport, runSide, TypeOK, ReportSteps
<1>2. EvidenceWritten' /\ RegisteredTogether'
  BY DEF IInv, RefuseSource, runSide, EvidenceWritten, RegisteredTogether, RunContent,
      RecordValues, CompleteUnder
<1>3. ProductsRendered'
  BY DEF RefuseSource, EndReport, ProductsRendered, Checked, Tabled, Drawn, Publishing
<1>4. SourceOfReport' /\ SourceFromEvidence'
  BY DEF IInv, RefuseSource, EndReport, SourceOfReport, SourceFromEvidence, Publishing
<1>5. Undisturbed'
  BY DEF RefuseSource, EndReport, Undisturbed, ReportRests
<1> QED BY <1>1, <1>2, <1>3, <1>4, <1>5 DEF IInv

\* one that ended,
LEMMA VerifyKeeps ==
  ASSUME IInv, Verify
  PROVE  IInv'
<1>1. TypeOK'
  BY DEF IInv, Verify, EndReport, NoReport, runSide, TypeOK, ReportSteps
<1>2. EvidenceWritten' /\ RegisteredTogether'
  BY DEF IInv, Verify, runSide, EvidenceWritten, RegisteredTogether, RunContent, RecordValues,
      CompleteUnder
<1>3. ProductsRendered'
  BY DEF Verify, EndReport, ProductsRendered, Checked, Tabled, Drawn, Publishing
<1>4. SourceOfReport' /\ SourceFromEvidence'
  BY DEF IInv, Verify, EndReport, SourceOfReport, SourceFromEvidence, Publishing
<1>5. Undisturbed'
  BY DEF Verify, EndReport, Undisturbed, ReportRests
<1> QED BY <1>1, <1>2, <1>3, <1>4, <1>5 DEF IInv

\* or one that was killed.
LEMMA CrashReportKeeps ==
  ASSUME IInv, CrashReport
  PROVE  IInv'
<1>1. TypeOK'
  BY DEF IInv, CrashReport, NoReport, runSide, TypeOK, ReportSteps
<1>2. EvidenceWritten' /\ RegisteredTogether'
  BY DEF IInv, CrashReport, runSide, EvidenceWritten, RegisteredTogether, RunContent,
      RecordValues, CompleteUnder
<1>3. ProductsRendered'
  BY DEF CrashReport, NoReport, ProductsRendered, Checked, Tabled, Drawn, Publishing
<1>4. SourceOfReport' /\ SourceFromEvidence'
  BY DEF IInv, CrashReport, NoReport, SourceOfReport, SourceFromEvidence, Publishing
<1>5. Undisturbed'
  BY DEF CrashReport, NoReport, Undisturbed, ReportRests
<1> QED BY <1>1, <1>2, <1>3, <1>4, <1>5 DEF IInv

-----------------------------------------------------------------------------
(* The theorems                                                            *)

LEMMA NextKeeps == IInv /\ [Next]_vars => IInv'
<1> SUFFICES ASSUME IInv, [Next]_vars PROVE IInv'
  OBVIOUS
<1>1. CASE ChangeInputs
  BY <1>1, ChangeInputsKeeps
<1>2. CASE RunNext
  BY <1>2, BeginRunKeeps, ReuseCellKeeps, ExecuteCellKeeps, FinishCellsKeeps,
     OpenEvidenceFileKeeps, WriteEvidenceFileKeeps, PublishEvidenceKeeps, CrashRunKeeps
  DEF RunNext
<1>3. CASE ReportNext
  BY <1>3, LoadKeeps, RefuseValuesKeeps, CheckKeeps, OpenProductKeeps, WriteProductKeeps,
     PublishSourceKeeps, RefuseSourceKeeps, PublishExportKeeps, VerifyKeeps, CrashReportKeeps
  DEF ReportNext
<1>4. CASE UNCHANGED vars
  BY <1>4
  DEF vars, IInv, TypeOK, EvidenceWritten, RegisteredTogether, ProductsRendered, SourceOfReport,
      SourceFromEvidence, Undisturbed, RunContent, RecordValues, CompleteUnder, RunRests,
      ReportRests, MetricEvidencePublished, PublishedValuesMatch
<1> QED BY <1>1, <1>2, <1>3, <1>4 DEF Next

LEMMA InvariantHolds == Spec => []IInv
BY InitInv, NextKeeps, PTL DEF Spec

\* Records, evidence, products and published artifacts keep their types.
THEOREM ReportTypeCorrect == Spec => []TypeOK
<1>1. IInv => TypeOK
  BY DEF IInv
<1> QED BY <1>1, InvariantHolds, PTL

\* What verify_persisted_experiment_report accepts is the product of one
\* report over the seed metrics that its source data names, even when runs
\* and kills came in between.
THEOREM PersistedReportsAreWhole == Spec => []PersistedReportIsWhole
<1>1. IInv => PersistedReportIsWhole
  BY DEF IInv, SourceFromEvidence, PersistedReportIsWhole, PersistedReportPasses,
      SourceProductsCurrent
<1> QED BY <1>1, InvariantHolds, PTL

\* A report that ends well without a run beside it shows the values of the
\* records in its table, its figure and the evidence files.
THEOREM ReportsAgree == Spec => ReportAgrees
<1>1. ASSUME IInv, alone, report.step = "verify"
      PROVE  /\ products["table"] = RecordValues
             /\ products["figure"] = RecordValues
             /\ \A f \in EvidenceFiles : files[f].values = RecordValues
  <2>1. report.step \in Checked /\ report.step \in Tabled /\ report.step \in Drawn
    BY <1>1 DEF Checked, Tabled, Drawn, Publishing
  <2>2. report.loaded # Absent /\ products["table"] = report.loaded /\ products["figure"] = report.loaded
    BY <1>1, <2>1 DEF IInv, ProductsRendered
  <2>3. report.loaded = RecordValues /\ MetricEvidencePublished /\ PublishedValuesMatch
    BY <1>1, <2>2 DEF IInv, Undisturbed, ReportRests
  <2>4. files["seed_metrics"] = files["cell_metrics"]
    BY <1>1, <2>3 DEF IInv, RegisteredTogether, MetricEvidencePublished
  <2> QED BY <2>2, <2>3, <2>4 DEF PublishedValuesMatch, EvidenceFiles
<1>2. IInv /\ [Next]_vars =>
        [alone /\ report.step = "verify" /\ report'.step = "done" =>
           /\ products["table"] = RecordValues
           /\ products["figure"] = RecordValues
           /\ \A f \in EvidenceFiles : files[f].values = RecordValues]_vars
  BY <1>1
<1> QED BY <1>2, InvariantHolds, PTL DEF Spec, ReportAgrees

\* When a report is past its checks and no run began beside it, what it
\* verifies is in place.
LEMMA ChecksStay ==
  ASSUME IInv, alone, report.step \in Checked
  PROVE  /\ report.step = "source" => EvidenceStillCurrent
         /\ report.step = "verify" => EvidenceFilesComplete /\ PersistedReportPasses
<1>1. /\ MetricEvidencePublished
      /\ report.evidence = evidence
      /\ report.step \in Publishing => source.files = files
  BY DEF IInv, Undisturbed, ProductsRendered, ReportRests, Checked, Tabled, Drawn, Publishing
<1>2. report.step = "source" => EvidenceStillCurrent
  BY <1>1 DEF EvidenceStillCurrent, MetricEvidencePublished
<1>3. ASSUME report.step = "verify" PROVE EvidenceFilesComplete /\ PersistedReportPasses
  <2>1. evidence \in Evidence
    BY <1>1 DEF IInv, TypeOK, MetricEvidencePublished
  <2>2. files \in [EvidenceFiles -> Content]
    BY <1>1, <2>1 DEF MetricEvidencePublished, Evidence
  <2>3. EvidenceFilesComplete
    BY <2>2, FilesAssumption DEF EvidenceFilesComplete
  <2>4. /\ products["table"] = report.loaded /\ products["figure"] = report.loaded
        /\ products["summary"] = ExecutionDigest(fileOrder)
        /\ products["manifest"] = ExecutionDigest(fileOrder)
        /\ report.loaded # Absent
    BY <1>3 DEF IInv, ProductsRendered, Checked, Tabled, Drawn
  <2>5. ExecutionDigest(fileOrder) # Absent
    BY DigestOfFiles, FilesAssumption
  <2>6. /\ source # Absent /\ source.digest = ExecutionDigest(fileOrder)
        /\ source.table = report.loaded /\ source.figure = report.loaded
        /\ export = source /\ source.files = files
    BY <1>1, <1>3 DEF IInv, SourceOfReport, Publishing
  <2> QED BY <2>3, <2>4, <2>5, <2>6 DEF PersistedReportPasses, SourceProductsCurrent, Products
<1> QED BY <1>2, <1>3

\* A report that passed its checks is not refused later unless a run begins
\* beside it.
THEOREM ReportsGoThrough == Spec => ReportGoesThrough
<1> DEFINE Through ==
      alone /\ ~ReportRests /\ report.step # "check" => report'.step # "refused"
<1>1. ASSUME IInv, [Next]_vars, alone, ~ReportRests, report.step # "check"
      PROVE  report'.step # "refused"
  <2>1. report.step \in Checked
    BY <1>1 DEF IInv, TypeOK, ReportSteps, ReportRests, Checked, Tabled, Drawn, Publishing
  <2>2. CASE ChangeInputs \/ RunNext \/ UNCHANGED vars
    BY <1>1, <2>2
    DEF ChangeInputs, RunNext, BeginRun, ReuseCell, ExecuteCell, FinishCells, OpenEvidenceFile,
        WriteEvidenceFile, PublishEvidence, CrashRun, reportSide, vars, ReportRests
  <2>3. CASE Load \/ RefuseValues \/ Check
    BY <1>1, <2>3 DEF Load, RefuseValues, Check
  <2>4. ASSUME NEW p \in Products, OpenProduct(p) \/ WriteProduct(p)
        PROVE  report'.step # "refused"
    <3>1. AfterProduct[p] # "refused"
      BY DEF AfterProduct, Products
    <3>2. OpenProduct(p) => report'.step = report.step
      BY <1>1 DEF IInv, TypeOK, OpenProduct
    <3>3. WriteProduct(p) => report'.step = AfterProduct[p]
      BY <1>1 DEF IInv, TypeOK, WriteProduct
    <3> QED BY <1>1, <2>1, <2>4, <3>1, <3>2, <3>3
            DEF Checked, Tabled, Drawn, Publishing
  <2>5. CASE PublishSource \/ RefuseSource
    BY <1>1, <2>1, <2>5, ChecksStay DEF IInv, TypeOK, PublishSource, RefuseSource
  <2>6. CASE PublishExport
    BY <2>6 DEF IInv, TypeOK, PublishExport
  <2>7. CASE Verify
    BY <1>1, <2>1, <2>7, ChecksStay DEF Verify, EndReport, NoReport
  <2>8. CASE CrashReport
    BY <2>8 DEF CrashReport, NoReport
  <2> QED BY <1>1, <2>2, <2>3, <2>4, <2>5, <2>6, <2>7, <2>8 DEF Next, ReportNext
<1>2. IInv /\ [Next]_vars => [Through]_vars
  BY <1>1
<1> QED BY <1>2, InvariantHolds, PTL DEF Spec, ReportGoesThrough

\* Only the order of the record files stands between a completed run and its
\* report, whatever the plan: the evidence is accepted exactly when the files
\* sort in planned order.
THEOREM ReportableExactly == Spec => []ReportableInPlanOrder
<1>1. IInv => ReportableInPlanOrder
  <2> SUFFICES ASSUME IInv, Settled
               PROVE  PublishedValuesMatch /\ (Loadable <=> fileOrder = PlanOrder)
    BY DEF ReportableInPlanOrder
  <2>1. /\ CompleteUnder(inputs)
        /\ files["cell_metrics"] = RunContent
        /\ evidence = [digest |-> ExecutionDigest(PlanOrder), registered |-> files]
    BY DEF IInv, EvidenceWritten, Settled
  <2>2. evidence # Absent
    <3>1. RunContent \in Content
      BY <2>1, CompleteRecords DEF IInv, TypeOK, RunContent, Content
    <3>2. files \in [EvidenceFiles -> Content]
      BY <3>1 DEF IInv, TypeOK, EvidenceWritten, Settled, EvidenceFiles
    <3>3. evidence \in Evidence
      BY <2>1, <3>2, ReportAssumption DEF Evidence, ExecutionDigest, IsOrder
    <3> QED BY <3>3, FilesAssumption
  <2>3. MetricEvidencePublished <=> fileOrder = PlanOrder
    BY <2>1, <2>2 DEF MetricEvidencePublished, ExecutionDigest
  <2> QED BY <2>1, <2>3 DEF Loadable, PublishedValuesMatch, RunContent
<1> QED BY <1>1, InvariantHolds, PTL
=============================================================================
