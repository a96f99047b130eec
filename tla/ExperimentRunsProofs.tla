------------------------ MODULE ExperimentRunsProofs ------------------------
(***************************************************************************)
(* What ExperimentRuns does for every plan, every set of prerequisites and *)
(* any number of processes and changes of the inputs.                      *)
(*                                                                         *)
(* A record can only be disturbed by the process that executes its cell,   *)
(* and of the processes that run side by side none works on another's      *)
(* experiment or prerequisites (OnlyOwnCells).  So the cells a run has     *)
(* passed keep its provenance, and its prerequisites stay as they were     *)
(* checked.                                                                *)
(***************************************************************************)
EXTENDS ExperimentRuns, TLAPS

\* Runs side by side are of different experiments with the same prerequisites.
RunsSeparate ==
  \A p, q \in Processes :
    p # q /\ Running(p) /\ Running(q)
      => Ours(p) # Ours(q) /\ Prerequisites[Ours(p)] = Prerequisites[Ours(q)]

\* A run begins at its first cell, and one that writes a record is at a cell of
\* its plan, whose file it has opened.
RunPosition ==
  \A p \in Processes :
    /\ At(p, "capture") => runs[p].next = 1
    /\ At(p, "record") => ~AllCellsDone(p) /\ records[Cell(p)] = Torn

\* A deciding process is at one of the collapse experiments in turn, and has a
\* decision for each it has passed in the second loop.
DecisionPosition ==
  \A p \in Processes :
    /\ runs[p].step \notin {"read", "compare"} => runs[p].decisions = << >>
    /\ At(p, "check") /\ Ours(p) \in Collapse => ~AllConsidered(p)
    /\ At(p, "compare") => ~AllConsidered(p)
    /\ runs[p].step \in {"read", "compare"} => Len(runs[p].decisions) = runs[p].next - 1

\* Comparison evidence is of all records of one run.
EvidenceWhole ==
  \A e \in Collapse : compared[e] # Absent =>
    /\ DOMAIN compared[e] = PlannedCells(e)
    /\ \E v \in Provenances : \A c \in PlannedCells(e) : compared[e][c].provenance = v

\* The collapse experiments found completed in the first loop stay so, but for
\* those that are run again.
CheckedStay ==
  \A p \in Processes, i \in DOMAIN CollapseOrder :
    /\ runs[p].step \in {"read", "compare"} \/ (At(p, "check") /\ i < runs[p].next)
    /\ CollapseOrder[i] \notin rerun[p]
    => \E v \in Provenances : CompleteUnder(CollapseOrder[i], v)

\* The records read of such an experiment are completed ones.
ReadCompleted ==
  \A p \in Processes :
    At(p, "compare") /\ Considered(p) \notin rerun[p]
      => \A c \in DOMAIN runs[p].read : runs[p].read[c].state = "COMPLETED"

\* The cells a run has passed have records of its own provenance.
CellsPassed ==
  \A p \in Processes : \A k \in 1..(runs[p].next - 1) :
    runs[p].step \in {"cells", "record"} =>
      /\ records[Plan[Ours(p)][k]] \in Record
      /\ records[Plan[Ours(p)][k]].provenance = runs[p].provenance

\* Prerequisites stay complete under the inputs they were checked with.
PrerequisitesChecked ==
  \A p \in Processes :
    Running(p) => \A f \in Prerequisites[Ours(p)] : CompleteUnder(f, runs[p].checked)

IInv ==
  /\ TypeOK
  /\ RunsSeparate
  /\ RunPosition
  /\ CellsPassed
  /\ CompletedRunCoversPlan
  /\ PrerequisitesChecked
  /\ EvidenceMatchesRecords

DecisionInv ==
  /\ DecisionPosition
  /\ EvidenceWhole
  /\ CheckedStay
  /\ ReadCompleted
  /\ CoreRestsOnRuns

-----------------------------------------------------------------------------
(* The plan and who may disturb what                                       *)

\* Planned cells are cells, numbered from 1.
LEMMA PlanFacts ==
  ASSUME NEW e \in Experiments
  PROVE  /\ Len(Plan[e]) \in Nat
         /\ DOMAIN Plan[e] = 1..Len(Plan[e])
         /\ \A k \in 1..Len(Plan[e]) : Plan[e][k] \in Cells
         /\ PlannedCells(e) = {Plan[e][k] : k \in 1..Len(Plan[e])}
<1>1. Plan[e] \in Seq(Cells)
  BY PlanAssumption
<1> QED BY <1>1 DEF PlannedCells, Range

\* No cell is planned twice, in one experiment or in two.
LEMMA PlannedOnce ==
  ASSUME NEW e \in Experiments, NEW f \in Experiments,
         NEW i \in 1..Len(Plan[e]), NEW j \in 1..Len(Plan[f]),
         Plan[e][i] = Plan[f][j]
  PROVE  e = f /\ i = j
BY PlanFacts, PlanAssumption

\* The initial state of a process is a run.
LEMMA IdleFacts ==
  Idle \in Run /\ Idle.step = "idle" /\ Idle.next <= Len(Plan[Idle.experiment]) + 1
<1>1. (CHOOSE e \in Experiments : TRUE) \in Experiments
  BY PlanAssumption
<1>2. 1 \in Provenances
  BY PlanAssumption DEF Provenances
<1>2a. Nothing \in Contents /\ << >> \in Seq(Decision)
  <2>1. Nothing \in [{} -> Record]
    BY DEF Nothing
  <2> QED BY <2>1 DEF Contents
<1>3. Idle \in Run
  BY <1>1, <1>2, <1>2a DEF Idle, Run, Steps, RunningSteps, DecidingSteps
<1>4. Len(Plan[Idle.experiment]) \in Nat
  BY <1>3, PlanFacts DEF Run
<1> QED BY <1>3, <1>4 DEF Idle

\* A run that is not deciding, within its plan, leaves everyone within theirs.
LEMMA CountsKept ==
  ASSUME IInv, NEW p \in Processes, NEW r \in Run,
         r.step \notin DecidingSteps, r.next <= Len(Plan[r.experiment]) + 1,
         runs'[p] = r, \A q \in Processes : q # p => runs'[q] = runs[q]
  PROVE  \A q \in Processes :
           runs'[q].next <= 1 + IF Deciding(q)' THEN Len(CollapseOrder) ELSE Len(Plan[Ours(q)'])
<1> SUFFICES ASSUME NEW q \in Processes
             PROVE  runs'[q].next <= 1 + IF Deciding(q)' THEN Len(CollapseOrder)
                                         ELSE Len(Plan[Ours(q)'])
    OBVIOUS
<1>1. CASE q = p
  <2>1. ~Deciding(q)' /\ Ours(q)' = r.experiment /\ runs'[q].next = r.next
    BY <1>1 DEF Deciding, Ours
  <2>2. r.experiment \in Experiments /\ r.next \in Nat
    BY DEF Run
  <2>3. Len(Plan[r.experiment]) \in Nat
    BY <2>2, PlanFacts
  <2> QED BY <2>1, <2>2, <2>3
<1>2. CASE q # p
  BY <1>2 DEF IInv, TypeOK, Ours, Deciding
<1> QED BY <1>1, <1>2

\* The cell a process executes is none another run has passed, planned or
\* requires, and none the process itself has passed or requires.
LEMMA OnlyOwnCells ==
  ASSUME IInv,
         NEW q \in Processes, runs[q].step \in {"cells", "record"}, ~AllCellsDone(q)
  PROVE  /\ Cell(q) \in Cells /\ Cell(q) \in PlannedCells(Ours(q))
         /\ \A k \in 1..(runs[q].next - 1) : Plan[Ours(q)][k] # Cell(q)
         /\ \A f \in Experiments : Cell(q) \in PlannedCells(f) => f = Ours(q)
         /\ \A p \in Processes : Running(p) =>
              /\ \A f \in Prerequisites[Ours(p)] : Cell(q) \notin PlannedCells(f)
              /\ p # q => Cell(q) \notin PlannedCells(Ours(p))
<1>1. /\ runs[q] \in Run /\ Ours(q) \in Experiments
      /\ runs[q].next \in 1..Len(Plan[Ours(q)])
  <2>1. runs[q] \in Run
    BY DEF IInv, TypeOK
  <2>2. Ours(q) \in Experiments
    BY <2>1 DEF Run, Ours
  <2> QED BY <2>1, <2>2, PlanFacts DEF Run, AllCellsDone
<1>2. Cell(q) \in Cells /\ Cell(q) \in PlannedCells(Ours(q))
  BY <1>1, PlanFacts DEF Cell
<1>3. \A k \in 1..(runs[q].next - 1) : Plan[Ours(q)][k] # Cell(q)
  BY <1>1, PlanFacts, PlannedOnce DEF Cell
<1>4. \A f \in Experiments : Cell(q) \in PlannedCells(f) => f = Ours(q)
  BY <1>1, PlanFacts, PlannedOnce DEF Cell
<1>5. ASSUME NEW p \in Processes, Running(p)
      PROVE  /\ Ours(p) \in Experiments
             /\ Prerequisites[Ours(p)] \subseteq Experiments
             /\ Ours(q) \notin Prerequisites[Ours(p)]
             /\ p # q => Ours(p) # Ours(q)
  <2>1. Ours(p) \in Experiments
    BY DEF IInv, TypeOK, Run, Ours
  <2>2. Running(q)
    BY DEF Running, RunningSteps, DecidingSteps
  <2>3. p # q => Ours(p) # Ours(q) /\ Prerequisites[Ours(p)] = Prerequisites[Ours(q)]
    BY <1>5, <2>2 DEF IInv, RunsSeparate
  <2> QED BY <2>1, <2>3, <1>1, PlanAssumption
<1> QED BY <1>2, <1>3, <1>4, <1>5

-----------------------------------------------------------------------------
(* The initial states                                                      *)

\* An empty workspace with idle processes.
THEOREM RunsInit == Init => IInv
<1> SUFFICES ASSUME Init PROVE IInv
    OBVIOUS
<1>1. /\ \A p \in Processes : runs[p] = Idle /\ runs[p].step = "idle"
      /\ runs \in [Processes -> Run]
      /\ \A p \in Processes : runs[p].next <= Len(Plan[Ours(p)]) + 1
  BY IdleFacts DEF Init, Ours
<1>2. TypeOK
  <2>1. 1 \in Provenances
    BY PlanAssumption DEF Provenances
  <2>2. \A p \in Processes : ~Deciding(p)
    BY <1>1 DEF Deciding, DecidingSteps
  <2>3. \A p \in Processes : Len(Plan[Ours(p)]) \in Nat /\ runs[p].next \in Nat
    BY <1>1, PlanFacts DEF Run, Ours
  <2>4. \A p \in Processes :
          runs[p].next <= 1 + IF Deciding(p) THEN Len(CollapseOrder) ELSE Len(Plan[Ours(p)])
    BY <1>1, <2>2, <2>3
  <2> QED BY <1>1, <2>1, <2>4 DEF Init, TypeOK
<1>3. \A p \in Processes :
        ~Running(p) /\ ~Deciding(p) /\ ~At(p, "record") /\ ~At(p, "capture")
  BY <1>1 DEF Running, Deciding, RunningSteps, DecidingSteps, At
<1>4. RunsSeparate /\ RunPosition /\ PrerequisitesChecked
  BY <1>3 DEF RunsSeparate, RunPosition, PrerequisitesChecked
<1>5. CellsPassed /\ CompletedRunCoversPlan /\ EvidenceMatchesRecords
  BY <1>1, <1>3 DEF CellsPassed, CompletedRunCoversPlan, EvidenceMatchesRecords
<1> QED BY <1>2, <1>4, <1>5 DEF IInv

-----------------------------------------------------------------------------
(* One lemma per kind of step                                              *)

\* A run that ends, is refused or fails leaves the files as they are, but for
\* the evidence of its own experiment and the core.
LEMMA LeaveKeepsInv ==
  ASSUME IInv, NEW p \in Processes, NEW s \in {"idle", "blocked", "unreadable"},
         Leave(p, s),
         UNCHANGED <<records, inputs>>,
         core' \in [Directories -> BOOLEAN],
         compared' \in [Collapse -> Contents \union {Absent}],
         \A e \in Collapse : compared'[e] = compared[e] \/ (Running(p) /\ e = Ours(p))
  PROVE  IInv'
<1> DEFINE r == [Idle EXCEPT !.step = s]
<1>1. r \in Run /\ r.step = s /\ r.next <= Len(Plan[r.experiment]) + 1
  BY IdleFacts DEF Run, Steps
<1>2. runs' = [runs EXCEPT ![p] = r] /\ rerun' = [rerun EXCEPT ![p] = {}]
  BY DEF Leave
<1> HIDE DEF r
<1>3. /\ runs' \in [Processes -> Run]
      /\ runs'[p] = r
      /\ \A q \in Processes : q # p => runs'[q] = runs[q]
      /\ ~Running(p)' /\ ~Deciding(p)' /\ ~At(p, "capture")'
      /\ runs'[p].step \notin {"cells", "record"}
  BY <1>1, <1>2 DEF IInv, TypeOK, Running, RunningSteps, Deciding, DecidingSteps, At
<1>4. TypeOK'
  <2>1. rerun' \in [Processes -> SUBSET Experiments]
    BY <1>2 DEF IInv, TypeOK
  <2>2. \A q \in Processes :
          runs'[q].next <= 1 + IF Deciding(q)' THEN Len(CollapseOrder) ELSE Len(Plan[Ours(q)'])
    BY <1>1, <1>3, CountsKept DEF DecidingSteps
  <2> QED BY <1>3, <2>1, <2>2 DEF IInv, TypeOK
<1>5. RunsSeparate'
  BY <1>3 DEF IInv, RunsSeparate, Running, Ours
<1>6. RunPosition'
  BY <1>3 DEF IInv, RunPosition, At, AllCellsDone, Cell, Ours
<1>7. CellsPassed'
  BY <1>3 DEF IInv, CellsPassed, Ours
<1>8. PrerequisitesChecked'
  BY <1>3 DEF IInv, PrerequisitesChecked, Running, Ours, CompleteUnder
<1>9. CompletedRunCoversPlan'
  BY <1>3 DEF IInv, CompletedRunCoversPlan, Deciding, Ours, CompleteUnder
<1>10. EvidenceMatchesRecords'
  <2> SUFFICES ASSUME NEW q \in Processes, Deciding(q)', Ours(q)' \in Collapse
               PROVE  compared'[Ours(q)'] = Content(Ours(q))'
      BY DEF EvidenceMatchesRecords
  <2>1. q # p /\ runs'[q] = runs[q] /\ Running(q) /\ Deciding(q)
    BY <1>3 DEF Running, RunningSteps, Deciding
  <2>2. Running(p) => Ours(p) # Ours(q)
    BY <2>1 DEF IInv, RunsSeparate
  <2>3. Ours(q)' = Ours(q) /\ Ours(q) \in Collapse /\ compared[Ours(q)] = Content(Ours(q))
    BY <2>1 DEF IInv, EvidenceMatchesRecords, Ours
  <2> QED BY <2>2, <2>3 DEF Content
<1> QED BY <1>4, <1>5, <1>6, <1>7, <1>8, <1>9, <1>10 DEF IInv

\* Ending, raising, being blocked or killed.
LEMMA QuietLeaveKeepsInv ==
  ASSUME IInv, NEW p \in Processes, NEW s \in {"idle", "blocked", "unreadable"},
         Leave(p, s), UNCHANGED <<workspace, inputs>>
  PROVE  IInv'
BY LeaveKeepsInv DEF workspace, IInv, TypeOK

\* The prerequisites a run begins with are complete, and those of the runs
\* beside it are the same.
LEMMA BeginKeepsInv ==
  ASSUME IInv, NEW p \in Processes, NEW e \in Experiments, NEW overwrite \in BOOLEAN,
         Begin(p, e, overwrite)
  PROVE  IInv'
<1> DEFINE r == [Idle EXCEPT !.step = "capture", !.experiment = e, !.overwrite = overwrite,
                             !.checked = inputs]
<1>1. /\ r \in Run /\ r.step = "capture" /\ r.experiment = e /\ r.checked = inputs
      /\ r.next = 1
  BY IdleFacts DEF Run, Steps, RunningSteps, DecidingSteps, Idle, IInv, TypeOK
<1>2. UNCHANGED <<records, compared, core, inputs, rerun>> /\ runs' = [runs EXCEPT ![p] = r]
  BY DEF Begin, workspace
<1>3. /\ runs' \in [Processes -> Run]
      /\ runs'[p] = r
      /\ \A q \in Processes : q # p => runs'[q] = runs[q]
  BY <1>1, <1>2 DEF IInv, TypeOK
<1>4. /\ \A q \in Processes : Running(q) =>
            Ours(q) # e /\ Prerequisites[Ours(q)] = Prerequisites[e]
      /\ \A f \in Prerequisites[e] : CompleteUnder(f, inputs)
  BY DEF Begin, MayRun, PrerequisiteMet
<1> HIDE DEF r
<1>5. TypeOK'
  <2>1. \A q \in Processes :
          runs'[q].next <= 1 + IF Deciding(q)' THEN Len(CollapseOrder) ELSE Len(Plan[Ours(q)'])
    BY <1>1, <1>3, PlanFacts, CountsKept DEF DecidingSteps
  <2> QED BY <1>2, <1>3, <2>1 DEF IInv, TypeOK
<1>6. RunsSeparate'
  BY <1>1, <1>3, <1>4 DEF IInv, RunsSeparate, Running, RunningSteps, DecidingSteps, Ours
<1>7. RunPosition' /\ CellsPassed'
  BY <1>1, <1>2, <1>3 DEF IInv, RunPosition, CellsPassed, At, AllCellsDone, Cell, Ours
<1>8. PrerequisitesChecked'
  BY <1>1, <1>2, <1>3, <1>4 DEF IInv, PrerequisitesChecked, Running, RunningSteps, DecidingSteps, Ours, CompleteUnder
<1>9. CompletedRunCoversPlan' /\ EvidenceMatchesRecords'
  BY <1>1, <1>2, <1>3 DEF IInv, CompletedRunCoversPlan, EvidenceMatchesRecords, Deciding, DecidingSteps,
                          Ours, CompleteUnder, Content
<1> QED BY <1>5, <1>6, <1>7, <1>8, <1>9 DEF IInv

\* A run that goes on with its experiment stays apart from the others, and its
\* prerequisites stay complete while no planned cell of theirs changes.
LEMMA GoOnKeepsApart ==
  ASSUME IInv, NEW p \in Processes, Running(p), NEW r \in Run,
         r.step \in RunningSteps,
         r.experiment = Ours(p), r.checked = runs[p].checked,
         runs' = [runs EXCEPT ![p] = r],
         \A q \in Processes : Running(q) =>
           \A f \in Prerequisites[Ours(q)] : \A c \in PlannedCells(f) :
             records'[c] = records[c]
  PROVE  /\ runs' \in [Processes -> Run]
         /\ runs'[p] = r
         /\ \A q \in Processes : q # p => runs'[q] = runs[q]
         /\ RunsSeparate'
         /\ PrerequisitesChecked'
<1>1. /\ runs' \in [Processes -> Run]
      /\ runs'[p] = r
      /\ \A q \in Processes : q # p => runs'[q] = runs[q]
  BY DEF IInv, TypeOK
<1>2. \A q \in Processes : /\ Ours(q)' = Ours(q) /\ runs'[q].checked = runs[q].checked
                           /\ Running(q)' <=> Running(q)
  BY <1>1 DEF Ours, Running, RunningSteps, DecidingSteps
<1>3. RunsSeparate'
  BY <1>2 DEF IInv, RunsSeparate
<1>4. PrerequisitesChecked'
  BY <1>2 DEF IInv, PrerequisitesChecked, CompleteUnder
<1> QED BY <1>1, <1>3, <1>4

\* What a process writes to the record of its cell leaves the other records, the
\* cells of the other runs and everyone's prerequisites as they were.
LEMMA OwnRecordWritten ==
  ASSUME IInv, NEW p \in Processes, NEW record \in Record \union {Absent, Torn},
         runs[p].step \in {"cells", "record"}, ~AllCellsDone(p),
         records' = [records EXCEPT ![Cell(p)] = record]
  PROVE  /\ records' \in [Cells -> Record \union {Absent, Torn}]
         /\ Cell(p) \in Cells /\ records'[Cell(p)] = record
         /\ \A c \in Cells : c # Cell(p) => records'[c] = records[c]
         /\ \A q \in Processes : Running(q) =>
              \A f \in Prerequisites[Ours(q)] : \A c \in PlannedCells(f) :
                records'[c] = records[c]
         /\ \A q \in Processes : Running(q) /\ q # p =>
              /\ \A c \in PlannedCells(Ours(q)) : records'[c] = records[c]
              /\ Ours(q) \in Experiments /\ runs[q].next \in Nat \ {0}
              /\ Len(Plan[Ours(q)]) \in Nat
              /\ ~Deciding(q) => runs[q].next <= Len(Plan[Ours(q)]) + 1
              /\ \A k \in 1..Len(Plan[Ours(q)]) :
                   records'[Plan[Ours(q)][k]] = records[Plan[Ours(q)][k]]
<1>1. records \in [Cells -> Record \union {Absent, Torn}] /\ Running(p)
  BY DEF IInv, TypeOK, Running, RunningSteps, DecidingSteps
<1>2. /\ records' \in [Cells -> Record \union {Absent, Torn}]
      /\ Cell(p) \in Cells /\ records'[Cell(p)] = record
      /\ \A c \in Cells : c # Cell(p) => records'[c] = records[c]
  BY <1>1, OnlyOwnCells
<1>3. \A q \in Processes : Running(q) =>
        \A f \in Prerequisites[Ours(q)] : \A c \in PlannedCells(f) :
          records'[c] = records[c]
  BY <1>1, OnlyOwnCells
<1>4. ASSUME NEW q \in Processes, Running(q), q # p
      PROVE  /\ \A c \in PlannedCells(Ours(q)) : records'[c] = records[c]
             /\ Ours(q) \in Experiments /\ runs[q].next \in Nat \ {0}
             /\ Len(Plan[Ours(q)]) \in Nat
             /\ ~Deciding(q) => runs[q].next <= Len(Plan[Ours(q)]) + 1
             /\ \A k \in 1..Len(Plan[Ours(q)]) :
                  records'[Plan[Ours(q)][k]] = records[Plan[Ours(q)][k]]
  <2>1. /\ Ours(q) \in Experiments /\ runs[q].next \in Nat \ {0}
        /\ ~Deciding(q) => runs[q].next <= Len(Plan[Ours(q)]) + 1
    <3>1. Ours(q) \in Experiments /\ runs[q].next \in Nat \ {0}
      BY DEF IInv, TypeOK, Run, Ours
    <3>2. Len(Plan[Ours(q)]) \in Nat
      BY <3>1, PlanFacts
    <3>3. runs[q].next <= 1 + IF Deciding(q) THEN Len(CollapseOrder) ELSE Len(Plan[Ours(q)])
      BY DEF IInv, TypeOK
    <3> QED BY <3>1, <3>2, <3>3
  <2>2. \A c \in PlannedCells(Ours(q)) : records'[c] = records[c]
    BY <1>1, <1>4, OnlyOwnCells
  <2>3. /\ Len(Plan[Ours(q)]) \in Nat
        /\ \A k \in 1..Len(Plan[Ours(q)]) : Plan[Ours(q)][k] \in PlannedCells(Ours(q))
    BY <2>1, PlanFacts
  <2>4. \A k \in 1..Len(Plan[Ours(q)]) :
          records'[Plan[Ours(q)][k]] = records[Plan[Ours(q)][k]]
    BY <2>2, <2>3
  <2> QED BY <2>1, <2>2, <2>3, <2>4
<1> QED BY <1>2, <1>3, <1>4

\* The processes that decide note which experiment wrote a record.
LEMMA RerunNoted ==
  ASSUME IInv, NEW p \in Processes, NoteRerun(Ours(p))
  PROVE  rerun' \in [Processes -> SUBSET Experiments]
BY DEF IInv, TypeOK, Run, Ours, NoteRerun

\* The run has passed no cell yet.
LEMMA CaptureKeepsInv ==
  ASSUME IInv, NEW p \in Processes, Capture(p)
  PROVE  IInv'
<1> DEFINE r == [runs[p] EXCEPT !.step = "cells", !.provenance = inputs]
<1>1. runs[p] \in Run /\ Ours(p) \in Experiments /\ inputs \in Provenances
      /\ runs[p].next = 1
  BY DEF IInv, TypeOK, RunPosition, Capture, Run, Ours
<1>2. /\ r \in Run /\ r.step = "cells" /\ r.experiment = Ours(p)
      /\ r.checked = runs[p].checked /\ r.next = 1
      /\ r.step \in RunningSteps \ DecidingSteps
  BY <1>1 DEF Run, Steps, RunningSteps, DecidingSteps, Ours
<1>3. UNCHANGED <<records, compared, core, inputs, rerun>> /\ runs' = [runs EXCEPT ![p] = r]
  <2>1. runs' = [runs EXCEPT ![p].step = "cells", ![p].provenance = inputs]
    BY DEF Capture
  <2> QED BY <2>1 DEF Capture, workspace, IInv, TypeOK
<1> HIDE DEF r
<1>4. Running(p)
  BY DEF Capture, At, Running, RunningSteps, DecidingSteps
<1>5. /\ runs' \in [Processes -> Run] /\ runs'[p] = r
      /\ \A q \in Processes : q # p => runs'[q] = runs[q]
      /\ RunsSeparate' /\ PrerequisitesChecked'
  <2>1. \A q \in Processes : Running(q) =>
          \A f \in Prerequisites[Ours(q)] : \A c \in PlannedCells(f) : records'[c] = records[c]
    BY <1>3
  <2> QED BY <1>2, <1>3, <1>4, <2>1, GoOnKeepsApart
<1>6. TypeOK'
  <2>1. r.next <= Len(Plan[r.experiment]) + 1
    BY <1>1, <1>2, PlanFacts
  <2>2. \A q \in Processes :
          runs'[q].next <= 1 + IF Deciding(q)' THEN Len(CollapseOrder) ELSE Len(Plan[Ours(q)'])
    BY <1>2, <1>5, <2>1, CountsKept
  <2> QED BY <1>3, <1>5, <2>2 DEF IInv, TypeOK
<1>7. RunPosition' /\ CellsPassed'
  BY <1>2, <1>3, <1>5 DEF IInv, RunPosition, CellsPassed, At, AllCellsDone, Cell, Ours
<1>8. CompletedRunCoversPlan' /\ EvidenceMatchesRecords'
  BY <1>2, <1>3, <1>5 DEF IInv, CompletedRunCoversPlan, EvidenceMatchesRecords, Deciding, Ours,
                          CompleteUnder, Content
<1> QED BY <1>5, <1>6, <1>7, <1>8 DEF IInv

\* A run that has the record of a cell, written or reused, is past the cell.
LEMMA NextCellKeepsInv ==
  ASSUME IInv, NEW p \in Processes, NEW record \in Record,
         runs[p].step \in {"cells", "record"}, ~AllCellsDone(p),
         record.provenance = runs[p].provenance,
         records' = [records EXCEPT ![Cell(p)] = record],
         NextCell(p),
         rerun' \in [Processes -> SUBSET Experiments],
         UNCHANGED <<compared, core, inputs>>
  PROVE  IInv'
<1> DEFINE e == Ours(p)
           r == [runs[p] EXCEPT !.step = "cells", !.next = @ + 1]
<1>1. /\ runs[p] \in Run /\ e \in Experiments /\ records \in [Cells -> Record \union {Absent, Torn}]
      /\ runs[p].next \in 1..Len(Plan[e]) /\ Len(Plan[e]) \in Nat
  <2>1. /\ runs[p] \in Run /\ e \in Experiments
        /\ records \in [Cells -> Record \union {Absent, Torn}]
    BY DEF IInv, TypeOK, Run, Ours
  <2>2. Len(Plan[e]) \in Nat /\ runs[p].next \in Nat \ {0}
    BY <2>1, PlanFacts DEF Run
  <2> QED BY <2>1, <2>2 DEF AllCellsDone
<1>2. /\ r \in Run /\ r.step = "cells" /\ r.experiment = e
      /\ r.checked = runs[p].checked /\ r.next = runs[p].next + 1
      /\ r.provenance = runs[p].provenance
  <2> DEFINE n == runs[p].next + 1
  <2>1. n \in Nat \ {0}
    BY <1>1
  <2> HIDE DEF n
  <2>2. r = [runs[p] EXCEPT !.step = "cells", !.next = n]
    BY DEF n
  <2>3. /\ r \in Run /\ r.step = "cells" /\ r.experiment = e
        /\ r.checked = runs[p].checked /\ r.next = n
        /\ r.provenance = runs[p].provenance
    BY <2>1, <2>2, <1>1 DEF Run, Steps, RunningSteps, DecidingSteps, Ours
  <2> QED BY <2>3 DEF n
<1>3. runs' = [runs EXCEPT ![p] = r]
  BY DEF NextCell, IInv, TypeOK
<1> HIDE DEF r
<1>4. Running(p)
  BY DEF Running, RunningSteps, DecidingSteps
<1>5. /\ records' \in [Cells -> Record \union {Absent, Torn}]
      /\ records'[Cell(p)] = record
      /\ \A c \in Cells : c # Cell(p) => records'[c] = records[c]
  BY OwnRecordWritten
<1>6. /\ \A q \in Processes : Running(q) =>
           \A f \in Prerequisites[Ours(q)] : \A c \in PlannedCells(f) :
             records'[c] = records[c]
      /\ \A q \in Processes : Running(q) /\ q # p =>
           /\ \A c \in PlannedCells(Ours(q)) : records'[c] = records[c]
           /\ Ours(q) \in Experiments /\ runs[q].next \in Nat \ {0}
           /\ Len(Plan[Ours(q)]) \in Nat
           /\ ~Deciding(q) => runs[q].next <= Len(Plan[Ours(q)]) + 1
           /\ \A k \in 1..Len(Plan[Ours(q)]) :
                records'[Plan[Ours(q)][k]] = records[Plan[Ours(q)][k]]
  BY OwnRecordWritten
<1>7. /\ runs' \in [Processes -> Run] /\ runs'[p] = r
      /\ \A q \in Processes : q # p => runs'[q] = runs[q]
      /\ RunsSeparate' /\ PrerequisitesChecked'
  <2>1. r.step \in RunningSteps
    BY <1>2 DEF RunningSteps
  <2> QED BY <1>2, <1>3, <1>4, <1>6, <2>1, GoOnKeepsApart
<1>8. TypeOK'
  <2>1. TypeOK
    BY DEF IInv
  <2>2. records' \in [Cells -> Record \union {Absent, Torn}] /\ runs' \in [Processes -> Run]
    BY <1>5, <1>7
  <2>3. r.next <= Len(Plan[r.experiment]) + 1 /\ r.step \notin DecidingSteps
    BY <1>1, <1>2 DEF DecidingSteps
  <2>4. \A q \in Processes :
          runs'[q].next <= 1 + IF Deciding(q)' THEN Len(CollapseOrder) ELSE Len(Plan[Ours(q)'])
    BY <1>2, <1>7, <2>3, CountsKept
  <2> QED BY <2>1, <2>2, <2>4 DEF TypeOK
<1>9. ASSUME NEW q \in Processes, q # p, Running(q)
      PROVE  /\ runs[q].next \in Nat \ {0} /\ Len(Plan[Ours(q)]) \in Nat
             /\ ~Deciding(q) => runs[q].next <= Len(Plan[Ours(q)]) + 1
             /\ \A k \in 1..Len(Plan[Ours(q)]) :
                  records'[Plan[Ours(q)][k]] = records[Plan[Ours(q)][k]]
  BY <1>9, <1>6
<1>10. RunPosition'
  <2> SUFFICES ASSUME NEW q \in Processes
               PROVE  /\ At(q, "capture")' => runs'[q].next = 1
                      /\ At(q, "record")' => ~AllCellsDone(q)' /\ records'[Cell(q)'] = Torn
      BY DEF RunPosition
  <2>a. At(q, "capture")' => runs'[q].next = 1
    BY <1>2, <1>7 DEF At, IInv, RunPosition
  <2> SUFFICES ASSUME At(q, "record")'
               PROVE  ~AllCellsDone(q)' /\ records'[Cell(q)'] = Torn
      BY <2>a
  <2>1. q # p /\ runs'[q] = runs[q] /\ Running(q)
    BY <1>2, <1>7 DEF At, Running, RunningSteps, DecidingSteps
  <2>2. ~AllCellsDone(q) /\ records[Cell(q)] = Torn
    BY <2>1 DEF IInv, RunPosition, At
  <2>3. records'[Cell(q)] = records[Cell(q)]
    BY <2>1, <2>2, <1>9 DEF Cell, AllCellsDone
  <2> QED BY <2>1, <2>2, <2>3 DEF AllCellsDone, Cell, Ours
<1>11. CellsPassed'
  <2> SUFFICES ASSUME NEW q \in Processes, NEW k \in 1..(runs'[q].next - 1),
                      runs'[q].step \in {"cells", "record"}
               PROVE  /\ records'[Plan[Ours(q)'][k]] \in Record
                      /\ records'[Plan[Ours(q)'][k]].provenance = runs'[q].provenance
      BY DEF CellsPassed
  <2>1. CASE q # p
    <3>1. runs'[q] = runs[q] /\ Running(q)
      BY <2>1, <1>7 DEF Running, RunningSteps, DecidingSteps
    <3>2. ~Deciding(q)
      BY <3>1 DEF Deciding, DecidingSteps
    <3>3. records'[Plan[Ours(q)][k]] = records[Plan[Ours(q)][k]]
      BY <2>1, <3>1, <3>2, <1>9
    <3> QED BY <3>1, <3>3 DEF IInv, CellsPassed, Ours
  <2>2. CASE q = p /\ k # runs[p].next
    <3>1. k \in 1..(runs[p].next - 1)
      BY <2>2, <1>1, <1>2, <1>7
    <3>2. Plan[e][k] # Cell(p) /\ Plan[e][k] \in Cells
      BY <3>1, <1>1, OnlyOwnCells, PlanFacts
    <3> QED BY <2>2, <3>1, <3>2, <1>2, <1>5, <1>7 DEF IInv, CellsPassed, Ours
  <2>3. CASE q = p /\ k = runs[p].next
    BY <2>3, <1>2, <1>5, <1>7 DEF Cell, Ours
  <2> QED BY <2>1, <2>2, <2>3
<1>12. CompletedRunCoversPlan'
  <2> SUFFICES ASSUME NEW q \in Processes, Deciding(q)'
               PROVE  CompleteUnder(Ours(q), runs[q].provenance)' 
      BY DEF CompletedRunCoversPlan
  <2>1. q # p /\ runs'[q] = runs[q] /\ Running(q) /\ Deciding(q)
    BY <1>2, <1>7 DEF Deciding, Running, RunningSteps, DecidingSteps
  <2> QED BY <2>1, <1>6 DEF IInv, CompletedRunCoversPlan, Deciding, CompleteUnder, Ours
<1>13. EvidenceMatchesRecords'
  <2> SUFFICES ASSUME NEW q \in Processes, Deciding(q)', Ours(q)' \in Collapse
               PROVE  compared'[Ours(q)'] = Content(Ours(q))'
      BY DEF EvidenceMatchesRecords
  <2>1. q # p /\ runs'[q] = runs[q] /\ Running(q) /\ Deciding(q)
    BY <1>2, <1>7 DEF Deciding, DecidingSteps, Running, RunningSteps
  <2>2. Ours(q)' = Ours(q) /\ \A c \in PlannedCells(Ours(q)) : records'[c] = records[c]
    BY <2>1, <1>6 DEF Ours
  <2> QED BY <2>1, <2>2 DEF IInv, EvidenceMatchesRecords, Content
<1> QED BY <1>7, <1>8, <1>10, <1>11, <1>12, <1>13 DEF IInv

\* The record of the cell is opened for writing.
LEMMA ExecuteKeepsInv ==
  ASSUME IInv, NEW p \in Processes, ExecuteCell(p)
  PROVE  IInv'
<1> DEFINE e == Ours(p)
           r == [runs[p] EXCEPT !.step = "record"]
<1>1. /\ runs[p] \in Run /\ e \in Experiments
      /\ records \in [Cells -> Record \union {Absent, Torn}]
      /\ runs[p].step = "cells" /\ ~AllCellsDone(p)
      /\ runs[p].next \in Nat \ {0} /\ Len(Plan[e]) \in Nat
  <2>1. /\ runs[p] \in Run /\ e \in Experiments
        /\ records \in [Cells -> Record \union {Absent, Torn}]
    BY DEF IInv, TypeOK, Run, Ours
  <2> QED BY <2>1, PlanFacts DEF ExecuteCell, At, Run
<1>2. /\ r \in Run /\ r.step = "record" /\ r.experiment = e
      /\ r.checked = runs[p].checked /\ r.next = runs[p].next
      /\ r.provenance = runs[p].provenance
  BY <1>1 DEF Run, Steps, RunningSteps, DecidingSteps, Ours
<1>3. /\ runs' = [runs EXCEPT ![p] = r]
      /\ UNCHANGED <<compared, core, inputs>>
  BY DEF ExecuteCell, IInv, TypeOK
<1> HIDE DEF r
<1>4. Running(p)
  BY <1>1 DEF Running, RunningSteps, DecidingSteps
<1>5. /\ records' \in [Cells -> Record \union {Absent, Torn}]
      /\ records'[Cell(p)] = Torn
      /\ \A c \in Cells : c # Cell(p) => records'[c] = records[c]
  BY <1>1, OwnRecordWritten DEF ExecuteCell
<1>6. /\ \A q \in Processes : Running(q) =>
           \A f \in Prerequisites[Ours(q)] : \A c \in PlannedCells(f) :
             records'[c] = records[c]
      /\ \A q \in Processes : Running(q) /\ q # p =>
           \A c \in PlannedCells(Ours(q)) : records'[c] = records[c]
  BY <1>1, OwnRecordWritten DEF ExecuteCell
<1>7. /\ runs' \in [Processes -> Run] /\ runs'[p] = r
      /\ \A q \in Processes : q # p => runs'[q] = runs[q]
      /\ RunsSeparate' /\ PrerequisitesChecked'
  <2>1. r.step \in RunningSteps
    BY <1>2 DEF RunningSteps
  <2> QED BY <1>2, <1>3, <1>4, <1>6, <2>1, GoOnKeepsApart
<1>8. TypeOK'
  <2>1. r.next <= Len(Plan[r.experiment]) + 1 /\ r.step \notin DecidingSteps
    BY <1>1, <1>2 DEF AllCellsDone, DecidingSteps
  <2>2. \A q \in Processes :
          runs'[q].next <= 1 + IF Deciding(q)' THEN Len(CollapseOrder) ELSE Len(Plan[Ours(q)'])
    BY <1>2, <1>7, <2>1, CountsKept
  <2>3. rerun' \in [Processes -> SUBSET Experiments]
    BY RerunNoted DEF ExecuteCell
  <2> QED BY <1>3, <1>5, <1>7, <2>2, <2>3 DEF IInv, TypeOK
<1>9. ASSUME NEW q \in Processes, q # p, Running(q)
      PROVE  /\ runs[q].next \in Nat \ {0} /\ Len(Plan[Ours(q)]) \in Nat
             /\ ~Deciding(q) => runs[q].next <= Len(Plan[Ours(q)]) + 1
             /\ \A k \in 1..Len(Plan[Ours(q)]) :
                  records'[Plan[Ours(q)][k]] = records[Plan[Ours(q)][k]]
  BY <1>1, <1>9, OwnRecordWritten DEF ExecuteCell
<1>10. RunPosition'
  <2> SUFFICES ASSUME NEW q \in Processes
               PROVE  /\ At(q, "capture")' => runs'[q].next = 1
                      /\ At(q, "record")' => ~AllCellsDone(q)' /\ records'[Cell(q)'] = Torn
      BY DEF RunPosition
  <2>1. CASE q = p
    BY <2>1, <1>1, <1>2, <1>5, <1>7 DEF At, AllCellsDone, Cell, Ours
  <2>2. CASE q # p /\ At(q, "record")
    <3>1. ~AllCellsDone(q) /\ records[Cell(q)] = Torn /\ Running(q)
      BY <2>2 DEF IInv, RunPosition, At, Running, RunningSteps, DecidingSteps
    <3>2. records'[Cell(q)] = records[Cell(q)]
      BY <2>2, <3>1, <1>9 DEF Cell, AllCellsDone
    <3> QED BY <2>2, <3>1, <3>2, <1>7 DEF AllCellsDone, Cell, Ours, At
  <2>3. CASE q # p /\ ~At(q, "record")
    BY <2>3, <1>7 DEF At, IInv, RunPosition
  <2> QED BY <2>1, <2>2, <2>3
<1>11. CellsPassed'
  <2> SUFFICES ASSUME NEW q \in Processes, NEW k \in 1..(runs'[q].next - 1),
                      runs'[q].step \in {"cells", "record"}
               PROVE  /\ records'[Plan[Ours(q)'][k]] \in Record
                      /\ records'[Plan[Ours(q)'][k]].provenance = runs'[q].provenance
      BY DEF CellsPassed
  <2>1. CASE q # p
    <3>1. runs'[q] = runs[q] /\ Running(q)
      BY <2>1, <1>7 DEF Running, RunningSteps, DecidingSteps
    <3>2. ~Deciding(q)
      BY <3>1 DEF Deciding, DecidingSteps
    <3>3. records'[Plan[Ours(q)][k]] = records[Plan[Ours(q)][k]]
      BY <2>1, <3>1, <3>2, <1>9
    <3> QED BY <3>1, <3>3 DEF IInv, CellsPassed, Ours
  <2>2. CASE q = p
    <3>1. k \in 1..(runs[p].next - 1) /\ k \in 1..Len(Plan[e])
      BY <2>2, <1>1, <1>2, <1>7 DEF AllCellsDone
    <3>2. Plan[e][k] # Cell(p) /\ Plan[e][k] \in Cells
      BY <3>1, <1>1, OnlyOwnCells, PlanFacts
    <3> QED BY <2>2, <3>1, <3>2, <1>1, <1>2, <1>5, <1>7 DEF IInv, CellsPassed, Ours
  <2> QED BY <2>1, <2>2
<1>12. CompletedRunCoversPlan'
  <2> SUFFICES ASSUME NEW q \in Processes, Deciding(q)'
               PROVE  CompleteUnder(Ours(q), runs[q].provenance)'
      BY DEF CompletedRunCoversPlan
  <2>1. q # p /\ runs'[q] = runs[q] /\ Running(q) /\ Deciding(q)
    BY <1>2, <1>7 DEF Deciding, Running, RunningSteps, DecidingSteps
  <2> QED BY <2>1, <1>6 DEF IInv, CompletedRunCoversPlan, Deciding, CompleteUnder, Ours
<1>13. EvidenceMatchesRecords'
  <2> SUFFICES ASSUME NEW q \in Processes, Deciding(q)', Ours(q)' \in Collapse
               PROVE  compared'[Ours(q)'] = Content(Ours(q))'
      BY DEF EvidenceMatchesRecords
  <2>1. q # p /\ runs'[q] = runs[q] /\ Running(q) /\ Deciding(q)
    BY <1>2, <1>7 DEF Deciding, DecidingSteps, Running, RunningSteps
  <2>2. Ours(q)' = Ours(q) /\ \A c \in PlannedCells(Ours(q)) : records'[c] = records[c]
    BY <2>1, <1>6 DEF Ours
  <2> QED BY <2>1, <2>2, <1>3 DEF IInv, EvidenceMatchesRecords, Content
<1> QED BY <1>7, <1>8, <1>10, <1>11, <1>12, <1>13 DEF IInv

\* Where all passed cells completed they completed under the run's provenance,
\* and the evidence is of their records.
LEMMA FinishKeepsInv ==
  ASSUME IInv, NEW p \in Processes, FinishCells(p)
  PROVE  IInv'
<1> DEFINE e == Ours(p)
           v == runs[p].provenance
           r == [runs[p] EXCEPT !.step = "check", !.next = 1]
<1>1. /\ runs[p] \in Run /\ e \in Experiments /\ v \in Provenances
      /\ runs[p].step = "cells" /\ AllCellsDone(p) /\ Running(p)
      /\ runs[p].next \in Nat \ {0} /\ Len(Plan[e]) \in Nat
  <2>1. runs[p] \in Run /\ e \in Experiments /\ v \in Provenances
    BY DEF IInv, TypeOK, Run, Ours
  <2> QED BY <2>1, PlanFacts DEF FinishCells, At, Run, Running, RunningSteps
<1>2. Content(e) \in Contents
  <2>1. \A k \in 1..Len(Plan[e]) : k \in 1..(runs[p].next - 1)
    BY <1>1 DEF AllCellsDone
  <2>2. ASSUME NEW k \in 1..Len(Plan[e])
        PROVE  Plan[e][k] \in Cells /\ records[Plan[e][k]] \in Record
    BY <1>1, <2>1, PlanFacts DEF IInv, CellsPassed, Ours
  <2>3. PlannedCells(e) \in SUBSET Cells /\ Content(e) \in [PlannedCells(e) -> Record]
    BY <1>1, <2>2, PlanFacts DEF Content
  <2> QED BY <2>3 DEF Contents
<1>3. /\ compared' \in [Collapse -> Contents \union {Absent}]
      /\ \A f \in Collapse : f # e => compared'[f] = compared[f]
      /\ e \in Collapse => compared'[e] = Content(e)
  BY <1>2 DEF FinishCells, PublishEvidence, IInv, TypeOK
<1>4. CASE ~AllCompleted(e)
  <2>1. Leave(p, "idle") /\ UNCHANGED <<records, core, inputs>>
    BY <1>4 DEF FinishCells, Exit
  <2> QED BY <1>1, <1>3, <2>1, LeaveKeepsInv DEF IInv, TypeOK
<1>5. CASE AllCompleted(e)
  <2>1. runs' = [runs EXCEPT ![p] = r] /\ UNCHANGED <<records, core, inputs, rerun>>
    BY <1>5 DEF FinishCells, IInv, TypeOK
  <2>2. /\ r \in Run /\ r.step = "check" /\ r.experiment = e /\ r.next = 1
        /\ r.checked = runs[p].checked /\ r.provenance = v
    <3> DEFINE first == 1
               check == "check"
    <3>1. first \in Nat \ {0} /\ check \in Steps
      BY DEF Steps, RunningSteps, DecidingSteps
    <3>2. r = [runs[p] EXCEPT !.step = check, !.next = first]
      OBVIOUS
    <3> HIDE DEF first, check, r
    <3>3. /\ r \in Run /\ r.step = check /\ r.next = first
          /\ r.experiment = runs[p].experiment
          /\ r.checked = runs[p].checked /\ r.provenance = runs[p].provenance
      BY <1>1, <3>1, <3>2 DEF Run
    <3> QED BY <3>3 DEF Ours, first, check
  <2> HIDE DEF r
  <2>3. /\ runs' \in [Processes -> Run] /\ runs'[p] = r
        /\ \A q \in Processes : q # p => runs'[q] = runs[q]
        /\ RunsSeparate' /\ PrerequisitesChecked'
    <3>1. \A q \in Processes : Running(q) =>
            \A f \in Prerequisites[Ours(q)] : \A c \in PlannedCells(f) : records'[c] = records[c]
      BY <2>1
    <3>2. r.step \in RunningSteps
      BY <2>2 DEF RunningSteps, DecidingSteps
    <3> QED BY <1>1, <2>1, <2>2, <3>1, <3>2, GoOnKeepsApart
  <2>4. TypeOK'
    <3>1. ASSUME NEW q \in Processes
          PROVE  runs'[q].next <= 1 + IF Deciding(q)' THEN Len(CollapseOrder) ELSE Len(Plan[Ours(q)'])
      <4>1. CASE q = p
        <5>1. Len(CollapseOrder) \in Nat /\ Deciding(q)' /\ runs'[q].next = 1
          BY <4>1, <2>2, <2>3, PlanAssumption DEF Deciding, DecidingSteps
        <5> QED BY <5>1
      <4>2. CASE q # p
        BY <4>2, <2>3 DEF IInv, TypeOK, Ours, Deciding
      <4> QED BY <4>1, <4>2
    <3> QED BY <2>1, <2>3, <3>1, <1>3 DEF IInv, TypeOK
  <2>5. RunPosition' /\ CellsPassed'
    BY <2>1, <2>2, <2>3 DEF IInv, RunPosition, CellsPassed, At, AllCellsDone, Cell, Ours
  <2>6. CompleteUnder(e, v)
    <3> SUFFICES ASSUME NEW k \in 1..Len(Plan[e])
                 PROVE  records[Plan[e][k]] = Done(v)
        BY <1>1, PlanFacts DEF CompleteUnder
    <3>1. k \in 1..(runs[p].next - 1)
      BY <1>1 DEF AllCellsDone
    <3>2. records[Plan[e][k]] \in Record /\ records[Plan[e][k]].provenance = v
      BY <1>1, <3>1 DEF IInv, CellsPassed, Ours
    <3>3. records[Plan[e][k]].state = "COMPLETED"
      BY <1>1, <1>5, PlanFacts DEF AllCompleted
    <3> QED BY <3>2, <3>3 DEF Record, Done
  <2>7. CompletedRunCoversPlan'
    BY <2>1, <2>2, <2>3, <2>6 DEF IInv, CompletedRunCoversPlan, Deciding, Ours, CompleteUnder
  <2>8. EvidenceMatchesRecords'
    <3> SUFFICES ASSUME NEW q \in Processes, Deciding(q)', Ours(q)' \in Collapse
                 PROVE  compared'[Ours(q)'] = Content(Ours(q))'
        BY DEF EvidenceMatchesRecords
    <3>1. CASE q = p
      <4>1. Ours(q)' = e
        BY <3>1, <2>2, <2>3 DEF Ours
      <4> QED BY <4>1, <1>3, <2>1 DEF Content
    <3>2. CASE q # p
      <4>1. runs'[q] = runs[q] /\ Running(q) /\ Deciding(q) /\ Ours(q) # e /\ Ours(q)' = Ours(q)
        BY <3>2, <1>1, <2>3 DEF Running, RunningSteps, Deciding, IInv, RunsSeparate, Ours
      <4> QED BY <4>1, <1>3, <2>1 DEF IInv, EvidenceMatchesRecords, Ours, Content
    <3> QED BY <3>1, <3>2
  <2> QED BY <2>3, <2>4, <2>5, <2>7, <2>8 DEF IInv
<1> QED BY <1>4, <1>5

\* A process that goes on deciding changes no file.
LEMMA DecidingKeepsInv ==
  ASSUME IInv, NEW p \in Processes, Deciding(p), NEW r \in Run,
         r.step \in DecidingSteps, r.experiment = Ours(p), r.checked = runs[p].checked,
         r.provenance = runs[p].provenance, r.next <= Len(CollapseOrder) + 1,
         runs' = [runs EXCEPT ![p] = r],
         UNCHANGED <<workspace, inputs, rerun>>
  PROVE  IInv'
<1>1. UNCHANGED <<records, compared, core, inputs, rerun>> /\ Running(p) /\ r.step \in RunningSteps
  BY DEF workspace, Running, RunningSteps, Deciding
<1>2. /\ runs' \in [Processes -> Run] /\ runs'[p] = r
      /\ \A q \in Processes : q # p => runs'[q] = runs[q]
      /\ RunsSeparate' /\ PrerequisitesChecked'
  <2>1. \A q \in Processes : Running(q) =>
          \A f \in Prerequisites[Ours(q)] : \A c \in PlannedCells(f) : records'[c] = records[c]
    BY <1>1
  <2> QED BY <1>1, <2>1, GoOnKeepsApart
<1>3. TypeOK'
  <2>1. ASSUME NEW q \in Processes
        PROVE  runs'[q].next <= 1 + IF Deciding(q)' THEN Len(CollapseOrder) ELSE Len(Plan[Ours(q)'])
    <3>1. CASE q = p
      <4>1. Len(CollapseOrder) \in Nat /\ Deciding(q)' /\ runs'[q] = r /\ r.next \in Nat
        BY <3>1, <1>2, PlanAssumption DEF Deciding, Run
      <4> QED BY <4>1
    <3>2. CASE q # p
      BY <3>2, <1>2 DEF IInv, TypeOK, Ours, Deciding
    <3> QED BY <3>1, <3>2
  <2> QED BY <1>1, <1>2, <2>1 DEF IInv, TypeOK
<1>4. r.step \notin {"cells", "record", "capture"}
  BY DEF DecidingSteps
<1>5. RunPosition' /\ CellsPassed'
  BY <1>1, <1>2, <1>4 DEF IInv, RunPosition, CellsPassed, At, AllCellsDone, Cell, Ours
<1>6. \A q \in Processes : /\ Deciding(q)' <=> Deciding(q)
                           /\ Ours(q)' = Ours(q) /\ runs'[q].provenance = runs[q].provenance
  BY <1>2 DEF Deciding, Ours
<1>7. CompletedRunCoversPlan' /\ EvidenceMatchesRecords'
  BY <1>1, <1>6 DEF IInv, CompletedRunCoversPlan, EvidenceMatchesRecords, CompleteUnder, Content
<1> QED BY <1>2, <1>3, <1>5, <1>7 DEF IInv

-----------------------------------------------------------------------------
(* Every step                                                              *)

\* A process turns from experiment to experiment, twice.
LEMMA DecisionStepKeepsInv ==
  ASSUME IInv, DecisionPosition, NEW p \in Processes,
         CheckCompleted(p) \/ ReadRecords(p) \/ Decide(p)
  PROVE  IInv'
<1>1. /\ runs[p] \in Run /\ Deciding(p) /\ Len(CollapseOrder) \in Nat
      /\ runs[p].next \in Nat \ {0} /\ runs[p].next <= Len(CollapseOrder)
      /\ Considered(p) \in Experiments /\ Considered(p) \in Collapse
  <2>1. /\ runs[p] \in Run /\ Deciding(p) /\ Len(CollapseOrder) \in Nat
        /\ runs[p].next \in Nat \ {0}
    BY PlanAssumption DEF CheckCompleted, ReadRecords, Decide, At, Deciding, DecidingSteps,
                          IInv, TypeOK, Run
  <2>2. runs[p].next <= Len(CollapseOrder)
    BY <2>1 DEF CheckCompleted, ReadRecords, Decide, AllConsidered, DecisionPosition, At
  <2> QED BY <2>1, <2>2, PlanAssumption DEF Considered, Collapse, Range
<1>2. UNCHANGED <<workspace, inputs, rerun>>
  BY DEF CheckCompleted, ReadRecords, Decide
<1>3. ASSUME CheckCompleted(p)
      PROVE  IInv'
  <2> DEFINE last == runs[p].next = Len(CollapseOrder)
             s == IF last THEN "read" ELSE "check"
             n == IF last THEN 1 ELSE runs[p].next + 1
             r == [runs[p] EXCEPT !.step = s, !.next = n]
  <2>1. runs' = [runs EXCEPT ![p] = r]
    BY <1>3 DEF CheckCompleted, IInv, TypeOK
  <2>2. s \in DecidingSteps /\ n \in Nat \ {0} /\ n <= Len(CollapseOrder) + 1
    BY <1>1 DEF DecidingSteps
  <2> HIDE DEF s, n
  <2>3. /\ r \in Run /\ r.step = s /\ r.experiment = Ours(p) /\ r.checked = runs[p].checked
        /\ r.provenance = runs[p].provenance /\ r.next = n
    BY <1>1, <2>2 DEF Run, Steps, RunningSteps, Ours
  <2> HIDE DEF r
  <2> QED BY <1>1, <1>2, <2>1, <2>2, <2>3, DecidingKeepsInv
<1>4. ASSUME ReadRecords(p)
      PROVE  IInv'
  <2> DEFINE x == CurrentRecords(Considered(p))
             r == [runs[p] EXCEPT !.step = "compare", !.read = x]
  <2>1. runs' = [runs EXCEPT ![p] = r]
    BY <1>4 DEF ReadRecords, IInv, TypeOK
  <2>2. x \in Contents
    <3> DEFINE C == {c \in PlannedCells(Considered(p)) :
                       records[c] \in Record /\ records[c].provenance = inputs}
    <3>1. C \in SUBSET Cells
      BY <1>1, PlanFacts
    <3>2. x \in [C -> Record]
      BY DEF CurrentRecords
    <3> QED BY <3>1, <3>2 DEF Contents
  <2> HIDE DEF x
  <2>3. /\ r \in Run /\ r.step = "compare" /\ r.experiment = Ours(p)
        /\ r.checked = runs[p].checked
        /\ r.provenance = runs[p].provenance /\ r.next = runs[p].next
    BY <1>1, <2>2 DEF Run, Steps, RunningSteps, DecidingSteps, Ours
  <2> HIDE DEF r
  <2>4. r.step \in DecidingSteps /\ r.next <= Len(CollapseOrder) + 1
    BY <1>1, <2>3 DEF DecidingSteps
  <2> QED BY <1>1, <1>2, <2>1, <2>3, <2>4, DecidingKeepsInv
<1>5. ASSUME Decide(p)
      PROVE  IInv'
  <2> DEFINE d == [of |-> runs[p].read, rerun |-> Considered(p) \in rerun[p]]
             n == runs[p].next + 1
             l == Append(runs[p].decisions, d)
             r == [runs[p] EXCEPT !.step = "read", !.next = n, !.read = Nothing, !.decisions = l]
  <2>1. runs' = [runs EXCEPT ![p] = r]
    BY <1>5 DEF Decide, IInv, TypeOK
  <2>2. d \in Decision /\ runs[p].decisions \in Seq(Decision) /\ Nothing \in Contents
    BY <1>1, IdleFacts DEF Decision, Run, Idle
  <2> HIDE DEF d
  <2>3. l \in Seq(Decision) /\ n \in Nat \ {0} /\ n <= Len(CollapseOrder) + 1
    BY <1>1, <2>2
  <2> HIDE DEF l, n
  <2>4. /\ r \in Run /\ r.step = "read" /\ r.experiment = Ours(p)
        /\ r.checked = runs[p].checked
        /\ r.provenance = runs[p].provenance /\ r.next = n
    BY <1>1, <2>2, <2>3 DEF Run, Steps, RunningSteps, DecidingSteps, Ours
  <2> HIDE DEF r
  <2>5. r.step \in DecidingSteps
    BY <2>4 DEF DecidingSteps
  <2> QED BY <1>1, <1>2, <2>1, <2>3, <2>4, <2>5, DecidingKeepsInv
<1> QED BY <1>3, <1>4, <1>5

\* The steps of one run.
LEMMA RunStepKeepsInv ==
  ASSUME IInv, DecisionPosition, NEW p \in Processes, RunStep(p)
  PROVE  IInv'
<1>1. CASE Capture(p)
  BY <1>1, CaptureKeepsInv
<1>2. CASE Reuse(p)
  <2>1. /\ runs[p].step = "cells" /\ ~AllCellsDone(p)
        /\ records[Cell(p)] = Done(runs[p].provenance)
        /\ NextCell(p) /\ UNCHANGED <<records, compared, core, inputs, rerun>>
    BY <1>2 DEF Reuse, At, Reusable, workspace
  <2>2. Done(runs[p].provenance) \in Record
    BY DEF Done, Record, Outcomes, IInv, TypeOK, Run
  <2>3. records' = [records EXCEPT ![Cell(p)] = Done(runs[p].provenance)]
    BY <2>1 DEF IInv, TypeOK
  <2>4. Done(runs[p].provenance).provenance = runs[p].provenance
    BY DEF Done
  <2>5. rerun' \in [Processes -> SUBSET Experiments]
    BY <2>1 DEF IInv, TypeOK
  <2> QED BY <2>1, <2>2, <2>3, <2>4, <2>5, NextCellKeepsInv
<1>3. CASE MeetTornRecord(p) \/ MeetTornDecision(p)
  BY <1>3, QuietLeaveKeepsInv DEF MeetTornRecord, MeetTornDecision
<1>4. CASE ExecuteCell(p)
  BY <1>4, ExecuteKeepsInv
<1>5. ASSUME NEW outcome \in Outcomes, WriteRecord(p, outcome)
      PROVE  IInv'
  <2> DEFINE record == [state |-> outcome, provenance |-> runs[p].provenance]
  <2>1. record \in Record /\ record.provenance = runs[p].provenance
    BY DEF Record, IInv, TypeOK, Run
  <2>2. runs[p].step = "record" /\ ~AllCellsDone(p)
    BY <1>5 DEF WriteRecord, At, IInv, RunPosition
  <2>3. /\ records' = [records EXCEPT ![Cell(p)] = record]
        /\ NextCell(p) /\ UNCHANGED <<compared, core, inputs>>
        /\ rerun' \in [Processes -> SUBSET Experiments]
    BY <1>5, RerunNoted DEF WriteRecord
  <2> HIDE DEF record
  <2> QED BY <2>1, <2>2, <2>3, NextCellKeepsInv
<1>6. CASE FinishCells(p)
  BY <1>6, FinishKeepsInv
<1>7. CASE CheckCompleted(p) \/ ReadRecords(p) \/ Decide(p)
  BY <1>7, DecisionStepKeepsInv
<1>8. CASE MaterialiseCore(p)
  <2>1. core' \in [Directories -> BOOLEAN] /\ UNCHANGED <<records, compared, inputs>>
        /\ Leave(p, "idle")
    BY <1>8 DEF MaterialiseCore, Exit, IInv, TypeOK
  <2> QED BY <2>1, LeaveKeepsInv DEF IInv, TypeOK
<1>9. CASE PassCore(p) \/ EndRefused(p)
  BY <1>9, QuietLeaveKeepsInv DEF PassCore, EndRefused, Exit
<1> QED BY <1>1, <1>2, <1>3, <1>4, <1>5, <1>6, <1>7, <1>8, <1>9 DEF RunStep

\* No step of the system breaks the invariant.
LEMMA RunsNextKeepsInv ==
  ASSUME IInv, DecisionPosition, [Next]_vars
  PROVE  IInv'
<1>1. ASSUME NEW p \in Processes, NEW e \in Experiments,
             Block(p, e) \/ MeetTornPrerequisite(p, e)
      PROVE  IInv'
  BY <1>1, QuietLeaveKeepsInv DEF Block, MeetTornPrerequisite
<1>2. ASSUME NEW p \in Processes, NEW e \in Experiments, NEW overwrite \in BOOLEAN,
             Begin(p, e, overwrite)
      PROVE  IInv'
  BY <1>2, BeginKeepsInv
<1>3. ASSUME NEW p \in Processes, RunStep(p)
      PROVE  IInv'
  BY <1>3, RunStepKeepsInv
<1>4. ASSUME NEW p \in Processes, Crash(p)
      PROVE  IInv'
  BY <1>4, QuietLeaveKeepsInv DEF Crash, Exit
<1>5. CASE ChangeInputs
  <2>1. /\ inputs' \in Provenances
        /\ UNCHANGED <<records, compared, core, runs, rerun>>
    BY <1>5, PlanAssumption DEF ChangeInputs, workspace, Provenances, IInv, TypeOK
  <2>2. TypeOK'
    BY <2>1 DEF IInv, TypeOK, Ours, Deciding
  <2> QED BY <2>1, <2>2 DEF IInv, RunsSeparate, RunPosition, CellsPassed,
                CompletedRunCoversPlan, PrerequisitesChecked, EvidenceMatchesRecords,
                Running, Deciding, At, AllCellsDone, Cell, Ours, CompleteUnder, Content
<1>6. CASE UNCHANGED vars
  BY <1>6 DEF vars, IInv, TypeOK, RunsSeparate, RunPosition, CellsPassed,
                CompletedRunCoversPlan, PrerequisitesChecked, EvidenceMatchesRecords,
                Running, Deciding, At, AllCellsDone, Cell, Ours, CompleteUnder, Content
<1> QED BY <1>1, <1>2, <1>3, <1>4, <1>5, <1>6 DEF Next

-----------------------------------------------------------------------------
(* What a deciding process has read                                        *)

\* A process that does not decide, or that begins to, leaves the others with what
\* they have checked and read, but for the experiments they see run again.
LEMMA OthersDecide ==
  ASSUME IInv, DecisionInv, NEW p \in Processes, NEW r \in Run,
         r.decisions = << >>, r.step \notin {"read", "compare"},
         r.step = "check" => r.next = 1 /\ (r.experiment \in Collapse => 1 <= Len(CollapseOrder)),
         runs' = [runs EXCEPT ![p] = r],
         EvidenceWhole',
         \A q \in Processes : q # p /\ Deciding(q) =>
           /\ rerun[q] \subseteq rerun'[q]
           /\ \A e \in Experiments \ rerun'[q], v \in Provenances :
                CompleteUnder(e, v) => CompleteUnder(e, v)'
  PROVE  DecisionInv'
<1>1. /\ runs'[p] = r
      /\ \A q \in Processes : q # p => runs'[q] = runs[q]
  BY DEF IInv, TypeOK
<1>2. DecisionPosition'
  <2> SUFFICES ASSUME NEW q \in Processes
               PROVE  /\ runs'[q].step \notin {"read", "compare"} => runs'[q].decisions = << >>
                      /\ At(q, "check")' /\ Ours(q)' \in Collapse => ~AllConsidered(q)'
                      /\ At(q, "compare")' => ~AllConsidered(q)'
                      /\ runs'[q].step \in {"read", "compare"} =>
                           Len(runs'[q].decisions) = runs'[q].next - 1
      BY DEF DecisionPosition
  <2>1. CASE q = p
    BY <2>1, <1>1, PlanAssumption DEF At, AllConsidered, Ours
  <2>2. CASE q # p
    BY <2>2, <1>1 DEF DecisionInv, DecisionPosition, At, AllConsidered, Ours
  <2> QED BY <2>1, <2>2
<1>3. CheckedStay'
  <2> SUFFICES ASSUME NEW q \in Processes, NEW i \in DOMAIN CollapseOrder,
                      \/ runs'[q].step \in {"read", "compare"}
                      \/ At(q, "check")' /\ i < runs'[q].next,
                      CollapseOrder[i] \notin rerun'[q]
               PROVE  \E v \in Provenances : CompleteUnder(CollapseOrder[i], v)'
      BY DEF CheckedStay, Provenances
  <2>1. CASE q = p
    <3>1. At(q, "check")' /\ i < 1
      BY <2>1, <1>1 DEF At
    <3> QED BY <3>1, PlanAssumption
  <2>2. CASE q # p
    <3>1. runs'[q] = runs[q] /\ Deciding(q) /\ CollapseOrder[i] \notin rerun[q]
          /\ CollapseOrder[i] \in Experiments
      BY <2>2, <1>1, PlanAssumption DEF Deciding, DecidingSteps, At
    <3>2. PICK v \in Provenances : CompleteUnder(CollapseOrder[i], v)
      BY <3>1 DEF DecisionInv, CheckedStay, At
    <3>3. CompleteUnder(CollapseOrder[i], v)'
      BY <2>2, <3>1, <3>2
    <3> QED BY <3>3
  <2> QED BY <2>1, <2>2
<1>4. ReadCompleted'
  <2> SUFFICES ASSUME NEW q \in Processes, At(q, "compare")', Considered(q)' \notin rerun'[q]
               PROVE  \A c \in DOMAIN runs'[q].read : runs'[q].read[c].state = "COMPLETED"
      BY DEF ReadCompleted
  <2>1. q # p /\ runs'[q] = runs[q] /\ At(q, "compare") /\ Considered(q)' = Considered(q)
    BY <1>1 DEF At, Considered
  <2>2. Considered(q) \notin rerun[q]
    BY <2>1 DEF Deciding, DecidingSteps, At
  <2> QED BY <2>1, <2>2 DEF DecisionInv, ReadCompleted
<1>5. CoreRestsOnRuns'
  <2> SUFFICES ASSUME NEW q \in Processes, NEW i \in DOMAIN runs'[q].decisions
               PROVE  RestsOnRun(runs'[q].decisions[i], CollapseOrder[i])
      BY DEF CoreRestsOnRuns, RestsOnRun, Provenances, PlannedCells
  <2>1. q # p /\ runs'[q] = runs[q]
    BY <1>1
  <2> QED BY <2>1 DEF DecisionInv, CoreRestsOnRuns
<1> QED BY <1>2, <1>3, <1>4, <1>5 DEF DecisionInv

\* Records and evidence are as they were.
LEMMA QuietStepDecides ==
  ASSUME IInv, DecisionInv, NEW p \in Processes, NEW r \in Run,
         r.decisions = << >>, r.step \notin {"read", "compare", "check"},
         runs' = [runs EXCEPT ![p] = r],
         UNCHANGED <<records, compared>>,
         \A q \in Processes : q # p => rerun'[q] = rerun[q]
  PROVE  DecisionInv'
<1>1. EvidenceWhole'
  BY DEF DecisionInv, EvidenceWhole
<1>2. \A e \in Experiments, v \in Provenances : CompleteUnder(e, v) => CompleteUnder(e, v)'
  BY DEF CompleteUnder
<1> QED BY <1>1, <1>2, OthersDecide

\* A process that ends, is refused or fails.
LEMMA LeaveDecides ==
  ASSUME IInv, DecisionInv, NEW p \in Processes, NEW s \in {"idle", "blocked", "unreadable"},
         Leave(p, s), UNCHANGED <<records, compared>>
  PROVE  DecisionInv'
<1> DEFINE r == [Idle EXCEPT !.step = s]
<1>1. r \in Run /\ r.step = s /\ r.decisions = << >>
  BY IdleFacts DEF Run, Steps, Idle
<1>2. runs' = [runs EXCEPT ![p] = r] /\ rerun' = [rerun EXCEPT ![p] = {}]
  BY DEF Leave
<1>3. \A q \in Processes : q # p => rerun'[q] = rerun[q]
  BY <1>2 DEF IInv, TypeOK
<1> HIDE DEF r
<1> QED BY <1>1, <1>2, <1>3, QuietStepDecides

\* A process that writes a record is noted by those that decide.
LEMMA WriteDecides ==
  ASSUME IInv, DecisionInv, NEW p \in Processes, NEW r \in Run,
         runs[p].step \in {"cells", "record"}, ~AllCellsDone(p),
         r.decisions = << >>, r.step \in {"cells", "record"},
         runs' = [runs EXCEPT ![p] = r],
         NEW record, records' = [records EXCEPT ![Cell(p)] = record],
         UNCHANGED compared, NoteRerun(Ours(p))
  PROVE  DecisionInv'
<1>1. EvidenceWhole'
  BY DEF DecisionInv, EvidenceWhole
<1>2. ASSUME NEW q \in Processes, q # p, Deciding(q)
      PROVE  /\ rerun[q] \subseteq rerun'[q]
             /\ \A e \in Experiments \ rerun'[q], v \in Provenances :
                  CompleteUnder(e, v) => CompleteUnder(e, v)'
  <2>1. rerun'[q] = rerun[q] \union {Ours(p)}
    BY <1>2 DEF NoteRerun
  <2>2. \A e \in Experiments \ rerun'[q] : Cell(p) \notin PlannedCells(e)
    BY <2>1, OnlyOwnCells
  <2>3. \A e \in Experiments : \A c \in PlannedCells(e) : c \in Cells
    BY PlanFacts
  <2> QED BY <2>1, <2>2, <2>3 DEF CompleteUnder, IInv, TypeOK
<1>3. r.step \notin {"read", "compare"} /\ r.step # "check"
  OBVIOUS
<1> QED BY <1>1, <1>2, <1>3, OthersDecide

\* The evidence a finished run publishes is of all its records.
LEMMA FinishDecides ==
  ASSUME IInv, DecisionInv, NEW p \in Processes, FinishCells(p)
  PROVE  DecisionInv'
<1> DEFINE e == Ours(p)
           v == runs[p].provenance
           n == 1
           s == "check"
           r == [runs[p] EXCEPT !.step = s, !.next = n]
<1>1. /\ runs[p] \in Run /\ e \in Experiments /\ v \in Provenances
      /\ runs[p].step = "cells" /\ AllCellsDone(p)
      /\ runs[p].next \in Nat \ {0} /\ Len(Plan[e]) \in Nat
      /\ UNCHANGED records
  <2>1. runs[p] \in Run /\ e \in Experiments /\ v \in Provenances
    BY DEF IInv, TypeOK, Run, Ours
  <2> QED BY <2>1, PlanFacts DEF FinishCells, At, Run
<1>2. /\ DOMAIN Content(e) = PlannedCells(e)
      /\ \A c \in PlannedCells(e) : Content(e)[c].provenance = v
  <2>1. \A k \in 1..Len(Plan[e]) : k \in 1..(runs[p].next - 1)
    BY <1>1 DEF AllCellsDone
  <2>2. \A c \in PlannedCells(e) : records[c].provenance = v
    BY <1>1, <2>1, PlanFacts DEF IInv, CellsPassed, Ours
  <2> QED BY <2>2 DEF Content
<1>3. EvidenceWhole'
  <2> SUFFICES ASSUME NEW f \in Collapse, compared'[f] # Absent
               PROVE  /\ DOMAIN compared'[f] = PlannedCells(f)
                      /\ \E w \in Provenances : \A c \in PlannedCells(f) :
                           compared'[f][c].provenance = w
      BY DEF EvidenceWhole, PlannedCells, Provenances
  <2>1. CASE f = e
    <3>1. compared'[f] = Content(e)
      BY <2>1 DEF FinishCells, PublishEvidence, IInv, TypeOK
    <3> QED BY <2>1, <3>1, <1>1, <1>2
  <2>2. CASE f # e
    <3>1. compared'[f] = compared[f]
      BY <2>2 DEF FinishCells, PublishEvidence, IInv, TypeOK
    <3> QED BY <3>1 DEF DecisionInv, EvidenceWhole
  <2> QED BY <2>1, <2>2
<1>4. \A f \in Experiments, w \in Provenances : CompleteUnder(f, w) => CompleteUnder(f, w)'
  BY <1>1 DEF CompleteUnder
<1>5. CASE ~AllCompleted(e)
  <2>1. Leave(p, "idle")
    BY <1>5 DEF FinishCells, Exit
  <2> DEFINE i == [Idle EXCEPT !.step = "idle"]
  <2>2. i \in Run /\ i.step = "idle" /\ i.decisions = << >>
    BY IdleFacts DEF Run, Steps, Idle
  <2>3. runs' = [runs EXCEPT ![p] = i] /\ \A q \in Processes : q # p => rerun'[q] = rerun[q]
    BY <2>1 DEF Leave, IInv, TypeOK
  <2> HIDE DEF i
  <2> QED BY <1>3, <1>4, <2>2, <2>3, OthersDecide
<1>6. CASE AllCompleted(e)
  <2>1. runs' = [runs EXCEPT ![p] = r] /\ UNCHANGED rerun
    BY <1>6 DEF FinishCells, IInv, TypeOK
  <2>2. n \in Nat \ {0} /\ s \in Steps
    BY DEF Steps, RunningSteps, DecidingSteps
  <2>3. runs[p].decisions = << >>
    BY <1>1 DEF DecisionInv, DecisionPosition
  <2>4. e \in Collapse => 1 <= Len(CollapseOrder)
    BY PlanAssumption DEF Collapse, Range
  <2> HIDE DEF n, s
  <2>5. r \in Run /\ r.step = s /\ r.next = n /\ r.experiment = e /\ r.decisions = << >>
    BY <1>1, <2>2, <2>3 DEF Run, Ours
  <2> HIDE DEF r
  <2>6. /\ r.step \notin {"read", "compare"}
        /\ r.step = "check" => r.next = 1 /\ (r.experiment \in Collapse => 1 <= Len(CollapseOrder))
    BY <2>4, <2>5 DEF n, s
  <2> QED BY <1>3, <1>4, <2>1, <2>5, <2>6, OthersDecide
<1> QED BY <1>5, <1>6

\* Nobody else's position, readings or decisions change while one process goes on
\* deciding; what is left to show is that its own are right.
LEMMA OneDecides ==
  ASSUME IInv, DecisionInv, NEW p \in Processes, NEW r \in Run,
         runs' = [runs EXCEPT ![p] = r],
         UNCHANGED <<records, compared, rerun>>,
         r.step \in DecidingSteps, r.experiment = Ours(p),
         r.step \notin {"read", "compare"} => r.decisions = << >>,
         r.step = "check" /\ Ours(p) \in Collapse => ~(r.next > Len(CollapseOrder)),
         r.step = "compare" => ~(r.next > Len(CollapseOrder)),
         r.step \in {"read", "compare"} => Len(r.decisions) = r.next - 1,
         \A i \in DOMAIN CollapseOrder :
           (r.step \in {"read", "compare"} \/ (r.step = "check" /\ i < r.next))
             /\ CollapseOrder[i] \notin rerun[p]
             => \E v \in Provenances : CompleteUnder(CollapseOrder[i], v),
         r.step = "compare" /\ CollapseOrder[r.next] \notin rerun[p]
           => \A c \in DOMAIN r.read : r.read[c].state = "COMPLETED",
         \A i \in DOMAIN r.decisions : RestsOnRun(r.decisions[i], CollapseOrder[i])
  PROVE  DecisionInv'
<1>1. /\ runs'[p] = r
      /\ \A q \in Processes : q # p => runs'[q] = runs[q]
  BY DEF IInv, TypeOK
<1>2. DecisionPosition'
  BY <1>1 DEF DecisionInv, DecisionPosition, At, AllConsidered, Ours
<1>3. EvidenceWhole'
  BY DEF DecisionInv, EvidenceWhole
<1>4. CheckedStay'
  BY <1>1 DEF DecisionInv, CheckedStay, At, CompleteUnder
<1>5. ReadCompleted'
  BY <1>1 DEF DecisionInv, ReadCompleted, At, Considered
<1>6. CoreRestsOnRuns'
  <2> SUFFICES ASSUME NEW q \in Processes, NEW i \in DOMAIN runs'[q].decisions
               PROVE  RestsOnRun(runs'[q].decisions[i], CollapseOrder[i])
      BY DEF CoreRestsOnRuns, RestsOnRun, Provenances, PlannedCells
  <2> QED BY <1>1 DEF DecisionInv, CoreRestsOnRuns
<1> QED BY <1>2, <1>3, <1>4, <1>5, <1>6 DEF DecisionInv

\* The experiment considered is one of the collapse experiments.
LEMMA ConsideredFacts ==
  ASSUME IInv, DecisionInv, NEW p \in Processes,
         CheckCompleted(p) \/ ReadRecords(p) \/ Decide(p)
  PROVE  /\ runs[p] \in Run /\ Deciding(p) /\ Len(CollapseOrder) \in Nat
         /\ DOMAIN CollapseOrder = 1..Len(CollapseOrder)
         /\ runs[p].next \in 1..Len(CollapseOrder)
         /\ Considered(p) \in Experiments /\ Considered(p) \in Collapse
         /\ inputs \in Provenances
<1>1. /\ runs[p] \in Run /\ Deciding(p) /\ Len(CollapseOrder) \in Nat
      /\ DOMAIN CollapseOrder = 1..Len(CollapseOrder)
      /\ runs[p].next \in Nat \ {0} /\ inputs \in Provenances
  BY PlanAssumption DEF CheckCompleted, ReadRecords, Decide, At, Deciding, DecidingSteps,
                        IInv, TypeOK, Run
<1>2. runs[p].next <= Len(CollapseOrder)
  BY <1>1 DEF CheckCompleted, ReadRecords, Decide, AllConsidered, DecisionInv, DecisionPosition, At
<1> QED BY <1>1, <1>2, PlanAssumption DEF Considered, Collapse, Range

\* An experiment found completed is completed under the inputs of the moment.
LEMMA CheckDecides ==
  ASSUME IInv, DecisionInv, NEW p \in Processes, CheckCompleted(p)
  PROVE  DecisionInv'
<1> DEFINE last == runs[p].next = Len(CollapseOrder)
           s == IF last THEN "read" ELSE "check"
           n == IF last THEN 1 ELSE runs[p].next + 1
           r == [runs[p] EXCEPT !.step = s, !.next = n]
<1>1. /\ runs[p] \in Run /\ Len(CollapseOrder) \in Nat /\ runs[p].next \in 1..Len(CollapseOrder)
      /\ DOMAIN CollapseOrder = 1..Len(CollapseOrder)
      /\ Considered(p) = CollapseOrder[runs[p].next] /\ inputs \in Provenances
  BY ConsideredFacts DEF Considered
<1>2. /\ runs[p].step = "check" /\ CompleteUnder(Considered(p), inputs)
      /\ runs' = [runs EXCEPT ![p] = r]
      /\ UNCHANGED <<records, compared, rerun>>
  BY DEF CheckCompleted, At, workspace, IInv, TypeOK
<1>3. runs[p].decisions = << >>
  BY <1>2 DEF DecisionInv, DecisionPosition
<1>4. /\ s \in {"read", "check"} /\ n \in Nat \ {0} /\ n <= Len(CollapseOrder)
      /\ s = "read" => n = 1
      /\ \A i \in DOMAIN CollapseOrder : s = "read" \/ i < n => i <= runs[p].next
  BY <1>1
<1> HIDE DEF s, n
<1>5. /\ r \in Run /\ r.step = s /\ r.experiment = Ours(p) /\ r.next = n
      /\ r.decisions = << >>
  BY <1>1, <1>3, <1>4 DEF Run, Steps, RunningSteps, DecidingSteps, Ours
<1> HIDE DEF r
<1>6. ASSUME NEW i \in DOMAIN CollapseOrder,
             r.step \in {"read", "compare"} \/ (r.step = "check" /\ i < r.next),
             CollapseOrder[i] \notin rerun[p]
      PROVE  \E v \in Provenances : CompleteUnder(CollapseOrder[i], v)
  <2>1. i \in Nat /\ i <= runs[p].next
    BY <1>1, <1>4, <1>5, <1>6
  <2>2. CASE i = runs[p].next
    BY <2>2, <1>1, <1>2
  <2>3. CASE i < runs[p].next
    BY <2>3, <1>2, <1>6 DEF DecisionInv, CheckedStay, At
  <2> QED BY <1>1, <2>1, <2>2, <2>3
<1>7. /\ r.step \in DecidingSteps /\ r.step # "compare"
      /\ r.step \in {"read", "compare"} => Len(r.decisions) = r.next - 1
      /\ ~(r.next > Len(CollapseOrder))
  BY <1>1, <1>4, <1>5 DEF DecidingSteps
<1>8. \A i \in DOMAIN r.decisions : RestsOnRun(r.decisions[i], CollapseOrder[i])
  BY <1>5
<1> QED BY <1>2, <1>5, <1>6, <1>7, <1>8, OneDecides

\* The records read of an experiment that was not run again are completed.
LEMMA ReadDecides ==
  ASSUME IInv, DecisionInv, NEW p \in Processes, ReadRecords(p)
  PROVE  DecisionInv'
<1> DEFINE e == Considered(p)
           x == CurrentRecords(e)
           r == [runs[p] EXCEPT !.step = "compare", !.read = x]
<1>1. /\ runs[p] \in Run /\ Len(CollapseOrder) \in Nat /\ runs[p].next \in 1..Len(CollapseOrder)
      /\ DOMAIN CollapseOrder = 1..Len(CollapseOrder)
      /\ e = CollapseOrder[runs[p].next] /\ e \in Experiments
  BY ConsideredFacts DEF Considered
<1>2. /\ runs[p].step = "read"
      /\ runs' = [runs EXCEPT ![p] = r]
      /\ UNCHANGED <<records, compared, rerun>>
  BY DEF ReadRecords, At, workspace, IInv, TypeOK
<1>3. /\ DOMAIN x \subseteq PlannedCells(e)
      /\ \A c \in DOMAIN x : x[c] = records[c]
      /\ x \in Contents
  <2> DEFINE C == {c \in PlannedCells(e) : records[c] \in Record /\ records[c].provenance = inputs}
  <2>1. C \in SUBSET Cells /\ x \in [C -> Record]
    BY <1>1, PlanFacts DEF CurrentRecords
  <2> QED BY <2>1 DEF CurrentRecords, Contents
<1> HIDE DEF x
<1>4. /\ r \in Run /\ r.step = "compare" /\ r.experiment = Ours(p) /\ r.next = runs[p].next
      /\ r.read = x /\ r.decisions = runs[p].decisions
  BY <1>1, <1>3 DEF Run, Steps, RunningSteps, DecidingSteps, Ours
<1> HIDE DEF r
<1>5. ASSUME NEW i \in DOMAIN CollapseOrder, CollapseOrder[i] \notin rerun[p]
      PROVE  \E v \in Provenances : CompleteUnder(CollapseOrder[i], v)
  BY <1>2, <1>5 DEF DecisionInv, CheckedStay
<1>6. ASSUME e \notin rerun[p]
      PROVE  \A c \in DOMAIN r.read : r.read[c].state = "COMPLETED"
  <2>1. PICK v \in Provenances : CompleteUnder(e, v)
    BY <1>1, <1>5, <1>6
  <2> QED BY <1>3, <1>4, <2>1 DEF CompleteUnder, Done
<1>7. /\ r.step \in DecidingSteps
      /\ Len(r.decisions) = r.next - 1
      /\ ~(r.next > Len(CollapseOrder))
  BY <1>1, <1>2, <1>4 DEF DecidingSteps, DecisionInv, DecisionPosition
<1>8. \A i \in DOMAIN r.decisions : RestsOnRun(r.decisions[i], CollapseOrder[i])
  BY <1>4 DEF DecisionInv, CoreRestsOnRuns
<1> QED BY <1>1, <1>2, <1>4, <1>5, <1>6, <1>7, <1>8, OneDecides

\* A decision is made where the evidence is of the records read.
LEMMA DecideDecides ==
  ASSUME IInv, DecisionInv, NEW p \in Processes, Decide(p)
  PROVE  DecisionInv'
<1> DEFINE e == Considered(p)
           d == [of |-> runs[p].read, rerun |-> e \in rerun[p]]
           n == runs[p].next + 1
           l == Append(runs[p].decisions, d)
           r == [runs[p] EXCEPT !.step = "read", !.next = n, !.read = Nothing, !.decisions = l]
<1>1. /\ runs[p] \in Run /\ Len(CollapseOrder) \in Nat /\ runs[p].next \in 1..Len(CollapseOrder)
      /\ DOMAIN CollapseOrder = 1..Len(CollapseOrder)
      /\ e = CollapseOrder[runs[p].next] /\ e \in Experiments /\ e \in Collapse
  BY ConsideredFacts DEF Considered
<1>2. /\ runs[p].step = "compare" /\ EvidenceMatches(p)
      /\ runs' = [runs EXCEPT ![p] = r]
      /\ UNCHANGED <<records, compared, rerun>>
  BY DEF Decide, At, workspace, IInv, TypeOK
<1>3. RestsOnRun(d, e)
  <2>1. compared[e] # Absent /\ compared[e] = d.of
    BY <1>2 DEF EvidenceMatches
  <2>2. /\ DOMAIN d.of = PlannedCells(e)
        /\ \E v \in Provenances : \A c \in PlannedCells(e) : d.of[c].provenance = v
    BY <1>1, <2>1 DEF DecisionInv, EvidenceWhole
  <2>3. d.rerun \/ \A c \in PlannedCells(e) : d.of[c].state = "COMPLETED"
    BY <1>2, <2>2 DEF DecisionInv, ReadCompleted, At
  <2> QED BY <2>2, <2>3 DEF RestsOnRun
<1>4. /\ d \in Decision /\ runs[p].decisions \in Seq(Decision) /\ Nothing \in Contents
      /\ Len(runs[p].decisions) = runs[p].next - 1
  BY <1>1, <1>2, IdleFacts DEF Decision, Run, Idle, DecisionInv, DecisionPosition
<1> HIDE DEF d
<1>5. /\ l \in Seq(Decision) /\ n \in Nat \ {0} /\ Len(l) = n - 1
      /\ DOMAIN l = 1..runs[p].next
      /\ l[runs[p].next] = d
      /\ \A i \in 1..(runs[p].next - 1) : i \in DOMAIN runs[p].decisions /\ l[i] = runs[p].decisions[i]
  BY <1>1, <1>4
<1> HIDE DEF l, n
<1>6. /\ r \in Run /\ r.step = "read" /\ r.experiment = Ours(p) /\ r.next = n /\ r.decisions = l
  BY <1>1, <1>4, <1>5 DEF Run, Steps, RunningSteps, DecidingSteps, Ours
<1> HIDE DEF r
<1>7. ASSUME NEW i \in DOMAIN CollapseOrder, CollapseOrder[i] \notin rerun[p]
      PROVE  \E v \in Provenances : CompleteUnder(CollapseOrder[i], v)
  BY <1>2, <1>7 DEF DecisionInv, CheckedStay
<1>8. ASSUME NEW i \in DOMAIN l
      PROVE  RestsOnRun(l[i], CollapseOrder[i])
  <2>1. CASE i = runs[p].next
    BY <2>1, <1>1, <1>3, <1>5
  <2>2. CASE i # runs[p].next
    <3>1. i \in 1..(runs[p].next - 1)
      BY <2>2, <1>1, <1>5
    <3> QED BY <3>1, <1>5 DEF DecisionInv, CoreRestsOnRuns
  <2> QED BY <2>1, <2>2
<1>9. r.step \in DecidingSteps
  BY <1>6 DEF DecidingSteps
<1> QED BY <1>2, <1>5, <1>6, <1>7, <1>8, <1>9, OneDecides

\* No step breaks what the deciding processes rely on.
LEMMA NextDecides ==
  ASSUME IInv, DecisionInv, [Next]_vars
  PROVE  DecisionInv'
<1>1. ASSUME NEW p \in Processes, NEW e \in Experiments,
             Block(p, e) \/ MeetTornPrerequisite(p, e)
      PROVE  DecisionInv'
  BY <1>1, LeaveDecides DEF Block, MeetTornPrerequisite, workspace
<1>2. ASSUME NEW p \in Processes, NEW e \in Experiments, NEW overwrite \in BOOLEAN,
             Begin(p, e, overwrite)
      PROVE  DecisionInv'
  <2> DEFINE r == [Idle EXCEPT !.step = "capture", !.experiment = e, !.overwrite = overwrite,
                               !.checked = inputs]
  <2>1. r \in Run /\ r.step = "capture" /\ r.decisions = << >>
    BY IdleFacts DEF Run, Steps, RunningSteps, Idle, IInv, TypeOK
  <2>2. runs' = [runs EXCEPT ![p] = r] /\ UNCHANGED <<records, compared, rerun>>
    BY <1>2 DEF Begin, workspace
  <2> HIDE DEF r
  <2> QED BY <2>1, <2>2, QuietStepDecides
<1>3. ASSUME NEW p \in Processes, Capture(p)
      PROVE  DecisionInv'
  <2> DEFINE r == [runs[p] EXCEPT !.step = "cells", !.provenance = inputs]
  <2>1. runs[p] \in Run /\ runs[p].step = "capture" /\ runs[p].decisions = << >>
        /\ inputs \in Provenances
    BY <1>3 DEF Capture, At, IInv, TypeOK, DecisionInv, DecisionPosition
  <2>2. r \in Run /\ r.step = "cells" /\ r.decisions = << >>
    BY <2>1 DEF Run, Steps, RunningSteps
  <2>3. runs' = [runs EXCEPT ![p] = r] /\ UNCHANGED <<records, compared, rerun>>
    BY <1>3 DEF Capture, workspace, IInv, TypeOK
  <2> HIDE DEF r
  <2> QED BY <2>2, <2>3, QuietStepDecides
<1>4. ASSUME NEW p \in Processes,
             Reuse(p) \/ ExecuteCell(p) \/ \E outcome \in Outcomes : WriteRecord(p, outcome)
      PROVE  DecisionInv'
  <2> DEFINE n == runs[p].next + 1
             s == [runs[p] EXCEPT !.step = "cells", !.next = n]
             t == [runs[p] EXCEPT !.step = "record"]
  <2>1. /\ runs[p] \in Run /\ runs[p].step \in {"cells", "record"} /\ ~AllCellsDone(p)
        /\ runs[p].decisions = << >> /\ n \in Nat \ {0}
    <3>1. runs[p] \in Run /\ runs[p].step \in {"cells", "record"} /\ ~AllCellsDone(p)
      BY <1>4 DEF Reuse, ExecuteCell, WriteRecord, At, IInv, TypeOK, RunPosition
    <3>2. runs[p].decisions = << >>
      BY <3>1 DEF DecisionInv, DecisionPosition
    <3> QED BY <3>1, <3>2 DEF Run
  <2> HIDE DEF n
  <2>2. /\ s \in Run /\ s.step = "cells" /\ s.decisions = << >>
        /\ t \in Run /\ t.step = "record" /\ t.decisions = << >>
    BY <2>1 DEF Run, Steps, RunningSteps
  <2>3. NextCell(p) => runs' = [runs EXCEPT ![p] = s]
    BY DEF NextCell, n, IInv, TypeOK
  <2>4. CASE Reuse(p)
    BY <2>2, <2>3, <2>4, QuietStepDecides DEF Reuse, workspace
  <2>5. CASE ExecuteCell(p)
    <3>1. runs' = [runs EXCEPT ![p] = t]
      BY <2>5 DEF ExecuteCell, IInv, TypeOK
    <3> HIDE DEF t
    <3> QED BY <2>1, <2>2, <2>5, <3>1, WriteDecides DEF ExecuteCell
  <2>6. ASSUME NEW outcome \in Outcomes, WriteRecord(p, outcome)
        PROVE  DecisionInv'
    <3> HIDE DEF s
    <3> QED BY <2>1, <2>2, <2>3, <2>6, WriteDecides DEF WriteRecord
  <2> QED BY <1>4, <2>4, <2>5, <2>6
<1>5. ASSUME NEW p \in Processes,
             \/ MeetTornRecord(p) \/ MeetTornDecision(p) \/ MaterialiseCore(p)
             \/ PassCore(p) \/ EndRefused(p) \/ Crash(p)
      PROVE  DecisionInv'
  BY <1>5, LeaveDecides DEF MeetTornRecord, MeetTornDecision, MaterialiseCore, PassCore,
                            EndRefused, Crash, Exit, workspace
<1>6. ASSUME NEW p \in Processes,
             FinishCells(p) \/ CheckCompleted(p) \/ ReadRecords(p) \/ Decide(p)
      PROVE  DecisionInv'
  BY <1>6, FinishDecides, CheckDecides, ReadDecides, DecideDecides
<1>7. CASE ChangeInputs \/ UNCHANGED vars
  <2>1. UNCHANGED <<records, compared, runs, rerun>>
    BY <1>7 DEF ChangeInputs, vars, workspace
  <2>2. DecisionPosition' /\ EvidenceWhole' /\ CheckedStay' /\ ReadCompleted'
    BY <2>1 DEF DecisionInv, DecisionPosition, EvidenceWhole, CheckedStay, ReadCompleted, At, Ours,
                AllConsidered, Considered, CompleteUnder
  <2>3. CoreRestsOnRuns'
    BY <2>1 DEF DecisionInv, CoreRestsOnRuns, RestsOnRun
  <2> QED BY <2>2, <2>3 DEF DecisionInv
<1> QED BY <1>1, <1>2, <1>3, <1>4, <1>5, <1>6, <1>7 DEF Next, RunStep

-----------------------------------------------------------------------------
(* The theorems                                                            *)

Inv == IInv /\ DecisionInv

\* An empty workspace: nothing is published, read or decided.
THEOREM AllInit == Init => Inv
<1> SUFFICES ASSUME Init PROVE DecisionInv
    BY RunsInit DEF Inv
<1>1. \A p \in Processes : runs[p].step = "idle" /\ runs[p].decisions = << >>
  BY DEF Init, Idle
<1> QED BY <1>1 DEF Init, DecisionInv, DecisionPosition, EvidenceWhole, CheckedStay, ReadCompleted,
                    CoreRestsOnRuns, At

\* No step of the system breaks the invariant.
THEOREM RunsStep == Inv /\ [Next]_vars => Inv'
BY RunsNextKeepsInv, NextDecides DEF Inv, DecisionInv

\* In every behaviour, whatever the plan and however processes start, crash
\* and resume, the strengthened invariant holds.
THEOREM RunsInvariant == Spec => []Inv
<1>1. Init => Inv
  BY AllInit
<1>2. Inv /\ [Next]_vars => Inv'
  BY RunsStep
<1> QED BY <1>1, <1>2, PTL DEF Spec

\* Record files, evidence, core and runs keep their types.
THEOREM RunsTypeCorrect == Spec => []TypeOK
<1>1. Inv => TypeOK
  BY DEF Inv, IInv
<1> QED BY <1>1, RunsInvariant, PTL

\* A run that reports Completed leaves all planned cells completed under its
\* own provenance, though others run beside it and the inputs change.
THEOREM CompletedRuns == Spec => []CompletedRunCoversPlan
<1>1. Inv => CompletedRunCoversPlan
  BY DEF Inv, IInv
<1> QED BY <1>1, RunsInvariant, PTL

\* The prerequisites checked under a run's inputs stay complete while it runs:
\* no other process may touch them.
THEOREM PrerequisitesStay == Spec => []PrerequisitesHold
<1>1. Inv => PrerequisitesHold
  <2> SUFFICES ASSUME Inv, NEW p \in Processes,
                      runs[p].step \in {"cells", "record"} \union DecidingSteps,
                      runs[p].checked = runs[p].provenance,
                      NEW f \in Prerequisites[Ours(p)]
               PROVE  CompleteUnder(f, runs[p].provenance)
      BY DEF PrerequisitesHold
  <2>1. Running(p)
    BY DEF Running, RunningSteps
  <2> QED BY <2>1 DEF Inv, IInv, PrerequisitesChecked
<1> QED BY <1>1, RunsInvariant, PTL

\* A collapse run that reports Completed has evidence of the records it
\* reports, crashes between records and evidence included.
THEOREM EvidenceCurrent == Spec => []EvidenceMatchesRecords
<1>1. Inv => EvidenceMatchesRecords
  BY DEF Inv, IInv
<1> QED BY <1>1, RunsInvariant, PTL

\* Read one after the other while other processes write, the decisions of a
\* core each rest on a whole run, a completed one unless it was run again.
THEOREM CoreRests == Spec => []CoreRestsOnRuns
<1>1. Inv => CoreRestsOnRuns
  BY DEF Inv, DecisionInv
<1> QED BY <1>1, RunsInvariant, PTL

\* The records that a step of the system takes away from their completion.
LEMMA StepKeepsWork ==
  ASSUME IInv, [Next]_vars, NEW c \in Cells, NEW v \in Provenances,
         records[c] = Done(v), records'[c] # Done(v)
  PROVE  \E p \in Processes :
           /\ Executing(p, c)
           /\ runs[p].overwrite \/ runs[p].provenance # v
<1>1. Done(v) # Torn
  BY RecordFileAssumption DEF Done, Record, Outcomes
<1>2. ASSUME NEW p \in Processes, ExecuteCell(p)
      PROVE  /\ Executing(p, c)
             /\ runs[p].overwrite \/ runs[p].provenance # v
  <2>1. c = Cell(p)
    BY <1>2 DEF ExecuteCell, IInv, TypeOK
  <2> QED BY <1>2, <2>1 DEF ExecuteCell, Executing, Reusable
<1>3. ASSUME NEW p \in Processes, NEW outcome \in Outcomes, WriteRecord(p, outcome)
      PROVE  FALSE
  <2>1. records[Cell(p)] = Torn
    BY <1>3 DEF WriteRecord, IInv, RunPosition
  <2>2. c # Cell(p)
    BY <1>1, <2>1
  <2> QED BY <1>3, <2>2 DEF WriteRecord, IInv, TypeOK
<1>4. (\E p \in Processes : ExecuteCell(p) \/ \E outcome \in Outcomes : WriteRecord(p, outcome))
        \/ UNCHANGED records
  BY DEF Next, RunStep, vars, workspace, Block, MeetTornPrerequisite, Begin, Capture, Reuse,
         MeetTornRecord, FinishCells, MeetTornDecision, CheckCompleted, ReadRecords, Decide,
         MaterialiseCore, PassCore, EndRefused, Crash, ChangeInputs
<1> QED BY <1>2, <1>3, <1>4

\* No completed work is repeated or lost but by a run that overwrites or works
\* under another provenance.
THEOREM WorkIsKept == Spec => ResumeKeepsWork
<1>1. Inv /\ [Next]_vars =>
        [\A c \in Cells, v \in Provenances :
           records[c] = Done(v) /\ records'[c] # Done(v) =>
             \E p \in Processes :
               /\ Executing(p, c)
               /\ runs[p].overwrite \/ runs[p].provenance # v]_vars
  BY StepKeepsWork DEF Inv
<1> QED BY <1>1, RunsInvariant, PTL DEF Spec, ResumeKeepsWork

=============================================================================
