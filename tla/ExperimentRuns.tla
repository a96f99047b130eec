--------------------------- MODULE ExperimentRuns ---------------------------
(***************************************************************************)
(* `fedsira run`: processes that execute the planned cells of experiments  *)
(* over one execution workspace, with the execution records they resume    *)
(* from, the comparison evidence they derive and the resolved core that    *)
(* the collapse experiments decide.  One process runs one experiment, from *)
(* _execute_bound through execute_experiment to _materialize_core_if_      *)
(* complete; experiments of one stage may run side by side.                *)
(*                                                                         *)
(* The core is decided from the records and evidence of the collapse       *)
(* experiments, read one experiment after the other while other processes  *)
(* go on.                                                                  *)
(*                                                                         *)
(* What a cell computes is its terminal state: with the deterministic      *)
(* backend, records with the same state and provenance are the same.       *)
(***************************************************************************)
EXTENDS Naturals, Sequences, SequencesExt

CONSTANTS
  Processes,       \* processes of the operator
  Experiments,
  Cells,           \* semantic keys of the planned cells
  Plan,            \* Plan[e]: the cells of experiment e in planned order
  Prerequisites,   \* Prerequisites[e]: the experiments e requires
  CollapseOrder,   \* COLLAPSE_EXPERIMENT_NAMES
  PostCore,        \* POST_CORE_EXPERIMENT_NAMES
  MaxProvenance,   \* bound on how often the inputs change
  Absent,          \* there is no record (evidence)
  Torn             \* a record file that was not written to its end

Provenances == 1..MaxProvenance

ASSUME PlanAssumption ==
  /\ Experiments # {}
  /\ Plan \in [Experiments -> Seq(Cells)]
  /\ \A e, f \in Experiments : \A i \in DOMAIN Plan[e], j \in DOMAIN Plan[f] :
       Plan[e][i] = Plan[f][j] => e = f /\ i = j
  /\ Prerequisites \in [Experiments -> SUBSET Experiments]
  /\ \A e \in Experiments : e \notin Prerequisites[e]
  /\ CollapseOrder \in Seq(Experiments)
  /\ PostCore \subseteq Experiments
  /\ MaxProvenance \in Nat \ {0}
  /\ Absent # Torn

VARIABLES
  records,    \* per cell: the execution record file
  inputs,     \* provenance a process computes now
  compared,   \* per collapse experiment: the records its comparison evidence is of
  core,       \* per directory: whether a resolved core is published there
  runs,       \* per process: the run in progress
  rerun       \* history: experiments that wrote records since a process decides

vars == <<records, inputs, compared, core, runs, rerun>>
workspace == <<records, compared, core>>

Collapse == Range(CollapseOrder)

\* Terminal states of execute_cell; FAILED, which only a timeout produces,
\* stands for INVALID too: neither is reused and neither completes.
Outcomes == {"COMPLETED", "FAILED"}

Record == [state : Outcomes, provenance : Provenances]

ASSUME RecordFileAssumption == {Absent, Torn} \intersect Record = {}

\* The steps of _materialize_core_if_complete: an experiment's completion is
\* checked, its records are read, then its comparison evidence.
DecidingSteps == {"check", "read", "compare"}

RunningSteps == {"capture", "cells", "record"} \union DecidingSteps
Steps == RunningSteps \union {"idle", "blocked", "unreadable"}

\* resolved_core_directory, where the core is read, and the slot directory
\* that publish_resolved_core is given.
ResolvedCoreDirectory == "family root"
CoreSlotDirectory == "slot"
Directories == {ResolvedCoreDirectory, CoreSlotDirectory}

PlannedCells(e) == Range(Plan[e])
Done(v) == [state |-> "COMPLETED", provenance |-> v]

\* reusable_outcome of every planned cell
CompleteUnder(e, v) == \A c \in PlannedCells(e) : records[c] = Done(v)

HasTorn(e) == \E c \in PlannedCells(e) : records[c] = Torn

\* No records have been read.
Nothing == [c \in {} |-> Absent]

Idle ==
  [step |-> "idle", experiment |-> CHOOSE e \in Experiments : TRUE, overwrite |-> FALSE, checked |-> 1,
   provenance |-> 1, next |-> 1, read |-> Nothing, decisions |-> << >>]

Init ==
  /\ records = [c \in Cells |-> Absent]
  /\ inputs = 1
  /\ compared = [e \in Collapse |-> Absent]
  /\ core = [d \in Directories |-> FALSE]
  /\ runs = [p \in Processes |-> Idle]
  /\ rerun = [p \in Processes |-> {}]

-----------------------------------------------------------------------------
(* One run                                                                 *)

At(p, step) == runs[p].step = step
Running(p) == runs[p].step \in RunningSteps
Deciding(p) == runs[p].step \in DecidingSteps
Ours(p) == runs[p].experiment
Leave(p, step) ==
  /\ runs' = [runs EXCEPT ![p] = [Idle EXCEPT !.step = step]]
  /\ rerun' = [rerun EXCEPT ![p] = {}]
Exit(p) == Leave(p, "idle")
Cell(p) == Plan[Ours(p)][runs[p].next]
AllCellsDone(p) == runs[p].next > Len(Plan[Ours(p)])
Executing(p, c) == At(p, "cells") /\ ~AllCellsDone(p) /\ Cell(p) = c

\* Processes share the workspace stage by stage, one per experiment.
MayRun(e) ==
  \A q \in Processes : Running(q) =>
    Ours(q) # e /\ Prerequisites[Ours(q)] = Prerequisites[e]

\* Mutant: the prerequisites may have completed under other inputs.
MUTPrerequisiteOnce(f) ==
  \A c \in PlannedCells(f) : \E v \in Provenances : records[c] = Done(v)

\* derive_current_experiment_lifecycle is COMPLETED.
PrerequisiteMet(f) == CompleteUnder(f, inputs)

Blocked(e) == e \in PostCore /\ ~core[ResolvedCoreDirectory]

\* build_plan blocks the experiment.
Block(p, e) ==
  /\ At(p, "idle")
  /\ MayRun(e)
  /\ Blocked(e)
  /\ Leave(p, "blocked")
  /\ UNCHANGED <<workspace, inputs>>

\* prerequisite_states_from_store reads a torn record and raises.
MeetTornPrerequisite(p, e) ==
  /\ At(p, "idle")
  /\ MayRun(e)
  /\ ~Blocked(e)
  /\ \E f \in Prerequisites[e] : HasTorn(f)
  /\ Leave(p, "unreadable")
  /\ UNCHANGED <<workspace, inputs>>

\* The prerequisites are met; otherwise the command is refused and nothing
\* changes.
Begin(p, e, overwrite) ==
  /\ At(p, "idle")
  /\ MayRun(e)
  /\ ~Blocked(e)
  /\ \A f \in Prerequisites[e] : PrerequisiteMet(f)
  /\ runs' = [runs EXCEPT ![p] = [Idle EXCEPT
       !.step = "capture", !.experiment = e, !.overwrite = overwrite,
       !.checked = inputs]]
  /\ UNCHANGED <<workspace, inputs, rerun>>

\* The provenance of the run is computed after the prerequisites were checked.
Capture(p) ==
  /\ At(p, "capture")
  /\ runs' = [runs EXCEPT ![p].step = "cells", ![p].provenance = inputs]
  /\ UNCHANGED <<workspace, inputs, rerun>>

NextCell(p) ==
  runs' = [runs EXCEPT ![p].step = "cells", ![p].next = @ + 1]

\* Mutant: a completed record is reused whatever it was computed from.
MUTReusable(p) ==
  ~runs[p].overwrite /\ \E v \in Provenances : records[Cell(p)] = Done(v)

\* Mutant: nothing is reused.
MUTNeverReusable(p) == FALSE

\* reusable_outcome
Reusable(p) == ~runs[p].overwrite /\ records[Cell(p)] = Done(runs[p].provenance)

Reuse(p) ==
  /\ At(p, "cells") /\ ~AllCellsDone(p)
  /\ Reusable(p)
  /\ NextCell(p)
  /\ UNCHANGED <<workspace, inputs, rerun>>

\* read_outcome raises on a torn record; an overwriting run does not read it.
MeetTornRecord(p) ==
  /\ At(p, "cells") /\ ~AllCellsDone(p)
  /\ ~runs[p].overwrite /\ records[Cell(p)] = Torn
  /\ Leave(p, "unreadable")
  /\ UNCHANGED <<workspace, inputs>>

\* The processes that decide the core meanwhile.
NoteRerun(e) ==
  rerun' = [q \in Processes |-> IF Deciding(q) THEN rerun[q] \union {e} ELSE rerun[q]]

\* execute_cell_with_retry, which never retries (a timeout is not retriable),
\* and the opening of the record file, which truncates it.
ExecuteCell(p) ==
  /\ At(p, "cells") /\ ~AllCellsDone(p)
  /\ ~Reusable(p)
  /\ runs[p].overwrite \/ records[Cell(p)] # Torn
  /\ records' = [records EXCEPT ![Cell(p)] = Torn]
  /\ NoteRerun(Ours(p))
  /\ runs' = [runs EXCEPT ![p].step = "record"]
  /\ UNCHANGED <<inputs, compared, core>>

\* The rest of write_outcome, with what the cell came to.
WriteRecord(p, outcome) ==
  /\ At(p, "record")
  /\ records' = [records EXCEPT
       ![Cell(p)] = [state |-> outcome, provenance |-> runs[p].provenance]]
  /\ NoteRerun(Ours(p))
  /\ NextCell(p)
  /\ UNCHANGED <<inputs, compared, core>>

\* derive_experiment_lifecycle over the records of the plan, every one of
\* which this run reused or wrote.
AllCompleted(e) ==
  \A c \in PlannedCells(e) : records[c] \in Record /\ records[c].state = "COMPLETED"

\* metric_evidence_digest of the records of the plan
Content(e) == [c \in PlannedCells(e) |-> records[c]]

\* Mutant: comparison evidence that exists is not made again.
MUTPublishOnce(e) ==
  compared' = [compared EXCEPT ![e] = IF @ = Absent THEN Content(e) ELSE @]

\* publish_comparison_evidence, of all records of the plan, completed or not.
PublishEvidence(e) == compared' = [compared EXCEPT ![e] = Content(e)]

\* All cells are there: the lifecycle is derived and the comparison evidence
\* published.  The evidence of other experiments only serves reports.
FinishCells(p) ==
  LET e == Ours(p) IN
  /\ At(p, "cells") /\ AllCellsDone(p)
  /\ IF e \in Collapse THEN PublishEvidence(e) ELSE UNCHANGED compared
  /\ IF AllCompleted(e)
     THEN /\ runs' = [runs EXCEPT ![p].step = "check", ![p].next = 1]
          /\ UNCHANGED rerun
     ELSE Exit(p)
  /\ UNCHANGED <<records, core, inputs>>

-----------------------------------------------------------------------------
(* _materialize_core_if_complete                                           *)

\* The collapse experiment whose turn it is.
Considered(p) == CollapseOrder[runs[p].next]
AllConsidered(p) == runs[p].next > Len(CollapseOrder)

\* Records of an experiment are read, in the first loop and in the second; a
\* torn one raises.
MeetTornDecision(p) ==
  /\ runs[p].step \in {"check", "read"} /\ Ours(p) \in Collapse /\ ~AllConsidered(p)
  /\ HasTorn(Considered(p))
  /\ Leave(p, "unreadable")
  /\ UNCHANGED <<workspace, inputs>>

\* The first loop: _collapse_experiment_completed of one experiment, under the
\* provenance of the moment.
CheckCompleted(p) ==
  /\ At(p, "check") /\ Ours(p) \in Collapse
  /\ CompleteUnder(Considered(p), inputs)
  /\ LET last == runs[p].next = Len(CollapseOrder) IN
     runs' = [runs EXCEPT ![p].step = IF last THEN "read" ELSE "check",
                          ![p].next = IF last THEN 1 ELSE @ + 1]
  /\ UNCHANGED <<workspace, inputs, rerun>>

\* current_execution_records: those of the provenance of the moment, complete
\* or not.
CurrentRecords(e) ==
  LET current == {c \in PlannedCells(e) :
                    records[c] \in Record /\ records[c].provenance = inputs}
  IN [c \in current |-> records[c]]

\* The second loop reads the records of an experiment again.
ReadRecords(p) ==
  /\ At(p, "read") /\ ~AllConsidered(p)
  /\ ~HasTorn(Considered(p))
  /\ runs' = [runs EXCEPT ![p].step = "compare", ![p].read = CurrentRecords(Considered(p))]
  /\ UNCHANGED <<workspace, inputs, rerun>>

\* Mutant: any comparison evidence will do.
MUTEvidenceMatches(p) == compared[Considered(p)] # Absent

\* current_comparison_evidence: there is evidence, of the records read.
EvidenceMatches(p) ==
  /\ compared[Considered(p)] # Absent
  /\ compared[Considered(p)] = runs[p].read

\* collapse_evaluation_from_records and collapse_decision_from_comparison_
\* families of one experiment.
Decide(p) ==
  /\ At(p, "compare")
  /\ EvidenceMatches(p)
  /\ LET decision == [of |-> runs[p].read, rerun |-> Considered(p) \in rerun[p]] IN
     runs' = [runs EXCEPT ![p].step = "read", ![p].next = @ + 1, ![p].read = Nothing,
                          ![p].decisions = Append(@, decision)]
  /\ UNCHANGED <<workspace, inputs, rerun>>

\* publish_resolved_core, with these decisions.
MaterialiseCore(p) ==
  /\ At(p, "read") /\ AllConsidered(p)
  /\ core' = [core EXCEPT ![CoreSlotDirectory] = TRUE]
  /\ Exit(p)
  /\ UNCHANGED <<records, compared, inputs>>

\* Not a collapse experiment, an experiment that is not complete, or evidence
\* that is not of the records read.
PassCore(p) ==
  /\ \/ At(p, "check") /\ Ours(p) \notin Collapse
     \/ /\ At(p, "check") /\ Ours(p) \in Collapse
        /\ ~HasTorn(Considered(p)) /\ ~CompleteUnder(Considered(p), inputs)
     \/ At(p, "compare") /\ ~EvidenceMatches(p)
  /\ Exit(p)
  /\ UNCHANGED <<workspace, inputs>>

-----------------------------------------------------------------------------
\* A process that was blocked or that raised ends.
EndRefused(p) ==
  /\ runs[p].step \in {"blocked", "unreadable"}
  /\ Exit(p)
  /\ UNCHANGED <<workspace, inputs>>

\* The process is killed, or a cell raises anything but a ValueError.
Crash(p) ==
  /\ Running(p)
  /\ Exit(p)
  /\ UNCHANGED <<workspace, inputs>>

\* A commit, a preprocessing or an edited configuration; a process in
\* progress keeps the configuration it loaded, so that an edit counts from
\* the next run on.
ChangeInputs ==
  /\ inputs < MaxProvenance
  /\ inputs' = inputs + 1
  /\ UNCHANGED <<workspace, runs, rerun>>

RunStep(p) ==
  \/ Capture(p)
  \/ Reuse(p)
  \/ MeetTornRecord(p)
  \/ ExecuteCell(p)
  \/ \E outcome \in Outcomes : WriteRecord(p, outcome)
  \/ FinishCells(p)
  \/ MeetTornDecision(p)
  \/ CheckCompleted(p)
  \/ ReadRecords(p)
  \/ Decide(p)
  \/ MaterialiseCore(p)
  \/ PassCore(p)
  \/ EndRefused(p)

Next ==
  \/ \E p \in Processes, e \in Experiments : Block(p, e)
  \/ \E p \in Processes, e \in Experiments : MeetTornPrerequisite(p, e)
  \/ \E p \in Processes, e \in Experiments, overwrite \in BOOLEAN : Begin(p, e, overwrite)
  \/ \E p \in Processes : RunStep(p)
  \/ \E p \in Processes : Crash(p)
  \/ ChangeInputs

Spec == Init /\ [][Next]_vars

-----------------------------------------------------------------------------
(* Properties                                                              *)

\* Records of some of the cells, as they are read or evidence is made of them.
Contents == UNION {[C -> Record] : C \in SUBSET Cells}

Decision == [of : Contents, rerun : BOOLEAN]

Run ==
  [step : Steps, experiment : Experiments, overwrite : BOOLEAN,
   checked : Provenances, provenance : Provenances, next : Nat \ {0},
   read : Contents, decisions : Seq(Decision)]

\* The files hold what runs write there, and a run counts the cells of its plan
\* and then the collapse experiments.
TypeOK ==
  /\ records \in [Cells -> Record \union {Absent, Torn}]
  /\ inputs \in Provenances
  /\ compared \in [Collapse -> Contents \union {Absent}]
  /\ core \in [Directories -> BOOLEAN]
  /\ runs \in [Processes -> Run]
  /\ \A p \in Processes :
       runs[p].next <= 1 + IF Deciding(p) THEN Len(CollapseOrder) ELSE Len(Plan[Ours(p)])
  /\ rerun \in [Processes -> SUBSET Experiments]

\* A run that reports its experiment Completed leaves every planned cell
\* completed under the run's own provenance, whichever cells it resumed,
\* though the inputs change while it runs and others run beside it.
CompletedRunCoversPlan ==
  \A p \in Processes :
    Deciding(p) => CompleteUnder(Ours(p), runs[p].provenance)

\* While a run works under the inputs its prerequisites were checked with,
\* their records stay complete under those inputs.
PrerequisitesHold ==
  \A p \in Processes :
    runs[p].step \in {"cells", "record"} \union DecidingSteps
        /\ runs[p].checked = runs[p].provenance
      => \A f \in Prerequisites[Ours(p)] : CompleteUnder(f, runs[p].provenance)

\* A collapse run that reports Completed leaves comparison evidence of the
\* records it reports, even where a crash separated the two before.
EvidenceMatchesRecords ==
  \A p \in Processes :
    Deciding(p) /\ Ours(p) \in Collapse => compared[Ours(p)] = Content(Ours(p))

\* The decision d about e was made from the records of one whole run of e, all
\* completed unless e was run again meanwhile.
RestsOnRun(d, e) ==
  /\ DOMAIN d.of = PlannedCells(e)
  /\ \E v \in Provenances : \A c \in PlannedCells(e) :
       /\ d.of[c].provenance = v
       /\ d.of[c].state = "COMPLETED" \/ d.rerun

\* Though records and evidence are read one experiment after the other, every
\* decision of a resolved core, up to its publication, rests on a whole run of
\* its experiment under one provenance, and on a completed one unless the
\* experiment was run again beside the deciding process.
CoreRestsOnRuns ==
  \A p \in Processes : \A i \in DOMAIN runs[p].decisions :
    RestsOnRun(runs[p].decisions[i], CollapseOrder[i])

\* Work is never repeated or lost: a completed record only gives way to a run
\* that overwrites or that works under another provenance.
ResumeKeepsWork ==
  [][\A c \in Cells, v \in Provenances :
       records[c] = Done(v) /\ records'[c] # Done(v) =>
         \E p \in Processes :
           /\ Executing(p, c)
           /\ runs[p].overwrite \/ runs[p].provenance # v]_vars

\* The documentation's claim: post-core experiments refuse to run while the
\* resolved core is absent, and only then.
BlockedOnlyWithoutCore ==
  \A p \in Processes : At(p, "blocked") => ~core[CoreSlotDirectory]

=============================================================================
