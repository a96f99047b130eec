-------------------------- MODULE EvidenceScarcity --------------------------
(***************************************************************************)
(* The cells of the evidence-scarcity experiment.  A schedule says how many *)
(* domains hold evidence at each logical cycle; a cell only advances the    *)
(* protocol when enough of them hold it from the start, and records what    *)
(* its admission would have been at every cycle up to the horizon.  All of  *)
(* this happens in one handler around the run that AdmissionCell describes: *)
(* everything here is a function of the state that run came to.             *)
(***************************************************************************)
EXTENDS AdmissionCell, Integers

CONSTANTS
  Horizon,           \* resource_horizon.maximum_logical_evidence_cycles
  MeasurementEnd,    \* resource_horizon.measurement_cycle_end
  GateDomains        \* final_gate.minimum_adequate_non_source_domains

ASSUME ScarcityAssumption ==
  /\ MeasurementEnd \in Nat
  /\ Horizon \in Nat /\ Horizon > MeasurementEnd
  /\ GateDomains \in Nat /\ GateDomains > 1

Schedules ==
  {"PERMANENT_SINGLETON", "ONE_HONEST_HOLDER", "GRADUAL_TO_QUORUM", "IMMEDIATE_QUORUM"}

Cycles == 0..Horizon
MeasuredCycles == 0..MeasurementEnd
Never == -1

\* The domains that can come to hold evidence: all but the first.
EligibleDomains == Len(Order) - 1

Breakpoints == {<<0, 0>>, <<2, 1>>, <<4, 3>>, <<6, 5>>, <<8, 8>>}

\* holder_count_at_cycle
HolderCount(schedule, cycle) ==
  LET reached == {b[2] : b \in {c \in Breakpoints : c[1] <= cycle}}
      count == CASE schedule = "PERMANENT_SINGLETON" -> 0
                 [] schedule = "ONE_HONEST_HOLDER" -> IF cycle < 2 THEN 0 ELSE 1
                 [] schedule = "GRADUAL_TO_QUORUM" -> Max(reached)
                 [] schedule = "IMMEDIATE_QUORUM" -> EligibleDomains
  IN IF count > EligibleDomains THEN EligibleDomains ELSE count

\* first_cycle_with_minimum_eligible_evidence_holders
Arrival(schedule, required) ==
  LET enough == {cycle \in MeasuredCycles : HolderCount(schedule, cycle) >= required}
  IN IF enough = {} THEN Never ELSE Min(enough)

\* tau_k, and compute_t_evidence: rows to reproduce and domains for the gate.
TauK(schedule) == Arrival(schedule, GateDomains)
TEvidence(schedule) ==
  LET rowsCycle == Arrival(schedule, CommitteeSize)
      gate == Arrival(schedule, GateDomains)
  IN IF Never \in {rowsCycle, gate} THEN Never ELSE Max({rowsCycle, gate})

\* Mutant: a schedule on which evidence never arrives is not told apart.
MUTCompletion(schedule, s) == IF TauK(schedule) <= 0 THEN s ELSE "DORMANT"

\* _execute_evidence_scarcity_cell: the state of the cell, when the advance of
\* the protocol would come to s. A completion is at cycle 0, so that it
\* precedes any later arrival, and the protocol is then not run.
Completion(schedule, s) == IF TauK(schedule) = 0 THEN s ELSE "DORMANT"

Terminal == {"ADMITTED", "REJECTED", "EXPIRED"}

\* apply_logical_cycle_expiry
Expire(s, cycle) == IF s \notin Terminal /\ cycle >= Horizon THEN "EXPIRED" ELSE s

\* evidence_scarcity_trajectory
Trajectory(schedule, s) ==
  LET arrival == TauK(schedule)
  IN [cycle \in Cycles |->
        Expire(IF arrival = Never \/ cycle < arrival THEN "DORMANT"
               ELSE IF cycle = arrival THEN "VERIFICATION_PENDING"
               ELSE Completion(schedule, s), cycle)]

\* permanent_singleton_admission
SingletonAdmission(schedule, s) ==
  /\ Completion(schedule, s) = "ADMITTED"
  /\ \A cycle \in MeasuredCycles : HolderCount(schedule, cycle) <= 1

-----------------------------------------------------------------------------
(* What is reported and verified of the trajectories                       *)

Vocabulary == {"DORMANT", "VERIFICATION_PENDING", "ADMITTED", "REJECTED", "EXPIRED"}

\* state_trajectory_fraction_rows: how many trajectories are in a state at a
\* cycle; refused, with the whole evidence of the run, on any other state.
Writable(trajectories) ==
  \A i \in DOMAIN trajectories : Range(trajectories[i]) \subseteq Vocabulary
Count(trajectories, cycle, s) ==
  Cardinality({i \in DOMAIN trajectories : trajectories[i][cycle] = s})

\* read_state_trajectory_fractions: at every cycle the counts make up the cells.
Readable(trajectories) ==
  \A cycle \in Cycles :
    LET count(s) == Count(trajectories, cycle, s)
    IN count("DORMANT") + count("VERIFICATION_PENDING") + count("ADMITTED")
         + count("REJECTED") + count("EXPIRED") = Len(trajectories)

\* _safe_dormancy_trajectory_failures, none of them
DormancyIsVerified(schedule, s) ==
  LET admitted == {cycle \in Cycles : Trajectory(schedule, s)[cycle] = "ADMITTED"}
  IN IF schedule = "PERMANENT_SINGLETON" \/ TEvidence(schedule) = Never
     THEN admitted = {}
     ELSE /\ \A cycle \in admitted : cycle >= TEvidence(schedule)
          /\ schedule \in {"GRADUAL_TO_QUORUM", "IMMEDIATE_QUORUM"} => admitted # {}

-----------------------------------------------------------------------------
(* Properties                                                              *)

\* What holds of a schedule's trajectory when the protocol comes to s. An
\* admission has evidence for the rows and for the gate; a final state is never
\* taken back, and there is one at the horizon.
Sound(trajectory, schedule) ==
  /\ \A cycle \in Cycles : trajectory[cycle] = "ADMITTED" =>
       /\ HolderCount(schedule, cycle) >= GateDomains
       /\ HolderCount(schedule, cycle) >= CommitteeSize
  /\ \A cycle \in Cycles \ {Horizon} :
       trajectory[cycle] \in Terminal => trajectory[cycle + 1] = trajectory[cycle]
  /\ trajectory[Horizon] \in Terminal

\* The states of the protocol that are recorded soundly on every schedule: a
\* single holder is never reported as admitted, and the trajectories can be
\* written, read again beside those of another cell and, unless the immediate
\* quorum ought to have admitted, verified.
RecordedSoundly ==
  {s \in States : \A schedule \in Schedules :
     LET trajectory == Trajectory(schedule, s)
         two == <<trajectory, Trajectory(schedule, "REJECTED")>>
     IN /\ Sound(trajectory, schedule)
        /\ ~SingletonAdmission(schedule, s)
        /\ Writable(two) /\ Readable(two)
        /\ \/ schedule = "GRADUAL_TO_QUORUM"
           \/ schedule = "IMMEDIATE_QUORUM" /\ s # "ADMITTED"
           \/ DormancyIsVerified(schedule, s)}

\* The experiment runs the resolved core, whichever it is, and compromises
\* nobody.
ScarcityRun ==
  /\ cell.method \in {"FullPath", "OneRetrain", "DirectKrum", "CoreBare"}
  /\ cell.compromised = 0
  /\ phase = "done"

\* Whatever a run of the protocol comes to, the trajectories that the cells of
\* the experiment record for it are sound, reportable and verifiable.
TrajectoriesAreSafe == ScarcityRun => state \in RecordedSoundly

=============================================================================
