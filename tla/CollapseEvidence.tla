-------------------------- MODULE CollapseEvidence --------------------------
(***************************************************************************)
(* How a collapse experiment is decided: the cells of its plan leave       *)
(* records, the end of a run turns the records into the comparisons of the *)
(* experiment's family, adjusts their p-values together and publishes      *)
(* them, and a completed experiment yields the decision whether the        *)
(* mechanism survives.                                                     *)
(*                                                                         *)
(* Every seed has an anchor and a source domain: without them cells only   *)
(* record what is undefined.                                               *)
(*                                                                         *)
(* What a protocol run of a cell comes to is an element of Outcomes; the   *)
(* metrics are computed from it as the handlers compute them, in percent,  *)
(* and a production report is "good" or "poor" on every value it has.      *)
(* P-values count sign assignments of all the master seeds, of which there *)
(* are One: the sign of a seed without a pair changes nothing.             *)
(***************************************************************************)
EXTENDS Integers, FiniteSets, SequencesExt

CONSTANTS
  SeedCount,         \* master seeds
  MinPairs,          \* minimum_complete_pairs_for_inference
  Alpha,             \* least count of One that is no longer significant
  SourceASR,         \* attack success of the source's own model
  Outcomes(_, _),    \* what the protocol run of a family's cell may come to
  NameRank,          \* the order of the comparison names
  MaxFailures        \* bound: technical failures of cells

Seeds == 1..SeedCount
One == Cardinality(SUBSET Seeds)

Families ==
  {"PROPOSAL_SCREEN", "PLURALITY", "SOURCE_EXCLUSION", "EXTERNAL_VERIFICATION"}

\* Metric values are never negative: None is a negative number.
Undefined == -1

\* The methods that a family compares, in planned order; source exclusion also
\* runs methods that are only reported.
Sides(f) ==
  IF f = "PLURALITY" THEN <<"reference", "method">> ELSE <<"method", "reference">>

Conditions(f) ==
  CASE f = "PROPOSAL_SCREEN" ->
         <<"LEGITIMATE", "GENERIC_HARD", "IRRELEVANT", "USEFUL_BACKDOORED">>
    [] f = "PLURALITY" -> <<"LEGITIMATE", "SITE_SHIFT", "SOURCE_COPY">>
    [] f = "SOURCE_EXCLUSION" -> <<"USEFUL_BACKDOORED">>
    [] f = "EXTERNAL_VERIFICATION" ->
         <<"LEGITIMATE", "SITE_SHIFT", "SOURCE_COPY", "VERIFIER_AWARE">>

Cells(f) == [side : {"method", "reference"}, condition : Range(Conditions(f)), seed : Seeds]

\* The plan: methods, then conditions, then seeds.
Plan(f) ==
  LET perSide == Len(Conditions(f)) * SeedCount
  IN [i \in 1..(2 * perSide) |->
        [side      |-> Sides(f)[((i - 1) \div perSide) + 1],
         condition |-> Conditions(f)[(((i - 1) % perSide) \div SeedCount) + 1],
         seed      |-> ((i - 1) % SeedCount) + 1]]

(* The registry: comparisons of the four families and their thresholds, in percent. *)

Superiority(conditions, metrics) ==
  [condition : conditions, metric : metrics, test : {"SUPERIORITY"}]
NonInferiority(conditions, metrics) ==
  [condition : conditions, metric : metrics, test : {"NON_INFERIORITY"}]

Members(f) ==
  CASE f = "PROPOSAL_SCREEN" ->
         Superiority({"GENERIC_HARD", "IRRELEVANT"}, {"FALSE_LAUNCH"})
           \union Superiority(Range(Conditions(f)), {"REPRODUCTION_ATTEMPTS", "OVERHEAD"})
           \union NonInferiority({"LEGITIMATE"}, {"LEGITIMATE_ADMISSION"})
           \union NonInferiority({"USEFUL_BACKDOORED"}, {"MALICIOUS_ADMISSION"})
    [] f = "SOURCE_EXCLUSION" ->
         Superiority({"USEFUL_BACKDOORED"}, {"ATTACK_SUCCESS_RATE"})
           \union NonInferiority({"USEFUL_BACKDOORED"}, {"TARGET_F1"})
    [] OTHER ->
         Superiority(Range(Conditions(f)) \ {"LEGITIMATE"},
                     {"MALICIOUS_ADMISSION", "WORST_DOMAIN_TARGET_F1"})

\* _positive_metrics: the effects that can carry a mechanism.
Positive(f) ==
  CASE f = "PROPOSAL_SCREEN" -> {"FALSE_LAUNCH", "REPRODUCTION_ATTEMPTS", "OVERHEAD"}
    [] f = "SOURCE_EXCLUSION" -> {"ATTACK_SUCCESS_RATE"}
    [] OTHER -> {"MALICIOUS_ADMISSION", "WORST_DOMAIN_TARGET_F1"}

HigherIsBetter == {"LEGITIMATE_ADMISSION", "TARGET_F1", "WORST_DOMAIN_TARGET_F1"}
Relative == {"REPRODUCTION_ATTEMPTS", "OVERHEAD"}

Threshold ==
  [FALSE_LAUNCH |-> 15, REPRODUCTION_ATTEMPTS |-> 25, OVERHEAD |-> 20,
   MALICIOUS_ADMISSION |-> 10, WORST_DOMAIN_TARGET_F1 |-> 5, ATTACK_SUCCESS_RATE |-> 20]
Margin ==
  [LEGITIMATE_ADMISSION |-> 5, MALICIOUS_ADMISSION |-> 2, TARGET_F1 |-> 2]

\* collapse_evaluation_from_records and _constraints_pass: by how much a
\* metric may get worse, on average, in each of some conditions.
Constraints(f) ==
  LET bound(metric, conditions, maximum) ==
        [metric |-> metric, conditions |-> conditions, maximum |-> maximum]
  IN CASE f = "PROPOSAL_SCREEN" ->
            {bound("LEGITIMATE_ADMISSION", {"LEGITIMATE"}, 5),
             bound("MALICIOUS_ADMISSION", {"USEFUL_BACKDOORED"}, 2)}
       [] f = "PLURALITY" ->
            {bound("LEGITIMATE_ADMISSION", Range(Conditions(f)), 5),
             bound("SUPPORTED_HARM", Range(Conditions(f)), 2)}
       [] f = "SOURCE_EXCLUSION" ->
            {bound("TARGET_F1", {"USEFUL_BACKDOORED"}, 2),
             bound("SUPPORTED_HARM", {"USEFUL_BACKDOORED"}, 2),
             bound("BENIGN_FAR_INCREASE", {"USEFUL_BACKDOORED"}, 1)}
       [] f = "EXTERNAL_VERIFICATION" ->
            {bound("LEGITIMATE_ADMISSION", {"LEGITIMATE"}, 5)}

-----------------------------------------------------------------------------
(* What a cell records                                                     *)

\* What a protocol run came to. It is opened unless a proposal was screened
\* out; a run that reaches the final gate has a report; positive counts the
\* adequate domains that met the screen, cost the seconds of the run, and asr
\* is the attack success of the production model.
Outcome ==
  [state : {"ADMITTED", "REJECTED", "DORMANT"}, opened : BOOLEAN,
   report : {"none", "good", "poor"}, tainted : BOOLEAN,
   positive : Nat, cost : Nat, asr : Nat]

Blank == [terminal |-> "NONE"]
Failed == [terminal |-> "FAILED"]
Completed(o, overhead) ==
  [terminal |-> "COMPLETED", outcome |-> o, overhead |-> overhead]

Rate(b) == IF b THEN 100 ELSE 0

\* The proposals that deserve no admission.
Unfounded == {"GENERIC_HARD", "IRRELEVANT"}

\* The condition has a compromised contributor whose use can be malicious.
Fixture(f, condition) ==
  CASE f \in {"PROPOSAL_SCREEN", "SOURCE_EXCLUSION"} -> condition = "USEFUL_BACKDOORED"
    [] f = "PLURALITY" -> condition = "SOURCE_COPY"
    [] f = "EXTERNAL_VERIFICATION" -> condition \in {"SOURCE_COPY", "VERIFIER_AWARE"}

\* What the record of a cell says about a metric.
Observation(f, condition, r, metric) ==
  LET o == r.outcome
      admitted == o.state = "ADMITTED"
  IN CASE metric = "LEGITIMATE_ADMISSION" ->
            IF f = "PROPOSAL_SCREEN" /\ condition \in Unfounded
            THEN Undefined ELSE Rate(admitted)
       [] metric = "MALICIOUS_ADMISSION" ->
            IF Fixture(f, condition) THEN Rate(admitted /\ o.tainted) ELSE Undefined
       [] metric \in {"TARGET_F1", "WORST_DOMAIN_TARGET_F1"} ->
            IF o.report = "none" THEN Undefined ELSE Rate(o.report = "good")
       [] metric \in {"SUPPORTED_HARM", "BENIGN_FAR_INCREASE"} ->
            IF o.report = "none" THEN Undefined ELSE Rate(o.report = "poor")
       [] metric = "ATTACK_SUCCESS_RATE" -> SourceASR
       [] metric = "FALSE_LAUNCH" -> Rate(admitted /\ condition \in Unfounded)
       [] metric = "REPRODUCTION_ATTEMPTS" -> IF admitted THEN o.positive ELSE 0
       [] metric = "OVERHEAD" -> r.overhead

\* metric_value: only a completed cell has one.
MetricValue(f, rec, side, condition, s, metric) ==
  LET r == rec[[side |-> side, condition |-> condition, seed |-> s]]
  IN IF r.terminal = "COMPLETED" THEN Observation(f, condition, r, metric) ELSE Undefined

-----------------------------------------------------------------------------
(* Comparisons                                                             *)

\* The seeds whose two cells have the metric.
PairedSeeds(f, rec, condition, metric) ==
  {s \in Seeds : \A side \in {"method", "reference"} :
     MetricValue(f, rec, side, condition, s, metric) # Undefined}

\* _comparison_pairs: a relative effect needs a reference other than zero.
Pairs(f, rec, c) ==
  {s \in PairedSeeds(f, rec, c.condition, c.metric) :
     c.metric \in Relative
       => MetricValue(f, rec, "reference", c.condition, s, c.metric) # 0}

\* Mutant: the benefit of a metric that should fall has the wrong sign.
MUTBenefit(f, rec, c, s) ==
  LET reference == MetricValue(f, rec, "reference", c.condition, s, c.metric)
      gain == MetricValue(f, rec, "method", c.condition, s, c.metric) - reference
  IN IF c.metric \in Relative THEN (100 * gain) \div reference ELSE gain

\* _benefit_difference
Benefit(f, rec, c, s) ==
  LET method == MetricValue(f, rec, "method", c.condition, s, c.metric)
      reference == MetricValue(f, rec, "reference", c.condition, s, c.metric)
      gain == IF c.metric \in HigherIsBetter THEN method - reference ELSE reference - method
  IN IF c.metric \in Relative THEN (100 * gain) \div reference ELSE gain

\* The sum of d over its domain with the signs of some seeds flipped.
SignedSum(d, flipped) ==
  MapThenSumSet(LAMBDA s : IF s \in flipped THEN -d[s] ELSE d[s], DOMAIN d)

Abs(x) == IF x < 0 THEN -x ELSE x

\* The exact sign-flip tests: how many assignments are as extreme as the data.
TwoSidedP(d) ==
  LET observed == Abs(SignedSum(d, {}))
  IN Cardinality({flipped \in SUBSET Seeds : Abs(SignedSum(d, flipped)) >= observed})

NonInferiorityP(d, margin) ==
  LET shifted == [s \in DOMAIN d |-> d[s] + margin]
      observed == SignedSum(shifted, {})
  IN Cardinality({flipped \in SUBSET Seeds : SignedSum(shifted, flipped) >= observed})

\* The same function as a table: TLC evaluates its values once.
Table(function) == CHOOSE table \in {function} : table = function

\* evaluate_comparison and the materiality of _adjusted_result.
Evaluate(f, rec, c) ==
  LET pairs == Pairs(f, rec, c)
      d == Table([s \in pairs |-> Benefit(f, rec, c, s)])
      n == Cardinality(pairs)
  IN IF n < MinPairs
     THEN [pairs |-> n, raw |-> Undefined, material |-> FALSE]
     ELSE IF c.test = "SUPERIORITY"
     THEN [pairs |-> n, raw |-> TwoSidedP(d),
           material |-> SignedSum(d, {}) >= Threshold[c.metric] * n]
     ELSE [pairs |-> n, raw |-> NonInferiorityP(d, Margin[c.metric]), material |-> TRUE]

-----------------------------------------------------------------------------
(* Holm's adjustment of a family                                           *)

\* The p-value a member enters the family with: a missing one counts as 1.
Entry(evaluated) ==
  [c \in DOMAIN evaluated |-> IF evaluated[c].raw = Undefined THEN One ELSE evaluated[c].raw]

\* In the order of (raw p-value, name), c does not come after d.
NotAfter(p, c, d) ==
  p[c] < p[d] \/ (p[c] = p[d] /\ NameRank[c] <= NameRank[d])

\* What a member's p-value is multiplied with: how many members remain.
Remaining(p, c) == Cardinality({d \in DOMAIN p : NotAfter(p, c, d)})

\* Mutant: the members before c in the order do not hold it back.
MUTAdjusted(p, c) ==
  LET own == Remaining(p, c) * p[c] IN IF own > One THEN One ELSE own

\* holm_adjusted_p_values: the running maximum of the products, at most 1.
Adjusted(p, c) ==
  LET highest == Max({Remaining(p, d) * p[d] : d \in {e \in DOMAIN p : NotAfter(p, e, c)}})
  IN IF highest > One THEN One ELSE highest

Verdict(e, adjusted) ==
  IF e.raw # Undefined
  THEN IF adjusted < Alpha /\ e.material THEN "PASSED" ELSE "FAILED"
  ELSE IF e.pairs = 0 THEN "UNDEFINED" ELSE "INCONCLUSIVE"

\* Mutant: only the members with a p-value are adjusted together.
MUTAdjustedFamily(evaluated) ==
  LET p == [c \in {d \in DOMAIN evaluated : evaluated[d].raw # Undefined} |-> evaluated[c].raw]
  IN [c \in DOMAIN evaluated |->
        LET a == IF c \in DOMAIN p THEN Adjusted(p, c) ELSE One
        IN [raw |-> evaluated[c].raw, material |-> evaluated[c].material,
            adjusted |-> a, state |-> Verdict(evaluated[c], a)]]

\* apply_holm_adjustment
AdjustedFamily(evaluated) ==
  LET p == Table(Entry(evaluated))
  IN [c \in DOMAIN evaluated |->
        LET a == Adjusted(p, c)
        IN [raw |-> evaluated[c].raw, material |-> evaluated[c].material,
            adjusted |-> a, state |-> Verdict(evaluated[c], a)]]

\* build_comparison_results_for_experiment
Comparisons(f, rec) ==
  AdjustedFamily(Table([c \in Members(f) |-> Evaluate(f, rec, c)]))

-----------------------------------------------------------------------------
(* The collapse decision                                                   *)

Harm(f, rec, metric, condition, s) ==
  LET method == MetricValue(f, rec, "method", condition, s, metric)
      reference == MetricValue(f, rec, "reference", condition, s, metric)
  IN IF metric \in HigherIsBetter THEN reference - method ELSE method - reference

\* Mutant: a condition without enough pairs is passed over.
MUTWithin(f, rec, k, condition) ==
  LET pairs == PairedSeeds(f, rec, condition, k.metric)
  IN SignedSum([s \in pairs |-> Harm(f, rec, k.metric, condition, s)], {})
       <= k.maximum * Cardinality(pairs)

\* _paired_constraint_means: undefined with too few pairs in any condition.
Within(f, rec, k, condition) ==
  LET pairs == PairedSeeds(f, rec, condition, k.metric)
  IN /\ Cardinality(pairs) >= MinPairs
     /\ SignedSum([s \in pairs |-> Harm(f, rec, k.metric, condition, s)], {})
          <= k.maximum * Cardinality(pairs)

ConstraintsPass(f, rec) ==
  \A k \in Constraints(f) : \A condition \in k.conditions : Within(f, rec, k, condition)

PassedPositive(f, comparisons) ==
  {c \in DOMAIN comparisons :
     c.metric \in Positive(f) /\ comparisons[c].state = "PASSED"}

\* _best_passed_metric and collapse_decision_from_comparison_families
Decision(f, rec, comparisons) ==
  LET passed == PassedPositive(f, comparisons)
      first(c) == \A d \in passed :
        \/ comparisons[c].adjusted < comparisons[d].adjusted
        \/ /\ comparisons[c].adjusted = comparisons[d].adjusted
           /\ NameRank[c] <= NameRank[d]
  IN [survives |-> passed # {} /\ ConstraintsPass(f, rec),
      effect |-> {c.metric : c \in {d \in passed : first(d)}}]

ASSUME CollapseAssumption ==
  /\ SeedCount \in Nat
  /\ MinPairs \in Nat \ {0}
  /\ Alpha \in Nat
  /\ Alpha <= One
  /\ SourceASR \in Nat
  /\ MaxFailures \in Nat

ASSUME OutcomeAssumption ==
  \A f \in Families : \A cell \in Cells(f) : Outcomes(f, cell) \subseteq Outcome

\* Comparison names are distinct: apply_holm_adjustment refuses duplicates.
ASSUME NameAssumption ==
  /\ NameRank \in [UNION {Members(f) : f \in Families} -> 0..99]
  /\ \A c, d \in DOMAIN NameRank : NameRank[c] = NameRank[d] => c = d

-----------------------------------------------------------------------------
(* The experiment                                                          *)

VARIABLES
  family,      \* the comparison family of the experiment that is run
  record,      \* the execution record of each cell
  next,        \* the place in the plan
  durations,   \* _last_protocol_phase_durations of the executor, summed
  failures,    \* technical failures so far
  phase,       \* "running", "failed", "completed" or "decided"
  published,   \* the comparison evidence, or none
  decision     \* the collapse decision, or none

vars == <<family, record, next, durations, failures, phase, published, decision>>

NoEvidence == [c \in {} |-> Blank]
NoDecision == [survives |-> FALSE, effect |-> {"NONE"}]

Init ==
  /\ family \in Families
  /\ record = [cell \in Cells(family) |-> Blank]
  /\ next = 1
  /\ durations = 0
  /\ failures = 0
  /\ phase = "running"
  /\ published = NoEvidence
  /\ decision = NoDecision

\* The place from here on of the first cell that is not complete, or the end:
\* a resumed run passes over the cells it can reuse.
Place ==
  LET plan == Plan(family)
      open == {i \in next..Len(plan) : record[plan[i]].terminal # "COMPLETED"}
  IN IF open = {} THEN Len(plan) + 1 ELSE Min(open)

\* A cell is executed. Durations are only renewed by a run past the opening.
Finish ==
  LET place == Place
      cell == Plan(family)[place]
  IN /\ phase = "running"
     /\ place <= Len(Plan(family))
     /\ \E o \in Outcomes(family, cell) :
          /\ durations' = IF o.opened THEN o.cost ELSE durations
          /\ record' = [record EXCEPT ![cell] = Completed(o, durations')]
     /\ next' = place + 1
     /\ UNCHANGED <<family, failures, phase, published, decision>>

\* A cell fails for a technical reason, before or after its durations are reset.
Fail ==
  LET place == Place
  IN /\ phase = "running"
     /\ place <= Len(Plan(family))
     /\ failures < MaxFailures
     /\ failures' = failures + 1
     /\ durations' \in {durations, 0}
     /\ record' = [record EXCEPT ![Plan(family)[place]] = Failed]
     /\ next' = place + 1
     /\ UNCHANGED <<family, phase, published, decision>>

\* The end of a run: its comparisons replace those of an earlier run.
Analyse ==
  /\ phase = "running"
  /\ Place > Len(Plan(family))
  /\ published' = Comparisons(family, record)
  /\ phase' = IF \A cell \in Cells(family) : record[cell].terminal = "COMPLETED"
              THEN "completed" ELSE "failed"
  /\ UNCHANGED <<family, record, next, durations, failures, decision>>

\* Mutant: a resumed run starts at the place before the first.
MUTResume ==
  /\ phase = "failed"
  /\ phase' = "running"
  /\ next' = 0
  /\ durations' = 0
  /\ UNCHANGED <<family, record, failures, published, decision>>

\* A new process runs an experiment that is not complete again.
Resume ==
  /\ phase = "failed"
  /\ phase' = "running"
  /\ next' = 1
  /\ durations' = 0
  /\ UNCHANGED <<family, record, failures, published, decision>>

\* _materialize_core_if_complete, for this experiment.
Decide ==
  /\ phase = "completed"
  /\ decision' = Decision(family, record, published)
  /\ phase' = "decided"
  /\ UNCHANGED <<family, record, next, durations, failures, published>>

Next ==
  \/ Finish
  \/ Fail
  \/ Analyse
  \/ Resume
  \/ Decide

Spec == Init /\ [][Next]_vars

-----------------------------------------------------------------------------
(* Properties                                                              *)

Undecided == decision = NoDecision

TypeOK ==
  /\ family \in Families
  /\ next \in 1..(Len(Plan(family)) + 1)
  /\ phase \in {"running", "failed", "completed", "decided"}
  /\ failures \in 0..MaxFailures
  /\ durations \in Nat
  /\ \A cell \in Cells(family) :
       record[cell].terminal \in {"NONE", "FAILED", "COMPLETED"}

\* The adjusted p-value of a member is significant exactly when Bonferroni's
\* test rejects every part of the family the member is in: the closed test
\* that bounds the chance of any false claim in the family by alpha.
ClosedTest(p, c) ==
  \A others \in SUBSET (DOMAIN p \ {c}) :
    \E d \in others \union {c} : p[d] * (Cardinality(others) + 1) < Alpha

HolmIsClosed ==
  LET p == Table(Entry(published))
  IN \A c \in DOMAIN published : published[c].adjusted < Alpha <=> ClosedTest(p, c)

\* A member that passed while others had too few pairs still passes when a
\* resumed run completes those: a missing execution is no advantage to anyone.
MissingIsNoAdvantage ==
  [][\A c \in DOMAIN published :
       /\ published' # published
       /\ published[c].state = "PASSED"
       /\ published'[c].raw = published[c].raw
       /\ published'[c].material
       /\ \A d \in DOMAIN published :
            published[d].raw = Undefined \/ published'[d].raw = published[d].raw
       => published'[c].state = "PASSED"]_vars

\* The seeds in which both sides' cells completed and came to a production
\* that was reported on.
Reported(condition) ==
  {s \in Seeds : \A side \in {"method", "reference"} :
     LET r == record[[side |-> side, condition |-> condition, seed |-> s]]
     IN r.terminal = "COMPLETED" /\ r.outcome.report # "none"}

\* No mechanism survives on what was not measured: a surviving one has an
\* effect that passed on enough pairs, and where the rule bounds a loss of
\* supported or target performance, in every condition it names, enough seeds
\* have both productions. In particular plurality cannot survive by leaving
\* the Byzantine condition's claims dormant.
SurvivalIsMeasured ==
  decision.survives =>
    /\ \E c \in Members(family) :
         /\ decision.effect = {c.metric}
         /\ published[c].state = "PASSED"
         /\ Cardinality(Pairs(family, record, c)) >= MinPairs
    /\ \A k \in Constraints(family) : \A condition \in k.conditions :
         k.metric \in {"SUPPORTED_HARM", "TARGET_F1", "BENIGN_FAR_INCREASE"}
           => Cardinality(Reported(condition)) >= MinPairs

\* The mechanism admits in every cell, with a good report and no compromised
\* contributor; its comparator admits as well, and with a compromised
\* contributor wherever the condition has one.
ClearlyProtects ==
  \A cell \in Cells(family) :
    LET o == record[cell].outcome
    IN /\ o.state = "ADMITTED"
       /\ cell.side = "method" => o.report = "good" /\ ~o.tainted
       /\ cell.side = "reference" => o.report # "none" /\ o.tainted = Fixture(family, cell.condition)

\* Plurality and external verification survive when they clearly protect.
ProtectionSurvives ==
  /\ ~Undecided
  /\ family \in {"PLURALITY", "EXTERNAL_VERIFICATION"}
  /\ ClearlyProtects
  => decision.survives

\* The documentation's central gate: source exclusion survives when, in every
\* seed, its production resists the trigger, the comparator's does not, and
\* nothing else got worse.
CentralEffectSurvives ==
  /\ ~Undecided
  /\ family = "SOURCE_EXCLUSION"
  /\ \A cell \in Cells(family) :
       LET o == record[cell].outcome
       IN /\ o.state = "ADMITTED"
          /\ o.report = "good"
          /\ o.asr = IF cell.side = "method" THEN 0 ELSE 100
  => decision.survives

=============================================================================
