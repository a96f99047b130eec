------------------------- MODULE LeaveFaultValidation -------------------------
(***************************************************************************)
(* The comparison of admission decisions: every decision method on the     *)
(* controlled worlds, and on any other panel that is handed to it.         *)
(*                                                                         *)
(* Screened domains are drawn by a seed: every draw is an input. Updates   *)
(* are in tenths, utilities and harms in percent.                          *)
(***************************************************************************)
EXTENDS LeaveFaultCertificate, Sequences

CONSTANTS
  Panels,               \* admission inputs besides the controlled worlds
  ScreenOrders(_),      \* the orders that seeds draw of a set of domains
  BetaValues,           \* coefficients a coalition may have, 0 among them
  ScreenDomains, RequiredPositiveScreenDomains,                  \* opening
  OpeningGain, OpeningDrop, OpeningFalseAlarms,                  \* contract
  MinimumAdequateDomains, GateMedian, GateWorst, GateDrop        \* final gate

VARIABLES case, result
vars == <<case, result>>

\* Inverse distances are not negative.
ASSUME BetaAssumption == BetaValues \subseteq Nat

ASSUME PanelAssumption == \A panel \in Panels : IsAdmissionInput(panel)

Methods == CertificateMethods \union
  {"LIFECYCLE", "DIRECT_SOURCE", "QUORUM", "KRUM_SELECTION", "COORDINATE_MEDIAN", "BULYAN"}

(* The controlled worlds.                                                   *)

Low == 10
Malicious == <<1, 0>>

Geometry(kind, i) ==
  CASE kind = "HONEST" ->
         <<<<0, 10>>, <<0, -10>>, <<10, 0>>, <<-10, 0>>, <<5, 5>>, <<5, -5>>, <<10, 10>>>>[i]
    [] kind = "KRUM" ->
         <<<<0, 10>>, <<0, -10>>, <<10, 0>>, <<-10, 0>>, <<80, 80>>, <<-80, -80>>, Malicious>>[i]
    [] kind = "FAULT" ->
         <<<<0, 10>>, <<0, -10>>, <<10, 0>>, <<-10, 0>>, <<5, 5>>, <<5, -5>>, Malicious>>[i]
    [] kind = "COPIED" -> <<100, 100>>
    [] kind = "DISAGREEING" -> IF i % 2 = 1 THEN <<80, 80>> ELSE <<-80, -80>>
    [] kind = "CONSTANT" -> <<5, 5>>

SourceVector(placement, first) ==
  CASE placement = "FAR" -> <<100, 100>>
    [] placement = "COPIED" -> first
    [] placement = "PERTURBED" -> <<80, 80>>
    [] placement = "MALICIOUS" -> Malicious

\* The utility of the i-th domain, d, when these domains are screened in this order.
Utility(pattern, i, d, screened) ==
  LET First(n) == {screened[k] : k \in 1..n}
      Mark(marked, value, default) == IF marked THEN value ELSE default
  IN CASE pattern = "HIGH" -> UtilityFloor
       [] pattern = "OPENING" -> OpeningGain
       [] pattern = "ONE_SCREEN_LOW" -> Mark(d \in First(1), Low, UtilityFloor)
       [] pattern = "TWO_SCREEN_LOW" -> Mark(d \in First(2), Low, UtilityFloor)
       [] pattern = "TWO_SCREEN_HIGH" -> Mark(d \in First(2), UtilityFloor, Low)
       [] pattern = "ONE_HIGH" -> Mark(i = 1, UtilityFloor, Low)
       [] pattern = "ALTERNATING" -> Mark(i % 2 = 1, UtilityFloor, Low)
       [] pattern = "GAP" -> <<75, 75, 100, 100, 100>>[i]
       [] pattern = "CONFLICT" -> Mark(d \in First(Len(screened)), UtilityFloor, Low)

World(count, geometry, utilities, source, useful) ==
  [count |-> count, geometry |-> geometry, utilities |-> utilities,
   source |-> source, useful |-> useful]

Worlds == [
  ALL_HONEST              |-> World(7, "HONEST", "HIGH", "FAR", TRUE),
  KRUM_IN_GEOMETRY        |-> World(7, "KRUM", "HIGH", "FAR", TRUE),
  BYZANTINE_LOW_REPORT    |-> World(7, "HONEST", "ONE_SCREEN_LOW", "FAR", TRUE),
  QUORUM_FALSE_ADMISSION  |-> World(7, "HONEST", "OPENING", "FAR", FALSE),
  QUORUM_FALSE_REJECTION  |-> World(7, "HONEST", "TWO_SCREEN_LOW", "FAR", TRUE),
  INSUFFICIENT_EVIDENCE   |-> World(2, "HONEST", "HIGH", "FAR", FALSE),
  CONFLICTING_EVIDENCE    |-> World(5, "CONSTANT", "CONFLICT", "FAR", FALSE),
  SOURCE_COPIED           |-> World(7, "COPIED", "HIGH", "COPIED", TRUE),
  SOURCE_PERTURBED        |-> World(7, "COPIED", "HIGH", "PERTURBED", TRUE),
  DISAGREEING_SUPPORTERS  |-> World(7, "DISAGREEING", "ALTERNATING", "FAR", FALSE),
  SHARP_QUALITY_GAP       |-> World(5, "CONSTANT", "GAP", "FAR", FALSE),
  ONE_MALICIOUS_REVIEWER  |-> World(7, "HONEST", "ONE_HIGH", "FAR", FALSE),
  HONEST_MINORITY_STRONG  |-> World(7, "HONEST", "TWO_SCREEN_HIGH", "FAR", FALSE),
  FAULT_AT_BOUND          |-> World(7, "FAULT", "HIGH", "FAR", TRUE),
  BYZANTINE_SOURCE        |-> World(7, "HONEST", "HIGH", "MALICIOUS", TRUE)]

Source == Least(Domains)

\* The domain at place i after the source, which comes first.
Place(i) == CHOOSE d \in Domains : Cardinality({e \in Domains : e < d}) = i

ScreenCount(among) ==
  IF Cardinality(among) < ScreenDomains THEN Cardinality(among) ELSE ScreenDomains

ASSUME OpeningAssumption == OpeningGain \in Int

ASSUME ScreenAssumption ==
  \A among \in SUBSET Domains :
    \A order \in ScreenOrders(among) :
      /\ order \in [1..ScreenCount(among) -> among]
      /\ \A i, j \in DOMAIN order : i # j => order[i] # order[j]

Row(update, utility, harm) == [update |-> update, utility |-> utility, harm |-> harm]

ControlledCase(world, screened) ==
  LET spec == Worlds[world]
      domains == {Place(i) : i \in 1..spec.count}
      At(d) == CHOOSE i \in 1..spec.count : Place(i) = d
  IN [world |-> world, screened |-> screened,
      input |->
        [source   |-> Source,
         own      |-> Row(SourceVector(spec.source, Geometry(spec.geometry, 1)), UtilityFloor, 0),
         evidence |-> [d \in domains |->
                        Row(Geometry(spec.geometry, At(d)),
                            Utility(spec.utilities, At(d), d, screened), 0)],
         repeated |-> {}]]

ControlledCases ==
  UNION {{ControlledCase(world, screened) :
            screened \in ScreenOrders({Place(i) : i \in 1..Worlds[world].count})} :
          world \in DOMAIN Worlds}

OtherCases ==
  UNION {{[world |-> "NONE", screened |-> screened, input |-> panel] :
            screened \in ScreenOrders(DOMAIN panel.evidence)} : panel \in Panels}

(* The other methods.                                                       *)

Outcome(state, production, sourceShare, utility, harm) ==
  Decision(state, utility, harm, production, 1, sourceShare, <<>>)

ClosedOutcome(state) == Closed(state, Absent, Absent)

Evidence(input, field) == [d \in DOMAIN input.evidence |-> input.evidence[d][field]]

MeetsOpening(row) ==
  row.utility >= OpeningGain /\ row.harm <= OpeningDrop /\ row.harm <= OpeningFalseAlarms

OpeningState(c) ==
  LET screened == {c.screened[i] : i \in DOMAIN c.screened}
      positive == {d \in screened : MeetsOpening(c.input.evidence[d])}
  IN IF Cardinality(screened) < RequiredPositiveScreenDomains THEN "DORMANT"
     ELSE IF Cardinality(positive) >= RequiredPositiveScreenDomains
     THEN "ADMISSION_OPEN" ELSE "REJECTED"

\* The median is the mean of the two middle values: it is compared twice over.
LifecycleGate(input) ==
  LET panel == DOMAIN input.evidence
      utility == Evidence(input, "utility")
      harm == Evidence(input, "harm")
  IN /\ LowerMedian(utility, panel) + UpperMedian(utility, panel) >= 2 * GateMedian
     /\ \A d \in panel : utility[d] >= GateWorst
     /\ SumOver(harm, panel) <= GateDrop * Cardinality(panel)

KrumThenGate(c, requireOpening, requireDomainCount) ==
  LET panel == DOMAIN c.input.evidence
      update == Evidence(c.input, "update")
  IN CASE requireOpening /\ OpeningState(c) # "ADMISSION_OPEN" -> ClosedOutcome(OpeningState(c))
       [] OTHER ->
            IF \/ requireDomainCount /\ Cardinality(panel) < MinimumAdequateDomains
               \/ ~ KrumIsAdmissible(panel)
            THEN ClosedOutcome("DORMANT")
            ELSE IF ~ LifecycleGate(c.input) THEN ClosedOutcome("REJECTED")
            ELSE Outcome("ADMITTED", {update[SelectKrum(update, panel)]}, 0, Absent, Absent)

DirectSource(input) ==
  IF input.own.utility >= GateMedian /\ input.own.harm <= GateDrop
  THEN Outcome("ADMITTED", {input.own.update}, 1, {input.own.utility}, {input.own.harm})
  ELSE ClosedOutcome("REJECTED")

\* Mutant: an open admission is passed on as a decision.
QuorumOpens(c) == ClosedOutcome(OpeningState(c))

Quorum(c) ==
  ClosedOutcome(IF OpeningState(c) = "ADMISSION_OPEN" THEN "ADMITTED" ELSE OpeningState(c))

CoordinateMedian(update, panel) ==
  [a \in DOMAIN update[CHOOSE d \in panel : TRUE] |->
     LowerMedian([d \in panel |-> update[d][a]], panel)]

\* The rows with the best scores, and the median of each coordinate of theirs.
BulyanUpdate(update, panel) ==
  LET rank == KrumRanks(update, panel)
      kept == {d \in panel : rank[d] < Cardinality(panel) - 2 * FaultBound}
  IN CoordinateMedian(update, kept)

FullSetAdmission(input, production) ==
  LET panel == DOMAIN input.evidence
      utility == LowerMedian(Evidence(input, "utility"), panel)
      harm == UpperMedian(Evidence(input, "harm"), panel)
  IN IF utility >= UtilityFloor /\ harm <= HarmCeiling
     THEN Outcome("ADMITTED", {production}, 0, {utility}, {harm})
     ELSE Outcome("REJECTED", Absent, 0, {utility}, {harm})

ExecuteRecordedCase(method, c) ==
  LET panel == DOMAIN c.input.evidence
      update == Evidence(c.input, "update")
  IN CASE method \in CertificateMethods -> Decide(c.input, method, BetaValues)
       [] method = "LIFECYCLE" -> {KrumThenGate(c, TRUE, TRUE)}
       [] method = "KRUM_SELECTION" -> {KrumThenGate(c, FALSE, FALSE)}
       [] method = "DIRECT_SOURCE" -> {DirectSource(c.input)}
       [] method = "QUORUM" -> {Quorum(c)}
       [] method = "COORDINATE_MEDIAN" ->
            {IF panel = {} THEN ClosedOutcome("DORMANT")
             ELSE FullSetAdmission(c.input, CoordinateMedian(update, panel))}
       [] method = "BULYAN" ->
            {IF ~ KrumIsAdmissible(panel) THEN ClosedOutcome("DORMANT")
             ELSE FullSetAdmission(c.input, BulyanUpdate(update, panel))}

(* Behaviour                                                                *)

NoResult == [method |-> "NONE"]

\* Whether a production may be the malicious update: a geometric median between
\* the means may lie anywhere.
MayMatch(outcome) ==
  CASE outcome.state # "ADMITTED" \/ outcome.production = Absent -> {FALSE}
    [] outcome.production = {Elsewhere} -> BOOLEAN
    [] OTHER -> {outcome.production = {[a \in 1..2 |-> outcome.over * Malicious[a]]}}

Init == case \in ControlledCases \union OtherCases /\ result = NoResult

\* One method on the case that all methods get; only the certificate looks for
\* panels that raise, and the others are handed none.
ExecuteAdmissionCase(method) ==
  /\ result = NoResult
  /\ Malformed(case.input, DOMAIN case.input.evidence) => method \in CertificateMethods
  /\ \E outcome \in ExecuteRecordedCase(method, case) :
       \E malicious \in MayMatch(outcome) :
         result' = [method |-> method, outcome |-> outcome, malicious |-> malicious]
  /\ UNCHANGED case

Next == \E method \in Methods : ExecuteAdmissionCase(method)

Spec == Init /\ [][Next]_vars

------------------------------------------------------------------------------
(* Properties                                                               *)

Decided(methods, state) ==
  result.method \in methods /\ result.outcome.state = state

\* State and support of a decision go together.
TypeOK ==
  /\ case.world \in DOMAIN Worlds \union {"NONE"}
  /\ result.method \in Methods \union {"NONE"}
  /\ result # NoResult =>
       /\ result.outcome.state \in {"ADMITTED", "REJECTED", "DORMANT", "FAILED"}
       /\ result.outcome.sourceShare > 0 => result.outcome.state = "ADMITTED"

\* Whatever f holders report, and however many of them: the measurements of the
\* others carry an admission by themselves (decide_leave_fault_certificate).
HonestHoldersClear ==
  Decided({"LEAVE_FAULT_CERTIFICATE", "WITHOUT_GEOMETRIC_MEDIAN"}, "ADMITTED") =>
    LET N == Selected(case.input, TRUE)
        utility == Reported(case.input, TRUE, "utility")
        harm == Reported(case.input, TRUE, "harm")
    IN \A faulty \in SUBSET N :
         Cardinality(faulty) <= FaultBound =>
           /\ LowerMedian(utility, N \ faulty) >= UtilityFloor
           /\ UpperMedian(harm, N \ faulty) <= HarmCeiling

\* On a panel of more than 3f holders, f of them cannot have a capability refused
\* that all others vouch for (the worst coalition keeps them all).
FaultsCannotVeto ==
  LET N == Selected(case.input, TRUE)
      Vouches(d) == /\ RowOf(case.input, d).utility >= UtilityFloor
                    /\ RowOf(case.input, d).harm <= HarmCeiling
  IN /\ Cardinality(N) >= 3 * FaultBound + 1
     /\ Cardinality({d \in N : ~ Vouches(d)}) <= FaultBound
     => ~ Decided({"LEAVE_FAULT_CERTIFICATE"}, "REJECTED")

\* No claim of the source about its own model changes what a source-free method
\* decides, installs or hands out.
SourceHasNoSay ==
  result.method \notin {"NONE", "DIRECT_SOURCE", "WITHOUT_SOURCE_EXCLUSION"} =>
    \A own \in {Row(Malicious, 100, 0), Row(<<80, 80>>, Low, 50)} :
      result.outcome \in ExecuteRecordedCase(result.method, [case EXCEPT !.input.own = own])

\* No f holders have more of a geometric median than f of n - f members have of a
\* coalition's mean, and what is handed out is handed out to somebody.
SharesFollowSupport ==
  Decided(CertificateMethods \ {"WITHOUT_GEOMETRIC_MEDIAN"}, "ADMITTED") =>
    LET shares == result.outcome.shares
        N == DOMAIN shares
        f == EffectiveFaultBound(SwitchesFor(result.method).worstCase)
    IN /\ SumOver(shares, N) > 0
       /\ \A group \in SUBSET N :
            (Cardinality(N) - f) * SumOver(shares, group)
              <= Cardinality(group) * SumOver(shares, N)

\* The certificate admits the useful worlds and no other, whatever a seed screens.
CertificateSeparatesWorlds ==
  result.method = "LEAVE_FAULT_CERTIFICATE" /\ case.world # "NONE" =>
    (result.outcome.state = "ADMITTED" <=> Worlds[case.world].useful)
=============================================================================
