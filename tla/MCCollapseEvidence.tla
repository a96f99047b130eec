------------------------- MODULE MCCollapseEvidence -------------------------
(* Five master seeds; only some seeds of some conditions vary. *)
EXTENDS ClaimDecisions

Run(state, report, tainted, asr) ==
  [state |-> state, opened |-> TRUE, report |-> report, tainted |-> tainted,
   positive |-> 2, cost |-> 2, asr |-> asr]

Clean == Run("ADMITTED", "good", FALSE, 0)
Poor == Run("ADMITTED", "poor", FALSE, 0)
Tainted == Run("ADMITTED", "good", TRUE, 100)
Dormant == Run("DORMANT", "none", FALSE, 0)
Cheap == [Clean EXCEPT !.positive = 1, !.cost = 1]
Screened == [Dormant EXCEPT !.opened = FALSE, !.positive = 0, !.cost = 0]

\* The outcome of most seeds, and those a varying seed may have instead.
Usual(f, side, condition) ==
  CASE f = "PROPOSAL_SCREEN" /\ side = "method" ->
         IF condition \in Unfounded THEN Screened ELSE Cheap
    [] f = "SOURCE_EXCLUSION" /\ side = "reference" -> [Clean EXCEPT !.asr = 100]
    [] f \in {"PLURALITY", "EXTERNAL_VERIFICATION"} /\ side = "reference" ->
         IF Fixture(f, condition) THEN Tainted ELSE Clean
    [] OTHER -> Clean

Unusual(f, side, condition) ==
  CASE f = "PROPOSAL_SCREEN" /\ side = "method" /\ condition = "GENERIC_HARD" -> {Clean}
    [] f = "SOURCE_EXCLUSION" /\ side = "method" -> {Dormant}
    [] f = "SOURCE_EXCLUSION" /\ side = "reference" -> {Poor}
    [] f = "PLURALITY" /\ condition = "SITE_SHIFT" -> {Dormant}
    [] f \in {"PLURALITY", "EXTERNAL_VERIFICATION"} /\ condition = "SOURCE_COPY" ->
         IF side = "method" THEN {Tainted, Dormant} ELSE {Clean}
    [] f = "EXTERNAL_VERIFICATION" /\ condition = "LEGITIMATE" /\ side = "method" -> {Dormant}
    [] OTHER -> {}

\* The first seed varies, and in one condition so many that pairs can get too few.
Varies(f, cell) ==
  cell.seed = 1 \/ (cell.seed = 2 /\ f = "PLURALITY" /\ cell.condition = "SITE_SHIFT")

SomeSeedsVary(f, cell) ==
  {Usual(f, cell.side, cell.condition)}
    \union (IF Varies(f, cell) THEN Unusual(f, cell.side, cell.condition) ELSE {})

\* The names in the order of their conditions, then of their metrics.
SomeOrder ==
  LET conditions == <<"LEGITIMATE", "GENERIC_HARD", "IRRELEVANT", "USEFUL_BACKDOORED",
                      "SITE_SHIFT", "SOURCE_COPY", "VERIFIER_AWARE">>
      metrics == <<"ATTACK_SUCCESS_RATE", "FALSE_LAUNCH", "LEGITIMATE_ADMISSION",
                   "MALICIOUS_ADMISSION", "OVERHEAD", "REPRODUCTION_ATTEMPTS",
                   "TARGET_F1", "WORST_DOMAIN_TARGET_F1">>
      place(order, x) == CHOOSE i \in DOMAIN order : order[i] = x
  IN [c \in UNION {Members(f) : f \in Families} |->
        10 * place(conditions, c.condition) + place(metrics, c.metric)]

(* Boundary comparisons: means on both sides of either threshold. *)
TwoMixtures == {"BALANCED", "A_DOMINANT"}
ThreeFailures == {"LABEL_ERROR", "SPURIOUS_FEATURE", "COMMON_CONTEXT"}
FourMembers == {"LEGITIMATE_RETRAIN", "LEGITIMATE_KRUM", "SOURCE_COPY_RETRAIN", "SOURCE_COPY_KRUM"}
SomeMeans == {-10, 0, 15}
=============================================================================
