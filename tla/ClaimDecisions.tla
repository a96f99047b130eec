--------------------------- MODULE ClaimDecisions ---------------------------
(***************************************************************************)
(* What the project claims: claim_summary_from_inputs turns the collapse   *)
(* decisions and the comparison results of the other experiments into the  *)
(* state of each claim.  A necessity claim is drawn from the family and    *)
(* the decision of CollapseEvidence; a boundary claim from comparisons,    *)
(* which may be missing or unresolved (OPEN) as well as PASSED or FAILED.  *)
(*                                                                         *)
(* Left out are the claims that rest on declarations instead of results:   *)
(* the program supplies only the one about the efficiency measurement.     *)
(***************************************************************************)
EXTENDS CollapseEvidence

CONSTANTS
  Mixtures,            \* root-cause mixtures of the granularity boundary
  FailureConditions,   \* failure types and strengths of the shared failures
  SecondaryMembers,    \* comparisons of the secondary dataset
  Means                \* mean differences that are told apart, in percent

ClaimStates ==
  {"SUPPORTED", "PARTIALLY_SUPPORTED", "CONDITIONAL", "NULL_RESULT",
   "NOT_SUPPORTED", "NOT_TESTED"}

\* a declaration that nobody supplied
NotDeclared == "NotDeclared"
Declarations == {NotDeclared, "Yes", "No"}

-----------------------------------------------------------------------------
(* Necessity                                                               *)

\* Mutant: a comparison that could not be computed counts as one that failed.
MUTFamilyResolved(f, comparisons) ==
  /\ DOMAIN comparisons = Members(f)
  /\ \A c \in Members(f) : comparisons[c].state # "NONE"

\* Every registered comparison of the family is there and came to a result.
FamilyResolved(f, comparisons) ==
  /\ DOMAIN comparisons = Members(f)
  /\ \A c \in Members(f) : comparisons[c].state \in {"PASSED", "FAILED"}

\* collapse_decision_matches_family: the effect the decision rests on passed.
DecisionMatches(d, comparisons) ==
  /\ d.survives => d.effect # {}
  /\ \A metric \in d.effect :
       \E c \in DOMAIN comparisons : c.metric = metric /\ comparisons[c].state = "PASSED"

Claimable(f, comparisons, d) ==
  FamilyResolved(f, comparisons) /\ DecisionMatches(d, comparisons)

\* _NECESSITY_EVIDENCE: proposal assistance may come to nothing, the other two
\* fail when they do not survive.
NecessityClaim(f, comparisons, d) ==
  IF ~Claimable(f, comparisons, d) THEN "NOT_TESTED"
  ELSE IF d.survives THEN "SUPPORTED"
  ELSE IF f = "PROPOSAL_SCREEN" THEN "NULL_RESULT" ELSE "NOT_SUPPORTED"

\* _malicious_source_salvage_claim: admitted says whether a legitimate target
\* was admitted without the source.
SalvageClaim(comparisons, d, admitted) ==
  IF ~Claimable("SOURCE_EXCLUSION", comparisons, d) THEN "NOT_TESTED"
  ELSE IF ~d.survives \/ admitted = "No" THEN "NOT_SUPPORTED"
  ELSE IF admitted = "Yes" THEN "SUPPORTED" ELSE "NOT_TESTED"

\* The claim that a family decides.
ClaimOf(f, comparisons, d, admitted) ==
  IF f = "SOURCE_EXCLUSION"
  THEN SalvageClaim(comparisons, d, admitted) ELSE NecessityClaim(f, comparisons, d)

\* Mechanism necessity, from the states of the three necessity claims.
Necessities == Families \ {"SOURCE_EXCLUSION"}
MechanismNecessity(claims) ==
  LET supported == {f \in DOMAIN claims : claims[f] = "SUPPORTED"}
  IN IF supported = DOMAIN claims THEN "SUPPORTED"
     ELSE IF supported # {} THEN "PARTIALLY_SUPPORTED"
     ELSE IF \A f \in DOMAIN claims : claims[f] # "NOT_TESTED" THEN "NULL_RESULT"
     ELSE "NOT_TESTED"

-----------------------------------------------------------------------------
(* Boundaries                                                              *)

\* A result of a boundary comparison; one without a result has no mean.
Open == [state |-> "OPEN", mean |-> 0]
Results == {Open} \union [state : {"PASSED", "FAILED"}, mean : Means]

Resolved(e, c) == e[c].state # "OPEN"
AllResolved(e, members) == \A c \in members : Resolved(e, c)

\* statistically significant and material, which is what PASSED means
Significant(e, c) == e[c].state = "PASSED"

\* evidence_thresholds, in percent
FalseSameMinimum == 10
ChangeMaximum == 5

\* Mutant: a mixture without a result is passed over.
MUTGranularityClaim(e) ==
  IF \A c \in Mixtures : ~Resolved(e, c) THEN "NOT_TESTED"
  ELSE IF \E c \in Mixtures : Significant(e, c) /\ e[c].mean >= FalseSameMinimum
  THEN "SUPPORTED" ELSE "NULL_RESULT"

\* _capability_granularity_claim
GranularityClaim(e) ==
  IF Mixtures = {} \/ ~AllResolved(e, Mixtures) THEN "NOT_TESTED"
  ELSE IF \E c \in Mixtures : Significant(e, c) /\ e[c].mean >= FalseSameMinimum
  THEN "SUPPORTED" ELSE "NULL_RESULT"

\* _secondary_generalization_claim
SecondaryClaim(e) ==
  IF SecondaryMembers = {} \/ ~AllResolved(e, SecondaryMembers) THEN "NOT_TESTED"
  ELSE IF \A c \in SecondaryMembers : Significant(e, c)
  THEN "SUPPORTED" ELSE "NOT_SUPPORTED"

\* _reproducibility_claim: the comparisons are with the undamaged reference
\* and pass when the damage is material. Without a declaration that the shared
\* failure was certified, damage decides nothing.
ReproducibilityClaim(e, certified) ==
  LET degraded == \E c \in FailureConditions : Significant(e, c)
  IN IF degraded /\ certified = "Yes" THEN "SUPPORTED"
     ELSE IF degraded /\ certified = "No" THEN "NOT_SUPPORTED"
     ELSE IF FailureConditions # {} /\ AllResolved(e, FailureConditions) /\ ~degraded
     THEN "NOT_SUPPORTED" ELSE "NOT_TESTED"

\* HeterogeneityRegime, in order; a regime is compared with the first.
Regimes == <<"NATURAL", "QUANTITY_SKEW", "FEATURE_SHIFT_0_5", "FEATURE_SHIFT_1_0">>
RegimeMembers(i) ==
  [regime : {Regimes[i]}, metric : {"LEGITIMATE_ADMISSION", "WORST_DOMAIN_TARGET_F1"}]
HeterogeneityMembers == UNION {RegimeMembers(i) : i \in 2..Len(Regimes)}

Tested(e) == {i \in 2..Len(Regimes) : AllResolved(e, RegimeMembers(i))}
Tolerated(e) ==
  {i \in Tested(e) : \A c \in RegimeMembers(i) : e[c].mean >= -ChangeMaximum}

\* _heterogeneity_claim: the place of the highest regime that the claim, which
\* is then CONDITIONAL, extends to; 0 when it is not tested.
HeterogeneityClaim(e) ==
  IF Tested(e) = {} THEN 0
  ELSE IF Tolerated(e) = {} THEN 1 ELSE Max(Tolerated(e))

-----------------------------------------------------------------------------
(* Properties                                                              *)

\* A claim about a mechanism that was decided, whichever way, rests on enough
\* pairs of seeds for every comparison of its family and for every loss that
\* the survival rule bounds: what did not execute, or never came to a value,
\* is not counted for or against a mechanism.
ClaimsAreMeasured ==
  /\ phase = "decided"
  /\ \E admitted \in Declarations : ClaimOf(family, published, decision, admitted) # "NOT_TESTED"
  => /\ \A c \in Members(family) : Cardinality(Pairs(family, record, c)) >= MinPairs
     /\ \A k \in Constraints(family) : \A condition \in k.conditions :
          Cardinality(PairedSeeds(family, record, condition, k.metric)) >= MinPairs

\* Another result, for a comparison that had none, leaves a decided claim.
Stands(Claim(_), members) ==
  \A e \in [members -> Results], c \in members, r \in Results :
    ~Resolved(e, c) /\ Claim(e) # "NOT_TESTED"
      => Claim([e EXCEPT ![c] = r]) = Claim(e)

\* The necessity claim of the family that was decided, when it had not been
\* tested before, may complete the support of the mechanism, and otherwise
\* changes nothing that was decided about it.
MechanismStands ==
  family \in Necessities =>
    \A before \in [Necessities -> {"SUPPORTED", "NULL_RESULT", "NOT_TESTED"}] :
      LET claim == NecessityClaim(family, published, decision)
          after == [before EXCEPT ![family] = claim]
      IN before[family] = "NOT_TESTED" =>
           \/ MechanismNecessity(before) \in {"NOT_TESTED", MechanismNecessity(after)}
           \/ /\ MechanismNecessity(before) = "PARTIALLY_SUPPORTED"
              /\ MechanismNecessity(after) = "SUPPORTED"

\* The boundary claims, whatever results they are given.
BoundariesStand ==
  /\ Stands(GranularityClaim, Mixtures)
  /\ Stands(SecondaryClaim, SecondaryMembers)
  /\ \A certified \in Declarations :
       LET claim(e) == ReproducibilityClaim(e, certified)
       IN Stands(claim, FailureConditions)
  /\ \A e \in [HeterogeneityMembers -> Results], c \in HeterogeneityMembers, r \in Results :
       ~Resolved(e, c) => HeterogeneityClaim([e EXCEPT ![c] = r]) >= HeterogeneityClaim(e)

\* Claims do not depend on which results are in already: a decided boundary
\* claim stays what it is when further comparisons come to a result, the
\* regime up to which heterogeneity is tolerated never falls, and the support
\* of the mechanism is not taken back when a family is decided.
ClaimsStand == phase = "decided" => MechanismStands /\ BoundariesStand

=============================================================================
