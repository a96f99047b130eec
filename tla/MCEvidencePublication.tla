----------------------- MODULE MCEvidencePublication -----------------------
(***************************************************************************)
(* Two experiments whose cells share what the code lets them share.  Of    *)
(* the first: two conditions of a calibrated baseline.  Of the second: the *)
(* generic episode under the full method and under an ablated screen, and  *)
(* an episode whose candidate is published.                                *)
(***************************************************************************)
EXTENDS EvidencePublication

Sanitised ==
  [experiment |-> "exclusion", method |-> "sanitization", condition |-> "clean",
   seed |-> "seed 1", source |-> "d1", path |-> "Baseline", calibrated |-> TRUE,
   opening |-> "None", episode |-> "none", variant |-> "Matched", rows |-> <<>>,
   copiers |-> {}, judge |-> "d2", plural |-> FALSE, gated |-> TRUE, shift |-> "none"]

FullPath ==
  [Sanitised EXCEPT !.experiment = "ablation", !.method = "full", !.condition = "legitimate",
                    !.path = "Protocol", !.calibrated = FALSE, !.opening = "Assisted",
                    !.episode = "legitimate", !.rows = <<"d2", "d3">>, !.plural = TRUE]

MCPlan ==
  [exclusion |-> <<Sanitised, [Sanitised EXCEPT !.condition = "backdoored"]>>,
   ablation |-> <<FullPath, [FullPath EXCEPT !.method = "gateless", !.gated = FALSE]>>]

\* Another anchor_fedavg is another anchor behind every source and baseline;
\* another post_reference is part of the identity of the sources only.
MCFirstConfiguration == [part \in Parts |-> "1"]
MCConfigurations ==
  {MCFirstConfiguration, [MCFirstConfiguration EXCEPT !["fedavg"] = "2"],
   [MCFirstConfiguration EXCEPT !["reference"] = "2"]}

MCNatures ==
  {[adequate |-> {"d2", "d3"}, improved |-> {"d2", "d3"}, matched |-> {"d2", "d3"},
    unmatched |-> {"d2"}, weakAnchor |-> {"d2", "d3"}, trainable |-> TRUE,
    krumTakesLast |-> FALSE, gatePasses |-> FALSE, judged |-> {"gate", "report"}]}

MCScreenOrder == <<"d2">>
=============================================================================
