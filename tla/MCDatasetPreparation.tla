------------------------ MODULE MCDatasetPreparation ------------------------
(* A small instance of DatasetPreparation and RoleSplit for TLC: one       *)
(* stream, whose first file has four rows and whose second one has one.    *)
EXTENDS RoleSplit, TLC

CONSTANTS r1, r2, c1, c2, s1, s2, stream, f1, f2

MCViewsOf == [r \in Raws |-> IF r = r1 THEN Views ELSE {1}]

\* The views in the order of their keys.
MCRoleOf == <<"ANCHOR_TRAIN", "FINAL_GATE", "POST_REFERENCE_REPLAY">>
MCStreamOf == [v \in Views |-> stream]

MCFileOf == [r \in Raws |-> [s \in Streams |-> IF r = r1 THEN f1 ELSE f2]]
MCLengthOf == [f \in {f1, f2} |-> IF f = f1 THEN 4 ELSE 1]

\* The intervals of the configuration, and others under which the second row
\* is replayed, the third one is evidence and the last two windows overlap.
MCIntervals ==
  [c \in Scopes |-> [k \in Kinds |-> [role \in Roles |->
     CASE role = "ANCHOR_TRAIN" -> <<0, IF c = c1 THEN 395 ELSE 245>>
       [] role = "ANCHOR_VALIDATION" -> IF c = c1 THEN <<400, 495>> ELSE <<245, 250>>
       [] role = "POST_REFERENCE_REPLAY" -> IF c = c1 THEN <<500, 645>> ELSE <<250, 495>>
       [] role = "ROW_VERIFICATION" -> IF c = c1 THEN <<650, 745>> ELSE <<245, 250>>
       [] role = "FINAL_GATE" -> IF c = c1 THEN <<750, 845>> ELSE <<250, 1000>>
       [] OTHER -> <<850, 1000>>]]]

\* one row where there are two
MCCaps == [c \in Scopes |-> [k \in Kinds |-> [role \in Roles |-> 1]]]
MCDigest == [f \in {f1, f2} |-> [v \in Views |-> [i \in 0 .. 3 |-> (i + v + 1) % 4]]]

MCContent ==
  [s \in Slots |-> [in \in Inputs |->
     IF s = Scaler THEN ScalerContent(in) ELSE ViewContent(s, in)]]

\* The same: TLC tabulates a function when it compares it.
MCBytes == LET bytes == MCContent IN IF bytes = bytes THEN bytes ELSE bytes

MCContents == {MCBytes[s][in] : s \in Slots, in \in Inputs}

\* The two scalings are alike.
Symmetry == Permutations(Scalings)

=============================================================================
