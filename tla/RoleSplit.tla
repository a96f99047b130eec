----------------------------- MODULE RoleSplit -----------------------------
(***************************************************************************)
(* What the files of DatasetPreparation hold.  N-BaIoT has one stream of   *)
(* rows per domain and class; a role is a window of positions in it, of    *)
(* which at most a cap of rows is kept.  A view holds the kept rows of one *)
(* stream and one role, standardised by moments that are fitted to the     *)
(* ANCHOR_TRAIN rows of all supported classes.  CICIoT2023 does the same   *)
(* in SQL, with the rows of a label and a pseudo-domain as a stream.       *)
(*                                                                         *)
(* A row is its file and its index, as a sample_id is; features are left   *)
(* out, and moments are the rows they were computed from.                  *)
(***************************************************************************)
EXTENDS DatasetPreparation, FiniteSets, Sequences, Functions

CONSTANTS
  Streams,     \* domain and class
  Targets,     \* streams of the target class
  Benign,      \* streams of the benign class
  StreamOf,    \* the stream of a view key
  RoleOf,      \* and its role
  FileOf,      \* per version of the raw files, the CSV file of a stream, if any
  LengthOf,    \* rows of a CSV file
  Intervals,   \* per scope, kind of class and role: bounds in thousandths
  Caps,        \* per scope, kind of class and role: sampling_caps_per_domain
  Digest       \* per CSV file, view and row: sampling_cap_selection_digest

SUPPORTED_ROLE_ORDER ==
  <<"ANCHOR_TRAIN", "ANCHOR_VALIDATION", "POST_REFERENCE_REPLAY",
    "ROW_VERIFICATION", "FINAL_GATE", "REPORT_TEST">>
TARGET_ROLE_ORDER ==
  <<"SOURCE_PROPOSAL", "CANDIDATE_SCREEN", "REPRODUCTION",
    "ROW_VERIFICATION", "FINAL_GATE", "REPORT_TEST">>

TRAINING_AND_SCREENING_ROLES ==
  {"ANCHOR_TRAIN", "ANCHOR_VALIDATION", "POST_REFERENCE_REPLAY",
   "SOURCE_PROPOSAL", "CANDIDATE_SCREEN", "REPRODUCTION"}
EVIDENCE_ROLES == {"ROW_VERIFICATION", "FINAL_GATE", "REPORT_TEST"}

Roles == TRAINING_AND_SCREENING_ROLES \union EVIDENCE_ROLES
Kinds == {"target", "benign", "supported"}

\* RoleInterval and RoleWindow: the only thing that is checked of an interval.
\* Intervals of different roles may touch, leave a gap or overlap.
Window == {w \in (0 .. 1000) \X (0 .. 1000) : w[1] < w[2]}

ASSUME SplitAssumption ==
  /\ Targets \subseteq Streams /\ Benign \subseteq Streams \ Targets
  /\ StreamOf \in [Views -> Streams] /\ RoleOf \in [Views -> Roles]
  /\ \A r \in Raws, s \in Streams : FileOf[r][s] = NoFile \/ LengthOf[FileOf[r][s]] \in Nat
  /\ \A q, r \in Raws, s, t \in Streams :
       FileOf[q][s] = FileOf[r][t] => FileOf[r][t] = NoFile \/ s = t
  /\ Intervals \in [Scopes -> [Kinds -> [Roles -> Window]]]
  /\ Caps \in [Scopes -> [Kinds -> [Roles -> Nat \ {0}]]]
  /\ \A f \in DOMAIN Digest, v \in Views : IsInjective(Digest[f][v])

-----------------------------------------------------------------------------
(* assign_stream_roles_and_sample_ids                                      *)

RoleOrder(s) == IF s \in Targets THEN TARGET_ROLE_ORDER ELSE SUPPORTED_ROLE_ORDER

Kind(s) == IF s \in Targets THEN "target" ELSE IF s \in Benign THEN "benign" ELSE "supported"

\* Row i of n lies in the window of a role.
Contains(in, s, role, i, n) ==
  LET w == Intervals[in.scope][Kind(s)][role]
  IN w[1] * n <= 1000 * i /\ 1000 * i < w[2] * n

\* Mutant: a row has every role whose window it lies in.
MUTHasRole(in, s, role, i, n) == Contains(in, s, role, i, n)

\* role_for_normalized_position: the first window, in the order of the roles.
HasRole(in, s, role, i, n) ==
  \E k \in DOMAIN RoleOrder(s) :
    /\ RoleOrder(s)[k] = role
    /\ Contains(in, s, role, i, n)
    /\ \A j \in 1 .. k - 1 : ~Contains(in, s, RoleOrder(s)[j], i, n)

\* apply_sampling_cap: the rows of the lowest digests; the replay role, which
\* is capped where it is read, keeps all.
Sampled(in, v, rows) ==
  LET digest == Digest[FileOf[in.raw][StreamOf[v]]][v]
      before(i) == {j \in rows : digest[j] < digest[i]}
      cap == Caps[in.scope][Kind(StreamOf[v])][RoleOf[v]]
  IN IF RoleOf[v] = "POST_REFERENCE_REPLAY" THEN rows
     ELSE {i \in rows : Cardinality(before(i)) < cap}

\* The rows of a view, with the file they are from; none without a file.
RowsOf(v, in) ==
  LET file == FileOf[in.raw][StreamOf[v]]
      n == LengthOf[file]
      assigned == {i \in 0 .. n - 1 : HasRole(in, StreamOf[v], RoleOf[v], i, n)}
  IN IF file = NoFile THEN {} ELSE {file} \X Sampled(in, v, assigned)

\* The rows that the scaler is fitted to.
FitsScaler(v) == RoleOf[v] = "ANCHOR_TRAIN" /\ StreamOf[v] \notin Targets
TrainingRows(in) ==
  UNION {RowsOf(v, in) : v \in {w \in Views : FitsScaler(w)}}

\* standardized_feature_sql: the view as it is written to its parquet file.
ViewContent(v, in) ==
  [rows |-> RowsOf(v, in), moments |-> TrainingRows(in), scaling |-> in.scaling]

\* ScalerMetadata
ScalerContent(in) ==
  [rows |-> {}, moments |-> TrainingRows(in), scaling |-> in.scaling]

\* What a preparation writes are the rows of the split.  Without a row for the
\* scaler it fails before it writes a view.  A view without rows is not
\* written; streams are long enough that this does not depend on the
\* configuration.
ASSUME ContentAssumption ==
  /\ \A in \in Inputs : TrainingRows(in) # {} /\ Bytes[Scaler][in] = ScalerContent(in)
  /\ \A in \in Inputs, v \in Views : Bytes[v][in] = ViewContent(v, in)
  /\ \A in \in Inputs : ViewsOf[in.raw] = {v \in Views : RowsOf(v, in) # {}}

-----------------------------------------------------------------------------
(* Property                                                                *)

Trains(v) == RoleOf[v] \in TRAINING_AND_SCREENING_ROLES

\* The views whose rows are named alike under all versions of the raw files:
\* CICIoT2023 deals the rows of a shard out anew when any other shard changes.
Comparable == IF dataset = "N-BaIoT" THEN Views ELSE ViewsOf[settled.raw]

\* No row serves both training and evidence: once a preparation is complete,
\* whatever was stopped, resumed or prepared otherwise before it, the training
\* views on the disk share no row with any evidence view that passes the check
\* of the consumers, nor its evidence views with any such training view, those
\* left over from other versions of the raw files included; and every view is
\* scaled by moments of just the rows that the anchor is trained on.
EvidenceIsUnseen ==
  clean =>
    \A v \in ViewsOf[settled.raw] :
      /\ \A w \in Comparable :
           Valid(w) /\ Trains(v) # Trains(w) => parquet[v].rows \cap parquet[w].rows = {}
      /\ parquet[v].moments =
           UNION {parquet[w].rows : w \in {x \in ViewsOf[settled.raw] : FitsScaler(x)}}

=============================================================================
