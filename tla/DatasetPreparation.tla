------------------------- MODULE DatasetPreparation -------------------------
(***************************************************************************)
(* `fedsira preprocess` for one dataset: src/fedsira/datasets/preprocess.py*)
(* with the prepare.py of N-BaIoT and of CICIoT2023, and the check that    *)
(* every scientific cell makes before it consumes the result               *)
(* (prepared_validation.py).                                               *)
(*                                                                         *)
(* A preparation writes, per role view, a parquet file and a sidecar that  *)
(* records what the file was made from, and afterwards publishes a role    *)
(* split, one artifact per view and a scaler through the artifact store.   *)
(* Every write is a step of its own and the command may stop between any   *)
(* two (kill, timeout, exception).  The store is used as ArtifactStore     *)
(* promises it: an identity keeps its first payload, a conflicting one is  *)
(* refused and withdraws the current artifact.                             *)
(*                                                                         *)
(* A digest is the bytes it was computed from.  Row and byte counts are    *)
(* left out: the code compares them only next to a digest or an identity   *)
(* that determines them.                                                   *)
(***************************************************************************)
EXTENDS Naturals

CONSTANTS
  Datasets,      \* the datasets prepared: any of "N-BaIoT", "CICIoT2023"
  NumViews,      \* number of role view keys
  Raws,          \* versions of the raw files
  Scopes,        \* values of the configuration every identity covers
  Scalings,      \* values of datasets.primary.scaling
  ViewsOf,       \* the views that a version of the raw files yields
  Contents,      \* bytes of a parquet file or of a scaler
  Bytes,         \* what a preparation computes for a slot from its inputs
  MaxChanges,    \* bound on changes of the raw files or the configuration
  MaxStops,      \* bound on commands that stop early
  Uncovered,     \* in an identity, instead of an input it does not cover
  NoFile, Torn,  \* a file that is absent, or cut short by a stop
  Nothing        \* no artifact, no payload, no completed preparation

\* View keys in the order of the SQL "ORDER BY domain, class, role".
Views == 1 .. NumViews
\* The scaler artifact, published as one more slot of the store.
Scaler == 0
Slots == {Scaler} \union Views

Inputs == [raw : Raws, scope : Scopes, scaling : Scalings]
Identities == [raw : Raws, scope : Scopes, scaling : Scalings \union {Uncovered}]
Sidecars == [identity : Identities, digest : Contents]

ASSUME PreparationAssumption ==
  /\ Datasets \subseteq {"N-BaIoT", "CICIoT2023"}
  /\ NumViews \in Nat /\ MaxChanges \in Nat /\ MaxStops \in Nat
  /\ ViewsOf \in [Raws -> SUBSET Views]
  /\ Bytes \in [Slots -> [Inputs -> Contents]]
  /\ Uncovered \notin Scalings
  /\ {NoFile, Torn, Nothing} \cap Contents = {}
  /\ {NoFile, Torn} \cap Sidecars = {}
  /\ Nothing \notin Identities \union Inputs
  /\ NoFile # Torn

VARIABLES
  dataset,       \* the dataset this behaviour prepares
  inputs,        \* the raw files and the configuration as they are now
  parquet,       \* <view>.parquet
  sidecar,       \* <view>.json
  held,          \* per slot and identity, the payload of the store
  current,       \* per slot, the identity in current.json
  roles,         \* the identity of the current role split artifact
  rawIdentity,   \* the current raw dataset identity artifact
  manifests,     \* the dataset manifests that are published
  job,           \* the preprocess command in progress
  settled,       \* history: inputs of the last completed command
  clean,         \* history: nothing of it was written over since
  changes, stops

files == <<parquet, sidecar>>
store == <<held, current, roles>>
upstream == <<rawIdentity, manifests>>
history == <<settled, clean>>
vars == <<dataset, inputs, files, store, upstream, job, history, changes, stops>>

Steps == {"idle", "manifest", "raw", "reuse", "view", "copy", "sidecar",
          "describe", "roles", "publish", "scaler"}

Jobs == [step : Steps, in : Inputs \union {Nothing}, overwrite : BOOLEAN,
         todo : SUBSET Views, moments : Contents \union {Nothing}]

IdleJob ==
  [step |-> "idle", in |-> Nothing, overwrite |-> FALSE, todo |-> {},
   moments |-> Nothing]

Init ==
  /\ dataset \in Datasets
  /\ inputs \in Inputs
  /\ parquet = [v \in Views |-> NoFile]
  /\ sidecar = [v \in Views |-> NoFile]
  /\ held = [s \in Slots |-> [i \in Identities |-> Nothing]]
  /\ current = [s \in Slots |-> Nothing]
  /\ roles = Nothing
  /\ rawIdentity = Nothing
  /\ manifests = {}
  /\ job = IdleJob
  /\ settled = Nothing
  /\ clean = FALSE
  /\ changes = 0
  /\ stops = 0

-----------------------------------------------------------------------------
(* Identities                                                              *)

\* Mutant: the sampling caps and role intervals are left out of the scope.
MUTCovered(d, in) ==
  [raw |-> in.raw, scope |-> CHOOSE c \in Scopes : TRUE, scaling |-> in.scaling]

\* dataset_preprocessing_configuration: the whole primary section for
\* N-BaIoT; role intervals, sampling caps and the secondary section, and so
\* not the scaling, for CICIoT2023.  The same value is the identity of the
\* prepared files, of the role split and of the scaler, and, through the role
\* split, of every view artifact.
Covered(d, in) ==
  [raw |-> in.raw, scope |-> in.scope,
   scaling |-> IF d = "N-BaIoT" THEN in.scaling ELSE Uncovered]

Identity(in) == Covered(dataset, in)

-----------------------------------------------------------------------------
(* The files and the artifacts of a view                                   *)

\* Mutant: a sidecar vouches for whatever parquet file lies next to it.
MUTReusable(v, i) ==
  /\ parquet[v] # NoFile
  /\ sidecar[v] \notin {NoFile, Torn}
  /\ sidecar[v].identity = i

\* _cached_view_is_reusable: both files exist, the sidecar parses, names the
\* wanted identity and the digest of the parquet file as it is.
Reusable(v, i) ==
  /\ parquet[v] # NoFile
  /\ sidecar[v] \notin {NoFile, Torn}
  /\ sidecar[v].identity = i
  /\ sidecar[v].digest = parquet[v]

\* Mutant: the views are trusted because their artifacts are current.
MUTMaterializationReusable(in) ==
  /\ roles = Identity(in)
  /\ current[Scaler] = Identity(in)

\* _reuse_current_nbaiot_materialization: role split and scaler are current
\* for these inputs and every view the role split counts is reusable.
MaterializationReusable(in) ==
  /\ roles = Identity(in)
  /\ current[Scaler] = Identity(in)
  /\ \A v \in ViewsOf[in.raw] : Reusable(v, Identity(in))

\* _view_failures finds nothing: the view has a current artifact and the
\* parquet file has the digest that artifact recorded.
Valid(v) ==
  /\ sidecar[v] # Torn
  /\ parquet[v] # NoFile
  /\ current[v] # Nothing
  /\ held[v][current[v]] = parquet[v]

-----------------------------------------------------------------------------
(* The command                                                             *)

At(step) == job.step = step

\* The step that follows the discovery of the raw files.
Materialize == IF dataset = "N-BaIoT" THEN "reuse" ELSE "view"

\* execute_preprocess: the configuration is loaded and the files discovered.
Begin(overwrite) ==
  /\ At("idle")
  /\ job' = [step |-> IF dataset = "N-BaIoT" THEN "manifest" ELSE "raw",
             in |-> inputs, overwrite |-> overwrite, todo |-> ViewsOf[inputs.raw],
             moments |-> Nothing]
  /\ settled' = IF settled = inputs THEN settled ELSE Nothing
  /\ clean' = (clean /\ settled = inputs /\ ~overwrite)
  /\ UNCHANGED <<dataset, inputs, files, store, upstream, changes, stops>>

\* _publish_dataset_manifest: first for N-BaIoT, last for CICIoT2023.
PublishDatasetManifest ==
  /\ At("manifest")
  /\ manifests' = manifests \union {job.in.raw}
  /\ IF dataset = "N-BaIoT"
     THEN job' = [job EXCEPT !.step = "raw"] /\ UNCHANGED history
     ELSE job' = IdleJob /\ settled' = job.in /\ clean' = TRUE
  /\ UNCHANGED <<dataset, inputs, files, store, rawIdentity, changes, stops>>

\* publish_raw_dataset_identity
PublishRawIdentity ==
  /\ At("raw")
  /\ rawIdentity' = job.in.raw
  /\ job' = [job EXCEPT !.step = Materialize]
  /\ UNCHANGED <<dataset, inputs, files, store, manifests, history, changes, stops>>

\* _preprocess_nbaiot: without --overwrite, a current materialisation is
\* reused as a whole.
DecideReuse ==
  /\ At("reuse")
  /\ job' = IF ~job.overwrite /\ MaterializationReusable(job.in)
            THEN [job EXCEPT !.step = "roles",
                             !.moments = held[Scaler][current[Scaler]]]
            ELSE [job EXCEPT !.step = "view"]
  /\ UNCHANGED <<dataset, inputs, files, store, upstream, history, changes, stops>>

\* The views are taken in the order of their keys.
IsNext(v) == v \in job.todo /\ \A w \in job.todo : v <= w

\* Mutant: finished views are written again.
MUTRewrite(v) ==
  /\ At("view") /\ IsNext(v)
  /\ job' = [job EXCEPT !.step = "copy"]
  /\ parquet' = IF parquet[v] = NoFile
                THEN [parquet EXCEPT ![v] = Torn] ELSE parquet
  /\ UNCHANGED <<dataset, inputs, sidecar, store, upstream, history, changes, stops>>

\* materialize_*_prepared_views, one view: keep it, or start to copy it.
\* COPY goes through a temporary file only when the target exists.
TakeView(v) ==
  /\ At("view") /\ IsNext(v)
  /\ IF ~job.overwrite /\ Reusable(v, Identity(job.in))
     THEN /\ job' = [job EXCEPT !.todo = @ \ {v}]
          /\ UNCHANGED parquet
     ELSE /\ job' = [job EXCEPT !.step = "copy"]
          /\ parquet' = IF parquet[v] = NoFile
                        THEN [parquet EXCEPT ![v] = Torn] ELSE parquet
  /\ UNCHANGED <<dataset, inputs, sidecar, store, upstream, history, changes, stops>>

\* copy_query_to_parquet ends: the file holds the standardised rows.
CopyView(v) ==
  /\ At("copy") /\ IsNext(v)
  /\ parquet' = [parquet EXCEPT ![v] = Bytes[v][job.in]]
  /\ job' = [job EXCEPT !.step = "sidecar"]
  /\ UNCHANGED <<dataset, inputs, sidecar, store, upstream, history, changes, stops>>

\* write_json_payload opens the sidecar in place ...
OpenSidecar(v) ==
  /\ At("sidecar") /\ IsNext(v)
  /\ sidecar' = [sidecar EXCEPT ![v] = Torn]
  /\ job' = [job EXCEPT !.step = "describe"]
  /\ UNCHANGED <<dataset, inputs, parquet, store, upstream, history, changes, stops>>

\* ... and writes the identity and the digest of the copied file.
DescribeView(v) ==
  /\ At("describe") /\ IsNext(v)
  /\ sidecar' = [sidecar EXCEPT
       ![v] = [identity |-> Identity(job.in), digest |-> parquet[v]]]
  /\ job' = [job EXCEPT !.step = "view", !.todo = @ \ {v}]
  /\ UNCHANGED <<dataset, inputs, parquet, store, upstream, history, changes, stops>>

\* The last view is written and the fitted moments are returned with them.
EndViews ==
  /\ At("view") /\ job.todo = {}
  /\ job' = [job EXCEPT !.step = "roles", !.todo = ViewsOf[job.in.raw],
                        !.moments = Bytes[Scaler][job.in]]
  /\ UNCHANGED <<dataset, inputs, files, store, upstream, history, changes, stops>>

\* publish_role_split_sample_manifest: its payload follows from its identity.
PublishRoles ==
  /\ At("roles")
  /\ roles' = Identity(job.in)
  /\ job' = [job EXCEPT !.step = "publish"]
  /\ UNCHANGED <<dataset, inputs, files, held, current, upstream, history, changes, stops>>

\* publish_artifact as ArtifactStore promises it: the first payload of an
\* identity stays; the same one again is activated; another one is refused
\* and withdraws the pointer if it names this identity.
Publish(s, i, payload) ==
  /\ held' = [held EXCEPT ![s][i] = IF @ = Nothing THEN payload ELSE @]
  /\ current' = [current EXCEPT
       ![s] = IF held[s][i] \in {Nothing, payload} THEN i
              ELSE IF @ = i THEN Nothing ELSE @]

\* publish_prepared_role_view: the bytes of the file as it is now.
PublishView(v) ==
  /\ At("publish") /\ IsNext(v)
  /\ Publish(v, Identity(job.in), parquet[v])
  /\ job' = [job EXCEPT !.todo = @ \ {v}]
  /\ UNCHANGED <<dataset, inputs, files, roles, upstream, history, changes, stops>>

EndPublish ==
  /\ At("publish") /\ job.todo = {}
  /\ job' = [job EXCEPT !.step = "scaler"]
  /\ UNCHANGED <<dataset, inputs, files, store, upstream, history, changes, stops>>

\* publish_scaler: moments just fitted, or those of the scaler that was
\* current when the materialisation was reused; last step for N-BaIoT.
PublishScaler ==
  /\ At("scaler")
  /\ Publish(Scaler, Identity(job.in), job.moments)
  /\ IF dataset = "N-BaIoT"
     THEN job' = IdleJob /\ settled' = job.in /\ clean' = TRUE
     ELSE job' = [job EXCEPT !.step = "manifest"] /\ UNCHANGED history
  /\ UNCHANGED <<dataset, inputs, files, roles, upstream, changes, stops>>

\* The command is killed, times out or raises; what it wrote stays.
Stop ==
  /\ ~At("idle") /\ stops < MaxStops
  /\ job' = IdleJob
  /\ stops' = stops + 1
  /\ UNCHANGED <<dataset, inputs, files, store, upstream, history, changes>>

\* Somebody replaces raw files or edits the configuration between two
\* commands.  A command loads its configuration once; raw files that change
\* after it has hashed them are not modelled.
ChangeInputs(in) ==
  /\ At("idle") /\ changes < MaxChanges
  /\ in # inputs
  /\ inputs' = in
  /\ changes' = changes + 1
  /\ UNCHANGED <<dataset, files, store, upstream, job, history, stops>>

WriteView(v) ==
  TakeView(v) \/ CopyView(v) \/ OpenSidecar(v) \/ DescribeView(v)

Advance ==
  \/ PublishDatasetManifest \/ PublishRawIdentity \/ DecideReuse
  \/ \E v \in Views : WriteView(v) \/ PublishView(v)
  \/ EndViews \/ PublishRoles \/ EndPublish \/ PublishScaler

Next ==
  \/ \E overwrite \in BOOLEAN : Begin(overwrite)
  \/ Advance
  \/ Stop
  \/ \E in \in Inputs : ChangeInputs(in)

\* A command that is not stopped goes on to its end.
Spec == Init /\ [][Next]_vars /\ WF_vars(Advance)

-----------------------------------------------------------------------------
(* Properties                                                              *)

\* Type correctness of every variable.
TypeOK ==
  /\ dataset \in Datasets /\ inputs \in Inputs
  /\ parquet \in [Views -> Contents \union {NoFile, Torn}]
  /\ sidecar \in [Views -> Sidecars \union {NoFile, Torn}]
  /\ held \in [Slots -> [Identities -> Contents \union {Nothing}]]
  /\ current \in [Slots -> Identities \union {Nothing}]
  /\ roles \in Identities \union {Nothing}
  /\ rawIdentity \in Raws \union {Nothing} /\ manifests \in SUBSET Raws
  /\ job \in Jobs
  /\ settled \in Inputs \union {Nothing} /\ clean \in BOOLEAN
  /\ changes \in 0 .. MaxChanges /\ stops \in 0 .. MaxStops

\* Inputs that a prepared view may have been made from when it is taken to be
\* of these: CICIoT2023 may have been scaled otherwise.
Alike(in) ==
  {other \in Inputs :
     /\ other.raw = in.raw /\ other.scope = in.scope
     /\ dataset = "N-BaIoT" => other.scaling = in.scaling}

\* What such inputs make of a slot.
Made(s, in) == {Bytes[s][other] : other \in Alike(in)}

\* A view that the reuse test accepts for some inputs holds what those inputs
\* produce, whatever earlier commands were cut short, and under whatever other
\* inputs they ran: a resumed preparation keeps no file that it would have
\* written differently, but for the scaling of CICIoT2023, which the identity
\* in the sidecar leaves out.
ReuseIsSound ==
  \A v \in Views, in \in Inputs :
    Reusable(v, Identity(in)) => parquet[v] \in Made(v, in)

\* Whatever an identity names is what its inputs produce, under one of the
\* scalings for CICIoT2023: no half-written file and no view of other rows is
\* ever published under it, and for N-BaIoT no recomputation is ever refused.
ContentOfIdentity ==
  \A s \in Slots, in \in Inputs :
    LET published == held[s][Identity(in)] IN
    published # Nothing => published \in Made(s, in)

\* What a completed command leaves behind, and what every later command with
\* the same inputs and without --overwrite leaves alone: each view of the raw
\* files is on the disk as these inputs make it, and passes the check of its
\* consumers under their identity, unless that identity already names another
\* content.  Only another scaling of CICIoT2023 can be that content.
CompletedRunIsCurrent ==
  clean => \A v \in ViewsOf[settled.raw] :
             LET published == held[v][Identity(settled)] IN
             /\ parquet[v] \in Made(v, settled)
             /\ published \in Made(v, settled)
             /\ IF published = parquet[v]
                THEN current[v] = Identity(settled) /\ Valid(v)
                ELSE current[v] # Identity(settled)

\* The artifact of a slot is current for these inputs, with their content.
Published(s, in) ==
  /\ current[s] = Identity(in)
  /\ held[s][Identity(in)] = Bytes[s][in]

\* "Completed reruns are idempotent": with unchanged inputs a further command,
\* finished or stopped half-way, writes no file and publishes nothing new, and
\* not even --overwrite changes an artifact that is of these inputs, so that
\* its descendants stay valid.
RerunsChangeNothing ==
  [][settled # Nothing /\ settled' = settled =>
       /\ clean /\ clean' => UNCHANGED <<files, store>>
       /\ \A s \in Slots :
            Published(s, settled) => UNCHANGED <<held[s], current[s], roles>>]_vars

=============================================================================
