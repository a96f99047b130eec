----------------------- MODULE DatasetPreparationProofs -----------------------
(***************************************************************************)
(* What DatasetPreparation does for any number of views, versions,         *)
(* scalings and stops.  The identities of CICIoT2023 leave the scaling     *)
(* out, so that what they name is known up to the scaling: Made.           *)
(***************************************************************************)
EXTENDS RoleSplit, TLAPS

Copying == {"copy", "sidecar", "describe"}
Materializing == {"view"} \union Copying
Finishing == {"publish", "scaler"}
LastManifest == At("manifest") /\ dataset # "N-BaIoT"

\* Steps before which every view is still to be written, or to be published.
Untouched == (At("manifest") /\ dataset = "N-BaIoT") \/ job.step \in {"raw", "reuse", "roles"}

\* A command works on inputs of its own, on views those inputs yield, and a
\* sidecar is written next to the file it describes.
JobInv ==
  /\ ~At("idle") => job.in \in Inputs /\ job.todo \subseteq ViewsOf[job.in.raw]
  /\ Untouched => job.todo = ViewsOf[job.in.raw]
  /\ job.step \in {"sidecar", "describe"} =>
       \A v \in Views : IsNext(v) => parquet[v] = Bytes[v][job.in]
  /\ At("reuse") => dataset = "N-BaIoT"

\* A command past a view, or past all of them, left it reusable.
WrittenInv ==
  /\ job.step \in Materializing =>
       \A v \in ViewsOf[job.in.raw] \ job.todo : Reusable(v, Identity(job.in))
  /\ At("roles") \/ job.step \in Finishing \/ LastManifest =>
       \A v \in ViewsOf[job.in.raw] : Reusable(v, Identity(job.in))

Base == TypeOK /\ JobInv /\ WrittenInv

\* A sidecar tells the truth about its identity.
SidecarTruth ==
  \A v \in Views, in \in Inputs :
    sidecar[v] \notin {NoFile, Torn} /\ sidecar[v].identity = Identity(in) =>
      sidecar[v].digest \in Made(v, in)

\* The store was offered this payload for these inputs: it is current, unless
\* the identity names another one.
Offered(s, in, payload) ==
  /\ held[s][Identity(in)] # Nothing
  /\ current[s] = Identity(in) <=> held[s][Identity(in)] = payload

\* The current artifact of every slot has a payload.
Activated == \A s \in Slots : current[s] # Nothing => held[s][current[s]] # Nothing

\* What a command offered the store stays offered until it ends.
StoreInv ==
  /\ Activated
  /\ At("roles") \/ job.step \in Finishing => job.moments = Bytes[Scaler][job.in]
  /\ job.step \in Finishing \/ LastManifest => roles = Identity(job.in)
  /\ At("publish") =>
       \A v \in ViewsOf[job.in.raw] \ job.todo : Offered(v, job.in, parquet[v])
  /\ At("scaler") \/ LastManifest =>
       \A v \in ViewsOf[job.in.raw] : Offered(v, job.in, parquet[v])
  /\ LastManifest => Offered(Scaler, job.in, Bytes[Scaler][job.in])

\* What a completed command published and wrote outlives later commands with
\* the same inputs.
SettledInv ==
  /\ settled # Nothing =>
       /\ settled \in Inputs
       /\ At("idle") \/ job.in = settled
       /\ roles = Identity(settled)
       /\ \A v \in ViewsOf[settled.raw] :
            Published(v, settled) => parquet[v] = Bytes[v][settled]
  /\ clean =>
       /\ settled # Nothing
       /\ job.step \notin Copying /\ ~job.overwrite
       /\ Offered(Scaler, settled, Bytes[Scaler][settled])
       /\ \A v \in ViewsOf[settled.raw] :
            Reusable(v, Identity(settled)) /\ Offered(v, settled, parquet[v])

IInv ==
  /\ Base /\ SidecarTruth /\ ContentOfIdentity
  /\ StoreInv /\ SettledInv

-----------------------------------------------------------------------------
(* The invariant                                                           *)

LEMMA IdentityType ==
  ASSUME NEW in \in Inputs
  PROVE  Identity(in) \in Identities
BY DEF Identity, Covered, Inputs, Identities

\* Inputs have the same identity exactly when they are alike.
LEMMA AlikeIdentity ==
  ASSUME dataset \in Datasets, NEW a \in Inputs, NEW b \in Inputs
  PROVE  Identity(a) = Identity(b) <=> b \in Alike(a)
<1>1. CASE dataset = "N-BaIoT"
  BY <1>1 DEF Identity, Covered, Alike
<1>2. CASE dataset # "N-BaIoT"
  BY <1>2 DEF Identity, Covered, Alike
<1> QED BY <1>1, <1>2

\* Equal identities, equal contents up to what they leave out.
LEMMA EqualMade ==
  ASSUME dataset \in Datasets, NEW a \in Inputs, NEW b \in Inputs,
         Identity(a) = Identity(b), NEW s \in Slots
  PROVE  Made(s, a) = Made(s, b)
<1>1. b \in Alike(a)
  BY AlikeIdentity
<1>2. Alike(a) = Alike(b)
  BY <1>1 DEF Alike
<1> QED BY <1>2 DEF Made

\* What inputs make is among what their identity names.
LEMMA MadeType ==
  ASSUME NEW s \in Slots, NEW in \in Inputs
  PROVE  /\ Bytes[s][in] \in Made(s, in)
         /\ Made(s, in) \subseteq Contents
         /\ dataset = "N-BaIoT" => Made(s, in) = {Bytes[s][in]}
<1>1. in \in Alike(in) /\ Alike(in) \subseteq Inputs
  BY DEF Alike
<1>2. dataset = "N-BaIoT" => Alike(in) = {in}
  BY DEF Alike, Inputs
<1>3. \A a \in Inputs : Bytes[s][a] \in Contents
  BY PreparationAssumption
<1> QED BY <1>1, <1>2, <1>3 DEF Made

LEMMA SlotsContain == Scaler \in Slots /\ Views \subseteq Slots /\ Scaler \notin Views
BY DEF Slots, Scaler, Views

LEMMA BytesType == \A s \in Slots, in \in Inputs : Bytes[s][in] \in Contents
BY PreparationAssumption

\* Truthful sidecars make the reuse test sound.
LEMMA TruthMakesReuseSound ==
  ASSUME SidecarTruth
  PROVE  ReuseIsSound
BY DEF SidecarTruth, ReuseIsSound, Reusable

\* What was offered before changes nothing when it is offered again.
LEMMA OfferAgain ==
  ASSUME TypeOK, NEW in \in Inputs, NEW s \in Slots, NEW payload,
         Offered(s, in, payload), Publish(s, Identity(in), payload)
  PROVE  UNCHANGED <<held, current>>
<1>1. Identity(in) \in Identities
  BY IdentityType
<1>2. held' = held
  BY <1>1 DEF Offered, Publish, TypeOK
<1>3. current' = current
  BY <1>1 DEF Offered, Publish, TypeOK
<1> QED BY <1>2, <1>3

LEMMA InitInv == Init => IInv
<1> SUFFICES ASSUME Init PROVE IInv
  OBVIOUS
<1>1. TypeOK
  <2>1. IdleJob \in Jobs
    BY DEF IdleJob, Jobs, Steps
  <2>2. 0 \in 0 .. MaxChanges /\ 0 \in 0 .. MaxStops
    BY PreparationAssumption
  <2>3. held \in [Slots -> [Identities -> Contents \union {Nothing}]]
    BY DEF Init
  <2> QED BY <2>1, <2>2, <2>3 DEF Init, TypeOK
<1>2. JobInv /\ WrittenInv
  BY DEF Init, IdleJob, JobInv, Untouched, WrittenInv, At, Finishing, Materializing,
     Copying, LastManifest
<1>3. SidecarTruth /\ ContentOfIdentity
  BY IdentityType DEF Init, SidecarTruth, ContentOfIdentity
<1>4. StoreInv /\ SettledInv
  BY DEF Init, IdleJob, StoreInv, Activated, SettledInv, At, Finishing, LastManifest
<1> QED BY <1>1, <1>2, <1>3, <1>4 DEF IInv, Base

-----------------------------------------------------------------------------
(* The command and its files                                               *)

\* A view that is next belongs to the raw files the command has read.
LEMMA NextView ==
  ASSUME Base, ~At("idle"), NEW v \in Views, IsNext(v)
  PROVE  v \in ViewsOf[job.in.raw] /\ v \in job.todo /\ job.in \in Inputs
         /\ \A w \in Views : IsNext(w) => w = v
BY DEF Base, TypeOK, JobInv, IsNext, Views, Jobs

\* Where files stay, so does what the reuse test says.
LEMMA FilesStay ==
  ASSUME UNCHANGED <<dataset, files>>
  PROVE  \A v, in : Reusable(v, Identity(in))' <=> Reusable(v, Identity(in'))
BY DEF files, Reusable, Identity

\* A step of one command changes its step, what is left to do and the moments.
LEMMA JobType ==
  ASSUME TypeOK, JobInv, ~At("idle"), NEW st \in Steps, NEW todo \in SUBSET Views,
         NEW m \in Contents \union {Nothing}
  PROVE  /\ [job EXCEPT !.step = st, !.todo = todo, !.moments = m] \in Jobs
         /\ [job EXCEPT !.step = st, !.todo = todo] \in Jobs
         /\ [job EXCEPT !.step = st, !.moments = m] \in Jobs
         /\ [job EXCEPT !.step = st] \in Jobs
         /\ [job EXCEPT !.todo = todo] \in Jobs
BY DEF TypeOK, JobInv, Jobs

LEMMA TypeStep ==
  ASSUME Base, [Next]_vars
  PROVE  TypeOK'
<1> USE DEF Base
<1>0. /\ IdleJob \in Jobs
      /\ Steps = {"idle", "manifest", "raw", "reuse", "view", "copy", "sidecar",
                  "describe", "roles", "publish", "scaler"}
  BY DEF IdleJob, Jobs, Steps
<1>1. ASSUME NEW overwrite \in BOOLEAN, Begin(overwrite) PROVE TypeOK'
  <2>1. inputs.raw \in Raws /\ ViewsOf[inputs.raw] \in SUBSET Views
    BY PreparationAssumption DEF TypeOK, Inputs
  <2> QED BY <1>1, <2>1 DEF Begin, TypeOK, Jobs, Steps, files, store, upstream
<1>2. CASE PublishDatasetManifest \/ PublishRawIdentity
  <2>1. job.in \in Inputs /\ job.in.raw \in Raws
    BY <1>2 DEF PublishDatasetManifest, PublishRawIdentity, JobInv, At, Inputs
  <2>2. /\ [job EXCEPT !.step = "raw"] \in Jobs
        /\ [job EXCEPT !.step = Materialize] \in Jobs
    BY <1>2, <1>0, JobType DEF PublishDatasetManifest, PublishRawIdentity, Materialize, At
  <2>3. CASE PublishDatasetManifest
    BY <2>3, <2>1, <2>2, <1>0
    DEF PublishDatasetManifest, TypeOK, files, store, upstream, history
  <2>4. CASE PublishRawIdentity
    BY <2>4, <2>1, <2>2 DEF PublishRawIdentity, TypeOK, files, store, upstream, history
  <2> QED BY <1>2, <2>3, <2>4
<1>3. CASE DecideReuse
  <2>1. job.in \in Inputs /\ Identity(job.in) \in Identities
    BY <1>3, IdentityType DEF DecideReuse, JobInv, At
  <2>2. MaterializationReusable(job.in)
          => held[Scaler][current[Scaler]] \in Contents \union {Nothing}
    BY <2>1, SlotsContain DEF MaterializationReusable, TypeOK
  <2>3. job' \in Jobs
    BY <1>3, <2>2, <1>0, JobType DEF DecideReuse, At
  <2> QED BY <1>3, <2>3 DEF DecideReuse, TypeOK, files, store, upstream, history
<1>4. ASSUME NEW v \in Views, WriteView(v) PROVE TypeOK'
  <2>1. job.in \in Inputs /\ Identity(job.in) \in Identities /\ v \in Slots
    BY <1>4, IdentityType, SlotsContain
    DEF WriteView, TakeView, CopyView, OpenSidecar, DescribeView, JobInv, At
  <2>2. Bytes[v][job.in] \in Contents
    BY <2>1, BytesType
  <2>3. ~At("idle") /\ job.todo \ {v} \in SUBSET Views
    BY <1>4 DEF WriteView, TakeView, CopyView, OpenSidecar, DescribeView, TypeOK, Jobs, At
  <2>4. CASE TakeView(v)
    <3>1. job' \in Jobs
      BY <2>4, <2>3, <1>0, JobType DEF TakeView
    <3> QED BY <2>4, <3>1 DEF TakeView, TypeOK, store, upstream, history
  <2>5. CASE CopyView(v)
    <3>1. job' \in Jobs
      BY <2>5, <2>3, <1>0, JobType DEF CopyView
    <3> QED BY <2>5, <2>2, <3>1 DEF CopyView, TypeOK, store, upstream, history
  <2>6. CASE OpenSidecar(v)
    <3>1. job' \in Jobs
      BY <2>6, <2>3, <1>0, JobType DEF OpenSidecar
    <3> QED BY <2>6, <3>1 DEF OpenSidecar, TypeOK, store, upstream, history
  <2>7. CASE DescribeView(v)
    <3>1. job' \in Jobs
      BY <2>7, <2>3, <1>0, JobType DEF DescribeView
    <3>2. parquet[v] = Bytes[v][job.in]
      BY <2>7 DEF DescribeView, JobInv, At
    <3>3. [identity |-> Identity(job.in), digest |-> parquet[v]] \in Sidecars
      BY <3>2, <2>1, <2>2 DEF Sidecars
    <3> QED BY <2>7, <3>1, <3>3 DEF DescribeView, TypeOK, store, upstream, history
  <2> QED BY <1>4, <2>4, <2>5, <2>6, <2>7 DEF WriteView
<1>5. CASE EndViews
  <2>1. job.in \in Inputs /\ job.in.raw \in Raws
    BY <1>5 DEF EndViews, JobInv, At, Inputs
  <2>2. ViewsOf[job.in.raw] \in SUBSET Views /\ Bytes[Scaler][job.in] \in Contents
    BY <2>1, BytesType, SlotsContain, PreparationAssumption
  <2>3. job' \in Jobs
    BY <1>5, <2>2, <1>0, JobType DEF EndViews, At
  <2> QED BY <1>5, <2>3 DEF EndViews, TypeOK, files, store, upstream, history
<1>6. CASE PublishRoles \/ EndPublish
  <2>1. ~At("idle") /\ job.in \in Inputs
    BY <1>6 DEF PublishRoles, EndPublish, JobInv, At
  <2>2. job' \in Jobs
    BY <1>6, <2>1, <1>0, JobType DEF PublishRoles, EndPublish
  <2>3. Identity(job.in) \in Identities
    BY <2>1, IdentityType
  <2> QED BY <1>6, <2>2, <2>3
     DEF PublishRoles, EndPublish, TypeOK, files, store, upstream, history
<1>7. ASSUME NEW s \in Slots, NEW i \in Identities, NEW c \in Contents \union {Nothing},
             Publish(s, i, c)
      PROVE  /\ held' \in [Slots -> [Identities -> Contents \union {Nothing}]]
             /\ current' \in [Slots -> Identities \union {Nothing}]
  BY <1>7 DEF Publish, TypeOK
<1>8. ASSUME NEW v \in Views, PublishView(v) PROVE TypeOK'
  <2>1. ~At("idle") /\ job.in \in Inputs /\ v \in ViewsOf[job.in.raw]
    BY <1>8, NextView DEF PublishView, At
  <2>2. Reusable(v, Identity(job.in))
    BY <1>8, <2>1 DEF PublishView, WrittenInv, At, Finishing
  <2>3. parquet[v] \in Contents
    BY <2>2 DEF Reusable, TypeOK, Sidecars
  <2>4. job' \in Jobs
    <3>1. job.todo \ {v} \in SUBSET Views
      BY DEF TypeOK, Jobs
    <3> QED BY <1>8, <3>1 DEF PublishView, TypeOK, Jobs
  <2>5. v \in Slots /\ Identity(job.in) \in Identities
    BY <2>1, IdentityType, SlotsContain
  <2> QED BY <1>8, <1>7, <2>3, <2>4, <2>5 DEF PublishView, TypeOK, files, upstream, history
<1>9. CASE PublishScaler
  <2>1. ~At("idle") /\ job.in \in Inputs
    BY <1>9 DEF PublishScaler, JobInv, At
  <2>2. [job EXCEPT !.step = "manifest"] \in Jobs
    BY <2>1, <1>0, JobType
  <2>3. Scaler \in Slots /\ Identity(job.in) \in Identities
        /\ job.moments \in Contents \union {Nothing}
    BY <2>1, IdentityType, SlotsContain DEF TypeOK, Jobs
  <2>4. job' \in Jobs /\ settled' \in Inputs \union {Nothing} /\ clean' \in BOOLEAN
    BY <1>9, <2>1, <2>2, <1>0 DEF PublishScaler, TypeOK, history
  <2>5. /\ held' \in [Slots -> [Identities -> Contents \union {Nothing}]]
        /\ current' \in [Slots -> Identities \union {Nothing}]
    BY <1>9, <1>7, <2>3 DEF PublishScaler
  <2> QED BY <1>9, <2>4, <2>5 DEF PublishScaler, TypeOK, files, upstream
<1>10. CASE Stop
  BY <1>10, <1>0, PreparationAssumption
  DEF Stop, TypeOK, files, store, upstream, history
<1>11. ASSUME NEW in \in Inputs, ChangeInputs(in) PROVE TypeOK'
  BY <1>11, PreparationAssumption DEF ChangeInputs, TypeOK, files, store, upstream, history
<1>12. CASE UNCHANGED vars
  BY <1>12 DEF vars, TypeOK, files, store, upstream, history
<1> QED BY <1>1, <1>2, <1>3, <1>4, <1>5, <1>6, <1>8, <1>9, <1>10, <1>11, <1>12
   DEF Next, Advance

LEMMA BaseStep ==
  ASSUME Base, [Next]_vars
  PROVE  Base'
<1> USE DEF Base
<1>0. TypeOK'
  BY TypeStep
<1> SUFFICES JobInv' /\ WrittenInv'
  BY <1>0
<1> USE DEF JobInv, Untouched, WrittenInv, At, Materializing, Copying, Finishing, LastManifest
<1>1. ASSUME NEW overwrite \in BOOLEAN, Begin(overwrite) PROVE JobInv' /\ WrittenInv'
  BY <1>1 DEF Begin, TypeOK
<1>2. CASE PublishDatasetManifest \/ PublishRawIdentity
  <2>1. \A v : Reusable(v, Identity(job.in))' <=> Reusable(v, Identity(job.in'))
    BY <1>2, FilesStay DEF PublishDatasetManifest, PublishRawIdentity
  <2> QED BY <1>2, <2>1 DEF PublishDatasetManifest, PublishRawIdentity, TypeOK, Jobs,
       IdleJob, Materialize
<1>3. CASE DecideReuse
  <2>1. \A v : Reusable(v, Identity(job.in))' <=> Reusable(v, Identity(job.in'))
    BY <1>3, FilesStay DEF DecideReuse
  <2>2. job.in' = job.in /\ job.todo' = job.todo /\ job.todo = ViewsOf[job.in.raw]
    BY <1>3 DEF DecideReuse, TypeOK, Jobs
  <2>3. job.in \in Inputs /\ job.todo \subseteq ViewsOf[job.in.raw]
    BY <1>3 DEF DecideReuse
  <2>4. CASE ~job.overwrite /\ MaterializationReusable(job.in)
    <3>1. job.step' = "roles"
      BY <1>3, <2>4 DEF DecideReuse, TypeOK, Jobs
    <3>2. \A v \in ViewsOf[job.in.raw] : Reusable(v, Identity(job.in))
      BY <2>4 DEF MaterializationReusable
    <3>3. \A v \in ViewsOf[job.in.raw] : Reusable(v, Identity(job.in))'
      BY <2>1, <2>2, <3>2
    <3> QED BY ONLY <1>0, <2>2, <2>3, <3>1, <3>3
  <2>5. CASE ~(~job.overwrite /\ MaterializationReusable(job.in))
    <3>1. job.step' = "view"
      BY <1>3, <2>5 DEF DecideReuse, TypeOK, Jobs
    <3> QED BY ONLY <1>0, <2>2, <2>3, <3>1
  <2> QED BY <2>4, <2>5
<1>4. ASSUME NEW v \in Views, WriteView(v) PROVE JobInv' /\ WrittenInv'
  <2>1. /\ v \in ViewsOf[job.in.raw] /\ v \in job.todo /\ job.in \in Inputs
        /\ \A w \in Views : IsNext(w) => w = v
    BY <1>4, NextView
    DEF WriteView, TakeView, CopyView, OpenSidecar, DescribeView
  <2>2. /\ job.in' = job.in /\ dataset' = dataset /\ job.step \in Materializing
        /\ job.step' \in Materializing
    BY <1>4 DEF WriteView, TakeView, CopyView, OpenSidecar, DescribeView, TypeOK, Jobs
  <2>3. ViewsOf[job.in.raw] \subseteq Views
    BY <2>1, PreparationAssumption DEF Inputs
  <2>4. ASSUME NEW w \in Views, w # v
        PROVE  Reusable(w, Identity(job.in))' = Reusable(w, Identity(job.in))
    <3>1. parquet'[w] = parquet[w] /\ sidecar'[w] = sidecar[w]
      BY <1>4, <2>4
      DEF WriteView, TakeView, CopyView, OpenSidecar, DescribeView, TypeOK
    <3> QED BY <3>1, <2>2 DEF Reusable, Identity
  <2>5. job.todo' \in {job.todo, job.todo \ {v}}
    BY <1>4 DEF WriteView, TakeView, CopyView, OpenSidecar, DescribeView, TypeOK, Jobs
  <2>6. v \notin job.todo' => Reusable(v, Identity(job.in))'
    <3>1. SUFFICES ASSUME v \notin job.todo' PROVE Reusable(v, Identity(job.in))'
      OBVIOUS
    <3>2. CASE TakeView(v)
      BY <3>1, <3>2, <2>1, <2>2 DEF TakeView, TypeOK, Jobs, Reusable, Identity
    <3>3. CASE DescribeView(v)
      <4>1. parquet[v] = Bytes[v][job.in] /\ v \in Slots
        BY <3>3, SlotsContain DEF DescribeView
      <4>2. parquet[v] \in Contents /\ Identity(job.in) \in Identities
        BY <4>1, <2>1, BytesType, IdentityType
      <4>3. [identity |-> Identity(job.in), digest |-> parquet[v]] \in Sidecars
        BY <4>2 DEF Sidecars
      <4>4. /\ parquet[v] # NoFile
            /\ [identity |-> Identity(job.in), digest |-> parquet[v]] \notin {NoFile, Torn}
        BY <4>2, <4>3, PreparationAssumption
      <4>5. sidecar'[v] = [identity |-> Identity(job.in), digest |-> parquet[v]]
        BY <3>3 DEF DescribeView, TypeOK
      <4> QED BY <3>3, <4>4, <4>5, <2>2 DEF DescribeView, Reusable, Identity
    <3>4. CASE CopyView(v) \/ OpenSidecar(v)
      BY <3>1, <3>4, <2>1 DEF CopyView, OpenSidecar, TypeOK, Jobs
    <3> QED BY <1>4, <3>2, <3>3, <3>4 DEF WriteView
  <2>7. WrittenInv'
    BY <2>1, <2>2, <2>4, <2>5, <2>6, <2>3
  <2>8. job.step' \in {"sidecar", "describe"} =>
          \A w \in Views : IsNext(w)' => parquet'[w] = Bytes[w][job.in]
    <3>1. CASE CopyView(v)
      BY <3>1, <2>1 DEF CopyView, IsNext, TypeOK, Jobs
    <3>2. CASE OpenSidecar(v)
      BY <3>2, <2>1 DEF OpenSidecar, IsNext, TypeOK, Jobs
    <3>3. CASE TakeView(v) \/ DescribeView(v)
      BY <3>3 DEF TakeView, DescribeView, TypeOK, Jobs
    <3> QED BY <1>4, <3>1, <3>2, <3>3 DEF WriteView
  <2> QED BY <2>1, <2>2, <2>5, <2>7, <2>8
<1>5. CASE EndViews \/ PublishRoles \/ EndPublish
  <2>1. \A v : Reusable(v, Identity(job.in))' <=> Reusable(v, Identity(job.in'))
    BY <1>5, FilesStay DEF EndViews, PublishRoles, EndPublish
  <2> QED BY <1>5, <2>1 DEF EndViews, PublishRoles, EndPublish, TypeOK, Jobs
<1>6. ASSUME NEW v \in Views, PublishView(v) PROVE JobInv' /\ WrittenInv'
  <2>1. \A w : Reusable(w, Identity(job.in))' <=> Reusable(w, Identity(job.in'))
    BY <1>6, FilesStay DEF PublishView
  <2> QED BY <1>6, <2>1 DEF PublishView, TypeOK, Jobs
<1>7. CASE PublishScaler
  <2>1. \A w : Reusable(w, Identity(job.in))' <=> Reusable(w, Identity(job.in'))
    BY <1>7, FilesStay DEF PublishScaler
  <2> QED BY <1>7, <2>1 DEF PublishScaler, IdleJob, TypeOK, Jobs
<1>8. CASE Stop
  BY <1>8 DEF Stop, IdleJob
<1>9. ASSUME NEW in \in Inputs, ChangeInputs(in) PROVE JobInv' /\ WrittenInv'
  BY <1>9 DEF ChangeInputs
<1>10. CASE UNCHANGED vars
  BY <1>10 DEF vars, files, Reusable, Identity, IsNext
<1> QED BY <1>1, <1>2, <1>3, <1>4, <1>5, <1>6, <1>7, <1>8, <1>9, <1>10 DEF Next, Advance

-----------------------------------------------------------------------------
(* What is written and published is what the inputs produce                *)

\* Another slot stays as it is.
LEMMA OtherSlots ==
  ASSUME TypeOK, NEW i \in Identities, NEW s \in Slots, NEW payload, Publish(s, i, payload)
  PROVE  \A t \in Slots : t # s => held'[t] = held[t] /\ current'[t] = current[t]
BY DEF Publish, TypeOK

\* A payload that the inputs may make is offered by publishing it.
LEMMA PublishingStep ==
  ASSUME TypeOK, ContentOfIdentity, Activated,
         NEW in \in Inputs, NEW s \in Slots, NEW payload \in Made(s, in),
         Publish(s, Identity(in), payload), UNCHANGED dataset
  PROVE  Offered(s, in, payload)' /\ ContentOfIdentity' /\ Activated'
<1>1. Identity(in) \in Identities /\ payload \in Contents /\ payload # Nothing
      /\ Identity(in) # Nothing
  BY IdentityType, MadeType, PreparationAssumption
<1>2. /\ held'[s][Identity(in)] = IF held[s][Identity(in)] = Nothing
                                  THEN payload ELSE held[s][Identity(in)]
      /\ current'[s] = IF held[s][Identity(in)] \in {Nothing, payload} THEN Identity(in)
                       ELSE IF current[s] = Identity(in) THEN Nothing ELSE current[s]
  BY <1>1 DEF Publish, TypeOK
<1>3. \A t \in Slots, i \in Identities :
        t # s \/ i # Identity(in) => held'[t][i] = held[t][i]
  BY <1>1 DEF Publish, TypeOK
<1>4. Offered(s, in, payload)'
  BY <1>1, <1>2 DEF Offered, Identity
<1>5. ContentOfIdentity'
  <2> SUFFICES ASSUME NEW t \in Slots, NEW a \in Inputs, held'[t][Identity(a)] # Nothing
               PROVE  held'[t][Identity(a)] \in Made(t, a)
    BY DEF ContentOfIdentity, Identity, Made, Alike
  <2>1. /\ held[t][Identity(a)] # Nothing => held[t][Identity(a)] \in Made(t, a)
        /\ Identity(a) \in Identities
    BY IdentityType DEF ContentOfIdentity
  <2>2. CASE t = s /\ Identity(a) = Identity(in)
    <3>1. Made(t, a) = Made(s, in)
      BY <2>2, EqualMade DEF TypeOK
    <3> QED BY <1>2, <2>1, <2>2, <3>1
  <2>3. CASE t # s \/ Identity(a) # Identity(in)
    BY <1>3, <2>1, <2>3
  <2> QED BY <2>2, <2>3
<1>6. Activated'
  <2> SUFFICES ASSUME NEW t \in Slots, current'[t] # Nothing
               PROVE  held'[t][current'[t]] # Nothing
    BY DEF Activated
  <2>1. current[t] # Nothing => held[t][current[t]] # Nothing /\ current[t] \in Identities
    BY DEF Activated, TypeOK
  <2>2. CASE t # s
    BY <1>1, <1>3, <2>1, <2>2, OtherSlots
  <2>3. CASE t = s
    BY <1>1, <1>2, <1>3, <2>1, <2>3
  <2> QED BY <2>2, <2>3
<1> QED BY <1>4, <1>5, <1>6

\* The two steps that publish a file or a scaler publish what the inputs may
\* make.
LEMMA Payloads ==
  ASSUME IInv
  PROVE  /\ \A v \in Views : PublishView(v) =>
              /\ Publish(v, Identity(job.in), parquet[v])
              /\ parquet[v] \in Made(v, job.in)
              /\ job.in \in Inputs /\ v \in ViewsOf[job.in.raw]
         /\ PublishScaler =>
              /\ Publish(Scaler, Identity(job.in), Bytes[Scaler][job.in])
              /\ job.in \in Inputs
<1> USE DEF IInv, Base
<1>1. ASSUME NEW v \in Views, PublishView(v)
      PROVE  /\ Publish(v, Identity(job.in), parquet[v])
             /\ parquet[v] \in Made(v, job.in)
             /\ job.in \in Inputs /\ v \in ViewsOf[job.in.raw]
  <2>1. job.in \in Inputs /\ v \in ViewsOf[job.in.raw]
    BY <1>1, NextView DEF PublishView, At
  <2>2. Reusable(v, Identity(job.in))
    BY <1>1, <2>1 DEF PublishView, WrittenInv, At, Finishing
  <2>3. parquet[v] \in Made(v, job.in)
    BY <2>1, <2>2, TruthMakesReuseSound DEF ReuseIsSound
  <2> QED BY <1>1, <2>1, <2>3 DEF PublishView
<1>2. ASSUME PublishScaler
      PROVE  /\ Publish(Scaler, Identity(job.in), Bytes[Scaler][job.in])
             /\ job.in \in Inputs
  BY <1>2 DEF PublishScaler, At, Finishing, StoreInv, JobInv
<1> QED BY <1>1, <1>2

LEMMA TruthStep ==
  ASSUME IInv, [Next]_vars
  PROVE  SidecarTruth'
<1> USE DEF IInv, Base
<1>1. ASSUME NEW v \in Views, OpenSidecar(v) PROVE SidecarTruth'
  BY <1>1 DEF OpenSidecar, SidecarTruth, Identity, Made, Alike, TypeOK
<1>2. ASSUME NEW v \in Views, DescribeView(v) PROVE SidecarTruth'
  <2>1. job.in \in Inputs /\ parquet[v] = Bytes[v][job.in]
    BY <1>2 DEF DescribeView, JobInv, At
  <2>2. sidecar' = [sidecar EXCEPT
          ![v] = [identity |-> Identity(job.in), digest |-> Bytes[v][job.in]]]
    BY <1>2, <2>1 DEF DescribeView
  <2>3. \A in \in Inputs : Identity(job.in) = Identity(in) => Bytes[v][job.in] \in Made(v, in)
    <3> SUFFICES ASSUME NEW in \in Inputs, Identity(job.in) = Identity(in)
                 PROVE  Bytes[v][job.in] \in Made(v, in)
      OBVIOUS
    <3> QED BY <2>1, EqualMade, MadeType, SlotsContain DEF TypeOK
  <2>4. dataset' = dataset
    BY <1>2 DEF DescribeView
  <2> QED BY <2>2, <2>3, <2>4 DEF SidecarTruth, Identity, Made, Alike, TypeOK
<1>3. CASE UNCHANGED <<dataset, sidecar>>
  BY <1>3 DEF SidecarTruth, Identity, Made, Alike
<1> QED
  <2>1. (\E v \in Views : OpenSidecar(v) \/ DescribeView(v)) \/ UNCHANGED <<dataset, sidecar>>
    BY DEF Next, Advance, WriteView, vars, files, Begin, PublishDatasetManifest,
       PublishRawIdentity, DecideReuse, TakeView, CopyView, PublishView, EndViews,
       PublishRoles, EndPublish, PublishScaler, Stop, ChangeInputs
  <2> QED BY <1>1, <1>2, <1>3, <2>1

LEMMA ContentStep ==
  ASSUME IInv, [Next]_vars
  PROVE  ContentOfIdentity' /\ Activated'
<1> USE DEF IInv, Base
<1>0. Activated
  BY DEF StoreInv
<1>1. ASSUME NEW v \in Views, PublishView(v) PROVE ContentOfIdentity' /\ Activated'
  BY <1>0, <1>1, Payloads, PublishingStep, SlotsContain DEF PublishView
<1>2. CASE PublishScaler
  <2>1. Bytes[Scaler][job.in] \in Made(Scaler, job.in)
    BY <1>2, Payloads, MadeType, SlotsContain
  <2> QED BY <1>0, <1>2, <2>1, Payloads, PublishingStep, SlotsContain DEF PublishScaler
<1>3. CASE UNCHANGED <<dataset, held, current>>
  BY <1>0, <1>3 DEF ContentOfIdentity, Activated, Identity, Made, Alike
<1> QED
  <2>1. (\E v \in Views : PublishView(v)) \/ PublishScaler \/ UNCHANGED <<dataset, held, current>>
    BY DEF Next, Advance, WriteView, vars, store, Begin, PublishDatasetManifest,
       PublishRawIdentity, DecideReuse, TakeView, CopyView, OpenSidecar, DescribeView,
       EndViews, PublishRoles, EndPublish, Stop, ChangeInputs
  <2> QED BY <1>1, <1>2, <1>3, <2>1

\* What was offered stays so while the store does not move.
LEMMA StoreStays ==
  ASSUME UNCHANGED <<dataset, held, current>>
  PROVE  \A s, in, payload : Offered(s, in, payload)' <=> Offered(s, in', payload')
BY DEF Offered, Identity

LEMMA StoreStep ==
  ASSUME IInv, [Next]_vars
  PROVE  StoreInv'
<1> USE DEF IInv, Base
<1>0. Activated'
  BY ContentStep
<1> USE DEF StoreInv, At, Finishing, LastManifest
<1>1. ASSUME NEW overwrite \in BOOLEAN, Begin(overwrite) PROVE StoreInv'
  BY <1>0, <1>1 DEF Begin
<1>2. CASE PublishDatasetManifest \/ PublishRawIdentity
  BY <1>0, <1>2 DEF PublishDatasetManifest, PublishRawIdentity, IdleJob, Materialize, TypeOK, Jobs
<1>3. CASE DecideReuse
  <2>1. job.in \in Inputs /\ job.in' = job.in /\ job.step' \in {"view", "roles"}
    BY <1>3 DEF DecideReuse, JobInv, TypeOK, Jobs
  <2>2. job.step' = "roles" => job.moments' = Bytes[Scaler][job.in]
    <3>1. SUFFICES ASSUME job.step' = "roles" PROVE job.moments' = Bytes[Scaler][job.in]
      OBVIOUS
    <3>2. /\ MaterializationReusable(job.in)
          /\ job.moments' = held[Scaler][current[Scaler]]
      BY <1>3, <3>1 DEF DecideReuse, TypeOK, Jobs
    <3>3. current[Scaler] = Identity(job.in) /\ Identity(job.in) # Nothing
      BY <2>1, <3>2, IdentityType, PreparationAssumption DEF MaterializationReusable
    <3>4. Made(Scaler, job.in) = {Bytes[Scaler][job.in]}
      BY <1>3, <2>1, MadeType, SlotsContain DEF DecideReuse, JobInv
    <3>5. held[Scaler][Identity(job.in)] \in Made(Scaler, job.in)
      BY <2>1, <3>3, SlotsContain DEF Activated, ContentOfIdentity
    <3> QED BY <3>2, <3>3, <3>4, <3>5
  <2> QED BY <1>0, <2>1, <2>2
<1>4. ASSUME NEW v \in Views, WriteView(v) PROVE StoreInv'
  <2>1. job.step' \in {"view", "copy", "sidecar", "describe"}
    BY <1>4 DEF WriteView, TakeView, CopyView, OpenSidecar, DescribeView, TypeOK, Jobs
  <2> QED BY <1>0, <2>1
<1>5. CASE EndViews
  BY <1>0, <1>5 DEF EndViews, TypeOK, Jobs
<1>6. CASE PublishRoles
  BY <1>0, <1>6 DEF PublishRoles, Identity, JobInv, Untouched, TypeOK, Jobs
<1>7. CASE EndPublish
  <2>1. \A s : Offered(s, job.in, parquet[s])' <=> Offered(s, job.in', parquet'[s])
    BY <1>7, StoreStays DEF EndPublish, store
  <2> QED BY <1>0, <1>7, <2>1 DEF EndPublish, files, store, Identity, TypeOK, Jobs
<1>8. ASSUME NEW v \in Views, PublishView(v) PROVE StoreInv'
  <2>0. PICK in \in Inputs : in = job.in
    BY <1>8, Payloads
  <2>1. /\ v \in ViewsOf[in.raw] /\ parquet[v] \in Made(v, in)
        /\ Publish(v, Identity(in), parquet[v])
    BY <1>8, <2>0, Payloads
  <2>2. /\ job.in' = in /\ job.step' = "publish" /\ job.todo' = job.todo \ {v}
        /\ job.moments' = job.moments /\ roles' = roles /\ dataset' = dataset
        /\ parquet' = parquet
    BY <1>8, <2>0 DEF PublishView, files, TypeOK, Jobs
  <2>3. ViewsOf[in.raw] \subseteq Views
    BY PreparationAssumption DEF Inputs
  <2>4. Offered(v, in, parquet[v])'
    BY <2>1, <2>2, PublishingStep, SlotsContain
  <2>5. ASSUME NEW w \in ViewsOf[in.raw] \ job.todo' PROVE Offered(w, in, parquet[w])'
    <3>1. CASE w = v
      BY <2>2, <2>4, <3>1
    <3>2. CASE w # v
      <4>1. Offered(w, in, parquet[w])
        BY <1>8, <2>0, <2>2, <2>5, <3>2 DEF PublishView
      <4>2. held'[w] = held[w] /\ current'[w] = current[w]
        BY <2>1, <2>3, <3>2, OtherSlots, IdentityType, SlotsContain
      <4> QED BY <2>2, <4>1, <4>2 DEF Offered, Identity
    <3> QED BY <3>1, <3>2
  <2> QED BY <1>0, <1>8, <2>0, <2>2, <2>5 DEF PublishView, Identity
<1>9. CASE PublishScaler
  <2>0. PICK in \in Inputs : in = job.in
    BY <1>9, Payloads
  <2>1. /\ Bytes[Scaler][in] \in Made(Scaler, in)
        /\ Publish(Scaler, Identity(in), Bytes[Scaler][in])
        /\ UNCHANGED <<dataset, files>>
    BY <1>9, <2>0, Payloads, MadeType, SlotsContain DEF PublishScaler
  <2>2. Offered(Scaler, in, Bytes[Scaler][in])'
    BY <2>1, PublishingStep, SlotsContain
  <2>3. ASSUME NEW w \in ViewsOf[in.raw] PROVE Offered(w, in, parquet[w])'
    <3>1. Offered(w, in, parquet[w]) /\ w \in Views
      BY <1>9, <2>0, PreparationAssumption DEF PublishScaler, Inputs
    <3>2. held'[w] = held[w] /\ current'[w] = current[w]
      BY <2>1, <3>1, OtherSlots, IdentityType, SlotsContain
    <3> QED BY <2>1, <3>1, <3>2 DEF Offered, Identity, files
  <2>4. CASE dataset = "N-BaIoT"
    BY <1>0, <1>9, <2>4 DEF PublishScaler, IdleJob
  <2>5. CASE dataset # "N-BaIoT"
    <3>1. /\ job.in' = in /\ job.step' = "manifest"
          /\ roles' = roles /\ dataset' = dataset
      BY <1>9, <2>0, <2>5 DEF PublishScaler, TypeOK, Jobs
    <3> QED BY <1>0, <1>9, <2>0, <2>2, <2>3, <3>1 DEF PublishScaler, Identity
  <2> QED BY <2>4, <2>5
<1>10. CASE Stop
  BY <1>0, <1>10 DEF Stop, IdleJob
<1>11. ASSUME NEW in \in Inputs, ChangeInputs(in) PROVE StoreInv'
  BY <1>0, <1>11 DEF ChangeInputs
<1>12. CASE UNCHANGED vars
  BY <1>0, <1>12 DEF vars, files, store, Offered, Identity
<1> QED BY <1>1, <1>2, <1>3, <1>4, <1>5, <1>6, <1>7, <1>8, <1>9, <1>10, <1>11, <1>12
   DEF Next, Advance

LEMMA SettledStep ==
  ASSUME IInv, [Next]_vars
  PROVE  /\ SettledInv'
         /\ settled # Nothing /\ settled' = settled =>
              /\ clean /\ clean' => UNCHANGED <<files, store>>
              /\ \A s \in Slots :
                   Published(s, settled) => UNCHANGED <<held[s], current[s], roles>>
<1> DEFINE Goal ==
      /\ SettledInv'
      /\ settled # Nothing /\ settled' = settled =>
           /\ clean /\ clean' => UNCHANGED <<files, store>>
           /\ \A s \in Slots :
                Published(s, settled) => UNCHANGED <<held[s], current[s], roles>>
<1> SUFFICES Goal
  OBVIOUS
<1> USE DEF IInv, Base
<1>0. Nothing \notin Inputs
  BY PreparationAssumption
\* Where the files, the store and the history stay, the history stays true.
<1>s. ASSUME UNCHANGED <<dataset, files, store, history>>,
             At("idle")' \/ job.in' = job.in, At("idle") => At("idle")',
             job.step' \notin Copying, job.overwrite' => job.overwrite
      PROVE  Goal
  BY <1>s DEF SettledInv, files, store, history, Published, Offered, Reusable, Identity, At
<1>1. ASSUME NEW overwrite \in BOOLEAN, Begin(overwrite) PROVE Goal
  <2>1. /\ job.in' = inputs /\ job.overwrite' = overwrite
        /\ job.step' \notin Copying /\ UNCHANGED <<dataset, files, store>>
    BY <1>1 DEF Begin, Copying
  <2>2. settled' \in {settled, Nothing} /\ (settled' # Nothing => settled' = inputs)
    BY <1>1 DEF Begin
  <2>3. clean' => clean /\ settled' = settled /\ ~overwrite
    BY <1>1 DEF Begin, TypeOK
  <2> QED BY <2>1, <2>2, <2>3 DEF SettledInv, files, store, Published, Offered, Reusable, Identity
<1>2. CASE PublishDatasetManifest
  <2>1. CASE dataset = "N-BaIoT"
    BY <1>2, <2>1, <1>s DEF PublishDatasetManifest, At, Copying, TypeOK, Jobs
  <2>2. CASE dataset # "N-BaIoT"
    <3>1. /\ job' = IdleJob /\ settled' = job.in /\ job.in \in Inputs
          /\ UNCHANGED <<dataset, files, store>>
      BY <1>2, <2>2 DEF PublishDatasetManifest, JobInv, At
    <3>2. /\ roles = Identity(job.in) /\ Offered(Scaler, job.in, Bytes[Scaler][job.in])
          /\ \A v \in ViewsOf[job.in.raw] :
               Offered(v, job.in, parquet[v]) /\ Reusable(v, Identity(job.in))
      BY <1>2, <2>2
      DEF PublishDatasetManifest, StoreInv, WrittenInv, LastManifest, At
    <3>3. \A v \in ViewsOf[job.in.raw] :
            Published(v, job.in) => parquet[v] = Bytes[v][job.in]
      BY <3>2 DEF Offered, Published
    <3> QED BY <1>0, <3>1, <3>2, <3>3
       DEF SettledInv, IdleJob, At, Copying, files, store, Published, Offered, Reusable, Identity
  <2> QED BY <2>1, <2>2
<1>3. CASE PublishRawIdentity \/ DecideReuse \/ EndViews \/ EndPublish
  <2>1. /\ UNCHANGED <<dataset, files, store, history>> /\ ~At("idle")
        /\ job.in' = job.in /\ job.step' \notin Copying /\ job.overwrite' = job.overwrite
    BY <1>3 DEF PublishRawIdentity, DecideReuse, EndViews, EndPublish, At, Copying,
       Materialize, TypeOK, Jobs
  <2> QED BY <2>1, <1>s
<1>4. ASSUME NEW v \in Views, WriteView(v) PROVE Goal
  <2>1. v \in ViewsOf[job.in.raw] /\ v \in job.todo /\ job.in \in Inputs
    BY <1>4, NextView
    DEF WriteView, TakeView, CopyView, OpenSidecar, DescribeView, At
  <2>2. /\ UNCHANGED <<dataset, store, history>> /\ ~At("idle")
        /\ job.in' = job.in /\ job.overwrite' = job.overwrite
    BY <1>4 DEF WriteView, TakeView, CopyView, OpenSidecar, DescribeView, At, TypeOK, Jobs
  <2>3. CASE clean
    <3>1. /\ job.in = settled /\ job.step \notin Copying /\ ~job.overwrite
          /\ Reusable(v, Identity(job.in))
      BY <2>1, <2>2, <2>3 DEF SettledInv
    <3>2. TakeView(v)
      BY <1>4, <3>1 DEF WriteView, CopyView, OpenSidecar, DescribeView, At, Copying
    <3>3. UNCHANGED files /\ job.step' \notin Copying
      BY <3>1, <3>2 DEF TakeView, files, Copying, TypeOK, Jobs, At
    <3> QED BY <2>2, <3>3, <1>s
  <2>4. CASE ~clean
    <3>1. CASE settled = Nothing
      BY <2>2, <2>4, <3>1 DEF SettledInv, history
    <3>2. CASE settled # Nothing
      <4>1. /\ job.in = settled /\ settled \in Inputs /\ roles = Identity(settled)
            /\ settled' = settled /\ clean' = clean
        BY <2>2, <3>2 DEF SettledInv, history
      <4>2. ASSUME NEW w \in ViewsOf[settled.raw], Published(w, settled)
            PROVE  parquet'[w] = Bytes[w][settled]
        <5>1. parquet[w] = Bytes[w][settled] /\ w \in Views
          BY <3>2, <4>1, <4>2, PreparationAssumption DEF SettledInv, Inputs
        <5>2. parquet[w] # NoFile
          BY <4>1, <5>1, BytesType, SlotsContain, PreparationAssumption
        <5> QED BY <1>4, <4>1, <5>1, <5>2
            DEF WriteView, TakeView, CopyView, OpenSidecar, DescribeView, TypeOK
      <4>3. \A w : Published(w, settled)' <=> Published(w, settled)
        BY <2>2, <4>1 DEF Published, Identity, store
      <4> QED BY <2>2, <2>4, <4>1, <4>2, <4>3 DEF SettledInv, store, Identity, At
    <3> QED BY <3>1, <3>2
  <2> QED BY <2>3, <2>4
<1>5. CASE PublishRoles
  <2>1. /\ UNCHANGED <<dataset, files, history, held, current>> /\ ~At("idle")
        /\ job.in' = job.in /\ job.step' \notin Copying /\ job.overwrite' = job.overwrite
        /\ roles' = Identity(job.in)
    BY <1>5 DEF PublishRoles, At, Copying, TypeOK, Jobs
  <2>2. CASE settled # Nothing
    <3>1. UNCHANGED store
      BY <2>1, <2>2 DEF SettledInv, store
    <3> QED BY <2>1, <3>1, <1>s
  <2>3. CASE settled = Nothing
    BY <2>1, <2>3 DEF SettledInv, history
  <2> QED BY <2>2, <2>3
\* Where the settled inputs are published again, one slot may change.
<1>p. ASSUME settled # Nothing, settled' = settled, job.in = settled, roles' = roles,
             UNCHANGED <<dataset, files>>, NEW s \in {Scaler} \union ViewsOf[settled.raw],
             NEW payload, Publish(s, Identity(settled), payload),
             payload = IF s = Scaler THEN Bytes[Scaler][settled] ELSE parquet[s]
      PROVE  /\ \A t \in Slots : Published(t, settled) =>
                   UNCHANGED <<held[t], current[t], roles>>
             /\ clean => UNCHANGED store
             /\ s # Scaler /\ Published(s, settled)' => payload = Bytes[s][settled]
  <2>1. /\ settled \in Inputs /\ s \in Slots /\ Identity(settled) \in Identities
        /\ Identity(settled) # Nothing
    BY <1>p, IdentityType, SlotsContain, PreparationAssumption DEF SettledInv, Inputs
  <2>2. ASSUME NEW t \in Slots, Published(t, settled)
        PROVE  UNCHANGED <<held[t], current[t], roles>>
    <3>1. CASE t # s
      BY <1>p, <2>1, <3>1, OtherSlots
    <3>2. CASE t = s
      <4>1. payload = Bytes[s][settled]
        BY <1>p, <2>2, <3>2 DEF SettledInv
      <4>2. Offered(s, settled, payload)
        BY <2>1, <2>2, <3>2, <4>1, BytesType, PreparationAssumption DEF Offered, Published
      <4> QED BY <1>p, <2>1, <3>2, <4>2, OfferAgain
    <3> QED BY <3>1, <3>2
  <2>3. clean => UNCHANGED store
    <3>1. clean => Offered(s, settled, payload)
      BY <1>p DEF SettledInv
    <3> QED BY <1>p, <2>1, <3>1, OfferAgain DEF store
  <2>4. ASSUME s # Scaler, Published(s, settled)' PROVE payload = Bytes[s][settled]
    <3>1. held'[s][Identity(settled)] = Bytes[s][settled] /\ current'[s] = Identity(settled)
      BY <1>p, <2>4 DEF Published, Identity
    <3>2. /\ held'[s][Identity(settled)] = IF held[s][Identity(settled)] = Nothing
                                            THEN payload ELSE held[s][Identity(settled)]
          /\ current'[s] = IF held[s][Identity(settled)] \in {Nothing, payload}
                           THEN Identity(settled)
                           ELSE IF current[s] = Identity(settled) THEN Nothing ELSE current[s]
      BY <1>p, <2>1 DEF Publish, TypeOK
    <3> QED BY <2>1, <3>1, <3>2
  <2> QED BY <2>2, <2>3, <2>4
<1>6. ASSUME NEW v \in Views, PublishView(v) PROVE Goal
  <2>1. /\ UNCHANGED <<dataset, files, history, roles>> /\ ~At("idle")
        /\ job.in' = job.in /\ job.step' \notin Copying /\ job.overwrite' = job.overwrite
    BY <1>6 DEF PublishView, At, Copying, TypeOK, Jobs
  <2>2. CASE settled # Nothing
    <3>1. /\ Publish(v, Identity(settled), parquet[v]) /\ job.in = settled
          /\ settled \in Inputs /\ v \in ViewsOf[settled.raw] /\ v # Scaler
          /\ UNCHANGED <<settled, clean>>
      BY <1>6, <2>1, <2>2, Payloads, SlotsContain DEF SettledInv, history
    <3>2. /\ \A t \in Slots : Published(t, settled) =>
                UNCHANGED <<held[t], current[t], roles>>
          /\ clean => UNCHANGED store
          /\ Published(v, settled)' => parquet[v] = Bytes[v][settled]
      BY <1>p, <2>1, <2>2, <3>1
    <3>3. CASE clean
      BY <2>1, <3>2, <3>3, <1>s
    <3>4. CASE ~clean
      <4>1. ASSUME NEW w \in ViewsOf[settled.raw], Published(w, settled)'
            PROVE  parquet[w] = Bytes[w][settled]
        <5>1. CASE w = v
          BY <3>2, <4>1, <5>1
        <5>2. CASE w # v
          <6>1. w \in Slots /\ v \in Slots /\ Identity(settled) \in Identities
            BY <3>1, IdentityType, SlotsContain, PreparationAssumption DEF Inputs
          <6>2. held'[w] = held[w] /\ current'[w] = current[w]
            BY <3>1, <5>2, <6>1, OtherSlots
          <6>3. Published(w, settled)
            BY <2>1, <3>1, <4>1, <6>2 DEF Published, Identity
          <6> QED BY <2>2, <6>3 DEF SettledInv
        <5> QED BY <5>1, <5>2
      <4> QED BY <2>1, <3>1, <3>2, <3>4, <4>1 DEF SettledInv, files, Identity, At
    <3> QED BY <3>3, <3>4
  <2>3. CASE settled = Nothing
    BY <2>1, <2>3 DEF SettledInv, history
  <2> QED BY <2>2, <2>3
<1>7. CASE PublishScaler
  <2>0. PICK in \in Inputs : in = job.in
    BY <1>7, Payloads
  <2>1. /\ Publish(Scaler, Identity(in), Bytes[Scaler][in]) /\ ~At("idle")
        /\ UNCHANGED <<dataset, files, roles>> /\ Identity(in) \in Identities
    BY <1>7, <2>0, Payloads, IdentityType DEF PublishScaler, At
  <2>2. settled # Nothing => settled = in
    BY <2>0, <2>1 DEF SettledInv
  <2>3. ASSUME settled # Nothing, settled' = settled
        PROVE  /\ clean => UNCHANGED store
               /\ \A t \in Slots : Published(t, settled) =>
                     UNCHANGED <<held[t], current[t], roles>>
    BY <1>p, <2>0, <2>1, <2>2, <2>3
  <2>4. \A v \in Views : held'[v] = held[v] /\ current'[v] = current[v]
    BY <2>1, OtherSlots, SlotsContain
  <2>5. ViewsOf[in.raw] \subseteq Views
    BY PreparationAssumption DEF Inputs
  <2>6. CASE dataset # "N-BaIoT"
    <3>1. /\ UNCHANGED history /\ job.in' = job.in /\ job.overwrite' = job.overwrite
          /\ job.step' \notin Copying
      BY <1>7, <2>6 DEF PublishScaler, Copying, TypeOK, Jobs
    <3>2. CASE settled # Nothing /\ clean
      BY <2>1, <2>3, <3>1, <3>2, <1>s DEF history
    <3>3. CASE settled # Nothing /\ ~clean
      <4>1. \A v \in ViewsOf[settled.raw] : Published(v, settled)' <=> Published(v, settled)
        BY <2>1, <2>2, <2>4, <2>5, <3>1, <3>3 DEF Published, Identity, history
      <4> QED BY <2>1, <2>2, <2>3, <3>1, <3>3, <4>1
          DEF SettledInv, files, history, Identity, At
    <3>4. CASE settled = Nothing
      BY <2>1, <3>1, <3>4 DEF SettledInv, history
    <3> QED BY <3>2, <3>3, <3>4
  <2>7. CASE dataset = "N-BaIoT"
    <3>1. job' = IdleJob /\ settled' = in /\ clean' = TRUE
      BY <1>7, <2>0, <2>7 DEF PublishScaler
    <3>2. Offered(Scaler, in, Bytes[Scaler][in])'
      BY <2>1, MadeType, PublishingStep, SlotsContain DEF StoreInv
    <3>3. /\ roles = Identity(in)
          /\ \A v \in ViewsOf[in.raw] :
               Offered(v, in, parquet[v]) /\ Reusable(v, Identity(in))
      BY <1>7, <2>0 DEF PublishScaler, StoreInv, WrittenInv, Finishing, At
    <3>4. /\ roles' = Identity(in)'
          /\ \A v \in ViewsOf[in.raw] :
               Offered(v, in, parquet[v])' /\ Reusable(v, Identity(in))'
      BY <2>1, <2>4, <2>5, <3>3 DEF files, Offered, Reusable, Identity
    <3>5. \A v \in ViewsOf[in.raw] : Published(v, in)' => parquet'[v] = Bytes[v][in]
      BY <3>4 DEF Offered, Published
    <3>6. job.step' = "idle" /\ job.overwrite' = FALSE
      BY <3>1 DEF IdleJob
    <3>7. SettledInv'
      BY <1>0, <3>1, <3>2, <3>4, <3>5, <3>6 DEF SettledInv, At, Copying
    <3> QED BY <2>1, <2>3, <3>7
  <2> QED BY <2>6, <2>7
<1>8. CASE Stop
  <2>1. /\ UNCHANGED <<dataset, files, store, history>> /\ At("idle")'
        /\ job.step' \notin Copying /\ job.overwrite' = FALSE
    BY <1>8 DEF Stop, IdleJob, At, Copying
  <2> QED BY <2>1, <1>s
<1>9. ASSUME NEW in \in Inputs, ChangeInputs(in) PROVE Goal
  BY <1>9, <1>s DEF ChangeInputs, At, Copying
<1>10. CASE UNCHANGED vars
  BY <1>10 DEF vars, history, store, files, SettledInv, Published, Offered, Reusable, Identity, At
<1> QED BY <1>1, <1>2, <1>3, <1>4, <1>5, <1>6, <1>7, <1>8, <1>9, <1>10 DEF Next, Advance

LEMMA IInvStep ==
  ASSUME IInv, [Next]_vars
  PROVE  IInv'
BY BaseStep, TruthStep, ContentStep, StoreStep, SettledStep DEF IInv

-----------------------------------------------------------------------------
(* Theorems                                                                *)

\* Type correctness, whatever the identities cover.
THEOREM TypeCorrect == Spec => []TypeOK
<1>1. Init => Base
  BY InitInv DEF IInv
<1>2. Base /\ [Next]_vars => Base'
  BY BaseStep
<1>3. Base => TypeOK
  BY DEF Base
<1> QED BY <1>1, <1>2, <1>3, PTL DEF Spec

\* The strengthened invariant holds throughout.
LEMMA Invariance == Spec => []IInv
<1>1. Init => IInv
  BY InitInv
<1>2. IInv /\ [Next]_vars => IInv'
  BY IInvStep
<1> QED BY <1>1, <1>2, PTL DEF Spec

\* For any number of views, inputs and commands cut short, the reuse test
\* accepts no bytes but those the inputs produce, up to the scaling of
\* CICIoT2023,
THEOREM ReuseSound == Spec => []ReuseIsSound
<1>1. IInv => ReuseIsSound
  BY TruthMakesReuseSound DEF IInv
<1> QED BY <1>1, Invariance, PTL

\* and so does what is published under their identity.
THEOREM ContentKnown == Spec => []ContentOfIdentity
<1>1. IInv => ContentOfIdentity
  BY DEF IInv
<1> QED BY <1>1, Invariance, PTL

\* What a completed command left.
LEMMA Completed ==
  ASSUME IInv, clean, NEW v \in ViewsOf[settled.raw]
  PROVE  /\ v \in Views /\ settled \in Inputs
         /\ parquet[v] \in Made(v, settled)
         /\ held[v][Identity(settled)] \in Made(v, settled)
         /\ IF held[v][Identity(settled)] = parquet[v]
            THEN current[v] = Identity(settled) /\ Valid(v)
            ELSE current[v] # Identity(settled)
<1>1. settled \in Inputs /\ Reusable(v, Identity(settled)) /\ Offered(v, settled, parquet[v])
  BY DEF IInv, SettledInv
<1>2. v \in Views /\ v \in Slots /\ Identity(settled) # Nothing
  BY <1>1, IdentityType, SlotsContain, PreparationAssumption DEF Inputs
<1>3. parquet[v] \in Made(v, settled)
  BY <1>1, <1>2, TruthMakesReuseSound DEF IInv, ReuseIsSound
<1>4. held[v][Identity(settled)] \in Made(v, settled)
  BY <1>1, <1>2 DEF IInv, ContentOfIdentity, Offered
<1> QED BY <1>1, <1>2, <1>3, <1>4 DEF Offered, Reusable, Valid

\* What a completed command left stays as it was made, and consumable unless
\* its identity was taken under another scaling;
THEOREM CompletedCurrent == Spec => []CompletedRunIsCurrent
<1>1. IInv => CompletedRunIsCurrent
  BY Completed DEF CompletedRunIsCurrent
<1> QED BY <1>1, Invariance, PTL

\* for N-BaIoT it is exactly what the inputs produce, and always consumable.
THEOREM PrimaryIsExact ==
  Spec => [](dataset = "N-BaIoT" /\ clean =>
               \A v \in ViewsOf[settled.raw] :
                 parquet[v] = Bytes[v][settled] /\ Published(v, settled) /\ Valid(v))
<1>1. ASSUME IInv, dataset = "N-BaIoT", clean, NEW v \in ViewsOf[settled.raw]
      PROVE  parquet[v] = Bytes[v][settled] /\ Published(v, settled) /\ Valid(v)
  <2>1. Made(v, settled) = {Bytes[v][settled]}
    BY <1>1, Completed, MadeType, SlotsContain
  <2> QED BY <1>1, <2>1, Completed DEF Published
<1>2. IInv => (dataset = "N-BaIoT" /\ clean =>
               \A v \in ViewsOf[settled.raw] :
                 parquet[v] = Bytes[v][settled] /\ Published(v, settled) /\ Valid(v))
  BY <1>1
<1> QED BY <1>2, Invariance, PTL

\* Completed reruns are idempotent.
THEOREM RerunsAreIdempotent == Spec => RerunsChangeNothing
<1>1. IInv /\ [Next]_vars =>
        [settled # Nothing /\ settled' = settled =>
           /\ clean /\ clean' => UNCHANGED <<files, store>>
           /\ \A s \in Slots :
                Published(s, settled) => UNCHANGED <<held[s], current[s], roles>>]_vars
  BY SettledStep
<1> QED BY <1>1, Invariance, PTL DEF Spec, RerunsChangeNothing

-----------------------------------------------------------------------------
(* What the files hold                                                     *)

\* A row has one role: that of the first window it lies in.
LEMMA OneRole ==
  ASSUME NEW in, NEW s, NEW i, NEW n, NEW a, NEW b,
         HasRole(in, s, a, i, n), HasRole(in, s, b, i, n)
  PROVE  a = b
<1>1. DOMAIN RoleOrder(s) = 1 .. 6
  BY DEF RoleOrder, SUPPORTED_ROLE_ORDER, TARGET_ROLE_ORDER
<1>2. PICK j \in 1 .. 6 :
        /\ RoleOrder(s)[j] = a /\ Contains(in, s, a, i, n)
        /\ \A l \in 1 .. j - 1 : ~Contains(in, s, RoleOrder(s)[l], i, n)
  BY <1>1 DEF HasRole
<1>3. PICK k \in 1 .. 6 :
        /\ RoleOrder(s)[k] = b /\ Contains(in, s, b, i, n)
        /\ \A l \in 1 .. k - 1 : ~Contains(in, s, RoleOrder(s)[l], i, n)
  BY <1>1 DEF HasRole
<1>4. ~(j < k) /\ ~(k < j)
  <2>1. j < k => j \in 1 .. k - 1
    OBVIOUS
  <2>2. k < j => k \in 1 .. j - 1
    OBVIOUS
  <2> QED BY <1>2, <1>3, <2>1, <2>2
<1> QED BY <1>2, <1>3, <1>4

\* A kept row is one of the rows that were assigned its role.
LEMMA RowsHaveTheRole ==
  ASSUME NEW v, NEW in, NEW row \in RowsOf(v, in)
  PROVE  LET file == FileOf[in.raw][StreamOf[v]]
         IN /\ file # NoFile /\ row[1] = file
            /\ HasRole(in, StreamOf[v], RoleOf[v], row[2], LengthOf[file])
BY DEF RowsOf, Sampled

\* Views of one preparation with different roles share no row.
LEMMA RolesAreDisjoint ==
  ASSUME NEW in \in Inputs, NEW v \in Views, NEW w \in Views, RoleOf[v] # RoleOf[w]
  PROVE  RowsOf(v, in) \cap RowsOf(w, in) = {}
<1> SUFFICES ASSUME NEW row \in RowsOf(v, in), row \in RowsOf(w, in) PROVE FALSE
  OBVIOUS
<1>1. in.raw \in Raws /\ StreamOf[v] \in Streams /\ StreamOf[w] \in Streams
  BY SplitAssumption DEF Inputs
<1>2. FileOf[in.raw][StreamOf[v]] = FileOf[in.raw][StreamOf[w]]
      /\ FileOf[in.raw][StreamOf[v]] # NoFile
  BY RowsHaveTheRole
<1>3. StreamOf[v] = StreamOf[w]
  BY <1>1, <1>2, SplitAssumption
<1> QED BY <1>3, RowsHaveTheRole, OneRole

\* The rows of a view depend on its own file and on the scope.
LEMMA RowsOfFile ==
  ASSUME NEW v, NEW a, NEW b, a.scope = b.scope,
         FileOf[a.raw][StreamOf[v]] = FileOf[b.raw][StreamOf[v]]
  PROVE  RowsOf(v, a) = RowsOf(v, b)
<1>1. \A role, i, n : HasRole(a, StreamOf[v], role, i, n) <=> HasRole(b, StreamOf[v], role, i, n)
  BY DEF HasRole, Contains
<1>2. \A rows : Sampled(a, v, rows) = Sampled(b, v, rows)
  BY DEF Sampled
<1> QED BY <1>1, <1>2 DEF RowsOf

\* A view that has rows of a file has rows of it under every configuration,
\* and so is a view of every version of the raw files with that file.
LEMMA SameFileSameViews ==
  ASSUME NEW a \in Inputs, NEW b \in Inputs, NEW w \in Views, RowsOf(w, a) # {},
         FileOf[a.raw][StreamOf[w]] = FileOf[b.raw][StreamOf[w]]
  PROVE  w \in ViewsOf[b.raw]
<1> DEFINE c == [raw |-> b.raw, scope |-> a.scope, scaling |-> a.scaling]
<1>1. c \in Inputs /\ c.raw = b.raw /\ c.scope = a.scope
  BY DEF Inputs
<1>2. RowsOf(w, c) = RowsOf(w, a)
  BY <1>1, RowsOfFile
<1> QED BY <1>1, <1>2, ContentAssumption

\* A current artifact was published for some inputs.
Named == \A s \in Slots : current[s] # Nothing => \E in \in Inputs : current[s] = Identity(in)

LEMMA NamedStep ==
  ASSUME IInv, Named, [Next]_vars
  PROVE  Named'
<1>1. ASSUME UNCHANGED <<dataset, current>> PROVE Named'
  BY <1>1 DEF Named, Identity
<1>2. ASSUME NEW s \in Slots, NEW payload, job.in \in Inputs,
             Publish(s, Identity(job.in), payload), dataset' = dataset
      PROVE  Named'
  <2>1. current' \in [Slots -> Identities \union {Nothing}]
    BY <1>2, IdentityType DEF Publish, IInv, Base, TypeOK
  <2>2. /\ current'[s] \in {Identity(job.in), current[s], Nothing}
        /\ \A t \in Slots : t # s => current'[t] = current[t]
    BY <1>2 DEF Publish, IInv, Base, TypeOK
  <2> QED BY <1>2, <2>2 DEF Named, Identity
<1>3. ASSUME NEW v \in Views, PublishView(v) PROVE Named'
  <2>1. job.in \in Inputs
    BY <1>3 DEF PublishView, IInv, Base, JobInv, At
  <2> QED BY <1>2, <1>3, <2>1, SlotsContain DEF PublishView
<1>4. CASE PublishScaler
  <2>1. job.in \in Inputs
    BY <1>4 DEF PublishScaler, IInv, Base, JobInv, At
  <2> QED BY <1>2, <1>4, <2>1, SlotsContain DEF PublishScaler
<1> QED
  <2>1. \/ \E v \in Views : PublishView(v)
        \/ PublishScaler
        \/ UNCHANGED <<dataset, current>>
    BY DEF Next, Advance, WriteView, vars, store, Begin, PublishDatasetManifest,
       PublishRawIdentity, DecideReuse, TakeView, CopyView, OpenSidecar, DescribeView,
       EndViews, PublishRoles, EndPublish, Stop, ChangeInputs
  <2> QED BY <1>1, <1>3, <1>4, <2>1

\* Whatever the scaling, a content has the rows and the moments of its inputs.
LEMMA MadeRows ==
  ASSUME NEW in \in Inputs, NEW v \in Views, NEW content \in Made(v, in)
  PROVE  content.rows = RowsOf(v, in) /\ content.moments = TrainingRows(in)
<1>1. PICK other \in Alike(in) : content = ViewContent(v, other)
  BY ContentAssumption DEF Made, Alike
<1>2. \A w : RowsOf(w, other) = RowsOf(w, in)
  BY RowsOfFile DEF Alike
<1> QED BY <1>1, <1>2 DEF ViewContent, TrainingRows

\* A view that its consumers accept has the rows of the inputs that its
\* artifact names.
LEMMA ValidViews ==
  ASSUME IInv, Named, NEW w \in Views, Valid(w)
  PROVE  \E in \in Inputs : parquet[w].rows = RowsOf(w, in)
<1>1. w \in Slots
  BY SlotsContain
<1>2. PICK in \in Inputs : current[w] = Identity(in)
  BY <1>1 DEF Named, Valid
<1>3. parquet[w] \in Made(w, in)
  BY <1>1, <1>2 DEF IInv, StoreInv, Activated, ContentOfIdentity, Valid
<1> QED BY <1>2, <1>3, MadeRows

\* The rows and the moments of a completed preparation.
LEMMA SettledContent ==
  ASSUME IInv, clean, NEW v \in ViewsOf[settled.raw]
  PROVE  /\ v \in Views /\ settled \in Inputs
         /\ parquet[v].rows = RowsOf(v, settled)
         /\ parquet[v].moments = TrainingRows(settled)
BY Completed, MadeRows

\* Training rows and evidence rows are kept apart, on the whole disk, and the
\* scaler is fitted to rows of the first kind only.
THEOREM EvidenceStaysUnseen == Spec => []EvidenceIsUnseen
<1>1. Init => Named
  BY DEF Init, Named
<1>2. IInv /\ Named /\ [Next]_vars => Named'
  BY NamedStep
<1>3. IInv /\ Named => EvidenceIsUnseen
  <2> SUFFICES ASSUME IInv, Named, clean, NEW v \in ViewsOf[settled.raw]
               PROVE  /\ \A w \in Comparable :
                           Valid(w) /\ Trains(v) # Trains(w)
                             => parquet[v].rows \cap parquet[w].rows = {}
                      /\ parquet[v].moments =
                           UNION {parquet[w].rows :
                                    w \in {x \in ViewsOf[settled.raw] : FitsScaler(x)}}
    BY DEF EvidenceIsUnseen
  <2>1. /\ v \in Views /\ settled \in Inputs
        /\ parquet[v].rows = RowsOf(v, settled) /\ parquet[v].moments = TrainingRows(settled)
    BY SettledContent
  <2>2. ViewsOf[settled.raw] = {x \in Views : RowsOf(x, settled) # {}}
    BY <2>1, ContentAssumption
  <2>3. ASSUME NEW w \in Comparable, Valid(w), Trains(v) # Trains(w)
        PROVE  parquet[v].rows \cap parquet[w].rows = {}
    <3>1. w \in Views /\ RoleOf[v] # RoleOf[w]
      BY <2>2, <2>3 DEF Comparable, Trains
    <3>2. CASE w \in ViewsOf[settled.raw]
      <4>1. parquet[w].rows = RowsOf(w, settled)
        BY <3>2, SettledContent
      <4> QED BY <2>1, <3>1, <4>1, RolesAreDisjoint
    <3>3. CASE w \notin ViewsOf[settled.raw]
      <4>1. PICK in \in Inputs : parquet[w].rows = RowsOf(w, in)
        BY <2>3, <3>1, ValidViews
      <4>2. SUFFICES ASSUME NEW row \in RowsOf(v, settled), row \in RowsOf(w, in)
                     PROVE  FALSE
        BY <2>1, <4>1
      <4>3. /\ FileOf[in.raw][StreamOf[w]] = FileOf[settled.raw][StreamOf[v]]
            /\ FileOf[in.raw][StreamOf[w]] # NoFile
        BY <4>2, RowsHaveTheRole
      <4>4. /\ in.raw \in Raws /\ settled.raw \in Raws
            /\ StreamOf[v] \in Streams /\ StreamOf[w] \in Streams
        BY <2>1, <3>1, SplitAssumption DEF Inputs
      <4>5. StreamOf[v] = StreamOf[w]
        BY <4>3, <4>4, SplitAssumption
      <4> QED BY <2>1, <3>1, <3>3, <4>2, <4>3, <4>5, SameFileSameViews
    <3> QED BY <3>2, <3>3
  <2>4. parquet[v].moments =
          UNION {parquet[w].rows : w \in {x \in ViewsOf[settled.raw] : FitsScaler(x)}}
    <3>1. \A w \in ViewsOf[settled.raw] : parquet[w].rows = RowsOf(w, settled)
      BY SettledContent
    <3>2. \A w \in Views \ ViewsOf[settled.raw] : RowsOf(w, settled) = {}
      BY <2>2
    <3>3. TrainingRows(settled) =
            UNION {parquet[w].rows : w \in {x \in ViewsOf[settled.raw] : FitsScaler(x)}}
      BY <2>2, <3>1, <3>2 DEF TrainingRows
    <3> QED BY <2>1, <3>3
  <2> QED BY <2>3, <2>4
<1> QED BY <1>1, <1>2, <1>3, Invariance, PTL DEF Spec

===============================================================================
