--------------------------- MODULE ArtifactStore ---------------------------
(***************************************************************************)
(* One artifact slot of src/fedsira/artifacts/store.py as the processes    *)
(* that share the execution workspace see it.  A slot directory holds, for *)
(* every artifact identity, a payload file and a manifest file, and one    *)
(* current.json naming the current identity.  publish_artifact and         *)
(* read_current_artifact touch these files one at a time; each file is     *)
(* replaced atomically, the sequence is not.                               *)
(*                                                                         *)
(* A checksum is the payload it was computed from (SHA-256 is injective on *)
(* the payloads of a model).  Only Complete manifests reach the disk, so a *)
(* manifest file is the checksum it records.                               *)
(***************************************************************************)
EXTENDS Naturals

CONSTANTS
  Identities,      \* values of artifact_identity for the slot
  Payloads,        \* payload contents
  Outputs,         \* Outputs[i]: what a producer of identity i may compute
  Publishers,      \* processes that call publish_artifact
  Readers,         \* processes that call read_current_artifact
  MaxCorruptions,  \* bound on payload files damaged outside the program
  NoIdentity,
  NoPayload,
  Damaged          \* contents of a payload file nobody produced

ASSUME OutputsAssumption ==
  /\ Outputs \in [Identities -> SUBSET Payloads]
  /\ MaxCorruptions \in Nat
  /\ NoIdentity \notin Identities
  /\ NoPayload \notin Payloads
  /\ Damaged \notin Payloads \union {NoPayload}

VARIABLES
  payloadFile,     \* <identity>.artifact.bin
  manifestFile,    \* the checksum in <identity>.manifest.json
  current,         \* the identity in current.json
  publisher,       \* per process: the publish_artifact call in progress
  reader,          \* per process: the read_current_artifact call in progress
  corruptions,     \* payload files damaged so far
  contended        \* history: identities for which calls with different
                   \* payloads have overlapped

vars == <<payloadFile, manifestFile, current, publisher, reader, corruptions,
          contended>>
disk == <<payloadFile, manifestFile, current>>

PublisherSteps ==
  {"idle", "manifest", "payload", "existing", "reuse", "retire", "unlink",
   "replace", "complete", "activate"}

ReaderSteps ==
  {"idle", "pointer", "manifest", "validate", "payload",
   "absent", "returned", "failed"}

IdlePublisher ==
  [step |-> "idle", identity |-> NoIdentity, payload |-> NoPayload,
   checksum |-> NoPayload]

IdleReader ==
  [step |-> "idle", identity |-> NoIdentity, manifest |-> NoPayload,
   checksum |-> NoPayload, payload |-> NoPayload]

\* is_artifact_complete_and_valid of an undisturbed disk.
CompleteAndValid(i) ==
  /\ manifestFile[i] # NoPayload
  /\ payloadFile[i] = manifestFile[i]

Init ==
  /\ payloadFile = [i \in Identities |-> NoPayload]
  /\ manifestFile = [i \in Identities |-> NoPayload]
  /\ current = NoIdentity
  /\ publisher = [p \in Publishers |-> IdlePublisher]
  /\ reader = [r \in Readers |-> IdleReader]
  /\ corruptions = 0
  /\ contended = {}

-----------------------------------------------------------------------------
(* publish_artifact                                                        *)

At(p, step) == publisher[p].step = step

Goto(p, step) == publisher' = [publisher EXCEPT ![p].step = step]

Finish(p) == publisher' = [publisher EXCEPT ![p] = IdlePublisher]

\* A call in progress publishes another payload than v under identity i.
Disagrees(i, v) ==
  \E q \in Publishers :
    ~At(q, "idle") /\ publisher[q].identity = i /\ publisher[q].payload # v

\* A producer computed a payload for identity i and calls publish_artifact,
\* which no lock keeps from overlapping a call that is in progress.
BeginPublication(p, i, v) ==
  /\ At(p, "idle")
  /\ v \in Outputs[i]
  /\ publisher' = [publisher EXCEPT
       ![p] = [step |-> "manifest", identity |-> i, payload |-> v,
               checksum |-> NoPayload]]
  /\ contended' = contended \union {j \in {i} : Disagrees(i, v)}
  /\ UNCHANGED <<disk, reader, corruptions>>

\* Mutant: the manifest is published although the payload never was.
MUTManifestOnly(p) ==
  /\ At(p, "manifest")
  /\ LET found == manifestFile[publisher[p].identity] IN
     publisher' = [publisher EXCEPT
       ![p].checksum = found,
       ![p].step = IF found = NoPayload THEN "complete" ELSE "payload"]
  /\ UNCHANGED <<disk, reader, corruptions, contended>>

\* Mutant: no test for an existing artifact.
MUTNeverReuse(p) ==
  /\ At(p, "manifest")
  /\ Goto(p, "replace")
  /\ UNCHANGED <<disk, reader, corruptions, contended>>

\* is_artifact_complete_and_valid reads the manifest ...
CheckManifest(p) ==
  /\ At(p, "manifest")
  /\ LET found == manifestFile[publisher[p].identity] IN
     publisher' = [publisher EXCEPT
       ![p].checksum = found,
       ![p].step = IF found = NoPayload THEN "replace" ELSE "payload"]
  /\ UNCHANGED <<disk, reader, corruptions, contended>>

\* ... and then the payload file, which it compares with that checksum.
CheckPayload(p) ==
  /\ At(p, "payload")
  /\ Goto(p, IF payloadFile[publisher[p].identity] = publisher[p].checksum
             THEN "existing" ELSE "replace")
  /\ UNCHANGED <<disk, reader, corruptions, contended>>

\* The manifest is read once more and decides between reuse and rejection.
CompareExisting(p) ==
  /\ At(p, "existing")
  /\ LET found == manifestFile[publisher[p].identity] IN
     Goto(p, CASE found = publisher[p].payload -> "reuse"
               [] found = NoPayload -> "replace"
               [] OTHER -> "retire")
  /\ UNCHANGED <<disk, reader, corruptions, contended>>

\* Reused: the pointer is rewritten to the artifact that is already there.
Reuse(p) ==
  /\ At(p, "reuse")
  /\ current' = publisher[p].identity
  /\ Finish(p)
  /\ UNCHANGED <<payloadFile, manifestFile, reader, corruptions, contended>>

\* Rejected: _retire_current_pointer reads the pointer ...
InspectPointer(p) ==
  /\ At(p, "retire")
  /\ IF current = publisher[p].identity THEN Goto(p, "unlink") ELSE Finish(p)
  /\ UNCHANGED <<disk, reader, corruptions, contended>>

\* ... and unlinks the file; unlinking a missing file raises and ends the
\* call with the same disk.
UnlinkPointer(p) ==
  /\ At(p, "unlink")
  /\ current' = NoIdentity
  /\ Finish(p)
  /\ UNCHANGED <<payloadFile, manifestFile, reader, corruptions, contended>>

\* Mutant: current.json is written before the manifest.
MUTPointerFirst(p) ==
  /\ At(p, "replace")
  /\ payloadFile' = [payloadFile EXCEPT
       ![publisher[p].identity] = publisher[p].payload]
  /\ current' = publisher[p].identity
  /\ Goto(p, "complete")
  /\ UNCHANGED <<manifestFile, reader, corruptions, contended>>

\* publish_artifact_to_disk, first file: the staged payload, whose name no
\* other process shares, takes the place of the payload file.
ReplacePayload(p) ==
  /\ At(p, "replace")
  /\ payloadFile' = [payloadFile EXCEPT
       ![publisher[p].identity] = publisher[p].payload]
  /\ Goto(p, "complete")
  /\ UNCHANGED <<manifestFile, current, reader, corruptions, contended>>

\* Second file: the manifest, with lifecycle state Complete.
WriteManifest(p) ==
  /\ At(p, "complete")
  /\ manifestFile' = [manifestFile EXCEPT
       ![publisher[p].identity] = publisher[p].payload]
  /\ Goto(p, "activate")
  /\ UNCHANGED <<payloadFile, current, reader, corruptions, contended>>

\* Third file: current.json.
WritePointer(p) ==
  /\ At(p, "activate")
  /\ current' = publisher[p].identity
  /\ Finish(p)
  /\ UNCHANGED <<payloadFile, manifestFile, reader, corruptions, contended>>

\* The process dies between two files; what it staged is never looked at.
Crash(p) ==
  /\ ~At(p, "idle")
  /\ Finish(p)
  /\ UNCHANGED <<disk, reader, corruptions, contended>>

-----------------------------------------------------------------------------
(* read_current_artifact                                                   *)

ReaderAt(r, step) == reader[r].step = step

BeginRead(r) ==
  /\ ReaderAt(r, "idle")
  /\ reader' = [reader EXCEPT
       ![r].step = IF current = NoIdentity THEN "absent" ELSE "pointer"]
  /\ UNCHANGED <<disk, publisher, corruptions, contended>>

\* A pointer unlinked since the existence test makes the read raise.
ReadPointer(r) ==
  /\ ReaderAt(r, "pointer")
  /\ reader' = [reader EXCEPT
       ![r].identity = current,
       ![r].step = IF current = NoIdentity THEN "failed" ELSE "manifest"]
  /\ UNCHANGED <<disk, publisher, corruptions, contended>>

ReadManifest(r) ==
  /\ ReaderAt(r, "manifest")
  /\ LET found == manifestFile[reader[r].identity] IN
     reader' = [reader EXCEPT
       ![r].manifest = found,
       ![r].step = IF found = NoPayload THEN "absent" ELSE "validate"]
  /\ UNCHANGED <<disk, publisher, corruptions, contended>>

\* read_validated_artifact_payload reads the manifest again ...
ReadManifestAgain(r) ==
  /\ ReaderAt(r, "validate")
  /\ LET found == manifestFile[reader[r].identity] IN
     reader' = [reader EXCEPT
       ![r].checksum = found,
       ![r].step = IF found = NoPayload THEN "failed" ELSE "payload"]
  /\ UNCHANGED <<disk, publisher, corruptions, contended>>

\* Mutant: the checksum of the payload is not verified.
MUTUnverifiedPayload(r) ==
  /\ ReaderAt(r, "payload")
  /\ reader' = [reader EXCEPT
       ![r].payload = payloadFile[reader[r].identity],
       ![r].step = "returned"]
  /\ UNCHANGED <<disk, publisher, corruptions, contended>>

\* ... and verifies the payload's checksum against that second manifest.
ReadPayload(r) ==
  /\ ReaderAt(r, "payload")
  /\ LET found == payloadFile[reader[r].identity] IN
     reader' = [reader EXCEPT
       ![r].payload = found,
       ![r].step = IF found = reader[r].checksum THEN "returned" ELSE "failed"]
  /\ UNCHANGED <<disk, publisher, corruptions, contended>>

EndRead(r) ==
  /\ reader[r].step \in {"absent", "returned", "failed"}
  /\ reader' = [reader EXCEPT ![r] = IdleReader]
  /\ UNCHANGED <<disk, publisher, corruptions, contended>>

-----------------------------------------------------------------------------
\* A payload file is damaged by something other than the program.
Corrupt(i) ==
  /\ corruptions < MaxCorruptions
  /\ payloadFile[i] # NoPayload
  /\ payloadFile' = [payloadFile EXCEPT ![i] = Damaged]
  /\ corruptions' = corruptions + 1
  /\ UNCHANGED <<manifestFile, current, publisher, reader, contended>>

PublisherStep(p) ==
  \/ \E i \in Identities, v \in Payloads : BeginPublication(p, i, v)
  \/ CheckManifest(p)
  \/ CheckPayload(p)
  \/ CompareExisting(p)
  \/ Reuse(p)
  \/ InspectPointer(p)
  \/ UnlinkPointer(p)
  \/ ReplacePayload(p)
  \/ WriteManifest(p)
  \/ WritePointer(p)
  \/ Crash(p)

ReaderStep(r) ==
  \/ BeginRead(r)
  \/ ReadPointer(r)
  \/ ReadManifest(r)
  \/ ReadManifestAgain(r)
  \/ ReadPayload(r)
  \/ EndRead(r)

Next ==
  \/ \E p \in Publishers : PublisherStep(p)
  \/ \E r \in Readers : ReaderStep(r)
  \/ \E i \in Identities : Corrupt(i)

Spec == Init /\ [][Next]_vars

-----------------------------------------------------------------------------
(* Properties                                                              *)

PublisherRecord ==
  [step : PublisherSteps, identity : Identities \union {NoIdentity},
   payload : Payloads \union {NoPayload},
   checksum : Payloads \union {NoPayload}]

ReaderRecord ==
  [step : ReaderSteps, identity : Identities \union {NoIdentity},
   manifest : Payloads \union {NoPayload},
   checksum : Payloads \union {NoPayload},
   payload : Payloads \union {NoPayload, Damaged}]

\* Every file holds what store.py can write there (or damage), and a
\* manifest is never the checksum of a damaged payload.
TypeOK ==
  /\ payloadFile \in [Identities -> Payloads \union {NoPayload, Damaged}]
  /\ manifestFile \in [Identities -> Payloads \union {NoPayload}]
  /\ current \in Identities \union {NoIdentity}
  /\ publisher \in [Publishers -> PublisherRecord]
  /\ reader \in [Readers -> ReaderRecord]
  /\ corruptions \in Nat
  /\ contended \subseteq Identities

\* The disk as a slot of the abstract store: an identity holds a payload
\* exactly when is_artifact_complete_and_valid accepts it.
Slot == INSTANCE PublicationSlot WITH
  contents <- [i \in Identities |->
                 IF CompleteAndValid(i) THEN payloadFile[i] ELSE NoPayload],
  active <- current,
  damages <- corruptions,
  contested <- contended

\* Publishing writes once: an artifact that was readable keeps its bytes
\* through every crash, later conflicting recomputation, reuse and publication
\* of the same bytes beside it, until its payload is damaged or calls with
\* different payloads have overlapped on its identity; and current.json only
\* ever moves to a readable artifact until one of the two happens.
ImplementsSlot == Slot!Spec

Undamaged == corruptions = 0

\* Whenever current.json names an identity of an undamaged store, its manifest
\* and its payload are there and agree, so that a reader that is not disturbed
\* obtains the payload, whatever interleaved on other identities and whoever
\* published the same bytes at once. Calls with different payloads that
\* overlapped on this identity may have left the manifest of one beside the
\* payload of the other.
CurrentIsComplete ==
  Undamaged /\ current \notin contended \union {NoIdentity}
    => CompleteAndValid(current)

\* read_current_artifact returns the manifest of its first read with a
\* payload checked against its second: the two are about the same bytes, as
\* long as neither damage nor overlapping calls that disagree made a
\* publication replace an artifact.
ReturnedPairAgrees ==
  Undamaged =>
    \A r \in Readers :
      ReaderAt(r, "returned") /\ reader[r].identity \notin contended
        => reader[r].manifest = reader[r].payload

\* A reader beside running publishers obtains nothing or a payload: it never
\* raises because it met a slot halfway through a publication or a repair,
\* only because current.json was withdrawn under its existence test, a
\* payload was damaged, or overlapping calls disagreed on what it reads.
ReadsFailOnlyOnWithdrawal ==
  Undamaged =>
    \A r \in Readers :
      ReaderAt(r, "failed") => reader[r].identity \in contended \union {NoIdentity}

\* Both of a reader beside running publishers: one artifact or nothing, unless
\* calls disagreed on it.
ReadersSeeOneArtifact == ReturnedPairAgrees /\ ReadsFailOnlyOnWithdrawal

\* Bytes handed to a consumer were computed by the identity's own
\* procedure, even when payload files are damaged while they are read,
\* republished and reused.
ReturnedWasProduced ==
  \A r \in Readers :
    ReaderAt(r, "returned") => reader[r].payload \in Outputs[reader[r].identity]

=============================================================================
