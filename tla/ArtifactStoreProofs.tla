------------------------ MODULE ArtifactStoreProofs ------------------------
(***************************************************************************)
(* What ArtifactStore does for every set of identities, payloads,          *)
(* publishers and readers; and, one publication being one step, what the   *)
(* experiment runs of EvidencePublication leave in the store.              *)
(***************************************************************************)
EXTENDS ArtifactStore, EvidencePublication, Integers, FiniteSetTheorems, WellFoundedInduction, TLAPS

\* A call in progress has an identity and a payload of that identity.
PublisherBusy ==
  \A p \in Publishers :
    ~At(p, "idle") => /\ publisher[p].identity \in Identities
                      /\ publisher[p].payload \in Outputs[publisher[p].identity]

\* A read that got past the pointer knows which identity it reads.
ReaderBusy ==
  \A r \in Readers :
    reader[r].step \in {"manifest", "validate", "payload", "returned"}
      => reader[r].identity \in Identities

TInv == TypeOK /\ PublisherBusy /\ ReaderBusy

\* The types and the identities of the calls hold of an empty slot.
THEOREM TypeInit == Init => TInv
<1> SUFFICES ASSUME Init PROVE TInv
    OBVIOUS
<1> USE OutputsAssumption DEF Init, IdlePublisher, IdleReader
<1>1. TypeOK
  BY DEF TypeOK, PublisherRecord, ReaderRecord, PublisherSteps, ReaderSteps
<1>2. PublisherBusy
  BY DEF PublisherBusy, At
<1>3. ReaderBusy
  BY DEF ReaderBusy
<1> QED BY <1>1, <1>2, <1>3 DEF TInv

\* No step of publish_artifact, a crash included, breaks a type or loses the
\* identity of a call in progress.
LEMMA PublisherKeepsTypes ==
  ASSUME TInv, NEW p \in Publishers, PublisherStep(p)
  PROVE  TInv'
<1> USE OutputsAssumption
<1> DEFINE pub == publisher[p]
<1>a. /\ pub \in PublisherRecord
      /\ ~At(p, "idle") => pub.identity \in Identities /\ pub.payload \in Payloads
  BY DEF TInv, TypeOK, PublisherBusy, PublisherRecord
<1>b. CASE Finish(p) /\ UNCHANGED <<reader, corruptions, contended, payloadFile, manifestFile>>
           /\ current' \in Identities \union {NoIdentity}
  <2>1. TypeOK'
    BY <1>b DEF Finish, TInv, TypeOK, PublisherRecord, IdlePublisher, PublisherSteps
  <2>2. PublisherBusy'
    BY <1>b DEF Finish, TInv, TypeOK, PublisherBusy, IdlePublisher, At
  <2>3. ReaderBusy'
    BY <1>b DEF TInv, ReaderBusy
  <2> QED BY <2>1, <2>2, <2>3 DEF TInv
<1>c. ASSUME ~At(p, "idle"),
             NEW s \in PublisherSteps \ {"idle"},
             NEW c \in Payloads \union {NoPayload},
             publisher' = [publisher EXCEPT ![p].step = s, ![p].checksum = c],
             UNCHANGED <<current, reader, corruptions, contended>>,
             payloadFile' \in [Identities -> Payloads \union {NoPayload, Damaged}],
             manifestFile' \in [Identities -> Payloads \union {NoPayload}]
      PROVE  TInv'
  <2>a. [pub EXCEPT !.step = s, !.checksum = c] \in PublisherRecord
    BY <1>a DEF PublisherRecord
  <2>b. publisher' = [publisher EXCEPT ![p] = [pub EXCEPT !.step = s, !.checksum = c]]
    BY <1>c
  <2>1. TypeOK'
    BY <1>c, <2>a, <2>b DEF TInv, TypeOK
  <2>2. PublisherBusy'
    BY <1>c DEF TInv, TypeOK, PublisherBusy, PublisherRecord, At
  <2>3. ReaderBusy'
    BY <1>c DEF TInv, ReaderBusy
  <2> QED BY <2>1, <2>2, <2>3 DEF TInv
<1>d. ASSUME ~At(p, "idle"),
             NEW s \in PublisherSteps \ {"idle"},
             Goto(p, s),
             UNCHANGED <<current, reader, corruptions, contended>>,
             payloadFile' \in [Identities -> Payloads \union {NoPayload, Damaged}],
             manifestFile' \in [Identities -> Payloads \union {NoPayload}]
      PROVE  TInv'
  <2>1. TypeOK'
    BY <1>d DEF TInv, TypeOK, PublisherRecord, PublisherSteps, Goto
  <2>2. PublisherBusy'
    BY <1>d DEF TInv, TypeOK, PublisherBusy, PublisherRecord, At, Goto
  <2>3. ReaderBusy'
    BY <1>d DEF TInv, ReaderBusy
  <2> QED BY <2>1, <2>2, <2>3 DEF TInv
<1>1. ASSUME NEW i \in Identities, NEW v \in Payloads, BeginPublication(p, i, v)
      PROVE  TInv'
  <2>1. TypeOK'
    BY <1>1 DEF BeginPublication, TInv, TypeOK, PublisherRecord, PublisherSteps, disk
  <2>2. PublisherBusy'
    BY <1>1 DEF BeginPublication, TInv, TypeOK, PublisherBusy, At, disk
  <2>3. ReaderBusy'
    BY <1>1 DEF BeginPublication, TInv, ReaderBusy, disk
  <2> QED BY <2>1, <2>2, <2>3 DEF TInv
<1>2. CASE CheckManifest(p)
  <2> DEFINE found == manifestFile[pub.identity]
             s == IF found = NoPayload THEN "replace" ELSE "payload"
  <2>1. ~At(p, "idle")
    BY <1>2 DEF CheckManifest, At
  <2>2. found \in Payloads \union {NoPayload}
    BY <2>1, <1>a DEF TInv, TypeOK
  <2>3. s \in PublisherSteps \ {"idle"}
    BY DEF PublisherSteps
  <2>4. publisher' = [publisher EXCEPT ![p].step = s, ![p].checksum = found]
    BY <1>2 DEF CheckManifest, TInv, TypeOK, PublisherRecord
  <2> QED BY <1>2, <2>1, <2>2, <2>3, <2>4, <1>c DEF CheckManifest, disk, TInv, TypeOK
<1>3. CASE CheckPayload(p)
  BY <1>3, <1>d DEF CheckPayload, disk, TInv, TypeOK, At, PublisherSteps
<1>4. CASE CompareExisting(p)
  BY <1>4, <1>d DEF CompareExisting, disk, TInv, TypeOK, At, PublisherSteps
<1>5. CASE Reuse(p)
  BY <1>5, <1>a, <1>b DEF Reuse, At
<1>6. CASE InspectPointer(p)
  BY <1>6, <1>b, <1>d DEF InspectPointer, disk, TInv, TypeOK, At, PublisherSteps
<1>7. CASE UnlinkPointer(p)
  BY <1>7, <1>b DEF UnlinkPointer
<1>8. CASE ReplacePayload(p)
  <2>1. payloadFile' \in [Identities -> Payloads \union {NoPayload, Damaged}]
    BY <1>8, <1>a DEF ReplacePayload, TInv, TypeOK, At
  <2> QED BY <1>8, <2>1, <1>d DEF ReplacePayload, TInv, TypeOK, At, PublisherSteps
<1>9. CASE WriteManifest(p)
  <2>1. manifestFile' \in [Identities -> Payloads \union {NoPayload}]
    BY <1>9, <1>a DEF WriteManifest, TInv, TypeOK, At
  <2> QED BY <1>9, <2>1, <1>d DEF WriteManifest, TInv, TypeOK, At, PublisherSteps
<1>10. CASE WritePointer(p)
  BY <1>10, <1>a, <1>b DEF WritePointer, At
<1>11. CASE Crash(p)
  BY <1>11, <1>b DEF Crash, disk, TInv, TypeOK
<1> QED BY <1>1, <1>2, <1>3, <1>4, <1>5, <1>6, <1>7, <1>8, <1>9, <1>10, <1>11
        DEF PublisherStep

\* No step of read_current_artifact does.
LEMMA ReaderKeepsTypes ==
  ASSUME TInv, NEW r \in Readers, ReaderStep(r)
  PROVE  TInv'
<1> USE OutputsAssumption
<1> DEFINE rd == reader[r]
<1>a. rd \in ReaderRecord
  BY DEF TInv, TypeOK
<1>b. ASSUME NEW record \in ReaderRecord,
             record.step \in {"manifest", "validate", "payload", "returned"}
               => record.identity \in Identities,
             reader' = [reader EXCEPT ![r] = record],
             UNCHANGED <<disk, publisher, corruptions, contended>>
      PROVE  TInv'
  <2>1. TypeOK'
    BY <1>b DEF TInv, TypeOK, disk
  <2>2. PublisherBusy'
    BY <1>b DEF TInv, PublisherBusy, At
  <2>3. ReaderBusy'
    BY <1>b DEF TInv, TypeOK, ReaderBusy
  <2> QED BY <2>1, <2>2, <2>3 DEF TInv
<1>1. CASE BeginRead(r)
  <2> DEFINE record == [rd EXCEPT
        !.step = IF current = NoIdentity THEN "absent" ELSE "pointer"]
  <2>1. record \in ReaderRecord
    BY <1>a DEF ReaderRecord, ReaderSteps
  <2>2. record.step \notin {"manifest", "validate", "payload", "returned"}
    BY <1>a DEF ReaderRecord
  <2>3. reader' = [reader EXCEPT ![r] = record]
    BY <1>1 DEF BeginRead
  <2> QED BY <1>1, <1>b, <2>1, <2>2, <2>3 DEF BeginRead
<1>2. CASE ReadPointer(r)
  <2> DEFINE record == [rd EXCEPT
        !.identity = current,
        !.step = IF current = NoIdentity THEN "failed" ELSE "manifest"]
  <2>1. record \in ReaderRecord
    BY <1>a DEF ReaderRecord, ReaderSteps, TInv, TypeOK
  <2>2. record.step \in {"manifest", "validate", "payload", "returned"}
          => record.identity \in Identities
    BY <1>a DEF ReaderRecord, TInv, TypeOK
  <2>3. reader' = [reader EXCEPT ![r] = record]
    BY <1>2 DEF ReadPointer
  <2> QED BY <1>2, <1>b, <2>1, <2>2, <2>3 DEF ReadPointer
<1>3. CASE ReadManifest(r)
  <2> DEFINE found == manifestFile[rd.identity]
             record == [rd EXCEPT
        !.manifest = found,
        !.step = IF found = NoPayload THEN "absent" ELSE "validate"]
  <2>0. rd.identity \in Identities
    BY <1>3 DEF ReadManifest, ReaderAt, TInv, ReaderBusy
  <2>1. record \in ReaderRecord
    BY <1>a, <2>0 DEF ReaderRecord, ReaderSteps, TInv, TypeOK
  <2>2. record.identity \in Identities
    BY <1>a, <2>0 DEF ReaderRecord
  <2>3. reader' = [reader EXCEPT ![r] = record]
    BY <1>3 DEF ReadManifest
  <2> QED BY <1>3, <1>b, <2>1, <2>2, <2>3 DEF ReadManifest
<1>4. CASE ReadManifestAgain(r)
  <2> DEFINE found == manifestFile[rd.identity]
             record == [rd EXCEPT
        !.checksum = found,
        !.step = IF found = NoPayload THEN "failed" ELSE "payload"]
  <2>0. rd.identity \in Identities
    BY <1>4 DEF ReadManifestAgain, ReaderAt, TInv, ReaderBusy
  <2>1. record \in ReaderRecord
    BY <1>a, <2>0 DEF ReaderRecord, ReaderSteps, TInv, TypeOK
  <2>2. record.identity \in Identities
    BY <1>a, <2>0 DEF ReaderRecord
  <2>3. reader' = [reader EXCEPT ![r] = record]
    BY <1>4 DEF ReadManifestAgain
  <2> QED BY <1>4, <1>b, <2>1, <2>2, <2>3 DEF ReadManifestAgain
<1>5. CASE ReadPayload(r)
  <2> DEFINE found == payloadFile[rd.identity]
             record == [rd EXCEPT
        !.payload = found,
        !.step = IF found = rd.checksum THEN "returned" ELSE "failed"]
  <2>0. rd.identity \in Identities
    BY <1>5 DEF ReadPayload, ReaderAt, TInv, ReaderBusy
  <2>1. record \in ReaderRecord
    BY <1>a, <2>0 DEF ReaderRecord, ReaderSteps, TInv, TypeOK
  <2>2. record.identity \in Identities
    BY <1>a, <2>0 DEF ReaderRecord
  <2>3. reader' = [reader EXCEPT ![r] = record]
    BY <1>5 DEF ReadPayload
  <2> QED BY <1>5, <1>b, <2>1, <2>2, <2>3 DEF ReadPayload
<1>6. CASE EndRead(r)
  <2>1. IdleReader \in ReaderRecord /\ IdleReader.step = "idle"
    BY DEF IdleReader, ReaderRecord, ReaderSteps
  <2> QED BY <1>6, <1>b, <2>1 DEF EndRead
<1> QED BY <1>1, <1>2, <1>3, <1>4, <1>5, <1>6 DEF ReaderStep

\* Neither does damage to a payload file.
LEMMA DamageKeepsTypes ==
  ASSUME TInv, NEW i \in Identities, Corrupt(i)
  PROVE  TInv'
<1>1. TypeOK'
  BY DEF Corrupt, TInv, TypeOK
<1>2. PublisherBusy'
  BY DEF Corrupt, TInv, PublisherBusy, At
<1>3. ReaderBusy'
  BY DEF Corrupt, TInv, ReaderBusy
<1> QED BY <1>1, <1>2, <1>3 DEF TInv

\* Neither does a step that changes nothing.
LEMMA StutterKeepsTypes ==
  ASSUME TInv, UNCHANGED vars
  PROVE  TInv'
  BY DEF vars, TInv, TypeOK, PublisherBusy, ReaderBusy, At

\* The types are inductive over every step of the store.
LEMMA TypeNext == TInv /\ [Next]_vars => TInv'
  BY PublisherKeepsTypes, ReaderKeepsTypes, DamageKeepsTypes, StutterKeepsTypes
     DEF Next

\* The files and the calls keep their types in every behaviour, and no call in
\* progress ever lacks its identity: a manifest is never the checksum of a
\* damaged payload file.
THEOREM TypeCorrect == Spec => []TypeOK
<1>1. TInv => TypeOK
  BY DEF TInv
<1> QED BY TypeInit, TypeNext, <1>1, PTL DEF Spec

-----------------------------------------------------------------------------
(* Bytes handed to a consumer, whatever happens to the payload files       *)

ManifestProduced ==
  \A i \in Identities : manifestFile[i] \in Outputs[i] \union {NoPayload}

ReaderVerified ==
  \A r \in Readers :
    /\ ReaderAt(r, "payload") => reader[r].checksum \in Outputs[reader[r].identity]
    /\ ReaderAt(r, "returned") => reader[r].payload \in Outputs[reader[r].identity]

ProducedInv == TInv /\ ManifestProduced /\ ReaderVerified

\* An empty slot holds no bytes that nobody produced.
THEOREM ProducedInit == Init => ProducedInv
<1> SUFFICES ASSUME Init PROVE ProducedInv
    OBVIOUS
<1> QED BY TypeInit DEF Init, ProducedInv, ManifestProduced, ReaderVerified,
                        ReaderAt, IdleReader

\* Manifests keep recording, and readers keep verifying, produced payloads
\* through every step, damage included.
THEOREM ProducedNext == ProducedInv /\ [Next]_vars => ProducedInv'
<1> SUFFICES ASSUME ProducedInv, [Next]_vars PROVE ProducedInv'
    OBVIOUS
<1> USE OutputsAssumption
<1>1. TInv /\ TInv'
  BY TypeNext DEF ProducedInv
<1>2. CASE UNCHANGED <<manifestFile, reader>>
  BY <1>1, <1>2 DEF ProducedInv, ManifestProduced, ReaderVerified, ReaderAt
<1>3. ASSUME NEW p \in Publishers, WriteManifest(p)
      PROVE  ProducedInv'
  <2>1. /\ publisher[p].identity \in Identities
        /\ publisher[p].payload \in Outputs[publisher[p].identity]
    BY <1>1, <1>3 DEF WriteManifest, TInv, PublisherBusy, At
  <2>2. ManifestProduced'
    BY <1>1, <1>3, <2>1 DEF WriteManifest, ProducedInv, ManifestProduced, TInv, TypeOK
  <2>3. ReaderVerified'
    BY <1>3 DEF WriteManifest, ProducedInv, ReaderVerified, ReaderAt
  <2> QED BY <1>1, <2>2, <2>3 DEF ProducedInv
<1>4. ASSUME NEW r \in Readers, ReaderStep(r)
      PROVE  ProducedInv'
  <2>1. UNCHANGED manifestFile
    BY <1>4 DEF ReaderStep, BeginRead, ReadPointer, ReadManifest,
                ReadManifestAgain, ReadPayload, EndRead, disk
  <2>2. ManifestProduced'
    BY <2>1 DEF ProducedInv, ManifestProduced
  <2>3. ASSUME NEW q \in Readers, q # r
        PROVE  reader'[q] = reader[q]
    BY <1>4, <2>3, <1>1 DEF ReaderStep, BeginRead, ReadPointer, ReadManifest,
                ReadManifestAgain, ReadPayload, EndRead, TInv, TypeOK
  <2>4. ASSUME ReaderAt(r, "payload")'
        PROVE  reader'[r].checksum \in Outputs[reader'[r].identity]
    <3>1. ReadManifestAgain(r)
      BY <1>1, <1>4, <2>4 DEF ReaderStep, BeginRead, ReadPointer, ReadManifest,
           ReadPayload, EndRead, IdleReader, ReaderAt, TInv, TypeOK, ReaderRecord
    <3>2. reader[r].identity \in Identities
      BY <1>1, <3>1 DEF ReadManifestAgain, ReaderAt, TInv, ReaderBusy
    <3>3. manifestFile[reader[r].identity] \in Outputs[reader[r].identity] \union {NoPayload}
      BY <3>2 DEF ProducedInv, ManifestProduced
    <3> QED BY <1>1, <2>4, <3>1, <3>3
            DEF ReadManifestAgain, ReaderAt, TInv, TypeOK, ReaderRecord
  <2>5. ASSUME ReaderAt(r, "returned")'
        PROVE  reader'[r].payload \in Outputs[reader'[r].identity]
    <3>1. ReadPayload(r)
      BY <1>1, <1>4, <2>5 DEF ReaderStep, BeginRead, ReadPointer, ReadManifest,
           ReadManifestAgain, EndRead, IdleReader, ReaderAt, TInv, TypeOK, ReaderRecord
    <3>2. reader[r].checksum \in Outputs[reader[r].identity]
      BY <3>1 DEF ReadPayload, ProducedInv, ReaderVerified
    <3> QED BY <1>1, <2>5, <3>1, <3>2
            DEF ReadPayload, ReaderAt, TInv, TypeOK, ReaderRecord
  <2>6. ReaderVerified'
    BY <2>3, <2>4, <2>5 DEF ProducedInv, ReaderVerified, ReaderAt
  <2> QED BY <1>1, <2>2, <2>6 DEF ProducedInv
<1> QED
  BY <1>2, <1>3, <1>4
     DEF Next, vars, disk, Corrupt, PublisherStep, BeginPublication, CheckManifest,
         CheckPayload, CompareExisting, Reuse, InspectPointer, UnlinkPointer,
         ReplacePayload, WritePointer, Crash

\* read_current_artifact never hands out bytes that the identity's own
\* procedure did not compute, however often payload files are damaged while
\* they are read, republished or reused, and however publishers interleave.
THEOREM ReturnsOnlyProduced == Spec => []ReturnedWasProduced
<1>1. ProducedInv => ReturnedWasProduced
  BY DEF ProducedInv, ReaderVerified, ReturnedWasProduced
<1> QED BY ProducedInit, ProducedNext, <1>1, PTL DEF Spec

-----------------------------------------------------------------------------
(* Identities of which no calls with different payloads overlapped, until  *)
(* a payload is damaged                                                    *)

\* Two calls in progress at once compute the same payload for an identity, or
\* it is contended.
Apart(p, q) ==
  \/ At(p, "idle") \/ At(q, "idle")
  \/ publisher[p].identity # publisher[q].identity
  \/ publisher[p].identity \in contended
  \/ publisher[p].payload = publisher[q].payload

CallsAgree == \A p, q \in Publishers : p = q \/ Apart(p, q)

\* A manifest is written after its payload and stays true of it.
ManifestBacked ==
  \A i \in Identities \ contended :
    manifestFile[i] # NoPayload => payloadFile[i] = manifestFile[i]

CurrentPublished ==
  current \notin contended \union {NoIdentity} => manifestFile[current] # NoPayload

\* What a publisher that nobody contradicts knows of the disk at each of its
\* steps.
StepFacts(p) ==
  publisher[p].identity \notin contended =>
  LET found == manifestFile[publisher[p].identity] IN
  /\ At(p, "payload") => found # NoPayload /\ publisher[p].checksum = found
  /\ publisher[p].step \in {"existing", "reuse", "activate"} => found # NoPayload
  /\ publisher[p].step \in {"replace", "complete"}
       => found \in {NoPayload, publisher[p].payload}
  /\ At(p, "complete")
       => payloadFile[publisher[p].identity] = publisher[p].payload

PublicationInv ==
  /\ ProducedInv
  /\ corruptions = 0
  /\ CallsAgree
  /\ ManifestBacked
  /\ CurrentPublished
  /\ \A p \in Publishers : StepFacts(p)

\* The publication invariant holds of an empty slot.
LEMMA PublicationInit == Init => PublicationInv
<1> SUFFICES ASSUME Init PROVE PublicationInv
    OBVIOUS
<1>1. ProducedInv
  BY ProducedInit
<1>2. CallsAgree /\ \A p \in Publishers : StepFacts(p)
  BY DEF Init, CallsAgree, Apart, StepFacts, At, IdlePublisher
<1>3. corruptions = 0 /\ ManifestBacked /\ CurrentPublished
  BY OutputsAssumption
     DEF Init, ManifestBacked, CurrentPublished
<1> QED BY <1>1, <1>2, <1>3 DEF PublicationInv

\* A step that moves one call on and leaves the files alone.
LEMMA QuietStep ==
  ASSUME PublicationInv, ProducedInv', CallsAgree', NEW p \in Publishers,
         UNCHANGED <<payloadFile, manifestFile, corruptions>>,
         contended \subseteq contended',
         CurrentPublished', StepFacts(p)',
         \A q \in Publishers \ {p} : publisher'[q] = publisher[q]
  PROVE  PublicationInv'
<1>1. corruptions' = 0 /\ ManifestBacked'
  BY DEF PublicationInv, ManifestBacked
<1>2. ASSUME NEW q \in Publishers \ {p}
      PROVE  StepFacts(q)'
  BY <1>2 DEF PublicationInv, StepFacts, At
<1> QED BY <1>1, <1>2 DEF PublicationInv

\* While one call writes, every other call is idle or computes the same.
LEMMA Undisturbed ==
  ASSUME CallsAgree, NEW p \in Publishers, NEW q \in Publishers \ {p},
         ~At(p, "idle"), ~At(q, "idle"),
         publisher[q].identity = publisher[p].identity,
         publisher[p].identity \notin contended
  PROVE  publisher[q].payload = publisher[p].payload
BY DEF CallsAgree, Apart

\* Calls in progress stay apart through every step of publish_artifact.
LEMMA AgreementKept ==
  ASSUME TInv, CallsAgree, NEW p \in Publishers, PublisherStep(p)
  PROVE  CallsAgree'
<1>a. publisher \in [Publishers -> PublisherRecord]
  BY DEF TInv, TypeOK
<1>b. \A q \in Publishers \ {p} : publisher'[q] = publisher[q]
  BY <1>a DEF PublisherStep, BeginPublication, CheckManifest, CheckPayload,
       CompareExisting, Reuse, InspectPointer, UnlinkPointer, ReplacePayload,
       WriteManifest, WritePointer, Crash, Goto, Finish
<1> SUFFICES ASSUME NEW q1 \in Publishers, NEW q2 \in Publishers, q1 # q2
             PROVE  Apart(q1, q2)'
  BY DEF CallsAgree
<1>c. Apart(q1, q2)
  BY DEF CallsAgree
<1>1. CASE ~At(p, "idle")
  <2>1. \/ publisher'[p].identity = publisher[p].identity
        \/ publisher'[p].step = "idle"
    BY <1>1, <1>a DEF PublisherStep, BeginPublication, CheckManifest, CheckPayload,
         CompareExisting, Reuse, InspectPointer, UnlinkPointer, ReplacePayload,
         WriteManifest, WritePointer, Crash, Goto, Finish, At, IdlePublisher,
         PublisherRecord
  <2>2. \A q \in Publishers : \/ publisher'[q].step = "idle"
                             \/ /\ publisher'[q].identity = publisher[q].identity
                                /\ ~At(q, "idle")
    BY <1>1, <2>1, <1>b DEF At
  <2>3. \A q \in Publishers : \/ publisher'[q].step = "idle"
                             \/ publisher'[q].payload = publisher[q].payload
    BY <1>1, <1>a, <1>b DEF PublisherStep, BeginPublication, CheckManifest, CheckPayload,
         CompareExisting, Reuse, InspectPointer, UnlinkPointer, ReplacePayload,
         WriteManifest, WritePointer, Crash, Goto, Finish, At, IdlePublisher,
         PublisherRecord
  <2>4. contended' = contended
    BY <1>1 DEF PublisherStep, BeginPublication, CheckManifest, CheckPayload,
         CompareExisting, Reuse, InspectPointer, UnlinkPointer, ReplacePayload,
         WriteManifest, WritePointer, Crash
  <2> QED BY <1>c, <2>2, <2>3, <2>4 DEF Apart, At
<1>2. CASE At(p, "idle")
  <2>1. PICK i \in Identities, v \in Payloads : BeginPublication(p, i, v)
    BY <1>2 DEF PublisherStep, At, CheckManifest, CheckPayload, CompareExisting,
         Reuse, InspectPointer, UnlinkPointer, ReplacePayload, WriteManifest,
         WritePointer, Crash
  <2>2. publisher'[p].identity = i /\ publisher'[p].payload = v
    BY <1>a, <2>1 DEF BeginPublication
  <2>3. /\ contended \subseteq contended'
        /\ \A q \in Publishers : \/ At(q, "idle") \/ publisher[q].identity # i
                                 \/ publisher[q].payload = v \/ i \in contended'
    BY <2>1 DEF BeginPublication, Disagrees
  <2>4. CASE q1 = p \/ q2 = p
    BY <2>2, <2>3, <2>4, <1>b DEF Apart, At
  <2>5. CASE q1 # p /\ q2 # p
    BY <2>3, <2>5, <1>b, <1>c DEF Apart, At
  <2> QED BY <2>4, <2>5
<1> QED BY <1>1, <1>2

\* Every step of publish_artifact keeps it, one action after the other.
LEMMA PublisherKeepsPublication ==
  ASSUME PublicationInv, ProducedInv', NEW p \in Publishers, PublisherStep(p)
  PROVE  PublicationInv'
<1> USE OutputsAssumption
<1> DEFINE pub == publisher[p]
           free == pub.identity \notin contended
<1>a. /\ pub \in PublisherRecord
      /\ publisher \in [Publishers -> PublisherRecord]
      /\ payloadFile \in [Identities -> Payloads \union {NoPayload, Damaged}]
      /\ manifestFile \in [Identities -> Payloads \union {NoPayload}]
      /\ current \in Identities \union {NoIdentity}
      /\ contended \subseteq Identities
  BY DEF PublicationInv, ProducedInv, TInv, TypeOK
<1>b. ~At(p, "idle") => /\ pub.identity \in Identities
                        /\ pub.payload \in Outputs[pub.identity]
                        /\ pub.payload # NoPayload
  BY DEF PublicationInv, ProducedInv, TInv, PublisherBusy
<1>c. \A q \in Publishers \ {p} : publisher'[q] = publisher[q]
  BY <1>a DEF PublisherStep, BeginPublication, CheckManifest, CheckPayload,
       CompareExisting, Reuse, InspectPointer, UnlinkPointer, ReplacePayload,
       WriteManifest, WritePointer, Crash, Goto, Finish
<1>d. StepFacts(p) /\ CallsAgree /\ CurrentPublished
  BY DEF PublicationInv
<1>e. CallsAgree'
  BY AgreementKept DEF PublicationInv, ProducedInv
<1>f. contended \subseteq contended'
  BY DEF PublisherStep, BeginPublication, CheckManifest, CheckPayload,
       CompareExisting, Reuse, InspectPointer, UnlinkPointer, ReplacePayload,
       WriteManifest, WritePointer, Crash
<1>1. ASSUME NEW i \in Identities, NEW v \in Payloads, BeginPublication(p, i, v)
      PROVE  PublicationInv'
  <2>1. publisher'[p].step = "manifest"
    BY <1>1, <1>a DEF BeginPublication
  <2>2. StepFacts(p)'
    BY <2>1 DEF StepFacts, At
  <2> QED BY <1>1, <1>c, <1>d, <1>e, <1>f, <2>2, QuietStep
          DEF BeginPublication, disk, CurrentPublished
<1>2. CASE CheckManifest(p)
  <2>1. StepFacts(p)'
    BY <1>2, <1>a DEF CheckManifest, StepFacts, At, disk, PublisherRecord
  <2> QED BY <1>2, <1>c, <1>d, <1>e, <1>f, <2>1, QuietStep
          DEF CheckManifest, disk, CurrentPublished, At
<1>3. CASE CheckPayload(p)
  <2>1. free => /\ payloadFile[pub.identity] = pub.checksum
                /\ manifestFile[pub.identity] # NoPayload
    BY <1>3, <1>b, <1>d DEF CheckPayload, StepFacts, At, PublicationInv, ManifestBacked
  <2>2. StepFacts(p)'
    BY <1>3, <1>a, <1>f, <2>1 DEF CheckPayload, Goto, StepFacts, At, disk, PublisherRecord
  <2> QED BY <1>3, <1>c, <1>d, <1>e, <1>f, <2>2, QuietStep
          DEF CheckPayload, disk, CurrentPublished, At
<1>4. CASE CompareExisting(p)
  <2>1. free => manifestFile[pub.identity] # NoPayload
    BY <1>4, <1>d DEF CompareExisting, StepFacts, At
  <2>2. free => publisher'[p] = [pub EXCEPT !.step =
          IF manifestFile[pub.identity] = pub.payload THEN "reuse" ELSE "retire"]
    BY <1>4, <1>a, <1>b, <2>1 DEF CompareExisting, Goto, At
  <2>3. StepFacts(p)'
    BY <1>4, <1>a, <1>f, <2>1, <2>2 DEF CompareExisting, Goto, StepFacts, At, disk, PublisherRecord
  <2> QED BY <1>4, <1>c, <1>d, <1>e, <1>f, <2>3, QuietStep
          DEF CompareExisting, disk, CurrentPublished, At
<1>5. CASE Reuse(p)
  <2>1. CurrentPublished'
    BY <1>5, <1>d DEF Reuse, StepFacts, At, CurrentPublished
  <2>2. StepFacts(p)'
    BY <1>5, <1>a DEF Reuse, Finish, StepFacts, At, IdlePublisher
  <2> QED BY <1>5, <1>c, <1>e, <1>f, <2>1, <2>2, QuietStep DEF Reuse, At
<1>6. CASE InspectPointer(p)
  <2>1. StepFacts(p)'
    BY <1>6, <1>a DEF InspectPointer, Goto, Finish, StepFacts, At, IdlePublisher,
                      PublisherRecord
  <2> QED BY <1>6, <1>c, <1>d, <1>e, <1>f, <2>1, QuietStep
          DEF InspectPointer, disk, CurrentPublished, At
<1>7. CASE UnlinkPointer(p)
  <2>1. StepFacts(p)'
    BY <1>7, <1>a DEF UnlinkPointer, Finish, StepFacts, At, IdlePublisher
  <2> QED BY <1>7, <1>c, <1>e, <1>f, <2>1, QuietStep
          DEF UnlinkPointer, CurrentPublished, At
<1>8. CASE ReplacePayload(p)
  <2>0. /\ ~At(p, "idle")
        /\ free => manifestFile[pub.identity] \in {NoPayload, pub.payload}
        /\ UNCHANGED <<manifestFile, current, corruptions, contended>>
    BY <1>8, <1>d DEF ReplacePayload, StepFacts, At
  <2>1. /\ payloadFile'[pub.identity] = pub.payload
        /\ \A i \in Identities \ {pub.identity} : payloadFile'[i] = payloadFile[i]
    BY <1>8, <1>a, <1>b, <2>0 DEF ReplacePayload
  <2>3. ManifestBacked'
    BY <2>0, <2>1 DEF PublicationInv, ManifestBacked
  <2>4. StepFacts(p)'
    BY <1>8, <1>a, <2>0, <2>1 DEF ReplacePayload, Goto, StepFacts, At, PublisherRecord
  <2>5. ASSUME NEW q \in Publishers \ {p}
        PROVE  StepFacts(q)'
    <3>1. CASE ~At(q, "complete") \/ publisher[q].identity # pub.identity
      <4>1. At(q, "complete") => publisher[q].identity \in Identities
        BY DEF PublicationInv, ProducedInv, TInv, PublisherBusy, At
      <4> QED BY <3>1, <4>1, <1>c, <2>0, <2>1 DEF PublicationInv, StepFacts, At
    <3>2. CASE At(q, "complete") /\ publisher[q].identity = pub.identity
      <4>1. free => publisher[q].payload = pub.payload
        BY <3>2, <2>0, Undisturbed DEF At, PublicationInv
      <4> QED BY <3>2, <4>1, <1>c, <2>0, <2>1 DEF PublicationInv, StepFacts, At
    <3> QED BY <3>1, <3>2
  <2> QED BY <1>d, <1>e, <2>0, <2>3, <2>4, <2>5
          DEF PublicationInv, CurrentPublished
<1>9. CASE WriteManifest(p)
  <2>0. /\ ~At(p, "idle")
        /\ free => /\ payloadFile[pub.identity] = pub.payload
                   /\ manifestFile[pub.identity] \in {NoPayload, pub.payload}
        /\ UNCHANGED <<payloadFile, current, corruptions, contended>>
    BY <1>9, <1>d DEF WriteManifest, StepFacts, At
  <2>1. /\ manifestFile'[pub.identity] = pub.payload
        /\ \A i \in Identities \ {pub.identity} : manifestFile'[i] = manifestFile[i]
    BY <1>9, <1>a, <1>b, <2>0 DEF WriteManifest
  <2>3. ManifestBacked'
    BY <2>0, <2>1 DEF PublicationInv, ManifestBacked
  <2>4. StepFacts(p)'
    BY <1>9, <1>a, <1>b, <2>0, <2>1
       DEF WriteManifest, Goto, StepFacts, At, PublisherRecord
  <2>5. CurrentPublished'
    BY <1>a, <1>b, <1>d, <2>0, <2>1 DEF CurrentPublished
  <2>6. ASSUME NEW q \in Publishers \ {p}
        PROVE  StepFacts(q)'
    <3>1. CASE At(q, "idle")
      BY <3>1, <1>c DEF StepFacts, At
    <3>2. CASE ~At(q, "idle") /\ publisher[q].identity # pub.identity
      <4>1. publisher[q].identity \in Identities
        BY <3>2 DEF PublicationInv, ProducedInv, TInv, PublisherBusy
      <4> QED BY <3>2, <4>1, <1>c, <2>0, <2>1 DEF PublicationInv, StepFacts, At
    <3>3. CASE ~At(q, "idle") /\ publisher[q].identity = pub.identity
      <4>1. free => publisher[q].payload = pub.payload
        BY <3>3, <2>0, Undisturbed DEF PublicationInv
      <4>2. free /\ At(q, "payload") =>
              /\ publisher[q].checksum = manifestFile[pub.identity]
              /\ manifestFile[pub.identity] = pub.payload
        BY <3>3, <2>0 DEF PublicationInv, StepFacts
      <4> QED BY <3>3, <4>1, <4>2, <1>b, <1>c, <2>0, <2>1
              DEF PublicationInv, StepFacts, At
    <3> QED BY <3>1, <3>2, <3>3
  <2> QED BY <1>e, <2>0, <2>3, <2>4, <2>5, <2>6 DEF PublicationInv
<1>10. CASE WritePointer(p)
  <2>1. CurrentPublished'
    BY <1>10, <1>d DEF WritePointer, StepFacts, At, CurrentPublished
  <2>2. StepFacts(p)'
    BY <1>10, <1>a DEF WritePointer, Finish, StepFacts, At, IdlePublisher
  <2> QED BY <1>10, <1>c, <1>e, <1>f, <2>1, <2>2, QuietStep DEF WritePointer, At
<1>11. CASE Crash(p)
  <2>1. StepFacts(p)'
    BY <1>11, <1>a DEF Crash, Finish, StepFacts, At, IdlePublisher
  <2> QED BY <1>11, <1>c, <1>d, <1>e, <1>f, <2>1, QuietStep
          DEF Crash, disk, CurrentPublished
<1> QED BY <1>1, <1>2, <1>3, <1>4, <1>5, <1>6, <1>7, <1>8, <1>9, <1>10, <1>11
        DEF PublisherStep

\* Readers leave the files alone, so every step that damages nothing keeps it.
LEMMA PublicationNext ==
  ASSUME PublicationInv, [Next]_vars, Undamaged'
  PROVE  PublicationInv'
<1>1. ProducedInv'
  BY ProducedNext DEF PublicationInv
<1>2. CASE UNCHANGED <<disk, publisher, corruptions, contended>>
  BY <1>1, <1>2 DEF disk, PublicationInv, CallsAgree, Apart,
                    ManifestBacked, CurrentPublished, StepFacts, At
<1>3. ASSUME NEW r \in Readers, ReaderStep(r)
      PROVE  UNCHANGED <<disk, publisher, corruptions, contended>>
  BY <1>3 DEF ReaderStep, BeginRead, ReadPointer, ReadManifest,
              ReadManifestAgain, ReadPayload, EndRead
<1>4. ASSUME NEW i \in Identities, Corrupt(i)
      PROVE  FALSE
  BY <1>4 DEF Corrupt, PublicationInv, Undamaged
<1> QED BY <1>1, <1>2, <1>3, <1>4, PublisherKeepsPublication DEF Next, vars, disk

\* What was damaged stays damaged.
LEMMA UndamagedBefore ==
  ASSUME TInv, [Next]_vars, Undamaged'
  PROVE  Undamaged
<1>1. ASSUME NEW i \in Identities, Corrupt(i)
      PROVE  FALSE
  BY <1>1 DEF Corrupt, TInv, TypeOK, Undamaged
<1> QED
  BY <1>1
     DEF Undamaged, Next, vars, PublisherStep, BeginPublication, CheckManifest,
         CheckPayload, CompareExisting, Reuse, InspectPointer, UnlinkPointer,
         ReplacePayload, WriteManifest, WritePointer, Crash, ReaderStep, BeginRead,
         ReadPointer, ReadManifest, ReadManifestAgain, ReadPayload, EndRead

PublishedUntilDamage == ProducedInv /\ (Undamaged => PublicationInv)

\* The publication invariant holds until a payload is damaged.
LEMMA PublicationInvariance == Spec => []PublishedUntilDamage
<1>1. Init => PublishedUntilDamage
  BY PublicationInit, ProducedInit DEF PublishedUntilDamage
<1>2. PublishedUntilDamage /\ [Next]_vars => PublishedUntilDamage'
  BY PublicationNext, ProducedNext, UndamagedBefore
     DEF PublishedUntilDamage, ProducedInv
<1> QED BY <1>1, <1>2, PTL DEF Spec

\* current.json only ever names an identity whose manifest and payload are
\* there and agree, through every crash of every publisher, until a payload
\* is damaged.
THEOREM CurrentComplete == Spec => []CurrentIsComplete
<1>1. PublishedUntilDamage => CurrentIsComplete
  BY DEF PublishedUntilDamage, PublicationInv, ProducedInv, TInv, TypeOK, CurrentPublished,
         ManifestBacked, CurrentIsComplete, Undamaged, CompleteAndValid
<1> QED BY <1>1, PublicationInvariance, PTL

-----------------------------------------------------------------------------
(* Readers beside such publishers                                          *)

\* What a reader has seen of a manifest stays so unless calls disagree on it:
\* manifests do not change.
ReaderFacts(r) ==
  reader[r].identity \notin contended =>
  LET rd == reader[r] IN
  /\ rd.step \in {"validate", "payload", "returned"}
       => rd.manifest # NoPayload /\ manifestFile[rd.identity] = rd.manifest
  /\ rd.step = "payload" => rd.checksum = rd.manifest
  /\ rd.step = "returned" => rd.payload = rd.manifest
  /\ rd.step = "failed" => rd.identity = NoIdentity

ReadInv == PublicationInv /\ \A r \in Readers : ReaderFacts(r)

\* A manifest that is there keeps its content through every step.
LEMMA ManifestsStay ==
  ASSUME PublicationInv, [Next]_vars, NEW i \in Identities \ contended, manifestFile[i] # NoPayload
  PROVE  manifestFile'[i] = manifestFile[i]
<1>1. CASE UNCHANGED manifestFile
  BY <1>1
<1>2. ASSUME NEW p \in Publishers, WriteManifest(p)
      PROVE  manifestFile'[i] = manifestFile[i]
  <2>1. publisher[p].identity \notin contended =>
          manifestFile[publisher[p].identity] \in {NoPayload, publisher[p].payload}
    BY <1>2 DEF WriteManifest, At, PublicationInv, StepFacts
  <2> QED BY <1>2, <2>1 DEF WriteManifest, PublicationInv, ProducedInv, TInv, TypeOK
<1> QED
  BY <1>1, <1>2
     DEF Next, vars, disk, Corrupt, PublisherStep, BeginPublication, CheckManifest,
         CheckPayload, CompareExisting, Reuse, InspectPointer, UnlinkPointer,
         ReplacePayload, WritePointer, Crash, ReaderStep, BeginRead, ReadPointer,
         ReadManifest, ReadManifestAgain, ReadPayload, EndRead

\* Every step of a reader keeps what it knows.
LEMMA ReaderKeepsFacts ==
  ASSUME ReadInv, NEW r \in Readers, ReaderStep(r)
  PROVE  ReaderFacts(r)'
<1> DEFINE rd == reader[r]
<1>a. reader \in [Readers -> ReaderRecord] /\ rd \in ReaderRecord /\ ReaderFacts(r)
  BY DEF ReadInv, PublicationInv, ProducedInv, TInv, TypeOK
<1>b. rd.step \in {"manifest", "validate", "payload", "returned"} => rd.identity \in Identities
  BY DEF ReadInv, PublicationInv, ProducedInv, TInv, ReaderBusy
<1>1. CASE BeginRead(r)
  BY <1>1, <1>a DEF BeginRead, ReaderFacts, ReaderAt, ReaderRecord
<1>2. CASE ReadPointer(r)
  BY <1>2, <1>a DEF ReadPointer, ReaderFacts, ReaderAt, ReaderRecord
<1>3. CASE ReadManifest(r)
  BY <1>3, <1>a DEF ReadManifest, ReaderFacts, ReaderAt, ReaderRecord, disk
<1>4. CASE ReadManifestAgain(r)
  BY <1>4, <1>a DEF ReadManifestAgain, ReaderFacts, ReaderAt, ReaderRecord, disk
<1>5. CASE ReadPayload(r)
  <2>1. rd.identity \notin contended =>
          payloadFile[rd.identity] = rd.manifest /\ rd.checksum = rd.manifest
    BY <1>5, <1>a, <1>b DEF ReadPayload, ReaderAt, ReaderFacts, ReadInv,
                            PublicationInv, ManifestBacked
  <2> QED BY <1>5, <1>a, <2>1 DEF ReadPayload, ReaderFacts, ReaderAt, ReaderRecord, disk
<1>6. CASE EndRead(r)
  BY <1>6, <1>a DEF EndRead, ReaderFacts, IdleReader
<1> QED BY <1>1, <1>2, <1>3, <1>4, <1>5, <1>6 DEF ReaderStep

ReadUntilDamage == ProducedInv /\ (Undamaged => ReadInv)

\* What readers know holds until a payload is damaged.
LEMMA ReadInvariance == Spec => []ReadUntilDamage
<1>1. Init => ReadUntilDamage
  BY PublicationInit, ProducedInit
     DEF Init, IdleReader, ReadUntilDamage, ReadInv, ReaderFacts
<1>2. ASSUME ReadInv, [Next]_vars, Undamaged' PROVE ReadInv'
  <2>1. PublicationInv'
    BY <1>2, PublicationNext DEF ReadInv
  <2>2. ASSUME NEW r \in Readers PROVE ReaderFacts(r)'
    <3>1. CASE ReaderStep(r)
      BY <1>2, <3>1, ReaderKeepsFacts
    <3>2. CASE reader'[r] = reader[r]
      <4>1. ReaderFacts(r)
        BY <1>2 DEF ReadInv
      <4>2. reader[r].identity \notin contended
              /\ reader[r].step \in {"validate", "payload", "returned"}
              => manifestFile'[reader[r].identity] = manifestFile[reader[r].identity]
        BY <1>2, <4>1, ManifestsStay
           DEF ReadInv, ReaderFacts, PublicationInv, ProducedInv, TInv, ReaderBusy
      <4>3. contended \subseteq contended'
        BY <1>2 DEF Next, vars, PublisherStep, BeginPublication, CheckManifest,
           CheckPayload, CompareExisting, Reuse, InspectPointer, UnlinkPointer,
           ReplacePayload, WriteManifest, WritePointer, Crash, ReaderStep, BeginRead,
           ReadPointer, ReadManifest, ReadManifestAgain, ReadPayload, EndRead, Corrupt
      <4> QED BY <3>2, <4>1, <4>2, <4>3 DEF ReaderFacts
    <3>3. ASSUME NEW other \in Readers \ {r}, ReaderStep(other)
          PROVE  reader'[r] = reader[r]
      BY <1>2, <3>3 DEF ReadInv, PublicationInv, ProducedInv, TInv, TypeOK, ReaderStep,
         BeginRead, ReadPointer, ReadManifest, ReadManifestAgain, ReadPayload, EndRead
    <3>4. ASSUME NEW p \in Publishers, PublisherStep(p)
          PROVE  UNCHANGED reader
      BY <3>4 DEF PublisherStep, BeginPublication, CheckManifest, CheckPayload,
         CompareExisting, Reuse, InspectPointer, UnlinkPointer, ReplacePayload,
         WriteManifest, WritePointer, Crash
    <3>5. ASSUME NEW i \in Identities, Corrupt(i)
          PROVE  UNCHANGED reader
      BY <3>5 DEF Corrupt
    <3> QED BY <1>2, <3>1, <3>2, <3>3, <3>4, <3>5 DEF Next, vars
  <2> QED BY <2>1, <2>2 DEF ReadInv
<1>3. ReadUntilDamage /\ [Next]_vars => ReadUntilDamage'
  BY <1>2, ProducedNext, UndamagedBefore DEF ReadUntilDamage, ProducedInv
<1> QED BY <1>1, <1>3, PTL DEF Spec

\* The two manifest reads of read_current_artifact and its payload are of the
\* same bytes, although publications run between them, until a payload is
\* damaged.
THEOREM PairsAgree == Spec => []ReturnedPairAgrees
<1>1. ReadUntilDamage => ReturnedPairAgrees
  BY DEF ReadUntilDamage, ReadInv, ReaderFacts, ReturnedPairAgrees, ReaderAt
<1> QED BY <1>1, ReadInvariance, PTL

\* A reader never raises because of a publication in progress.
THEOREM ReadsGoThrough == Spec => []ReadsFailOnlyOnWithdrawal
<1>1. ReadUntilDamage => ReadsFailOnlyOnWithdrawal
  BY DEF ReadUntilDamage, ReadInv, ReaderFacts, ReadsFailOnlyOnWithdrawal, ReaderAt
<1> QED BY <1>1, ReadInvariance, PTL

\* Together: a reader beside running publishers sees one artifact or nothing.
THEOREM ReadersAgree == Spec => []ReadersSeeOneArtifact
<1>1. ReturnedPairAgrees /\ ReadsFailOnlyOnWithdrawal => ReadersSeeOneArtifact
  BY DEF ReadersSeeOneArtifact
<1> QED BY <1>1, PairsAgree, ReadsGoThrough, PTL

-----------------------------------------------------------------------------
(* The slot is write-once, with damage as losses                           *)

\* What a publisher that nobody contradicts knows of its identity even when
\* payloads are damaged: the manifest is the one it read or its own, what it is
\* about to replace is of no use or the same, and what it replaced it with
\* stays until it is damaged.
SlotFacts(p) ==
  publisher[p].identity \notin contended =>
  LET id == publisher[p].identity IN
  /\ At(p, "payload")
       => manifestFile[id] \in {publisher[p].checksum, publisher[p].payload}
  /\ At(p, "replace")
       => ~CompleteAndValid(id) \/ payloadFile[id] = publisher[p].payload
  /\ At(p, "complete") => payloadFile[id] \in {publisher[p].payload, Damaged}

SlotInv ==
  /\ PublishedUntilDamage
  /\ CallsAgree
  /\ \A p \in Publishers : SlotFacts(p)

\* It holds of an empty slot.
LEMMA SlotInit == Init => SlotInv
<1> SUFFICES ASSUME Init PROVE SlotInv
    OBVIOUS
<1>1. PublishedUntilDamage /\ CallsAgree
  BY PublicationInit, ProducedInit DEF PublishedUntilDamage, PublicationInv
<1>2. \A p \in Publishers : SlotFacts(p)
  BY DEF Init, SlotFacts, At, IdlePublisher
<1> QED BY <1>1, <1>2 DEF SlotInv

\* Every step of publish_artifact keeps what the publishers know.
LEMMA PublisherKeepsSlotFacts ==
  ASSUME SlotInv, NEW p \in Publishers, PublisherStep(p), NEW q \in Publishers
  PROVE  SlotFacts(q)'
<1> USE OutputsAssumption
<1> DEFINE pub == publisher[p]
<1>a. /\ pub \in PublisherRecord
      /\ publisher \in [Publishers -> PublisherRecord]
      /\ payloadFile \in [Identities -> Payloads \union {NoPayload, Damaged}]
      /\ manifestFile \in [Identities -> Payloads \union {NoPayload}]
  BY DEF SlotInv, PublishedUntilDamage, ProducedInv, TInv, TypeOK
<1>b. \A x \in Publishers : ~At(x, "idle") =>
         /\ publisher[x].identity \in Identities
         /\ publisher[x].payload \in Outputs[publisher[x].identity]
  BY DEF SlotInv, PublishedUntilDamage, ProducedInv, TInv, PublisherBusy
<1>c. SlotFacts(q) /\ SlotFacts(p)
  BY DEF SlotInv
<1>1. CASE q # p
  <2>1. publisher'[q] = publisher[q] /\ contended \subseteq contended'
    BY <1>1, <1>a DEF PublisherStep, BeginPublication, CheckManifest, CheckPayload,
       CompareExisting, Reuse, InspectPointer, UnlinkPointer, ReplacePayload,
       WriteManifest, WritePointer, Crash, Goto, Finish
  <2>2. CASE UNCHANGED <<payloadFile, manifestFile>>
    BY <1>c, <2>1, <2>2 DEF SlotFacts, At, CompleteAndValid
  <2>3. CASE At(q, "idle")
    BY <2>1, <2>3 DEF SlotFacts, At
  <2>4. CASE /\ ~At(p, "idle") /\ ~At(q, "idle") /\ publisher[q].identity # pub.identity
             /\ \A i \in Identities \ {pub.identity} :
                  payloadFile'[i] = payloadFile[i] /\ manifestFile'[i] = manifestFile[i]
    BY <1>b, <1>c, <2>1, <2>4 DEF SlotFacts, At, CompleteAndValid
  <2>5. CASE /\ ~At(p, "idle") /\ ~At(q, "idle") /\ publisher[q].identity = pub.identity
             /\ \/ /\ payloadFile'[pub.identity] = pub.payload
                   /\ UNCHANGED manifestFile
                \/ /\ manifestFile'[pub.identity] = pub.payload
                   /\ UNCHANGED payloadFile
    <3>1. pub.identity \notin contended => publisher[q].payload = pub.payload
      BY <1>1, <2>5, Undisturbed DEF SlotInv
    <3> QED BY <1>b, <1>c, <2>1, <2>5, <3>1 DEF SlotFacts, At, CompleteAndValid
  <2>6. CASE ReplacePayload(p) \/ WriteManifest(p)
    <3>1. ~At(p, "idle")
      BY <2>6 DEF ReplacePayload, WriteManifest, At
    <3>2. \A i \in Identities \ {pub.identity} :
            payloadFile'[i] = payloadFile[i] /\ manifestFile'[i] = manifestFile[i]
      BY <1>a, <2>6 DEF ReplacePayload, WriteManifest
    <3>3. \/ /\ payloadFile'[pub.identity] = pub.payload
             /\ UNCHANGED manifestFile
          \/ /\ manifestFile'[pub.identity] = pub.payload
             /\ UNCHANGED payloadFile
      BY <1>a, <1>b, <2>6, <3>1 DEF ReplacePayload, WriteManifest
    <3> QED BY <2>3, <2>4, <2>5, <3>1, <3>2, <3>3
  <2> QED
    BY <2>2, <2>6 DEF PublisherStep, BeginPublication, CheckManifest, CheckPayload,
       CompareExisting, Reuse, InspectPointer, UnlinkPointer, WritePointer, Crash, disk
<1>2. CASE q = p
  <2> SUFFICES SlotFacts(p)'
    BY <1>2
  <2>1. ASSUME NEW i \in Identities, NEW v \in Payloads, BeginPublication(p, i, v)
        PROVE  SlotFacts(p)'
    BY <1>a, <2>1 DEF BeginPublication, SlotFacts, At
  <2>2. CASE CheckManifest(p)
    BY <1>a, <2>2 DEF CheckManifest, SlotFacts, At, disk, PublisherRecord, CompleteAndValid
  <2>3. CASE CheckPayload(p)
    BY <1>a, <1>b, <1>c, <2>3 DEF CheckPayload, Goto, SlotFacts, At, disk,
         PublisherRecord, CompleteAndValid
  <2>4. CASE CompareExisting(p)
    BY <1>a, <1>b, <2>4 DEF CompareExisting, Goto, SlotFacts, At, disk,
         PublisherRecord, CompleteAndValid
  <2>5. CASE ReplacePayload(p)
    BY <1>a, <1>b, <2>5 DEF ReplacePayload, Goto, SlotFacts, At, PublisherRecord
  <2>6. CASE WriteManifest(p)
    BY <1>a, <2>6 DEF WriteManifest, Goto, SlotFacts, At, PublisherRecord
  <2>7. CASE InspectPointer(p)
    BY <1>a, <2>7 DEF InspectPointer, Goto, Finish, SlotFacts, At, PublisherRecord,
         IdlePublisher
  <2>8. CASE Reuse(p) \/ UnlinkPointer(p) \/ WritePointer(p) \/ Crash(p)
    BY <1>a, <2>8 DEF Reuse, UnlinkPointer, WritePointer, Crash, Finish, SlotFacts,
         At, IdlePublisher
  <2> QED BY <2>1, <2>2, <2>3, <2>4, <2>5, <2>6, <2>7, <2>8 DEF PublisherStep
<1> QED BY <1>1, <1>2

\* Damage makes an artifact unreadable, which no publisher relies on.
LEMMA DamageKeepsSlotFacts ==
  ASSUME SlotInv, NEW i \in Identities, Corrupt(i), NEW q \in Publishers
  PROVE  SlotFacts(q)'
<1>1. /\ payloadFile \in [Identities -> Payloads \union {NoPayload, Damaged}]
      /\ manifestFile \in [Identities -> Payloads \union {NoPayload}]
      /\ ~At(q, "idle") => publisher[q].identity \in Identities
      /\ SlotFacts(q)
  BY DEF SlotInv, PublishedUntilDamage, ProducedInv, TInv, TypeOK, PublisherBusy
<1> QED BY <1>1, OutputsAssumption
        DEF Corrupt, SlotFacts, At, CompleteAndValid

\* It holds in every behaviour.
LEMMA SlotInvariance == Spec => []SlotInv
<1>1. ASSUME SlotInv, [Next]_vars PROVE SlotInv'
  <2>1. PublishedUntilDamage'
    BY <1>1, PublicationNext, ProducedNext, UndamagedBefore
       DEF SlotInv, PublishedUntilDamage, ProducedInv
  <2>2. CASE UNCHANGED <<disk, publisher, corruptions, contended>>
    BY <1>1, <2>1, <2>2 DEF SlotInv, CallsAgree, Apart, SlotFacts, At,
         CompleteAndValid, disk
  <2>3. ASSUME NEW r \in Readers, ReaderStep(r)
        PROVE  UNCHANGED <<disk, publisher, corruptions, contended>>
    BY <2>3 DEF ReaderStep, BeginRead, ReadPointer, ReadManifest,
         ReadManifestAgain, ReadPayload, EndRead
  <2>4. ASSUME NEW p \in Publishers, PublisherStep(p)
        PROVE  SlotInv'
    <3>1. CallsAgree'
      BY <1>1, <2>4, AgreementKept DEF SlotInv, PublishedUntilDamage, ProducedInv
    <3>2. \A q \in Publishers : SlotFacts(q)'
      BY <1>1, <2>4, PublisherKeepsSlotFacts
    <3> QED BY <2>1, <3>1, <3>2 DEF SlotInv
  <2>5. ASSUME NEW i \in Identities, Corrupt(i)
        PROVE  SlotInv'
    <3>1. CallsAgree'
      BY <1>1, <2>5 DEF SlotInv, Corrupt, CallsAgree, Apart, At
    <3>2. \A q \in Publishers : SlotFacts(q)'
      BY <1>1, <2>5, DamageKeepsSlotFacts
    <3> QED BY <2>1, <3>1, <3>2 DEF SlotInv
  <2> QED BY <1>1, <2>2, <2>3, <2>4, <2>5 DEF Next, vars, disk
<1> QED BY <1>1, SlotInit, PTL DEF Spec

\* Every step of the files is a step of the abstract slot, or none.
LEMMA StepImplements ==
  ASSUME SlotInv, [Next]_vars
  PROVE  [Slot!Next]_(Slot!vars)
<1> USE OutputsAssumption
<1> DEFINE contents == [i \in Identities |->
             IF CompleteAndValid(i) THEN payloadFile[i] ELSE NoPayload]
<1>a. /\ publisher \in [Publishers -> PublisherRecord]
      /\ payloadFile \in [Identities -> Payloads \union {NoPayload, Damaged}]
      /\ manifestFile \in [Identities -> Payloads \union {NoPayload}]
      /\ corruptions \in Nat
  BY DEF SlotInv, PublishedUntilDamage, ProducedInv, TInv, TypeOK
<1>b. \A p \in Publishers : ~At(p, "idle") =>
         /\ publisher[p].identity \in Identities
         /\ publisher[p].payload \in Outputs[publisher[p].identity]
         /\ publisher[p].payload \in Payloads
  BY DEF SlotInv, PublishedUntilDamage, ProducedInv, TInv, PublisherBusy
<1>c. \A p \in Publishers : SlotFacts(p)
  BY DEF SlotInv
<1>d. /\ \A i \in Identities :
           contents[i] = IF CompleteAndValid(i) THEN payloadFile[i] ELSE NoPayload
      /\ \A i \in Identities :
           contents'[i] = IF CompleteAndValid(i)' THEN payloadFile'[i] ELSE NoPayload
  OBVIOUS
<1>e. /\ Slot!vars = <<contents, current, corruptions, contended>>
      /\ Slot!vars' = <<contents', current', corruptions', contended'>>
  BY DEF Slot!vars
<1>f. ASSUME NEW id \in Identities, NEW v \in Payloads,
             \A i \in Identities \ {id} : CompleteAndValid(i)' = CompleteAndValid(i)
                                          /\ payloadFile'[i] = payloadFile[i],
             \/ id \in contended /\ contents'[id] \in {NoPayload, v}
             \/ contents[id] \in {NoPayload, v} /\ contents'[id] \in {contents[id], v},
             UNCHANGED <<current, corruptions, contended>>
      PROVE  [Slot!Next]_(Slot!vars)
  <2>1. CASE contents'[id] = contents[id]
    <3>1. contents' = contents
      BY <1>f, <2>1
    <3> QED BY <1>e, <1>f, <3>1
  <2>2. CASE (contents[id] = NoPayload \/ id \in contended) /\ contents'[id] = v
    <3>1. contents' = [contents EXCEPT ![id] = v]
      BY <1>f, <2>2
    <3> QED BY <1>f, <2>2, <3>1 DEF Slot!Next, Slot!Commit
  <2>3. CASE id \in contended /\ contents'[id] = NoPayload
    <3>1. contents' = [contents EXCEPT ![id] = NoPayload]
      BY <1>f, <2>3
    <3> QED BY <1>f, <2>3, <3>1 DEF Slot!Next, Slot!Spoil
  <2> QED BY <1>f, <2>1, <2>2, <2>3
<1>1. CASE UNCHANGED <<payloadFile, manifestFile, current, corruptions, contended>>
  BY <1>1, <1>e DEF CompleteAndValid
<1>2. ASSUME NEW p \in Publishers, ReplacePayload(p)
      PROVE  [Slot!Next]_(Slot!vars)
  <2> DEFINE id == publisher[p].identity
             v == publisher[p].payload
  <2>1. id \in Identities /\ v \in Payloads
    BY <1>2, <1>b DEF ReplacePayload, At
  <2>2. /\ payloadFile' = [payloadFile EXCEPT ![id] = v]
        /\ UNCHANGED <<manifestFile, current, corruptions, contended>>
    BY <1>2 DEF ReplacePayload
  <2>3. payloadFile'[id] = v
    BY <1>a, <2>1, <2>2
  <2>4. contents'[id] \in {NoPayload, v}
    BY <1>d, <2>1, <2>3
  <2>5. ASSUME id \notin contended
        PROVE  contents[id] \in {NoPayload, v} /\ contents'[id] \in {contents[id], v}
    <3>1. ~CompleteAndValid(id) \/ payloadFile[id] = v
      BY <1>2, <1>c, <2>5 DEF ReplacePayload, SlotFacts
    <3>2. contents[id] \in {NoPayload, v}
      BY <1>d, <2>1, <3>1
    <3>3. contents'[id] \in {contents[id], v}
      BY <1>d, <2>1, <2>2, <2>3, <3>1 DEF CompleteAndValid
    <3> QED BY <3>2, <3>3
  <2>6. \A i \in Identities \ {id} : CompleteAndValid(i)' = CompleteAndValid(i)
                                     /\ payloadFile'[i] = payloadFile[i]
    BY <1>a, <2>1, <2>2 DEF CompleteAndValid
  <2>7. \/ id \in contended /\ contents'[id] \in {NoPayload, v}
        \/ contents[id] \in {NoPayload, v} /\ contents'[id] \in {contents[id], v}
    BY <2>4, <2>5
  <2> HIDE DEF contents, id, v
  <2> QED BY <1>f, <2>1, <2>2, <2>6, <2>7
<1>3. ASSUME NEW p \in Publishers, WriteManifest(p)
      PROVE  [Slot!Next]_(Slot!vars)
  <2> DEFINE id == publisher[p].identity
             v == publisher[p].payload
  <2>1. id \in Identities /\ v \in Payloads
    BY <1>3, <1>b DEF WriteManifest, At
  <2>2. /\ manifestFile' = [manifestFile EXCEPT ![id] = v]
        /\ UNCHANGED <<payloadFile, current, corruptions, contended>>
    BY <1>3 DEF WriteManifest
  <2>3. manifestFile'[id] = v
    BY <1>a, <2>1, <2>2
  <2>4. contents'[id] \in {NoPayload, v}
    BY <1>d, <2>1, <2>2, <2>3 DEF CompleteAndValid
  <2>5. ASSUME id \notin contended
        PROVE  contents[id] \in {NoPayload, v} /\ contents'[id] \in {contents[id], v}
    <3>0. payloadFile[id] \in {v, Damaged}
      BY <1>3, <1>c, <2>5 DEF WriteManifest, SlotFacts
    <3>1. CASE payloadFile[id] = v
      BY <1>a, <1>d, <2>1, <2>2, <2>3, <3>1 DEF CompleteAndValid
    <3>2. CASE payloadFile[id] = Damaged
      <4>1. /\ payloadFile'[id] = Damaged
            /\ manifestFile[id] # Damaged /\ manifestFile'[id] # Damaged
        BY <1>a, <2>1, <2>2, <3>2
      <4> QED BY <1>d, <2>1, <3>2, <4>1 DEF CompleteAndValid
    <3> QED BY <3>0, <3>1, <3>2
  <2>6. \A i \in Identities \ {id} : CompleteAndValid(i)' = CompleteAndValid(i)
                                     /\ payloadFile'[i] = payloadFile[i]
    BY <1>a, <2>1, <2>2 DEF CompleteAndValid
  <2>7. \/ id \in contended /\ contents'[id] \in {NoPayload, v}
        \/ contents[id] \in {NoPayload, v} /\ contents'[id] \in {contents[id], v}
    BY <2>4, <2>5
  <2> HIDE DEF contents, id, v
  <2> QED BY <1>f, <2>1, <2>2, <2>6, <2>7
<1>4. ASSUME NEW p \in Publishers, Reuse(p) \/ WritePointer(p)
      PROVE  [Slot!Next]_(Slot!vars)
  <2> DEFINE id == publisher[p].identity
  <2>1. id \in Identities
    BY <1>4, <1>b DEF Reuse, WritePointer, At
  <2>2. UNCHANGED <<payloadFile, manifestFile, corruptions, contended>> /\ current' = id
    BY <1>4 DEF Reuse, WritePointer
  <2>3. contents[id] # NoPayload \/ corruptions > 0 \/ id \in contended
    <3>1. CASE Undamaged /\ id \notin contended
      <4>1. PublicationInv
        BY <3>1 DEF SlotInv, PublishedUntilDamage
      <4>2. manifestFile[id] # NoPayload
        BY <1>4, <3>1, <4>1 DEF PublicationInv, StepFacts, Reuse, WritePointer, At
      <4> QED BY <1>d, <2>1, <4>1, <4>2
              DEF PublicationInv, ManifestBacked, CompleteAndValid
    <3>2. CASE ~Undamaged
      BY <1>a, <3>2 DEF Undamaged
    <3> QED BY <3>1, <3>2
  <2>4. contents' = contents
    BY <2>2 DEF CompleteAndValid
  <2> QED BY <2>1, <2>2, <2>3, <2>4 DEF Slot!Next, Slot!Activate
<1>5. ASSUME NEW p \in Publishers, UnlinkPointer(p)
      PROVE  [Slot!Next]_(Slot!vars)
  <2>1. UNCHANGED <<payloadFile, manifestFile, corruptions, contended>> /\ current' = NoIdentity
    BY <1>5 DEF UnlinkPointer
  <2>2. contents' = contents
    BY <2>1 DEF CompleteAndValid
  <2> QED BY <2>1, <2>2 DEF Slot!Next, Slot!Retire
<1>6. ASSUME NEW id \in Identities, Corrupt(id)
      PROVE  [Slot!Next]_(Slot!vars)
  <2>1. /\ payloadFile' = [payloadFile EXCEPT ![id] = Damaged]
        /\ corruptions' = corruptions + 1
        /\ UNCHANGED <<manifestFile, current, contended>>
    BY <1>6 DEF Corrupt
  <2>2. ~CompleteAndValid(id)'
    BY <1>a, <2>1 DEF CompleteAndValid
  <2>3. \A i \in Identities \ {id} : CompleteAndValid(i)' = CompleteAndValid(i)
                                     /\ payloadFile'[i] = payloadFile[i]
    BY <1>a, <2>1 DEF CompleteAndValid
  <2>4. contents' = [contents EXCEPT ![id] = NoPayload]
    BY <2>2, <2>3
  <2> QED BY <2>1, <2>4 DEF Slot!Next, Slot!Lose
<1>7. ASSUME NEW p \in Publishers, NEW i \in Identities, NEW v \in Payloads,
             BeginPublication(p, i, v)
      PROVE  [Slot!Next]_(Slot!vars)
  <2>1. contents' = contents
    BY <1>7 DEF BeginPublication, disk, CompleteAndValid
  <2>2. CASE contended' = contended
    BY <1>1, <1>7, <2>2 DEF BeginPublication, disk
  <2>3. CASE contended' = contended \union {i}
    BY <1>7, <2>1, <2>3 DEF BeginPublication, disk, Slot!Next, Slot!Contest
  <2>4. contended' = contended \/ contended' = contended \union {i}
    BY <1>7 DEF BeginPublication
  <2> QED BY <2>2, <2>3, <2>4
<1> HIDE DEF contents
<1> QED
  BY <1>1, <1>2, <1>3, <1>4, <1>5, <1>6, <1>7
     DEF Next, vars, disk, PublisherStep, BeginPublication, CheckManifest,
         CheckPayload, CompareExisting, InspectPointer, Crash,
         ReaderStep, BeginRead, ReadPointer, ReadManifest, ReadManifestAgain,
         ReadPayload, EndRead

\* Publishing writes once: through every interleaving, crash, conflicting
\* recomputation and reuse an identity keeps the first payload it was given
\* until that payload is damaged, and current.json moves only to readable
\* artifacts as long as nothing is.
THEOREM StoreImplementsSlot == Spec => ImplementsSlot
<1>1. Init => Slot!Init
  BY OutputsAssumption DEF Init, Slot!Init, CompleteAndValid
<1>2. SlotInv /\ [Next]_vars => [Slot!Next]_(Slot!vars)
  BY StepImplements
<1> QED BY <1>1, <1>2, SlotInvariance, PTL
        DEF Spec, ImplementsSlot, Slot!Spec

-----------------------------------------------------------------------------
(* EvidencePublication: what cells publish, one publication after another. *)

\* The update that belongs under the identity of a checkpoint, trained under a
\* configuration.
UpdateOf(i, cfg) ==
  LET about == i.instance
      material == i.dependencies[1] \o LeftOut(i.family, cfg)
  IN CASE i.family = "anchor" ->
            IF about[2] = "final" THEN <<"anchor", about[1]>> \o material
            ELSE (<<"anchor", about[1]>> \o material) \o <<"round 0">>
       [] i.family = "source" -> <<"candidate", about[1], about[3], about[2]>> \o material
       [] i.family = "baseline" -> <<"baseline", about[1], about[2], about[3]>> \o material

\* A payload is what its identity says and the configuration leaves open, if
\* these determine it.
Fits(cfg, identity, payload) ==
  identity.family \in Determined => payload = [update |-> UpdateOf(identity, cfg)]

\* A sequence of products that fit, none of them of a family that is barred.
Fitting(cfg, barred, products) ==
  \E S : /\ products \in Seq(S)
         /\ \A p \in S : Fits(cfg, p.identity, p.payload) /\ p.identity.family \notin barred

\* One product that fits is a sequence of such, and so is none.
LEMMA FittingOnes ==
  ASSUME NEW cfg, NEW barred, NEW p, Fits(cfg, p.identity, p.payload),
         p.identity.family \notin barred
  PROVE  Fitting(cfg, barred, <<p>>)
<1> DEFINE S == {p}
<1>1. <<p>> \in Seq(S)
  OBVIOUS
<1>2. \A q \in S : Fits(cfg, q.identity, q.payload) /\ q.identity.family \notin barred
  OBVIOUS
<1> HIDE DEF S
<1> QED BY <1>1, <1>2 DEF Fitting

LEMMA FittingNone ==
  ASSUME NEW cfg, NEW barred
  PROVE  Fitting(cfg, barred, <<>>)
<1> DEFINE S == {}
<1>1. <<>> \in Seq(S)
  OBVIOUS
<1>2. \A p \in S : Fits(cfg, p.identity, p.payload) /\ p.identity.family \notin barred
  OBVIOUS
<1> HIDE DEF S
<1> QED BY <1>1, <1>2 DEF Fitting

\* Two sequences of products that fit, one after the other, are one.
LEMMA FittingJoin ==
  ASSUME NEW cfg, NEW barred, NEW s, Fitting(cfg, barred, s), NEW t, Fitting(cfg, barred, t)
  PROVE  Fitting(cfg, barred, s \o t)
<1> DEFINE Good(p) == Fits(cfg, p.identity, p.payload) /\ p.identity.family \notin barred
<1>1. PICK S : s \in Seq(S) /\ \A p \in S : Good(p)
  BY DEF Fitting
<1>2. PICK T : t \in Seq(T) /\ \A p \in T : Good(p)
  BY DEF Fitting
<1>3. s \in Seq(S \union T) /\ t \in Seq(S \union T)
  BY <1>1, <1>2
<1>4. s \o t \in Seq(S \union T)
  BY <1>3
<1>5. \A p \in S \union T : Good(p)
  BY <1>1, <1>2
<1> QED BY <1>4, <1>5 DEF Fitting

\* The head of such a sequence fits, and so does all of its rest.
LEMMA FittingParts ==
  ASSUME NEW cfg, NEW barred, NEW s, Fitting(cfg, barred, s), s # <<>>
  PROVE  Fits(cfg, Head(s).identity, Head(s).payload) /\ Fitting(cfg, barred, Tail(s))
<1>1. PICK S : /\ s \in Seq(S)
               /\ \A p \in S : Fits(cfg, p.identity, p.payload) /\ p.identity.family \notin barred
  BY DEF Fitting
<1>2. Head(s) \in S /\ Tail(s) \in Seq(S)
  BY <1>1
<1> QED BY <1>1, <1>2 DEF Fitting

\* What has no barred family fits when none is barred.
LEMMA FittingAnyway ==
  ASSUME NEW cfg, NEW barred, NEW s, Fitting(cfg, barred, s)
  PROVE  Fitting(cfg, {}, s)
BY DEF Fitting

\* What stands behind a second sequence stands behind both.
LEMMA LastBehind ==
  ASSUME NEW cfg, NEW barred, NEW s, Fitting(cfg, barred, s), NEW t, Fitting(cfg, barred, t),
         NEW q
  PROVE  s \o (t \o <<q>>) = (s \o t) \o <<q>>
<1>1. PICK S : s \in Seq(S)
  BY DEF Fitting
<1>2. PICK T : t \in Seq(T)
  BY DEF Fitting
<1> DEFINE U == S \union T \union {q}
<1>3. s \in Seq(U) /\ t \in Seq(U) /\ <<q>> \in Seq(U)
  BY <1>1, <1>2
<1> HIDE DEF U
<1> QED BY <1>3

LEMMA IdentitiesOfNone == IdentitiesIn(<<>>) = {}
BY DEF IdentitiesIn

\* Identities of two sequences of products, of the head and the rest.
LEMMA IdentitiesOfJoin ==
  ASSUME NEW cfg, NEW barred, NEW s, Fitting(cfg, barred, s),
         NEW t, Fitting(cfg, barred, t)
  PROVE  IdentitiesIn(s \o t)
           = IdentitiesIn(s) \union IdentitiesIn(t)
<1>1. PICK S : s \in Seq(S)
  BY DEF Fitting
<1>2. PICK T : t \in Seq(T)
  BY DEF Fitting
<1>3. s \in Seq(S \union T) /\ t \in Seq(S \union T)
  BY <1>1, <1>2
<1>4. /\ Len(s) \in Nat /\ DOMAIN s = 1..Len(s) /\ Len(t) \in Nat /\ DOMAIN t = 1..Len(t)
      /\ DOMAIN (s \o t) = 1..(Len(s) + Len(t))
      /\ \A k \in 1..(Len(s) + Len(t)) :
           (s \o t)[k] = IF k <= Len(s) THEN s[k] ELSE t[k - Len(s)]
  BY <1>3
<1> DEFINE n == Len(s)
           m == Len(t)
           u == s \o t
<1> HIDE DEF n, m, u
<1>5. /\ n \in Nat /\ DOMAIN s = 1..n /\ m \in Nat /\ DOMAIN t = 1..m /\ DOMAIN u = 1..(n + m)
      /\ \A k \in 1..(n + m) : u[k] = IF k <= n THEN s[k] ELSE t[k - n]
  BY <1>4 DEF n, m, u
<1>6. ASSUME NEW k \in 1..(n + m)
      PROVE  \/ k \in 1..n /\ u[k] = s[k]
             \/ k - n \in 1..m /\ u[k] = t[k - n]
  BY <1>5
<1>7. ASSUME NEW k \in 1..n PROVE k \in 1..(n + m) /\ u[k] = s[k]
  BY <1>5
<1>8. ASSUME NEW k \in 1..m PROVE k + n \in 1..(n + m) /\ u[k + n] = t[k]
  <2>1. k + n \in 1..(n + m) /\ ~ (k + n <= n) /\ (k + n) - n = k
    BY <1>5
  <2> QED BY <1>5, <2>1
<1>9. IdentitiesIn(u) \subseteq IdentitiesIn(s) \union IdentitiesIn(t)
  BY <1>5, <1>6 DEF IdentitiesIn
<1>10. IdentitiesIn(s) \subseteq IdentitiesIn(u)
  BY <1>5, <1>7 DEF IdentitiesIn
<1>11. IdentitiesIn(t) \subseteq IdentitiesIn(u)
  BY <1>5, <1>8 DEF IdentitiesIn
<1>12. IdentitiesIn(u) = IdentitiesIn(s) \union IdentitiesIn(t)
  BY <1>9, <1>10, <1>11
<1> QED BY <1>12 DEF u

LEMMA IdentitiesOfRest ==
  ASSUME NEW cfg, NEW barred, NEW s, Fitting(cfg, barred, s), s # <<>>
  PROVE  IdentitiesIn(s)
           \subseteq {Head(s).identity} \union IdentitiesIn(Tail(s))
<1>1. PICK S : s \in Seq(S)
  BY DEF Fitting
<1> DEFINE n == Len(s)
           rest == Tail(s)
<1>2. /\ n \in Nat /\ DOMAIN s = 1..n /\ Head(s) = s[1]
      /\ DOMAIN rest = 1..(n - 1) /\ \A k \in 1..(n - 1) : rest[k] = s[k + 1]
  BY <1>1
<1> HIDE DEF n, rest
<1>3. ASSUME NEW k \in 1..n
      PROVE  k = 1 \/ (k - 1 \in 1..(n - 1) /\ rest[k - 1] = s[k])
  BY <1>2
<1>4. IdentitiesIn(s) \subseteq {Head(s).identity} \union IdentitiesIn(rest)
  <2> SUFFICES ASSUME NEW k \in 1..n
               PROVE  \/ s[k].identity = Head(s).identity
                      \/ \E j \in 1..(n - 1) : s[k].identity = rest[j].identity
    BY <1>2 DEF IdentitiesIn
  <2>1. CASE k = 1
    BY <1>2, <2>1
  <2>2. CASE k - 1 \in 1..(n - 1) /\ rest[k - 1] = s[k]
    BY <2>2
  <2> QED BY <1>3, <2>1, <2>2
<1> QED BY <1>4 DEF rest

LEMMA ProductFields ==
  ASSUME NEW i, NEW payload
  PROVE  Product(i, payload).identity = i
         /\ Product(i, payload).payload = payload
BY DEF Product

LEMMA IdentityFields ==
  ASSUME NEW f, NEW e, NEW a, NEW d
  PROVE  LET i == Identity(f, e, a, d)
         IN i.family = f /\ i.instance = a /\ i.dependencies = d
BY DEF Identity

\* What no identity of a checkpoint is about fits by itself.
LEMMA OthersFit ==
  ASSUME NEW cfg, NEW f, NEW e, NEW a, NEW d, NEW payload,
         f \notin {"anchor", "source", "baseline"}
  PROVE  LET p == Product(Identity(f, e, a, d), payload)
         IN Fits(cfg, p.identity, p.payload)
BY ProductFields, IdentityFields DEF Fits, Determined

LEMMA FamilyOf ==
  ASSUME NEW f, NEW e, NEW a, NEW d, NEW payload
  PROVE  Product(Identity(f, e, a, d), payload).identity.family = f
BY ProductFields, IdentityFields

LEMMA CheckpointFields ==
  ASSUME NEW f, NEW a, NEW u
  PROVE  LET p == Checkpoint(f, a, u)
         IN /\ p.identity = Identity(f, Shared, a, <<Covered(f, configuration)>>)
            /\ p.payload = [update |-> u]
BY ProductFields DEF Checkpoint

\* publish_anchor_checkpoints: the final model and the round start.
LEMMA AnchorFits ==
  ASSUME NEW c
  PROVE  Fitting(configuration, {"decision"}, AnchorEvidence(c))
<1> DEFINE covered == Covered("anchor", configuration)
           material == Material("anchor")
           i == Identity("anchor", Shared, <<c.seed, "final">>, <<covered>>)
           j == Identity("anchor", Shared, <<c.seed, "round-start-00">>, <<covered>>)
           p == Checkpoint("anchor", <<c.seed, "final">>, AnchorModel(c))
           start == AnchorModel(c) \o <<"round 0">>
           q == Checkpoint("anchor", <<c.seed, "round-start-00">>, start)
<1>1. AnchorModel(c) = <<"anchor", c.seed>> \o material
  BY DEF AnchorModel
<1>2. /\ p.identity = i /\ p.payload = [update |-> <<"anchor", c.seed>> \o material]
      /\ q.identity = j
      /\ q.payload = [update |-> (<<"anchor", c.seed>> \o material) \o <<"round 0">>]
  <2>1. p.identity = i /\ p.payload = [update |-> AnchorModel(c)]
    BY CheckpointFields
  <2>2. q.identity = j /\ q.payload = [update |-> start]
    <3> HIDE DEF start
    <3> QED BY CheckpointFields
  <2> HIDE DEF p, q, i, j, material, covered
  <2> QED BY <1>1, <2>1, <2>2
<1>3. material = covered \o LeftOut("anchor", configuration)
  BY DEF Material
<1> HIDE DEF material, covered, p, q
<1>4. /\ i.family = "anchor" /\ i.instance = <<c.seed, "final">> /\ i.dependencies = <<covered>>
      /\ j.family = "anchor" /\ j.instance = <<c.seed, "round-start-00">>
      /\ j.dependencies = <<covered>>
  BY IdentityFields
<1> HIDE DEF i, j
<1>5. UpdateOf(i, configuration) = <<"anchor", c.seed>> \o material
  BY <1>3, <1>4 DEF UpdateOf
<1>6. UpdateOf(j, configuration) = (<<"anchor", c.seed>> \o material) \o <<"round 0">>
  <2>1. /\ j.instance[2] = "round-start-00" /\ j.instance[1] = c.seed
        /\ j.dependencies[1] = covered
    BY <1>4
  <2>2. "round-start-00" # "final"
    OBVIOUS
  <2> QED BY <1>3, <1>4, <2>1, <2>2 DEF UpdateOf
<1>7. /\ Fits(configuration, p.identity, p.payload) /\ p.identity.family = "anchor"
      /\ Fits(configuration, q.identity, q.payload) /\ q.identity.family = "anchor"
  BY <1>2, <1>4, <1>5, <1>6 DEF Fits
<1>8. AnchorEvidence(c) = <<p, q>>
  BY DEF AnchorEvidence, p, q
<1> DEFINE S == {p, q}
<1>9. <<p, q>> \in Seq(S)
  OBVIOUS
<1>10. \A x \in S : /\ Fits(configuration, x.identity, x.payload)
                    /\ x.identity.family \notin {"decision"}
  BY <1>7
<1> HIDE DEF S
<1> QED BY <1>8, <1>9, <1>10 DEF Fitting

\* The checkpoint of a candidate.
LEMMA SourceFits ==
  ASSUME NEW c
  PROVE  Fitting(configuration, {"decision"}, SourceEvidence(c))
<1> DEFINE covered == Covered("source", configuration)
           material == Material("source")
           about == <<c.seed, c.episode, c.source>>
           i == Identity("source", Shared, about, <<covered>>)
           p == Checkpoint("source", about, CandidateUpdate(c))
<1>1. /\ p.identity = i
      /\ p.payload = [update |-> <<"candidate", c.seed, c.source, c.episode>> \o material]
  BY ProductFields DEF Checkpoint, CandidateUpdate
<1>2. material = covered \o LeftOut("source", configuration)
  BY DEF Material
<1> HIDE DEF material, covered, p
<1>3. i.family = "source" /\ i.instance = about /\ i.dependencies = <<covered>>
  BY IdentityFields
<1> HIDE DEF i
<1>4. Fits(configuration, p.identity, p.payload) /\ p.identity.family = "source"
  BY <1>1, <1>2, <1>3 DEF Fits, UpdateOf
<1> HIDE DEF about
<1>5. SourceEvidence(c) = <<p>> \/ SourceEvidence(c) = <<>>
  BY DEF SourceEvidence, p, about
<1> QED BY <1>4, <1>5, FittingOnes, FittingNone

\* The checkpoint of a baseline.
LEMMA BaselineFits ==
  ASSUME NEW c
  PROVE  Fitting(configuration, {"decision"},
                 <<Checkpoint("baseline", BaselineStage(c), BaselineUpdate(c))>>)
<1> DEFINE covered == Covered("baseline", configuration)
           material == Material("baseline")
           about == <<c.seed, c.method, c.condition>>
           i == Identity("baseline", Shared, about, <<covered>>)
           p == Checkpoint("baseline", BaselineStage(c), BaselineUpdate(c))
<1>1. /\ p.identity = i
      /\ p.payload = [update |-> <<"baseline", c.seed, c.method, c.condition>> \o material]
  BY ProductFields DEF Checkpoint, BaselineUpdate, BaselineStage
<1>2. material = covered \o LeftOut("baseline", configuration)
  BY DEF Material
<1> HIDE DEF material, covered, p
<1>3. i.family = "baseline" /\ i.instance = about /\ i.dependencies = <<covered>>
  BY IdentityFields
<1> HIDE DEF i
<1>4. Fits(configuration, p.identity, p.payload) /\ p.identity.family = "baseline"
  BY <1>1, <1>2, <1>3 DEF Fits, UpdateOf
<1> QED BY <1>4, FittingOnes DEF p

LEMMA ScoreFits ==
  ASSUME NEW cfg, NEW model, NEW domain, NEW role, NEW shift
  PROVE  LET p == Score(model, domain, role, shift)
         IN Fits(cfg, p.identity, p.payload) /\ p.identity.family = "score"
<1> DEFINE i == Identity("score", Shared, model \o <<domain, role>>, <<model, <<domain, role>> >>)
           p == Product(i, [predictions |-> <<shift>>])
<1>1. Fits(cfg, p.identity, p.payload)
  BY OthersFit
<1>2. p.identity.family = "score"
  BY FamilyOf
<1>3. p = Score(model, domain, role, shift)
  BY DEF Score
<1> HIDE DEF p
<1> QED BY <1>1, <1>2, <1>3

\* The scores of a role, of the anchor and of the production.
LEMMA RoleScoresFit ==
  ASSUME NEW c, NEW role, NEW shift
  PROVE  Fitting(configuration, {"decision"}, RoleScores(c, role, shift))
<1> DEFINE p == Score(AnchorModel(c), c.judge, role, shift)
           q == Score(ProductionModel(c), c.judge, role, shift)
           S == {p, q}
<1>1. \A x \in S : /\ Fits(configuration, x.identity, x.payload)
                   /\ x.identity.family \notin {"decision"}
  BY ScoreFits
<1>2. \/ RoleScores(c, role, shift) = <<p, q>>
      \/ RoleScores(c, role, shift) = <<>>
  BY DEF RoleScores
<1> HIDE DEF p, q
<1>3. <<p, q>> \in Seq(S)
  OBVIOUS
<1> HIDE DEF S
<1> QED BY <1>1, <1>2, <1>3, FittingNone DEF Fitting

LEMMA GateScoresFit ==
  ASSUME NEW c
  PROVE  Fitting(configuration, {"decision"}, GateScores(c))
<1> DEFINE s == RoleScores(c, "gate", c.shift)
           t == RoleScores(c, "report", "none")
<1>1. Fitting(configuration, {"decision"}, s) /\ Fitting(configuration, {"decision"}, t)
  BY RoleScoresFit
<1>2. GateScores(c) = s \o t
  BY DEF GateScores
<1> HIDE DEF s, t
<1> QED BY <1>1, <1>2, FittingJoin

LEMMA FunctionIsSequence ==
  ASSUME NEW n \in Nat, NEW S, NEW s \in [1..n -> S]
  PROVE  s \in Seq(S)
OBVIOUS

LEMMA RowsFit ==
  ASSUME NEW c, IsSequence(c.rows)
  PROVE  Fitting(configuration, {"decision"}, RowEvidence(c))
<1> DEFINE s == RowEvidence(c)
           n == Len(c.rows)
           S == {s[k] : k \in 1..n}
<1>1. n \in Nat /\ DOMAIN c.rows = 1..n
  BY DEF IsSequence
<1>2. \A k \in 1..n : /\ Fits(configuration, s[k].identity, s[k].payload)
                      /\ s[k].identity.family \notin {"decision"}
  <2>1. \A k \in 1..n : s[k] = Checkpoint("reproduction",
            <<c.seed, c.rows[k], c.condition>>, RowUpdate(c, c.rows[k]))
    BY <1>1 DEF RowEvidence
  <2> HIDE DEF s, n
  <2>2. \A k \in 1..n : Fits(configuration, s[k].identity, s[k].payload)
    BY <2>1, OthersFit DEF Checkpoint
  <2>3. \A k \in 1..n : s[k].identity.family = "reproduction"
    <3> TAKE k \in 1..n
    <3> DEFINE i == Identity("reproduction", Shared, <<c.seed, c.rows[k], c.condition>>,
                            <<Covered("reproduction", configuration)>>)
    <3>1. s[k] = Product(i, [update |-> RowUpdate(c, c.rows[k])])
      BY <2>1 DEF Checkpoint
    <3>2. i.family = "reproduction"
      BY IdentityFields
    <3> HIDE DEF i
    <3> QED BY <3>1, <3>2, ProductFields
  <2> QED BY <2>2, <2>3
<1>3. s \in [1..n -> S]
  BY <1>1 DEF RowEvidence
<1> HIDE DEF s, n
<1>4. s \in Seq(S)
  <2> HIDE DEF S
  <2> QED BY <1>1, <1>3, FunctionIsSequence
<1> QED BY <1>2, <1>4 DEF Fitting, s

LEMMA CalibrationFits ==
  ASSUME NEW c
  PROVE  Fitting(configuration, {"decision"}, CalibrationEvidence(c))
<1> DEFINE p == Product(
             Identity("calibration", c.experiment, <<c.method>>,
                          << <<configuration.data, configuration.baselines>> >>),
             [seed |-> c.seed, population |-> AnchorModel(c)])
<1>1. Fits(configuration, p.identity, p.payload) /\ p.identity.family \notin {"decision"}
  <2>1. Fits(configuration, p.identity, p.payload)
    BY OthersFit
  <2>2. p.identity.family = "calibration"
    BY FamilyOf
  <2> HIDE DEF p
  <2> QED BY <2>1, <2>2
<1> HIDE DEF p
<1>2. CalibrationEvidence(c) = <<p>> \/ CalibrationEvidence(c) = <<>>
  BY DEF CalibrationEvidence, p
<1> QED BY <1>1, <1>2, FittingOnes, FittingNone

\* A gate decision comes last, behind the synthesis if there is one.
LEMMA DecisionFits ==
  ASSUME NEW c
  PROVE  \E synthesis, decision :
           /\ DecisionEvidence(c) = synthesis \o <<decision>>
           /\ Fitting(configuration, {"decision"}, synthesis)
           /\ Fits(configuration, decision.identity, decision.payload)
           /\ decision.identity.family = "decision"
           /\ decision.identity.instance = ProductionModel(c)
<1> DEFINE dependencies == <<ProductionModel(c), <<configuration.rules>> >>
           i == Identity("decision", c.experiment, ProductionModel(c), dependencies)
           p == Product(
             Identity("synthesis", c.experiment, ProductionModel(c), dependencies),
             [seed |-> c.seed, committee |-> Len(c.rows)])
           q == Product(i, [seed |-> c.seed, plural |-> c.plural, admitted |-> Admits(c)])
           synthesis == IF c.plural THEN <<p>> ELSE <<>>
<1>1. Fits(configuration, p.identity, p.payload) /\ p.identity.family \notin {"decision"}
  <2> HIDE DEF dependencies
  <2>1. Fits(configuration, p.identity, p.payload)
    BY OthersFit
  <2>2. p.identity.family = "synthesis"
    BY FamilyOf
  <2> HIDE DEF p
  <2> QED BY <2>1, <2>2
<1>2. Fits(configuration, q.identity, q.payload) /\ q.identity.family = "decision"
  <2> HIDE DEF dependencies
  <2>1. Fits(configuration, q.identity, q.payload)
    BY OthersFit
  <2>2. q.identity.family = "decision"
    BY FamilyOf
  <2> QED BY <2>1, <2>2
<1>3. q.identity.instance = ProductionModel(c)
  <2> HIDE DEF dependencies
  <2> QED BY ProductFields, IdentityFields
<1>4. DecisionEvidence(c) = synthesis \o <<q>>
  BY DEF DecisionEvidence
<1> HIDE DEF p, q
<1>5. Fitting(configuration, {"decision"}, synthesis)
  BY <1>1, FittingOnes, FittingNone
<1> HIDE DEF synthesis
<1> QED BY <1>2, <1>3, <1>4, <1>5

\* Some numbers up to n have a least one.
LEMMA LeastNumber ==
  ASSUME NEW n \in Nat, NEW S \in SUBSET (0..n), S # {}
  PROVE  \E x \in S : \A y \in S : x <= y
<1>0. IsFiniteSet(S)
  <2> DEFINE lowest == 0
             upTo == lowest..n
  <2>1. lowest \in Int /\ n \in Int
    OBVIOUS
  <2> HIDE DEF lowest
  <2>2. IsFiniteSet(upTo)
    BY <2>1, FS_Interval
  <2>3. S \in SUBSET upTo
    BY DEF lowest
  <2> HIDE DEF upTo
  <2> QED BY <2>2, <2>3, FS_Subset
<1> DEFINE Under(x) == {y \in S : y <= x}
           U == {Under(x) : x \in S}
<1>1. U # {} /\ U \subseteq FiniteSubsetsOf(S)
  <2>1. ASSUME NEW x \in S PROVE Under(x) \in FiniteSubsetsOf(S)
    <3>1. Under(x) \in SUBSET S
      OBVIOUS
    <3> QED BY <1>0, <3>1, FS_Subset DEF FiniteSubsetsOf
  <2> QED BY <2>1
<1>2. \E u \in U : \A v \in U : ~ (<<v, u>> \in StrictSubsetOrdering(S))
  BY <1>1, FS_StrictSubsetOrderingWellFounded, WFMin
<1>3. PICK x \in S : \A y \in S : ~ (<<Under(y), Under(x)>> \in StrictSubsetOrdering(S))
  BY <1>2
<1>4. ASSUME NEW y \in S, y < x PROVE FALSE
  <2>0. \A z \in S : z \in Int
    OBVIOUS
  <2>1. Under(y) \subseteq Under(x) /\ x \in Under(x) /\ x \notin Under(y)
    <3> HIDE DEF U
    <3>1. x \in Int /\ y \in Int /\ y < x
      BY <1>4, <2>0
    <3>2. \A z \in S : z <= y => z <= x
      BY <2>0, <3>1
    <3>3. x \notin Under(y) /\ x \in Under(x)
      BY <3>1
    <3> QED BY <3>2, <3>3
  <2>2. <<Under(y), Under(x)>> \in StrictSubsetOrdering(S)
    BY <2>1 DEF StrictSubsetOrdering
  <2> QED BY <2>2, <1>3
<1>5. \A y \in S : y < x \/ x <= y
  OBVIOUS
<1> QED BY <1>4, <1>5

\* The screens of a cell are gathered one after the other.
Gathers(upTo, n, c) ==
  upTo = [k \in 0..n |->
            IF k = 0 THEN <<>>
            ELSE upTo[k - 1] \o ScreenScores(c, ScreenOrder[k])
                             \o <<ScreenResult(c, ScreenOrder[k])>>]

\* The recursive definition of what the screens leave has a solution.
LEMMA GatheringExists ==
  ASSUME NEW n \in Nat, NEW c
  PROVE  \E upTo : Gathers(upTo, n, c)
<1> DEFINE Bad == {m \in 0..n : ~ \E upTo : Gathers(upTo, m, c)}
<1> SUFFICES ASSUME Bad # {} PROVE FALSE
  OBVIOUS
<1>1. PICK m \in Bad : \A k \in Bad : m <= k
  <2>1. Bad \in SUBSET (0..n)
    OBVIOUS
  <2> HIDE DEF Bad
  <2> QED BY <2>1, LeastNumber
<1>2. m \in 0..n /\ ~ \E upTo : Gathers(upTo, m, c)
  OBVIOUS
<1>3. m # 0
  <2> SUFFICES ASSUME m = 0 PROVE \E upTo : Gathers(upTo, m, c)
    BY <1>2
  <2> DEFINE none == [k \in 0..0 |-> <<>>]
  <2>1. Gathers(none, 0, c)
    BY DEF Gathers
  <2> HIDE DEF none
  <2> QED BY <2>1
<1>4. m - 1 \in 0..n /\ m - 1 \notin Bad
  BY <1>1, <1>2, <1>3
<1>5. PICK before : Gathers(before, m - 1, c)
  BY <1>4
<1> DEFINE add(k) == ScreenScores(c, ScreenOrder[k])
           last(k) == <<ScreenResult(c, ScreenOrder[k])>>
           upTo == [k \in 0..m |-> IF k = m THEN before[m - 1] \o add(m) \o last(m)
                                   ELSE before[k]]
<1>6. ASSUME NEW k \in 0..m
      PROVE  upTo[k] = IF k = 0 THEN <<>> ELSE upTo[k - 1] \o add(k) \o last(k)
  <2> HIDE DEF add, last, Bad
  <2>1. CASE k = m
    <3>1. upTo[m - 1] = before[m - 1]
      BY <1>2, <1>3
    <3>2. upTo[m] = before[m - 1] \o add(m) \o last(m)
      BY <1>2
    <3> HIDE DEF upTo
    <3> QED BY <1>3, <2>1, <3>1, <3>2
  <2>2. CASE k # m
    <3>1. k \in 0..(m - 1)
      BY <1>2, <2>2
    <3>2. before[k] = IF k = 0 THEN <<>> ELSE before[k - 1] \o add(k) \o last(k)
      BY <1>5, <3>1 DEF Gathers, add, last
    <3>3. upTo[k] = before[k] /\ (k # 0 => upTo[k - 1] = before[k - 1])
      BY <1>2, <2>2, <3>1
    <3> HIDE DEF upTo
    <3> QED BY <3>2, <3>3
  <2> QED BY <2>1, <2>2
<1>7. upTo = [k \in 0..m |-> upTo[k]]
  OBVIOUS
<1> HIDE DEF upTo
<1>8. Gathers(upTo, m, c)
  BY <1>6, <1>7 DEF Gathers
<1> QED BY <1>2, <1>8

LEMMA ScreenScoresFit ==
  ASSUME NEW c, NEW d
  PROVE  Fitting(configuration, {"decision"}, ScreenScores(c, d))
<1> DEFINE Plain(s) == Fitting(configuration, {"decision"}, s)
           p == Score(AnchorModel(c), d, "screen", "none")
           q == Score(CandidateModel(c), d, "screen", "none")
<1>1. /\ Fits(configuration, p.identity, p.payload) /\ p.identity.family = "score"
      /\ Fits(configuration, q.identity, q.payload) /\ q.identity.family = "score"
  BY ScoreFits
<1> DEFINE rest == IF HasCandidate(c) THEN <<q>> ELSE <<>>
<1>2. \/ ScreenScores(c, d) = <<>>
      \/ ScreenScores(c, d) = <<p>> \o rest
  BY DEF ScreenScores
<1> HIDE DEF p, q
<1>3. Plain(<<p>>) /\ Plain(<<q>>) /\ Plain(<<>>)
  BY <1>1, FittingOnes, FittingNone
<1>4. Plain(rest)
  BY <1>3
<1> HIDE DEF rest
<1> QED BY <1>2, <1>3, <1>4, FittingJoin

LEMMA ScreenResultFits ==
  ASSUME NEW c, NEW d
  PROVE  Fitting(configuration, {"decision"}, <<ScreenResult(c, d)>>)
<1> DEFINE p == ScreenResult(c, d)
<1>1. Fits(configuration, p.identity, p.payload) /\ p.identity.family \notin {"decision"}
  <2>1. Fits(configuration, p.identity, p.payload)
    BY OthersFit DEF ScreenResult
  <2>2. p.identity.family = "screen"
    BY FamilyOf DEF ScreenResult
  <2> HIDE DEF p
  <2> QED BY <2>1, <2>2
<1> HIDE DEF p
<1> QED BY <1>1, FittingOnes DEF p

LEMMA ScreensFit ==
  ASSUME NEW c, IsSequence(ScreenOrder)
  PROVE  Fitting(configuration, {"decision"}, ScreenEvidence(c))
<1> DEFINE Plain(s) == Fitting(configuration, {"decision"}, s)
           n == Len(ScreenOrder)
           upTo == CHOOSE f : Gathers(f, n, c)
<1>1. n \in Nat
  BY DEF IsSequence
<1> HIDE DEF n
<1>2. Gathers(upTo, n, c)
  BY <1>1, GatheringExists
<1> HIDE DEF upTo
<1> DEFINE Bad == {k \in 0..n : ~ Plain(upTo[k])}
<1>3. ASSUME Bad # {} PROVE FALSE
  <2>1. PICK m \in Bad : \A k \in Bad : m <= k
    <3>1. Bad \in SUBSET (0..n)
      OBVIOUS
    <3> HIDE DEF Bad
    <3> QED BY <1>1, <1>3, <3>1, LeastNumber
  <2>2. m \in 0..n /\ ~ Plain(upTo[m])
    OBVIOUS
  <2> DEFINE scores == ScreenScores(c, ScreenOrder[m])
             result == <<ScreenResult(c, ScreenOrder[m])>>
  <2>3. upTo[m] = IF m = 0 THEN <<>> ELSE upTo[m - 1] \o scores \o result
    BY <1>2, <2>2 DEF Gathers
  <2>4. m # 0
    BY <2>2, <2>3, FittingNone
  <2>5. m - 1 \in 0..n /\ m - 1 \notin Bad
    BY <1>1, <2>1, <2>2, <2>4
  <2>6. Plain(upTo[m - 1])
    BY <2>5
  <2>7. Plain(scores) /\ Plain(result)
    BY ScreenScoresFit, ScreenResultFits
  <2> HIDE DEF scores, result, Bad
  <2>8. Plain(upTo[m - 1] \o scores)
    BY <2>6, <2>7, FittingJoin
  <2>9. Plain(upTo[m - 1] \o scores \o result)
    BY <2>7, <2>8, FittingJoin
  <2> QED BY <2>2, <2>3, <2>4, <2>9
<1>4. Plain(upTo[n])
  BY <1>1, <1>3
<1>5. \/ ScreenEvidence(c) = <<>>
      \/ ScreenEvidence(c) = upTo[n]
  BY DEF ScreenEvidence, upTo, Gathers, n
<1> QED BY <1>4, <1>5, FittingNone

\* What a cell leaves has its gate decision, if it comes to one, at the end and
\* the scores of the gate before.
EvidenceShape(c, before, decision) ==
  \/ Evidence(c) = before
  \/ /\ Evidence(c) = before \o <<decision>>
     /\ Fits(configuration, decision.identity, decision.payload)
     /\ decision.identity.family = "decision"
     /\ decision.identity.instance = ProductionModel(c)
     /\ IdentitiesIn(GateScores(c)) \subseteq IdentitiesIn(before)

LEMMA EvidenceHasShape ==
  ASSUME NEW c, IsSequence(ScreenOrder), IsSequence(c.rows)
  PROVE  \E before, decision :
           Fitting(configuration, {"decision"}, before) /\ EvidenceShape(c, before, decision)
<1> DEFINE Plain(s) == Fitting(configuration, {"decision"}, s)
           scores == GateScores(c)
           calibration == CalibrationEvidence(c)
           baseline == <<Checkpoint("baseline", BaselineStage(c), BaselineUpdate(c))>>
           source == SourceEvidence(c)
           screens == ScreenEvidence(c)
           rows == RowEvidence(c)
<1>1. PICK synthesis, decision :
        /\ DecisionEvidence(c) = synthesis \o <<decision>>
        /\ Plain(synthesis)
        /\ Fits(configuration, decision.identity, decision.payload)
        /\ decision.identity.family = "decision"
        /\ decision.identity.instance = ProductionModel(c)
  BY DecisionFits
<1>2. /\ Plain(scores) /\ Plain(calibration) /\ Plain(baseline)
      /\ Plain(source) /\ Plain(screens) /\ Plain(rows)
  BY GateScoresFit, CalibrationFits, BaselineFits, SourceFits, ScreensFit, RowsFit
<1>3. \/ Evidence(c) = calibration \o baseline \o scores \o (synthesis \o <<decision>>)
      \/ Evidence(c) = source \o screens \o <<>>
      \/ Evidence(c) = source \o screens \o (rows \o scores \o (synthesis \o <<decision>>))
  BY <1>1 DEF Evidence, BaselineEvidence, ProtocolEvidence
<1> HIDE DEF scores, calibration, baseline, source, screens, rows
<1>4. /\ Plain(calibration \o baseline) /\ Plain(source \o screens) /\ Plain(rows \o scores)
      /\ Plain(calibration \o baseline \o scores) /\ Plain(scores \o synthesis)
      /\ Plain(<<>>)
  <2>1. /\ Plain(calibration \o baseline) /\ Plain(source \o screens) /\ Plain(rows \o scores)
        /\ Plain(scores \o synthesis) /\ Plain(<<>>)
    BY <1>1, <1>2, FittingJoin, FittingNone
  <2>2. Plain((calibration \o baseline) \o scores)
    BY <1>2, <2>1, FittingJoin
  <2> QED BY <2>1, <2>2
<1>5. CASE Evidence(c) = calibration \o baseline \o scores \o (synthesis \o <<decision>>)
  <2> DEFINE first == calibration \o baseline \o scores
  <2>1. Plain(first \o synthesis)
    BY <1>1, <1>4, FittingJoin
  <2>2. Evidence(c) = (first \o synthesis) \o <<decision>>
    BY <1>1, <1>4, <1>5, LastBehind
  <2>3. IdentitiesIn(scores) \subseteq IdentitiesIn(first)
    BY <1>2, <1>4, IdentitiesOfJoin
  <2>4. IdentitiesIn(scores) \subseteq IdentitiesIn(first \o synthesis)
    <3> HIDE DEF first
    <3> QED BY <1>1, <1>4, <2>3, IdentitiesOfJoin DEF first
  <2> HIDE DEF first
  <2> QED BY <1>1, <2>1, <2>2, <2>4 DEF EvidenceShape, scores
<1>6. CASE Evidence(c) = source \o screens \o <<>>
  <2>1. Plain(source \o screens \o <<>>)
    BY <1>4, FittingJoin
  <2> QED BY <1>6, <2>1 DEF EvidenceShape
<1>7. CASE Evidence(c) = source \o screens \o (rows \o scores \o (synthesis \o <<decision>>))
  <2> DEFINE first == source \o screens
             second == rows \o scores
             third == second \o synthesis
  <2>1. Plain(first) /\ Plain(second) /\ Plain(third)
    BY <1>1, <1>4, FittingJoin
  <2>2. second \o (synthesis \o <<decision>>) = third \o <<decision>>
    BY <1>1, <1>4, LastBehind
  <2>3. IdentitiesIn(scores) \subseteq IdentitiesIn(second)
    BY <1>2, IdentitiesOfJoin
  <2>4. IdentitiesIn(scores) \subseteq IdentitiesIn(third)
    <3> HIDE DEF second
    <3> QED BY <1>1, <2>1, <2>3, IdentitiesOfJoin
  <2>5. Evidence(c) = first \o (third \o <<decision>>)
    BY <1>7, <2>2
  <2> HIDE DEF first, second, third
  <2>6. Evidence(c) = (first \o third) \o <<decision>>
    BY <2>1, <2>5, LastBehind
  <2>7. Plain(first \o third) /\ IdentitiesIn(scores) \subseteq IdentitiesIn(first \o third)
    BY <2>1, <2>4, FittingJoin, IdentitiesOfJoin
  <2> QED BY <1>1, <2>6, <2>7 DEF EvidenceShape, scores
<1> QED BY <1>3, <1>5, <1>6, <1>7

\* Whatever a cell leaves, an identity of a checkpoint comes with its update.
LEMMA EvidenceFits ==
  ASSUME NEW c, IsSequence(ScreenOrder), IsSequence(c.rows)
  PROVE  Fitting(configuration, {}, Evidence(c))
<1>1. PICK before, decision :
        Fitting(configuration, {"decision"}, before) /\ EvidenceShape(c, before, decision)
  BY EvidenceHasShape
<1>2. Fitting(configuration, {}, before)
  BY <1>1, FittingAnyway
<1>3. CASE Evidence(c) = before
  BY <1>2, <1>3
<1>4. CASE /\ Evidence(c) = before \o <<decision>>
           /\ Fits(configuration, decision.identity, decision.payload)
  <2>1. Fitting(configuration, {}, <<decision>>)
    BY <1>4, FittingOnes
  <2> QED BY <1>2, <1>4, <2>1, FittingJoin
<1> QED BY <1>1, <1>3, <1>4 DEF EvidenceShape

\* The record of the process and the cell it works on.
ProcessStands ==
  /\ process = [phase |-> process.phase, experiment |-> process.experiment,
                position |-> process.position, overwrite |-> process.overwrite,
                cell |-> process.cell, todo |-> process.todo]
  /\ process.phase = "idle" => process.todo = <<>>
  /\ process.phase # "idle" =>
       process.experiment \in DOMAIN Plan /\ process.position \in Nat \ {0}
  /\ process.phase \in {"anchor", "cell"} => process.cell \in Cells

\* Everything in the store carries under the identity of a checkpoint the
\* update that belongs there, of the configuration it was stored under.
StoreFits ==
  /\ DOMAIN made = DOMAIN stored
  /\ \A i \in DOMAIN stored : Fits(made[i], i, stored[i])
  /\ \A s \in DOMAIN latest : latest[s].identity \in DOMAIN made
  /\ CheckpointsStayCurrent

\* What is still to be published is of the configuration at hand.
CheckpointInv == ProcessStands /\ Fitting(configuration, {}, process.todo) /\ StoreFits

\* publish_artifact turns no checkpoint away whose update depends on nothing
\* else than what was stored.
LEMMA PublishKeepsCurrent ==
  ASSUME StoreFits, NEW p, Fits(configuration, p.identity, p.payload), Publish(p)
  PROVE  StoreFits'
<1> DEFINE i == p.identity
           v == p.payload
           s == SlotOf(i)
           conflict == i \in DOMAIN stored /\ stored[i] # v
           offer == [identity |-> i, configuration |-> configuration]
<1>1. /\ latest' = With(latest, s, offer)
      /\ stored' = IF i \in DOMAIN stored THEN stored ELSE With(stored, i, v)
      /\ made' = IF i \in DOMAIN stored THEN made ELSE With(made, i, configuration)
      /\ pointer' = IF ~conflict THEN With(pointer, s, i)
                    ELSE IF s \in DOMAIN pointer /\ pointer[s] = i
                         THEN Without(pointer, s) ELSE pointer
  BY DEF Publish
<1>2. s.family = i.family
  BY DEF SlotOf
<1>3. /\ Fits(configuration, i, v)
      /\ DOMAIN made = DOMAIN stored
      /\ \A j \in DOMAIN stored : Fits(made[j], j, stored[j])
      /\ \A t \in DOMAIN latest : latest[t].identity \in DOMAIN made
  BY DEF StoreFits
<1>4. i.family \in Determined /\ conflict
        => LeftOut(i.family, made[i]) # LeftOut(i.family, configuration)
  <2>1. LeftOut(i.family, made[i]) = LeftOut(i.family, configuration)
          => UpdateOf(i, made[i]) = UpdateOf(i, configuration)
    BY DEF UpdateOf
  <2> QED BY <1>3, <2>1 DEF Fits
<1>5. offer.identity = i /\ offer.configuration = configuration
  OBVIOUS
<1> HIDE DEF i, v, s, conflict, offer
<1>6. /\ DOMAIN stored' = DOMAIN stored \union {i} /\ DOMAIN made' = DOMAIN made \union {i}
      /\ \A j \in DOMAIN stored : stored'[j] = stored[j] /\ made'[j] = made[j]
      /\ i \notin DOMAIN stored => stored'[i] = v /\ made'[i] = configuration
  <2>1. CASE i \in DOMAIN stored
    BY <1>1, <1>3, <2>1
  <2>2. CASE i \notin DOMAIN stored
    BY <1>1, <1>3, <2>2 DEF With
  <2> QED BY <2>1, <2>2
<1>7. \A j \in DOMAIN stored' : Fits(made'[j], j, stored'[j])
  BY <1>3, <1>6
<1>8. /\ DOMAIN latest' = DOMAIN latest \union {s} /\ latest'[s] = offer
      /\ \A t \in DOMAIN latest : t # s => latest'[t] = latest[t]
  BY <1>1 DEF With
<1>9. \A t \in DOMAIN latest' : latest'[t].identity \in DOMAIN made'
  BY <1>3, <1>5, <1>6, <1>8
<1>10. ASSUME NEW t \in DOMAIN latest', t.family \in Determined
       PROVE  \/ t \in DOMAIN pointer' /\ pointer'[t] = latest'[t].identity
              \/ LeftOut(t.family, made'[latest'[t].identity])
                   # LeftOut(t.family, latest'[t].configuration)
  <2>1. CASE t = s /\ ~conflict
    <3>1. t \in DOMAIN pointer' /\ pointer'[t] = i
      BY <1>1, <2>1 DEF With
    <3> QED BY <1>5, <1>8, <2>1, <3>1
  <2>2. CASE t = s /\ conflict
    <3>1. i \in DOMAIN stored
      BY <2>2 DEF conflict
    <3> QED BY <1>2, <1>4, <1>5, <1>6, <1>8, <1>10, <2>2, <3>1
  <2>3. CASE t # s
    <3>1. t \in DOMAIN latest /\ latest'[t] = latest[t]
      BY <1>8, <2>3
    <3>2. \/ t \in DOMAIN pointer /\ pointer[t] = latest[t].identity
          \/ LeftOut(t.family, made[latest[t].identity])
               # LeftOut(t.family, latest[t].configuration)
      BY <1>10, <3>1 DEF StoreFits, CheckpointsStayCurrent
    <3>3. t \in DOMAIN pointer => t \in DOMAIN pointer' /\ pointer'[t] = pointer[t]
      BY <1>1, <2>3 DEF With, Without
    <3>4. made'[latest[t].identity] = made[latest[t].identity]
      BY <1>3, <1>6, <3>1
    <3> QED BY <3>1, <3>2, <3>3, <3>4
  <2> QED BY <2>1, <2>2, <2>3
<1> QED BY <1>3, <1>6, <1>7, <1>9, <1>10 DEF StoreFits, CheckpointsStayCurrent, Determined

LEMMA StoreStays ==
  ASSUME StoreFits, UNCHANGED <<stored, pointer, latest, made>>
  PROVE  StoreFits'
BY DEF StoreFits, CheckpointsStayCurrent, Determined

\* The cell at the position of a run that goes on is one of the plan.
LEMMA NextIsPlanned ==
  ASSUME PlanIsOfSequences, ProcessStands, process.phase = "next",
         ~Exhausted
  PROVE  NextCell \in Cells
<1> DEFINE e == process.experiment
           k == process.position
           plan == Plan[e]
<1>1. e \in DOMAIN Plan /\ k \in Nat \ {0}
  BY DEF ProcessStands
<1>2. IsSequence(plan)
  BY <1>1 DEF PlanIsOfSequences, Experiments
<1>3. Len(plan) \in Nat /\ DOMAIN plan = 1..Len(plan)
  BY <1>2 DEF IsSequence
<1>4. ~ (k > Len(plan))
  BY DEF Exhausted
<1>5. k \in DOMAIN plan
  <2> HIDE DEF plan, k
  <2> QED BY <1>1, <1>3, <1>4
<1> QED BY <1>1, <1>5 DEF Cells, Experiments, NextCell

LEMMA CellEvidenceFits ==
  ASSUME PlanIsOfSequences, NEW c \in Cells
  PROVE  Fitting(configuration, {}, Evidence(c)) /\ Fitting(configuration, {}, AnchorEvidence(c))
BY EvidenceFits, AnchorFits, FittingAnyway DEF PlanIsOfSequences

LEMMA CheckpointInit ==
  ASSUME EvidenceInit
  PROVE  CheckpointInv
<1>1. process = NoProcess /\ stored = <<>> /\ latest = <<>> /\ made = <<>>
  BY DEF EvidenceInit
<1>2. ProcessStands /\ process.todo = <<>>
  BY <1>1 DEF ProcessStands, NoProcess
<1>3. StoreFits
  BY <1>1 DEF StoreFits, CheckpointsStayCurrent
<1> QED BY <1>2, <1>3, FittingNone DEF CheckpointInv

LEMMA CheckpointStep ==
  ASSUME PlanIsOfSequences, CheckpointInv, [EvidenceNext]_evidenceVars
  PROVE  CheckpointInv'
<1>0. ProcessStands /\ Fitting(configuration, {}, process.todo) /\ StoreFits
  BY DEF CheckpointInv
<1> SUFFICES ProcessStands' /\ Fitting(configuration', {}, process'.todo) /\ StoreFits'
  BY DEF CheckpointInv
<1> USE DEF store
<1>1. ASSUME NEW e \in Experiments, NEW overwrite \in BOOLEAN,
             StartRun(e, overwrite)
      PROVE  ProcessStands' /\ Fitting(configuration', {}, process'.todo) /\ StoreFits'
  <2>1. process' = [phase |-> "next", experiment |-> e, position |-> 1,
                    overwrite |-> overwrite, cell |-> NoCell, todo |-> <<>>]
    BY <1>1 DEF StartRun, NoProcess
  <2>2. ProcessStands'
    BY <2>1 DEF ProcessStands, Experiments
  <2>3. Fitting(configuration', {}, process'.todo)
    BY <2>1, FittingNone
  <2>4. StoreFits'
    BY <1>0, <1>1, StoreStays DEF StartRun
  <2> QED BY <2>2, <2>3, <2>4
<1>2. CASE SkipCell
  <2>0. configuration' = configuration
    BY <1>2 DEF SkipCell
  <2>1. ProcessStands'
    BY <1>0, <1>2 DEF ProcessStands, SkipCell
  <2>2. process'.todo = process.todo
    BY <1>0, <1>2 DEF ProcessStands, SkipCell
  <2>3. StoreFits'
    BY <1>0, <1>2, StoreStays DEF SkipCell
  <2> QED BY <2>0, <1>0, <2>1, <2>2, <2>3
<1>3. CASE BeginCell
  <2>0. configuration' = configuration
    BY <1>3 DEF BeginCell
  <2> DEFINE c == NextCell
             cached == c.seed \in anchored
             evidence == Evidence(c)
             anchor == AnchorEvidence(c)
  <2>1. process.phase = "next" /\ ~Exhausted
    BY <1>3 DEF BeginCell
  <2>2. c \in Cells
    BY <1>0, <2>1, NextIsPlanned
  <2>3. process' = [process EXCEPT !.phase = IF cached THEN "cell" ELSE "anchor",
                                   !.cell = c,
                                   !.todo = IF cached THEN evidence ELSE anchor]
    BY <1>3 DEF BeginCell
  <2>4. Fitting(configuration, {}, evidence) /\ Fitting(configuration, {}, anchor)
    BY <2>2, CellEvidenceFits
  <2>5. StoreFits'
    BY <1>0, <1>3, StoreStays DEF BeginCell
  <2> HIDE DEF c, cached, evidence, anchor
  <2>6. ProcessStands'
    BY <1>0, <2>1, <2>2, <2>3 DEF ProcessStands
  <2>7. process'.todo = evidence \/ process'.todo = anchor
    BY <1>0, <2>3 DEF ProcessStands
  <2> QED BY <2>0, <2>4, <2>5, <2>6, <2>7
<1>4. CASE PublishNext
  <2>0. configuration' = configuration
    BY <1>4 DEF PublishNext
  <2> DEFINE p == Head(process.todo)
  <2>1. process.todo # <<>> /\ Publish(p)
        /\ process' = [process EXCEPT !.todo = Tail(@)]
    BY <1>4 DEF PublishNext
  <2>2. Fits(configuration, p.identity, p.payload) /\ Fitting(configuration, {}, Tail(process.todo))
    BY <1>0, <2>1, FittingParts
  <2> HIDE DEF p
  <2>3. StoreFits'
    BY <1>0, <2>1, <2>2, PublishKeepsCurrent
  <2>4. ProcessStands' /\ process'.todo = Tail(process.todo)
    BY <1>0, <2>1 DEF ProcessStands
  <2> QED BY <2>0, <2>2, <2>3, <2>4
<1>5. CASE CacheAnchor
  <2>0. configuration' = configuration
    BY <1>5 DEF CacheAnchor
  <2> DEFINE evidence == Evidence(process.cell)
  <2>1. process.phase = "anchor"
        /\ process' = [process EXCEPT !.phase = "cell", !.todo = evidence]
    BY <1>5 DEF CacheAnchor
  <2>2. Fitting(configuration, {}, evidence)
    BY <1>0, <2>1, CellEvidenceFits DEF ProcessStands
  <2>3. StoreFits'
    BY <1>0, <1>5, StoreStays DEF CacheAnchor
  <2> HIDE DEF evidence
  <2>4. ProcessStands' /\ process'.todo = evidence
    BY <1>0, <2>1 DEF ProcessStands
  <2> QED BY <2>0, <2>2, <2>3, <2>4
<1>6. ASSUME process.phase \in {"anchor", "cell"}, LeaveCell
      PROVE  ProcessStands' /\ process'.todo = <<>>
  <2>1. /\ process.experiment \in DOMAIN Plan /\ process.position \in Nat \ {0}
        /\ process' = [process EXCEPT !.phase = "next", !.position = @ + 1,
                                      !.cell = NoCell, !.todo = <<>>]
    BY <1>0, <1>6 DEF ProcessStands, LeaveCell
  <2>2. process' = [phase |-> "next", experiment |-> process.experiment,
                    position |-> process.position + 1, overwrite |-> process.overwrite,
                    cell |-> NoCell, todo |-> <<>>]
    BY <1>0, <2>1 DEF ProcessStands
  <2>3. process.position + 1 \in Nat \ {0}
    BY <2>1
  <2> QED BY <2>1, <2>2, <2>3 DEF ProcessStands
<1>7. ASSUME process' = NoProcess
      PROVE  ProcessStands' /\ process'.todo = <<>>
  BY <1>7 DEF ProcessStands, NoProcess
<1>8. CASE CompleteCell
  <2>1. StoreFits'
    BY <1>0, <1>8, StoreStays DEF CompleteCell
  <2> QED BY <1>6, <1>8, <2>1, FittingNone DEF CompleteCell
<1>9. CASE FailCell
  <2>1. StoreFits'
    BY <1>0, <1>9, StoreStays DEF FailCell
  <2> QED BY <1>6, <1>9, <2>1, FittingNone DEF FailCell
<1>10. CASE EndProcess
  <2>1. StoreFits'
    BY <1>0, <1>10, StoreStays DEF EndProcess
  <2> QED BY <1>7, <1>10, <2>1, FittingNone DEF EndProcess
<1>11. CASE FinishRun
  <2>1. StoreFits'
    BY <1>0, <1>11, StoreStays DEF FinishRun
  <2> QED BY <1>7, <1>11, <2>1, FittingNone DEF FinishRun
<1>12. ASSUME UNCHANGED <<configuration, store, process>>
       PROVE  ProcessStands' /\ Fitting(configuration', {}, process'.todo) /\ StoreFits'
  <2>1. StoreFits'
    BY <1>0, <1>12, StoreStays
  <2> QED BY <1>0, <1>12, <2>1 DEF ProcessStands
<1>13. CASE Reconfigure
  <2>1. process.phase = "idle" /\ process' = process /\ UNCHANGED store
    BY <1>13 DEF Reconfigure
  <2>2. process'.todo = <<>>
    BY <1>0, <2>1 DEF ProcessStands
  <2>3. StoreFits'
    BY <1>0, <2>1, StoreStays
  <2> QED BY <1>0, <2>1, <2>2, <2>3, FittingNone DEF ProcessStands
<1>14. CASE \/ LoadCatalog \/ PublishClaims \/ RefuseReport \/ VerifyClaims \/ CloseReport
            \/ UNCHANGED evidenceVars
  <2>1. UNCHANGED <<configuration, store, process>>
    BY <1>14 DEF LoadCatalog, PublishClaims, RefuseReport, VerifyClaims, CloseReport,
                 evidenceVars
  <2> QED BY <1>12, <2>1
<1> QED BY <1>1, <1>2, <1>3, <1>4, <1>5, <1>8, <1>9, <1>10, <1>11, <1>13,
           <1>14 DEF EvidenceNext

\* The checkpoint published last into a slot of anchors, sources or baselines
\* is current, unless the one stored under its identity was trained under
\* other settings of those the identity leaves out; an anchor's leaves none.
THEOREM CheckpointsAlwaysCurrent == EvidenceSpec => []CheckpointsStayCurrent
<1>0. PlanIsOfSequences
  BY PlanAssumption
<1>1. EvidenceInit => CheckpointInv
  BY CheckpointInit
<1>2. CheckpointInv /\ [EvidenceNext]_evidenceVars => CheckpointInv'
  BY <1>0, CheckpointStep
<1>3. CheckpointInv => CheckpointsStayCurrent
  BY DEF CheckpointInv, StoreFits
<1> QED BY <1>1, <1>2, <1>3, PTL DEF EvidenceSpec

IsScore(i, model, role) ==
  i.family = "score" /\ i.dependencies[1] = model /\ i.dependencies[2][2] = role

\* In front of every decision to be published, or among what is found already,
\* are the scores of its model.
Backed(roles, found, todo) ==
  \A k \in DOMAIN todo : todo[k].identity.family = "decision" =>
    \A role \in roles :
      \/ \E i \in found : IsScore(i, todo[k].identity.instance, role)
      \/ \E j \in 1..(k - 1) : IsScore(todo[j].identity, todo[k].identity.instance, role)

\* Every decision in the store, or on its way there, is of a scored model, and
\* a report counts decisions of the store.
ScoredInv ==
  /\ CheckpointInv
  /\ nature.judged \subseteq {"gate", "report"}
  /\ \A i \in DOMAIN stored : i.family = "decision" =>
       \A role \in nature.judged : Scored(i.instance, role)
  /\ Backed(nature.judged, DOMAIN stored, process.todo)
  /\ \A s \in DOMAIN pointer : pointer[s] \in DOMAIN stored /\ pointer[s].family = s.family
  /\ \A s \in report.slots : s.family = "decision"
  /\ \A i \in report.upstream : i \in DOMAIN stored /\ i.family = "decision"

LEMMA BackedNone ==
  ASSUME NEW roles, NEW found
  PROVE  Backed(roles, found, <<>>)
BY DEF Backed

\* Without a decision there is nothing to back.
LEMMA BackedPlain ==
  ASSUME NEW cfg, NEW roles, NEW found, NEW s, Fitting(cfg, {"decision"}, s)
  PROVE  Backed(roles, found, s)
<1>1. PICK S : s \in Seq(S) /\ \A p \in S : p.identity.family \notin {"decision"}
  BY DEF Fitting
<1>2. \A k \in DOMAIN s : s[k] \in S
  BY <1>1
<1> QED BY <1>1, <1>2 DEF Backed

\* A decision behind the scores of its model is backed.
LEMMA BackedLast ==
  ASSUME NEW cfg, NEW roles, NEW found, NEW s, Fitting(cfg, {"decision"}, s), NEW q,
         \A role \in roles : \E i \in IdentitiesIn(s) : IsScore(i, q.identity.instance, role)
  PROVE  Backed(roles, found, s \o <<q>>)
<1>1. PICK S : s \in Seq(S) /\ \A p \in S : p.identity.family \notin {"decision"}
  BY DEF Fitting
<1> DEFINE n == Len(s)
           u == s \o <<q>>
<1>2. /\ n \in Nat /\ DOMAIN s = 1..n /\ \A k \in 1..n : s[k] \in S
      /\ DOMAIN u = 1..(n + 1) /\ u[n + 1] = q /\ \A k \in 1..n : u[k] = s[k]
  <2>1. s \in Seq(S \union {q}) /\ <<q>> \in Seq(S \union {q})
    BY <1>1
  <2>2. /\ n \in Nat /\ DOMAIN s = 1..n /\ \A k \in 1..n : s[k] \in S
    BY <1>1
  <2>3. DOMAIN u = 1..(n + 1) /\ u[n + 1] = q /\ \A k \in 1..n : u[k] = s[k]
    BY <2>1
  <2> QED BY <2>2, <2>3
<1> HIDE DEF n, u
<1>3. ASSUME NEW k \in DOMAIN u, u[k].identity.family = "decision"
      PROVE  k = n + 1 /\ u[k] = q
  BY <1>1, <1>2, <1>3
<1>4. ASSUME NEW role \in roles
      PROVE  \E j \in 1..n : IsScore(u[j].identity, q.identity.instance, role)
  <2>1. PICK i \in IdentitiesIn(s) : IsScore(i, q.identity.instance, role)
    BY <1>4
  <2>2. PICK j \in 1..n : s[j].identity = i
    BY <1>2 DEF IdentitiesIn
  <2> QED BY <1>2, <2>1, <2>2
<1>5. (n + 1) - 1 = n
  BY <1>2
<1> QED BY <1>3, <1>4, <1>5 DEF Backed, u

\* The gate and the report score the production of a cell.
LEMMA GateIsScored ==
  ASSUME NEW c, NEW role \in nature.judged, nature.judged \subseteq {"gate", "report"}
  PROVE  \E i \in IdentitiesIn(GateScores(c)) : IsScore(i, ProductionModel(c), role)
<1> DEFINE shift == IF role = "gate" THEN c.shift ELSE "none"
           p == Score(AnchorModel(c), c.judge, role, shift)
           q == Score(ProductionModel(c), c.judge, role, shift)
           i == q.identity
           s == RoleScores(c, "gate", c.shift)
           t == RoleScores(c, "report", "none")
<1>1. IsScore(i, ProductionModel(c), role)
  <2> DEFINE model == ProductionModel(c)
             about == model \o <<c.judge, role>>
             dependencies == <<model, <<c.judge, role>> >>
  <2>1. i = Identity("score", Shared, about, dependencies)
    BY ProductFields DEF Score
  <2>2. dependencies[1] = model /\ dependencies[2][2] = role
    <3> HIDE DEF model
    <3> QED OBVIOUS
  <2> HIDE DEF i, model, about, dependencies
  <2>3. i.family = "score" /\ i.dependencies = dependencies
    BY <2>1, IdentityFields
  <2> QED BY <2>2, <2>3 DEF IsScore, model
<1>2. RoleScores(c, role, shift) = <<p, q>>
  BY DEF RoleScores
<1> HIDE DEF p, q
<1>3. i \in IdentitiesIn(<<p, q>>)
  BY DEF IdentitiesIn
<1>4. i \in IdentitiesIn(s) \union IdentitiesIn(t)
  <2>1. CASE role = "gate"
    BY <1>2, <1>3, <2>1
  <2>2. CASE role = "report"
    BY <1>2, <1>3, <2>2
  <2> QED BY <2>1, <2>2
<1>5. GateScores(c) = s \o t
  BY DEF GateScores
<1>6. Fitting(configuration, {"decision"}, s) /\ Fitting(configuration, {"decision"}, t)
  BY RoleScoresFit
<1> HIDE DEF s, t, i
<1> QED BY <1>1, <1>4, <1>5, <1>6, IdentitiesOfJoin

\* The decision of a cell comes behind the scores of its model.
LEMMA CellIsBacked ==
  ASSUME PlanIsOfSequences, NEW c \in Cells, nature.judged \subseteq {"gate", "report"}, NEW found
  PROVE  /\ Backed(nature.judged, found, Evidence(c))
         /\ Backed(nature.judged, found, AnchorEvidence(c))
<1>1. PICK before, decision :
        Fitting(configuration, {"decision"}, before) /\ EvidenceShape(c, before, decision)
  BY EvidenceHasShape DEF PlanIsOfSequences
<1>2. CASE Evidence(c) = before
  BY <1>1, <1>2, BackedPlain, AnchorFits
<1>3. CASE /\ Evidence(c) = before \o <<decision>>
           /\ decision.identity.instance = ProductionModel(c)
           /\ IdentitiesIn(GateScores(c)) \subseteq IdentitiesIn(before)
  <2>1. \A role \in nature.judged :
          \E i \in IdentitiesIn(before) : IsScore(i, decision.identity.instance, role)
    BY <1>3, GateIsScored
  <2> QED BY <1>1, <1>3, <2>1, BackedLast, BackedPlain, AnchorFits
<1> QED BY <1>1, <1>2, <1>3 DEF EvidenceShape

\* What is backed by the store and what is in front of it, is backed when the
\* first product has been published.
LEMMA BackedRest ==
  ASSUME NEW cfg, NEW barred, NEW todo, Fitting(cfg, barred, todo), todo # <<>>,
         NEW roles, NEW found, Backed(roles, found, todo),
         NEW more, found \union {Head(todo).identity} \subseteq more
  PROVE  Backed(roles, more, Tail(todo))
<1>1. PICK S : todo \in Seq(S)
  BY DEF Fitting
<1> DEFINE n == Len(todo)
           rest == Tail(todo)
<1>2. /\ n \in Nat \ {0} /\ DOMAIN todo = 1..n /\ Head(todo) = todo[1]
      /\ DOMAIN rest = 1..(n - 1) /\ \A k \in 1..(n - 1) : rest[k] = todo[k + 1]
  BY <1>1
<1> HIDE DEF n, rest
<1> SUFFICES ASSUME NEW k \in 1..(n - 1), rest[k].identity.family = "decision",
                    NEW role \in roles
             PROVE  \/ \E i \in more : IsScore(i, rest[k].identity.instance, role)
                    \/ \E j \in 1..(k - 1) :
                         IsScore(rest[j].identity, rest[k].identity.instance, role)
  BY <1>2 DEF Backed, rest
<1> DEFINE model == rest[k].identity.instance
<1>3. k + 1 \in 1..n /\ todo[k + 1] = rest[k] /\ (k + 1) - 1 = k
  BY <1>2
<1>4. \/ \E i \in found : IsScore(i, model, role)
      \/ \E j \in 1..k : IsScore(todo[j].identity, model, role)
  BY <1>2, <1>3 DEF Backed
<1>5. ASSUME NEW j \in 1..k
      PROVE  \/ todo[j] = Head(todo)
             \/ j - 1 \in 1..(k - 1) /\ todo[j] = rest[j - 1]
  <2>1. CASE j = 1
    BY <1>2, <2>1
  <2>2. CASE j # 1
    <3>1. j - 1 \in 1..(k - 1) /\ j - 1 \in 1..(n - 1) /\ (j - 1) + 1 = j
      BY <1>2, <2>2
    <3> QED BY <1>2, <3>1
  <2> QED BY <2>1, <2>2
<1> HIDE DEF model
<1>6. \/ \E i \in more : IsScore(i, model, role)
      \/ \E j \in 1..(k - 1) : IsScore(rest[j].identity, model, role)
  <2>1. CASE \E i \in found : IsScore(i, model, role)
    BY <2>1
  <2>2. CASE \E j \in 1..k : IsScore(todo[j].identity, model, role)
    BY <1>5, <2>2
  <2> QED BY <1>4, <2>1, <2>2
<1> QED BY <1>6 DEF model

\* publish_artifact removes nothing and points at nothing absent.
LEMMA PublishKeeps ==
  ASSUME NEW p, Publish(p),
         \A s \in DOMAIN pointer : pointer[s] \in DOMAIN stored /\ pointer[s].family = s.family
  PROVE  /\ DOMAIN stored' = DOMAIN stored \union {p.identity}
         /\ \A s \in DOMAIN pointer' :
              pointer'[s] \in DOMAIN stored' /\ pointer'[s].family = s.family
<1> DEFINE i == p.identity
           v == p.payload
           s == SlotOf(i)
           conflict == i \in DOMAIN stored /\ stored[i] # v
<1>1. /\ stored' = IF i \in DOMAIN stored THEN stored ELSE With(stored, i, v)
      /\ pointer' = IF ~conflict THEN With(pointer, s, i)
                    ELSE IF s \in DOMAIN pointer /\ pointer[s] = i
                         THEN Without(pointer, s) ELSE pointer
  BY DEF Publish
<1>2. s.family = i.family
  BY DEF SlotOf
<1> HIDE DEF i, v, s, conflict
<1>3. DOMAIN stored' = DOMAIN stored \union {i}
  BY <1>1 DEF With
<1>4. \A t \in DOMAIN pointer' :
        \/ t = s /\ pointer'[t] = i
        \/ t \in DOMAIN pointer /\ pointer'[t] = pointer[t]
  BY <1>1 DEF With, Without
<1> QED BY <1>2, <1>3, <1>4 DEF i

LEMMA ScoredInit ==
  ASSUME EvidenceInit, \A n \in Natures : n.judged \subseteq {"gate", "report"}
  PROVE  ScoredInv
<1>1. /\ nature \in Natures /\ stored = <<>> /\ pointer = <<>>
      /\ process = NoProcess /\ report = NoReport
  BY DEF EvidenceInit
<1>2. process.todo = <<>> /\ report.slots = {} /\ report.upstream = {}
  BY <1>1 DEF NoProcess, NoReport
<1> QED BY <1>1, <1>2, CheckpointInit, BackedNone DEF ScoredInv

\* What does not publish and leaves the report alone.
LEMMA ScoredStays ==
  ASSUME ScoredInv, CheckpointInv', UNCHANGED <<nature, stored, pointer, report>>,
         Backed(nature.judged, DOMAIN stored, process'.todo)
  PROVE  ScoredInv'
BY DEF ScoredInv, Scored

LEMMA ScoredStep ==
  ASSUME PlanIsOfSequences, ScoredInv, [EvidenceNext]_evidenceVars
  PROVE  ScoredInv'
<1>0. /\ CheckpointInv /\ ProcessStands /\ Fitting(configuration, {}, process.todo)
      /\ nature.judged \subseteq {"gate", "report"}
      /\ Backed(nature.judged, DOMAIN stored, process.todo)
      /\ \A s \in DOMAIN pointer : pointer[s] \in DOMAIN stored /\ pointer[s].family = s.family
  BY DEF ScoredInv, CheckpointInv
<1>1. CheckpointInv'
  BY <1>0, CheckpointStep
<1>2. UNCHANGED nature
  BY DEF EvidenceNext, StartRun, SkipCell, BeginCell, PublishNext, CacheAnchor, CompleteCell,
         FailCell, EndProcess, FinishRun, Reconfigure, LoadCatalog, RefuseReport, PublishClaims,
         VerifyClaims, CloseReport, evidenceVars
<1>3. ASSUME UNCHANGED <<stored, pointer, report>>, process'.todo \in {<<>>, process.todo}
      PROVE  ScoredInv'
  BY <1>0, <1>1, <1>2, <1>3, ScoredStays, BackedNone
<1> USE DEF store
<1>4. ASSUME NEW e \in Experiments, NEW overwrite \in BOOLEAN, StartRun(e, overwrite)
      PROVE  ScoredInv'
  <2>1. process'.todo = <<>>
    BY <1>4 DEF StartRun, NoProcess
  <2> QED BY <1>3, <1>4, <2>1 DEF StartRun
<1>5. CASE SkipCell
  <2>1. process'.todo = process.todo
    BY <1>0, <1>5 DEF SkipCell, ProcessStands
  <2> QED BY <1>3, <1>5, <2>1 DEF SkipCell
<1>6. CASE BeginCell
  <2> DEFINE c == NextCell
             cached == c.seed \in anchored
             evidence == Evidence(c)
             anchor == AnchorEvidence(c)
  <2>1. process.phase = "next" /\ ~Exhausted /\ UNCHANGED <<stored, pointer, report>>
    BY <1>6 DEF BeginCell
  <2>2. /\ Backed(nature.judged, DOMAIN stored, evidence)
        /\ Backed(nature.judged, DOMAIN stored, anchor)
    <3>1. c \in Cells
      BY <1>0, <2>1, NextIsPlanned
    <3> QED BY <1>0, <3>1, CellIsBacked
  <2>3. process' = [process EXCEPT !.phase = IF cached THEN "cell" ELSE "anchor",
                                   !.cell = c,
                                   !.todo = IF cached THEN evidence ELSE anchor]
    BY <1>6 DEF BeginCell
  <2> HIDE DEF c, cached, evidence, anchor
  <2>4. process'.todo \in {evidence, anchor}
    BY <1>0, <2>3 DEF ProcessStands
  <2> QED BY <1>1, <1>2, <2>1, <2>2, <2>4, ScoredStays
<1>7. CASE PublishNext
  <2> DEFINE p == Head(process.todo)
             rest == Tail(process.todo)
  <2>1. /\ process.todo # <<>> /\ Publish(p) /\ process' = [process EXCEPT !.todo = rest]
        /\ UNCHANGED report
    BY <1>7 DEF PublishNext
  <2>2. process'.todo = rest
    BY <1>0, <2>1 DEF ProcessStands
  <2>3. /\ DOMAIN stored' = DOMAIN stored \union {p.identity}
        /\ \A s \in DOMAIN pointer' :
             pointer'[s] \in DOMAIN stored' /\ pointer'[s].family = s.family
    BY <1>0, <2>1, PublishKeeps
  <2>4. Backed(nature.judged, DOMAIN stored', rest)
    BY <1>0, <2>1, <2>3, BackedRest
  <2>5. p.identity.family = "decision" =>
          \A role \in nature.judged : Scored(p.identity.instance, role)
    <3>1. PICK S : process.todo \in Seq(S)
      BY <1>0 DEF Fitting
    <3>2. 1 \in DOMAIN process.todo /\ process.todo[1] = p
      BY <2>1, <3>1
    <3>3. 1..(1 - 1) = {}
      OBVIOUS
    <3> HIDE DEF p
    <3> QED BY <1>0, <3>2, <3>3 DEF Backed, Scored, IsScore
  <2> HIDE DEF p, rest
  <2>6. \A model, role : Scored(model, role) => Scored(model, role)'
    BY <2>3 DEF Scored
  <2>7. \A i \in DOMAIN stored' : i.family = "decision" =>
          \A role \in nature.judged : Scored(i.instance, role)'
    BY <2>3, <2>5, <2>6 DEF ScoredInv
  <2> QED BY <1>0, <1>1, <1>2, <2>1, <2>2, <2>3, <2>4, <2>7 DEF ScoredInv
<1>8. CASE CacheAnchor
  <2> DEFINE evidence == Evidence(process.cell)
  <2>1. process.phase = "anchor" /\ UNCHANGED <<stored, pointer, report>>
        /\ process' = [process EXCEPT !.phase = "cell", !.todo = evidence]
    BY <1>8 DEF CacheAnchor
  <2>2. Backed(nature.judged, DOMAIN stored, evidence)
    BY <1>0, <2>1, CellIsBacked DEF ProcessStands
  <2> HIDE DEF evidence
  <2>3. process'.todo = evidence
    BY <1>0, <2>1 DEF ProcessStands
  <2> QED BY <1>1, <1>2, <2>1, <2>2, <2>3, ScoredStays
<1>9. CASE CompleteCell \/ FailCell
  <2>1. LeaveCell /\ UNCHANGED <<stored, pointer, report>>
    BY <1>9 DEF CompleteCell, FailCell
  <2>2. process'.todo = <<>>
    BY <1>0, <2>1 DEF LeaveCell, ProcessStands
  <2> QED BY <1>3, <2>1, <2>2
<1>10. CASE EndProcess \/ FinishRun
  BY <1>3, <1>10 DEF EndProcess, FinishRun, NoProcess
<1>11. CASE Reconfigure
  BY <1>3, <1>11 DEF Reconfigure
<1>12. ASSUME UNCHANGED <<stored, pointer, process>>,
              \A s \in report'.slots : s.family = "decision",
              \A i \in report'.upstream : i \in DOMAIN stored /\ i.family = "decision"
       PROVE  ScoredInv'
  BY <1>0, <1>1, <1>2, <1>12 DEF ScoredInv, Scored
<1>13. CASE LoadCatalog
  <2>1. report'.slots = DecisionSlots /\ report'.upstream = {}
    BY <1>13 DEF LoadCatalog, NoReport
  <2> QED BY <1>12, <1>13, <2>1 DEF LoadCatalog, DecisionSlots
<1>14. CASE RefuseReport \/ CloseReport
  BY <1>12, <1>14 DEF RefuseReport, CloseReport, NoReport
<1>15. CASE PublishClaims
  <2> DEFINE upstream == CurrentUpstream(report.slots)
  <2>1. \A i \in upstream : i \in DOMAIN stored /\ i.family = "decision"
    BY <1>0 DEF ScoredInv, CurrentUpstream
  <2>2. \/ report' = NoReport
        \/ report' = [report EXCEPT !.phase = "published", !.upstream = upstream]
    BY <1>15 DEF PublishClaims
  <2> QED BY <1>12, <1>15, <2>1, <2>2 DEF PublishClaims, NoReport, ScoredInv
<1>16. CASE VerifyClaims
  BY <1>12, <1>16 DEF VerifyClaims, NoReport, ScoredInv
<1>17. CASE UNCHANGED evidenceVars
  BY <1>3, <1>17 DEF evidenceVars
<1> QED BY <1>4, <1>5, <1>6, <1>7, <1>8, <1>9, <1>10, <1>11, <1>13, <1>14, <1>15, <1>16, <1>17
        DEF EvidenceNext

\* A report counts no gate decision whose model has not been scored, wherever
\* running cells, failed ones and interrupted ones have come to: a decision is
\* published only behind the scores of its model.
THEOREM CountedDecisionsScored == EvidenceSpec => []CountedDecisionsAreScored
<1>0. PlanIsOfSequences /\ \A n \in Natures : n.judged \subseteq {"gate", "report"}
  BY PlanAssumption
<1>1. EvidenceInit => ScoredInv
  BY <1>0, ScoredInit
<1>2. ScoredInv /\ [EvidenceNext]_evidenceVars => ScoredInv'
  BY <1>0, ScoredStep
<1>3. ScoredInv => CountedDecisionsAreScored
  BY DEF ScoredInv, CountedDecisionsAreScored
<1> QED BY <1>1, <1>2, <1>3, PTL DEF EvidenceSpec

\* The evidence of a cell under some configuration and some verdicts.
Under(cfg, data) == INSTANCE EvidencePublication WITH configuration <- cfg, nature <- data

Anchors(cfg, data, c) == Under(cfg, data)!AnchorEvidence(c)

Leaves(cfg, data, c) == Under(cfg, data)!Evidence(c)

LEMMA SameAnchors ==
  ASSUME NEW c
  PROVE  AnchorEvidence(c) = Anchors(configuration, nature, c)
BY Zenon DEF Anchors, AnchorEvidence, Under!AnchorEvidence,
   AnchorModel, Under!AnchorModel, Material, Under!Material, Covered, Under!Covered,
   LeftOut, Under!LeftOut,
   Checkpoint, Under!Checkpoint, Product, Under!Product,
   Identity, Under!Identity, Shared, Under!Shared

\* The checkpoints of an anchor are the same for every cell of its seed.
LEMMA AnchorsOfSeed ==
  ASSUME NEW cfg, NEW data, NEW c, NEW d, c.seed = d.seed
  PROVE  Anchors(cfg, data, c) = Anchors(cfg, data, d)
BY Zenon DEF Anchors, Under!AnchorEvidence, Under!AnchorModel

\* The two instances define the same terms.
LEMMA SameTerms ==
  /\ \A f : Material(f) = Under(configuration, nature)!Material(f)
  /\ \A c : AnchorModel(c) = Under(configuration, nature)!AnchorModel(c)
  /\ \A c : HasCandidate(c) = Under(configuration, nature)!HasCandidate(c)
  /\ \A c : CandidateUpdate(c) = Under(configuration, nature)!CandidateUpdate(c)
  /\ \A c : CandidateModel(c) = Under(configuration, nature)!CandidateModel(c)
  /\ \A c, d : RowUpdate(c, d) = Under(configuration, nature)!RowUpdate(c, d)
  /\ \A c : BaselineUpdate(c) = Under(configuration, nature)!BaselineUpdate(c)
  /\ \A c : ProductionModel(c) = Under(configuration, nature)!ProductionModel(c)
BY Zenon DEF AnchorModel, Under!AnchorModel, Material, Under!Material, Covered, Under!Covered,
   LeftOut, Under!LeftOut,
   HasCandidate, Under!HasCandidate, CandidateUpdate,
   Under!CandidateUpdate, CandidateModel, Under!CandidateModel,
   NoCandidate, Under!NoCandidate, RowUpdate, Under!RowUpdate,
   BaselineUpdate, Under!BaselineUpdate,
   ProductionModel, Under!ProductionModel

LEMMA SameProducts ==
  /\ \A f, a, u : Checkpoint(f, a, u) = Under(configuration, nature)!Checkpoint(f, a, u)
  /\ \A i, v : Product(i, v) = Under(configuration, nature)!Product(i, v)
  /\ \A f, e, a, d :
       Identity(f, e, a, d) = Under(configuration, nature)!Identity(f, e, a, d)
  /\ \A m, d, r, s : Score(m, d, r, s) = Under(configuration, nature)!Score(m, d, r, s)
BY Zenon DEF Material, Under!Material, Covered, Under!Covered,
   LeftOut, Under!LeftOut, Checkpoint, Under!Checkpoint,
   Product, Under!Product, Identity, Under!Identity,
   Shared, Under!Shared, Score, Under!Score

LEMMA SameSource ==
  ASSUME NEW c
  PROVE  SourceEvidence(c) = Under(configuration, nature)!SourceEvidence(c)
BY SameTerms, SameProducts, Zenon DEF SourceEvidence, Under!SourceEvidence,
   PublishedEpisodes, Under!PublishedEpisodes

LEMMA SameRows ==
  ASSUME NEW c
  PROVE  RowEvidence(c) = Under(configuration, nature)!RowEvidence(c)
BY Zenon DEF RowEvidence, Under!RowEvidence,
   Material, Under!Material, Covered, Under!Covered,
   LeftOut, Under!LeftOut,
   HasCandidate, Under!HasCandidate, CandidateUpdate,
   Under!CandidateUpdate, RowUpdate, Under!RowUpdate,
   Checkpoint, Under!Checkpoint, Product, Under!Product,
   Identity, Under!Identity, Shared, Under!Shared

LEMMA SameGateScores ==
  ASSUME NEW c
  PROVE  GateScores(c) = Under(configuration, nature)!GateScores(c)
BY Zenon DEF GateScores, Under!GateScores, RoleScores, Under!RoleScores,
   AnchorModel, Under!AnchorModel, Material, Under!Material, Covered, Under!Covered,
   LeftOut, Under!LeftOut,
   HasCandidate, Under!HasCandidate, CandidateUpdate,
   Under!CandidateUpdate, RowUpdate, Under!RowUpdate,
   BaselineUpdate, Under!BaselineUpdate,
   ProductionModel, Under!ProductionModel,
   Product, Under!Product, Score, Under!Score,
   Identity, Under!Identity, Shared, Under!Shared

LEMMA SameCalibration ==
  ASSUME NEW c
  PROVE  CalibrationEvidence(c) = Under(configuration, nature)!CalibrationEvidence(c)
BY SameTerms, SameProducts, Zenon DEF CalibrationEvidence, Under!CalibrationEvidence

LEMMA SameDecision ==
  ASSUME NEW c
  PROVE  DecisionEvidence(c) = Under(configuration, nature)!DecisionEvidence(c)
BY SameTerms, SameProducts, Zenon DEF DecisionEvidence, Under!DecisionEvidence,
   Admits, Under!Admits

LEMMA SameOpening ==
  ASSUME NEW c
  PROVE  Opens(c) = Under(configuration, nature)!Opens(c)
BY Zenon DEF Opens, Under!Opens, Screens, Under!Screens,
   Adequate, Under!Adequate, MeetsPredicate, Under!MeetsPredicate,
   Cardinality, Under!Cardinality

LEMMA SameScreens ==
  ASSUME NEW c
  PROVE  ScreenEvidence(c) = Under(configuration, nature)!ScreenEvidence(c)
BY Zenon DEF ScreenEvidence, Under!ScreenEvidence,
   AnchorModel, Under!AnchorModel, Material, Under!Material, Covered, Under!Covered,
   LeftOut, Under!LeftOut,
   HasCandidate, Under!HasCandidate, CandidateUpdate,
   Under!CandidateUpdate, CandidateModel, Under!CandidateModel,
   NoCandidate, Under!NoCandidate,
   ScreenScores, Under!ScreenScores, Adequate, Under!Adequate,
   ScreenResult, Under!ScreenResult,
   MeetsPredicate, Under!MeetsPredicate,
   Product, Under!Product, Score, Under!Score,
   Identity, Under!Identity, Shared, Under!Shared

LEMMA SameEvidence ==
  ASSUME NEW c
  PROVE  Evidence(c) = Leaves(configuration, nature, c)
<1>1. BaselineStage(c) = Under(configuration, nature)!BaselineStage(c)
  BY DEF BaselineStage, Under!BaselineStage
<1> QED
  BY <1>1, SameTerms, SameProducts, SameSource, SameScreens, SameRows, SameGateScores,
     SameCalibration, SameDecision, SameOpening, Zenon
     DEF Leaves, Evidence, Under!Evidence, BaselineEvidence,
         Under!BaselineEvidence, ProtocolEvidence, Under!ProtocolEvidence

AnchorNames(cfg, data, c) == IdentitiesIn(Anchors(cfg, data, c))

EvidenceNames(cfg, data, c) == IdentitiesIn(Leaves(cfg, data, c))

\* A completed record stands for evidence of the configuration it names.
RecordsHold ==
  /\ recorded = [c \in Cells |-> recorded[c]]
  /\ \A c \in Cells :
       recorded[c] # NotRecorded =>
         /\ AnchorNames(recorded[c], nature, c) \subseteq DOMAIN stored
         /\ EvidenceNames(recorded[c], nature, c) \subseteq DOMAIN stored

\* The seeds in the cache of a running process have left their checkpoints.
AnchorsHold ==
  process.phase # "idle" =>
    \A c \in Cells :
      c.seed \in anchored => AnchorNames(configuration, nature, c) \subseteq DOMAIN stored

\* What the cell in progress has not left yet is still to be published.
CellHolds ==
  /\ process.phase = "anchor" =>
       AnchorNames(configuration, nature, process.cell)
         \subseteq DOMAIN stored \union IdentitiesIn(process.todo)
  /\ process.phase = "cell" =>
       /\ AnchorNames(configuration, nature, process.cell) \subseteq DOMAIN stored
       /\ EvidenceNames(configuration, nature, process.cell)
            \subseteq DOMAIN stored \union IdentitiesIn(process.todo)

CompletedInv ==
  /\ CheckpointInv
  /\ configuration \in Configurations
  /\ RecordsHold /\ AnchorsHold /\ CellHolds

\* Published, reused or turned away, the identity is in the store.
LEMMA PublishStores ==
  ASSUME NEW p, Publish(p)
  PROVE  DOMAIN stored \union {p.identity} \subseteq DOMAIN stored'
BY DEF Publish, With

\* As long as the store only grows, the evidence of completed cells stays.
LEMMA RecordsStay ==
  ASSUME RecordsHold, UNCHANGED <<recorded, nature>>, DOMAIN stored \subseteq DOMAIN stored'
  PROVE  RecordsHold'
BY DEF RecordsHold

LEMMA AnchorsStay ==
  ASSUME AnchorsHold, UNCHANGED <<configuration, nature, anchored>>, process.phase # "idle",
         DOMAIN stored \subseteq DOMAIN stored'
  PROVE  AnchorsHold'
BY DEF AnchorsHold

LEMMA CompletedInit ==
  ASSUME FirstConfiguration \in Configurations, EvidenceInit
  PROVE  CompletedInv
<1>1. /\ process = NoProcess /\ configuration = FirstConfiguration
      /\ recorded = [c \in Cells |-> NotRecorded]
  BY DEF EvidenceInit
<1>2. process.phase = "idle"
  BY <1>1 DEF NoProcess
<1> QED BY <1>1, <1>2, CheckpointInit DEF CompletedInv, RecordsHold, AnchorsHold, CellHolds

LEMMA CompletedStep ==
  ASSUME PlanIsOfSequences, NotRecorded \notin Configurations,
         CompletedInv, [EvidenceNext]_evidenceVars
  PROVE  CompletedInv'
<1>0. /\ CheckpointInv /\ configuration \in Configurations
      /\ RecordsHold /\ AnchorsHold /\ CellHolds
      /\ ProcessStands /\ Fitting(configuration, {}, process.todo)
  BY DEF CompletedInv, CheckpointInv
<1> SUFFICES configuration' \in Configurations /\ RecordsHold' /\ AnchorsHold' /\ CellHolds'
  BY <1>0, CheckpointStep DEF CompletedInv
<1> USE DEF store
<1>1. ASSUME NEW e \in Experiments, NEW overwrite \in BOOLEAN,
             StartRun(e, overwrite)
      PROVE  configuration' \in Configurations /\ RecordsHold' /\ AnchorsHold' /\ CellHolds'
  <2>1. process'.phase = "next" /\ anchored' = {}
        /\ UNCHANGED <<configuration, nature, stored, recorded>>
    BY <1>1 DEF StartRun, NoProcess
  <2>2. RecordsHold'
    BY <1>0, <2>1, RecordsStay
  <2>3. AnchorsHold' /\ CellHolds'
    BY <2>1 DEF AnchorsHold, CellHolds
  <2> QED BY <1>0, <2>1, <2>2, <2>3
<1>2. CASE SkipCell
  <2>1. process.phase = "next" /\ process'.phase = "next"
        /\ UNCHANGED <<configuration, nature, stored, anchored, recorded>>
    BY <1>0, <1>2 DEF SkipCell, ProcessStands
  <2>2. RecordsHold' /\ AnchorsHold'
    BY <1>0, <2>1, RecordsStay, AnchorsStay
  <2>3. CellHolds'
    BY <2>1 DEF CellHolds
  <2> QED BY <1>0, <2>1, <2>2, <2>3
<1>3. CASE BeginCell
  <2> DEFINE c == NextCell
             cached == c.seed \in anchored
             evidence == Evidence(c)
             anchor == AnchorEvidence(c)
  <2>1. process.phase = "next" /\ ~Exhausted
        /\ UNCHANGED <<configuration, nature, stored, anchored, recorded>>
    BY <1>3 DEF BeginCell
  <2>2. c \in Cells
    BY <1>0, <2>1, NextIsPlanned
  <2>3. process' = [process EXCEPT !.phase = IF cached THEN "cell" ELSE "anchor",
                                   !.cell = c,
                                   !.todo = IF cached THEN evidence ELSE anchor]
    BY <1>3 DEF BeginCell
  <2>4. /\ IdentitiesIn(anchor) = AnchorNames(configuration, nature, c)
        /\ IdentitiesIn(evidence) = EvidenceNames(configuration, nature, c)
    BY SameAnchors, SameEvidence DEF AnchorNames, EvidenceNames
  <2>5. RecordsHold' /\ AnchorsHold'
    BY <1>0, <2>1, RecordsStay, AnchorsStay
  <2>6. cached => AnchorNames(configuration, nature, c) \subseteq DOMAIN stored
    BY <1>0, <2>1, <2>2 DEF AnchorsHold
  <2> HIDE DEF c, cached, evidence, anchor
  <2>7. process'.cell = c
        /\ \/ cached /\ process'.phase = "cell" /\ process'.todo = evidence
           \/ ~cached /\ process'.phase = "anchor" /\ process'.todo = anchor
    BY <1>0, <2>3 DEF ProcessStands
  <2>8. CellHolds'
    BY <2>1, <2>4, <2>6, <2>7 DEF CellHolds
  <2> QED BY <1>0, <2>1, <2>5, <2>8
<1>4. CASE PublishNext
  <2> DEFINE p == Head(process.todo)
  <2>1. /\ process.phase \in {"anchor", "cell"} /\ process.todo # <<>> /\ Publish(p)
        /\ process' = [process EXCEPT !.todo = Tail(@)]
        /\ UNCHANGED <<configuration, nature, anchored, recorded>>
    BY <1>4 DEF PublishNext
  <2>2. IdentitiesIn(process.todo)
          \subseteq {p.identity} \union IdentitiesIn(Tail(process.todo))
    BY <1>0, <2>1, IdentitiesOfRest
  <2> HIDE DEF p
  <2>3. DOMAIN stored \union {p.identity} \subseteq DOMAIN stored'
    BY <2>1, PublishStores
  <2>4. RecordsHold' /\ AnchorsHold'
    BY <1>0, <2>1, <2>3, RecordsStay, AnchorsStay
  <2>5. process'.phase = process.phase /\ process'.cell = process.cell
        /\ process'.todo = Tail(process.todo)
    BY <1>0, <2>1 DEF ProcessStands
  <2>6. CellHolds'
    BY <1>0, <2>1, <2>2, <2>3, <2>5 DEF CellHolds
  <2> QED BY <1>0, <2>1, <2>4, <2>6
<1>5. CASE CacheAnchor
  <2> DEFINE cell == process.cell
             evidence == Evidence(cell)
  <2>1. /\ process.phase = "anchor" /\ process.todo = <<>>
        /\ anchored' = anchored \union {cell.seed}
        /\ process' = [process EXCEPT !.phase = "cell", !.todo = evidence]
        /\ UNCHANGED <<configuration, nature, stored, recorded>>
    BY <1>5 DEF CacheAnchor
  <2>2. AnchorNames(configuration, nature, cell) \subseteq DOMAIN stored
    BY <1>0, <2>1, IdentitiesOfNone DEF CellHolds
  <2>3. IdentitiesIn(evidence) = EvidenceNames(configuration, nature, cell)
    BY SameEvidence DEF EvidenceNames
  <2>4. RecordsHold'
    BY <1>0, <2>1, RecordsStay
  <2>5. ASSUME NEW c \in Cells, c.seed \in anchored'
        PROVE  AnchorNames(configuration, nature, c) \subseteq DOMAIN stored
    <3>1. CASE c.seed \in anchored
      BY <1>0, <2>1, <3>1 DEF AnchorsHold
    <3>2. CASE c.seed = cell.seed
      BY <2>2, <3>2, AnchorsOfSeed DEF AnchorNames
    <3> QED BY <2>1, <2>5, <3>1, <3>2
  <2>6. AnchorsHold'
    BY <2>1, <2>5 DEF AnchorsHold
  <2> HIDE DEF evidence
  <2>7. process'.phase = "cell" /\ process'.cell = cell /\ process'.todo = evidence
    BY <1>0, <2>1 DEF ProcessStands
  <2>8. CellHolds'
    BY <2>1, <2>2, <2>3, <2>7 DEF CellHolds
  <2> QED BY <1>0, <2>1, <2>4, <2>6, <2>8
<1>6. ASSUME process.phase \in {"anchor", "cell"}, LeaveCell
      PROVE  process'.phase = "next"
  BY <1>0, <1>6 DEF ProcessStands, LeaveCell
<1>7. CASE CompleteCell
  <2> DEFINE cell == process.cell
  <2>1. /\ process.phase = "cell" /\ process.todo = <<>>
        /\ recorded' = [recorded EXCEPT ![cell] = configuration]
        /\ UNCHANGED <<configuration, nature, stored, anchored>>
        /\ process'.phase = "next"
    BY <1>6, <1>7 DEF CompleteCell
  <2>2. cell \in Cells
    BY <1>0, <2>1 DEF ProcessStands
  <2>3. /\ AnchorNames(configuration, nature, cell) \subseteq DOMAIN stored
        /\ EvidenceNames(configuration, nature, cell) \subseteq DOMAIN stored
    BY <1>0, <2>1, IdentitiesOfNone DEF CellHolds
  <2> HIDE DEF cell
  <2>4. RecordsHold'
    BY <1>0, <2>1, <2>2, <2>3 DEF RecordsHold
  <2>5. AnchorsHold'
    BY <1>0, <2>1, AnchorsStay
  <2>6. CellHolds'
    BY <2>1 DEF CellHolds
  <2> QED BY <1>0, <2>1, <2>4, <2>5, <2>6
<1>8. CASE FailCell
  <2> DEFINE cell == process.cell
  <2>1. /\ process.phase # "idle"
        /\ recorded' = [recorded EXCEPT ![cell] = NotRecorded]
        /\ UNCHANGED <<configuration, nature, stored, anchored>>
        /\ process'.phase = "next"
    BY <1>6, <1>8 DEF FailCell
  <2> HIDE DEF cell
  <2>2. RecordsHold'
    BY <1>0, <2>1 DEF RecordsHold
  <2>3. AnchorsHold'
    BY <1>0, <2>1, AnchorsStay
  <2>4. CellHolds'
    BY <2>1 DEF CellHolds
  <2> QED BY <1>0, <2>1, <2>2, <2>3, <2>4
<1>9. CASE EndProcess \/ FinishRun
  <2>1. process'.phase = "idle" /\ UNCHANGED <<configuration, nature, stored, recorded>>
    BY <1>9 DEF EndProcess, FinishRun, NoProcess
  <2>2. RecordsHold'
    BY <1>0, <2>1, RecordsStay
  <2> QED BY <1>0, <2>1, <2>2 DEF AnchorsHold, CellHolds
<1>10. CASE Reconfigure
  <2>1. process'.phase = "idle" /\ configuration' \in Configurations
        /\ UNCHANGED <<nature, stored, recorded>>
    BY <1>10 DEF Reconfigure
  <2>2. RecordsHold'
    BY <1>0, <2>1, RecordsStay
  <2> QED BY <2>1, <2>2 DEF AnchorsHold, CellHolds
<1>11. CASE \/ LoadCatalog \/ PublishClaims
            \/ RefuseReport \/ VerifyClaims \/ CloseReport
            \/ UNCHANGED evidenceVars
  <2>1. UNCHANGED <<configuration, nature, stored, recorded, process, anchored>>
    BY <1>11 DEF LoadCatalog, PublishClaims,
                 RefuseReport, VerifyClaims, CloseReport, evidenceVars
  <2>2. RecordsHold'
    BY <1>0, <2>1, RecordsStay
  <2>3. AnchorsHold' /\ CellHolds'
    BY <1>0, <2>1 DEF AnchorsHold, CellHolds
  <2> QED BY <1>0, <2>1, <2>2, <2>3
<1> QED BY <1>1, <1>2, <1>3, <1>4, <1>5, <1>7, <1>8, <1>9, <1>10, <1>11 DEF EvidenceNext

\* A cell whose completed record counts under the current configuration has
\* left the checkpoints of its anchor and all its evidence in the store,
\* whatever failures, interruptions and returns to a configuration came in
\* between.
THEOREM CompletedCellsAlwaysLeaveEvidence == EvidenceSpec => []CompletedCellsLeaveEvidence
<1>0. /\ PlanIsOfSequences /\ FirstConfiguration \in Configurations
      /\ NotRecorded \notin Configurations
  BY PlanAssumption
<1>1. EvidenceInit => CompletedInv
  BY <1>0, CompletedInit
<1>2. CompletedInv /\ [EvidenceNext]_evidenceVars => CompletedInv'
  BY <1>0, CompletedStep
<1>3. CompletedInv => CompletedCellsLeaveEvidence
  <2> SUFFICES ASSUME CompletedInv, NEW c \in Cells, recorded[c] = configuration
               PROVE  IdentitiesIn(
                        AnchorEvidence(c) \o Evidence(c))
                          \subseteq DOMAIN stored
    BY DEF CompletedCellsLeaveEvidence
  <2> DEFINE anchor == AnchorEvidence(c)
             evidence == Evidence(c)
  <2>1. /\ IdentitiesIn(anchor) = AnchorNames(configuration, nature, c)
        /\ IdentitiesIn(evidence) = EvidenceNames(configuration, nature, c)
    BY SameAnchors, SameEvidence DEF AnchorNames, EvidenceNames
  <2>2. Fitting(configuration, {}, anchor) /\ Fitting(configuration, {}, evidence)
    BY <1>0, CellEvidenceFits
  <2>3. /\ AnchorNames(configuration, nature, c) \subseteq DOMAIN stored
        /\ EvidenceNames(configuration, nature, c) \subseteq DOMAIN stored
    BY <1>0 DEF CompletedInv, RecordsHold
  <2> HIDE DEF anchor, evidence
  <2>4. IdentitiesIn(anchor \o evidence) \subseteq DOMAIN stored
    BY <2>1, <2>2, <2>3, IdentitiesOfJoin
  <2> QED BY <2>4 DEF anchor, evidence
<1> QED BY <1>1, <1>2, <1>3, PTL DEF EvidenceSpec

=============================================================================
