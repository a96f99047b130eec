-------------------------- MODULE PublicationSlot --------------------------
(***************************************************************************)
(* What the artifact store promises about one slot, whatever the disk      *)
(* does in between: every identity holds at most one payload, for ever,    *)
(* and the slot's activation names either nothing or an identity that      *)
(* already holds its payload. A payload may get lost to damage from        *)
(* outside; only then may its identity hold another one, and the           *)
(* activation name nothing readable. Of an identity that is contested,     *)
(* because different payloads were offered for it at once, nothing is      *)
(* promised but that it holds one of the payloads or none. ArtifactStore   *)
(* implements this module.                                                 *)
(***************************************************************************)
EXTENDS Naturals

CONSTANTS
  Identities,     \* artifact identities of the slot
  Payloads,       \* payload contents
  NoIdentity,     \* the slot has no current artifact
  NoPayload       \* the identity is not (yet) Complete

VARIABLES
  contents,       \* the payload a reader of each identity obtains
  active,         \* the identity that current.json names
  damages,        \* payloads damaged so far
  contested       \* identities that were offered different payloads at once

vars == <<contents, active, damages, contested>>

Init ==
  /\ contents = [i \in Identities |-> NoPayload]
  /\ active = NoIdentity
  /\ damages = 0
  /\ contested = {}

\* An identity becomes Complete, once as long as nothing is damaged and no
\* two payloads were offered at once.
Commit(i, v) ==
  /\ contents[i] = NoPayload \/ i \in contested
  /\ contents' = [contents EXCEPT ![i] = v]
  /\ UNCHANGED <<active, damages, contested>>

\* Only a Complete identity becomes the slot's current artifact.
Activate(i) ==
  /\ contents[i] # NoPayload \/ damages > 0 \/ i \in contested
  /\ active' = i
  /\ UNCHANGED <<contents, damages, contested>>

\* A conflicting recomputation withdraws the current artifact.
Retire ==
  /\ active' = NoIdentity
  /\ UNCHANGED <<contents, damages, contested>>

\* The payload of an identity, if it has one, is damaged from outside.
Lose(i) ==
  /\ contents' = [contents EXCEPT ![i] = NoPayload]
  /\ damages' = damages + 1
  /\ UNCHANGED <<active, contested>>

\* Different payloads are offered for an identity at once ...
Contest(i) ==
  /\ contested' = contested \union {i}
  /\ UNCHANGED <<contents, active, damages>>

\* ... after which their writers may spoil what it holds.
Spoil(i) ==
  /\ i \in contested
  /\ contents' = [contents EXCEPT ![i] = NoPayload]
  /\ UNCHANGED <<active, damages, contested>>

Next ==
  \/ \E i \in Identities, v \in Payloads : Commit(i, v)
  \/ \E i \in Identities : Activate(i)
  \/ Retire
  \/ \E i \in Identities : Lose(i) \/ Contest(i) \/ Spoil(i)

Spec == Init /\ [][Next]_vars

=============================================================================
