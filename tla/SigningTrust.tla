---------------------------- MODULE SigningTrust ----------------------------
(***************************************************************************)
(* The signing trust catalog of src/src/store/signing_trust.rs: the        *)
(* lineage of checkpoint signing keys, the two-step rollover (prepare,     *)
(* sign offline, register) and the descriptors of artifacts waiting for a  *)
(* signature.  A key is its id, a transition's digest is the transition    *)
(* itself, and one counter stands for the audit head and for effective     *)
(* time, which both only grow.  Signing a prepared transition happens      *)
(* offline and changes nothing here: the signed file may be registered at  *)
(* any later moment, twice or never.                                       *)
(***************************************************************************)
EXTENDS Naturals, Sequences, FiniteSets

CONSTANTS SigningKeys, TransitionIds, DescriptorIds, Artifacts,
          MaxPublicKeys, TransitionTtl, MaxHead

ASSUME TrustBounds == /\ MaxPublicKeys \in Nat \ {0}
                      /\ TransitionTtl \in Nat \ {0}
                      /\ MaxHead \in Nat

(* A first key has no predecessor and no transition. *)
ASSUME TrustNames == "none" \notin SigningKeys /\ "none" \notin TransitionIds

VARIABLES lineage,        \* Seq of lineage entries, oldest first
          checkpointPending, \* transition_registered_checkpoint_pending
          prepared,       \* transition id -> transition
          registered,     \* transitions registered so far
          descriptors,    \* descriptor id -> descriptor
          checkpointRegistered,
          trustHead,      \* audit head and effective time
          claims,         \* history: descriptors handed out and not resolved
          covered         \* history: transitions a registered checkpoint binds

trustVars == <<lineage, checkpointPending, prepared, registered, descriptors,
               checkpointRegistered, trustHead, claims, covered>>

SignableDomain == {"AuditCheckpoint", "BackupManifest"}
Disposition == {"Outstanding", "Registered", "Abandoned"}
NoTransition == [id |-> "none"]
NoDescriptor == [disposition |-> "none"]

LineageEntry(key, generation, sequence, previous, transition) ==
  [key |-> key, state |-> "Current", generation |-> generation,
   effective |-> sequence, retired |-> 0, previous |-> previous,
   transition |-> transition, lastUse |-> 0]

Enrolled == Len(lineage) > 0
CurrentEntry == lineage[CHOOSE i \in DOMAIN lineage : lineage[i].state = "Current"]

OutstandingFor(key) ==
  {d \in DescriptorIds : /\ descriptors[d].disposition = "Outstanding"
                         /\ descriptors[d].key = key}

(* Entry and lineage rules the codec refuses to encode without. *)
EntryValid(e) ==
  /\ e.generation > 0 /\ e.effective > 0
  /\ (e.generation = 1) = (e.previous = "none")
  /\ (e.generation = 1) = (e.transition = NoTransition)
  /\ e.state = "Current" => e.retired = 0
  /\ e.state = "Retired" => e.retired >= e.effective
  /\ e.previous # e.key

LineageValid ==
  /\ Len(lineage) <= MaxPublicKeys
  /\ Enrolled => \E i \in DOMAIN lineage :
                   \A j \in DOMAIN lineage : (lineage[j].state = "Current") <=> (i = j)
  /\ \A i \in DOMAIN lineage :
       /\ EntryValid(lineage[i])
       /\ lineage[i].generation = i
       /\ lineage[i].previous = IF i = 1 THEN "none" ELSE lineage[i - 1].key
       /\ \A j \in DOMAIN lineage : lineage[i].key = lineage[j].key => i = j

TrustInit ==
  /\ lineage = <<>> /\ checkpointPending = FALSE
  /\ prepared = [t \in TransitionIds |-> NoTransition] /\ registered = {}
  /\ descriptors = [d \in DescriptorIds |-> NoDescriptor]
  /\ checkpointRegistered = FALSE /\ trustHead = 1
  /\ claims = {} /\ covered = {}

(* Any other audited operation moves the head and time. *)
HeadMoves ==
  /\ trustHead < MaxHead /\ trustHead' = trustHead + 1
  /\ UNCHANGED <<lineage, checkpointPending, prepared, registered, descriptors,
                 checkpointRegistered, claims, covered>>

Enroll(key) ==
  /\ ~Enrolled /\ ~checkpointRegistered
  /\ lineage' = <<LineageEntry(key, 1, trustHead, "none", NoTransition)>>
  /\ UNCHANGED <<checkpointPending, prepared, registered, descriptors,
                 checkpointRegistered, trustHead, claims, covered>>

TransitionFor(id, key) ==
  [id |-> id, old |-> CurrentEntry.key, new |-> key, sequence |-> trustHead,
   generation |-> CurrentEntry.generation, expires |-> trustHead + TransitionTtl]

(* The map insert happens before its answer is looked at: a transition id   *)
(* used twice is refused with Conflict, and the new intent stays installed. *)
PrepareRotation(id, key) ==
  /\ Enrolled
  /\ Len(lineage) < MaxPublicKeys
  /\ \A i \in DOMAIN lineage : lineage[i].key # key
  /\ OutstandingFor(CurrentEntry.key) = {}
  /\ prepared' = [prepared EXCEPT ![id] = TransitionFor(id, key)]
  /\ UNCHANGED <<lineage, checkpointPending, registered, descriptors,
                 checkpointRegistered, trustHead, claims, covered>>

Registrable_Mutant(t) ==
  /\ Enrolled /\ t # NoTransition /\ prepared[t.id] = t
  /\ trustHead <= t.expires /\ trustHead >= t.sequence
  /\ CurrentEntry.key = t.old /\ CurrentEntry.generation = t.generation

(* The signature verifies under the current key, and only the transition    *)
(* last prepared under its id is accepted.                                  *)
Registrable(t) ==
  /\ Enrolled /\ t # NoTransition /\ prepared[t.id] = t
  /\ trustHead <= t.expires /\ trustHead >= t.sequence
  /\ CurrentEntry.key = t.old /\ CurrentEntry.generation = t.generation
  /\ OutstandingFor(CurrentEntry.key) = {}

RetireLast(entries) ==
  [entries EXCEPT ![Len(entries)].state = "Retired", ![Len(entries)].retired = trustHead]

(* A transition already registered is answered again and changes nothing. *)
RegisterRotation(t) ==
  /\ t \notin registered /\ Registrable(t)
  /\ lineage' = Append(RetireLast(lineage),
                       LineageEntry(t.new, CurrentEntry.generation + 1, trustHead,
                                    CurrentEntry.key, t))
  /\ checkpointPending' = TRUE
  /\ registered' = registered \union {t}
  /\ UNCHANGED <<prepared, descriptors, checkpointRegistered, trustHead, claims, covered>>

DescriptorFor(domain, artifact) ==
  [domain |-> domain, artifact |-> artifact, key |-> CurrentEntry.key,
   transition |-> CurrentEntry.transition, disposition |-> "Outstanding"]

(* Insert first, answer later, as in PrepareRotation: only a fresh id is    *)
(* answered Ok, yet the descriptor under a known id is replaced too.        *)
CreateDescriptor(d, domain, artifact) ==
  /\ Enrolled
  /\ descriptors' = [descriptors EXCEPT ![d] = DescriptorFor(domain, artifact)]
  /\ claims' = IF descriptors[d] = NoDescriptor
               THEN claims \union {[id |-> d, artifact |-> artifact,
                                    key |-> CurrentEntry.key]}
               ELSE claims
  /\ UNCHANGED <<lineage, checkpointPending, prepared, registered,
                 checkpointRegistered, trustHead, covered>>

(* The first checkpoint bound to the current transition ends its wait. *)
EndsWait(d) ==
  /\ descriptors[d].domain = "AuditCheckpoint"
  /\ descriptors[d].transition = CurrentEntry.transition

ResolveDescriptor(d, disposition) ==
  /\ descriptors[d].disposition = "Outstanding"
  /\ descriptors' = [descriptors EXCEPT ![d].disposition = disposition]
  /\ claims' = {c \in claims : c.id # d \/ c.artifact # descriptors[d].artifact}
  /\ LET used == {i \in DOMAIN lineage : lineage[i].key = descriptors[d].key}
         checkpoint == /\ disposition = "Registered"
                       /\ descriptors[d].domain = "AuditCheckpoint"
     IN /\ lineage' = IF disposition = "Registered"
                      THEN [i \in DOMAIN lineage |->
                              IF i \in used THEN [lineage[i] EXCEPT !.lastUse = trustHead]
                                            ELSE lineage[i]]
                      ELSE lineage
        /\ checkpointRegistered' = (checkpointRegistered \/ checkpoint)
        /\ covered' = IF checkpoint THEN covered \union {descriptors[d].transition}
                                    ELSE covered
        /\ checkpointPending' = IF disposition = "Registered" /\ EndsWait(d)
                                THEN FALSE ELSE checkpointPending
  /\ UNCHANGED <<prepared, registered, trustHead>>

TrustNext ==
  \/ HeadMoves
  \/ \E key \in SigningKeys : Enroll(key)
  \/ \E id \in TransitionIds, key \in SigningKeys : PrepareRotation(id, key)
  \/ \E id \in TransitionIds : RegisterRotation(prepared[id])
  \/ \E d \in DescriptorIds, domain \in SignableDomain, a \in Artifacts :
       CreateDescriptor(d, domain, a)
  \/ \E d \in DescriptorIds, disposition \in Disposition \ {"Outstanding"} :
       ResolveDescriptor(d, disposition)

TrustSpec == TrustInit /\ [][TrustNext]_trustVars

(***************************************************************************)
(* Properties.                                                             *)
(***************************************************************************)

(* The lineage the catalog holds can always be encoded: one current key,   *)
(* the last, unbroken links back to the first and no key used twice.  The  *)
(* code pushes entries before it validates (signing_trust.rs:609-665), so  *)
(* a breach would be kept.                                                 *)
LineageStaysValid == LineageValid

(* No descriptor waits for the signature of a retired key: rollover never  *)
(* strands a descriptor the catalog still knows (signing_trust.rs:738).    *)
OutstandingUnderCurrentKey ==
  \A d \in DescriptorIds :
    descriptors[d].disposition = "Outstanding" => descriptors[d].key = CurrentEntry.key

(* The pending flag is up exactly while the newest transition has no       *)
(* registered checkpoint signed under it.                                  *)
PendingUntilCheckpoint ==
  checkpointPending = (Len(lineage) > 1 /\ CurrentEntry.transition \notin covered)

(* A retired key's entry, its last use included, is never touched again    *)
(* and no entry disappears: history stays as it was signed.                *)
RetiredEntriesFrozen ==
  [][/\ Len(lineage') >= Len(lineage)
     /\ \A i \in DOMAIN lineage :
          lineage[i].state = "Retired" => lineage'[i] = lineage[i]]_trustVars

(* An artifact handed out for signature is resolved before its key is      *)
(* retired (docs/operating.md:462).  Fails: a create answered Conflict has *)
(* already replaced the descriptor that would have blocked the rollover.   *)
NoClaimStranded == \A c \in claims : c.key = CurrentEntry.key

\* A rollover in any order with reservations, imports and checkpoints strands nothing: the
\* lineage stays valid, what is outstanding is under the current key, and the wait ends with
\* the checkpoint that covers the rollover.
RolloverKeepsTrust == LineageStaysValid /\ OutstandingUnderCurrentKey /\ PendingUntilCheckpoint
=============================================================================
