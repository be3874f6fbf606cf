---------------------------- MODULE RecoveryFork ----------------------------
(***************************************************************************)
(* Rollback classification and fork activation: src/src/recovery_fork.rs   *)
(* and the restore mode and epoch plan of src/src/backup_format.rs.        *)
(* An archive is its cutoff: audit sequence, chain head at that sequence,  *)
(* lineage generation and signer.  Checkpoint evidence is a range of audit *)
(* sequences with the chain head at its end and the digest of its          *)
(* predecessor; lineage evidence is the sequence of audit sequences at     *)
(* which the signers of generations 1, 2, ... became effective.            *)
(***************************************************************************)
EXTENDS Naturals, Sequences

CONSTANTS MaxSequence, MaxEvidence, MaxForkEpoch, Heads, Signers

ASSUME ForkBounds == MaxSequence \in Nat /\ MaxEvidence \in Nat /\ MaxForkEpoch \in Nat

VARIABLES cutoff,         \* the archive being restored
          scan,           \* the evidence read so far by classify_rollback
          classification, \* what the operator was shown, or Unclassified
          confirmed,      \* the classification the operator confirmed
          installed       \* the activated fork, or NotInstalled

forkVars == <<cutoff, scan, classification, confirmed, installed>>

NoDigest == [end |-> 0]
Unclassified == [shown |-> FALSE, required |-> FALSE]
NotInstalled == [done |-> FALSE]
NoLineage == <<>>

(* covered is history: every audit sequence some accepted checkpoint ranges *)
(* over.                                                                    *)
EmptyScan == [count |-> 0, last |-> NoDigest, latest |-> 0, newer |-> FALSE,
              lineage |-> NoLineage, covered |-> {}]

Digest(c) == [end |-> c.end, head |-> c.head]

(* Checkpoints that verify under the supplied trust, of the archive's store *)
(* and incarnation; the others end the classification with an error.        *)
Checkpoints ==
  {c \in [start : 1..MaxSequence, end : 1..MaxSequence, head : Heads,
          prev : {NoDigest} \cup [end : 1..MaxSequence, head : Heads]] : c.start <= c.end}

(* Signers by generation and the sequence at which each took effect. *)
Lineages ==
  {l \in UNION {[1..n -> [signer : Signers, effective : 1..MaxSequence]] : n \in 1..2} :
     \A i, j \in DOMAIN l : i < j => l[i].effective < l[j].effective /\ l[i].signer # l[j].signer}

(* validate_archive: a complete tuple; generation 1 is the trust root's.    *)
ArchiveValid(c) == c.generation = 1 <=> c.signer = c.root

ForkInit ==
  /\ cutoff \in [sequence : 1..MaxSequence, head : Heads, generation : 1..2, signer : Signers,
                 root : Signers, credentialEpoch : 1..MaxForkEpoch, auditEpoch : 1..MaxForkEpoch]
  /\ ArchiveValid(cutoff)
  /\ scan = EmptyScan
  /\ classification = Unclassified /\ confirmed = Unclassified
  /\ installed = NotInstalled

-----------------------------------------------------------------------------
(* One supplied checkpoint: it continues the one before without a gap and   *)
(* agrees with the archive where it ends at the cutoff.                     *)
CheckpointFits(c) ==
  /\ scan.count > 0 => c.start = scan.last.end + 1 /\ c.prev = scan.last
  /\ c.end = cutoff.sequence => c.head = cutoff.head

ConsiderCheckpoint(c) ==
  /\ ~installed.done /\ scan.count < MaxEvidence /\ scan.lineage = NoLineage
  /\ scan' = IF CheckpointFits(c)
             THEN [scan EXCEPT !.count = @ + 1, !.last = Digest(c),
                               !.latest = IF c.end > @ THEN c.end ELSE @,
                               !.newer = @ \/ c.end > cutoff.sequence,
                               !.covered = @ \cup c.start..c.end]
             ELSE EmptyScan
  /\ UNCHANGED <<cutoff, classification, confirmed, installed>>

(* The optional lineage: same root, not older than the archive's, the same  *)
(* signer at the same generation, newer entries effective after the cutoff. *)
LineageFits(lineage) ==
  /\ lineage[1].signer = cutoff.root
  /\ Len(lineage) >= cutoff.generation
  /\ Len(lineage) = cutoff.generation => lineage[Len(lineage)].signer = cutoff.signer
  /\ \A g \in DOMAIN lineage : g > cutoff.generation => lineage[g].effective > cutoff.sequence

ConsiderLineage(lineage) ==
  /\ ~installed.done /\ scan.lineage = NoLineage
  /\ scan' = IF LineageFits(lineage) THEN [scan EXCEPT !.lineage = lineage] ELSE EmptyScan
  /\ UNCHANGED <<cutoff, classification, confirmed, installed>>

(* What classify_rollback answers for the evidence it accepted. *)
Answer_Mutant ==
  [shown |-> TRUE, required |-> scan.newer,
   missing |-> IF scan.latest > cutoff.sequence THEN <<cutoff.sequence + 1, scan.latest>> ELSE <<>>,
   signer |-> IF scan.lineage = NoLineage THEN cutoff.signer ELSE scan.lineage[Len(scan.lineage)].signer,
   generation |-> IF scan.lineage = NoLineage THEN cutoff.generation ELSE Len(scan.lineage),
   covered |-> scan.covered]
Answer ==
  [shown |-> TRUE, required |-> scan.newer \/ Len(scan.lineage) > cutoff.generation,
   missing |-> IF scan.latest > cutoff.sequence THEN <<cutoff.sequence + 1, scan.latest>> ELSE <<>>,
   signer |-> IF scan.lineage = NoLineage THEN cutoff.signer ELSE scan.lineage[Len(scan.lineage)].signer,
   generation |-> IF scan.lineage = NoLineage THEN cutoff.generation ELSE Len(scan.lineage),
   covered |-> scan.covered]

(* The call returns; the operator may classify again with other evidence.   *)
Classify ==
  /\ ~installed.done
  /\ classification' = Answer
  /\ scan' = EmptyScan
  /\ UNCHANGED <<cutoff, confirmed, installed>>

(* activation_confirmation: a digest over archive, classification, actor,   *)
(* incarnation and reason.                                                  *)
Confirm ==
  /\ classification.shown /\ ~installed.done
  /\ confirmed' = classification
  /\ UNCHANGED <<cutoff, scan, classification, installed>>

(* classify_restore and restore_epoch_plan: a fork is started exactly when  *)
(* it is required, and both epochs move by one or overflow refuses.         *)
EpochPlan(required, start) ==
  IF required /\ start /\ cutoff.credentialEpoch < MaxForkEpoch /\ cutoff.auditEpoch < MaxForkEpoch
  THEN [credential |-> cutoff.credentialEpoch + 1, audit |-> cutoff.auditEpoch + 1]
  ELSE [credential |-> 0, audit |-> 0]

(* activate_recovery_fork: rollback required, asked for, every authority    *)
(* held and the confirmation over the classification passed in.             *)
ActivateFork(start, authority) ==
  /\ ~installed.done
  /\ classification.required /\ start /\ authority
  /\ confirmed = classification
  /\ EpochPlan(TRUE, start).credential # 0
  /\ installed' = [done |-> TRUE, epochs |-> EpochPlan(TRUE, start), genesis |-> classification,
                   anchor |-> "RollbackFork"]
  /\ UNCHANGED <<cutoff, scan, classification, confirmed>>

ForkNext ==
  \/ \E c \in Checkpoints : ConsiderCheckpoint(c)
  \/ \E l \in Lineages : ConsiderLineage(l)
  \/ Classify \/ Confirm
  \/ \E s, a \in BOOLEAN : ActivateFork(s, a)

ForkSpec == ForkInit /\ [][ForkNext]_forkVars

-----------------------------------------------------------------------------
(* The genesis of an activated fork names, as the missing anchored range,   *)
(* exactly the sequences after the cutoff that accepted checkpoints cover,  *)
(* unless the evidence starts beyond the cutoff (classify_rollback).        *)
MissingRangeIsAnchored ==
  classification.shown =>
    LET beyond == {n \in classification.covered : n > cutoff.sequence}
        missing == IF classification.missing = <<>> THEN {}
                   ELSE classification.missing[1]..classification.missing[2]
    IN /\ beyond \subseteq missing
       /\ \A n \in missing \ beyond : \A m \in classification.covered : n < m

(* An archive whose supplied evidence is newer, by checkpoint or by signing *)
(* lineage, is never classified as a plain restore.                         *)
NewerEvidenceForksAlways ==
  classification.shown /\ ~classification.required =>
    /\ classification.generation = cutoff.generation /\ classification.signer = cutoff.signer
    /\ \A n \in classification.covered : n <= cutoff.sequence

(* A fork installs the classification its operator confirmed, both epochs   *)
(* above the archive's: evidence supplied between confirmation and          *)
(* activation does not slip in (activate_recovery_fork).                    *)
ForkIsWhatWasConfirmed ==
  installed.done =>
    /\ installed.genesis = confirmed /\ confirmed.required
    /\ installed.epochs.credential > cutoff.credentialEpoch
    /\ installed.epochs.audit > cutoff.auditEpoch

\* The classification an operator confirms says what the evidence says, and the fork that is
\* activated is the confirmed one.
ForkIsTruthful == MissingRangeIsAnchored /\ NewerEvidenceForksAlways /\ ForkIsWhatWasConfirmed
=============================================================================
