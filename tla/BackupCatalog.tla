--------------------------- MODULE BackupCatalog ---------------------------
(***************************************************************************)
(* Publication of backup archives: src/src/backup.rs (output files, the    *)
(* BackupCatalog, the recovery recipient set) and the rehearsal registry   *)
(* of src/src/backup_verify.rs.  An archive is named by its digest.  Each  *)
(* has a private temporary file, a final file and at most one in-memory    *)
(* PreparedOutput handle, whose Drop removes the temporary.  The signing   *)
(* key is its lineage generation, a recipient set its generation.          *)
(***************************************************************************)
EXTENDS Naturals, FiniteSets

CONSTANTS Archives, MaxSigner, MaxRecoverySet

VARIABLES backups,     \* archive -> BackupRecord
          outputs,     \* archive -> [temp, final, handle, seen]
          signer,      \* current signing lineage generation
          recoverySet, \* generation of the configured recovery recipients
          rehearsals   \* archive -> set generation its recovery receipt binds

backupVars == <<backups, outputs, signer, recoverySet, rehearsals>>

NoBackup == [publication |-> "none"]
Observed == {"ExactTemp", "ExactFinal", "Missing", "Corrupt", "TargetSubstituted"}

BackupInit ==
  /\ backups = [a \in Archives |-> NoBackup]
  /\ outputs = [a \in Archives |-> [temp |-> FALSE, final |-> "Missing",
                                    handle |-> FALSE, seen |-> "none", renamed |-> FALSE]]
  /\ signer = 1 /\ recoverySet = 1
  /\ rehearsals = [a \in Archives |-> 0]

Known(a) == backups[a].publication # "none"

(* What a caller that looks at the target finds. *)
Observation(a) ==
  IF outputs[a].final # "Missing" THEN outputs[a].final
  ELSE IF outputs[a].temp THEN "ExactTemp" ELSE "Missing"

(* prepare_output: refuses a target that exists, writes a private temporary. *)
PrepareOutput(a) ==
  /\ ~outputs[a].handle /\ ~outputs[a].temp /\ outputs[a].final = "Missing"
  /\ outputs' = [outputs EXCEPT ![a].temp = TRUE, ![a].handle = TRUE]
  /\ UNCHANGED <<backups, signer, recoverySet, rehearsals>>

(* A reservation equal to the stored one is accepted again; once the record *)
(* has moved on, the same reservation is a Conflict.                        *)
ReserveBackup(a) ==
  /\ ~Known(a)
  /\ backups' = [backups EXCEPT ![a] =
       [publication |-> "Publishing", signature |-> FALSE, generation |-> signer,
        set |-> recoverySet, active |-> "Missing", recovery |-> "Missing"]]
  /\ UNCHANGED <<outputs, signer, recoverySet, rehearsals>>

(* Drop removes the temporary whatever the call's outcome. *)
Dropped(a) == [outputs[a] EXCEPT !.temp = FALSE, !.handle = FALSE]

(* publish_reserved holds the catalog for the whole call; the file system   *)
(* may still refuse the rename or the directory sync.                       *)
PublishRefused(a) ==
  /\ outputs[a].handle
  /\ \/ backups[a].publication # "Publishing"
     \/ outputs[a].final # "Missing"
  /\ outputs' = [outputs EXCEPT ![a] = Dropped(a)]
  /\ UNCHANGED <<backups, signer, recoverySet, rehearsals>>

RenameFails(a) ==
  /\ outputs[a].handle
  /\ outputs' = [outputs EXCEPT ![a] = Dropped(a)]
  /\ UNCHANGED <<backups, signer, recoverySet, rehearsals>>

PublishReserved(a, synced) ==
  /\ outputs[a].handle /\ outputs[a].temp /\ outputs[a].final = "Missing"
  /\ backups[a].publication = "Publishing"
  /\ outputs' = [outputs EXCEPT ![a] = [Dropped(a) EXCEPT !.final = "ExactFinal",
                                                          !.renamed = TRUE]]
  /\ backups' = IF synced THEN [backups EXCEPT ![a].publication = "Published"] ELSE backups
  /\ UNCHANGED <<signer, recoverySet, rehearsals>>

(* The target is the operator's file: it may vanish, rot or be replaced. *)
TargetChanges(a, found) ==
  /\ outputs[a].final # found /\ found # "ExactTemp"
  /\ outputs[a].final # "Missing" \/ found = "TargetSubstituted"
  /\ outputs' = [outputs EXCEPT ![a].final = found]
  /\ UNCHANGED <<backups, signer, recoverySet, rehearsals>>

(* The caller of resume looks first and calls later. *)
ObserveOutput(a) ==
  /\ Known(a) /\ outputs' = [outputs EXCEPT ![a].seen = Observation(a)]
  /\ UNCHANGED <<backups, signer, recoverySet, rehearsals>>

ResumeBackup(a) ==
  /\ backups[a].publication = "Publishing"
  /\ outputs[a].seen \in {"ExactTemp", "ExactFinal"}
  /\ backups' = [backups EXCEPT ![a].publication = "Published"]
  /\ UNCHANGED <<outputs, signer, recoverySet, rehearsals>>

RegisterBackupSignature_Mutant(a) ==
  /\ Known(a) /\ ~backups[a].signature
  /\ backups[a].publication = "Published"
  /\ backups' = [backups EXCEPT ![a].signature = TRUE, ![a].publication = "Registered"]
  /\ UNCHANGED <<outputs, signer, recoverySet, rehearsals>>
RegisterBackupSignature(a) ==
  /\ Known(a) /\ ~backups[a].signature
  /\ backups[a].publication = "Published" /\ backups[a].generation = signer
  /\ backups' = [backups EXCEPT ![a].signature = TRUE, ![a].publication = "Registered"]
  /\ UNCHANGED <<outputs, signer, recoverySet, rehearsals>>

AbandonBackup(a) ==
  /\ Known(a) /\ backups[a].publication \notin {"Registered", "Abandoned"}
  /\ ~backups[a].signature
  /\ backups' = [backups EXCEPT ![a].publication = "Abandoned"]
  /\ UNCHANGED <<outputs, signer, recoverySet, rehearsals>>

(* A receipt names the set generation of its archive; the registry compares *)
(* it with the configured one, the catalog record takes it as it comes.     *)
RegisterRehearsal(a) ==
  /\ Known(a) /\ backups[a].set = recoverySet /\ rehearsals[a] = 0
  /\ rehearsals' = [rehearsals EXCEPT ![a] = backups[a].set]
  /\ UNCHANGED <<backups, outputs, signer, recoverySet>>
RegisterReceipt(a, which) ==
  /\ Known(a)
  /\ backups' = [backups EXCEPT ![a][which] = "Registered"]
  /\ UNCHANGED <<outputs, signer, recoverySet, rehearsals>>

(* RecoveryRecipientCatalog::replace, a compare-and-set on the generation. *)
ReplaceRecoverySet ==
  /\ recoverySet < MaxRecoverySet /\ recoverySet' = recoverySet + 1
  /\ UNCHANGED <<backups, outputs, signer, rehearsals>>
(* A registered rollover of the signing lineage (SigningTrust). *)
SignerRollover ==
  /\ signer < MaxSigner /\ signer' = signer + 1
  /\ UNCHANGED <<backups, outputs, recoverySet, rehearsals>>

OperationalPreflight(a) ==
  /\ backups[a].publication = "Registered" /\ backups[a].signature
  /\ backups[a].recovery = "Registered"

BackupNext ==
  \/ \E a \in Archives :
       \/ PrepareOutput(a) \/ ReserveBackup(a) \/ PublishRefused(a) \/ RenameFails(a)
       \/ \E synced \in BOOLEAN : PublishReserved(a, synced)
       \/ \E found \in Observed : TargetChanges(a, found)
       \/ ObserveOutput(a) \/ ResumeBackup(a)
       \/ RegisterBackupSignature(a) \/ AbandonBackup(a) \/ RegisterRehearsal(a)
       \/ \E which \in {"active", "recovery"} : RegisterReceipt(a, which)
  \/ ReplaceRecoverySet \/ SignerRollover

BackupSpec == BackupInit /\ [][BackupNext]_backupVars

(***************************************************************************)
(* Properties.                                                             *)
(***************************************************************************)

(* Every temporary on disk belongs to an output still being prepared: no   *)
(* refusal, failed rename or failed sync leaves one behind (backup.rs:836).*)
NoOrphanTemporary == \A a \in Archives : outputs[a].temp => outputs[a].handle

(* Registered and Abandoned are final, a signature is never unregistered,  *)
(* and a record never returns to Publishing (backup.rs:664-757).           *)
DispositionIsFinal ==
  [][\A a \in Archives :
       /\ backups[a].publication \in {"Registered", "Abandoned"} =>
            backups'[a].publication = backups[a].publication
       /\ Known(a) => backups'[a].publication # "none"
       /\ (Known(a) /\ backups[a].publication # "Publishing") =>
            backups'[a].publication # "Publishing"]_backupVars

(* A manifest left unsigned when its key is retired stays unsigned: no     *)
(* later call registers it (docs/backup-format-v1.md:78-80).               *)
OldKeyStaysUnsigned ==
  [][\A a \in Archives :
       (Known(a) /\ ~backups[a].signature /\ backups[a].generation < signer) =>
         ~backups'[a].signature]_backupVars

(* An archive that passes the operational preflight was published by the   *)
(* rename of its bytes.  Fails: resume takes an exact temporary for a      *)
(* publication.                                                            *)
PublishedByRename ==
  \A a \in Archives :
    backups[a].publication \in {"Published", "Registered"} => outputs[a].renamed

(* A rehearsal counts only for the configured recovery set                 *)
(* (docs/operating.md:165-170).  Fails: nothing drops a receipt when the   *)
(* set changes.                                                            *)
FreshnessFollowsSet ==
  \A a \in Archives : rehearsals[a] # 0 => rehearsals[a] = recoverySet
=============================================================================
