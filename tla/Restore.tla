------------------------------ MODULE Restore ------------------------------
(***************************************************************************)
(* Backup creation, rehearsal and fresh-host restore: src/src/restore.rs,  *)
(* create_backup and decrypt_backup of src/src/backup.rs, the formats of   *)
(* src/src/backup_format.rs and verify_backup_full of                      *)
(* src/src/backup_verify.rs.  One service directory holds the running      *)
(* store ("origin"), the restore targets, the restore lock file and the    *)
(* temporary siblings.  A store is its credential epoch, keyring           *)
(* generation, audit sequence, pending anchor, lifecycle, recipients and   *)
(* credential records; ciphertext and table bytes are abstracted to the    *)
(* `defect' an archive carries, if any, and the step that detects it.      *)
(***************************************************************************)
EXTENDS Naturals, FiniteSets

CONSTANTS Targets, Restorers, Identities, Defects, MaxArchives, MaxEpoch, MaxMinted

VARIABLES stores,    \* path -> store or NoStore
          archives,  \* archives created so far
          lockFile,  \* does the restore lock file exist
          temps,     \* restorer -> its temporary sibling or NoStore
          restorers, \* restorer -> progress of its restore call
          disclosed, \* credentials written to an operator's sink
          minted,    \* number of emergency credentials prepared so far
          receipt    \* the rehearsal receipt signed last

restoreVars == <<stores, archives, lockFile, temps, restorers, disclosed, minted, receipt>>

NoStore == [epoch |-> 0]
NoReceipt == [mode |-> "none"]
Idle == [pc |-> "idle"]
Paths == Targets \cup {"origin"}
Credential(id, epoch) == [id |-> id, epoch |-> epoch]
FirstCredential == Credential(0, 1)
NoCredential == Credential(0, 0)

(* verify_credential compares the record's epoch with the store's. *)
Usable(s) == {c \in s.creds : c.epoch = s.epoch}

(* RecipientSet::new refuses a recovery recipient equal to the active one. *)
RecipientsValid(active, recovery) == active # recovery

(* RecoveryRecipientSet: 1..MAX_RECOVERY_RECIPIENTS distinct fingerprints   *)
(* (the upper limit of 7 is above the instance).                            *)
RecoverySetValid(recovery) == recovery # {}

(* effective: the active recipient joins the set and is not one of it. *)
Effective(active, recovery) == recovery \cup {active}
EffectiveValid(active, recovery) == RecoverySetValid(recovery) /\ active \notin recovery

ASSUME RestoreBounds ==
  /\ MaxArchives \in Nat /\ MaxEpoch \in Nat /\ MaxMinted \in Nat
  /\ "origin" \notin Targets
  /\ Defects \subseteq {"frame", "signature", "envelope", "state", "audit", "records"}

(* The recovery identity of the origin is any identity but its active one. *)
RestoreInit ==
  /\ \E active, recovery \in Identities :
       /\ RecipientsValid(active, recovery)
       /\ stores = [p \in Paths |->
            IF p = "origin"
            THEN [epoch |-> 1, keyring |-> 1, head |-> 1, anchor |-> "none", lifecycle |-> "Ready",
                  active |-> active, recovery |-> recovery, creds |-> {FirstCredential}]
            ELSE NoStore]
  /\ archives = {}
  /\ lockFile = FALSE
  /\ temps = [r \in Restorers |-> NoStore]
  /\ restorers = [r \in Restorers |-> Idle]
  /\ disclosed = {FirstCredential}
  /\ minted = 0
  /\ receipt = NoReceipt

Present(p) == stores[p] # NoStore

(* The running store enters or leaves an offline job, or moves its epoch:   *)
(* what a backup may find (module StoreMaintenance has the operations).     *)
(* Bounded by the archives still to be made.                                *)
OriginMoves ==
  /\ Cardinality(archives) < MaxArchives
  /\ stores["origin"].anchor = "none"
  /\ \/ stores' = [stores EXCEPT !["origin"].lifecycle =
                     IF @ = "Ready" THEN "Reencrypting" ELSE "Ready"]
     \/ /\ stores["origin"].epoch < MaxEpoch
        /\ stores' = [stores EXCEPT !["origin"].epoch = @ + 1, !["origin"].head = @ + 1]
  /\ UNCHANGED <<archives, lockFile, temps, restorers, disclosed, minted, receipt>>

(* SourceObservation::validate: a confirmed barrier has an observed tuple   *)
(* not older than the cutoff and claims decommissioning; an unavailable     *)
(* source has none; a complete tail has a digest and no other tail has one. *)
ObservationValid(o, cutoff) ==
  /\ o.status = "BarrierConfirmed" => o.observed # 0 /\ o.claimed
  /\ o.status = "Unavailable" => o.observed = 0
  /\ o.tail = "Complete" => o.tailDigest
  /\ o.tail = "Unavailable" => ~o.tailDigest
  /\ o.observed # 0 => o.observed >= cutoff

(* RecoveryManifest and its codec: the creator tuple is the audit cutoff.   *)
ManifestValid(m) ==
  /\ m.keyring # 0 /\ m.epoch # 0
  /\ Cardinality(m.effective) >= 2
  /\ m.creatorHead = m.head
  /\ ObservationValid(m.source, m.head)

(* logical_backup_snapshot reads every table in one transaction, whatever   *)
(* the lifecycle and the anchor.                                            *)
Snapshot(p) == stores[p]

Manifest(s, recovery, source) ==
  [keyring |-> s.keyring, epoch |-> s.epoch, head |-> s.head, creatorHead |-> s.head,
   effective |-> Effective(s.active, recovery), source |-> source]

(* create_backup, then whatever befalls the file and its signature off the  *)
(* host (defect, signature).                                                *)
CreateBackup(p, recovery, source, signature, defect) ==
  /\ Present(p)
  /\ Cardinality(archives) < MaxArchives
  /\ EffectiveValid(stores[p].active, recovery)
  /\ LET s == Snapshot(p)
         m == Manifest(s, recovery, source)
     IN /\ ManifestValid(m)
        /\ archives' = archives \cup
             {[store |-> s, effective |-> m.effective, claimed |-> source.claimed,
              signature |-> signature, defect |-> defect]}
  /\ UNCHANGED <<stores, lockFile, temps, restorers, disclosed, minted, receipt>>

-----------------------------------------------------------------------------
(* allow_restore_signature: a present signature must verify, an absent one  *)
(* needs the override with its confirmation.                                *)
SignatureAllowed(status, override) ==
  status = "Valid" \/ (status = "Absent" /\ override)

(* verify_backup_gate: the container re-encodes and the signature, if any,  *)
(* is over its digest.                                                      *)
Gate(a, override) ==
  /\ a.defect # "frame"
  /\ a.signature = "Valid" => a.defect # "signature"
  /\ SignatureAllowed(a.signature, override)

(* decrypt_backup and Keyring::open_backup_envelope: the identity is an     *)
(* effective recipient and the payload binds the header.                    *)
Decrypts(a, identity) == a.defect # "envelope" /\ identity \in a.effective

(* reconstruct_and_verify: state digest, audit chain and checkpoints, then  *)
(* every authenticated and encrypted record.                                *)
Reconstructs(a) == a.defect \notin {"state", "audit", "records"}

(* The checks of restore before the lock: target absent, parent private,    *)
(* assertion digest and recipients.                                         *)
BeginRestore(r, a, t, identity, newActive, recovery, override) ==
  /\ restorers[r].pc = "idle"
  /\ Gate(a, override)
  /\ ~Present(t)
  /\ RecipientsValid(newActive, recovery)
  /\ restorers' = [restorers EXCEPT ![r] =
       [pc |-> "checked", archive |-> a, target |-> t, identity |-> identity,
        active |-> newActive, recovery |-> recovery, credential |-> NoCredential]]
  /\ UNCHANGED <<stores, archives, lockFile, temps, disclosed, minted, receipt>>

(* RestoreLock::acquire creates the file exclusively; Locked otherwise. *)
AcquireLock_Mutant(r) ==
  /\ restorers[r].pc = "checked"
  /\ restorers' = [restorers EXCEPT ![r].pc = "locked"]
  /\ lockFile' = TRUE
  /\ UNCHANGED <<stores, archives, temps, disclosed, minted, receipt>>
AcquireLock(r) ==
  /\ restorers[r].pc = "checked"
  /\ restorers' = [restorers EXCEPT ![r] = IF lockFile THEN Idle ELSE [@ EXCEPT !.pc = "locked"]]
  /\ lockFile' = TRUE
  /\ UNCHANGED <<stores, archives, temps, disclosed, minted, receipt>>

(* Leaving restore: Drop removes the lock file; an error inside the build   *)
(* closure also removes the temporary sibling.                              *)
Leaves(r) ==
  /\ restorers' = [restorers EXCEPT ![r] = Idle]
  /\ temps' = [temps EXCEPT ![r] = NoStore]
  /\ lockFile' = FALSE

(* Second look at the target, decryption, the temporary store. *)
Build(r) ==
  /\ restorers[r].pc = "locked"
  /\ LET c == restorers[r] IN
       IF ~Present(c.target) /\ Decrypts(c.archive, c.identity) /\ Reconstructs(c.archive)
       THEN /\ temps' = [temps EXCEPT ![r] = c.archive.store]
            /\ restorers' = [restorers EXCEPT ![r].pc = "built"]
            /\ UNCHANGED lockFile
       ELSE Leaves(r)
  /\ UNCHANGED <<stores, archives, disclosed, minted, receipt>>

(* enter_restore_build: only a store that is Ready and has no pending       *)
(* anchor, of a source its operator claimed decommissioned.                 *)
EnterBuild(r) ==
  /\ restorers[r].pc = "built"
  /\ IF /\ restorers[r].archive.claimed
        /\ temps[r].lifecycle = "Ready" /\ temps[r].anchor = "none"
     THEN /\ temps' = [temps EXCEPT ![r].lifecycle = "Restoring"]
          /\ restorers' = [restorers EXCEPT ![r].pc = "entered"]
          /\ UNCHANGED lockFile
     ELSE Leaves(r)
  /\ UNCHANGED <<stores, archives, disclosed, minted, receipt>>

(* The replacement credential is prepared and reaches the sink before the   *)
(* activation commits; a sink error may come after some or all bytes left.  *)
Disclose(r) ==
  /\ restorers[r].pc = "entered"
  /\ minted < MaxMinted
  /\ minted' = minted + 1
  /\ disclosed' = disclosed \cup {Credential(minted', temps[r].epoch + 1)}
  /\ \/ /\ restorers' = [restorers EXCEPT ![r].pc = "disclosed",
                                          ![r].credential = Credential(minted', temps[r].epoch + 1)]
        /\ UNCHANGED <<lockFile, temps>>
     \/ Leaves(r)
  /\ UNCHANGED <<stores, archives, receipt>>

(* commit_normal_restore_activation: one transaction, refused when the new  *)
(* active recipient is the identity that opened the archive.                *)
Activated_Mutant(s, c) ==
  [s EXCEPT !.keyring = @ + 1, !.head = @ + 1, !.anchor = "NormalRestore",
            !.lifecycle = "Ready", !.active = c.active, !.recovery = c.recovery,
            !.creds = @ \cup {[c.credential EXCEPT !.epoch = s.epoch]}]
Activated(s, c) ==
  [s EXCEPT !.epoch = @ + 1, !.keyring = @ + 1, !.head = @ + 1, !.anchor = "NormalRestore",
            !.lifecycle = "Ready", !.active = c.active, !.recovery = c.recovery,
            !.creds = @ \cup {c.credential}]

Activate(r) ==
  /\ restorers[r].pc = "disclosed"
  /\ IF restorers[r].identity # restorers[r].active
     THEN /\ temps' = [temps EXCEPT ![r] = Activated(@, restorers[r])]
          /\ restorers' = [restorers EXCEPT ![r].pc = "activated"]
          /\ UNCHANGED lockFile
     ELSE Leaves(r)
  /\ UNCHANGED <<stores, archives, disclosed, minted, receipt>>

(* The temporary is synced, then renamed over the target path. *)
Install(r) ==
  /\ restorers[r].pc = "activated"
  /\ stores' = [stores EXCEPT ![restorers[r].target] = temps[r]]
  /\ temps' = [temps EXCEPT ![r] = NoStore]
  /\ restorers' = [restorers EXCEPT ![r].pc = "installed"]
  /\ UNCHANGED <<archives, lockFile, disclosed, minted, receipt>>

(* The parent directory is synced: with or without an error the call ends   *)
(* and the target stays.                                                    *)
Finish(r) ==
  /\ restorers[r].pc = "installed"
  /\ Leaves(r)
  /\ UNCHANGED <<stores, archives, disclosed, minted, receipt>>

(* An I/O error inside the closure, before the rename. *)
RestoreFails(r) ==
  /\ restorers[r].pc \in {"built", "entered", "disclosed", "activated"}
  /\ Leaves(r)
  /\ UNCHANGED <<stores, archives, disclosed, minted, receipt>>

(* The process dies: no Drop runs, the lock file and the temporary stay.    *)
(* A later call is another process, hence another restorer.                 *)
Crash(r) ==
  /\ restorers[r].pc \notin {"idle", "dead"}
  /\ restorers' = [restorers EXCEPT ![r] = [pc |-> "dead", held |-> restorers[r].pc # "checked"]]
  /\ UNCHANGED <<stores, archives, lockFile, temps, disclosed, minted, receipt>>

-----------------------------------------------------------------------------
(* verify_backup decides the mode from the recipient that opened it; the    *)
(* full form reconstructs in a private work directory it always removes.    *)
RehearsalMode(a, identity) ==
  IF identity = a.store.active THEN "ActiveRecipient" ELSE "RecoveryRecipient"

(* validate_workspace refuses a projected use above half the free space;    *)
(* `fits' is that comparison.                                               *)
VerifyBackupFull(a, identity, override, fits) ==
  /\ fits /\ Gate(a, override) /\ Decrypts(a, identity) /\ Reconstructs(a)
  /\ receipt' = [archive |-> a, identity |-> identity, mode |-> RehearsalMode(a, identity)]
  /\ UNCHANGED <<stores, archives, lockFile, temps, restorers, disclosed, minted>>
-----------------------------------------------------------------------------
Observations(head) ==
  [status : {"BarrierConfirmed", "LastKnown", "Unavailable"}, claimed : BOOLEAN,
   observed : {0, head - 1, head}, tail : {"Complete", "Unavailable"}, tailDigest : BOOLEAN]

RestoreSteps(r) ==
  \/ \E a \in archives, t \in Targets, i, n, v \in Identities, o \in BOOLEAN :
       BeginRestore(r, a, t, i, n, v, o)
  \/ AcquireLock(r) \/ Build(r) \/ EnterBuild(r) \/ Disclose(r)
  \/ Activate(r) \/ Install(r) \/ Finish(r) \/ RestoreFails(r) \/ Crash(r)

BackupSteps ==
  \/ OriginMoves
  \/ \E p \in {p \in Paths : Present(p) /\ Cardinality(archives) < MaxArchives} :
       \E v \in SUBSET Identities, o \in Observations(stores[p].head),
        g \in {"Valid", "Absent"}, d \in Defects \cup {"none"} : CreateBackup(p, v, o, g, d)
  \/ \E a \in archives, i \in Identities, o, f \in BOOLEAN : VerifyBackupFull(a, i, o, f)

RestoreNext == BackupSteps \/ \E r \in Restorers : RestoreSteps(r)

RestoreSpec == RestoreInit /\ [][RestoreNext]_restoreVars

-----------------------------------------------------------------------------
Inside(r) == restorers[r].pc \in
  {"locked", "built", "entered", "disclosed", "activated", "installed"}

(* The lock file admits one restore of the directory at a time, and while a *)
(* restore runs the file is there: no other call's Drop removes it          *)
(* (RestoreLock).                                                           *)
OneRestoreAtATime ==
  /\ \A r, q \in Restorers : Inside(r) /\ Inside(q) => r = q
  /\ (\E r \in Restorers : Inside(r)) => lockFile

(* A temporary sibling belongs to a restore that is running or whose        *)
(* process died; every refusal, error and success leaves none (restore).    *)
NoStrayTemporary ==
  \A r \in Restorers : temps[r] # NoStore =>
    restorers[r].pc \in {"built", "entered", "disclosed", "activated", "dead"}

(* An installed store accepts one credential, which its operator was given  *)
(* before the rename, and none that the archive carried or that an earlier, *)
(* failed restore disclosed (commit_normal_restore_activation).             *)
OldCredentialsDie ==
  \A t \in Targets : Present(t) =>
    /\ \E c \in disclosed \ {FirstCredential} : Usable(stores[t]) = {c}
    /\ stores[t].anchor = "NormalRestore" /\ stores[t].lifecycle = "Ready"

(* Nothing is renamed into place that some check would have refused: a bad  *)
(* signature or frame, a record that does not authenticate, a source not    *)
(* claimed decommissioned, a store in an offline job or still unanchored.   *)
InstalledIsSound ==
  [][\A r \in Restorers : restorers[r].pc = "activated" /\ restorers'[r].pc = "installed" =>
       LET a == restorers[r].archive IN
       /\ a.defect = "none" \/ (a.defect = "signature" /\ a.signature = "Absent")
       /\ a.claimed /\ a.store.anchor = "none" /\ a.store.lifecycle = "Ready"
       /\ stores'[restorers[r].target].keyring = a.store.keyring + 1]_restoreVars

(* A receipt for the recovery path was earned by an identity that is not    *)
(* the archived active recipient, on an archive whose every record          *)
(* authenticates (verify_backup_full).                                      *)
RecoveryReceiptEarned ==
  receipt.mode = "RecoveryRecipient" =>
    /\ receipt.identity \in receipt.archive.effective \ {receipt.archive.store.active}
    /\ receipt.archive.defect \in {"none", "signature"}

\* An installed store accepts only the credential that was disclosed, and a recovery receipt
\* was earned with a recovery recipient.
RestoreIsTruthful == OldCredentialsDie /\ RecoveryReceiptEarned
=============================================================================
