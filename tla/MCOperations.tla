---------------------------- MODULE MCOperations ----------------------------
(***************************************************************************)
(* The operator's side of the system, for TLC: the store file and what     *)
(* rewrites, restores, starts and stops it, and the artifacts that leave   *)
(* it (backups, exports, signing keys).  A behaviour follows one           *)
(* component, named by `focus`, while the others rest in one initial       *)
(* state, so that the run explores the sum of their state spaces.  The two *)
(* halves of the audit export, paging and bundles, share nothing but the   *)
(* chain and have a focus each.                                            *)
(***************************************************************************)
EXTENDS StoreFiles, Publications, RecoveryFork, NodeLifecycle, RecoveryReserve

VARIABLE focus

storeVars == <<maintenanceVars, restoreVars, forkVars, rewriteVars>>
hostVars == <<nodeVars, capacityVars, reserveVars>>
artifactVars == <<trustVars, backupVars, exportVars>>
operationsVars == <<focus, storeVars, hostVars, artifactVars>>

FirstIdentity == CHOOSE i \in Identities : TRUE
SecondIdentity == CHOOSE i \in Identities : i # FirstIdentity
AnyCutoff == CHOOSE c \in [sequence : {1}, head : Heads, generation : {1}, signer : Signers,
                           root : Signers, credentialEpoch : {1}, auditEpoch : {1}] :
               ArchiveValid(c)

\* A component that is not followed starts in one fixed state.
Resting ==
  /\ focus # "restore" =>
       /\ stores["origin"].active = FirstIdentity
       /\ stores["origin"].recovery = SecondIdentity
  /\ focus # "fork" => cutoff = AnyCutoff
  /\ focus # "rewrite" => file.version = 1 /\ space = MaxSpace
  /\ focus # "reserve" => free = MaxFree

OperationsInit ==
  /\ focus \in {"maintenance", "restore", "fork", "rewrite", "node", "reserve", "trust",
                "backups", "queries", "exports"}
  /\ MaintenanceInit /\ NodeInit /\ TrustInit /\ BackupInit /\ ExportInit
  /\ RestoreInit /\ ForkInit /\ RewriteInit /\ ReserveInit
  /\ Resting

StoreSteps ==
  /\ UNCHANGED <<hostVars, artifactVars>>
  /\ \/ focus = "maintenance" /\ MaintenanceNext /\ UNCHANGED <<restoreVars, forkVars, rewriteVars>>
     \/ focus = "restore" /\ RestoreNext /\ UNCHANGED <<maintenanceVars, forkVars, rewriteVars>>
     \/ focus = "fork" /\ ForkNext /\ UNCHANGED <<maintenanceVars, restoreVars, rewriteVars>>
     \/ focus = "rewrite" /\ RewriteNext /\ UNCHANGED <<maintenanceVars, restoreVars, forkVars>>

HostSteps ==
  /\ UNCHANGED <<storeVars, artifactVars>>
  /\ \/ focus = "node" /\ NodeNext /\ UNCHANGED <<capacityVars, reserveVars>>
     \/ focus = "reserve" /\ ReserveNext /\ UNCHANGED nodeVars

ArtifactSteps ==
  /\ UNCHANGED <<storeVars, hostVars>>
  /\ \/ focus = "trust" /\ TrustNext /\ UNCHANGED <<backupVars, exportVars>>
     \/ focus = "backups" /\ BackupNext /\ UNCHANGED <<trustVars, exportVars>>
     \/ /\ \/ focus = "queries" /\ (AppendSteps \/ QuerySteps)
           \/ focus = "exports" /\ (AppendSteps \/ BundleSteps)
        /\ UNCHANGED <<trustVars, backupVars>>

OperationsNext ==
  /\ UNCHANGED focus
  /\ StoreSteps \/ HostSteps \/ ArtifactSteps

OperationsSpec == OperationsInit /\ [][OperationsNext]_operationsVars
=============================================================================
