----------------------------- MODULE StoreFiles -----------------------------
(***************************************************************************)
(* What the tools that create, rename and unlink files promise together:   *)
(* migration and compaction, the key rewrite, restore, and backup.  They   *)
(* share no variable, so a behaviour of the four is a behaviour of each.   *)
(***************************************************************************)
EXTENDS StoreMaintenance, StoreRewrite, Restore, BackupCatalog

StoreFilesSpec == MaintenanceSpec /\ RewriteSpec /\ RestoreSpec /\ BackupSpec

-----------------------------------------------------------------------------
\* Lock files and temporary files have one owner that is still at work: two restores never
\* share a target, and no failed restore or backup leaves a temporary store or archive.
WorkFilesAreOwned == OneRestoreAtATime /\ NoStrayTemporary /\ NoOrphanTemporary

\* A store file is replaced by the right one, whoever renames it into place: a key rewrite
\* carries the history over, a restore installs a checked archive, and a migration or a
\* compaction applies to the state it was planned on.
InstallsAreSound == InstallKeepsHistory /\ InstalledIsSound /\ AppliedOnPlannedState
=============================================================================
