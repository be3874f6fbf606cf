---------------------------- MODULE Publications ----------------------------
(***************************************************************************)
(* What the parts whose artifacts leave the system promise together: the   *)
(* backup catalog, the audit exports and the signing keys.  They share no  *)
(* variable, so a behaviour of the three is a behaviour of each.           *)
(***************************************************************************)
EXTENDS BackupCatalog, SigningTrust, AuditExport

PublicationsSpec == BackupSpec /\ TrustSpec /\ ExportSpec

-----------------------------------------------------------------------------
\* What left the system is final: a registered or abandoned backup or export keeps its
\* disposition, a retired key's entry never changes, and nothing it left unsigned is signed
\* later.
PublicationsAreFinal ==
  DispositionIsFinal /\ OldKeyStaysUnsigned /\ RegisteredExportsFinal /\ RetiredEntriesFrozen
=============================================================================
