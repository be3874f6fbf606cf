---------------------------- MODULE StoreRewrite ----------------------------
(***************************************************************************)
(* Offline migration and compaction (migration.rs, compaction.rs): a plan  *)
(* made against one state of the store, and its admission later, when the  *)
(* daemon may have run, the keyring may have moved and the disk may have   *)
(* filled.  plan and apply are separate commands.  The engine that builds  *)
(* and installs the sibling is a caller of this code.  Digests are the     *)
(* state they were computed from; confirmations are the plans they bind.   *)
(***************************************************************************)
EXTENDS Integers

CONSTANTS FormatVersion,   \* FORMAT_VERSION
          MaxRewriteHead, MaxRewriteGeneration, MaxSize, MaxSpace,
          Headroom         \* MIN_HEADROOM

ASSUME RewriteBounds ==
  {FormatVersion, MaxRewriteHead, MaxRewriteGeneration, MaxSize, MaxSpace, Headroom} \subseteq Nat

VARIABLES file,      \* the store: version, generation, head, rows, live, size
          space,     \* free bytes next to the reserve
          stopped,   \* daemon absent and directory locked
          evidence,  \* the latest backup evidence and how far it was registered
          plans      \* the last plan of each kind

rewriteVars == <<file, space, stopped, evidence, plans>>

NoEvidence == [generation |-> 0, rows |-> 0, signature |-> FALSE, receipt |-> FALSE, clean |-> FALSE]

NoRewritePlan == [mode |-> "none"]

Kinds == {"migration", "compaction"}

\* MIGRATION_STEPS: only the adjacent steps of the registry.
MigrationSteps == {<<0, 1>>}

\* version_admission and registered_path: equal versions are current, a version
\* with an unbroken path upward needs migration, anything else is unsupported.
RegisteredPath(from, to) ==
  from < to /\ \A v \in from .. to - 1 : <<v, v + 1>> \in MigrationSteps

VersionAdmission(observed) ==
  CASE observed = FormatVersion -> "current"
    [] observed # FormatVersion /\ RegisteredPath(observed, FormatVersion) -> "migration_required"
    [] OTHER -> "unsupported"

RewriteInit ==
  /\ \E v \in {0, 1, 2} :
       file = [version |-> v, generation |-> 1, head |-> 1, rows |-> 1, live |-> 1, size |-> 1]
  /\ space \in 0 .. MaxSpace
  /\ stopped = FALSE
  /\ evidence = NoEvidence
  /\ plans = [k \in Kinds |-> NoRewritePlan]

\* The daemon serves the current version only; every change it commits moves the
\* audit head, and a key change the generation too.  The file never shrinks by
\* itself: rows that go away leave free pages.
DaemonCommits(growth, keyChange) ==
  /\ ~ stopped
  /\ VersionAdmission(file.version) = "current"
  /\ file.head < MaxRewriteHead
  /\ file.live + growth \in 1 .. MaxSize
  /\ keyChange => file.generation < MaxRewriteGeneration
  /\ file' = [file EXCEPT !.head = @ + 1, !.rows = @ + 1, !.live = @ + growth,
                          !.size = IF file.live + growth > @ THEN file.live + growth ELSE @,
                          !.generation = IF keyChange THEN @ + 1 ELSE @]
  /\ UNCHANGED <<space, stopped, evidence, plans>>

SpaceChanges ==
  /\ \E s \in 0 .. MaxSpace : space' = s
  /\ UNCHANGED <<file, stopped, evidence, plans>>

StopOrStart ==
  /\ stopped' = ~ stopped
  /\ UNCHANGED <<file, space, evidence, plans>>

\* A logical backup, then its signature and rehearsal receipt, are registered.
TakeBackup ==
  /\ evidence' = [NoEvidence EXCEPT !.generation = file.generation, !.rows = file.rows]
  /\ UNCHANGED <<file, space, stopped, plans>>

Register(part) ==
  /\ evidence.generation # 0
  /\ evidence' = [evidence EXCEPT ![part] = TRUE]
  /\ UNCHANGED <<file, space, stopped, plans>>

\* valid_evidence: one generation throughout, everything registered, and a clean stop.
ValidEvidence(e) == e.generation # 0 /\ e.signature /\ e.receipt /\ e.clean

RequiredBytes(kind) == (IF kind = "migration" THEN 2 * file.size ELSE file.live) + Headroom

PlannedFrom(kind, mode) ==
  [mode |-> mode, version |-> file.version, generation |-> file.generation, head |-> file.head,
   rows |-> file.rows, required |-> RequiredBytes(kind),
   evidence |-> IF mode = "offline_final" THEN evidence ELSE NoEvidence]

\* plan: a registered path (for a migration), room for the sibling, and for a
\* final plan the lock and the evidence.
PlanRewrite(kind, mode) ==
  /\ kind = "migration" => RegisteredPath(file.version, FormatVersion)
  /\ RequiredBytes(kind) <= space
  /\ mode = "offline_final" => stopped /\ ValidEvidence(evidence)
  /\ plans' = [plans EXCEPT ![kind] = PlannedFrom(kind, mode)]
  /\ UNCHANGED <<file, space, stopped, evidence>>

\* validate_apply: a final plan for the generation and the head of now, the lock,
\* the evidence it bound, and the space it asked for.
ValidateApply_Mutant(kind) ==
  /\ plans[kind].mode = "offline_final"
  /\ file.generation = plans[kind].generation
  /\ stopped
  /\ ValidEvidence(plans[kind].evidence)
  /\ space >= plans[kind].required

ValidateApply(kind) ==
  /\ plans[kind].mode = "offline_final"
  /\ file.generation = plans[kind].generation /\ file.head = plans[kind].head
  /\ stopped
  /\ ValidEvidence(plans[kind].evidence)
  /\ space >= plans[kind].required

\* The admitted rewrite: every frame is copied, the version moves to the plan's
\* target, free pages are left behind, and the installation is an audited event.
Installed(kind) ==
  [file EXCEPT !.version = IF kind = "migration" THEN FormatVersion ELSE @,
               !.head = @ + 1,
               !.size = file.live]

Apply(kind) ==
  /\ ValidateApply(kind)
  /\ file.head < MaxRewriteHead
  /\ file' = Installed(kind)
  /\ UNCHANGED <<space, stopped, evidence, plans>>

RewriteNext ==
  \/ \E growth \in -1 .. 1, keyChange \in BOOLEAN : DaemonCommits(growth, keyChange)
  \/ SpaceChanges \/ StopOrStart \/ TakeBackup
  \/ \E part \in {"signature", "receipt", "clean"} : Register(part)
  \/ \E kind \in Kinds :
       (\E mode \in {"preliminary", "offline_final"} : PlanRewrite(kind, mode)) \/ Apply(kind)

RewriteSpec == RewriteInit /\ [][RewriteNext]_rewriteVars

-----------------------------------------------------------------------------
\* A rewrite is applied to exactly the rows and the version its plan measured,
\* with room for the store as it is now, and moves the version along registered
\* steps only, whatever ran between plan and apply: validate_apply compares the
\* head and the generation instead of measuring again.
AppliedOnPlannedState ==
  [][\A kind \in Kinds : Apply(kind) =>
       /\ file.rows = plans[kind].rows /\ file.version = plans[kind].version
       /\ space >= RequiredBytes(kind)
       /\ file'.version # file.version => RegisteredPath(file.version, file'.version)]_rewriteVars
=============================================================================
