# Verification of ops-light-secrets-server

TLA+ models of the single-binary, Vault-KV-v2-compatible secrets server in
`src/`, the TLC instances that check them, and TLAPS proofs of most of what they check.
Paths below are relative to the repository root's `src/`; the crate is in
`src/src/`.

## The system and its parts

One process owns one redb database. Requests arrive over TLS (data surface) or
over a local control socket (operators).

- **Storage threads** (`storage_executor.rs`): one writer behind a data, an
  urgent and a recovery lane, with a gate for one clock watermark at a time,
  aggregation of refused submissions and a shutdown barrier; beside it a bounded
  pool of snapshot readers.
- **Commit path** (`transaction_coordinator.rs`, `store/`): authorize, apply,
  check the state commitment, append the audit event, commit, answer.
- **Clock** (`clock.rs`): effective time that never runs back, and its durable
  high-water mark.
- **Data** (`kv.rs`, `rotation.rs`): versions, check-and-set, retention,
  deletion, destruction and purge; the rotation workflow that holds the replaced
  version.
- **Access** (`identity.rs`, `auth.rs`, `credential.rs`, `control/`,
  `consumer.rs`, `reconciliation.rs`, `rate_limit.rs`, `transport.rs`): who may do
  what, tokens and roles, declared readers of a secret and who still uses an old
  version, request windows, the served certificate.
- **Operations** (`reencrypt.rs`, `credential_epoch.rs`, `backup*.rs`,
  `restore.rs`, `recovery_fork.rs`, `migration.rs`, `compaction.rs`, `init.rs`,
  `startup.rs`, `capacity.rs`, `audit_export.rs`, `store/checkpoint.rs`,
  `store/signing_trust.rs`): offline, crash-resumable procedures on the store file
  and the artifacts that leave it.

`PROJECT.json` lists every part with its status, also those without state.

## Modules

| Module | Models | State and actions |
|---|---|---|
| `OverloadAccumulator` | `OverloadAccumulator` | Operators on the bucket counts. |
| `StorageExecutor` | `StorageExecutor`, `Submission`, `WatermarkGate`, `worker_loop`, `select_message` | Lanes, slots and their answers, gate and deadline, the writer's program counter, stop flag, health; one action per access to shared memory. |
| `SerialWriter` | what the executor promises | Abstract: commands run one at a time and at most once, and answers are true. |
| `SnapshotService` | `SnapshotService`, `snapshot_worker` | Queue, workers, cursor loop, deadline, byte limit, drop. |
| `KvEntry` | `Entry`, `prune`, `rotation_write_encoded`, `mutate_versions_locked` ... | Operators on one path's entry. |
| `KvCatalog` | `KvCatalog`, `KvService` | Paths, mount settings, grants, events of the last operation; one step per critical section. |
| `RotationCatalog` | `RotationCatalog` and the KV calls it makes | Rows, the KV entry, the method under way; one step per acquisition of the KV lock. |
| `ClockMonitor` | `ClockMonitor` | Operators on the monitor's record. |
| `ClockCoordinator` | the monitor, `CoordinatorBackend::execute`, `StoreCoordinatorTransaction` | Monotonic time, durable mark, chain head, requests, open transaction, unreported outcomes; boot, crash, observe, poll, submit, stage, commit, abort, report. |
| `Authorization` | `identity.rs` | Grants, planes, scopes and the decision, as operators. |
| `ControlManagement` | `control/management.rs` | Identities, grants, settled request ids; every command. |
| `CredentialAuthority` | `auth.rs`, `credential.rs`, `control/credential_management.rs` | Roles, secret ids, tokens, uses; issue, login, use, revoke, replace. |
| `ConsumerRegistry` | `consumer.rs` | Consumers, instances, generations, the two request logs. |
| `Reconciliation` | `reconciliation.rs` | Declared, authorized and observed readers joined into rows and pages. |
| `RateLimiter` | `rate_limit.rs` | Windows, permits, drop table; the clock is read before the lock. |
| `TlsReload` | `transport.rs` | Files, reloads under way, expected and served certificate. |
| `StoreMaintenance` | `reencrypt.rs`, `credential_epoch.rs`, `store/mod.rs`, `store/keyring.rs`, `store/checkpoint.rs`, `store/integrity.rs` | The store's rows and its sibling; every offline key job, with a crash after any durable step. |
| `Restore` | `restore.rs`, `backup.rs`, `backup_format.rs`, `backup_verify.rs` | Origin, targets, lock, temporaries, archives, shown credentials. |
| `RecoveryFork` | `recovery_fork.rs` | Cutoff, lineage and checkpoint evidence, confirmation, activation. |
| `StoreRewrite` | `migration.rs`, `compaction.rs` | Plan against one state, admission against another. |
| `NodeLifecycle` | `init.rs`, `startup.rs` | One directory, several processes, each of which may die. |
| `Capacity`, `RecoveryReserve` | `capacity.rs` | Free space, permits, holds; the reserve's record and files on the same disk. |
| `SigningTrust` | `store/signing_trust.rs` | Lineage, prepared transitions, descriptors, pending flag. |
| `BackupCatalog` | `backup.rs`, `backup_verify.rs` | Output files, publication states, signatures, recipient sets. |
| `AuditExport` | `audit_export.rs`, `store/audit.rs` | Chain, cursors over snapshots, bundles and their verification. |
| `StoreFiles` | the tools that create, rename and unlink store files | What maintenance, rewrite, restore and backup promise together. |
| `Publications` | the parts whose artifacts leave the system | What backups, exports and signing keys promise together. |
| `*Proofs` | | TLAPS proofs; see below. |
| `MC*` | | Instances for TLC. |

Modules that interact are composed. `RotationCatalog` uses the `KvEntry`
operators of `KvCatalog`, so both agree on what a write, a prune or a hold does.
`ClockCoordinator` joins monitor, commit path and restarts at the durable mark.
`CredentialAuthority` and `ConsumerRegistry` extend `ControlManagement`, whose
identities, grants and request ids they use. `RecoveryReserve` extends
`Capacity`: both spend the same free space. `StoreFiles` and `Publications` join
components without common variables: a behaviour of all is a behaviour of each.

Data is abstracted to what the properties tell apart. A command is a slot that
is reused, a secret value is a model value (or `Wiped`), a digest is the state it
was computed from, a chain hash is a position, a confirmation is the plan it
binds. Kept in full is the control: early returns, the order of atomics, locks,
channel operations, transactions and renames, and every failure path.

Step granularity. In the executor a step is one access to an atomic, lock or
channel. `submit(&self)` and `stop_admission_and_cancel_queued(&mut self)`
cannot overlap, because the borrow checker excludes it. In a catalog a step is
one critical section. In an offline job a step is one transaction or one change
of the file system, and the process may die after each. `execute` works on a
private redb transaction, so what it does before the commit is one step.

The crate has no caller of `ClockMonitor` yet besides its tests. Its driver in the
model is therefore an assumption: once per time unit it observes the clock, then
polls the idle checkpoint; it submits and reports at any time, in any order, and
may report a committed command as failed. The same holds for `validate_startup`,
`run_shutdown` and the engines behind migration and compaction: what the code
asks of its callers is modelled, and marked external in `PROJECT.json`. The
catalogs of `kv.rs`, `rotation.rs`, `auth.rs` and `consumer.rs` live in memory, so
no crash recovery is claimed for them.

## Runs

Components that share no state share a run. A variable `focus` picks the component
a behaviour follows while the others rest in an initial state, so a run explores
the sum of the components' state spaces, not their product.

| Run | Invariants and properties |
|---|---|
| `executor` | `TypeOK`; `AnswersAreTruthful`: what a submitter is told is true, whatever races with it; `GateHasOneOwner`: one watermark in flight; `RefusalsConserved`: refusals are neither lost nor counted twice when a transaction aborts and its snapshot is merged back into full buckets; `SnapshotAnswersTruthful`. |
| `executor_liveness` | `ImplementsSerialWriter`: the thread-level steps refine `SerialWriter`; `WaitersAnswered`: with endless traffic in every lane, data and urgent submitters get an answer; `BarrierCrossed`: shutdown gets past the join; `SnapshotsEnd`. |
| `data` | `HeldVersionsRetained`, `HistoryIsAppendOnly`, `MutationsAudited`: retention, holds, deletion and destruction in any order; `NoLostUpdate`, `PurgeTakesWhatWasReviewed`: callers whose read-then-write and review-then-purge interleave with others; `RotationAnchored`, `RotationMovesForward`: the workflow against writes, deletes, destruction, retention changes and purges between its locks. |
| `clock` | `EffectiveCoversMark`, `NoAnomalousMark`, `ChainMatchesState`, `ChainGrowsInOrder`: mark, monitor and audit chain agree through lost, late and overtaken outcomes, wall jumps, crashes and restarts; `CalmRestartBounded`: a process that stayed ready loses at most the published window. |
| `access` | `CatalogStaysSound`: replays and conflicts leave a catalog a restart accepts; `CredentialsAccounted`; `AuthorityKeepsItsWord`: a refused bearer stays refused and a role deletion revokes what was confirmed; `RetirementIsOrdered`; `ViewIsComplete`: no reader is missing from the pages; `LimiterAccounts`; `ServedIsExpected`: concurrent reloads and crashes never leave the served certificate other than the durable expected one. |
| `operations` | `AuditAccountsForState`, `RewritesKeepStore`: key jobs and checkpoints with a crash after any step; `WorkFilesAreOwned`, `RestoreIsTruthful`, `InstallsAreSound`: restores, backups and rewrites install the right store and leave no stray file; `ForkIsTruthful`; `DirectoryIsTruthful`: init, start and shutdown; `SpaceKeepsFloors`, `ReserveMatchesRecord`; `RolloverKeepsTrust`; `ExportIsExact`; `PublicationsAreFinal`. |
| `executor_shutdown_race`, `rotation_hold_leak`, `rotation_stale_close`, `rotation_rollback_over`, `clock_restart`, `keyring_crash` | One property each, violated; see Findings. |

Deadlock is not checked: every model has bounds at which it stops, and a shut down
executor, a dead node or a finished export really stops.

### Bounds

- Executor: three slots. One data and two watermark submitters meet a closed
  gate; three data submitters of different classes with one bucket meet a full
  bucket map, also on merge. Lane capacity 1 makes a lane full with one command.
  Slots are reused, so behaviours are unbounded. `StreakMax` stands for 255 and
  is reached: above the weight in `executor`, where the counter's type matters, and
  equal to it in `executor_liveness`, where only the turn it gives to data does.
  `MaxOwed` bounds refusals not yet committed. Two snapshot slots and two workers, a
  queue of one and chunks of zero or one byte under a limit of one reach every way a
  snapshot ends.
- Data: one path (paths never interact), four versions, retention 1 or 2, two
  values: enough for a prune to meet a held version that is neither oldest nor
  current. Callers have three versions and four generations. Two rotations with a
  history of three transitions in place of 32, so that a rotation can end with its
  history full and with room left. The view leaves out the events of the last
  operation, which no action reads.
- Clock: a unit is one idle poll. Tolerance, settle period and idle interval are
  one unit, the commit deadline less than one. A process lives five units, which
  covers a checkpoint, a missed deadline, an anomaly and the return to ready. Wall
  readings lie at the edges of the tolerance, just below it and far above it. Boots
  find the wall clock up to two units behind the mark and, in `clock_restart`,
  eight ahead. `CalmRestartBounded` allows two units over the window: one because
  a commit carries the time of the observation before it, one because a missed
  deadline is noticed at a poll.
- Access: a root and one identity, two grants, three request ids (one to settle,
  one to replay, one to conflict), three credentials, two uses, two windows, two
  concurrent callers of the limiter, two reloads and three certificates (old,
  half-replaced, new).
- Operations: two processes for one directory, two restores for one target, two
  identities, one archive with or without a defect, two pieces of evidence over three
  positions (so that there can be a gap between them), two epochs, three keyring
  generations (two key jobs in a row), three signing keys and two artifacts for them,
  chains of three events. Each protocol completes once and starts again within them.
  Sizes are in units of the largest transaction.

Symmetry is used for interchangeable watermark slots, callers, request ids, values
and rotations, in runs without liveness. The bounds only have to make the cases
happen: most of the properties are also proved without them.

### Fairness

`executor_liveness` assumes weak fairness of the writer's steps (the operating
system schedules the thread, and the backend returns or panics), of `Receive` (the
runtime polls a future whose channel is ready), of each snapshot worker, and of the
clock reaching a running deadline. Nothing is assumed of submitters. The recovery
streak then suffices for data not to starve. The ordinary recovery lane has no turn
against urgent commands, and no property claims one.

## Proofs

Each theorem holds for every value of the constants that meets the named
assumptions of the modules it extends; those assumptions restate what the code
checks or fixes (`ConfigAssumption` is `ExecutorConfig::validate`), or say that a
bound is a number and a marker value is no member of a set. Where a property is not
inductive, the invariant that implies it was first checked with TLC. Every proof has
one step per action and, under it, one per conjunct the action can disturb.

`ExecutorProofs` (`ConfigAssumption`)

- `ExecutorTypes`: `TypeOK` is inductive.
- `ExecutorAnswers`: `AnswerInv` says where each slot is (in one lane exactly once,
  held by the writer, or nowhere) and which command state that place allows. It is
  needed because an answer is given long after the state that justifies it was set.
- `ExecutorGate`: `GateInv` says that the gate is closed exactly when one slot owns
  it, in one of the places between taking it and giving it back, as long as the
  writer is alive.
- `ExecutorRefines`: the safety part of the refinement that `executor_liveness`
  checks. `WriterInv` adds to `AnswerInv` that a result is published before its
  reply is sent and that no submission is under way once admission is closed.
  Every step of the threads then is a step of `SerialWriter` or leaves its
  variables as they are.

`CounterProofs`, `RefusalProofs` (`CapacityBounds`, `ReserveBounds`, `LimiterBounds`,
`ConfigAssumption`)

- The laws of a sum over a finite set come first, because every account below is one.
  The community modules define the sum by a fold over a set; `SmallestSet` (if some
  finite set breaks a statement, one does all of whose smaller subsets keep it) takes
  the place of induction.
- `LimiterAccount`: `LimiterInv` says what each caller holds between its two locks, and
  bounds what a bucket has granted by the windows it went through, forward or set back.
- `SpaceIsFunded`, `SpaceSurvivesReserve`: `SpaceInv` keeps free, beside the work in
  flight, the floors and a full commit for every place of the lane that is not taken.
  Without that last term the next admission would break the floors.
- `ReserveAgrees`: `ReserveInv` lists the files for each phase of the record and each
  step of the process.
- `RefusalsConserve`: `RefusalInv` says that the snapshot is empty outside a
  transaction and that accumulator and snapshot add up to what is owed. The work is in
  `MergeOverloads`, which folds a snapshot back into a map that may have filled up.

`DataProofs` (`SnapBounds`, `CatalogAssumption`, `RotationAssumption`)

- `SnapshotAnswers`: `SnapInv` says that a submission is in one place, in the queue or
  with one worker, and what that place allows its state to be.
- `KvHeldVersions`, `KvHistory`: the core are lemmas about `Prune`, `AppendVersion` and
  `MutateVersions`: pruning keeps the current and the held version and is deferred only
  for a hold (`PruneShape`, `PruneDefers`), and each operator yields an entry that is
  `Sound` and `Continues` the one before. `Marked` (a value is wiped exactly when its
  version is destroyed) is what makes destruction final.
- `RotationHolds`, `RotationForward`: `RotationInv` adds that a method under way finds
  its row as it left it (`OpInv`), that a prepared row expects the version it protects
  (`RowInv`), and that the held version has the value it had when the rotation began,
  unless destroyed (`KeptInv`). The last is what a rollback relies on across its two
  locks.

`AccessProofs` (`ManagementConstants`, `CredentialBounds`)

- `ManagementSound`, `RegistryKeepsCatalog`, `AuthorityKeepsCatalog`: `ManagementInv`
  ties the count of a request's effects to its settled command. The three catalogs
  share the request ids, so each is shown to keep it.
- `RetirementOrdered` follows from the types of the rows: the order is in the guards.
- `AuthorityAccounts`, `AuthorityKeepsWord`: `AuthorityInv` says that a token is younger
  than the secret id that paid for it, that uses left and tokens minted add up, that
  a retired credential stays so, and that a deleted role has nothing live.

`ServiceProofs` (`ClockAssumption`, `BoundAssumption`, `NodeBounds`, `TlsBounds`)

- `MarkIsCovered`, `MarkIsAnchored`, `ChainAccounts`, `ChainOrdered` share `ClockInv`.
  `Covered` follows a watermark through its life: queued and staged, its replacement is
  at most effective time; committed and unreported, at most the mark. `Chained` says the
  staged view is one event ahead of the store it was read from, because only one writer
  commits. `Anchored` bounds effective time itself.
- `NodeDirectory`: `NodeInv` says that a process past the lock is its owner, and what
  it has shown, admitted or drained at each step.
- `TlsServedIsExpected`: `TlsInv` adds that one reload at a time is between its lock and
  its swap, and what each phase has read.

`StoreProofs` (`MaintenanceBounds`, `RewriteBounds`, `RestoreBounds`)

- `RewritesKept`, `AuditAccounts`: `MaintInv` says that a finished sibling is the rewrite
  of the store as it is now, that the checkpoints are one chain, and that undoing the
  log's tail gives the rows the last checkpoint signed. `RowsBefore` is a recursive
  function over the log; its laws are shown from the last position down, each time for
  the first position at which they would fail.
- `RestoreTruth`: `RestoreInv` says for each restore what its temporary holds at each
  step, which archive it came from and who was shown which credential.
- `RewriteApplied`: `RewriteInv` says that a plan whose head is still the store's head
  measured the state that is there.
- `ToolsOwnFiles`, `ToolsInstall` put the tools' theorems together over `StoreFilesSpec`.

`ArtifactProofs` (`ExportBounds`, `ForkBounds`, `TrustBounds`, `TrustNames`)

- `ExportExact`: `WalkSound` says that the pages shown so far are the matching entries up
  to the cursor, in order. It needs that the ordered listing of a finite set of positions
  exists and is unique, and that a snapshot is unchanged by appends.
- `ForkTruth`: `ScanOK` says that the evidence seen so far covers one interval that ends
  at the latest checkpoint.
- `TrustRollover`, `TrustHistory`: `TrustInv` adds that a prepared key was not in the
  lineage and the lineage has not grown since, where that transition can still be
  registered (`PreparedFresh`), that outstanding descriptors are bound to the newest
  transition (`BoundToLast`), and that only registered transitions are covered. The
  current entry, which the code finds by its state, is shown to be the last
  (`CurrentIsLast`).
- `ToolsPublish` puts backups, exports and keys together over `PublicationsSpec`.

Only model-checked:

- `WaitersAnswered`, `BarrierCrossed`, `SnapshotsEnd`: liveness under fairness, out of
  the prover's reach.
- `ViewIsComplete`: rows are sorted into pages by the library's `SetToSortSeq`, a choice
  among all permutations for which the provers have no laws, over a join of five sets.
- `CalmRestartBounded`: it needs how long ago the last checkpoint of a ready process was,
  counted in observations and polls. That invariant is not worked out; a process of five
  units, the settle period and the idle interval twice, is what TLC covers.
- `MutationsAudited`, `NoLostUpdate`, `PurgeTakesWhatWasReviewed`: not proved. The last two
  need an invariant that ties what each caller saw to the generations written since.
- What the violation runs and the table below are about.

## Findings

- `executor_shutdown_race`. A command accepted after the writer found all lanes
  empty, and before admission stops, is dropped without becoming `Cancelled`. Its
  submitter gets `WorkerUnavailable`.
- `rotation_hold_leak`. `complete` never releases the protected version.
- `rotation_stale_close`. `complete` trusts the current version its caller read.
- `rotation_rollback_over`. `rollback` replaces an ordinary write made after the
  cutover, because it takes whatever is live as its expectation.
- `clock_restart`. Effective time that a boot takes from a wall clock ahead of the
  mark is not durable until the first commit. A crash before it, and a wall clock
  set back, lose more than the published window.
- `keyring_crash`. The audit-payload key rotation writes envelope and metadata in
  two transactions. A crash between them leaves a keyring that nobody can open.

### Further disagreements with the documentation

These predicates state what a document says and do not hold. They have no run;
add one as an `INVARIANT` to the configuration named to see TLC's trace.

| Predicate | Add to | Document | What the code does |
|---|---|---|---|
| `InterruptedPassRecovers` | `Operations.cfg` | `docs/operating.md:210-214` | A pass interrupted in some states can be neither rebuilt nor aborted. |
| `NoClaimStranded` | `Operations.cfg` | `docs/operating.md:462-463` | A create answered Conflict has replaced the descriptor that would have blocked the rollover. |
| `FreshnessFollowsSet` | `Operations.cfg` | `docs/operating.md:165-170` | Nothing drops a rehearsal receipt when the recovery set changes. |
| `PublishedByRename` | `Operations.cfg` | `docs/operating.md:119-122` | Resuming takes an exact temporary for a publication. |
| `AdmissionKeepsFloors` | `Operations.cfg` | `docs/operating.md:68-84` | A permit is admitted against one observation of free space and is not charged to later ones once its work finished. |
| `ReleasedMeansUnlinked` | `Operations.cfg` | `docs/operating.md:92-98` | The record may say released while a file is left. |
| `EveryChangeRecorded` | `Access.cfg` | `docs/operating.md:587-591` | A registry change is applied before its request id is found to be used; the row stays changed, without a record. |
| `RetiredParentHasNoLiveInstance` | `Access.cfg` | `docs/operating.md:771-773` | An instance can be created under a retired parent. |
| `EveryReadShown` | `Access.cfg` | `docs/operating.md:784-785` | Reads that cannot be attributed to a process do not mark their reader's row as observed. |

### Observations

Read in the code while modelling; they break no documented promise, or concern code
without a production caller.

- Storage threads: the deadline poll may mark the executor unhealthy for a watermark
  that finishes at that moment (fail closed). A panicking backend loses the overload
  snapshot in flight.
- KV and rotation: a row whose history is full (`HasRoom`) can be neither rolled
  back, superseded nor completed. `rotation_write_encoded` does not prune, so
  `retention_deferred` stays false while a cutover exceeds `max_versions`. Cutover,
  cancel, rollback and complete share one idempotency key (`rotation.rs:644`).
- Access: a catalog read overwrites the settled request of its id, so a replay after
  it is a Conflict. Login does not look at the identity's status in the control
  catalog. The authentication catalog's epoch has no setter.
- Store: re-MAC, audit-key rotation and `write_secret` change rows without an event.
  Nothing clears a pending anchor. Recipient rewrap and epoch rotation do not look at
  it.
- Operations: a crash that leaves a restore lock, or the temporary of
  `provision_reserve`, makes every later restore or reconciliation refuse.
  `prepare_keyring_for_init` uses the default lifetime whatever was asked. An
  export filtered to have a gap cannot be read back by `decrypt_export`. Capacity
  holds are memory-only.

## Not modelled

- No state: byte encodings and codecs, parsers, HTTP middleware and routing,
  reverse-proxy attribution, configuration, doctor, error envelopes, report wording.
- Cryptography: AEAD, age, MACs and signatures are abstracted to what they bind.
- The control socket's path checks and frame parsing (file-system and socket I/O),
  the connection cap and drain guard of the listener, and the command line beyond the
  order of its durable key steps.
- Fault injection (test instrumentation, empty in release builds).
- In modelled parts: `set_version_state`, a setter only tests use; the read-only
  views of rotations and their request log; `repair_clock`, whose production adapter
  does not exist yet.
