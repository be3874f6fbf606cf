--------------------------- MODULE StoreMaintenance ---------------------------
(***************************************************************************)
(* The offline key jobs of one store file: record-key rotation, metadata    *)
(* re-MAC, recipient rewrap, audit-payload key rotation and credential      *)
(* epoch rotation, interleaved with the daemon's audited writes, with       *)
(* checkpoints, and with a crash after any durable step (store/mod.rs,      *)
(* store/keyring.rs, store/checkpoint.rs, store/integrity.rs, reencrypt.rs, *)
(* credential_epoch.rs).                                                    *)
(*                                                                          *)
(* A store is what one redb file holds.  A digest is collision free, so it  *)
(* is modelled by the rows it covers; a chain hash by the length of the log *)
(* it ends.  Keys are numbered in the order they are minted.                *)
(***************************************************************************)
EXTENDS Naturals, Sequences, FiniteSets

CONSTANTS MaxEvents,        \* bound: entries of the audit log
          MaxGeneration,    \* bound: keyring generation
          MaxStoreEpoch,    \* bound: credential epoch
          MaxSecond,        \* bound: effective clock, whole seconds
          MaxRecords,       \* bound: secret versions written
          TicksPerSecond    \* milliseconds of one second, scaled down

ASSUME MaintenanceBounds ==
  /\ {MaxEvents, MaxGeneration, MaxStoreEpoch, MaxSecond, MaxRecords}
       \subseteq Nat \ {0}
  /\ TicksPerSecond \in Nat \ {0, 1, 2}

VARIABLES store,      \* the installed store.redb
          siblings,   \* the two same-directory build files
          tool,       \* what the offline tool holds in memory, lost by a crash
          plan,       \* the record-rotation plan the operator kept
          second,     \* effective clock of the callers
          silent      \* log length at the last row change no event commits to

maintenanceVars == <<store, siblings, tool, plan, second, silent>>

-----------------------------------------------------------------------------
(* Records of the file.                                                     *)

NoJob == [status |-> "none", installed |-> <<>>]
NoPlan == [generation |-> 0, before |-> <<>>, head |-> 0]

Genesis ==
  [lifecycle |-> "ready", anchor |-> "none",
   prov |-> [lifecycle |-> "ready", generation |-> 1],
   envelope |-> [generation |-> 1, record |-> 1, mac |-> 1, audit |-> 1,
                 recipients |-> 1],
   metadata |-> [generation |-> 1, recipients |-> 1],
   epoch |-> 1, records |-> [count |-> 0, key |-> 1],
   log |-> <<[op |-> "genesis", time |-> TicksPerSecond, kind |-> "none",
              before |-> <<>>, after |-> <<>>]>>,
   job |-> NoJob, prepared |-> {}, registered |-> <<>>]

Absent == [state |-> "absent", body |-> Genesis]

\* What the state digest covers: every clear row with its MAC, and the
\* encrypted records.  Audit, checkpoint and rewrite-job rows are left out.
Rows(s) ==
  [keyring |-> <<s.metadata.generation, s.metadata.recipients, s.envelope.mac>>,
   provisional |-> <<s.prov.lifecycle, s.prov.generation, s.envelope.mac>>,
   anchor |-> s.anchor,
   epoch |-> <<s.epoch, s.envelope.mac>>,
   admins |-> <<s.epoch, s.envelope.mac>>,
   secrets |-> <<s.records.count, s.records.key>>]

\* The envelope opens only when the sealed metadata row agrees with it.
KeyringOpens(s) ==
  /\ s.metadata.generation = s.envelope.generation
  /\ s.metadata.recipients = s.envelope.recipients

HeadTime(s) == s.log[Len(s.log)].time

\* Offline verification reads the log only when time never runs backwards.
ChainVerifies(s) ==
  \A i \in 1 .. Len(s.log) - 1 : s.log[i].time <= s.log[i + 1].time

\* s after the transaction that turns its rows into those of t and appends one
\* event committing to the named rows.
Logged(s, t, op, time, rows) ==
  [t EXCEPT !.log = Append(s.log,
     [op |-> op, time |-> time, kind |-> IF rows = {} THEN "none" ELSE "delta",
      before |-> [r \in rows |-> Rows(s)[r]],
      after |-> [r \in rows |-> Rows(t)[r]]])]

\* Bound: room in the audit log.
RoomFor(n) == Len(store.log) + n <= MaxEvents

MaintenanceInit ==
  /\ store = Genesis
  /\ siblings = [new |-> Absent, remac |-> Absent]
  /\ tool = "idle"
  /\ plan = NoPlan
  /\ second = 1
  /\ silent = 0

Tick ==
  /\ second < MaxSecond
  /\ second' = second + 1
  /\ UNCHANGED <<store, siblings, tool, plan, silent>>

-----------------------------------------------------------------------------
(* The daemon: it serves only a ready store whose keyring opens, and never   *)
(* while a tool holds the data-directory lock.                               *)

Serving == tool = "idle" /\ store.lifecycle = "ready" /\ KeyringOpens(store)

\* StoreCoordinatorTransaction::append_audit refuses an event older than the
\* head; the clock watermark is the one audited mutation.
AuditedWatermark ==
  /\ Serving /\ RoomFor(1)
  /\ second * TicksPerSecond >= HeadTime(store)
  /\ store' = Logged(store, [store EXCEPT !.prov.generation = @ + 1],
                     "watermark", second * TicksPerSecond, {"provisional"})
  /\ UNCHANGED <<siblings, tool, plan, second, silent>>

AuditedRead ==
  /\ Serving /\ RoomFor(1)
  /\ second * TicksPerSecond >= HeadTime(store)
  /\ store' = Logged(store, store, "read", second * TicksPerSecond, {})
  /\ UNCHANGED <<siblings, tool, plan, second, silent>>

\* Keyring::write_secret commits the version and its metadata, and no event.
WriteSecret ==
  /\ Serving
  /\ store.records.count < MaxRecords
  /\ store' = [store EXCEPT !.records = [count |-> store.records.count + 1,
                                        key |-> store.envelope.record]]
  /\ silent' = Len(store.log)
  /\ UNCHANGED <<siblings, tool, plan, second>>

-----------------------------------------------------------------------------
(* Entering and leaving the rewrite lifecycle, with the sealed mirror.       *)

InLifecycle(s, to) ==
  [s EXCEPT !.lifecycle = to,
            !.prov = [lifecycle |-> to, generation |-> s.prov.generation + 1]]

\* commit_record_rotation_lifecycle: the expected lifecycle and no anchor.
LifecycleAllowed(s, from) == s.lifecycle = from /\ s.anchor = "none"

LifecycleCommit(s, to, op) ==
  Logged(s, InLifecycle(s, to), op, HeadTime(s) + 1, {"provisional"})

-----------------------------------------------------------------------------
(* Record-key rotation.                                                      *)

PlanRotation ==
  /\ tool = "idle" /\ KeyringOpens(store)
  /\ store.lifecycle = "ready" /\ store.anchor = "none"
  /\ plan' = [generation |-> store.envelope.generation,
              before |-> Rows(store), head |-> Len(store.log)]
  /\ UNCHANGED <<store, siblings, tool, second, silent>>

PlanCurrent == plan.generation # 0 /\ plan.generation = store.envelope.generation

EnterRotation ==
  /\ tool = "idle" /\ KeyringOpens(store) /\ RoomFor(1)
  /\ PlanCurrent
  /\ Rows(store) = plan.before
  /\ LifecycleAllowed(store, "ready")
  /\ store' = LifecycleCommit(store, "reencrypting", "record_enter")
  /\ tool' = "entered"
  /\ UNCHANGED <<siblings, plan, second, silent>>

\* Build and abort both ask that the newest event is this plan's entry.
EntryIsHead ==
  /\ ChainVerifies(store)
  /\ store.log[Len(store.log)].op = "record_enter"
  /\ Len(store.log) = plan.head + 1

Buildable ==
  /\ KeyringOpens(store) /\ PlanCurrent
  /\ store.lifecycle = "reencrypting"
  /\ siblings.new.state = "absent"
  /\ EntryIsHead

Reencrypted_Mutant(s) ==
  [s EXCEPT !.envelope.record = @ + 1, !.envelope.generation = @ + 1,
            !.metadata.generation = s.envelope.generation + 1]

\* Every record decrypted and encrypted again under a fresh key, and the
\* keyring one generation on with no predecessor key left in it.
Reencrypted(s) ==
  [s EXCEPT !.envelope.record = @ + 1, !.envelope.generation = @ + 1,
            !.metadata.generation = s.envelope.generation + 1,
            !.records.key = s.envelope.record + 1]

\* commit_record_rotation_completion: ready, then the digest, then the anchor,
\* the job and the whole-state event.
Completed(s) ==
  LET ready == InLifecycle(s, "ready")
  IN [ready EXCEPT !.anchor = "record-key",
        !.job = [status |-> "installed_pending_anchor", installed |-> Rows(ready)],
        !.log = Append(s.log, [op |-> "record_rotation", time |-> HeadTime(s) + 1,
                               kind |-> "whole", before |-> plan.before,
                               after |-> Rows(ready)])]

BuildRotation ==
  /\ tool \in {"idle", "entered"} /\ Buildable /\ RoomFor(1)
  /\ store.envelope.generation < MaxGeneration
  /\ siblings' = [siblings EXCEPT !.new =
        [state |-> "complete", body |-> Completed(Reencrypted(store))]]
  /\ tool' = "built"
  /\ UNCHANGED <<store, plan, second, silent>>

\* An error or a crash inside the build leaves the unfinished file behind.
BuildInterrupted ==
  /\ tool \in {"idle", "entered"} /\ Buildable
  /\ siblings' = [siblings EXCEPT !.new.state = "partial"]
  /\ tool' = "idle"
  /\ UNCHANGED <<store, plan, second, silent>>

\* install_built_store compares nothing with the original: it is called with
\* the receipt of a build that returned, by the process that still holds it.
InstallRotation ==
  /\ tool = "built"
  /\ store' = siblings.new.body
  /\ siblings' = [siblings EXCEPT !.new = Absent]
  /\ tool' = "idle"
  /\ plan' = NoPlan
  /\ silent' = Len(store'.log)
  /\ UNCHANGED second

Abortable ==
  /\ KeyringOpens(store) /\ PlanCurrent /\ EntryIsHead
  /\ LifecycleAllowed(store, "reencrypting")

AbortRotation ==
  /\ tool = "idle" /\ Abortable /\ RoomFor(1)
  /\ siblings' = [siblings EXCEPT !.new = Absent]
  /\ store' = LifecycleCommit(store, "ready", "record_abort")
  /\ UNCHANGED <<tool, plan, second, silent>>

\* The sibling is removed before the transaction that restores ready.
AbortInterrupted ==
  /\ tool = "idle" /\ Abortable
  /\ siblings.new.state # "absent"
  /\ siblings' = [siblings EXCEPT !.new = Absent]
  /\ UNCHANGED <<store, tool, plan, second, silent>>

-----------------------------------------------------------------------------
(* Metadata re-MAC: one command, no plan, its own sibling.                   *)

EnterRemac ==
  /\ tool = "idle" /\ KeyringOpens(store) /\ RoomFor(1)
  /\ store.envelope.generation < MaxGeneration
  /\ LifecycleAllowed(store, "ready")
  /\ store' = LifecycleCommit(store, "reencrypting", "remac_enter")
  /\ tool' = "remac"
  /\ UNCHANGED <<siblings, plan, second, silent>>

\* Every clear row resealed under a fresh MAC key; ready and the anchor are
\* two sealed writes.  No event is appended.
Resealed(s) ==
  LET keyed == [s EXCEPT !.envelope.mac = @ + 1, !.envelope.generation = @ + 1,
                         !.metadata.generation = s.envelope.generation + 1]
  IN [keyed EXCEPT !.lifecycle = "ready", !.anchor = "metadata-key",
        !.prov = [lifecycle |-> "ready", generation |-> s.prov.generation + 2]]

BuildRemac ==
  /\ tool = "remac"
  /\ siblings' = [siblings EXCEPT !.remac =
        [state |-> "complete", body |-> Resealed(store)]]
  /\ tool' = "remac_built"
  /\ UNCHANGED <<store, plan, second, silent>>

\* An unwrap identity that is not the active recipient, an I/O error or a
\* crash: the command ends after the store was marked.
RemacFails ==
  /\ tool \in {"remac", "remac_built"}
  /\ \E left \in {siblings.remac.state, "partial"} :
        siblings' = [siblings EXCEPT !.remac.state = left]
  /\ tool' = "idle"
  /\ UNCHANGED <<store, plan, second, silent>>

InstallRemac ==
  /\ tool = "remac_built"
  /\ siblings.remac.state = "complete"
  /\ store' = siblings.remac.body
  /\ siblings' = [siblings EXCEPT !.remac = Absent]
  /\ tool' = "idle"
  /\ silent' = Len(store'.log)
  /\ UNCHANGED <<plan, second>>

\* `key metadata abort` deletes the sibling.  It takes no lock and does not
\* touch the store.
AbortMetadata ==
  /\ siblings.remac.state # "absent"
  /\ siblings' = [siblings EXCEPT !.remac = Absent]
  /\ UNCHANGED <<store, tool, plan, second, silent>>

-----------------------------------------------------------------------------
(* Keyring changes in place.                                                 *)

\* commit_recipient_rewrap: envelope, metadata and event in one transaction.
\* Neither the lifecycle nor the anchor is consulted.
RewrapRecipients ==
  /\ tool = "idle" /\ KeyringOpens(store) /\ RoomFor(1)
  /\ store.envelope.generation < MaxGeneration
  /\ second * TicksPerSecond >= HeadTime(store)
  /\ LET next == store.envelope.generation + 1
         t == [store EXCEPT !.envelope.generation = next,
                            !.envelope.recipients = @ + 1,
                            !.metadata = [generation |-> next,
                                          recipients |-> store.envelope.recipients + 1]]
     IN store' = Logged(store, t, "rewrap", second * TicksPerSecond, {"keyring"})
  /\ UNCHANGED <<siblings, tool, plan, second, silent>>

\* `key audit-payload rotate` puts the envelope and then the metadata row, in
\* two transactions and with no event.  The command refuses a keyring with a
\* recovery recipient; the keyring of this model has none.
PutAuditKeyEnvelope ==
  /\ tool = "idle" /\ KeyringOpens(store)
  /\ store.envelope.generation < MaxGeneration
  /\ store' = [store EXCEPT !.envelope.generation = @ + 1, !.envelope.audit = @ + 1]
  /\ tool' = "audit_key"
  /\ UNCHANGED <<siblings, plan, second, silent>>

PutAuditKeyMetadata ==
  /\ tool = "audit_key"
  /\ store' = [store EXCEPT !.metadata.generation = store.envelope.generation]
  /\ tool' = "idle"
  /\ silent' = Len(store.log)
  /\ UNCHANGED <<siblings, plan, second>>

EpochRows_Mutant == {"epoch"}
EpochRows == {"epoch", "admins"}

\* rotate_credential_epoch: a ready store, or the authenticated original of an
\* interrupted rewrite.  Its event is dated with the caller's clock.
RotateEpoch ==
  /\ tool = "idle" /\ KeyringOpens(store) /\ RoomFor(1)
  /\ store.lifecycle \in {"ready", "reencrypting"}
  /\ store.epoch < MaxStoreEpoch
  /\ store' = Logged(store, [store EXCEPT !.epoch = @ + 1], "epoch",
                     second * TicksPerSecond, EpochRows)
  /\ UNCHANGED <<siblings, tool, plan, second, silent>>

-----------------------------------------------------------------------------
(* Checkpoints and the rewrite job.                                          *)

LastEnd(s) ==
  IF s.registered = <<>> THEN 0 ELSE s.registered[Len(s.registered)].end

PrepareCheckpoint ==
  /\ tool = "idle" /\ KeyringOpens(store) /\ RoomFor(1)
  /\ LET t == Logged(store, store, "checkpoint", second * TicksPerSecond, {})
     IN store' = [t EXCEPT !.prepared = @ \cup
          {[start |-> LastEnd(store) + 1, end |-> Len(t.log),
            digest |-> Rows(store), previous |-> LastEnd(store)]}]
  /\ UNCHANGED <<siblings, tool, plan, second, silent>>

\* register_checkpoint: prepared here, and chained to the last registered one.
Extends(s, c) == c.previous = LastEnd(s)

RegisterCheckpoint ==
  /\ tool = "idle"
  /\ \E c \in store.prepared :
       /\ Extends(store, c)
       /\ store' = [store EXCEPT !.registered = Append(@, c)]
  /\ UNCHANGED <<siblings, tool, plan, second, silent>>

\* The state digest that was verified is an argument of the caller.
MarkAnchored ==
  /\ tool = "idle" /\ store.registered # <<>>
  /\ store.job.status = "installed_pending_anchor"
  /\ \E verified \in {store.job.installed, Rows(store)} :
       verified = store.job.installed
  /\ store' = [store EXCEPT !.job.status = "anchored_recovery_pending"]
  /\ UNCHANGED <<siblings, tool, plan, second, silent>>

MarkRecoveryCurrent ==
  /\ tool = "idle"
  /\ store.job.status = "anchored_recovery_pending"
  /\ store' = [store EXCEPT !.job.status = "complete_recovery_current"]
  /\ UNCHANGED <<siblings, tool, plan, second, silent>>

\* A crash forgets what the tool held; the files stay as they are.
CrashTool ==
  /\ tool # "idle"
  /\ tool' = "idle"
  /\ UNCHANGED <<store, siblings, plan, second, silent>>

DaemonSteps == AuditedWatermark \/ AuditedRead \/ WriteSecret \/ Tick
RotationSteps ==
  \/ PlanRotation \/ EnterRotation \/ BuildRotation \/ BuildInterrupted
  \/ InstallRotation \/ AbortRotation \/ AbortInterrupted
RemacSteps == EnterRemac \/ BuildRemac \/ RemacFails \/ InstallRemac \/ AbortMetadata
KeyringSteps ==
  RewrapRecipients \/ PutAuditKeyEnvelope \/ PutAuditKeyMetadata \/ RotateEpoch
CheckpointSteps ==
  PrepareCheckpoint \/ RegisterCheckpoint \/ MarkAnchored \/ MarkRecoveryCurrent

MaintenanceNext ==
  \/ DaemonSteps \/ RotationSteps \/ RemacSteps \/ KeyringSteps
  \/ CheckpointSteps \/ CrashTool

MaintenanceSpec == MaintenanceInit /\ [][MaintenanceNext]_maintenanceVars

-----------------------------------------------------------------------------
(* Properties.                                                               *)

Undone(rows, entry) ==
  [r \in DOMAIN rows |-> IF r \in DOMAIN entry.before THEN entry.before[r]
                                                     ELSE rows[r]]

\* Rows before the entries of a log after position `from`, by undoing them
\* from the newest on (reconcile_state, StateDeltaSet::reverse_apply).
RowsBefore(rows, log, from) ==
  LET back[n \in from .. Len(log)] ==
        IF n = Len(log) THEN rows ELSE Undone(back[n + 1], log[n + 1])
  IN back[from]

RowsAt(s, from) == RowsBefore(Rows(s), s.log, from)

\* The audited tail accounts for the state: undoing the row changes of the
\* events after the newest registered checkpoint gives the rows that
\* checkpoint signed, whenever no job wrote rows without an event since
\* (reconcile_state over the deltas each commit_* function records).
TailReconciles ==
  store.registered # <<>> =>
    LET c == store.registered[Len(store.registered)]
    IN c.end > silent => RowsAt(store, c.end) = c.digest

\* No mixed-key store is ever served: when the keyring opens, its record key is
\* the one every record is under, and the sealed mirror of the lifecycle agrees
\* with the clear one (build_record_rotation, ProvisionalMetaRecord).
NoMixedKeys ==
  KeyringOpens(store) =>
    /\ store.records.count > 0 => store.records.key = store.envelope.record
    /\ store.prov.lifecycle = store.lifecycle

\* Registered checkpoints form one gap-free chain whatever order prepared
\* descriptors are signed and returned in (register_checkpoint).
CheckpointsChain ==
  \A i \in DOMAIN store.registered :
    /\ store.registered[i].start =
         IF i = 1 THEN 1 ELSE store.registered[i - 1].end + 1
    /\ store.registered[i].end <= Len(store.log)

\* Replacing the file loses nothing the original holds: no audit event, no
\* credential epoch, no secret version (install_built_store after
\* build_record_rotation or run_metadata_remac).
InstallKeepsHistory ==
  [][ siblings' # siblings /\ store'.anchor # store.anchor =>
        /\ Len(store'.log) >= Len(store.log)
        /\ \A i \in DOMAIN store.log : store'.log[i] = store.log[i]
        /\ store'.epoch = store.epoch
        /\ store'.records.count = store.records.count ]_maintenanceVars

\* An installed rewrite keeps the next one out until its anchor clears
\* (commit_record_rotation_lifecycle, plan_record_rotation).
AnchorHoldsReady ==
  store.anchor # "none" => store.lifecycle = "ready"

\* What the documentation promises of an interrupted pass: the original can be
\* built again or aborted (docs/operating.md, "A pre-rename interruption leaves
\* the original data authoritative; rerun the pass or use ... abort").
InterruptedPassRecovers ==
  tool = "idle" /\ store.lifecycle = "reencrypting" => Abortable \/ Buildable

\* A crash never leaves a keyring that no identity can open
\* (KeyringOpener::open compares the envelope with the metadata row).
KeyringSurvivesCrash ==
  tool = "idle" => KeyringOpens(store)

\* The registered checkpoints account for the chain and, back to the last change that writes
\* no event, for the rows.
AuditAccountsForState == CheckpointsChain /\ TailReconciles

\* Whatever pass of re-encryption, re-wrap or re-MAC stops half way, a keyring that opens the
\* store opens all its records, and an anchored store is ready.
RewritesKeepStore == NoMixedKeys /\ AnchorHoldsReady
=============================================================================
