-------------------------- MODULE RotationCatalog --------------------------
(***************************************************************************)
(* The rotation workflow (RotationCatalog of rotation.rs) on one resource, *)
(* composed with the KV catalog it works on (KvEntry) and with everybody   *)
(* else who writes, deletes, destroys, reconfigures or purges that path.   *)
(*                                                                         *)
(* A RotationCatalog method holds &mut self, so one runs at a time; but it *)
(* takes the KV lock once per KV call, and other callers get in between.   *)
(* A method that takes the lock several times is several steps, with its   *)
(* locals in "op"; its last KV call and the install of the row are one     *)
(* step, because nobody else reads the row.                                *)
(*                                                                         *)
(* Calls that are refused change nothing and are not steps: a stale row    *)
(* generation, a wrong lifecycle state, a replayed request id.  The entry's *)
(* metadata generation serves the purge ceremony (KvCatalog) and is not    *)
(* counted here.                                                           *)
(***************************************************************************)
EXTENDS KvEntry

CONSTANTS
  Id,            \* rotation ids
  Secret,        \* secret values
  Limits,        \* max_versions settings
  MaxHistory,    \* transitions a row may record (32)
  MaxTarget      \* bound: highest version number written

ASSUME RotationAssumption ==
  /\ Limits \subseteq Nat \ {0} /\ Limits # {}
  /\ MaxHistory \in Nat \ {0} /\ MaxTarget \in Nat
  /\ Wiped \notin Secret

VARIABLES
  exists, entry,   \* the resource's KV entry, if it exists
  mountLimit,
  rows,            \* Id -> rotation row
  op,              \* the rotation method under way
  kept,            \* Id -> value of the version the rotation protects
  observed         \* rotations whose target the closing operator saw as current

rotationVars == <<exists, entry, mountLimit, rows, op, kept, observed>>

NoRow == [state |-> "none", protected |-> 0, expected |-> 0, target |-> 0,
          history |-> 0]
Idle == [call |-> "idle"]
Open(id) == rows[id].state \in {"Prepared", "Cutover"}
Terminal == {"Completed", "CancelledBeforeCutover", "Superseded"}
HasRoom(id) == rows[id].history < MaxHistory

RotationInit ==
  /\ exists = FALSE /\ entry = NewEntry("unset")
  /\ mountLimit \in Limits
  /\ rows = [id \in Id |-> NoRow]
  /\ op = Idle
  /\ kept = [id \in Id |-> Wiped]
  /\ observed = {}

SetEntry(e) == entry' = [e EXCEPT !.generation = 1] /\ UNCHANGED <<exists, mountLimit>>
SameEntry == UNCHANGED <<exists, entry, mountLimit>>

\* A row in a new state, with one more transition in its history.
Transition(id, state) == [rows[id] EXCEPT !.state = state, !.history = @ + 1]
Install(id, row) == rows' = [rows EXCEPT ![id] = row]

Enter(call, id) == op' = [call |-> call, id |-> id, snapshot |-> entry.current]
Leave == op' = Idle
Abandon == Leave /\ SameEntry /\ UNCHANGED <<rows, kept>>

-----------------------------------------------------------------------------
(* Rotation methods.                                                       *)

\* begin(): no open rotation on the resource; rotation_snapshot.
Begin(id) ==
  /\ op = Idle /\ rows[id] = NoRow /\ \A other \in Id : ~Open(other)
  /\ exists /\ CurrentIsLive(entry)
  /\ Enter("begin", id)
  /\ SameEntry /\ UNCHANGED <<rows, kept, observed>>

\* refresh(): a prepared rotation takes a new snapshot.
Refresh(id) ==
  /\ op = Idle /\ rows[id].state = "Prepared" /\ HasRoom(id)
  /\ exists /\ CurrentIsLive(entry)
  /\ Enter("refresh", id)
  /\ SameEntry /\ UNCHANGED <<rows, kept, observed>>

\* begin(), refresh(): set_rotation_snapshot_protection(snapshot, true), and
\* the row that records it.
Protect ==
  /\ op.call \in {"begin", "refresh"}
  /\ IF exists /\ entry.current = op.snapshot /\ CurrentIsLive(entry)
     THEN /\ SetEntry(ProtectCurrent(entry))
          /\ Install(op.id, [Transition(op.id, "Prepared") EXCEPT
                               !.protected = op.snapshot, !.expected = op.snapshot])
          /\ kept' = [kept EXCEPT ![op.id] = entry.versions[op.snapshot].value]
          /\ Leave
     ELSE Abandon
  /\ UNCHANGED observed

\* cutover(): the replacement becomes the version after the snapshot.  The KV
\* write does not prune.
Cutover(id, value) ==
  /\ op = Idle /\ rows[id].state = "Prepared" /\ HasRoom(id)
  /\ exists /\ entry.current = rows[id].expected /\ entry.protected # 0
  /\ entry.current < MaxTarget
  /\ SetEntry(AppendVersion(entry, value))
  /\ Install(id, [Transition(id, "Cutover") EXCEPT !.target = entry.current + 1])
  /\ UNCHANGED <<op, kept, observed>>

\* cancel(): release the hold, re-run pruning.
Cancel(id) ==
  /\ op = Idle /\ rows[id].state = "Prepared" /\ HasRoom(id)
  /\ exists /\ entry.protected = rows[id].protected
  /\ SetEntry(Unprotect(entry, mountLimit))
  /\ Install(id, Transition(id, "CancelledBeforeCutover"))
  /\ UNCHANGED <<op, kept, observed>>

\* rollback(): rotation_snapshot ...
Rollback(id) ==
  /\ op = Idle /\ rows[id].state = "Cutover" /\ HasRoom(id)
  /\ exists /\ CurrentIsLive(entry)
  /\ Enter("rollback", id)
  /\ SameEntry /\ UNCHANGED <<rows, kept, observed>>

\* ... rotation_rollback_copy_forward reads the protected value ...
RollbackRead_Mutant ==
  /\ op.call = "rollback"
  /\ LET v == rows[op.id].protected
     IN  IF exists /\ entry.current = op.snapshot /\ entry.protected = v
            /\ v \in Retained(entry)
         THEN /\ op' = [call |-> "copy", id |-> op.id, snapshot |-> op.snapshot,
                        value |-> entry.versions[v].value]
              /\ SameEntry /\ UNCHANGED <<rows, kept>>
         ELSE Abandon
  /\ UNCHANGED observed
RollbackRead ==
  /\ op.call = "rollback"
  /\ LET v == rows[op.id].protected
     IN  IF exists /\ entry.current = op.snapshot /\ entry.protected = v
            /\ v \in Retained(entry) /\ entry.versions[v].state # "Destroyed"
         THEN /\ op' = [call |-> "copy", id |-> op.id, snapshot |-> op.snapshot,
                        value |-> entry.versions[v].value]
              /\ SameEntry /\ UNCHANGED <<rows, kept>>
         ELSE Abandon
  /\ UNCHANGED observed

\* ... and writes it as a new version, under a second lock ...
RollbackWrite ==
  /\ op.call = "copy"
  /\ IF exists /\ entry.current = op.snapshot /\ entry.protected # 0
     THEN /\ entry.current < MaxTarget
          /\ SetEntry(AppendVersion(entry, op.value))
          /\ op' = [call |-> "release", id |-> op.id, snapshot |-> op.snapshot]
          /\ UNCHANGED <<rows, kept>>
     ELSE Abandon
  /\ UNCHANGED observed

\* supersede_after_plain_write(): something newer than the target is live.
Supersede(id) ==
  /\ op = Idle /\ rows[id].state = "Cutover" /\ HasRoom(id)
  /\ exists /\ CurrentIsLive(entry) /\ entry.current > rows[id].target
  /\ op' = [call |-> "release", id |-> id, snapshot |-> entry.current]
  /\ SameEntry /\ UNCHANGED <<rows, kept, observed>>

\* rollback(), supersede_after_plain_write(): release the hold, re-run pruning.
Release ==
  /\ op.call = "release"
  /\ IF exists /\ entry.protected = rows[op.id].protected
     THEN /\ SetEntry(Unprotect(entry, mountLimit))
          /\ Install(op.id, Transition(op.id, "Superseded"))
          /\ Leave /\ UNCHANGED kept
     ELSE Abandon
  /\ UNCHANGED observed

\* complete(): that the target is current is the caller's word, and the entry
\* is not touched.  Which members adopted, or that the caller
\* acknowledges the others, is left to the caller.
Complete(id) ==
  /\ op = Idle /\ rows[id].state = "Cutover" /\ HasRoom(id)
  /\ id \in observed /\ observed' = observed \ {id}
  /\ Install(id, Transition(id, "Completed"))
  /\ SameEntry /\ UNCHANGED <<op, kept>>

-----------------------------------------------------------------------------
(* Everybody else.                                                         *)

\* KvCatalog::current_version, read by an operator who is going to pass it to
\* complete().
Observe(id) ==
  /\ exists /\ rows[id].state = "Cutover" /\ entry.current = rows[id].target
  /\ observed' = observed \cup {id}
  /\ SameEntry /\ UNCHANGED <<rows, op, kept>>

\* write().
PlainWrite(value) ==
  /\ entry.current < MaxTarget
  /\ exists' = TRUE
  /\ entry' = [Prune(AppendVersion(entry, value), mountLimit) EXCEPT !.generation = 1]
  /\ UNCHANGED <<mountLimit, rows, op, kept, observed>>

\* mutate_versions(), one version after the other.
PlainMutate(vs, action) ==
  /\ exists /\ CanMutate(entry, vs, action)
  /\ SetEntry(MutateVersions(entry, vs, action))
  /\ UNCHANGED <<rows, op, kept, observed>>

\* update_metadata(), set_path_max_versions() (they create a missing path),
\* set_mount_max_versions().
SetPathMax(max) ==
  /\ exists' = TRUE
  /\ entry' = [UpdateMetadata(entry, "keep", max) EXCEPT !.generation = 1]
  /\ UNCHANGED <<mountLimit, rows, op, kept, observed>>

SetMountMax(max) ==
  /\ mountLimit' = max
  /\ UNCHANGED <<exists, entry, rows, op, kept, observed>>

\* purge(), refused while a version is protected.
PlainPurge_Mutant ==
  /\ exists /\ exists' = FALSE /\ entry' = NewEntry("unset")
  /\ UNCHANGED <<mountLimit, rows, op, kept, observed>>
PlainPurge ==
  /\ exists /\ entry.known /\ entry.protected = 0
  /\ exists' = FALSE /\ entry' = NewEntry("unset")
  /\ UNCHANGED <<mountLimit, rows, op, kept, observed>>

RotationStep ==
  \/ \E id \in Id :
       \/ Begin(id) \/ Refresh(id) \/ Cancel(id) \/ Rollback(id)
       \/ Supersede(id) \/ Complete(id)
       \/ \E value \in Secret : Cutover(id, value)
  \/ Protect \/ RollbackRead \/ RollbackWrite \/ Release

KvStep ==
  \/ \E value \in Secret : PlainWrite(value)
  \/ \E v \in 1..MaxTarget, action \in {"SoftDelete", "Undelete", "Destroy"} :
       PlainMutate({v}, action)
  \/ \E max \in Limits \cup {0} : SetPathMax(max)
  \/ \E max \in Limits : SetMountMax(max)
  \/ PlainPurge

RotationNext == RotationStep \/ KvStep \/ \E id \in Id : Observe(id)

RotationSpec == RotationInit /\ [][RotationNext]_rotationVars

-----------------------------------------------------------------------------
(* Properties.                                                             *)

RotationTypeOK ==
  /\ exists \in BOOLEAN /\ mountLimit \in Limits
  /\ entry.current \in Nat /\ entry.protected \in Nat /\ entry.max \in Nat
  /\ Retained(entry) \subseteq 1..entry.current
  /\ \A v \in Retained(entry) :
       entry.versions[v] \in [state : VersionState, value : Secret \cup {Wiped}]
  /\ \A id \in Id :
       /\ rows[id].state \in {"none", "Prepared", "Cutover"} \cup Terminal
       /\ rows[id].protected \in Nat /\ rows[id].expected \in Nat
       /\ rows[id].target \in Nat /\ rows[id].history \in 0..MaxHistory
  /\ op.call \in {"idle", "begin", "refresh", "rollback", "copy", "release"}
  /\ op # Idle => op.id \in Id /\ op.snapshot \in Nat
  /\ observed \subseteq Id

\* While a rotation is open the path exists, the version it can roll back to
\* is held and retained, and no other rotation is open: whatever is written,
\* deleted, pruned, reconfigured or purged meanwhile.
OpenRotationHolds ==
  \A id \in Id : Open(id) =>
    /\ exists
    /\ entry.protected = rows[id].protected
    /\ entry.protected \in Retained(entry)
    /\ \A other \in Id : Open(other) => other = id

\* Nothing slips between a rotation's snapshot and its cutover: the target is
\* the very next version after the protected one, so the cutover replaced what
\* the operator prepared against.
CutoverReplacesSnapshot ==
  \A id \in Id : rows[id].target # 0 => rows[id].target = rows[id].protected + 1

\* A rollback copies forward exactly the value that was protected, although it
\* reads it under one lock and writes it under another.
RollbackRestores ==
  [][(op.call = "copy" /\ op'.call = "release") =>
        /\ entry'.current = entry.current + 1
        /\ entry'.versions[entry'.current].value = kept[op.id]
        /\ kept[op.id] # Wiped]_rotationVars

\* While a rotation is open the current-version pointer never moves back, and
\* a closed rotation never changes again.
NoWayBack ==
  [][/\ (\E id \in Id : Open(id)) => entry'.current >= entry.current
     /\ \A id \in Id : rows[id].state \in Terminal => rows'[id] = rows[id]]_rotationVars

\* "closeout, cancellation, or supersession immediately re-evaluates pruning":
\* no hold outlives the rotation it was taken for.
HoldEndsWithRotation ==
  (op = Idle /\ exists /\ entry.protected # 0) => \E id \in Id : Open(id)

\* "Completing a rotation succeeds only while that target is still the current
\* version".
CompletedWhileCurrent ==
  [][\A id \in Id : (rows[id].state # "Completed" /\ rows'[id].state = "Completed")
                    => (exists /\ entry.current = rows[id].target)]_rotationVars

\* "An ordinary write after cutover supersedes the rotation": a rollback never
\* replaces anything but the rotation's own target.
RollbackReplacesTarget ==
  [][(op.call = "copy" /\ op'.call = "release")
       => entry.current = rows[op.id].target]_rotationVars

\* What begin, refresh, cutover and rollback may rely on between their lock acquisitions: the
\* hold is where the open row says it is, and a cutover put its target right after it.
RotationAnchored == OpenRotationHolds /\ CutoverReplacesSnapshot

\* The workflow only moves forward: a rollback brings back the value it promised, as a new
\* version, and neither a version number nor a closed row is ever taken back.
RotationMovesForward == RollbackRestores /\ NoWayBack
=============================================================================
