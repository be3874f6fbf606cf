---------------------------- MODULE NodeLifecycle ----------------------------
(***************************************************************************)
(* One data directory from its initialization to a served and cleanly      *)
(* stopped node: init.rs (lock, inspection, disclosure, commit),           *)
(* startup.rs (admission of a snapshot, operations under a pending anchor, *)
(* shutdown).  Several processes compete for the directory; each may die   *)
(* at any step.  The shutdown hooks and the offline jobs are traits or     *)
(* callers of this code, modelled by what it asks of them.                 *)
(***************************************************************************)
EXTENDS Naturals, FiniteSets

CONSTANTS Procs,          \* processes: initializers, daemons, offline tools
          MaxCredentials, \* bootstrap credentials that may be generated
          MaxBegun,       \* transactions that may be under way at once
          MaxCommits      \* transactions that may commit

Nobody == "nobody"

ASSUME NodeBounds == /\ {MaxCredentials, MaxBegun, MaxCommits} \subseteq Nat
                     /\ Nobody \notin Procs

VARIABLES disk,       \* what the data directory holds
          owner,      \* the process that has the directory's flock
          procs,      \* per process: where it is and what it carries
          generated,  \* bootstrap credentials generated so far
          received   \* credentials the operator received in full

nodeVars == <<disk, owner, procs, generated, received>>

NoProcess == [at |-> "none", credential |-> 0, begun |-> 0, anchor |-> FALSE]

\* The store file, a file the backend does not know, the verifier the store was
\* committed with, the lifecycle and marker startup compares, and the shutdown
\* event: how many transactions had committed when it was written.
EmptyDisk ==
  [store |-> "absent", foreign |-> FALSE, verifier |-> 0, lifecycle |-> "ready",
   marker |-> "none", anchor |-> FALSE, reserve |-> "healthy",
   commits |-> 0, cleanAt |-> 0, clean |-> FALSE]

NodeInit ==
  /\ disk = EmptyDisk
  /\ owner = Nobody
  /\ procs = [p \in Procs |-> NoProcess]
  /\ generated = 0
  /\ received = {}

At(p, place) == procs' = [procs EXCEPT ![p].at = place]

\* The flock ends with the process that holds it.
Exits(p) ==
  /\ procs' = [procs EXCEPT ![p] = NoProcess]
  /\ owner' = IF owner = p THEN Nobody ELSE owner

\* DataDirectoryLock::acquire, the first step of init, serve and every offline
\* command: without the lock the command is refused.
Acquire(p, role) ==
  /\ procs[p].at = "none"
  /\ owner = Nobody
  /\ owner' = p
  /\ At(p, role)
  /\ UNCHANGED <<disk, generated, received>>

\* initialize: inspect the directory and the sink, then generate.  A foreign file
\* or an initialized store ends the command.
InspectInit(p) ==
  /\ procs[p].at = "init"
  /\ IF disk.foreign \/ disk.store = "committed"
     THEN Exits(p) /\ UNCHANGED generated
     ELSE /\ generated < MaxCredentials
          /\ generated' = generated + 1
          /\ procs' = [procs EXCEPT ![p].at = "prepared", ![p].credential = generated + 1]
          /\ UNCHANGED owner
  /\ UNCHANGED <<disk, received>>

\* The credential, a newline and a flush; any error ends the command.
ShowCredential_Mutant(p, flushed) ==
  /\ procs[p].at = "prepared"
  /\ received' = IF flushed THEN received \cup {procs[p].credential} ELSE received
  /\ At(p, "disclosed") /\ UNCHANGED <<owner, disk, generated>>

ShowCredential(p, flushed) ==
  /\ procs[p].at = "prepared"
  /\ received' = IF flushed THEN received \cup {procs[p].credential} ELSE received
  /\ IF flushed THEN At(p, "disclosed") /\ UNCHANGED owner ELSE Exits(p)
  /\ UNCHANGED <<disk, generated>>

\* create_with_keyring: the file appears first, every row in one transaction, and
\* a store that already has its meta row is refused.
CreateFile(p) ==
  /\ procs[p].at = "disclosed"
  /\ disk' = [disk EXCEPT !.store = IF @ = "absent" THEN "uncommitted" ELSE @]
  /\ At(p, "created")
  /\ UNCHANGED <<owner, generated, received>>

CommitInit(p) ==
  /\ procs[p].at = "created"
  /\ disk' = IF disk.store = "uncommitted"
             THEN [disk EXCEPT !.store = "committed", !.verifier = procs[p].credential]
             ELSE disk
  /\ Exits(p)
  /\ UNCHANGED <<generated, received>>

\* validate_startup; the lock is the one the caller holds.  The lifecycle and the
\* marker must both say that nothing is under way.  Whether key material, listener,
\* transport, directory, identity, schema and clock are in order is one input.
Admitted(p, sound) ==
  /\ sound
  /\ disk.store = "committed"
  /\ disk.lifecycle = "ready" /\ disk.marker = "none"
  /\ owner = p
  /\ disk.reserve = "healthy"

\* A refused start ends the process; an admitted one binds its listener.  Serving
\* starts a run the last shutdown event says nothing about.
Start(p, sound) ==
  /\ procs[p].at = "serve"
  /\ IF Admitted(p, sound)
     THEN /\ procs' = [procs EXCEPT ![p].at = "serving", ![p].anchor = disk.anchor]
          /\ disk' = [disk EXCEPT !.clean = FALSE]
          /\ UNCHANGED owner
     ELSE Exits(p) /\ UNCHANGED disk
  /\ UNCHANGED <<generated, received>>

\* operation_allowed: with a pending anchor at admission only ordinary traffic,
\* diagnostics, backup, emergency levers and the anchor's completion pass.
OperationAllowed(p, operation) ==
  procs[p].anchor => operation \in {"normal_traffic", "complete_anchor"}

BeginWork(p, operation) ==
  /\ procs[p].at = "serving"
  /\ OperationAllowed(p, operation)
  /\ procs[p].begun < MaxBegun
  /\ procs' = [procs EXCEPT ![p].begun = @ + 1]
  /\ UNCHANGED <<disk, owner, generated, received>>

CommitWork(p) ==
  /\ procs[p].begun > 0
  /\ disk.commits < MaxCommits
  /\ disk' = [disk EXCEPT !.commits = @ + 1]
  /\ procs' = [procs EXCEPT ![p].begun = @ - 1]
  /\ UNCHANGED <<owner, generated, received>>

\* run_shutdown: stop admission; a second signal, or a drain that runs into its
\* deadline, gives up and leaves the node unclean.
Signal(p) ==
  /\ procs[p].at = "serving"
  /\ At(p, "draining")
  /\ UNCHANGED <<disk, owner, generated, received>>

Drained(p) == procs[p].begun = 0

DrainBegun(p) ==
  /\ procs[p].at = "draining"
  /\ Drained(p)
  /\ At(p, "drained")
  /\ UNCHANGED <<disk, owner, generated, received>>

\* Barrier, flush, then the final audit event with the clean marker.
CommitUnsignedShutdown(p) ==
  /\ procs[p].at = "drained"
  /\ disk' = [disk EXCEPT !.clean = TRUE, !.cleanAt = disk.commits]
  /\ At(p, "closing")
  /\ UNCHANGED <<owner, generated, received>>

CloseStore(p) ==
  /\ procs[p].at = "closing"
  /\ Exits(p)
  /\ UNCHANGED <<disk, generated, received>>

\* mark_unclean, after any hook that failed.
GiveUp(p) ==
  /\ procs[p].at \in {"draining", "drained", "closing"}
  /\ disk' = [disk EXCEPT !.clean = FALSE]
  /\ Exits(p)
  /\ UNCHANGED <<generated, received>>

\* An offline job changes the lifecycle and its marker in separate writes, may
\* release the reserve, and leaves the anchor pending after a rewrite.
OfflineStep(p) ==
  /\ procs[p].at = "offline"
  /\ disk.store = "committed"
  /\ \E l \in {"ready", "migrating"}, m \in {"none", "operation"}, a \in BOOLEAN,
        r \in {"healthy", "released"} :
       disk' = [disk EXCEPT !.lifecycle = l, !.marker = m, !.anchor = a, !.reserve = r]
  /\ UNCHANGED <<owner, procs, generated, received>>

OfflineEnds(p) ==
  /\ procs[p].at = "offline"
  /\ Exits(p)
  /\ UNCHANGED <<disk, generated, received>>

Dies(p) ==
  /\ procs[p].at # "none"
  /\ Exits(p)
  /\ UNCHANGED <<disk, generated, received>>

\* A file nobody here wrote appears before there is a store, or is removed.
ForeignFile ==
  /\ disk.store = "absent"
  /\ disk' = [disk EXCEPT !.foreign = ~ @]
  /\ UNCHANGED <<owner, procs, generated, received>>

NodeSteps(p) ==
  \/ \E role \in {"init", "serve", "offline"} : Acquire(p, role)
  \/ InspectInit(p) \/ (\E f \in BOOLEAN : ShowCredential(p, f)) \/ CreateFile(p) \/ CommitInit(p)
  \/ (\E sound \in BOOLEAN : Start(p, sound))
  \/ (\E o \in {"normal_traffic", "bulk_rewrite"} : BeginWork(p, o)) \/ CommitWork(p)
  \/ Signal(p) \/ DrainBegun(p) \/ CommitUnsignedShutdown(p) \/ CloseStore(p) \/ GiveUp(p)
  \/ OfflineStep(p) \/ OfflineEnds(p) \/ Dies(p)

NodeNext == ForeignFile \/ \E p \in Procs : NodeSteps(p)

NodeSpec == NodeInit /\ [][NodeNext]_nodeVars

-----------------------------------------------------------------------------
\* The store never exists with a verifier whose credential the operator did not
\* receive in full: initialize flushes the sink before it commits, and a retry
\* after a crash starts with a new credential.
CommittedCredentialDisclosed == disk.store = "committed" => disk.verifier \in received

\* While a process serves, nothing else moves the lifecycle, the marker or the
\* pending anchor: the admission's verdict still holds at every request.
ServingIsAdmitted == \A p \in Procs :
  procs[p].at \in {"serving", "draining", "drained", "closing"} =>
    disk.lifecycle = "ready" /\ disk.marker = "none"
    /\ procs[p].anchor = disk.anchor /\ owner = p

\* The clean marker means what it says: no transaction commits after the final
\* event, until a new run is admitted (drain, barrier, final event, close).
CleanMeansQuiet == disk.clean => disk.commits = disk.cleanAt

\* The directory tells the truth whatever process was stopped where: a committed store has a
\* credential someone received, a clean marker means no commit followed it, and a process
\* serves only an admitted store, alone.
DirectoryIsTruthful == CommittedCredentialDisclosed /\ CleanMeansQuiet /\ ServingIsAdmitted
=============================================================================
