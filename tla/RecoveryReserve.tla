--------------------------- MODULE RecoveryReserve ---------------------------
(***************************************************************************)
(* The recovery reserve (capacity.rs): a fully allocated file that is      *)
(* given up to make room for recovery work and allocated again afterwards. *)
(* A record in the store carries the phase, the file system carries the    *)
(* file, its temporary name and its release name; the process may stop     *)
(* between any two steps, and reconcile tells what is left to do.  The     *)
(* reserve shares the file system with the work of Capacity.               *)
(***************************************************************************)
EXTENDS Capacity

CONSTANTS ReserveSize,      \* expected_bytes of the record, in units of MaxCommit
          ReserveOps,       \* operation ids an operator may use, each once
          MaxReserveGeneration

\* The release name is derived from the operation id and is none of the fixed names.
ASSUME ReserveBounds ==
  /\ ReserveSize \in Nat \ {0} /\ MaxReserveGeneration \in Nat \ {0}
  /\ ReserveOps \cap {"final", "temp", "none"} = {}

VARIABLES record,    \* RecoveryReserveRecord
          files,     \* which of the names "final", "temp" and operation ids exist
          driver     \* what the running process does: "idle", a step, or "down"

reserveVars == <<record, files, driver>>

NoOp == "none"

ReserveInit ==
  /\ CapacityInit
  /\ record = [generation |-> 1, phase |-> "healthy", op |-> NoOp]
  /\ files = {"final"}
  /\ driver = "idle"

\* Every transition of the record advances its generation.
Moves(phase, op) ==
  /\ record.generation < MaxReserveGeneration
  /\ record' = [generation |-> record.generation + 1, phase |-> phase, op |-> op]

\* The authorized request: confirmed for this generation, and only while data
\* admission is stopped.
RequestRelease(op, generation) ==
  /\ driver = "idle"
  /\ Band(free) \in {"data_stopped", "shutdown_only", "exhausted"}
  /\ record.phase = "healthy" /\ record.generation = generation
  /\ Moves("release_requested", op)
  /\ UNCHANGED <<files, driver, capacityVars>>

\* release_reserve: inspect the file, move it aside, unlink it.
RenameAside ==
  /\ driver \in {"idle", "finish_release"}
  /\ record.phase = "release_requested"
  /\ "final" \in files /\ record.op \notin files
  /\ files' = (files \ {"final"}) \cup {record.op}
  /\ driver' = "renamed"
  /\ UNCHANGED <<record, capacityVars>>

Unlink ==
  /\ driver = "renamed"
  /\ files' = files \ {record.op}
  /\ free' = free + ReserveSize
  /\ driver' = "commit_released"
  /\ UNCHANGED <<record, inflight, held, spent, drawn, burst>>

MarkReleased ==
  /\ driver = "commit_released"
  /\ record.phase = "release_requested"
  /\ Moves("released", record.op)
  /\ driver' = "idle"
  /\ UNCHANGED <<files, capacityVars>>

RequestRecreate(op, generation) ==
  /\ driver = "idle"
  /\ free >= ReserveSize + DataStopFloor
  /\ record.phase = "released" /\ record.generation = generation
  /\ Moves("recreate_requested", op)
  /\ UNCHANGED <<files, driver, capacityVars>>

\* provision_reserve: an exclusive temporary file that is allocated in full, or
\* removed again when the space is no longer there.
Allocate ==
  /\ driver \in {"idle", "recreate"}
  /\ record.phase = "recreate_requested"
  /\ {"final", "temp"} \cap files = {}
  /\ free >= ReserveSize
  /\ files' = files \cup {"temp"}
  /\ free' = free - ReserveSize
  /\ drawn' = drawn + ReserveSize
  /\ spent' = spent + ReserveSize
  /\ driver' = "allocated"
  /\ UNCHANGED <<record, inflight, held, burst>>

RenameTemp ==
  /\ driver = "allocated"
  /\ files' = (files \ {"temp"}) \cup {"final"}
  /\ driver' = "commit_healthy"
  /\ UNCHANGED <<record, capacityVars>>

MarkHealthy ==
  /\ driver = "commit_healthy"
  /\ record.phase = "recreate_requested"
  /\ Moves("healthy", NoOp)
  /\ driver' = "idle"
  /\ UNCHANGED <<files, capacityVars>>

\* Permits and holds live in the process's memory and end with it.
StopProcess ==
  /\ driver # "down"
  /\ driver' = "down"
  /\ inflight' = [c \in 1 .. MaxCommit |-> 0]
  /\ held' = [o \in Outputs |-> 0]
  /\ burst' = TRUE
  /\ UNCHANGED <<record, files, free, spent, drawn>>

\* What is left to do, from the phase and the two names reconcile looks at.
Reconcile_Mutant(phase, final, temp) ==
  CASE phase = "healthy" /\ final /\ ~temp -> "idle"
    [] phase = "release_requested" /\ final /\ ~temp -> "finish_release"
    [] phase = "release_requested" /\ ~final /\ ~temp -> "commit_released"
    [] phase \in {"released", "recreate_requested"} /\ ~final /\ ~temp -> "recreate"
    [] phase = "recreate_requested" /\ (final \/ temp) -> "commit_healthy"
    [] OTHER -> "unsafe"

Reconcile(phase, final, temp) ==
  CASE phase = "healthy" /\ final /\ ~temp -> "idle"
    [] phase = "release_requested" /\ final /\ ~temp -> "finish_release"
    [] phase = "release_requested" /\ ~final /\ ~temp -> "commit_released"
    [] phase \in {"released", "recreate_requested"} /\ ~final /\ ~temp -> "recreate"
    [] phase = "recreate_requested" /\ final /\ ~temp -> "commit_healthy"
    [] OTHER -> "unsafe"

Verdict == Reconcile(record.phase, "final" \in files, "temp" \in files)

\* A restart finishes what is uniquely determined and refuses the rest.  A
\* released reserve waits for the operator's request.
StartProcess ==
  /\ driver = "down"
  /\ Verdict # "unsafe"
  /\ driver' = IF Verdict = "recreate" /\ record.phase = "released" THEN "idle" ELSE Verdict
  /\ UNCHANGED <<record, files, capacityVars>>

ReserveSteps ==
  \/ \E op \in ReserveOps \ {record.op}, g \in 1 .. MaxReserveGeneration :
       RequestRelease(op, g) \/ RequestRecreate(op, g)
  \/ RenameAside \/ Unlink \/ MarkReleased
  \/ Allocate \/ RenameTemp \/ MarkHealthy
  \/ StopProcess \/ StartProcess

ReserveNext ==
  \/ ReserveSteps
  \/ driver # "down" /\ CapacityNext /\ UNCHANGED reserveVars

ReserveSpec == ReserveInit /\ [][ReserveNext]_<<capacityVars, reserveVars>>

-----------------------------------------------------------------------------
\* A record that says healthy has the allocated file under its final name, so a
\* restart serves data only with the reserve in place.
HealthyIsBacked == record.phase = "healthy" => "final" \in files /\ "temp" \notin files

\* A stop leaves a combination reconcile refuses only inside provision_reserve,
\* between creating the temporary file and renaming it.
RefusalMeansInterruptedProvision ==
  driver = "down" /\ Verdict = "unsafe" =>
    record.phase = "recreate_requested" /\ files \cap {"final", "temp"} = {"temp"}

\* A record that says released has given its blocks back: the end of the
\* release sequence operating.md lists (rename, fsync, unlink, fsync, released).
ReleasedMeansUnlinked == record.phase = "released" => files = {}

\* The record of the reserve agrees with the files after a stop at any step of release or
\* recreate, except inside provision_reserve.
ReserveMatchesRecord == HealthyIsBacked /\ RefusalMeansInterruptedProvision
=============================================================================
