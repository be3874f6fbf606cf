------------------------------ MODULE Capacity ------------------------------
(***************************************************************************)
(* Capacity admission (capacity.rs): a guard that lets work start only     *)
(* when the free space the caller observed covers the floors kept for      *)
(* recovery and for shutdown.  Bytes are counted in units of the largest   *)
(* transaction (MAX_TRANSACTION_BYTES): the code's constants are           *)
(* LaneDepth = 64, MinimalRecovery = 62 and ShutdownFloor = 2.             *)
(* An admitted piece of data work holds a permit until it has written; a   *)
(* control command is admitted and written by the sole writer in one step. *)
(***************************************************************************)
EXTENDS Naturals, FiniteSets, Functions

CONSTANTS LaneDepth,         \* DATA_LANE_DEPTH
          MinimalRecovery,   \* MINIMAL_RECOVERY_BYTES
          ShutdownFloor,     \* SHUTDOWN_RELEASE_FLOOR_BYTES
          IdleGrowth,        \* ANNUAL_IDLE_CLOCK_BYTES
          MaxCommit,         \* MAX_TRANSACTION_BYTES
          Outputs,           \* opaque publication ids
          MaxFree            \* bound on the free space of the file system

ASSUME CapacityBounds ==
  /\ {LaneDepth, MinimalRecovery, ShutdownFloor, MaxCommit, MaxFree} \subseteq Nat \ {0}
  /\ IdleGrowth \in Nat /\ IsFiniteSet(Outputs)
  /\ MaxFree >= ShutdownFloor   \* the node starts with the shutdown floor free

VARIABLES free,      \* space the file system would report now
          inflight,  \* per commit size, how many data permits are held
          held,      \* bytes held per publication
          spent,     \* written by other work since data entered an empty lane (history)
          drawn,     \* written by data and by shutdown-safe commands (history)
          burst      \* no data work has finished since the lane was empty (history)

capacityVars == <<free, inflight, held, spent, drawn, burst>>

\* What the caller's observation leaves once publications are subtracted.
Minus(a, b) == IF a >= b THEN a - b ELSE 0

HeldBytes == SumFunctionOnSet(held, Outputs)

Available == Minus(free, HeldBytes)

DataInflight == SumFunctionOnSet(inflight, 1 .. MaxCommit)

InflightBytes ==
  SumFunctionOnSet([c \in 1 .. MaxCommit |-> c * inflight[c]], 1 .. MaxCommit)

DataStopFloor == LaneDepth * MaxCommit + MinimalRecovery + ShutdownFloor

\* The band an amount of free space falls in.
Band(available) ==
  CASE available < MaxCommit -> "exhausted"
    [] available >= MaxCommit /\ available <= ShutdownFloor -> "shutdown_only"
    [] available > ShutdownFloor /\ available <= DataStopFloor -> "data_stopped"
    [] available > DataStopFloor /\ available <= DataStopFloor + IdleGrowth -> "warning"
    [] OTHER -> "healthy"

CapacityInit ==
  /\ free \in {MaxFree, DataStopFloor + 1}
  /\ inflight = [c \in 1 .. MaxCommit |-> 0]
  /\ held = [o \in Outputs |-> 0]
  /\ spent = 0 /\ drawn = 0
  /\ burst = TRUE

\* The free space data work needs: the headroom of the unused part of the lane
\* on top of the floors and of its own commit.
DataRequired_Mutant(commit) == MinimalRecovery + ShutdownFloor + commit

DataRequired(commit) ==
  MinimalRecovery + ShutdownFloor + Minus(LaneDepth, DataInflight + 1) * MaxCommit + commit

AdmitData(commit) ==
  /\ DataInflight + 1 <= LaneDepth
  /\ Available > DataRequired(commit)
  /\ inflight' = [inflight EXCEPT ![commit] = @ + 1]
  /\ spent' = IF DataInflight = 0 THEN 0 ELSE spent
  /\ UNCHANGED <<free, held, drawn, burst>>

\* The permit is dropped once the admitted work wrote its commit, or failed
\* before it wrote anything.
DropPermit(commit, written) ==
  /\ inflight[commit] > 0
  /\ written <= free
  /\ inflight' = [inflight EXCEPT ![commit] = @ - 1]
  /\ free' = free - written
  /\ drawn' = drawn + written
  /\ burst' = (DataInflight = 1)
  /\ UNCHANGED <<held, spent>>

\* Shutdown and reserve release may use the shutdown floor, nothing else may.
ControlRequired(shutdownSafe, commit) ==
  IF shutdownSafe THEN commit ELSE ShutdownFloor + commit

AdmitControl(shutdownSafe, commit) ==
  /\ Available >= ControlRequired(shutdownSafe, commit)
  /\ free' = free - commit
  /\ spent' = spent + commit
  /\ drawn' = drawn + (IF shutdownSafe THEN commit ELSE 0)
  /\ UNCHANGED <<inflight, held, burst>>

HoldPublication(o, bytes) ==
  /\ held[o] = 0
  /\ Available >= ShutdownFloor + bytes
  /\ held' = [held EXCEPT ![o] = bytes]
  /\ UNCHANGED <<free, inflight, spent, drawn, burst>>

\* The publication reached its terminal disposition with the transactions the
\* hold paid for.
FinishPublication(o, written) ==
  /\ held[o] > 0
  /\ written <= held[o] /\ written <= free
  /\ held' = [held EXCEPT ![o] = 0]
  /\ free' = free - written
  /\ spent' = spent + written
  /\ UNCHANGED <<inflight, drawn, burst>>

CapacityNext ==
  \/ \E c \in 1 .. MaxCommit : AdmitData(c)
  \/ \E c \in 1 .. MaxCommit : \E w \in {0, c} : DropPermit(c, w)
  \/ \E c \in 1 .. MaxCommit, safe \in BOOLEAN : AdmitControl(safe, c)
  \/ \E o \in Outputs, b \in 1 .. 2 * MaxCommit : HoldPublication(o, b)
  \/ \E o \in Outputs : \E w \in 0 .. held[o] : FinishPublication(o, w)

CapacitySpec == CapacityInit /\ [][CapacityNext]_capacityVars

-----------------------------------------------------------------------------
\* Work admitted into an empty lane, up to a full lane of it, leaves the space
\* of the minimal recovery sequence and of shutdown untouched, apart from what
\* other work wrote meanwhile: the headroom arithmetic of admit.
BurstKeepsFloors ==
  burst /\ DataInflight > 0 =>
    free + spent >= InflightBytes + MinimalRecovery + ShutdownFloor

\* Commands and publications never promise the same bytes twice: what the
\* publications hold and the shutdown floor stay covered, apart from what data
\* and shutdown-safe commands wrote (admit and hold_publication subtract the holds).
HoldsAreFunded == free + drawn >= HeldBytes + ShutdownFloor

\* Data admission protects the work in flight and the recovery floors whatever
\* finished before: what operating.md says of the data-stop floor.
AdmissionKeepsFloors ==
  DataInflight > 0 => free + spent >= InflightBytes + MinimalRecovery + ShutdownFloor

\* Admission never promises the same bytes twice: neither a burst of data commands nor
\* publications eat the floors of recovery and shutdown.
SpaceKeepsFloors == BurstKeepsFloors /\ HoldsAreFunded
=============================================================================
