--------------------------- MODULE StorageExecutor ---------------------------
(***************************************************************************)
(* The storage executor of storage_executor.rs: submitters put commands    *)
(* into three bounded lanes, one writer thread executes them one at a time *)
(* (worker_loop), a gate admits one clock watermark at a time, refusals    *)
(* are aggregated, and shutdown closes admission and joins the writer.     *)
(*                                                                         *)
(* A member of Command is a slot for one submission: its WorkerMessage,    *)
(* the shared CommandState and the submitter that holds the Submission.    *)
(* A slot is used again once its submitter is done with it, so an endless  *)
(* stream of submissions is a behaviour of the model.                      *)
(*                                                                         *)
(* Step granularity: one step per access to shared memory that another     *)
(* thread can separate from the next one (an atomic, a lock, a channel).   *)
(* submit(&self) and stop_admission_and_cancel_queued(&mut self) never     *)
(* overlap, because the borrow checker excludes it.                        *)
(***************************************************************************)
EXTENDS Integers, Sequences, OverloadAccumulator

CONSTANTS
  Command,           \* submission slots
  NoCommand,         \* "the writer holds no message"
  OperationOf,       \* Command -> OperationClass
  BucketOf,          \* Command -> the overload bucket its refusal counts in
  DataCapacity, RecoveryCapacity, RecoveryWeight, MaxBuckets,
                     \* ExecutorConfig
  StreakMax,         \* largest value of the u8 recovery_streak (255)
  MaxOwed            \* bound: refusals not yet committed to the audit log

OperationClass ==
  {"DataPlane", "ClockWatermark", "Checkpoint", "Backup", "Diagnostics",
   "AuditQuery", "AuditExport", "ReserveStatus", "ReserveRelease",
   "ReserveRecreate", "Shutdown", "IdentityDisable", "GrantReduction",
   "CredentialRevocation"}

Urgent ==
  {"ClockWatermark", "ReserveStatus", "ReserveRelease", "ReserveRecreate",
   "Shutdown", "IdentityDisable", "GrantReduction", "CredentialRevocation"}

\* ExecutorConfig::validate, and a recovery weight that fits the u8 streak.
ASSUME ConfigAssumption ==
  /\ NoCommand \notin Command
  /\ OperationOf \in [Command -> OperationClass]
  /\ BucketOf \in [Command -> Nat]
  /\ DataCapacity \in Nat \ {0}
  /\ RecoveryCapacity \in Nat \ {0, 1}
  /\ RecoveryWeight \in Nat \ {0}
  /\ StreakMax \in Nat /\ StreakMax >= RecoveryWeight
  /\ MaxBuckets \in Nat \ {0}
  /\ MaxOwed \in Nat

Lane == {"data", "urgent", "recovery"}

LaneOf(c) == IF OperationOf[c] = "DataPlane" THEN "data"
             ELSE IF OperationOf[c] \in Urgent THEN "urgent"
             ELSE "recovery"

\* start(): half of the recovery capacity, rounded up, is the urgent lane.
Capacity(l) == CASE l = "data"     -> DataCapacity
                 [] l = "urgent"   -> (RecoveryCapacity + 1) \div 2
                 [] l = "recovery" -> RecoveryCapacity \div 2

\* Only submit_clock_watermark passes a deadline; every ClockWatermark slot
\* stands for a call of it.
Gated(c) == OperationOf[c] = "ClockWatermark"

VARIABLES
  queue,      \* Lane -> messages in the sync_channel
  state,      \* Command -> CommandState ("Unused" before submission)
  client,     \* Command -> where the submitting call is
  mailbox,    \* Command -> content of the oneshot reply channel
  outcome,    \* Command -> what receive() or the submit call returned
  healthy, stopping,
  pending, deadline,        \* WatermarkGate
  overloads,                \* the shared OverloadAccumulator
  pc, streak, current,      \* the writer: step, recovery_streak, message
  result, taken,            \* the writer: backend result, overload snapshot
  executed,   \* slots whose transaction the backend committed
  owed        \* refusals that no committed transaction has accounted for

submitVars  == <<client, mailbox, outcome>>
gateVars    == <<pending, deadline>>
flagVars    == <<healthy, stopping>>
writerVars  == <<pc, streak, current, result, taken>>
auditVars   == <<overloads, executed, owed>>
vars == <<queue, state, submitVars, flagVars, gateVars, writerVars, auditVars>>

Init ==
  /\ queue = [l \in Lane |-> <<>>]
  /\ state = [c \in Command |-> "Unused"]
  /\ client = [c \in Command |-> "idle"]
  /\ mailbox = [c \in Command |-> "empty"]
  /\ outcome = [c \in Command |-> "none"]
  /\ healthy = TRUE /\ stopping = FALSE
  /\ pending = FALSE /\ deadline = "none"
  /\ overloads = EmptyAccumulator
  /\ pc = "top" /\ streak = 0 /\ current = NoCommand
  /\ result = "none" /\ taken = EmptyAccumulator
  /\ executed = {} /\ owed = 0

ReceiversAlive == pc \notin {"exited", "unwound", "failed"}
Queued(c) == \E l \in Lane : \E i \in 1..Len(queue[l]) : queue[l][i] = c
Done(c, answer) == /\ client' = [client EXCEPT ![c] = "done"]
                   /\ outcome' = [outcome EXCEPT ![c] = answer]
Goto(c, step) == /\ client' = [client EXCEPT ![c] = step]
                 /\ UNCHANGED outcome

\* WatermarkGate::finish on the error path of a submission and in
\* cancel_message, for a message that went through the gate.
GiveBackGate_Mutant(c) == UNCHANGED gateVars
GiveBackGate(c) ==
  IF Gated(c) THEN pending' = FALSE /\ deadline' = "none" ELSE UNCHANGED gateVars

-----------------------------------------------------------------------------
(* Submitters.                                                             *)

\* submit_clock_watermark: WatermarkGate::begin wins or loses the gate ...
GateBegin(c) ==
  /\ client[c] = "idle" /\ Gated(c) /\ ~stopping
  /\ IF pending
     THEN Done(c, "WatermarkPending") /\ UNCHANGED pending
     ELSE Goto(c, "arming") /\ pending' = TRUE
  /\ UNCHANGED <<queue, state, mailbox, flagVars, deadline, writerVars, auditVars>>

\* ... and then stores the deadline under its lock.
GateArm(c) ==
  /\ client[c] = "arming"
  /\ deadline' = "armed"
  /\ Goto(c, "checking")
  /\ UNCHANGED <<queue, state, mailbox, flagVars, pending, writerVars, auditVars>>

\* submit(): the health check.  A refused watermark gives the gate back.
\* Calls after stop_admission_and_cancel_queued are refused here and change
\* nothing, so they are not taken as steps.
SubmitCheck(c) ==
  /\ \/ client[c] = "idle" /\ ~Gated(c) /\ ~stopping
     \/ client[c] = "checking"
  /\ IF healthy
     THEN Goto(c, "sending") /\ UNCHANGED gateVars
     ELSE /\ Done(c, "WorkerUnavailable")
          /\ GiveBackGate(c)
  /\ UNCHANGED <<queue, state, mailbox, flagVars, writerVars, auditVars>>

\* submit(): try_send, with its three results.
Accept(c) ==
  /\ client[c] = "sending" /\ ReceiversAlive
  /\ Len(queue[LaneOf(c)]) < Capacity(LaneOf(c))
  /\ queue' = [queue EXCEPT ![LaneOf(c)] = Append(@, c)]
  /\ state' = [state EXCEPT ![c] = "Accepted"]
  /\ Goto(c, "waiting")
  /\ UNCHANGED <<mailbox, flagVars, gateVars, writerVars, auditVars>>

Overloaded(c) ==
  /\ client[c] = "sending" /\ ReceiversAlive
  /\ Len(queue[LaneOf(c)]) >= Capacity(LaneOf(c))
  /\ owed < MaxOwed
  /\ overloads' = RecordOverload(overloads, BucketOf[c], MaxBuckets)
  /\ owed' = owed + 1
  /\ Done(c, "Overloaded")
  /\ GiveBackGate(c)
  /\ UNCHANGED <<queue, state, mailbox, flagVars, writerVars, executed>>

Disconnected(c) ==
  /\ client[c] = "sending" /\ ~ReceiversAlive
  /\ healthy' = FALSE
  /\ Done(c, "WorkerUnavailable")
  /\ GiveBackGate(c)
  /\ UNCHANGED <<queue, state, mailbox, stopping, writerVars, auditVars>>

\* A receive() that takes every dropped sender for a cancellation.
Receive_Mutant(c) ==
  /\ client[c] = "waiting"
  /\ \/ mailbox[c] = "ok" /\ Done(c, "Ok")
     \/ mailbox[c] = "err" /\ Done(c, "Backend")
     \/ /\ mailbox[c] = "empty" /\ ~Queued(c) /\ current # c
        /\ Done(c, "Cancelled")
  /\ UNCHANGED <<queue, state, mailbox, flagVars, gateVars, writerVars, auditVars>>

\* Submission::receive: the reply, or the state once the sender is dropped.
\* The sender lives in the message, in its lane or with the writer.
Receive(c) ==
  /\ client[c] = "waiting"
  /\ \/ mailbox[c] = "ok" /\ Done(c, "Ok")
     \/ mailbox[c] = "err" /\ Done(c, "Backend")
     \/ /\ mailbox[c] = "empty" /\ ~Queued(c) /\ current # c
        /\ Done(c, IF state[c] = "Cancelled" THEN "Cancelled"
                   ELSE "WorkerUnavailable")
  /\ UNCHANGED <<queue, state, mailbox, flagVars, gateVars, writerVars, auditVars>>

\* The submitter drops its Submission without waiting.
Disconnect(c) ==
  /\ client[c] = "waiting"
  /\ Goto(c, "gone")
  /\ UNCHANGED <<queue, state, mailbox, flagVars, gateVars, writerVars, auditVars>>

\* The slot is free for the next submission.
Reuse(c) ==
  /\ client[c] \in {"done", "gone"} /\ ~Queued(c) /\ current # c
  /\ client' = [client EXCEPT ![c] = "idle"]
  /\ outcome' = [outcome EXCEPT ![c] = "none"]
  /\ state' = [state EXCEPT ![c] = "Unused"]
  /\ mailbox' = [mailbox EXCEPT ![c] = "empty"]
  /\ executed' = executed \ {c}
  /\ UNCHANGED <<queue, flagVars, gateVars, writerVars, overloads, owed>>

-----------------------------------------------------------------------------
(* The watermark deadline, and shutdown.                                   *)

\* Time passes the deadline of the pending watermark.
DeadlinePasses ==
  /\ deadline = "armed" /\ deadline' = "passed"
  /\ UNCHANGED <<queue, state, submitVars, flagVars, pending, writerVars, auditVars>>

\* poll_clock_watermark_deadline with now > deadline.
PollMissed ==
  /\ deadline = "passed" /\ healthy' = FALSE
  /\ UNCHANGED <<queue, state, submitVars, stopping, gateVars, writerVars, auditVars>>

\* stop_admission_and_cancel_queued, the first half of cross_shutdown_barrier
\* and of drop.  &mut self: no submit call is under way.
StopAdmission ==
  /\ ~stopping /\ stopping' = TRUE
  /\ \A c \in Command : client[c] \notin {"arming", "checking", "sending"}
  /\ UNCHANGED <<queue, state, submitVars, healthy, gateVars, writerVars, auditVars>>

-----------------------------------------------------------------------------
(* The writer thread.                                                      *)

Step(from, to) == pc = from /\ pc' = to

\* cancel_pending on every lane, and on the message in hand if there is one:
\* each message becomes Cancelled and a gated one gives the gate back.
CancelAll ==
  LET doomed == {c \in Command : Queued(c) \/ current = c}
  IN  /\ state' = [c \in Command |-> IF c \in doomed THEN "Cancelled" ELSE state[c]]
      /\ queue' = [l \in Lane |-> <<>>]
      /\ current' = NoCommand
      /\ IF \E c \in doomed : Gated(c)
         THEN pending' = FALSE /\ deadline' = "none"
         ELSE UNCHANGED gateVars

\* A loop head that leaves only when the lanes are empty.
WorkerStop_Mutant ==
  /\ Step("top", "exited") /\ stopping /\ \A l \in Lane : queue[l] = <<>>
  /\ CancelAll
  /\ UNCHANGED <<submitVars, flagVars, streak, result, taken, auditVars>>

\* Loop head.
WorkerStop ==
  /\ Step("top", "exited") /\ stopping
  /\ CancelAll
  /\ UNCHANGED <<submitVars, flagVars, streak, result, taken, auditVars>>

\* Selection without the data lane's turn after RecoveryWeight recoveries.
WorkerTurn_Mutant ==
  /\ Step("top", "urgent") /\ ~stopping
  /\ UNCHANGED <<queue, state, submitVars, flagVars, gateVars, streak, current,
                 result, taken, auditVars>>

WorkerTurn ==
  /\ pc = "top" /\ ~stopping
  /\ pc' = IF streak >= RecoveryWeight THEN "forced" ELSE "urgent"
  /\ UNCHANGED <<queue, state, submitVars, flagVars, gateVars, streak, current,
                 result, taken, auditVars>>

\* select_message: one try_recv of lane l; the next lane is tried when it is
\* empty.
TryRecv(at, l, next, newStreak) ==
  /\ pc = at
  /\ IF queue[l] = <<>>
     THEN pc' = next /\ UNCHANGED <<queue, streak, current>>
     ELSE /\ current' = Head(queue[l])
          /\ queue' = [queue EXCEPT ![l] = Tail(@)]
          /\ streak' = newStreak
          /\ pc' = "selected"
  /\ UNCHANGED <<state, submitVars, flagVars, gateVars, result, taken, auditVars>>

StreakUp_Mutant == streak + 1
StreakUp == IF streak < StreakMax THEN streak + 1 ELSE StreakMax

SelectMessage ==
  \/ TryRecv("forced", "data", "urgent", 0)
  \/ TryRecv("urgent", "urgent", "recovery", StreakUp)
  \/ TryRecv("recovery", "recovery", "data", StreakUp)
  \/ TryRecv("data", "data", "nothing", 0)

\* Nothing selected: leave if stopping (the lanes are dropped as they are),
\* else park for a millisecond.
WorkerIdleExit ==
  /\ Step("nothing", "exited") /\ stopping
  /\ queue' = [l \in Lane |-> <<>>]
  /\ UNCHANGED <<state, submitVars, flagVars, gateVars, streak, current, result,
                 taken, auditVars>>

WorkerPark ==
  /\ Step("nothing", "top") /\ ~stopping
  /\ UNCHANGED <<queue, state, submitVars, flagVars, gateVars, streak, current,
                 result, taken, auditVars>>

\* A message is in hand: last look at the stop flag ...
WorkerStopSelected ==
  /\ Step("selected", "exited") /\ stopping
  /\ CancelAll
  /\ UNCHANGED <<submitVars, flagVars, streak, result, taken, auditVars>>

\* A writer that does not look at the stop flag again.
WorkerProceed_Mutant ==
  /\ Step("selected", "ready")
  /\ UNCHANGED <<queue, state, submitVars, flagVars, gateVars, streak, current,
                 result, taken, auditVars>>

WorkerProceed ==
  /\ Step("selected", "ready") /\ ~stopping
  /\ UNCHANGED <<queue, state, submitVars, flagVars, gateVars, streak, current,
                 result, taken, auditVars>>

\* ... and at the reply channel: cancel for a submitter that left.
CancelClosed ==
  /\ Step("ready", "top") /\ client[current] = "gone"
  /\ state' = [state EXCEPT ![current] = "Cancelled"]
  /\ current' = NoCommand
  /\ GiveBackGate(current)
  /\ UNCHANGED <<queue, submitVars, flagVars, streak, result, taken, auditVars>>

\* Started; the overload snapshot is taken.
Start ==
  /\ Step("ready", "executing") /\ client[current] # "gone"
  /\ state' = [state EXCEPT ![current] = "Started"]
  /\ taken' = overloads
  /\ overloads' = EmptyAccumulator
  /\ UNCHANGED <<queue, submitVars, flagVars, gateVars, streak, current, result,
                 executed, owed>>

\* The backend commits the command and the snapshot in one transaction.
ExecuteOk ==
  /\ Step("executing", "publish")
  /\ result' = "ok"
  /\ executed' = executed \cup {current}
  /\ owed' = owed - OverloadTotal(taken)
  /\ taken' = EmptyAccumulator
  /\ UNCHANGED <<queue, state, submitVars, flagVars, gateVars, streak, current, overloads>>

\* The backend aborts; the snapshot goes back to the accumulator.
ExecuteErr ==
  /\ Step("executing", "publish")
  /\ result' = "err"
  /\ overloads' = MergeOverloads(overloads, taken, MaxBuckets)
  /\ taken' = EmptyAccumulator
  /\ UNCHANGED <<queue, state, submitVars, flagVars, gateVars, streak, current,
                 executed, owed>>

\* The backend panics, before or after its commit.  Unwinding drops the
\* message in hand, the snapshot and the lanes; then catch_unwind reports.
Panic ==
  /\ Step("executing", "unwound")
  /\ \/ UNCHANGED <<executed, owed>>
     \/ /\ executed' = executed \cup {current}
        /\ owed' = owed - OverloadTotal(taken)
  /\ queue' = [l \in Lane |-> <<>>]
  /\ current' = NoCommand
  /\ taken' = EmptyAccumulator
  /\ UNCHANGED <<state, submitVars, flagVars, gateVars, streak, result, overloads>>

ReportPanic ==
  /\ Step("unwound", "failed")
  /\ healthy' = FALSE
  /\ UNCHANGED <<queue, state, submitVars, stopping, gateVars, streak, current,
                 result, taken, auditVars>>

\* Committed or Aborted becomes visible before the reply is sent.
Publish ==
  /\ Step("publish", "reply")
  /\ state' = [state EXCEPT ![current] =
                 IF result = "ok" THEN "Committed" ELSE "Aborted"]
  /\ UNCHANGED <<queue, submitVars, flagVars, gateVars, streak, current, result,
                 taken, auditVars>>

\* reply.send: delivered, or the submitter is gone and the response is wiped.
Reply ==
  /\ pc = "reply"
  /\ IF client[current] = "gone"
     THEN pc' = "settle" /\ UNCHANGED mailbox
     ELSE pc' = "replied" /\ mailbox' = [mailbox EXCEPT ![current] = result]
  /\ UNCHANGED <<queue, state, client, outcome, flagVars, gateVars, streak, current,
                 result, taken, auditVars>>

MarkReplied ==
  /\ Step("replied", "settle")
  /\ state' = [state EXCEPT ![current] = "Replied"]
  /\ UNCHANGED <<queue, submitVars, flagVars, gateVars, streak, current, result,
                 taken, auditVars>>

\* The message is done; a watermark first clears its deadline ...
Settle ==
  /\ pc = "settle"
  /\ IF Gated(current)
     THEN pc' = "release" /\ deadline' = "none" /\ UNCHANGED <<current, result>>
     ELSE pc' = "top" /\ current' = NoCommand /\ result' = "none"
          /\ UNCHANGED deadline
  /\ UNCHANGED <<queue, state, submitVars, flagVars, pending, streak, taken, auditVars>>

\* ... and then opens the gate.
Release ==
  /\ Step("release", "top")
  /\ pending' = FALSE /\ current' = NoCommand /\ result' = "none"
  /\ UNCHANGED <<queue, state, submitVars, flagVars, deadline, streak, taken, auditVars>>

Writer ==
  \/ WorkerStop \/ WorkerTurn \/ SelectMessage \/ WorkerIdleExit \/ WorkerPark
  \/ WorkerStopSelected \/ WorkerProceed \/ CancelClosed \/ Start
  \/ ExecuteOk \/ ExecuteErr \/ Panic \/ ReportPanic
  \/ Publish \/ Reply \/ MarkReplied \/ Settle \/ Release

Submitter(c) ==
  \/ GateBegin(c) \/ GateArm(c) \/ SubmitCheck(c)
  \/ Accept(c) \/ Overloaded(c) \/ Disconnected(c)
  \/ Receive(c) \/ Disconnect(c) \/ Reuse(c)

Next ==
  \/ Writer
  \/ \E c \in Command : Submitter(c)
  \/ DeadlinePasses \/ PollMissed \/ StopAdmission

Spec == Init /\ [][Next]_vars

\* The operating system keeps scheduling the writer thread, the backend
\* returns or panics, and a submitter that waits is polled by its runtime.
Fairness ==
  /\ WF_vars(Writer)
  /\ \A c \in Command : WF_vars(Receive(c))

LiveSpec == Spec /\ Fairness

-----------------------------------------------------------------------------
(* Properties.                                                             *)

TypeOK ==
  /\ queue \in [Lane -> Seq(Command)]
  /\ state \in [Command -> {"Unused", "Accepted", "Cancelled", "Started",
                            "Committed", "Aborted", "Replied"}]
  /\ client \in [Command -> {"idle", "arming", "checking", "sending", "waiting",
                             "gone", "done"}]
  /\ mailbox \in [Command -> {"empty", "ok", "err"}]
  /\ outcome \in [Command -> {"none", "Ok", "Backend", "Cancelled", "Overloaded",
                              "WorkerUnavailable", "WatermarkPending"}]
  /\ healthy \in BOOLEAN /\ stopping \in BOOLEAN /\ pending \in BOOLEAN
  /\ deadline \in {"none", "armed", "passed"}
  /\ pc \in {"top", "forced", "urgent", "recovery", "data", "nothing", "selected",
             "ready", "executing", "publish", "reply", "replied", "settle",
             "release", "unwound", "failed", "exited"}
  /\ streak \in 0..StreakMax
  /\ current \in Command \cup {NoCommand}
  /\ result \in {"none", "ok", "err"}
  /\ executed \subseteq Command

\* A submitter that was told "Cancelled" has no transaction in the store, one
\* that was told "Ok" has one, and one that got the backend's error has none:
\* whatever the order of disconnects, shutdown, panics and replies.  (Only
\* WorkerUnavailable leaves the question open.)
AnswersAreTruthful ==
  \A c \in Command :
    /\ outcome[c] \in {"Cancelled", "Backend", "Overloaded"} => c \notin executed
    /\ outcome[c] = "Ok" => c \in executed

\* The gate is closed exactly while one watermark submission is under way: in
\* its submit call, in the urgent lane or with the writer.  Two watermarks are
\* never in flight together, and no path leaves the gate closed behind it
\* while the writer is alive.
InFlight(c) == \/ client[c] \in {"arming", "checking", "sending"}
               \/ Queued(c) \/ current = c
GateHasOneOwner ==
  LET owners == {c \in Command : Gated(c) /\ InFlight(c)}
  IN  /\ \A c, d \in owners : c = d
      /\ owners # {} => pending
      /\ (pending /\ ReceiversAlive) => owners # {}

\* No refusal is lost or counted twice between the accumulator, the snapshot
\* the writer holds and the committed transactions, as long as the backend
\* does not panic; and the aggregate stays within its bucket bound.
RefusalsConserved ==
  /\ pc \notin {"unwound", "failed"} =>
       owed = OverloadTotal(overloads) + OverloadTotal(taken)
  /\ Cardinality(DOMAIN overloads.buckets) <= MaxBuckets

\* A waiting submitter always gets an answer, or gives up: no command stays
\* in the data or urgent lane for ever under a stream of commands in the other
\* lanes, and no shutdown or panic leaves a submitter hanging.
WaitersAnswered ==
  \A c \in Command :
    LaneOf(c) # "recovery" => (client[c] = "waiting" ~> client[c] # "waiting")

\* Once admission is stopped the writer exits (cross_shutdown_barrier joins it).
BarrierCrossed == stopping ~> pc \in {"exited", "failed"}

\* stop_admission_and_cancel_queued "asks the writer to cancel every command
\* that has not begun": when the writer has exited no command is left Accepted.
QueuedAreCancelled ==
  pc = "exited" => \A c \in Command : state[c] # "Accepted"

-----------------------------------------------------------------------------
(* Refinement of SerialWriter.                                             *)

\* How far a command has come.  The writer has picked a message when it has
\* passed its last look at the stop flag.
PhaseOf(c) ==
  IF c \in executed THEN "committed"
  ELSE CASE state[c] = "Unused"    -> "new"
         [] state[c] = "Cancelled" -> "cancelled"
         [] state[c] = "Accepted"  -> IF current = c /\ pc = "ready" THEN "picked"
                                      ELSE IF Queued(c) \/ current = c THEN "queued"
                                      ELSE "lost"
         [] state[c] = "Started"   -> IF current # c THEN "lost"
                                      ELSE IF pc = "executing" THEN "begun"
                                      ELSE "aborted"
         [] OTHER -> "aborted"

Abstract == INSTANCE SerialWriter
              WITH phase <- [c \in Command |-> PhaseOf(c)], told <- outcome,
                   closed <- stopping

\* The executor implements SerialWriter: every step of a submitter or of the
\* writer is one of its steps, or changes nothing a caller can see.
ImplementsSerialWriter == Abstract!Spec
=============================================================================
