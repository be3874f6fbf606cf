-------------------------- MODULE ClockCoordinator --------------------------
(***************************************************************************)
(* Transactions and the clock mark: the monitor of clock.rs, the commit    *)
(* path of transaction_coordinator.rs and store/coordinator.rs on the      *)
(* writer thread, and the durable meta row and audit chain, with crashes   *)
(* and restarts at any point.                                              *)
(*                                                                         *)
(* The process that drives the monitor is outside the crate's library      *)
(* code: once per time unit it observes the clock and then polls the idle  *)
(* checkpoint; at any time it submits commands and reports their outcome.  *)
(*                                                                         *)
(* execute() works on a private redb write transaction, so everything      *)
(* before its commit is one step (Stage); a crash or a backend error in    *)
(* between loses the staged view and nothing else.                         *)
(***************************************************************************)
EXTENDS ClockMonitor, FiniteSets

CONSTANTS
  InitialMark,     \* high_water_unix_seconds of the new store
  MaxTime,         \* bound: units a process lives
  MaxLead,         \* bound: how far a boot finds wall time past the mark
  MaxLag,          \* bound: how far behind it
  Jump,            \* how far beyond the tolerance a wall reading jumps ahead
  MaxInFlight,     \* bound: requests submitted and not yet reported
  MaxEvents        \* bound: audit events in the chain

ASSUME BoundAssumption ==
  /\ InitialMark \in Nat /\ MaxTime \in Nat /\ MaxLead \in Nat
  /\ MaxLag \in 0..InitialMark /\ Jump \in Nat \ {0} /\ MaxInFlight \in Nat /\ MaxEvents \in Nat \ {0}

VARIABLES
  monitor,         \* the running process's ClockMonitor, or Down
  monotonic,       \* monotonic time of the process
  observed, polled,\* what the driver has done at this time
  store,           \* durable: mark and generation of the meta row, head of the
                   \* audit chain and the last state delta in it
  queue,           \* requests submitted to the writer
  txn,             \* the writer's open transaction, or NoTxn
  answers,         \* outcomes of watermark commands, not yet reported
  bootMark,        \* mark found at the last boot
  readySince,      \* since when the process has been ready
  calm,            \* ready ever since it issued a command that was committed
  last             \* effective time and calm when the last process ended

process == <<monotonic, observed, polled>>
writer == <<queue, txn, answers>>
history == <<bootMark, readySince, calm, last>>
vars == <<monitor, process, store, writer, history>>

Down == [safety |-> "Down"]
NoTxn == [req |-> "none"]
NoLife == [effective |-> 0, calm |-> FALSE]
BootTime == 1
Up == monitor # Down
InFlight == Cardinality(queue) + Cardinality(answers) + (IF txn = NoTxn THEN 0 ELSE 1)

\* The monitor in its next state, with a commit of a command issued at the
\* given time (NoTime: none); calm ends when readiness does.
Becomes(m, issued) ==
  /\ monitor' = m
  /\ readySince' = IF m.safety = "Ready" /\ monitor.safety # "Ready" THEN monotonic
                   ELSE readySince
  /\ calm' = (m.safety = "Ready" /\ (calm \/ issued >= readySince'))
  /\ UNCHANGED <<bootMark, last>>

\* The event after the head of the audit chain.
NextEvent(time) == [sequence |-> store.head.sequence + 1, time |-> time]

Init ==
  /\ monitor = Down /\ monotonic = BootTime /\ observed = FALSE /\ polled = FALSE
  /\ store = [mark |-> InitialMark, generation |-> 1,
              head |-> [sequence |-> 1, time |-> InitialMark],
              delta |-> <<InitialMark, 1>>]
  /\ queue = {} /\ txn = NoTxn /\ answers = {}
  /\ bootMark = InitialMark /\ readySince = BootTime /\ calm = FALSE
  /\ last = NoLife

-----------------------------------------------------------------------------
(* The process and its clock.                                              *)

\* boot(): a mark too far ahead refuses; the one-time override, for a wall
\* clock behind the mark, commits its audit event first.
Boot(wall, override) ==
  LET verdict == BootVerdict(wall, store.mark)
  IN  /\ ~Up
      /\ \/ verdict = "sound" /\ ~override /\ UNCHANGED store
         \/ /\ verdict = "behind" /\ override
            /\ store.head.sequence < MaxEvents /\ store.mark >= store.head.time
            /\ store' = [store EXCEPT !.head = NextEvent(store.mark)]
      /\ monitor' = Booted(wall, BootTime, store.mark)
      /\ last' = NoLife
      /\ UNCHANGED <<process, writer, bootMark, readySince, calm>>

\* The process ends, by a crash or a stop; what is durable stays.
Crash ==
  /\ Up
  /\ monitor' = Down
  /\ queue' = {} /\ txn' = NoTxn /\ answers' = {}
  /\ last' = [effective |-> monitor.effective, calm |-> calm]
  /\ monotonic' = BootTime /\ observed' = FALSE /\ polled' = FALSE
  /\ bootMark' = store.mark /\ readySince' = BootTime /\ calm' = FALSE
  /\ UNCHANGED store

Tick ==
  /\ Up /\ observed /\ polled /\ monotonic < MaxTime
  /\ monotonic' = monotonic + 1 /\ observed' = FALSE /\ polled' = FALSE
  /\ UNCHANGED <<monitor, store, writer, history>>

ObserveClock(wall, mono) ==
  /\ Up /\ ~observed
  /\ Becomes(Observe(monitor, wall, mono), NoTime)
  /\ observed' = TRUE
  /\ UNCHANGED <<monotonic, polled, store, writer>>

\* A request: what to commit, and the audit event its submitter prepared, with
\* the time and, for a watermark, the state delta it will have made.
Watermark(c) == [op |-> "watermark", cmd |-> c, time |-> c.effective,
                 delta |-> <<c.replacement, store.generation + 1>>]
AuditOnly(op) == [op |-> op, time |-> monitor.effective]

PollIdle ==
  LET m == IdleCheckpoint(monitor, monotonic)
  IN  /\ Up /\ observed /\ ~polled
      /\ Becomes(m, NoTime)
      /\ polled' = TRUE
      /\ queue' = IF m.pending # monitor.pending THEN queue \cup {Watermark(m.pending)}
                  ELSE queue
      /\ UNCHANGED <<monotonic, observed, store, txn, answers>>

\* application_commit, clean_shutdown
ApplicationCommit ==
  /\ Up /\ monitor.safety = "Ready" /\ InFlight < MaxInFlight
  /\ queue' = queue \cup {Watermark(Command(monitor, "ApplicationCommit", monotonic))}
  /\ UNCHANGED <<monitor, process, store, txn, answers, history>>

\* submit_read, and a mutation that the factory denies: both leave an event
\* and no state.
SubmitAuditOnly(op) ==
  /\ Up /\ InFlight < MaxInFlight
  /\ queue' = queue \cup {AuditOnly(op)}
  /\ UNCHANGED <<monitor, process, store, txn, answers, history>>

\* The outcome reaches the monitor.  A submitter that gave up waiting reports
\* a failure whatever happened.
Report(a, committed) ==
  /\ Up /\ a \in answers
  /\ committed => a.committed
  /\ Becomes(Complete(monitor, a.cmd, committed),
             IF committed THEN a.cmd.issued ELSE NoTime)
  /\ answers' = answers \ {a}
  /\ UNCHANGED <<process, store, queue, txn>>

-----------------------------------------------------------------------------
(* The writer: CoordinatorBackend::execute on a StoreCoordinatorTransaction. *)

Answer(r, committed) ==
  answers' = IF r.op = "watermark" THEN answers \cup {[cmd |-> r.cmd, committed |-> committed]}
             ELSE answers

\* stage_clock_watermark: compare and set on the mark, and the event's state
\* delta is the one this transaction makes.
Stageable_Mutant(r) ==
  r.op = "watermark" =>
    /\ store.mark = r.cmd.expected
    /\ r.cmd.replacement >= store.mark
    /\ r.cmd.effective <= r.cmd.replacement
Stageable(r) ==
  r.op = "watermark" =>
    /\ store.mark = r.cmd.expected
    /\ r.cmd.replacement >= store.mark
    /\ r.cmd.effective <= r.cmd.replacement
    /\ r.delta = <<r.cmd.replacement, store.generation + 1>>

Applied(r) ==
  IF r.op = "watermark"
  THEN [store EXCEPT !.mark = r.cmd.replacement, !.generation = @ + 1]
  ELSE store

\* append_audit: the event follows the head and is not older than it.
Appendable_Mutant(r) == TRUE
Appendable(r) == r.time >= store.head.time
Appended(view, r) ==
  [view EXCEPT !.head = NextEvent(r.time),
               !.delta = IF r.op = "watermark" THEN r.delta ELSE @]

Stage(r) ==
  /\ Up /\ txn = NoTxn /\ r \in queue
  /\ queue' = queue \ {r}
  /\ IF Stageable(r) /\ Appendable(r)
     THEN /\ store.head.sequence < MaxEvents
          /\ txn' = [req |-> r, view |-> Appended(Applied(r), r)]
          /\ UNCHANGED answers
     ELSE Answer(r, FALSE) /\ UNCHANGED txn
  /\ UNCHANGED <<monitor, process, store, history>>

CommitTxn ==
  /\ Up /\ txn # NoTxn
  /\ store' = txn.view
  /\ Answer(txn.req, TRUE)
  /\ txn' = NoTxn
  /\ UNCHANGED <<monitor, process, queue, history>>

\* The backend fails anywhere between begin and commit.
AbortTxn ==
  /\ Up /\ txn # NoTxn
  /\ Answer(txn.req, FALSE)
  /\ txn' = NoTxn
  /\ UNCHANGED <<monitor, process, store, queue, history>>

\* Wall readings around what the monitor expects: at the edges of the
\* tolerance, just outside, and far ahead.
Readings == LET e == ExpectedWall(monitor, monotonic)
            IN  {e + d : d \in {0, Tolerance, -Tolerance, -(Tolerance + 1),
                                Tolerance + Jump}} \cap Nat

Next ==
  \/ \E wall \in (store.mark - MaxLag)..(store.mark + MaxLead), override \in BOOLEAN :
       Boot(wall, override)
  \/ Crash
  \/ Tick
  \/ Up /\ \E wall \in Readings : ObserveClock(wall, monotonic)
  \/ Up /\ ObserveClock(ExpectedWall(monitor, monotonic), BootTime - 1)
  \/ PollIdle
  \/ ApplicationCommit
  \/ SubmitAuditOnly("read")
  \/ \E a \in answers, committed \in BOOLEAN : Report(a, committed)
  \/ \E r \in queue : Stage(r)
  \/ CommitTxn
  \/ AbortTxn

Spec == Init /\ [][Next]_vars

-----------------------------------------------------------------------------
(* Properties.                                                             *)

TypeOK ==
  /\ monotonic \in BootTime..Larger(MaxTime, BootTime)
  /\ store.mark \in Nat /\ store.generation \in Nat
  /\ store.head.sequence \in 1..MaxEvents /\ store.head.time \in Nat
  /\ Up => /\ monitor.safety \in {"Ready", "Recovering", "Unsafe"}
           /\ monitor.effective \in Nat /\ monitor.persisted \in Nat
           /\ monitor.agreedSince # NoTime => monitor.safety # "Ready"

\* What the monitor believes durable is durable, and no process serves a time
\* before the durable mark, whichever commands were lost, refused, overtaken or
\* cut off by a crash.
EffectiveCoversMark ==
  Up => monitor.persisted <= store.mark /\ store.mark <= monitor.effective

\* "An anomalous wall observation is never written to the store": the mark
\* stays within the tolerance of the time that has passed since the anchor.
NoAnomalousMark ==
  Up => store.mark <= Larger(bootMark, ExpectedWall(monitor, monotonic) + Tolerance)

\* The audit chain accounts for the meta row, whatever was staged and lost: its
\* last state delta is the mark and generation in force.
ChainMatchesState == store.delta = <<store.mark, store.generation>>

\* The chain's head moves to the next event, not back in time.
HeadAdvances ==
  store'.head # store.head =>
    /\ store'.head.sequence = store.head.sequence + 1
    /\ store'.head.time >= store.head.time

\* Event by event the chain grows by one and its times never run back, over
\* restarts with the wall clock set back as well.
ChainGrowsInOrder == [][HeadAdvances]_vars

\* MAX_RESTART_TTL_EXTENSION, in units of the driver's poll: a commit carries
\* the time of the observation before it, and a missed deadline is noticed at
\* the poll after it.
Window == IdleInterval + Tolerance + CommitDeadline

\* A process that stayed ready since a reported commit loses at most the
\* published window when it ends and the wall clock is set back.
CalmRestartBounded ==
  [][(~Up /\ monitor' # Down /\ last.calm) =>
       last.effective - monitor'.effective <= Window + 2]_vars

\* "the published maximum restart rollback/TTL-extension window is therefore
\* 32.1 seconds: 30 second checkpoint interval + 2 second tolerance + 100 ms
\* commit deadline."
RestartBounded ==
  [][(~Up /\ monitor' # Down) => last.effective - monitor'.effective <= Window + 2]_vars
=============================================================================
