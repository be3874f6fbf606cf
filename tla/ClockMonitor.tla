---------------------------- MODULE ClockMonitor ----------------------------
(***************************************************************************)
(* Effective time (ClockMonitor of clock.rs) as operators on the monitor's *)
(* record m.  Time is counted in units of the idle poll; wall and          *)
(* monotonic readings are natural numbers, and a monitor keeps only        *)
(* differences of monotonic ones.                                          *)
(***************************************************************************)
EXTENDS Integers

CONSTANTS
  Tolerance,        \* CLOCK_TOLERANCE
  SettlePeriod,     \* CLOCK_SETTLE_PERIOD
  IdleInterval,     \* IDLE_CHECKPOINT_INTERVAL
  CommitDeadline,   \* CHECKPOINT_COMMIT_DEADLINE
  MaxPlausible      \* MAX_PLAUSIBLE_FUTURE_MARK

ASSUME ClockAssumption ==
  /\ Tolerance \in Nat /\ SettlePeriod \in Nat /\ IdleInterval \in Nat
  /\ CommitDeadline \in Nat
  /\ MaxPlausible \in Nat /\ MaxPlausible >= Tolerance

Larger(a, b) == IF a >= b THEN a ELSE b
NoTime == -1
NoPending == [kind |-> "none"]

\* boot(): what a wall reading says about the persisted mark.
BootVerdict(wall, mark) ==
  LET ahead == Larger(mark - wall, 0)
  IN  CASE ahead > MaxPlausible -> "implausible"
        [] ahead > Tolerance /\ ahead <= MaxPlausible -> "behind"
        [] OTHER -> "sound"

Booted(wall, mono, mark) ==
  [anchorWall |-> wall, anchorMono |-> mono,
   effective |-> Larger(wall, mark), persisted |-> mark,
   safety |-> "Ready", agreedSince |-> NoTime,
   lastDurable |-> mono, pending |-> NoPending]

Disagree(m) == [m EXCEPT !.safety = "Unsafe", !.agreedSince = NoTime]

\* Agreement, which restores readiness once it has lasted long enough.
Agree(m, mono) ==
  LET since == IF m.agreedSince = NoTime THEN mono ELSE m.agreedSince
  IN  IF m.safety = "Ready" THEN m
      ELSE IF mono - since >= SettlePeriod
      THEN [m EXCEPT !.safety = "Ready", !.agreedSince = NoTime]
      ELSE [m EXCEPT !.safety = "Recovering", !.agreedSince = since]

ExpectedWall(m, mono) == m.anchorWall + (mono - m.anchorMono)

\* observe(): a wall reading beyond the tolerance never enters effective time.
Observe_Mutant(m, wall, mono) ==
  IF mono < m.anchorMono THEN Disagree(m)
  ELSE LET expected == ExpectedWall(m, mono)
           heard == [m EXCEPT !.effective = Larger(@, Larger(expected, wall))]
       IN  IF wall - expected \in -Tolerance..Tolerance THEN Agree(heard, mono)
           ELSE Disagree(heard)
Observe(m, wall, mono) ==
  IF mono < m.anchorMono THEN Disagree(m)
  ELSE LET expected == ExpectedWall(m, mono)
           heard == [m EXCEPT !.effective = Larger(@, expected)]
       IN  IF wall - expected \in -Tolerance..Tolerance
           THEN Agree([heard EXCEPT !.effective = Larger(@, wall)], mono)
           ELSE Disagree(heard)

\* command(): the watermark to write now.  application_commit and
\* clean_shutdown differ only in the kind they record.
Command(m, kind, now) ==
  [kind |-> kind, expected |-> m.persisted,
   replacement |-> Larger(m.persisted, m.effective),
   effective |-> m.effective, issued |-> now]

Overdue(m, now) == m.pending # NoPending /\ now > m.pending.issued + CommitDeadline

IdleDue_Mutant(m, now) == m.pending = NoPending /\ now - m.lastDurable > IdleInterval
IdleDue(m, now) == m.pending = NoPending /\ now - m.lastDurable >= IdleInterval

\* idle_checkpoint(): fails closed on a missed deadline; otherwise makes one
\* command pending when none is and the interval has passed.
IdleCheckpoint(m, now) ==
  IF Overdue(m, now) THEN [m EXCEPT !.safety = "Unsafe"]
  ELSE IF IdleDue(m, now) /\ m.safety = "Ready"
  THEN [m EXCEPT !.pending = Command(m, "IdleCheckpoint", now)]
  ELSE m

\* complete_watermark(): the outcome of a command, as its submitter reports it.
Complete_Mutant(m, c, committed) ==
  IF \/ c.expected # m.persisted \/ c.replacement < m.persisted
     \/ c.kind = "IdleCheckpoint" /\ m.pending # c
  THEN [m EXCEPT !.safety = "Unsafe"]
  ELSE [m EXCEPT !.persisted = c.replacement, !.lastDurable = c.issued]
Complete(m, c, committed) ==
  IF \/ c.expected # m.persisted \/ c.replacement < m.persisted
     \/ c.kind = "IdleCheckpoint" /\ m.pending # c
     \/ ~committed
  THEN [m EXCEPT !.safety = "Unsafe"]
  ELSE [m EXCEPT !.persisted = c.replacement,
                 !.lastDurable = c.issued,
                 !.pending = IF /\ m.pending # NoPending
                                /\ m.pending.replacement <= c.replacement
                             THEN NoPending ELSE @]
=============================================================================
