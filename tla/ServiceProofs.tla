--------------------------- MODULE ServiceProofs ----------------------------
(***************************************************************************)
(* The node around the store, for any processes, clock values and reloads: *)
(* the clock coordinator, the data directory and the processes that        *)
(* compete for it, and the reload of the TLS pair.                         *)
(*                                                                         *)
(* ServedIsExpected alone is not inductive: that the commit of one reload  *)
(* is not overtaken needs the serial lock (OneReload), and that a start    *)
(* does not race with reloads needs Phases.                                *)
(***************************************************************************)
EXTENDS ClockCoordinator, NodeLifecycle, TlsReload, TLAPS

Places == {"idle", "locked", "certificate", "prepared", "committed", "swapped"}

TlsTypes ==
  /\ tlsFiles \in [cert : 1 .. MaxPair, key : 1 .. MaxPair]
  /\ expected \in 0 .. MaxPair /\ served \in 0 .. MaxPair /\ current \in 0 .. MaxPair
  /\ loads \in [Loaders -> [at : Places, cert : 0 .. MaxPair]]

\* At most one reload is past the serial lock.
OneReload ==
  \A r, x \in Reloads : loads[r] # NoLoad /\ loads[x] # NoLoad => r = x

\* Reloads run in a serving process only, the start before it serves.
Phases ==
  /\ served = 0 => current = 0 /\ \A r \in Reloads : loads[r] = NoLoad
  /\ served # 0 => loads[Starter] = NoLoad
  /\ loads[Starter].at # "swapped"

\* What a call holds once it has read the certificate, committed or swapped.
Holdings ==
  \A r \in Loaders :
    /\ loads[r].at \in {"certificate", "prepared", "committed", "swapped"} => loads[r].cert # 0
    /\ loads[r].at = "committed" => loads[r].cert = expected
    /\ loads[r].at = "swapped" => loads[r].cert = served /\ served = expected

TlsInv == TlsTypes /\ OneReload /\ Phases /\ Holdings /\ ServedIsExpected

(* The files, no process, nothing expected.                                  *)
LEMMA TlsInitially == TlsInit => TlsInv
  BY TlsBounds DEF TlsInit, TlsInv, TlsTypes, OneReload, Phases, Holdings, ServedIsExpected,
     NoLoad, Loaders, Places, Starter

(* Every step of a start, of any reload, of the operator and of a crash      *)
(* keeps the invariant.                                                      *)
LEMMA TlsStep == TlsInv /\ [TlsNext]_tlsVars => TlsInv'
<1> SUFFICES ASSUME TlsInv, [TlsNext]_tlsVars PROVE TlsInv'
  OBVIOUS
<1> USE TlsBounds DEF TlsInv, TlsTypes, OneReload, Phases, Holdings, ServedIsExpected,
     NoLoad, Loaders, Places, LoadMoves, LoadEnds
<1>1. CASE ReplaceFile
  BY <1>1 DEF ReplaceFile
<1>2. CASE BeginStart
  BY ZenonT(60), <1>2 DEF BeginStart
<1>3. CASE AcceptStart
  BY <1>3 DEF AcceptStart
<1>4. CASE StartServing
  BY <1>4 DEF StartServing
<1>5. CASE \E r \in Reloads : BeginReload(r)
  BY <1>5 DEF BeginReload, SerialFree
<1>6. CASE \E r \in Reloads : CommitReload(r)
  BY <1>6 DEF CommitReload
<1>7. CASE \E r \in Reloads : Swap(r)
  BY <1>7 DEF Swap
<1>8. CASE \E r \in Reloads : SetCurrent(r)
  BY <1>8 DEF SetCurrent
<1>9. CASE \E r \in Loaders : ReadCertificate(r)
  BY <1>9 DEF ReadCertificate
<1>10. CASE \E r \in Loaders : ReadKey(r)
  BY <1>10 DEF ReadKey
<1>11. CASE TlsCrash
  BY <1>11 DEF TlsCrash
<1>12. CASE UNCHANGED tlsVars
  BY ZenonT(60), <1>12 DEF tlsVars
<1> HIDE DEF TlsInv
<1> QED
  BY <1>1, <1>2, <1>3, <1>4, <1>5, <1>6, <1>7, <1>8, <1>9, <1>10, <1>11, <1>12 DEF TlsNext

(* The daemon never serves a certificate other than the durable expected one, *)
(* except between the commit and the swap of the one reload under way, for    *)
(* any number of concurrent reloads (TlsReloader::reload, reload_control).    *)
THEOREM TlsServedIsExpected == TlsSpec => []ServedIsExpected
<1>1. TlsInv => ServedIsExpected
  BY DEF TlsInv
<1> QED
  BY <1>1, TlsInitially, TlsStep, PTL DEF TlsSpec

-----------------------------------------------------------------------------
Commands == [kind : {"IdleCheckpoint", "ApplicationCommit"}, expected : Int,
             replacement : Int, effective : Int, issued : Int]
Monitors == [anchorWall : Int, anchorMono : Int, effective : Int, persisted : Int,
             safety : {"Ready", "Recovering", "Unsafe"}, agreedSince : Int,
             lastDurable : Int, pending : Commands \cup {NoPending}]
Stores == [mark : Int, generation : Int, head : [sequence : Int, time : Int],
           delta : Int \X Int]
Watermarks == [op : {"watermark"}, cmd : Commands, time : Int, delta : Int \X Int]
AuditOnlys == [op : {"read"}, time : Int]
ClockRequests == Watermarks \cup AuditOnlys
Outcomes == [cmd : Commands, committed : BOOLEAN]
Transactions == [req : ClockRequests, view : Stores]

Types ==
  /\ monitor \in Monitors \cup {Down}
  /\ monotonic \in Int /\ bootMark \in Int
  /\ store \in Stores
  /\ queue \subseteq ClockRequests /\ answers \subseteq Outcomes
  /\ txn \in Transactions \cup {NoTxn}

\* A process that is down has nothing in flight.
Quiet == ~Up => /\ queue = {} /\ txn = NoTxn /\ answers = {}
                /\ monotonic = BootTime /\ bootMark = store.mark

\* Whatever may still become the mark is covered by effective time, and
\* whatever may still be reported as committed is covered by the mark.
Covered ==
  Up => /\ monitor.persisted <= store.mark /\ store.mark <= monitor.effective
        /\ \A r \in queue : r.op = "watermark" => r.cmd.replacement <= monitor.effective
        /\ txn # NoTxn => /\ store.mark <= txn.view.mark
                          /\ txn.view.mark <= monitor.effective
                          /\ txn.req.op = "watermark" =>
                               txn.view.mark = txn.req.cmd.replacement
        /\ \A a \in answers : a.committed => a.cmd.replacement <= store.mark

\* An open transaction's view is one event ahead of the store and consistent.
Chained ==
  /\ store.delta = <<store.mark, store.generation>>
  /\ txn # NoTxn =>
       /\ txn.view.delta = <<txn.view.mark, txn.view.generation>>
       /\ txn.view.head.sequence = store.head.sequence + 1
       /\ txn.view.head.time >= store.head.time

\* Effective time follows the monotonic clock from the anchor.
Anchored ==
  Up => /\ monitor.anchorMono = BootTime /\ monotonic >= BootTime
        /\ monitor.effective <= Larger(bootMark, ExpectedWall(monitor, monotonic) + Tolerance)

ClockInv == Types /\ Quiet /\ Covered /\ Chained /\ Anchored
-----------------------------------------------------------------------------
(* What the monitor's operations do.                                       *)

\* A monitor is never the absence of one.
LEMMA MonitorIsUp == \A m \in Monitors : m # Down
BY DEF Monitors, Down

\* boot() starts at or after the mark, with the mark as persisted.
LEMMA BootedFacts ==
  ASSUME NEW wall \in Int, NEW mono \in Int, NEW mark \in Int
  PROVE  LET n == Booted(wall, mono, mark)
         IN  /\ n \in Monitors /\ n.persisted = mark /\ n.effective = Larger(wall, mark)
             /\ n.anchorWall = wall /\ n.anchorMono = mono
BY DEF Booted, Monitors, NoTime, Larger

\* Readiness changes, and nothing else does.
SameClock(n, m) ==
  /\ n.persisted = m.persisted /\ n.effective = m.effective
  /\ n.anchorWall = m.anchorWall /\ n.anchorMono = m.anchorMono

\* Disagreement touches readiness only.
LEMMA DisagreeFacts ==
  ASSUME NEW m \in Monitors
  PROVE  Disagree(m) \in Monitors /\ SameClock(Disagree(m), m)
<1>1. NoTime \in Int
  BY DEF NoTime
<1> QED
  BY ZenonT(30), <1>1 DEF Disagree, Monitors, SameClock

\* Agreement touches readiness only.
LEMMA AgreeFacts ==
  ASSUME NEW m \in Monitors, NEW mono \in Int
  PROVE  Agree(m, mono) \in Monitors /\ SameClock(Agree(m, mono), m)
<1>1. NoTime \in Int
  BY DEF NoTime
<1>2. PICK since \in Int :
        since = IF m.agreedSince = NoTime THEN mono ELSE m.agreedSince
  BY DEF Monitors
<1>3. CASE m.safety = "Ready"
  BY <1>3 DEF Agree, SameClock
<1>4. CASE m.safety # "Ready" /\ mono - since >= SettlePeriod
  <2>1. Agree(m, mono) = [m EXCEPT !.safety = "Ready", !.agreedSince = NoTime]
    BY <1>2, <1>4 DEF Agree
  <2> QED
    BY ZenonT(30), <2>1, <1>1 DEF Monitors, SameClock
<1>5. CASE m.safety # "Ready" /\ ~(mono - since >= SettlePeriod)
  <2>1. Agree(m, mono) = [m EXCEPT !.safety = "Recovering", !.agreedSince = since]
    BY <1>2, <1>5 DEF Agree
  <2> QED
    BY ZenonT(30), <2>1 DEF Monitors, SameClock
<1> QED
  BY <1>3, <1>4, <1>5

\* observe() moves effective time forward only, to no more than the tolerance
\* past what the monotonic clock says, and leaves the rest to readiness.
LEMMA ObserveFacts ==
  ASSUME NEW m \in Monitors, NEW wall \in Int, NEW mono \in Int
  PROVE  LET n == Observe(m, wall, mono)
         IN  /\ n \in Monitors /\ n.persisted = m.persisted
             /\ n.anchorWall = m.anchorWall /\ n.anchorMono = m.anchorMono
             /\ n.effective >= m.effective
             /\ n.effective <= Larger(m.effective, ExpectedWall(m, mono) + Tolerance)
<1> DEFINE e == ExpectedWall(m, mono)
           h == [m EXCEPT !.effective = Larger(@, e)]
           g == [h EXCEPT !.effective = Larger(@, wall)]
<1>1. e \in Int /\ Tolerance \in Nat
  BY ClockAssumption DEF ExpectedWall, Monitors
<1>2. /\ h \in Monitors /\ h.persisted = m.persisted /\ h.anchorWall = m.anchorWall
      /\ h.anchorMono = m.anchorMono /\ h.effective = Larger(m.effective, e)
  BY <1>1 DEF Monitors, Larger
<1>3. /\ g \in Monitors /\ g.persisted = m.persisted /\ g.anchorWall = m.anchorWall
      /\ g.anchorMono = m.anchorMono /\ g.effective = Larger(h.effective, wall)
  BY ZenonT(30), <1>2 DEF Monitors, Larger
<1> HIDE DEF h, g
<1>4. CASE mono < m.anchorMono
  BY <1>1, <1>4, DisagreeFacts DEF Observe, Larger, Monitors, SameClock
<1>5. CASE mono >= m.anchorMono /\ wall - e \in -Tolerance..Tolerance
  <2>1. Observe(m, wall, mono) = Agree(g, mono)
    BY <1>5 DEF Observe, g, h, Monitors
  <2>2. wall <= e + Tolerance
    BY <1>1, <1>5
  <2>3. Agree(g, mono) \in Monitors /\ SameClock(Agree(g, mono), g)
    BY <1>3, AgreeFacts
  <2>4. m.effective \in Int
    BY DEF Monitors
  <2>5. /\ g.effective >= m.effective
        /\ g.effective <= Larger(m.effective, e + Tolerance)
    BY <2>2, <2>4, <1>1, <1>2, <1>3 DEF Larger
  <2> QED
    BY ZenonT(60), <2>1, <2>3, <2>5, <1>3 DEF SameClock
<1>6. CASE mono >= m.anchorMono /\ wall - e \notin -Tolerance..Tolerance
  <2>1. Observe(m, wall, mono) = Disagree(h)
    BY <1>6 DEF Observe, h, Monitors
  <2> QED
    BY <2>1, <1>1, <1>2, DisagreeFacts DEF Larger, Monitors, SameClock
<1> QED
  BY <1>4, <1>5, <1>6 DEF Monitors

\* command() asks for effective time, or for the mark it knows if that is later.
LEMMA CommandFacts ==
  ASSUME NEW m \in Monitors, NEW t \in Int,
         NEW k \in {"IdleCheckpoint", "ApplicationCommit"}, m.persisted <= m.effective
  PROVE  /\ Command(m, k, t) \in Commands
         /\ Command(m, k, t).replacement = m.effective
BY DEF Command, Commands, Monitors, Larger

\* idle_checkpoint() changes readiness and the pending command only.
LEMMA IdleFacts ==
  ASSUME NEW m \in Monitors, NEW t \in Int, m.persisted <= m.effective
  PROVE  LET n == IdleCheckpoint(m, t)
         IN  /\ n \in Monitors /\ n.persisted = m.persisted /\ n.effective = m.effective
             /\ n.anchorWall = m.anchorWall /\ n.anchorMono = m.anchorMono
             /\ n.pending # m.pending =>
                  n.pending \in Commands /\ n.pending.replacement = m.effective
<1>1. Command(m, "IdleCheckpoint", t) \in Commands
      /\ Command(m, "IdleCheckpoint", t).replacement = m.effective
  BY CommandFacts
<1> QED
  BY ZenonT(60), <1>1 DEF IdleCheckpoint, Monitors

\* complete_watermark() raises the persisted mark to the replacement of a
\* committed command, and moves nothing else but readiness and the schedule.
LEMMA CompleteFacts ==
  ASSUME NEW m \in Monitors, NEW c \in Commands, NEW committed \in BOOLEAN
  PROVE  LET n == Complete(m, c, committed)
         IN  /\ n \in Monitors /\ n.effective = m.effective
             /\ n.anchorWall = m.anchorWall /\ n.anchorMono = m.anchorMono
             /\ n.persisted = m.persisted \/ (committed /\ n.persisted = c.replacement)
BY ZenonT(30) DEF Complete, Monitors, Commands
-----------------------------------------------------------------------------
(* The inductive invariant.                                                *)

\* A new store, before its first process, satisfies the invariant.
LEMMA ClockInit == Init => ClockInv
BY BoundAssumption DEF Init, ClockInv, Types, Quiet, Covered, Chained, Anchored, Up,
   Stores, BootTime

\* boot() starts from the durable mark; the override appends one event.
LEMMA BootStep ==
  ASSUME ClockInv, NEW wall \in Int, NEW override \in BOOLEAN, Boot(wall, override)
  PROVE  ClockInv'
<1> USE DEF ClockInv
<1>1. /\ monitor' \in Monitors /\ monitor'.persisted = store.mark
      /\ monitor'.effective = Larger(wall, store.mark)
      /\ monitor'.anchorWall = wall /\ monitor'.anchorMono = BootTime
  <2>1. store.mark \in Int /\ BootTime \in Int
    BY DEF Types, Stores, BootTime
  <2>2. monitor' = Booted(wall, BootTime, store.mark)
    BY DEF Boot
  <2> QED
    BY <2>1, <2>2, BootedFacts
<1>2. /\ store' \in Stores /\ store'.mark = store.mark
      /\ store'.generation = store.generation /\ store'.delta = store.delta
  BY DEF Boot, Types, Stores, NextEvent
<1>3. /\ ~Up /\ UNCHANGED <<monotonic, queue, txn, answers, bootMark>>
  BY ZenonT(60) DEF Boot, process, writer
<1>4. queue = {} /\ txn = NoTxn /\ answers = {} /\ monotonic = BootTime /\ bootMark = store.mark
  BY <1>3 DEF Quiet
<1>5. Up'
  BY ZenonT(60), <1>1, MonitorIsUp DEF Up
<1>6. Types'
  BY ZenonT(60), <1>1, <1>2, <1>3 DEF Types
<1>7. Quiet'
  BY <1>5 DEF Quiet
<1>8. Covered'
  BY <1>1, <1>2, <1>3, <1>4 DEF Covered, Larger, Types, Stores
<1>9. Chained'
  BY ZenonT(60), <1>2, <1>3, <1>4 DEF Chained
<1>10. Anchored'
  BY <1>1, <1>2, <1>3, <1>4, ClockAssumption
  DEF Anchored, Larger, ExpectedWall, BootTime, Types, Stores
<1> QED
  BY <1>6, <1>7, <1>8, <1>9, <1>10

\* A crash loses the process and what it had in flight.
LEMMA CrashStep == ClockInv /\ Crash => ClockInv'
BY DEF ClockInv, Crash, Types, Quiet, Covered, Chained, Anchored, Up, Stores, BootTime

\* Time passes.
LEMMA TickStep == ClockInv /\ Tick => ClockInv'
<1> SUFFICES ASSUME ClockInv, Tick PROVE ClockInv'
  OBVIOUS
<1> USE DEF ClockInv
<1>1. /\ Up /\ monotonic' = monotonic + 1
      /\ UNCHANGED <<monitor, store, queue, txn, answers, bootMark>>
  BY ZenonT(60) DEF Tick, writer, history
<1>2. Types' /\ Quiet' /\ Covered' /\ Chained'
  BY <1>1 DEF Types, Quiet, Covered, Chained, Up
<1>3. monitor \in Monitors
  BY <1>1 DEF Types, Up
<1>4. Anchored'
  BY <1>1, <1>3, ClockAssumption
  DEF Anchored, Up, Types, Larger, ExpectedWall, Monitors, BootTime
<1> QED
  BY <1>2, <1>4

\* An observation moves effective time forward within the tolerance.
LEMMA ObserveStep ==
  ASSUME ClockInv, NEW wall \in Int, NEW mono \in Int, mono <= monotonic,
         ObserveClock(wall, mono)
  PROVE  ClockInv'
<1> USE DEF ClockInv
<1>1. /\ Up /\ monitor' = Observe(monitor, wall, mono)
      /\ UNCHANGED <<monotonic, store, queue, txn, answers, bootMark>>
  BY ZenonT(60) DEF ObserveClock, Becomes, writer
<1>2. monitor \in Monitors
  BY ZenonT(60), <1>1 DEF Types, Up
<1>3. /\ monitor' \in Monitors /\ monitor'.persisted = monitor.persisted
      /\ monitor'.anchorWall = monitor.anchorWall
      /\ monitor'.anchorMono = monitor.anchorMono
      /\ monitor'.effective >= monitor.effective
      /\ monitor'.effective <=
           Larger(monitor.effective, ExpectedWall(monitor, mono) + Tolerance)
  BY ZenonT(60), <1>1, <1>2, ObserveFacts
<1>4. Up'
  BY ZenonT(60), <1>3, MonitorIsUp DEF Up
<1>5. Types' /\ Quiet' /\ Chained'
  BY ZenonT(60), <1>1, <1>3, <1>4 DEF Types, Quiet, Chained
<1>6. Covered'
  <2>1. monitor.effective \in Int /\ monitor'.effective \in Int /\ store.mark \in Int
    BY ZenonT(60), <1>2, <1>3 DEF Monitors, Types, Stores
  <2>2. \A r \in queue : r.op = "watermark" => r.cmd.replacement \in Int
    BY ZenonT(60) DEF Types, ClockRequests, Watermarks, AuditOnlys, Commands
  <2>3. txn # NoTxn => txn.view.mark \in Int
    BY ZenonT(60) DEF Types, Transactions, Stores
  <2> QED
    BY <1>1, <1>3, <2>1, <2>2, <2>3 DEF Covered
<1>7. Anchored'
  <2>1. /\ monitor.anchorWall \in Int /\ monitor.anchorMono \in Int
        /\ monitor.effective \in Int /\ monitor'.effective \in Int
        /\ monotonic \in Int /\ bootMark \in Int /\ Tolerance \in Nat
    BY ZenonT(60), <1>2, <1>3, ClockAssumption DEF Monitors, Types
  <2> QED
    BY <1>1, <1>3, <2>1 DEF Anchored, ExpectedWall, Larger
<1> QED
  BY <1>5, <1>6, <1>7

\* A submitted request, whose watermark asks for no more than effective time.
LEMMA SubmitStep ==
  ASSUME ClockInv, Up, NEW r \in ClockRequests,
         r.op = "watermark" => r.cmd.replacement <= monitor.effective,
         queue' = queue \cup {r},
         UNCHANGED <<monitor, monotonic, store, txn, answers, bootMark>>
  PROVE  ClockInv'
BY ZenonT(60) DEF ClockInv, Types, Quiet, Covered, Chained, Anchored, Up, ExpectedWall

\* The watermark made of a command is a request for its replacement.
LEMMA WatermarkFacts ==
  ASSUME store \in Stores, NEW c \in Commands
  PROVE  Watermark(c) \in ClockRequests /\ Watermark(c).cmd = c
BY DEF Watermark, ClockRequests, Watermarks, Commands, Stores

\* application_commit() asks for effective time.
LEMMA ApplicationCommitStep == ClockInv /\ ApplicationCommit => ClockInv'
<1> SUFFICES ASSUME ClockInv, ApplicationCommit PROVE ClockInv'
  OBVIOUS
<1> DEFINE c == Command(monitor, "ApplicationCommit", monotonic)
<1>1. /\ Up /\ queue' = queue \cup {Watermark(c)}
      /\ UNCHANGED <<monitor, monotonic, store, txn, answers, bootMark>>
  BY ZenonT(60) DEF ApplicationCommit, process, history
<1>2. /\ monitor \in Monitors /\ monitor.persisted <= monitor.effective
      /\ monitor.effective \in Int
  BY <1>1 DEF ClockInv, Types, Covered, Up, Monitors, Stores
<1>3. c \in Commands /\ c.replacement = monitor.effective
  BY ZenonT(60), <1>2, CommandFacts DEF ClockInv, Types
<1> HIDE DEF c
<1>4. Watermark(c) \in ClockRequests /\ Watermark(c).cmd = c
  BY ZenonT(60), <1>3, WatermarkFacts DEF ClockInv, Types
<1> QED
  BY <1>1, <1>2, <1>3, <1>4, SubmitStep

\* An audited read asks for no mark.
LEMMA SubmitAuditOnlyStep == ClockInv /\ SubmitAuditOnly("read") => ClockInv'
<1> SUFFICES ASSUME ClockInv, SubmitAuditOnly("read") PROVE ClockInv'
  OBVIOUS
<1>1. /\ Up /\ queue' = queue \cup {AuditOnly("read")}
      /\ UNCHANGED <<monitor, monotonic, store, txn, answers, bootMark>>
  BY ZenonT(60) DEF SubmitAuditOnly, process, history
<1>2. AuditOnly("read") \in ClockRequests /\ AuditOnly("read").op = "read"
  BY ZenonT(60), <1>1 DEF ClockInv, Types, Up, Monitors, AuditOnly, ClockRequests, AuditOnlys
<1> QED
  BY ZenonT(60), <1>1, <1>2, SubmitStep

\* A step that changes at most the monitor's readiness, schedule and, up to the
\* durable mark, what it believes persisted.
LEMMA MonitorStep ==
  ASSUME ClockInv, Up, monitor' \in Monitors,
         monitor'.effective = monitor.effective,
         monitor'.persisted <= store.mark,
         monitor'.anchorWall = monitor.anchorWall,
         monitor'.anchorMono = monitor.anchorMono,
         answers' \subseteq answers,
         UNCHANGED <<monotonic, store, queue, txn, bootMark>>
  PROVE  ClockInv'
<1>1. Up'
  BY ZenonT(60), MonitorIsUp DEF Up
<1> QED
  BY ZenonT(60), <1>1 DEF ClockInv, Types, Quiet, Covered, Chained, Anchored, ExpectedWall

\* idle_checkpoint() may make a command for effective time pending.
LEMMA PollIdleStep == ClockInv /\ PollIdle => ClockInv'
<1> SUFFICES ASSUME ClockInv, PollIdle PROVE ClockInv'
  OBVIOUS
<1> DEFINE n == IdleCheckpoint(monitor, monotonic)
<1>1. /\ Up /\ monitor' = n
      /\ queue' = IF n.pending # monitor.pending
                  THEN queue \cup {Watermark(n.pending)} ELSE queue
      /\ UNCHANGED <<monotonic, store, txn, answers, bootMark>>
  BY ZenonT(60) DEF PollIdle, Becomes
<1>2. /\ monitor \in Monitors /\ monitor.persisted <= monitor.effective
      /\ monitor.effective \in Int /\ monotonic \in Int
  BY <1>1 DEF ClockInv, Types, Covered, Up, Monitors, Stores
<1>3. /\ n \in Monitors /\ n.persisted = monitor.persisted
      /\ n.effective = monitor.effective
      /\ n.anchorWall = monitor.anchorWall /\ n.anchorMono = monitor.anchorMono
      /\ n.pending # monitor.pending =>
           n.pending \in Commands /\ n.pending.replacement = monitor.effective
  BY ZenonT(60), <1>2, IdleFacts
<1> HIDE DEF n
<1>4. Up'
  BY ZenonT(60), <1>1, <1>3, MonitorIsUp DEF Up
<1>5. \A r \in queue' \ queue : r \in ClockRequests /\ r.cmd.replacement <= monitor.effective
  BY <1>1, <1>2, <1>3, WatermarkFacts DEF ClockInv, Types
<1>6. Types' /\ Quiet' /\ Chained'
  BY ZenonT(60), <1>1, <1>3, <1>4, <1>5 DEF ClockInv, Types, Quiet, Chained
<1>7. Covered' /\ Anchored'
  BY ZenonT(60), <1>1, <1>3, <1>5 DEF ClockInv, Covered, Anchored, ExpectedWall
<1> QED
  BY ZenonT(60), <1>6, <1>7 DEF ClockInv

\* A reported commit is covered by the mark, so the monitor may believe it.
LEMMA ReportStep ==
  ASSUME ClockInv, NEW a \in answers, NEW committed \in BOOLEAN, Report(a, committed)
  PROVE  ClockInv'
<1>1. /\ Up /\ monitor' = Complete(monitor, a.cmd, committed)
      /\ committed => a.committed
      /\ answers' = answers \ {a}
      /\ UNCHANGED <<monotonic, store, queue, txn, bootMark>>
  BY ZenonT(60) DEF Report, Becomes, process
<1>2. monitor \in Monitors /\ a.cmd \in Commands
  <2>1. a \in Outcomes
    BY ZenonT(60) DEF ClockInv, Types
  <2>2. a.cmd \in Commands
    BY ZenonT(60), <2>1 DEF Outcomes
  <2> QED
    BY ZenonT(60), <2>2, <1>1 DEF ClockInv, Types, Up
<1>3. /\ monitor' \in Monitors /\ monitor'.effective = monitor.effective
      /\ monitor'.anchorWall = monitor.anchorWall
      /\ monitor'.anchorMono = monitor.anchorMono
      /\ \/ monitor'.persisted = monitor.persisted
         \/ committed /\ monitor'.persisted = a.cmd.replacement
  BY <1>1, <1>2, CompleteFacts
<1>4. monitor'.persisted <= store.mark
  BY ZenonT(60), <1>1, <1>3 DEF ClockInv, Covered
<1> QED
  BY ZenonT(60), <1>1, <1>3, <1>4, MonitorStep

\* The answer to a request: an uncommitted one promises nothing.
LEMMA AnswerFacts ==
  ASSUME NEW r \in ClockRequests, NEW committed \in BOOLEAN, Answer(r, committed),
         answers \subseteq Outcomes
  PROVE  /\ answers' \subseteq Outcomes
         /\ \A a \in answers' \ answers :
              r.op = "watermark" /\ a.cmd = r.cmd /\ a.committed = committed
BY DEF Answer, ClockRequests, Watermarks, AuditOnlys, Outcomes

\* A staged view is consistent, one event ahead, and covered.
LEMMA StageStep ==
  ASSUME ClockInv, NEW r \in queue, Stage(r)
  PROVE  ClockInv'
<1> USE DEF ClockInv
<1>1. /\ Up /\ txn = NoTxn /\ queue' = queue \ {r}
      /\ UNCHANGED <<monitor, monotonic, store, bootMark>>
  BY ZenonT(60) DEF Stage, process, history
<1>2. r \in ClockRequests /\ store \in Stores
  BY ZenonT(60) DEF Types
<1>3. Up' /\ Anchored'
  BY ZenonT(60), <1>1 DEF Up, Anchored, ExpectedWall
<1>4. CASE Stageable(r) /\ Appendable(r)
  <2> DEFINE v == Appended(Applied(r), r)
  <2>1. txn' = [req |-> r, view |-> v] /\ UNCHANGED answers
    BY ZenonT(60), <1>4 DEF Stage
  <2>2. CASE r.op = "watermark"
    <3>1. r \in Watermarks
      BY ZenonT(60), <1>2, <2>2 DEF ClockRequests, AuditOnlys
    <3>2. v = [store EXCEPT !.mark = r.cmd.replacement, !.generation = @ + 1,
                            !.head = NextEvent(r.time), !.delta = r.delta]
      BY <2>2, <1>2 DEF Appended, Applied, Stores
    <3>3. /\ v \in Stores /\ v.mark = r.cmd.replacement
          /\ v.generation = store.generation + 1 /\ v.delta = r.delta
          /\ v.head.sequence = store.head.sequence + 1 /\ v.head.time = r.time
      <4>1. r.cmd.replacement \in Int /\ r.time \in Int /\ r.delta \in Int \X Int
        BY ZenonT(60), <3>1 DEF Watermarks, Commands
      <4>2. /\ NextEvent(r.time) \in [sequence : Int, time : Int]
            /\ NextEvent(r.time).sequence = store.head.sequence + 1
            /\ NextEvent(r.time).time = r.time
        BY <4>1, <1>2 DEF NextEvent, Stores
      <4>3. store.generation + 1 \in Int
        BY <1>2 DEF Stores
      <4>4. v = [mark |-> r.cmd.replacement, generation |-> store.generation + 1,
                 head |-> NextEvent(r.time), delta |-> r.delta]
        BY ZenonT(30), <3>2, <1>2 DEF Stores
      <4> QED
        BY <4>1, <4>2, <4>3, <4>4 DEF Stores
    <3> HIDE DEF v
    <3>4. /\ r.cmd.replacement >= store.mark
          /\ r.delta = <<r.cmd.replacement, store.generation + 1>>
          /\ r.time >= store.head.time
      BY ZenonT(60), <1>4, <2>2 DEF Stageable, Appendable
    <3>5. Types' /\ Quiet' /\ Chained'
      BY ZenonT(60), <1>1, <1>2, <1>3, <2>1, <3>3, <3>4 DEF Types, Quiet, Chained, Transactions
    <3>6. store.mark \in Int /\ r.cmd.replacement \in Int
      BY ZenonT(60), <3>1, <1>2 DEF Stores, Watermarks, Commands
    <3>7. Covered'
      BY ZenonT(60), <1>1, <2>1, <2>2, <3>3, <3>4, <3>6 DEF Covered
    <3> QED
      BY ZenonT(60), <1>3, <3>5, <3>7
  <2>3. CASE r.op # "watermark"
    <3>1. r \in AuditOnlys
      BY ZenonT(60), <1>2, <2>3 DEF ClockRequests, Watermarks
    <3>2. v = [store EXCEPT !.head = NextEvent(r.time)]
      BY ZenonT(30), <2>3, <1>2 DEF Appended, Applied, Stores
    <3>3. /\ v \in Stores /\ v.mark = store.mark
          /\ v.generation = store.generation /\ v.delta = store.delta
          /\ v.head.sequence = store.head.sequence + 1 /\ v.head.time = r.time
      BY <3>1, <3>2, <1>2 DEF Stores, AuditOnlys, NextEvent
    <3> HIDE DEF v
    <3>4. r.time >= store.head.time
      BY ZenonT(60), <1>4 DEF Appendable
    <3>5. Types' /\ Quiet' /\ Chained'
      BY ZenonT(60), <1>1, <1>2, <1>3, <2>1, <3>3, <3>4 DEF Types, Quiet, Chained, Transactions
    <3>6. store.mark \in Int
      BY ZenonT(60), <1>2 DEF Stores
    <3>7. Covered'
      BY <1>1, <2>1, <2>3, <3>3, <3>6 DEF Covered
    <3> QED
      BY <1>3, <3>5, <3>7
  <2> QED
    BY ZenonT(60), <2>2, <2>3
<1>5. CASE ~(Stageable(r) /\ Appendable(r))
  <2>1. Answer(r, FALSE) /\ UNCHANGED txn
    BY ZenonT(30), <1>5 DEF Stage
  <2>2. /\ answers' \subseteq Outcomes
        /\ \A a \in answers' \ answers : ~a.committed
    BY ZenonT(30), <1>2, <2>1, AnswerFacts DEF Types
  <2> QED
    BY ZenonT(60), <1>1, <1>3, <2>1, <2>2 DEF Types, Quiet, Covered, Chained
<1> QED
  BY ZenonT(60), <1>4, <1>5

\* What commits was staged on the store it replaces.
LEMMA CommitStep == ClockInv /\ CommitTxn => ClockInv'
<1> SUFFICES ASSUME ClockInv, CommitTxn PROVE ClockInv'
  OBVIOUS
<1> USE DEF ClockInv
<1>1. /\ Up /\ txn # NoTxn /\ store' = txn.view /\ txn' = NoTxn
      /\ Answer(txn.req, TRUE)
      /\ UNCHANGED <<monitor, monotonic, queue, bootMark>>
  BY ZenonT(30) DEF CommitTxn, process, history
<1>2. txn \in Transactions
  BY ZenonT(60), <1>1 DEF Types
<1>3. /\ answers' \subseteq Outcomes
      /\ \A a \in answers' \ answers : txn.req.op = "watermark" /\ a.cmd = txn.req.cmd
  BY ZenonT(30), <1>1, <1>2, AnswerFacts DEF Types, Transactions
<1>4. Up' /\ Anchored'
  BY ZenonT(60), <1>1 DEF Up, Anchored, ExpectedWall
<1>5. Types' /\ Quiet' /\ Chained'
  BY ZenonT(60), <1>1, <1>2, <1>3, <1>4 DEF Types, Quiet, Chained, Transactions
<1>6. /\ store.mark \in Int /\ txn.view.mark \in Int /\ monitor.persisted \in Int
      /\ \A a \in answers : a.cmd.replacement \in Int
  <2>1. store \in Stores /\ txn.view \in Stores /\ monitor \in Monitors
        /\ \A a \in answers : a.cmd \in Commands
    BY ZenonT(60), <1>1, <1>2 DEF Types, Up, Transactions, Outcomes
  <2> QED
    BY ZenonT(60), <2>1 DEF Stores, Monitors, Commands
<1>7. Covered'
  BY <1>1, <1>3, <1>6 DEF Covered
<1> QED
  BY ZenonT(60), <1>4, <1>5, <1>7

\* A transaction that fails leaves the store as it was.
LEMMA AbortStep == ClockInv /\ AbortTxn => ClockInv'
<1> SUFFICES ASSUME ClockInv, AbortTxn PROVE ClockInv'
  OBVIOUS
<1> USE DEF ClockInv
<1>1. /\ Up /\ txn # NoTxn /\ txn' = NoTxn /\ Answer(txn.req, FALSE)
      /\ UNCHANGED <<monitor, monotonic, store, queue, bootMark>>
  BY ZenonT(30) DEF AbortTxn, process, history
<1>2. /\ answers' \subseteq Outcomes
      /\ \A a \in answers' \ answers : ~a.committed
  BY ZenonT(30), <1>1, AnswerFacts DEF Types, Transactions
<1>3. Up' /\ Anchored'
  BY ZenonT(60), <1>1 DEF Up, Anchored, ExpectedWall
<1> QED
  BY ZenonT(60), <1>1, <1>2, <1>3 DEF Types, Quiet, Covered, Chained
-----------------------------------------------------------------------------
(* The theorems.                                                           *)

\* Every step keeps the invariant.
LEMMA ClockNext == ClockInv /\ [Next]_vars => ClockInv'
<1> SUFFICES ASSUME ClockInv, [Next]_vars PROVE ClockInv'
  OBVIOUS
<1>1. ASSUME NEW wall \in (store.mark - MaxLag)..(store.mark + MaxLead),
             NEW override \in BOOLEAN, Boot(wall, override)
      PROVE  ClockInv'
  <2>1. wall \in Int
    BY BoundAssumption DEF ClockInv, Types, Stores
  <2> QED
    BY ZenonT(60), <1>1, <2>1, BootStep
<1>2. ASSUME Up, NEW wall \in Readings, ObserveClock(wall, monotonic)
      PROVE  ClockInv'
  <2>1. wall \in Int /\ monotonic \in Int /\ monotonic <= monotonic
    BY DEF Readings, ClockInv, Types
  <2> QED
    BY ZenonT(60), <1>2, <2>1, ObserveStep
<1>3. ASSUME Up, ObserveClock(ExpectedWall(monitor, monotonic), BootTime - 1)
      PROVE  ClockInv'
  <2>1. /\ ExpectedWall(monitor, monotonic) \in Int /\ BootTime - 1 \in Int
        /\ BootTime - 1 <= monotonic
    BY <1>3 DEF ExpectedWall, ClockInv, Types, Up, Monitors, Anchored, BootTime
  <2> QED
    BY ZenonT(60), <1>3, <2>1, ObserveStep
<1>4. CASE UNCHANGED vars
  BY ZenonT(60), <1>4 DEF vars, process, writer, history, ClockInv, Types, Quiet, Covered, Chained,
     Anchored, Up, ExpectedWall
<1> QED
  BY ZenonT(60), <1>1, <1>2, <1>3, <1>4, CrashStep, TickStep, PollIdleStep, ApplicationCommitStep,
     SubmitAuditOnlyStep, ReportStep, StageStep, CommitStep, AbortStep
  DEF Next

\* ClockInv holds in every reachable state.
LEMMA ClockInvariant == Spec => []ClockInv
BY ClockInit, ClockNext, PTL DEF Spec

\* What the monitor believes durable is durable and served time is never before
\* the durable mark, whatever is lost, refused, late or cut off by a crash.
THEOREM MarkIsCovered == Spec => []EffectiveCoversMark
<1>1. ClockInv => EffectiveCoversMark
  BY ZenonT(60) DEF ClockInv, Covered, EffectiveCoversMark
<1> QED
  BY <1>1, ClockInvariant, PTL

\* No wall reading beyond the tolerance ever reaches the durable mark.
THEOREM MarkIsAnchored == Spec => []NoAnomalousMark
<1>1. ClockInv => NoAnomalousMark
  <2> SUFFICES ASSUME ClockInv, Up
               PROVE  store.mark <= Larger(bootMark, ExpectedWall(monitor, monotonic) + Tolerance)
    BY ZenonT(60) DEF NoAnomalousMark
  <2>1. /\ store.mark \in Int /\ monitor.effective \in Int /\ bootMark \in Int
        /\ ExpectedWall(monitor, monotonic) + Tolerance \in Int
    BY ClockAssumption DEF ClockInv, Types, Up, Monitors, Stores, ExpectedWall
  <2> QED
    BY <2>1 DEF ClockInv, Covered, Anchored, Larger
<1> QED
  BY <1>1, ClockInvariant, PTL

\* The last state delta in the audit chain is the meta row in force.
THEOREM ChainAccounts == Spec => []ChainMatchesState
<1>1. ClockInv => ChainMatchesState
  BY ZenonT(60) DEF ClockInv, Chained, ChainMatchesState
<1> QED
  BY <1>1, ClockInvariant, PTL

\* The audit chain grows one event at a time and its times never run back.
THEOREM ChainOrdered == Spec => ChainGrowsInOrder
<1>1. ClockInv /\ [Next]_vars => [HeadAdvances]_vars
  <2> SUFFICES ASSUME ClockInv, Next PROVE HeadAdvances
    OBVIOUS
  <2>1. ASSUME NEW wall, NEW override, Boot(wall, override) PROVE HeadAdvances
    BY <2>1 DEF Boot, NextEvent, ClockInv, Types, Stores, HeadAdvances
  <2>2. CASE CommitTxn
    BY ZenonT(60), <2>2 DEF CommitTxn, ClockInv, Chained, HeadAdvances
  <2>3. CASE UNCHANGED store
    BY ZenonT(60), <2>3 DEF HeadAdvances
  <2> QED
    BY ZenonT(30), <2>1, <2>2, <2>3
    DEF Next, Crash, Tick, ObserveClock, PollIdle, ApplicationCommit, SubmitAuditOnly,
        Report, Stage, AbortTxn
<1> QED
  BY <1>1, ClockInvariant, PTL DEF Spec, ChainGrowsInOrder

-----------------------------------------------------------------------------
-----------------------------------------------------------------------------
(* The data directory.                                                     *)

Disk == [store : {"absent", "uncommitted", "committed"}, foreign : BOOLEAN, verifier : Nat,
         lifecycle : {"ready", "migrating"}, marker : {"none", "operation"},
         anchor : BOOLEAN, reserve : {"healthy", "released"},
         commits : Nat, cleanAt : Nat, clean : BOOLEAN]

Process == [at : {"none", "init", "serve", "offline", "prepared", "disclosed", "created",
                  "serving", "draining", "drained", "closing"},
            credential : Nat, begun : Nat, anchor : BOOLEAN]

NodeType ==
  /\ disk \in Disk /\ owner \in Procs \cup {Nobody}
  /\ procs \in [Procs -> Process] /\ generated \in Nat

\* What is known of a process from where it is: only the holder of the lock is anywhere, what
\* it has disclosed was received, and what it admitted still holds.
ProcessOK(p) ==
  /\ procs[p].at # "none" => owner = p
  /\ procs[p].begun > 0 => procs[p].at \in {"serving", "draining"}
  /\ procs[p].at \in {"disclosed", "created"} => procs[p].credential \in received
  /\ procs[p].at \in {"serving", "draining", "drained"} => ~disk.clean
  /\ procs[p].at \in {"serving", "draining", "drained", "closing"} =>
       disk.lifecycle = "ready" /\ disk.marker = "none" /\ procs[p].anchor = disk.anchor

NodeInv ==
  /\ NodeType
  /\ \A p \in Procs : ProcessOK(p)
  /\ CommittedCredentialDisclosed /\ CleanMeansQuiet

\* A step of the lock's holder that leaves the disk alone.
LEMMA NodeSameDisk ==
  ASSUME NodeInv, NEW p \in Procs, NEW x \in Process,
         owner \in {p, Nobody}, owner' = p \/ (owner' = Nobody /\ x = NoProcess),
         procs' = [procs EXCEPT ![p] = x],
         disk' = disk, generated' \in Nat, received \subseteq received',
         x.begun > 0 => x.at \in {"serving", "draining"},
         x.at \in {"disclosed", "created"} => x.credential \in received',
         x.at \in {"serving", "draining", "drained"} => ~disk.clean,
         x.at \in {"serving", "draining", "drained", "closing"} =>
           disk.lifecycle = "ready" /\ disk.marker = "none" /\ x.anchor = disk.anchor
  PROVE  NodeInv'
<1>1. NodeType'
  BY DEF NodeInv, NodeType
<1>2. ASSUME NEW q \in Procs PROVE ProcessOK(q)'
  <2>1. CASE q = p
    BY <2>1 DEF NodeInv, NodeType, ProcessOK, NoProcess
  <2>2. CASE q # p
    <3>1. procs'[q] = procs[q] /\ procs[q].at = "none"
      BY <2>2, NodeBounds DEF NodeInv, NodeType, ProcessOK
    <3>2. procs[q].begun \in Nat /\ ~(procs[q].begun > 0)
      BY ZenonT(60), <3>1 DEF NodeInv, NodeType, ProcessOK, Process
    <3> QED BY ZenonT(60), <3>1, <3>2 DEF ProcessOK
  <2> QED BY <2>1, <2>2
<1>3. (CommittedCredentialDisclosed /\ CleanMeansQuiet)'
  BY DEF NodeInv, CommittedCredentialDisclosed, CleanMeansQuiet
<1> QED BY ZenonT(60), <1>1, <1>2, <1>3 DEF NodeInv

\* Where nobody is, nothing is under way.
LEMMA NodeElsewhere ==
  ASSUME NodeInv, NEW p \in Procs, procs[p].at # "none", NEW q \in Procs, q # p
  PROVE  owner = p /\ procs[q].at = "none" /\ ~(procs[q].begun > 0)
BY NodeBounds DEF NodeInv, NodeType, ProcessOK, Process

\* A step of the lock's holder that writes the disk.
LEMMA NodeWritesDisk ==
  ASSUME NodeInv, NEW p \in Procs, procs[p].at # "none", NEW x \in Process,
         owner' = p \/ (owner' = Nobody /\ x = NoProcess),
         procs' = [procs EXCEPT ![p] = x],
         disk' \in Disk, generated' = generated, received' = received,
         disk'.store = "committed" => disk'.verifier \in received,
         disk'.clean => disk'.commits = disk'.cleanAt,
         x.begun > 0 => x.at \in {"serving", "draining"},
         x.at \in {"disclosed", "created"} => x.credential \in received,
         x.at \in {"serving", "draining", "drained"} => ~disk'.clean,
         x.at \in {"serving", "draining", "drained", "closing"} =>
           disk'.lifecycle = "ready" /\ disk'.marker = "none" /\ x.anchor = disk'.anchor
  PROVE  NodeInv'
<1>1. NodeType'
  BY DEF NodeInv, NodeType
<1>2. ASSUME NEW q \in Procs PROVE ProcessOK(q)'
  <2>1. CASE q = p
    BY <2>1 DEF NodeInv, NodeType, ProcessOK, NoProcess
  <2>2. CASE q # p
    BY ZenonT(60), <2>2, NodeElsewhere DEF NodeInv, NodeType, ProcessOK
  <2> QED BY <2>1, <2>2
<1>3. (CommittedCredentialDisclosed /\ CleanMeansQuiet)'
  BY DEF CommittedCredentialDisclosed, CleanMeansQuiet
<1> QED BY <1>1, <1>2, <1>3 DEF NodeInv

\* A process that exits, by itself or killed, takes the lock with it and leaves the rest true.
LEMMA NodeExits ==
  ASSUME NodeInv, NEW p \in Procs, procs[p].at # "none", Exits(p),
         disk' \in Disk, generated' = generated, received' = received,
         disk'.store = "committed" => disk'.verifier \in received,
         disk'.clean => disk'.commits = disk'.cleanAt
  PROVE  NodeInv'
<1>1. NoProcess \in Process /\ ~(NoProcess.begun > 0) /\ NoProcess.at = "none"
  BY DEF NoProcess, Process
<1>2. owner' = Nobody /\ procs' = [procs EXCEPT ![p] = NoProcess]
  BY ZenonT(60) DEF Exits, NodeInv, ProcessOK
<1> QED BY ZenonT(60), <1>1, <1>2, NodeWritesDisk

\* The facts of the invariant about the acting process and the disk.
LEMMA NodeFacts ==
  ASSUME NodeInv, NEW p \in Procs
  PROVE  /\ disk \in Disk /\ procs[p] \in Process /\ generated \in Nat
         /\ procs \in [Procs -> Process]
         /\ disk.store = "committed" => disk.verifier \in received
         /\ disk.clean => disk.commits = disk.cleanAt
         /\ procs[p].at # "none" => owner = p
         /\ procs[p].begun > 0 => procs[p].at \in {"serving", "draining"}
         /\ procs[p].at \in {"disclosed", "created"} => procs[p].credential \in received
         /\ procs[p].at \in {"serving", "draining", "drained"} => ~disk.clean
         /\ procs[p].at \in {"serving", "draining", "drained", "closing"} =>
              disk.lifecycle = "ready" /\ disk.marker = "none" /\ procs[p].anchor = disk.anchor
BY ZenonT(60) DEF NodeInv, NodeType, ProcessOK, CommittedCredentialDisclosed, CleanMeansQuiet

\* Moving to another place: the disk stays, or is written.
LEMMA NodeMoves ==
  ASSUME NodeInv, NEW p \in Procs, procs[p].at # "none",
         NEW place \in {"init", "serve", "offline", "prepared", "disclosed", "created",
                        "serving", "draining", "drained", "closing"},
         At(p, place), owner' = owner, disk' \in Disk, generated' = generated, received' = received,
         disk'.store = "committed" => disk'.verifier \in received,
         disk'.clean => disk'.commits = disk'.cleanAt,
         procs[p].begun > 0 => place \in {"serving", "draining"},
         place \in {"disclosed", "created"} => procs[p].credential \in received,
         place \in {"serving", "draining", "drained"} => ~disk'.clean,
         place \in {"serving", "draining", "drained", "closing"} =>
           disk'.lifecycle = "ready" /\ disk'.marker = "none" /\ procs[p].anchor = disk'.anchor
  PROVE  NodeInv'
<1> DEFINE x == [procs[p] EXCEPT !.at = place]
<1>0. procs \in [Procs -> Process] /\ owner = p
  BY ZenonT(60), NodeFacts
<1>1. /\ x \in Process /\ x.at = place /\ x.begun = procs[p].begun
      /\ x.credential = procs[p].credential /\ x.anchor = procs[p].anchor
  BY <1>0 DEF Process
<1>2. procs' = [procs EXCEPT ![p] = x]
  BY <1>0 DEF At
<1> HIDE DEF x
<1> QED BY ZenonT(60), <1>0, <1>1, <1>2, NodeWritesDisk

\* Initialization: the credential is received before the store is committed with it.
LEMMA InitSteps ==
  ASSUME NodeInv, NEW p \in Procs,
         \/ InspectInit(p) \/ (\E f \in BOOLEAN : ShowCredential(p, f))
         \/ CreateFile(p) \/ CommitInit(p)
  PROVE  NodeInv'
<1> USE NodeFacts
<1>1. CASE InspectInit(p)
  <2>1. CASE disk.foreign \/ disk.store = "committed"
    BY ZenonT(60), <1>1, <2>1, NodeExits DEF InspectInit
  <2>2. CASE ~(disk.foreign \/ disk.store = "committed")
    <3> DEFINE y == [procs[p] EXCEPT !.at = "prepared"]
               x == [y EXCEPT !.credential = generated + 1]
    <3>0. generated' = generated + 1 /\ generated + 1 \in Nat /\ owner' = owner /\ owner = p
      BY <1>1, <2>2 DEF InspectInit
    <3>1. /\ procs' = [procs EXCEPT ![p] = x]
          /\ generated' \in Nat /\ disk' = disk /\ received' = received
      BY ZenonT(60), <1>1, <2>2, <3>0 DEF InspectInit
    <3>4. y \in Process /\ y.at = "prepared" /\ y.begun = procs[p].begun
      BY DEF Process
    <3> HIDE DEF y
    <3>2. x \in Process /\ x.at = "prepared" /\ x.begun = procs[p].begun
      BY ZenonT(60), <3>0, <3>4 DEF Process
    <3>3. ~(x.begun > 0)
      BY ZenonT(60), <1>1, <3>2 DEF InspectInit
    <3> HIDE DEF x
    <3> QED BY ZenonT(60), <3>0, <3>1, <3>2, <3>3, NodeSameDisk
  <2> QED BY ZenonT(60), <2>1, <2>2
<1>2. ASSUME NEW f \in BOOLEAN, ShowCredential(p, f) PROVE NodeInv'
  <2>1. CASE f
    <3> DEFINE x == [procs[p] EXCEPT !.at = "disclosed"]
    <3>1. /\ procs' = [procs EXCEPT ![p] = x] /\ owner' = owner /\ owner = p
          /\ generated' = generated /\ disk' = disk
          /\ received' = received \cup {procs[p].credential}
      BY ZenonT(60), <1>2, <2>1 DEF ShowCredential, At
    <3>2. /\ x \in Process /\ x.at = "disclosed" /\ x.begun = procs[p].begun
          /\ x.credential = procs[p].credential
      BY ZenonT(60) DEF Process
    <3>3. ~(x.begun > 0)
      BY ZenonT(60), <1>2, <3>2 DEF ShowCredential
    <3> HIDE DEF x
    <3> QED BY ZenonT(60), <3>1, <3>2, <3>3, NodeSameDisk
  <2>2. CASE ~f
    BY ZenonT(60), <1>2, <2>2, NodeExits DEF ShowCredential
  <2> QED BY <2>1, <2>2
<1>3. CASE CreateFile(p)
  <2>1. /\ disk' \in Disk /\ disk'.verifier = disk.verifier /\ disk'.clean = disk.clean
        /\ disk'.commits = disk.commits /\ disk'.cleanAt = disk.cleanAt
        /\ disk'.store = "committed" => disk.store = "committed"
    BY ZenonT(60), <1>3 DEF CreateFile, Disk
  <2> QED BY ZenonT(60), <1>3, <2>1, NodeMoves DEF CreateFile
<1>4. CASE CommitInit(p)
  <2>1. /\ disk' \in Disk /\ disk'.clean = disk.clean
        /\ disk'.commits = disk.commits /\ disk'.cleanAt = disk.cleanAt
        /\ disk'.store = "committed" => disk'.verifier \in received
    BY ZenonT(60), <1>4 DEF CommitInit, Disk, Process
  <2> QED BY ZenonT(60), <1>4, <2>1, NodeExits DEF CommitInit
<1> QED BY ZenonT(60), <1>1, <1>2, <1>3, <1>4

\* Serving and shutdown: the marker is set when nothing is under way.
LEMMA ServeSteps ==
  ASSUME NodeInv, NEW p \in Procs,
         \/ (\E sound \in BOOLEAN : Start(p, sound))
         \/ (\E o \in {"normal_traffic", "bulk_rewrite"} : BeginWork(p, o))
         \/ CommitWork(p)
         \/ Signal(p) \/ DrainBegun(p) \/ CommitUnsignedShutdown(p) \/ CloseStore(p) \/ GiveUp(p)
  PROVE  NodeInv'
<1> USE NodeFacts
<1>1. ASSUME NEW sound \in BOOLEAN, Start(p, sound) PROVE NodeInv'
  <2>1. CASE Admitted(p, sound)
    <3> DEFINE x == [procs[p] EXCEPT !.at = "serving", !.anchor = disk.anchor]
    <3>1. /\ procs' = [procs EXCEPT ![p] = x] /\ owner' = owner /\ owner = p
          /\ generated' = generated /\ received' = received
          /\ disk' = [disk EXCEPT !.clean = FALSE]
          /\ disk.lifecycle = "ready" /\ disk.marker = "none"
      BY ZenonT(60), <1>1, <2>1 DEF Start, Admitted
    <3>2. disk' \in Disk /\ disk'.clean = FALSE /\ disk'.store = disk.store
          /\ disk'.verifier = disk.verifier /\ disk'.lifecycle = disk.lifecycle
          /\ disk'.marker = disk.marker /\ disk'.anchor = disk.anchor
      BY ZenonT(60), <3>1 DEF Disk
    <3>3. x \in Process /\ x.at = "serving" /\ x.anchor = disk.anchor
      BY ZenonT(60) DEF Process, Disk
    <3>4. procs[p].at # "none"
      BY ZenonT(60), <1>1 DEF Start
    <3> HIDE DEF x
    <3> QED BY ZenonT(60), <3>1, <3>2, <3>3, <3>4, NodeWritesDisk
  <2>2. CASE ~Admitted(p, sound)
    BY ZenonT(60), <1>1, <2>2, NodeExits DEF Start
  <2> QED BY ZenonT(60), <2>1, <2>2
<1>2. ASSUME NEW o, BeginWork(p, o) PROVE NodeInv'
  <2> DEFINE x == [procs[p] EXCEPT !.begun = @ + 1]
  <2>1. procs' = [procs EXCEPT ![p] = x] /\ procs[p].at = "serving" /\ owner' = owner
        /\ UNCHANGED <<disk, generated, received>>
    BY ZenonT(60), <1>2 DEF BeginWork
  <2>2. x \in Process /\ x.at = procs[p].at /\ x.anchor = procs[p].anchor
    BY DEF Process
  <2> HIDE DEF x
  <2> QED BY ZenonT(60), <2>1, <2>2, NodeSameDisk
<1>3. CASE CommitWork(p)
  <2> DEFINE x == [procs[p] EXCEPT !.begun = @ - 1]
  <2>1. procs' = [procs EXCEPT ![p] = x] /\ procs[p].begun > 0 /\ owner' = owner
        /\ UNCHANGED <<generated, received>>
    BY ZenonT(60), <1>3 DEF CommitWork
  <2>2. procs[p].at \in {"serving", "draining"}
    BY ZenonT(60), <2>1
  <2>3. x \in Process /\ x.at = procs[p].at /\ x.anchor = procs[p].anchor
    BY <2>1 DEF Process
  <2>4. disk' \in Disk /\ disk'.clean = disk.clean /\ disk'.store = disk.store
        /\ disk'.verifier = disk.verifier /\ disk'.lifecycle = disk.lifecycle
        /\ disk'.marker = disk.marker /\ disk'.anchor = disk.anchor
    BY <1>3 DEF CommitWork, Disk
  <2> HIDE DEF x
  <2> QED BY ZenonT(60), <2>1, <2>2, <2>3, <2>4, NodeWritesDisk
<1>4. CASE Signal(p)
  BY ZenonT(60), <1>4, NodeMoves DEF Signal
<1>5. CASE DrainBegun(p)
  <2>1. ~(procs[p].begun > 0)
    BY <1>5 DEF DrainBegun, Drained
  <2> QED BY ZenonT(60), <1>5, <2>1, NodeMoves DEF DrainBegun
<1>6. CASE CommitUnsignedShutdown(p)
  <2>1. /\ disk' \in Disk /\ disk'.store = disk.store /\ disk'.verifier = disk.verifier
        /\ disk'.commits = disk'.cleanAt /\ disk'.lifecycle = disk.lifecycle
        /\ disk'.marker = disk.marker /\ disk'.anchor = disk.anchor
    BY ZenonT(60), <1>6 DEF CommitUnsignedShutdown, Disk
  <2> QED BY <1>6, <2>1, NodeMoves DEF CommitUnsignedShutdown
<1>7. CASE CloseStore(p)
  BY ZenonT(60), <1>7, NodeExits DEF CloseStore
<1>8. CASE GiveUp(p)
  <2>1. /\ disk' \in Disk /\ disk'.store = disk.store /\ disk'.verifier = disk.verifier
        /\ ~disk'.clean
    BY ZenonT(60), <1>8 DEF GiveUp, Disk
  <2> QED BY ZenonT(60), <1>8, <2>1, NodeExits DEF GiveUp
<1> QED BY ZenonT(60), <1>1, <1>2, <1>3, <1>4, <1>5, <1>6, <1>7, <1>8

\* Every step keeps the invariant.
LEMMA NodeStep == NodeInv /\ [NodeNext]_nodeVars => NodeInv'
<1> SUFFICES ASSUME NodeInv, [NodeNext]_nodeVars PROVE NodeInv'
  OBVIOUS
<1>1. ASSUME NEW p \in Procs, NodeSteps(p) PROVE NodeInv'
  <2> USE NodeFacts
  <2>1. ASSUME NEW role \in {"init", "serve", "offline"}, Acquire(p, role) PROVE NodeInv'
    <3> DEFINE x == [procs[p] EXCEPT !.at = role]
    <3>1. /\ procs' = [procs EXCEPT ![p] = x] /\ owner' = p /\ owner = Nobody
          /\ UNCHANGED <<disk, generated, received>> /\ procs[p].at = "none"
      BY ZenonT(60), <2>1 DEF Acquire, At
    <3>2. x \in Process /\ x.at = role /\ x.begun = procs[p].begun
      BY ZenonT(60) DEF Process
    <3>3. ~(x.begun > 0)
      BY ZenonT(60), <3>1, <3>2
    <3> HIDE DEF x
    <3> QED BY ZenonT(60), <3>1, <3>2, <3>3, NodeSameDisk
  <2>2. CASE OfflineStep(p)
    <3>1. PICK l \in {"ready", "migrating"}, m \in {"none", "operation"}, a \in BOOLEAN,
               r \in {"healthy", "released"} :
            disk' = [disk EXCEPT !.lifecycle = l, !.marker = m, !.anchor = a, !.reserve = r]
      BY ZenonT(60), <2>2 DEF OfflineStep
    <3>2. disk' \in Disk /\ disk'.clean = disk.clean /\ disk'.store = disk.store
          /\ disk'.verifier = disk.verifier /\ disk'.commits = disk.commits
          /\ disk'.cleanAt = disk.cleanAt
      BY ZenonT(60), <3>1 DEF Disk
    <3>3. procs' = [procs EXCEPT ![p] = procs[p]] /\ procs[p].at = "offline" /\ owner' = owner
          /\ UNCHANGED <<generated, received>>
      BY ZenonT(60), <2>2 DEF OfflineStep
    <3> QED BY ZenonT(60), <3>2, <3>3, NodeWritesDisk
  <2>3. CASE OfflineEnds(p) \/ Dies(p)
    BY ZenonT(60), <2>3, NodeExits DEF OfflineEnds, Dies
  <2> QED BY ZenonT(60), <1>1, <2>1, <2>2, <2>3, InitSteps, ServeSteps DEF NodeSteps
<1>2. CASE ForeignFile
  <2>1. disk \in Disk
    BY DEF NodeInv, NodeType
  <2>2. /\ disk' \in Disk /\ disk'.clean = disk.clean /\ disk'.store = disk.store
        /\ disk'.verifier = disk.verifier /\ disk'.commits = disk.commits
        /\ disk'.cleanAt = disk.cleanAt /\ disk'.lifecycle = disk.lifecycle
        /\ disk'.marker = disk.marker /\ disk'.anchor = disk.anchor
    BY ZenonT(60), <1>2, <2>1 DEF ForeignFile, Disk
  <2>3. UNCHANGED <<owner, procs, generated, received>>
    BY <1>2 DEF ForeignFile
  <2> QED BY ZenonT(60), <2>2, <2>3 DEF NodeInv, NodeType, ProcessOK, CommittedCredentialDisclosed,
                            CleanMeansQuiet
<1>3. CASE UNCHANGED nodeVars
  BY ZenonT(60), <1>3 DEF nodeVars, NodeInv, NodeType, ProcessOK, CommittedCredentialDisclosed, CleanMeansQuiet
<1> QED BY <1>1, <1>2, <1>3 DEF NodeNext

\* The directory tells the truth whatever process stops where.
THEOREM NodeDirectory == NodeSpec => []DirectoryIsTruthful
<1>1. ASSUME NodeInit PROVE NodeInv
  <2>1. EmptyDisk \in Disk /\ EmptyDisk.store = "absent" /\ ~EmptyDisk.clean
    BY ZenonT(60) DEF EmptyDisk, Disk
  <2>2. NoProcess \in Process /\ NoProcess.at = "none" /\ ~(NoProcess.begun > 0)
    BY DEF NoProcess, Process
  <2> QED BY ZenonT(60), <1>1, <2>1, <2>2 DEF NodeInit, NodeInv, NodeType, ProcessOK,
                                  CommittedCredentialDisclosed, CleanMeansQuiet
<1>2. NodeInv => DirectoryIsTruthful
  BY ZenonT(60) DEF NodeInv, DirectoryIsTruthful, ServingIsAdmitted, ProcessOK
<1> QED BY <1>1, <1>2, NodeStep, PTL DEF NodeSpec
=============================================================================
