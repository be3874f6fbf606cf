--------------------------- MODULE ExecutorProofs ---------------------------
(***************************************************************************)
(* The storage executor, for every set of submission slots, every capacity *)
(* and every weight: type correctness, the answers its submitters get, one *)
(* clock watermark in flight at a time with every path giving the gate     *)
(* back, and that the lanes, the writer thread and its submitters          *)
(* implement SerialWriter.                                                 *)
(*                                                                         *)
(* The promises are not inductive.  They rest on AnswerInv, which ties     *)
(* what a submitter waits for to where its submission is.  The refinement  *)
(* takes two more facts: a reply is sent only after its result is          *)
(* published (Published), and no submission is under way once admission is *)
(* stopped (NoLateSubmit).                                                 *)
(***************************************************************************)
EXTENDS StorageExecutor, TLAPS

\* The writer's steps at which it holds a message.
HoldingSteps == {"selected", "ready", "executing", "publish", "reply", "replied",
                 "settle", "release"}

Holding == /\ current # NoCommand <=> pc \in HoldingSteps
           /\ pc \in {"publish", "reply"} => result # "none"

\* Every message is in its own lane, once, and not also with the writer.
Distinct ==
  /\ \A l \in Lane : \A i \in 1..Len(queue[l]) :
       LaneOf(queue[l][i]) = l /\ queue[l][i] # current
  /\ \A l \in Lane : \A i, j \in 1..Len(queue[l]) :
       queue[l][i] = queue[l][j] => i = j

-----------------------------------------------------------------------------
(* Lanes.                                                                  *)

\* Every slot has a lane.
LEMMA LaneOfType == \A c : LaneOf(c) \in Lane
BY ZenonT(60) DEF LaneOf, Lane

\* When nothing moves in or out of the lanes, nothing changes there.
LEMMA SameQueue ==
  ASSUME queue' = queue
  PROVE  /\ \A c : Queued(c)' <=> Queued(c)
         /\ (Distinct /\ (current' = current \/ current' = NoCommand)
               /\ TypeOK /\ NoCommand \notin Command) => Distinct'
<1>1. \A c : Queued(c)' <=> Queued(c)
  BY DEF Queued
<1>2. ASSUME Distinct, current' = current \/ current' = NoCommand, TypeOK,
             NoCommand \notin Command
      PROVE  Distinct'
  BY <1>2 DEF Distinct, TypeOK, LaneOf
<1> QED BY <1>1, <1>2

\* Emptied lanes hold nothing.
LEMMA EmptyQueue ==
  ASSUME queue' = [l \in Lane |-> <<>>]
  PROVE  (\A c : ~Queued(c)') /\ Distinct'
BY DEF Queued, Distinct

\* An accepted message is in its lane, beside what was there.
LEMMA AcceptQueue ==
  ASSUME TypeOK, Distinct, NEW c \in Command, ~Queued(c), current # c,
         current' = current,
         queue' = [queue EXCEPT ![LaneOf(c)] = Append(@, c)]
  PROVE  Distinct' /\ \A d : Queued(d)' <=> (Queued(d) \/ d = c)
<1> DEFINE m == LaneOf(c)
<1>m. m \in Lane
  BY ZenonT(60), LaneOfType
<1>t. queue \in [Lane -> Seq(Command)]
  BY ZenonT(60) DEF TypeOK
<1>1. \A l \in Lane \ {m} : queue'[l] = queue[l]
  BY ZenonT(60), <1>t, <1>m
<1>2. /\ Len(queue[m]) \in Nat /\ Len(queue'[m]) = Len(queue[m]) + 1
      /\ queue'[m][Len(queue[m]) + 1] = c
      /\ \A i \in 1..Len(queue[m]) : queue'[m][i] = queue[m][i]
  BY <1>t, <1>m
<1> HIDE DEF m
<1>n. \A i \in 1..Len(queue[m]) : queue[m][i] # c
  BY ZenonT(60), <1>m DEF Queued
<1>3. \A d : Queued(d)' <=> (Queued(d) \/ d = c)
  <2>1. ASSUME NEW d, Queued(d)' PROVE Queued(d) \/ d = c
    <3>1. PICK l \in Lane : \E i \in 1..Len(queue'[l]) : queue'[l][i] = d
      BY ZenonT(60), <2>1 DEF Queued
    <3>2. CASE l = m
      BY <1>2, <3>1, <3>2, <1>m DEF Queued
    <3>3. CASE l # m
      BY <1>1, <3>1, <3>3 DEF Queued
    <3> QED BY ZenonT(60), <3>2, <3>3
  <2>2. ASSUME NEW d, Queued(d) PROVE Queued(d)'
    <3>1. PICK l \in Lane : \E i \in 1..Len(queue[l]) : queue[l][i] = d
      BY ZenonT(60), <2>2 DEF Queued
    <3>2. CASE l = m
      <4>1. PICK i \in 1..Len(queue[m]) : queue[m][i] = d
        BY ZenonT(60), <3>1, <3>2
      <4>2. i \in 1..Len(queue'[m]) /\ queue'[m][i] = d
        BY <4>1, <1>2
      <4> QED BY ZenonT(60), <4>2, <1>m DEF Queued
    <3>3. CASE l # m
      BY <1>1, <3>1, <3>3 DEF Queued
    <3> QED BY ZenonT(60), <3>2, <3>3
  <2>3. Queued(c)'
    <3>1. Len(queue[m]) + 1 \in 1..Len(queue'[m])
      BY <1>2
    <3> QED BY ZenonT(60), <3>1, <1>2, <1>m DEF Queued
  <2> QED BY ZenonT(60), <2>1, <2>2, <2>3
<1>4. ASSUME NEW l \in Lane, NEW i \in 1..Len(queue'[l])
      PROVE  LaneOf(queue'[l][i]) = l /\ queue'[l][i] # current
  <2>1. CASE l = m
    BY <2>1, <1>2, <1>m DEF Distinct, m
  <2>2. CASE l # m
    BY <2>2, <1>1 DEF Distinct
  <2> QED BY ZenonT(60), <2>1, <2>2
<1>5. ASSUME NEW l \in Lane, NEW i \in 1..Len(queue'[l]), NEW j \in 1..Len(queue'[l]),
             queue'[l][i] = queue'[l][j]
      PROVE  i = j
  <2>1. CASE l = m
    <3>1. CASE i \in 1..Len(queue[m]) /\ j \in 1..Len(queue[m])
      BY <2>1, <3>1, <1>5, <1>2, <1>m DEF Distinct
    <3>2. CASE i = Len(queue[m]) + 1
      BY <2>1, <3>2, <1>5, <1>2, <1>n
    <3>3. CASE j = Len(queue[m]) + 1
      BY <2>1, <3>3, <1>5, <1>2, <1>n
    <3> QED BY <2>1, <3>1, <3>2, <3>3, <1>2
  <2>2. CASE l # m
    BY ZenonT(60), <2>2, <1>1, <1>5 DEF Distinct
  <2> QED BY ZenonT(60), <2>1, <2>2
<1>6. Distinct'
  BY ZenonT(60), <1>4, <1>5 DEF Distinct
<1> QED BY ZenonT(60), <1>3, <1>6

\* The writer takes the first message of a lane: it is nowhere else.
LEMMA RecvQueue ==
  ASSUME TypeOK, Distinct, NEW m \in Lane, queue[m] # <<>>,
         current' = Head(queue[m]),
         queue' = [queue EXCEPT ![m] = Tail(@)]
  PROVE  /\ Distinct' /\ current' \in Command /\ Queued(current')
         /\ \A d : Queued(d)' <=> (Queued(d) /\ d # current')
<1>t. queue \in [Lane -> Seq(Command)]
  BY ZenonT(60) DEF TypeOK
<1>1. \A l \in Lane \ {m} : queue'[l] = queue[l]
  BY <1>t
<1>2. /\ Len(queue[m]) \in Nat \ {0} /\ Len(queue'[m]) = Len(queue[m]) - 1
      /\ current' = queue[m][1] /\ current' \in Command
      /\ \A i \in 1..(Len(queue[m]) - 1) : queue'[m][i] = queue[m][i + 1]
  BY <1>t
<1>3. \A l \in Lane : \A i \in 1..Len(queue[l]) : LaneOf(queue[l][i]) = l
  BY ZenonT(60) DEF Distinct
<1>4. ASSUME NEW l \in Lane, NEW i \in 1..Len(queue[l]), queue[l][i] = current'
      PROVE  l = m /\ i = 1
  <2>1. LaneOf(queue[m][1]) = m
    BY <1>2, <1>3
  <2>2. l = m
    BY <1>2, <1>3, <1>4, <2>1
  <2> QED BY <2>2, <1>2, <1>4 DEF Distinct
<1>5. Queued(current')
  BY <1>2 DEF Queued
<1>6. ASSUME NEW d, Queued(d)' PROVE Queued(d) /\ d # current'
  <2>1. PICK l \in Lane : \E i \in 1..Len(queue'[l]) : queue'[l][i] = d
    BY ZenonT(60), <1>6 DEF Queued
  <2>2. PICK i \in 1..Len(queue'[l]) : queue'[l][i] = d
    BY ZenonT(60), <2>1
  <2>3. CASE l = m
    <3>1. i + 1 \in 1..Len(queue[m]) /\ queue[m][i + 1] = d /\ i + 1 # 1
      BY <2>2, <2>3, <1>2
    <3> QED BY ZenonT(60), <3>1, <1>4 DEF Queued
  <2>4. CASE l # m
    <3>1. i \in 1..Len(queue[l]) /\ queue[l][i] = d
      BY ZenonT(60), <2>2, <2>4, <1>1
    <3> QED BY ZenonT(60), <3>1, <2>4, <1>4 DEF Queued
  <2> QED BY ZenonT(60), <2>3, <2>4
<1>7. ASSUME NEW d, Queued(d), d # current' PROVE Queued(d)'
  <2>1. PICK l \in Lane : \E i \in 1..Len(queue[l]) : queue[l][i] = d
    BY ZenonT(60), <1>7 DEF Queued
  <2>2. PICK i \in 1..Len(queue[l]) : queue[l][i] = d
    BY ZenonT(60), <2>1
  <2>3. CASE l = m
    <3>1. i - 1 \in 1..Len(queue'[m]) /\ queue'[m][i - 1] = d
      BY <2>2, <2>3, <1>2, <1>7
    <3> QED BY ZenonT(60), <3>1 DEF Queued
  <2>4. CASE l # m
    BY ZenonT(60), <2>2, <2>4, <1>1 DEF Queued
  <2> QED BY ZenonT(60), <2>3, <2>4
<1>8. ASSUME NEW l \in Lane, NEW i \in 1..Len(queue'[l])
      PROVE  LaneOf(queue'[l][i]) = l /\ queue'[l][i] # current'
  <2>1. CASE l = m
    <3>1. i + 1 \in 1..Len(queue[m]) /\ queue'[m][i] = queue[m][i + 1] /\ i + 1 # 1
      BY <2>1, <1>2
    <3> QED BY <2>1, <3>1, <1>3, <1>4
  <2>2. CASE l # m
    BY <2>2, <1>1, <1>3, <1>4
  <2> QED BY ZenonT(60), <2>1, <2>2
<1>9. ASSUME NEW l \in Lane, NEW i \in 1..Len(queue'[l]), NEW j \in 1..Len(queue'[l]),
             queue'[l][i] = queue'[l][j]
      PROVE  i = j
  <2>1. CASE l = m
    <3>1. /\ i + 1 \in 1..Len(queue[m]) /\ queue'[m][i] = queue[m][i + 1]
          /\ j + 1 \in 1..Len(queue[m]) /\ queue'[m][j] = queue[m][j + 1]
      BY <2>1, <1>2
    <3>2. i + 1 = j + 1
      BY <2>1, <3>1, <1>9 DEF Distinct
    <3> QED BY <2>1, <3>2, <1>2
  <2>2. CASE l # m
    BY ZenonT(60), <2>2, <1>1, <1>9 DEF Distinct
  <2> QED BY ZenonT(60), <2>1, <2>2
<1> QED BY ZenonT(60), <1>2, <1>5, <1>6, <1>7, <1>8, <1>9 DEF Distinct, LaneOf
-----------------------------------------------------------------------------
(* Types.                                                                  *)

\* Cancelling everything keeps the types.
LEMMA CancelAllType ==
  ASSUME TypeOK, CancelAll
  PROVE  /\ queue' \in [Lane -> Seq(Command)] /\ current' = NoCommand
         /\ state' \in [Command -> {"Unused", "Accepted", "Cancelled", "Started",
                                    "Committed", "Aborted", "Replied"}]
         /\ pending' \in BOOLEAN /\ deadline' \in {"none", "armed", "passed"}
<1> DEFINE doomed == {c \in Command : Queued(c) \/ current = c}
<1>1. queue' = [l \in Lane |-> <<>>] /\ current' = NoCommand
  BY ZenonT(60) DEF CancelAll
<1>2. state' = [c \in Command |-> IF c \in doomed THEN "Cancelled" ELSE state[c]]
  BY ZenonT(60) DEF CancelAll
<1>3. \/ pending' = FALSE /\ deadline' = "none"
      \/ pending' = pending /\ deadline' = deadline
  BY ZenonT(60) DEF CancelAll, gateVars
<1> HIDE DEF doomed
<1>4. state' \in [Command -> {"Unused", "Accepted", "Cancelled", "Started",
                              "Committed", "Aborted", "Replied"}]
  BY ZenonT(60), <1>2 DEF TypeOK
<1>5. pending' \in BOOLEAN /\ deadline' \in {"none", "armed", "passed"}
  <2>1. CASE pending' = FALSE /\ deadline' = "none"
    BY ZenonT(60), <2>1
  <2>2. CASE pending' = pending /\ deadline' = deadline
    BY ZenonT(60), <2>2 DEF TypeOK
  <2> QED BY ZenonT(60), <1>3, <2>1, <2>2
<1> QED BY <1>1, <1>4, <1>5

\* A watermark's submission or message gives the gate back, or keeps it shut.
LEMMA GiveBackGateType ==
  ASSUME TypeOK, NEW c, GiveBackGate(c)
  PROVE  pending' \in BOOLEAN /\ deadline' \in {"none", "armed", "passed"}
BY ZenonT(60) DEF TypeOK, GiveBackGate, gateVars

\* Every step keeps the types, and the writer's step tells whether it holds a
\* message.
LEMMA TypeStep == TypeOK /\ Holding /\ [Next]_vars => TypeOK' /\ Holding'
<1> SUFFICES ASSUME TypeOK, Holding, [Next]_vars PROVE TypeOK' /\ Holding'
  OBVIOUS
<1> USE ConfigAssumption DEF Holding, HoldingSteps, submitVars, gateVars, flagVars,
        writerVars, auditVars
<1>1. ASSUME NEW c \in Command, Submitter(c) PROVE TypeOK' /\ Holding'
  <2>1. CASE GateBegin(c)
    <3>1. CASE pending
      BY ZenonT(60), <2>1, <3>1 DEF TypeOK, GateBegin, Done
    <3>2. CASE ~pending
      BY <2>1, <3>2 DEF TypeOK, GateBegin, Goto
    <3> QED BY ZenonT(60), <3>1, <3>2
  <2>2. CASE GateArm(c)
    BY <2>2 DEF TypeOK, GateArm, Goto
  <2>3. CASE SubmitCheck(c)
    <3>1. CASE healthy
      BY <2>3, <3>1 DEF TypeOK, SubmitCheck, Goto
    <3>2. CASE ~healthy
      BY ZenonT(60), <2>3, <3>2, GiveBackGateType DEF TypeOK, SubmitCheck, Done
    <3> QED BY <3>1, <3>2
  <2>4. CASE Accept(c)
    BY <2>4, LaneOfType DEF TypeOK, Accept, Goto
  <2>5. CASE Overloaded(c)
    BY <2>5, GiveBackGateType DEF TypeOK, Overloaded, Done
  <2>6. CASE Disconnected(c)
    BY ZenonT(60), <2>6, GiveBackGateType DEF TypeOK, Disconnected, Done
  <2>7. CASE Receive(c)
    <3>1. PICK answer \in {"Ok", "Backend", "Cancelled", "WorkerUnavailable"} :
            Done(c, answer)
      BY ZenonT(60), <2>7 DEF Receive
    <3> QED BY <2>7, <3>1 DEF TypeOK, Receive, Done
  <2>8. CASE Disconnect(c)
    BY <2>8 DEF TypeOK, Disconnect, Goto
  <2>9. CASE Reuse(c)
    BY <2>9 DEF TypeOK, Reuse
  <2> QED
    BY ZenonT(60), <1>1, <2>1, <2>2, <2>3, <2>4, <2>5, <2>6, <2>7, <2>8, <2>9 DEF Submitter
<1>2. CASE DeadlinePasses
  BY <1>2 DEF TypeOK, DeadlinePasses
<1>3. CASE PollMissed
  BY ZenonT(60), <1>3 DEF TypeOK, PollMissed
<1>4. CASE StopAdmission
  BY <1>4 DEF TypeOK, StopAdmission
<1>5. CASE Writer
  <2>1. CASE WorkerStop
    BY ZenonT(60), <2>1, CancelAllType DEF TypeOK, WorkerStop, Step
  <2>2. CASE WorkerTurn
    BY ZenonT(60), <2>2 DEF TypeOK, WorkerTurn
  <2>3. CASE SelectMessage
    <3>1. ASSUME NEW at \in {"forced", "urgent", "recovery", "data"}, NEW l \in Lane,
                 NEW next \in {"urgent", "recovery", "data", "nothing"},
                 NEW n \in 0..StreakMax, TryRecv(at, l, next, n)
          PROVE  TypeOK' /\ Holding'
      <4>1. CASE queue[l] = <<>>
        BY <3>1, <4>1 DEF TypeOK, TryRecv
      <4>2. CASE queue[l] # <<>>
        <5>1. Head(queue[l]) \in Command /\ Tail(queue[l]) \in Seq(Command)
          BY <4>2 DEF TypeOK
        <5> QED BY ZenonT(60), <3>1, <4>2, <5>1 DEF TypeOK, TryRecv
      <4> QED BY ZenonT(60), <4>1, <4>2
    <3>2. StreakUp \in 0..StreakMax /\ 0 \in 0..StreakMax
      BY DEF TypeOK, StreakUp
    <3>3. "data" \in Lane /\ "urgent" \in Lane /\ "recovery" \in Lane
      BY ZenonT(60) DEF Lane
    <3> QED BY ZenonT(60), <2>3, <3>1, <3>2, <3>3 DEF SelectMessage
  <2>4. CASE WorkerIdleExit
    BY <2>4 DEF TypeOK, WorkerIdleExit, Step
  <2>5. CASE WorkerPark
    BY ZenonT(60), <2>5 DEF TypeOK, WorkerPark, Step
  <2>6. CASE WorkerStopSelected
    BY ZenonT(60), <2>6, CancelAllType DEF TypeOK, WorkerStopSelected, Step
  <2>7. CASE WorkerProceed
    BY ZenonT(60), <2>7 DEF TypeOK, WorkerProceed, Step
  <2>8. CASE CancelClosed
    BY ZenonT(60), <2>8, GiveBackGateType DEF TypeOK, CancelClosed, Step
  <2>9. CASE Start
    BY ZenonT(60), <2>9 DEF TypeOK, Start, Step
  <2>10. CASE ExecuteOk
    BY ZenonT(60), <2>10 DEF TypeOK, ExecuteOk, Step
  <2>11. CASE ExecuteErr
    BY ZenonT(60), <2>11 DEF TypeOK, ExecuteErr, Step
  <2>12. CASE Panic
    BY <2>12 DEF TypeOK, Panic, Step
  <2>13. CASE ReportPanic
    BY ZenonT(60), <2>13 DEF TypeOK, ReportPanic, Step
  <2>14. CASE Publish
    BY ZenonT(60), <2>14 DEF TypeOK, Publish, Step
  <2>15. CASE Reply
    <3>1. CASE client[current] = "gone"
      BY ZenonT(60), <2>15, <3>1 DEF TypeOK, Reply
    <3>2. CASE client[current] # "gone"
      BY <2>15, <3>2 DEF TypeOK, Reply
    <3> QED BY ZenonT(60), <3>1, <3>2
  <2>16. CASE MarkReplied
    BY ZenonT(60), <2>16 DEF TypeOK, MarkReplied, Step
  <2>17. CASE Settle
    BY <2>17 DEF TypeOK, Settle
  <2>18. CASE Release
    BY ZenonT(60), <2>18 DEF TypeOK, Release, Step
  <2> QED
    BY ZenonT(60), <1>5, <2>1, <2>2, <2>3, <2>4, <2>5, <2>6, <2>7, <2>8, <2>9, <2>10, <2>11,
       <2>12, <2>13, <2>14, <2>15, <2>16, <2>17, <2>18 DEF Writer
<1>6. CASE UNCHANGED vars
  BY <1>6 DEF TypeOK, vars
<1> QED BY ZenonT(60), <1>1, <1>2, <1>3, <1>4, <1>5, <1>6 DEF Next

\* The initial state has the types.
LEMMA TypeInit == Init => TypeOK /\ Holding
<1> SUFFICES ASSUME Init PROVE TypeOK /\ Holding
  OBVIOUS
<1>1. queue \in [Lane -> Seq(Command)]
  BY DEF Init
<1>2. streak \in 0..StreakMax
  BY ConfigAssumption DEF Init
<1> QED BY ZenonT(60), <1>1, <1>2 DEF Init, TypeOK, Holding, HoldingSteps

\* Type correctness of the executor: above all, a streak that cannot overflow
\* its u8 and a writer that only ever executes submitted commands.
THEOREM ExecutorTypes == Spec => []TypeOK
<1>1. Init => TypeOK /\ Holding
  BY TypeInit
<1>2. TypeOK /\ Holding /\ [Next]_vars => (TypeOK /\ Holding)'
  BY ZenonT(60), TypeStep
<1> QED BY <1>1, <1>2, PTL DEF Spec

-----------------------------------------------------------------------------
(* The answers.                                                            *)

\* What is known of a slot: how far its message has come bounds its state, its
\* reply channel and its transaction.
Slot(c) ==
  /\ (Queued(c) \/ (current = c /\ pc \in {"selected", "ready"})) =>
       state[c] = "Accepted" /\ client[c] \in {"waiting", "gone"}
       /\ mailbox[c] = "empty" /\ c \notin executed
  /\ (current = c /\ pc = "executing") =>
       state[c] = "Started" /\ client[c] \in {"waiting", "gone"}
       /\ mailbox[c] = "empty" /\ c \notin executed
  /\ (current = c /\ pc \in {"publish", "reply"}) =>
       /\ state[c] \in {"Started", "Committed", "Aborted"}
       /\ client[c] \in {"waiting", "gone"} /\ mailbox[c] = "empty"
       /\ c \in executed <=> result = "ok"
  /\ (current = c /\ pc \in {"replied", "settle", "release"}) =>
       /\ state[c] \in {"Started", "Committed", "Aborted", "Replied"}
       /\ client[c] \in {"waiting", "gone", "done"}
  /\ client[c] \in {"idle", "arming", "checking", "sending"} => state[c] = "Unused"
  /\ state[c] \in {"Unused", "Cancelled"} => mailbox[c] = "empty" /\ c \notin executed
  /\ mailbox[c] = "ok" => c \in executed
  /\ mailbox[c] = "err" => c \notin executed
  /\ outcome[c] # "none" => client[c] = "done"
  /\ outcome[c] \in {"Cancelled", "Backend", "Overloaded"} => c \notin executed
  /\ outcome[c] = "Ok" => c \in executed

\* The inductive invariant behind the answers.
AnswerInv == TypeOK /\ Holding /\ Distinct /\ \A c \in Command : Slot(c)

-----------------------------------------------------------------------------
\* A slot whose message the writer does not hold keeps its facts when nothing
\* of it changes, whatever the writer does with its own message.
LEMMA OtherSlot ==
  ASSUME NEW d \in Command, Slot(d), d # current, NoCommand \notin Command,
         current' = current \/ current' = NoCommand,
         Queued(d)' <=> Queued(d),
         state'[d] = state[d], client'[d] = client[d], mailbox'[d] = mailbox[d],
         outcome'[d] = outcome[d], d \in executed' <=> d \in executed
  PROVE  Slot(d)'
<1>1. d # current'
  OBVIOUS
<1> QED
  BY ZenonT(60), <1>1 DEF Slot

\* Cancelling everything marks what was queued or in hand, and nothing else.
LEMMA CancelAllSlots ==
  ASSUME AnswerInv, CancelAll, UNCHANGED <<submitVars, executed>>,
         pc \in {"top", "selected"}, pc' = "exited"
  PROVE  Distinct' /\ \A c \in Command : Slot(c)'
<1>1. queue' = [l \in Lane |-> <<>>] /\ current' = NoCommand
  BY ZenonT(60) DEF CancelAll
<1>2. ASSUME NEW c \in Command
      PROVE  state'[c] = IF Queued(c) \/ current = c THEN "Cancelled" ELSE state[c]
  BY ZenonT(60) DEF CancelAll
<1>3. Distinct' /\ \A c : ~Queued(c)'
  BY ZenonT(60), <1>1, EmptyQueue
<1>4. ASSUME NEW c \in Command PROVE Slot(c)'
  <2>1. Slot(c)
    BY ZenonT(60) DEF AnswerInv
  <2>2. (Queued(c) \/ current = c) => client[c] \in {"waiting", "gone"}
          /\ mailbox[c] = "empty" /\ c \notin executed
    BY ZenonT(60), <2>1, ConfigAssumption DEF Slot, AnswerInv, Holding, HoldingSteps
  <2> QED BY ZenonT(60), <1>1, <1>2, <1>3, <2>1, <2>2, ConfigAssumption DEF Slot, submitVars
<1> QED BY ZenonT(60), <1>3, <1>4

\* A submitter touches its own slot only, and nothing of the writer.
LEMMA SubmitterFrame ==
  ASSUME TypeOK, NEW c \in Command, Submitter(c)
  PROVE  /\ current' = current /\ pc' = pc /\ result' = result
         /\ \A d \in Command : d # c =>
              /\ state'[d] = state[d] /\ client'[d] = client[d] /\ mailbox'[d] = mailbox[d]
              /\ outcome'[d] = outcome[d] /\ (d \in executed' <=> d \in executed)
<1> USE DEF submitVars, gateVars, flagVars, writerVars, auditVars
<1>1. current' = current /\ pc' = pc /\ result' = result
  BY ZenonT(60) DEF Submitter, GateBegin, GateArm, SubmitCheck, Accept, Overloaded,
              Disconnected, Receive, Disconnect, Reuse
<1>2. ASSUME NEW d \in Command, d # c
      PROVE  /\ state'[d] = state[d] /\ client'[d] = client[d] /\ mailbox'[d] = mailbox[d]
             /\ outcome'[d] = outcome[d] /\ (d \in executed' <=> d \in executed)
  <2>1. CASE GateBegin(c) \/ GateArm(c) \/ SubmitCheck(c)
    BY <1>2, <2>1 DEF GateBegin, GateArm, SubmitCheck, Done, Goto, TypeOK
  <2>2. CASE Accept(c) \/ Overloaded(c) \/ Disconnected(c)
    BY ZenonT(60), <1>2, <2>2 DEF Accept, Overloaded, Disconnected, Done, Goto, TypeOK
  <2>3. CASE Receive(c) \/ Disconnect(c) \/ Reuse(c)
    BY <1>2, <2>3 DEF Receive, Disconnect, Reuse, Done, Goto, TypeOK
  <2> QED BY ZenonT(60), <2>1, <2>2, <2>3 DEF Submitter
<1> QED BY ZenonT(60), <1>1, <1>2

\* What a submitter does keeps what is known of every slot.
LEMMA SubmitterSlots ==
  ASSUME AnswerInv, NEW c \in Command, Submitter(c)
  PROVE  Distinct' /\ \A d \in Command : Slot(d)'
<1>t. TypeOK /\ Holding /\ Distinct
  BY ZenonT(60) DEF AnswerInv
<1>s. \A d \in Command : Slot(d)
  BY ZenonT(60) DEF AnswerInv
<1> USE ConfigAssumption DEF submitVars, gateVars, flagVars, writerVars, auditVars,
        HoldingSteps
<1>q. current' = current /\ pc' = pc /\ result' = result
  BY ZenonT(60), <1>t, SubmitterFrame
<1>o. ASSUME NEW d \in Command, d # c, Queued(d)' <=> Queued(d)
      PROVE  Slot(d)'
  <2>1. Slot(d)
    BY ZenonT(60), <1>s
  <2>2. /\ state'[d] = state[d] /\ client'[d] = client[d] /\ mailbox'[d] = mailbox[d]
        /\ outcome'[d] = outcome[d] /\ (d \in executed' <=> d \in executed)
    BY ZenonT(60), <1>o, <1>t, SubmitterFrame
  <2> QED BY ZenonT(60), <1>o, <1>q, <2>1, <2>2 DEF Slot
<1>0. ASSUME queue' = queue, (Queued(c)' <=> Queued(c)) => Slot(c)'
      PROVE  Distinct' /\ \A d \in Command : Slot(d)'
  <2>1. Distinct' /\ \A d : Queued(d)' <=> Queued(d)
    BY ZenonT(60), <1>0, <1>q, <1>t, SameQueue
  <2> QED BY ZenonT(60), <1>0, <1>o, <2>1
<1>c. Slot(c)
  BY ZenonT(60), <1>s
<1>1. CASE GateBegin(c)
  <2>1. /\ client[c] = "idle" /\ UNCHANGED <<queue, state, mailbox, executed>>
        /\ \/ client'[c] = "arming" /\ outcome'[c] = outcome[c]
           \/ client'[c] = "done" /\ outcome'[c] = "WatermarkPending"
    BY <1>1, <1>t DEF GateBegin, Done, Goto, TypeOK
  <2> QED BY ZenonT(60), <1>0, <1>c, <1>q, <2>1 DEF Slot
<1>2. CASE GateArm(c)
  <2>1. /\ client[c] = "arming" /\ client'[c] = "checking"
        /\ UNCHANGED <<queue, state, mailbox, outcome, executed>>
    BY ZenonT(60), <1>2, <1>t DEF GateArm, Goto, TypeOK
  <2> QED BY ZenonT(60), <1>0, <1>c, <1>q, <2>1 DEF Slot
<1>3. CASE SubmitCheck(c)
  <2>1. /\ client[c] \in {"idle", "checking"} /\ UNCHANGED <<queue, state, mailbox, executed>>
        /\ \/ client'[c] = "sending" /\ outcome'[c] = outcome[c]
           \/ client'[c] = "done" /\ outcome'[c] = "WorkerUnavailable"
    BY <1>3, <1>t DEF SubmitCheck, Done, Goto, TypeOK
  <2> QED BY ZenonT(60), <1>0, <1>c, <1>q, <2>1 DEF Slot
<1>4. CASE Accept(c)
  <2>1. ~Queued(c) /\ current # c
    BY ZenonT(60), <1>4, <1>s, <1>t DEF Slot, Accept, Holding
  <2>2. Distinct' /\ \A d : Queued(d)' <=> (Queued(d) \/ d = c)
    BY ZenonT(60), <1>4, <1>q, <2>1, <1>t, AcceptQueue DEF Accept
  <2>3. /\ client[c] = "sending" /\ client'[c] = "waiting" /\ state'[c] = "Accepted"
        /\ UNCHANGED <<mailbox, outcome, executed>>
    BY ZenonT(60), <1>4, <1>t DEF Accept, Goto, TypeOK
  <2>4. Slot(c)'
    <3>1. state[c] = "Unused" /\ mailbox[c] = "empty" /\ c \notin executed
          /\ (outcome[c] = "none" \/ client[c] = "done")
      BY ZenonT(60), <1>c, <2>3 DEF Slot
    <3>2. outcome[c] = "none"
      BY ZenonT(60), <2>3, <3>1
    <3> QED BY ZenonT(60), <1>q, <2>1, <2>3, <3>1, <3>2 DEF Slot
  <2> QED BY ZenonT(60), <1>o, <2>2, <2>4
<1>5. CASE Overloaded(c) \/ Disconnected(c)
  <2>1. /\ client[c] = "sending" /\ client'[c] = "done"
        /\ outcome'[c] \in {"Overloaded", "WorkerUnavailable"}
        /\ UNCHANGED <<queue, state, mailbox, executed>>
    BY ZenonT(60), <1>5, <1>t DEF Overloaded, Disconnected, Done, TypeOK
  <2> QED BY ZenonT(60), <1>0, <1>c, <1>q, <2>1 DEF Slot
<1>7. CASE Receive(c)
  <2>1. /\ client[c] = "waiting" /\ client'[c] = "done"
        /\ UNCHANGED <<queue, state, mailbox, executed>>
        /\ \/ mailbox[c] = "ok" /\ outcome'[c] = "Ok"
           \/ mailbox[c] = "err" /\ outcome'[c] = "Backend"
           \/ /\ ~Queued(c) /\ current # c
              /\ \/ state[c] = "Cancelled" /\ outcome'[c] = "Cancelled"
                 \/ outcome'[c] = "WorkerUnavailable"
    BY ZenonT(60), <1>7, <1>t DEF Receive, Done, TypeOK
  <2>2. (mailbox[c] = "empty" /\ ~Queued(c) /\ current # c)
          \/ mailbox[c] \in {"ok", "err"}
    BY ZenonT(60), <1>7 DEF Receive
  <2> QED BY ZenonT(60), <1>0, <1>c, <1>q, <2>1, <2>2 DEF Slot
<1>8. CASE Disconnect(c)
  <2>1. /\ client[c] = "waiting" /\ client'[c] = "gone"
        /\ UNCHANGED <<queue, state, mailbox, outcome, executed>>
    BY ZenonT(60), <1>8, <1>t DEF Disconnect, Goto, TypeOK
  <2>2. outcome[c] = "none"
    BY ZenonT(60), <1>c, <2>1 DEF Slot
  <2> QED BY ZenonT(60), <1>0, <1>c, <1>q, <2>1, <2>2 DEF Slot
<1>9. CASE Reuse(c)
  <2>1. /\ client'[c] = "idle" /\ outcome'[c] = "none" /\ state'[c] = "Unused"
        /\ mailbox'[c] = "empty" /\ c \notin executed' /\ queue' = queue
        /\ ~Queued(c) /\ current # c
    BY ZenonT(60), <1>9, <1>t DEF Reuse, TypeOK
  <2> QED BY ZenonT(60), <1>0, <1>q, <2>1 DEF Slot
<1> QED
  BY ZenonT(60), <1>1, <1>2, <1>3, <1>4, <1>5, <1>7, <1>8, <1>9 DEF Submitter

\* Stopping, selecting a message and cancelling it keep what is known of every slot.
LEMMA SelectionSlots ==
  ASSUME AnswerInv,
         \/ WorkerStop \/ WorkerStopSelected \/ WorkerTurn \/ WorkerPark
         \/ WorkerProceed \/ ReportPanic \/ SelectMessage \/ WorkerIdleExit
         \/ CancelClosed
  PROVE  Distinct' /\ \A d \in Command : Slot(d)'
<1>t. TypeOK /\ Holding /\ Distinct
  BY ZenonT(60) DEF AnswerInv
<1>s. \A d \in Command : Slot(d)
  BY ZenonT(60) DEF AnswerInv
<1> USE ConfigAssumption DEF submitVars, gateVars, flagVars, writerVars, auditVars,
        HoldingSteps
<1>z. ASSUME queue' = queue, current' = current \/ current' = NoCommand,
             \A d \in Command : Slot(d)'
      PROVE  Distinct' /\ \A d \in Command : Slot(d)'
  BY ZenonT(60), <1>z, <1>t, SameQueue
<1>1. CASE WorkerStop \/ WorkerStopSelected
  BY ZenonT(60), <1>1, CancelAllSlots DEF WorkerStop, WorkerStopSelected, Step
<1>2. CASE WorkerTurn \/ WorkerPark \/ WorkerProceed \/ ReportPanic
  <2>1. UNCHANGED <<queue, state, client, mailbox, outcome, executed, current, result>>
    BY ZenonT(60), <1>2 DEF WorkerTurn, WorkerPark, WorkerProceed, ReportPanic, Step
  <2>2. \/ pc = "selected" /\ pc' = "ready"
        \/ pc' \in {"forced", "urgent", "top", "failed"}
    BY ZenonT(60), <1>2 DEF WorkerTurn, WorkerPark, WorkerProceed, ReportPanic, Step
  <2>3. ASSUME NEW d \in Command PROVE Slot(d)'
    BY ZenonT(60), <2>1, <2>2, <1>s, SameQueue DEF Slot
  <2> QED BY ZenonT(60), <1>z, <2>1, <2>3
<1>3. CASE SelectMessage
  <2>1. PICK at \in {"forced", "urgent", "recovery", "data"}, l \in Lane,
            next \in {"urgent", "recovery", "data", "nothing"},
            n \in {0, StreakUp} : TryRecv(at, l, next, n)
    BY ZenonT(60), <1>3 DEF SelectMessage, Lane
  <2>2. CASE queue[l] = <<>>
    <3>1. ASSUME NEW d \in Command PROVE Slot(d)'
      BY ZenonT(60), <2>1, <2>2, <1>s, SameQueue DEF Slot, TryRecv
    <3> QED BY ZenonT(60), <1>z, <2>1, <2>2, <3>1 DEF TryRecv
  <2>3. CASE queue[l] # <<>>
    <3>1. /\ Distinct' /\ current' \in Command /\ Queued(current')
          /\ \A d : Queued(d)' <=> (Queued(d) /\ d # current')
      BY ZenonT(60), <2>1, <2>3, <1>t, RecvQueue DEF TryRecv
    <3>2. ASSUME NEW d \in Command PROVE Slot(d)'
      BY ZenonT(60), <2>1, <2>3, <3>1, <1>s DEF Slot, TryRecv
    <3> QED BY ZenonT(60), <3>1, <3>2
  <2> QED BY ZenonT(60), <2>2, <2>3
<1>4. CASE WorkerIdleExit
  <2>1. Distinct' /\ \A d : ~Queued(d)'
    BY ZenonT(60), <1>4, EmptyQueue DEF WorkerIdleExit
  <2>2. ASSUME NEW d \in Command PROVE Slot(d)'
    BY ZenonT(60), <1>4, <2>1, <1>s DEF Slot, WorkerIdleExit, Step
  <2> QED BY ZenonT(60), <2>1, <2>2
<1>5. CASE CancelClosed
  <2>1. current \in Command /\ queue' = queue /\ current' = NoCommand
    BY ZenonT(60), <1>5, <1>t DEF CancelClosed, Step, Holding, TypeOK
  <2>2. ~Queued(current)
    BY ZenonT(60), <1>t DEF Distinct, Queued
  <2>3. ASSUME NEW d \in Command PROVE Slot(d)'
    <3>s. Slot(d)
      BY ZenonT(60), <1>s
    <3>q. Queued(d)' <=> Queued(d)
      BY ZenonT(60), <2>1, SameQueue
    <3>1. CASE d # current
      BY ZenonT(60), <1>5, <2>1, <3>1, <3>s, <3>q, <1>t, OtherSlot DEF CancelClosed, Step, TypeOK
    <3>2. CASE d = current
      BY ZenonT(60), <1>5, <2>1, <2>2, <3>2, <3>s, <3>q, <1>t DEF Slot, CancelClosed, Step, TypeOK
    <3> QED BY ZenonT(60), <3>1, <3>2
  <2> QED BY ZenonT(60), <1>z, <2>1, <2>3
<1> QED BY ZenonT(60), <1>1, <1>2, <1>3, <1>4, <1>5

\* So do starting a command and running the backend ...
LEMMA ExecutionSlots ==
  ASSUME AnswerInv, Start \/ ExecuteOk \/ ExecuteErr \/ Panic
  PROVE  Distinct' /\ \A d \in Command : Slot(d)'
<1>t. TypeOK /\ Holding /\ Distinct
  BY ZenonT(60) DEF AnswerInv
<1>s. \A d \in Command : Slot(d)
  BY ZenonT(60) DEF AnswerInv
<1> USE ConfigAssumption DEF submitVars, gateVars, flagVars, writerVars, auditVars,
        HoldingSteps
<1>z. ASSUME queue' = queue, current' = current \/ current' = NoCommand,
             \A d \in Command : Slot(d)'
      PROVE  Distinct' /\ \A d \in Command : Slot(d)'
  BY ZenonT(60), <1>z, <1>t, SameQueue
<1>1. CASE Start
  <2>1. current \in Command /\ queue' = queue /\ current' = current
    BY ZenonT(60), <1>1, <1>t DEF Start, Step, Holding, TypeOK
  <2>2. ~Queued(current)
    BY ZenonT(60), <1>t DEF Distinct, Queued
  <2>3. ASSUME NEW d \in Command PROVE Slot(d)'
    <3>s. Slot(d)
      BY ZenonT(60), <1>s
    <3>q. Queued(d)' <=> Queued(d)
      BY ZenonT(60), <2>1, SameQueue
    <3>1. CASE d # current
      BY ZenonT(60), <1>1, <2>1, <3>1, <3>s, <3>q, <1>t, OtherSlot DEF Start, Step, TypeOK
    <3>2. CASE d = current
      BY ZenonT(60), <1>1, <2>1, <2>2, <3>2, <3>s, <3>q, <1>t DEF Slot, Start, Step, TypeOK
    <3> QED BY ZenonT(60), <3>1, <3>2
  <2> QED BY ZenonT(60), <1>z, <2>1, <2>3
<1>2. CASE ExecuteOk
  <2>1. current \in Command /\ queue' = queue /\ current' = current
    BY ZenonT(60), <1>2, <1>t DEF ExecuteOk, Step, Holding, TypeOK
  <2>2. ~Queued(current)
    BY <1>t DEF Distinct, Queued
  <2>3. ASSUME NEW d \in Command PROVE Slot(d)'
    <3>s. Slot(d)
      BY <1>s
    <3>q. Queued(d)' <=> Queued(d)
      BY <2>1, SameQueue
    <3>1. CASE d # current
      BY ZenonT(60), <1>2, <2>1, <3>1, <3>s, <3>q, <1>t, OtherSlot
      DEF ExecuteOk, Step, TypeOK
    <3>2. CASE d = current
      BY ZenonT(60), <1>2, <2>1, <2>2, <3>2, <3>s, <3>q, <1>t DEF Slot, ExecuteOk, Step, TypeOK
    <3> QED BY <3>1, <3>2
  <2> QED BY <1>z, <2>1, <2>3
<1>3. CASE ExecuteErr
  <2>1. /\ current \in Command /\ pc = "executing" /\ pc' = "publish" /\ result' = "err"
        /\ UNCHANGED <<queue, current, state, client, mailbox, outcome, executed>>
    BY ZenonT(60), <1>3, <1>t DEF ExecuteErr, Step, Holding, TypeOK
  <2>2. ~Queued(current)
    BY <1>t DEF Distinct, Queued
  <2>3. ASSUME NEW d \in Command PROVE Slot(d)'
    <3>s. Slot(d)
      BY <1>s
    <3>q. Queued(d)' <=> Queued(d)
      BY ZenonT(60), <2>1, SameQueue
    <3>1. CASE d # current
      BY ZenonT(60), <2>1, <3>1, <3>s, <3>q, OtherSlot, ConfigAssumption
    <3>2. CASE d = current
      <4>1. /\ state[d] = "Started" /\ client[d] \in {"waiting", "gone"}
            /\ mailbox[d] = "empty" /\ d \notin executed
        BY ZenonT(60), <2>1, <3>2, <3>s DEF Slot
      <4>2. ~Queued(d)'
        BY ZenonT(60), <2>2, <3>2, <3>q
      <4> QED BY ZenonT(60), <2>1, <3>2, <3>s, <4>1, <4>2 DEF Slot
    <3> QED BY <3>1, <3>2
  <2> QED BY ZenonT(60), <1>z, <2>1, <2>3
<1>4. CASE Panic
  <2>1. Distinct' /\ (\A d : ~Queued(d)') /\ current' = NoCommand /\ current \in Command
    BY ZenonT(60), <1>4, <1>t, EmptyQueue DEF Panic, Step, Holding, TypeOK
  <2>2. ASSUME NEW d \in Command PROVE Slot(d)'
    <3>1. /\ pc = "executing" /\ UNCHANGED <<state, client, mailbox, outcome>>
          /\ executed' = executed \/ executed' = executed \cup {current}
      BY ZenonT(60), <1>4 DEF Panic, Step
    <3>2. Slot(d) /\ ~Queued(d)' /\ d # current'
      BY ZenonT(60), <2>1, <1>s
    <3>3. CASE d # current
      <4>1. d \in executed' <=> d \in executed
        BY ZenonT(60), <3>1, <3>3
      <4> QED BY ZenonT(60), <3>1, <3>2, <4>1 DEF Slot
    <3>4. CASE d = current
      <4>1. /\ state[d] = "Started" /\ client[d] \in {"waiting", "gone"}
            /\ mailbox[d] = "empty" /\ (outcome[d] # "none" => client[d] = "done")
        BY ZenonT(60), <3>1, <3>2, <3>4 DEF Slot
      <4>2. outcome[d] = "none"
        BY ZenonT(60), <4>1
      <4> QED BY ZenonT(60), <3>1, <3>2, <4>1, <4>2 DEF Slot
    <3> QED BY <3>3, <3>4
  <2> QED BY ZenonT(60), <2>1, <2>2
<1> QED BY ZenonT(60), <1>1, <1>2, <1>3, <1>4

\* ... and publishing its result, answering and finishing.
LEMMA ReplySlots ==
  ASSUME AnswerInv, Publish \/ Reply \/ MarkReplied \/ Settle \/ Release
  PROVE  Distinct' /\ \A d \in Command : Slot(d)'
<1>t. TypeOK /\ Holding /\ Distinct
  BY ZenonT(60) DEF AnswerInv
<1>s. \A d \in Command : Slot(d)
  BY ZenonT(60) DEF AnswerInv
<1> USE ConfigAssumption DEF submitVars, gateVars, flagVars, writerVars, auditVars,
        HoldingSteps
<1>z. ASSUME queue' = queue, current' = current \/ current' = NoCommand,
             \A d \in Command : Slot(d)'
      PROVE  Distinct' /\ \A d \in Command : Slot(d)'
  BY ZenonT(60), <1>z, <1>t, SameQueue
<1>1. CASE Publish
  <2>1. current \in Command /\ queue' = queue /\ current' = current
    BY ZenonT(60), <1>1, <1>t DEF Publish, Step, Holding, TypeOK
  <2>2. ~Queued(current)
    BY ZenonT(60), <1>t DEF Distinct, Queued
  <2>3. ASSUME NEW d \in Command PROVE Slot(d)'
    <3>s. Slot(d)
      BY ZenonT(60), <1>s
    <3>q. Queued(d)' <=> Queued(d)
      BY ZenonT(60), <2>1, SameQueue
    <3>1. CASE d # current
      BY ZenonT(60), <1>1, <2>1, <3>1, <3>s, <3>q, <1>t, OtherSlot DEF Publish, Step, TypeOK
    <3>2. CASE d = current
      <4>1. /\ pc = "publish" /\ pc' = "reply" /\ state'[d] \in {"Committed", "Aborted"}
            /\ UNCHANGED <<client, mailbox, outcome, executed, result, current>>
        BY ZenonT(60), <1>1, <3>2, <1>t DEF Publish, Step, TypeOK
      <4>2. ~Queued(d)'
        BY ZenonT(60), <2>2, <3>2, <3>q
      <4> QED BY ZenonT(60), <3>2, <3>s, <4>1, <4>2 DEF Slot
    <3> QED BY ZenonT(60), <3>1, <3>2
  <2> QED BY ZenonT(60), <1>z, <2>1, <2>3
<1>2. CASE Reply
  <2>1. current \in Command /\ queue' = queue /\ current' = current
    BY ZenonT(60), <1>2, <1>t DEF Reply, Holding, TypeOK
  <2>2. ~Queued(current)
    BY <1>t DEF Distinct, Queued
  <2>3. ASSUME NEW d \in Command PROVE Slot(d)'
    <3>s. Slot(d)
      BY <1>s
    <3>q. Queued(d)' <=> Queued(d)
      BY <2>1, SameQueue
    <3>1. CASE d # current
      BY ZenonT(60), <1>2, <2>1, <3>1, <3>s, <3>q, <1>t, OtherSlot DEF Reply, TypeOK
    <3>2. CASE d = current /\ client[current] = "gone"
      <4>1. /\ pc = "reply" /\ pc' = "settle" /\ ~Queued(d)'
            /\ UNCHANGED <<state, client, mailbox, outcome, executed, current>>
        BY ZenonT(60), <1>2, <2>2, <3>2, <3>q DEF Reply
      <4> QED BY ZenonT(60), <3>2, <3>s, <4>1 DEF Slot
    <3>3. CASE d = current /\ client[current] # "gone"
      <4>1. /\ state[d] \in {"Started", "Committed", "Aborted"}
            /\ client[d] = "waiting"
            /\ d \in executed <=> result = "ok"
            /\ outcome[d] # "none" => client[d] = "done"
        <5>1. Slot(d) /\ current = d /\ pc = "reply"
          BY ZenonT(60), <1>2, <3>3, <3>s DEF Reply
        <5> QED BY ZenonT(60), <5>1, <3>3 DEF Slot
      <4>2. result \in {"ok", "err"}
        BY ZenonT(60), <1>2, <1>t DEF Reply, Holding, TypeOK
      <4>3. /\ mailbox'[d] = result /\ pc' = "replied"
            /\ UNCHANGED <<state, client, outcome, executed>>
        BY ZenonT(60), <1>2, <3>3, <1>t DEF Reply, TypeOK
      <4>4. ~Queued(d)' /\ current' = d
        BY ZenonT(60), <2>1, <2>2, <3>3, <3>q
      <4> QED BY ZenonT(60), <4>1, <4>2, <4>3, <4>4 DEF Slot
    <3> QED BY ZenonT(60), <3>1, <3>2, <3>3
  <2> QED BY <1>z, <2>1, <2>3
<1>3. CASE MarkReplied
  <2>1. current \in Command /\ queue' = queue /\ current' = current
    BY ZenonT(60), <1>3, <1>t DEF MarkReplied, Step, Holding, TypeOK
  <2>2. ~Queued(current)
    BY <1>t DEF Distinct, Queued
  <2>3. ASSUME NEW d \in Command PROVE Slot(d)'
    <3>s. Slot(d)
      BY <1>s
    <3>q. Queued(d)' <=> Queued(d)
      BY <2>1, SameQueue
    <3>1. CASE d # current
      BY ZenonT(60), <1>3, <2>1, <3>1, <3>s, <3>q, <1>t, OtherSlot DEF MarkReplied, Step, TypeOK
    <3>2. CASE d = current
      <4>1. /\ pc = "replied" /\ pc' = "settle" /\ state'[d] = "Replied"
            /\ UNCHANGED <<client, mailbox, outcome, executed, current>>
        BY ZenonT(60), <1>3, <3>2, <1>t DEF MarkReplied, Step, TypeOK
      <4>2. ~Queued(d)' /\ client[d] \in {"waiting", "gone", "done"}
        <5>1. Slot(d) /\ current = d /\ pc = "replied"
          BY ZenonT(60), <3>2, <3>s, <4>1
        <5>2. client[d] \in {"waiting", "gone", "done"}
          BY ZenonT(60), <5>1 DEF Slot
        <5> QED BY ZenonT(60), <2>2, <3>2, <3>q, <5>2
      <4> QED BY ZenonT(60), <3>2, <3>s, <4>1, <4>2 DEF Slot
    <3> QED BY <3>1, <3>2
  <2> QED BY <1>z, <2>1, <2>3
<1>4. CASE Settle \/ Release
  <2>1. UNCHANGED <<queue, state, client, mailbox, outcome, executed>>
        /\ (current' = current \/ current' = NoCommand)
    BY ZenonT(60), <1>4 DEF Settle, Release
  <2>2. pc \in {"settle", "release"} /\ pc' \in {"release", "top"}
    BY ZenonT(60), <1>4 DEF Settle, Release, Step
  <2>3. ASSUME NEW d \in Command PROVE Slot(d)'
    BY ZenonT(60), <2>1, <2>2, <1>s, SameQueue DEF Slot
  <2> QED BY ZenonT(60), <1>z, <2>1, <2>3
<1> QED BY ZenonT(60), <1>1, <1>2, <1>3, <1>4

\* Every step keeps what is known of every slot.
LEMMA AnswerStep == AnswerInv /\ [Next]_vars => AnswerInv'
<1> SUFFICES ASSUME AnswerInv, [Next]_vars PROVE AnswerInv'
  OBVIOUS
<1> SUFFICES Distinct' /\ \A d \in Command : Slot(d)'
  BY ZenonT(60), TypeStep DEF AnswerInv
<1>1. ASSUME NEW c \in Command, Submitter(c)
      PROVE  Distinct' /\ \A d \in Command : Slot(d)'
  BY ZenonT(60), <1>1, SubmitterSlots
<1>2. CASE DeadlinePasses \/ PollMissed \/ StopAdmission \/ UNCHANGED vars
  <2>1. UNCHANGED <<queue, state, client, mailbox, outcome, executed, current, pc, result>>
    BY ZenonT(60), <1>2 DEF DeadlinePasses, PollMissed, StopAdmission, vars, submitVars, gateVars,
       flagVars, writerVars, auditVars
  <2>2. Distinct' /\ \A d : Queued(d)' <=> Queued(d)
    BY ZenonT(60), <2>1, SameQueue, ConfigAssumption DEF AnswerInv
  <2>3. ASSUME NEW d \in Command PROVE Slot(d)'
    <3>1. Slot(d)
      BY ZenonT(60) DEF AnswerInv
    <3> QED BY ZenonT(60), <2>1, <2>2, <3>1 DEF Slot
  <2> QED BY ZenonT(60), <2>2, <2>3
<1>3. CASE Writer
  BY ZenonT(60), <1>3, SelectionSlots, ExecutionSlots, ReplySlots DEF Writer
<1> QED BY ZenonT(60), <1>1, <1>2, <1>3 DEF Next

\* The initial state satisfies the invariant.
LEMMA AnswerInit == Init => AnswerInv
<1> SUFFICES ASSUME Init PROVE AnswerInv
  OBVIOUS
<1>1. TypeOK /\ Holding
  BY TypeInit
<1>2. Distinct /\ \A c : ~Queued(c)
  BY DEF Init, Distinct, Queued
<1>3. ASSUME NEW c \in Command PROVE Slot(c)
  BY ZenonT(60), <1>2 DEF Init, Slot
<1> QED BY ZenonT(60), <1>1, <1>2, <1>3 DEF AnswerInv

\* The answers of Submission::receive and submit are the truth about the
\* transaction, in every interleaving with disconnects, shutdown and panics.
THEOREM ExecutorAnswers == Spec => []AnswersAreTruthful
<1>1. AnswerInv => AnswersAreTruthful
  BY ZenonT(60) DEF AnswerInv, Slot, AnswersAreTruthful
<1> QED BY <1>1, AnswerInit, AnswerStep, PTL DEF Spec

-----------------------------------------------------------------------------
-----------------------------------------------------------------------------
(* The watermark gate.                                                     *)

\* The inductive invariant behind the gate.
GateInv ==
  /\ \A c, d \in Command : (Gated(c) /\ InFlight(c) /\ Gated(d) /\ InFlight(d)) => c = d
  /\ \A c \in Command : (Gated(c) /\ InFlight(c)) => pending
  /\ (pending /\ ReceiversAlive) => \E c \in Command : Gated(c) /\ InFlight(c)
  /\ pc = "release" => Gated(current)
\* A step that moves no watermark in or out keeps the gate.
LEMMA GateSame ==
  ASSUME GateInv, \A d \in Command : Gated(d) => (InFlight(d)' <=> InFlight(d)),
         pending' = pending, ReceiversAlive' => ReceiversAlive,
         pc' = "release" => Gated(current')
  PROVE  GateInv'
BY ZenonT(60) DEF GateInv, Gated

\* The one watermark under way leaves and gives the gate back.
LEMMA GateLeave ==
  ASSUME GateInv, NEW c \in Command, Gated(c), InFlight(c), ~InFlight(c)',
         \A d \in Command : (Gated(d) /\ InFlight(d)') => InFlight(d),
         pending' = FALSE, pc' # "release"
  PROVE  GateInv'
BY ZenonT(60) DEF GateInv, Gated

\* The writer is gone: the gate may stay shut.
LEMMA GateDead ==
  ASSUME GateInv, \A d \in Command : (Gated(d) /\ InFlight(d)') => InFlight(d),
         ~ReceiversAlive', pending' = pending, pc' # "release"
  PROVE  GateInv'
BY ZenonT(60) DEF GateInv, Gated

\* Cancelling everything also settles the gate.
LEMMA CancelAllGate ==
  ASSUME AnswerInv, GateInv, CancelAll, client' = client,
         pc \in {"top", "selected"}, pc' = "exited"
  PROVE  GateInv'
<1> DEFINE doomed == {c \in Command : Queued(c) \/ current = c}
<1>1. queue' = [l \in Lane |-> <<>>] /\ current' = NoCommand
  BY ZenonT(60) DEF CancelAll
<1>2. \A d \in Command : InFlight(d)' <=> client[d] \in {"arming", "checking", "sending"}
  BY ZenonT(60), <1>1, EmptyQueue, ConfigAssumption DEF InFlight
<1>3. \A d \in doomed : client[d] \in {"waiting", "gone"}
  BY ZenonT(60), ConfigAssumption DEF AnswerInv, Slot, Holding, HoldingSteps
<1>4. CASE \E c \in doomed : Gated(c)
  <2>1. PICK c \in doomed : Gated(c)
    BY ZenonT(60), <1>4
  <2>2. pending' = FALSE
    BY ZenonT(60), <1>4 DEF CancelAll
  <2>3. InFlight(c) /\ ~InFlight(c)'
    BY ZenonT(60), <2>1, <1>2, <1>3 DEF InFlight
  <2>4. \A d \in Command : InFlight(d)' => InFlight(d)
    BY ZenonT(60), <1>2 DEF InFlight
  <2> QED BY ZenonT(60), <2>1, <2>2, <2>3, <2>4, GateLeave
<1>5. CASE ~\E c \in doomed : Gated(c)
  <2>1. pending' = pending
    BY ZenonT(60), <1>5 DEF CancelAll, gateVars
  <2>2. \A d \in Command : InFlight(d)' => InFlight(d)
    BY ZenonT(60), <1>2 DEF InFlight
  <2> QED BY ZenonT(60), <2>1, <2>2, GateDead DEF ReceiversAlive
<1> QED BY ZenonT(60), <1>4, <1>5

\* Every step keeps the gate with its owner.
LEMMA GateStep == AnswerInv /\ GateInv /\ [Next]_vars => GateInv'
<1> SUFFICES ASSUME AnswerInv, GateInv, [Next]_vars PROVE GateInv'
  OBVIOUS
<1>t. TypeOK /\ Holding /\ Distinct /\ \A d \in Command : Slot(d)
  BY DEF AnswerInv
<1>n. ~Queued(current)
  BY ZenonT(60), <1>t DEF Distinct, Queued
<1> USE ConfigAssumption DEF submitVars, gateVars, flagVars, writerVars, auditVars,
        HoldingSteps
<1>1. ASSUME NEW c \in Command, Submitter(c) PROVE GateInv'
  <2>q. current' = current /\ pc' = pc
    BY ZenonT(60), <1>1
    DEF Submitter, GateBegin, GateArm, SubmitCheck, Accept, Overloaded,
                Disconnected, Receive, Disconnect, Reuse
  <2>a. (ReceiversAlive' <=> ReceiversAlive) /\ (pc' = "release" => Gated(current'))
    BY ZenonT(60), <2>q DEF ReceiversAlive, GateInv, Gated
  <2>i. client[c] \in {"idle", "arming", "checking", "sending"} =>
          ~Queued(c) /\ current # c
    BY <1>t DEF Slot, Holding, TypeOK
  <2>g. ASSUME client[c] \in {"checking", "sending"}, GiveBackGate(c), queue' = queue,
               client' = [client EXCEPT ![c] = "done"]
        PROVE  GateInv'
    <3>1. \A d \in Command : d # c => (InFlight(d)' <=> InFlight(d))
      BY ZenonT(60), <2>g, <2>q, <1>t, SameQueue DEF InFlight, TypeOK
    <3>2. InFlight(c) /\ ~InFlight(c)'
      BY ZenonT(60), <2>g, <2>q, <2>i, <1>t, SameQueue DEF InFlight, TypeOK
    <3>3. CASE Gated(c)
      <4>1. pending' = FALSE /\ pending
        BY ZenonT(60), <2>g, <3>2, <3>3 DEF GiveBackGate, GateInv
      <4>2. pc # "release"
        BY ZenonT(60), <2>i, <2>g, <3>2, <3>3, <1>t DEF GateInv, InFlight, Holding, TypeOK
      <4> QED BY ZenonT(60), <3>1, <3>2, <3>3, <4>1, <4>2, <2>q, GateLeave
    <3>4. CASE ~Gated(c)
      <4>1. pending' = pending
        BY ZenonT(60), <2>g, <3>4 DEF GiveBackGate
      <4> QED BY ZenonT(60), <3>1, <3>4, <4>1, <2>a, GateSame
    <3> QED BY ZenonT(60), <3>3, <3>4
  <2>1. CASE GateBegin(c)
    <3>1. \A d \in Command : d # c => (InFlight(d)' <=> InFlight(d))
      BY <2>1, <2>q, <1>t, SameQueue DEF GateBegin, Done, Goto, InFlight, TypeOK
    <3>2. ~InFlight(c)
      BY ZenonT(60), <2>1, <2>i DEF GateBegin, InFlight
    <3>3. CASE pending
      <4>1. pending' = pending /\ ~InFlight(c)'
        BY <2>1, <3>3, <2>q, <2>i, <1>t, SameQueue DEF GateBegin, Done, InFlight, TypeOK
      <4> QED BY ZenonT(60), <3>1, <3>2, <4>1, <2>a, GateSame
    <3>4. CASE ~pending
      <4>1. pending' = TRUE /\ Gated(c) /\ InFlight(c)'
        BY ZenonT(60), <2>1, <3>4, <1>t DEF GateBegin, Goto, InFlight, TypeOK
      <4>2. \A d \in Command : Gated(d) => ~InFlight(d)
        BY ZenonT(60), <3>4 DEF GateInv
      <4> QED BY ZenonT(60), <3>1, <4>1, <4>2, <2>a DEF GateInv, Gated
    <3> QED BY ZenonT(60), <3>3, <3>4
  <2>2. CASE GateArm(c)
    <3>1. \A d \in Command : InFlight(d)' <=> InFlight(d)
      BY ZenonT(60), <2>2, <2>q, <1>t, SameQueue DEF GateArm, Goto, InFlight, TypeOK
    <3> QED BY ZenonT(60), <2>2, <3>1, <2>a, GateSame DEF GateArm
  <2>3. CASE SubmitCheck(c)
    <3>1. CASE healthy
      <4>1. \A d \in Command : Gated(d) => (InFlight(d)' <=> InFlight(d))
        BY <2>3, <3>1, <2>q, <1>t, SameQueue DEF SubmitCheck, Goto, InFlight, TypeOK
      <4> QED BY ZenonT(60), <2>3, <3>1, <4>1, <2>a, GateSame DEF SubmitCheck
    <3>2. CASE ~healthy /\ client[c] = "checking"
      BY ZenonT(60), <2>3, <3>2, <2>g DEF SubmitCheck, Done
    <3>3. CASE ~healthy /\ client[c] # "checking"
      <4>1. ~Gated(c) /\ pending' = pending
        BY ZenonT(60), <2>3, <3>3 DEF SubmitCheck, GiveBackGate
      <4>2. \A d \in Command : d # c => (InFlight(d)' <=> InFlight(d))
        BY <2>3, <3>3, <2>q, <1>t, SameQueue DEF SubmitCheck, Done, InFlight, TypeOK
      <4> QED BY ZenonT(60), <4>1, <4>2, <2>a, GateSame
    <3> QED BY ZenonT(60), <3>1, <3>2, <3>3
  <2>4. CASE Accept(c)
    <3>1. \A d : Queued(d)' <=> (Queued(d) \/ d = c)
      BY ZenonT(60), <2>4, <2>q, <2>i, <1>t, AcceptQueue DEF Accept
    <3>2. \A d \in Command : InFlight(d)' <=> InFlight(d)
      BY ZenonT(60), <2>4, <3>1, <2>q, <1>t DEF Accept, Goto, InFlight, TypeOK
    <3> QED BY ZenonT(60), <2>4, <3>2, <2>a, GateSame DEF Accept
  <2>5. CASE Overloaded(c)
    BY ZenonT(60), <2>5, <2>g DEF Overloaded, Done
  <2>6. CASE Disconnected(c)
    BY ZenonT(60), <2>6, <2>g DEF Disconnected, Done
  <2>7. CASE Receive(c) \/ Disconnect(c) \/ Reuse(c)
    <3>1. /\ queue' = queue /\ pending' = pending
          /\ client[c] \in {"waiting", "done", "gone"}
          /\ \E to \in {"done", "gone", "idle"} : client' = [client EXCEPT ![c] = to]
      BY ZenonT(60), <2>7 DEF Receive, Disconnect, Reuse, Done, Goto
    <3>2. \A d \in Command : InFlight(d)' <=> InFlight(d)
      BY ZenonT(60), <3>1, <2>q, <1>t, SameQueue DEF InFlight, TypeOK
    <3> QED BY ZenonT(60), <3>1, <3>2, <2>a, GateSame
  <2> QED
    BY ZenonT(60), <1>1, <2>1, <2>2, <2>3, <2>4, <2>5, <2>6, <2>7 DEF Submitter
<1>2. CASE DeadlinePasses \/ PollMissed \/ StopAdmission \/ UNCHANGED vars
  <2>1. UNCHANGED <<queue, client, current, pc, pending>>
    BY ZenonT(60), <1>2 DEF DeadlinePasses, PollMissed, StopAdmission, vars
  <2>2. \A d \in Command : InFlight(d)' <=> InFlight(d)
    BY ZenonT(60), <2>1, SameQueue DEF InFlight
  <2> QED BY ZenonT(60), <2>1, <2>2, GateSame DEF ReceiversAlive, GateInv, Gated
<1>3. CASE Writer
  <2>c. client' = client
    BY ZenonT(60), <1>3
    DEF Writer, WorkerStop, WorkerTurn, SelectMessage, TryRecv, WorkerIdleExit,
         WorkerPark, WorkerStopSelected, WorkerProceed, CancelClosed, Start, ExecuteOk,
         ExecuteErr, Panic, ReportPanic, Publish, Reply, MarkReplied, Settle, Release
  <2>s. ASSUME queue' = queue, current' = current
        PROVE  \A d \in Command : InFlight(d)' <=> InFlight(d)
    BY ZenonT(60), <2>s, <2>c, SameQueue DEF InFlight
  <2>1. CASE WorkerStop \/ WorkerStopSelected
    BY ZenonT(60), <2>1, <2>c, CancelAllGate DEF WorkerStop, WorkerStopSelected, Step
  <2>2. CASE \/ WorkerTurn \/ WorkerPark \/ WorkerProceed \/ Start \/ ExecuteOk
             \/ ExecuteErr \/ ReportPanic \/ Publish \/ Reply \/ MarkReplied
    <3>1. /\ UNCHANGED <<queue, current, pending>> /\ pc' # "release"
          /\ pc \in {"top", "nothing", "selected", "ready", "executing", "publish",
                     "reply", "replied"} \/ pc' = "failed"
      BY ZenonT(60), <2>2
      DEF WorkerTurn, WorkerPark, WorkerProceed, Start, ExecuteOk, ExecuteErr,
                  ReportPanic, Publish, Reply, MarkReplied, Step
    <3> QED BY ZenonT(60), <3>1, <2>s, GateSame DEF ReceiversAlive
  <2>3. CASE SelectMessage
    <3>1. PICK at \in {"forced", "urgent", "recovery", "data"}, l \in Lane,
              next \in {"urgent", "recovery", "data", "nothing"},
              n \in {0, StreakUp} : TryRecv(at, l, next, n)
      BY ZenonT(60), <2>3 DEF SelectMessage, Lane
    <3>2. pc' # "release" /\ ReceiversAlive /\ pending' = pending
      BY ZenonT(60), <3>1 DEF TryRecv, ReceiversAlive
    <3>3. CASE queue[l] = <<>>
      BY ZenonT(60), <3>1, <3>2, <3>3, <2>s, GateSame DEF TryRecv
    <3>4. CASE queue[l] # <<>>
      <4>1. Queued(current') /\ \A d : Queued(d)' <=> (Queued(d) /\ d # current')
        BY ZenonT(60), <3>1, <3>4, <1>t, RecvQueue DEF TryRecv
      <4>2. current = NoCommand
        BY ZenonT(60), <3>1, <1>t DEF TryRecv, Holding
      <4>3. \A d \in Command : InFlight(d)' <=> InFlight(d)
        BY ZenonT(60), <4>1, <4>2, <2>c DEF InFlight
      <4> QED BY ZenonT(60), <3>2, <4>3, GateSame
    <3> QED BY ZenonT(60), <3>3, <3>4
  <2>4. CASE WorkerIdleExit \/ Panic
    <3>1. /\ queue' = [l \in Lane |-> <<>>] /\ pc' \in {"exited", "unwound"}
          /\ pending' = pending /\ (current' = current \/ current' = NoCommand)
      BY ZenonT(60), <2>4 DEF WorkerIdleExit, Panic, Step
    <3>2. \A d \in Command : InFlight(d)' => InFlight(d)
      BY ZenonT(60), <3>1, <2>c, EmptyQueue DEF InFlight
    <3> QED BY ZenonT(60), <3>1, <3>2, GateDead DEF ReceiversAlive
  <2>5. CASE CancelClosed
    <3>1. /\ current \in Command /\ client[current] = "gone" /\ queue' = queue
          /\ current' = NoCommand /\ GiveBackGate(current) /\ pc' = "top"
          /\ ReceiversAlive
      BY ZenonT(60), <2>5, <1>t DEF CancelClosed, Step, Holding, TypeOK, ReceiversAlive
    <3>2. \A d \in Command : d # current => (InFlight(d)' <=> InFlight(d))
      BY ZenonT(60), <3>1, <2>c, SameQueue DEF InFlight
    <3>3. InFlight(current) /\ \A d \in Command : d = current => ~InFlight(d)'
      BY ZenonT(60), <3>1, <2>c, <1>n, SameQueue DEF InFlight
    <3>4. PICK c \in Command : c = current
      BY ZenonT(60), <3>1
    <3>5. CASE Gated(c)
      <4>1. pending' = FALSE
        BY ZenonT(60), <3>1, <3>4, <3>5 DEF GiveBackGate
      <4>2. InFlight(c) /\ ~InFlight(c)' /\ \A d \in Command : InFlight(d)' => InFlight(d)
        BY ZenonT(60), <3>2, <3>3, <3>4
      <4> QED BY ZenonT(60), <3>1, <3>5, <4>1, <4>2, GateLeave
    <3>6. CASE ~Gated(c)
      <4>1. pending' = pending
        BY ZenonT(60), <3>1, <3>4, <3>6 DEF GiveBackGate
      <4> QED BY ZenonT(60), <3>1, <3>2, <3>4, <3>6, <4>1, GateSame
    <3> QED BY <3>5, <3>6
  <2>6. CASE Settle
    <3>1. pc = "settle" /\ queue' = queue /\ pending' = pending /\ ReceiversAlive
      BY ZenonT(60), <2>6 DEF Settle, ReceiversAlive
    <3>2. CASE Gated(current)
      <4>1. current' = current
        BY ZenonT(60), <2>6, <3>2 DEF Settle
      <4> QED BY ZenonT(60), <3>1, <3>2, <4>1, <2>s, GateSame DEF Gated
    <3>3. CASE ~Gated(current)
      <4>1. current' = NoCommand /\ pc' = "top"
        BY ZenonT(60), <2>6, <3>3 DEF Settle
      <4>2. \A d \in Command : Gated(d) => (InFlight(d)' <=> InFlight(d))
        BY ZenonT(60), <3>1, <3>3, <4>1, <2>c, SameQueue DEF InFlight
      <4> QED BY ZenonT(60), <3>1, <4>1, <4>2, GateSame
    <3> QED BY ZenonT(60), <3>2, <3>3
  <2>7. CASE Release
    <3>1. PICK c \in Command : c = current
      BY ZenonT(60), <2>7, <1>t DEF Release, Step, Holding, TypeOK
    <3>2. Gated(c) /\ client[c] \in {"waiting", "gone", "done"}
      BY ZenonT(60), <2>7, <3>1, <1>t DEF Release, Step, GateInv, Slot
    <3>3. queue' = queue /\ current' = NoCommand /\ pending' = FALSE /\ pc' = "top"
      BY ZenonT(60), <2>7 DEF Release, Step
    <3>4. \A d \in Command : InFlight(d)' => InFlight(d)
      BY ZenonT(60), <3>3, <2>c, SameQueue DEF InFlight
    <3>5. InFlight(c) /\ ~InFlight(c)'
      BY ZenonT(60), <3>1, <3>2, <3>3, <2>c, <1>n, SameQueue DEF InFlight
    <3> QED BY ZenonT(60), <3>2, <3>3, <3>4, <3>5, GateLeave
  <2> QED
    BY ZenonT(60), <1>3, <2>1, <2>2, <2>3, <2>4, <2>5, <2>6, <2>7 DEF Writer
<1> QED BY ZenonT(60), <1>1, <1>2, <1>3 DEF Next

\* One watermark at a time: the gate is shut exactly while one watermark
\* submission is under way, and never left shut by a living writer.
THEOREM ExecutorGate == Spec => []GateHasOneOwner
<1>1. Init => GateInv
  <2> SUFFICES ASSUME Init PROVE GateInv
    OBVIOUS
  <2>1. \A c \in Command : ~InFlight(c)
    BY ConfigAssumption DEF Init, InFlight, Queued
  <2> QED BY ZenonT(60), <2>1 DEF Init, GateInv
<1>2. GateInv => GateHasOneOwner
  <2> SUFFICES ASSUME GateInv PROVE GateHasOneOwner
    OBVIOUS
  <2> DEFINE owners == {c \in Command : Gated(c) /\ InFlight(c)}
  <2>1. \A c, d \in owners : c = d
    BY ZenonT(60) DEF GateInv
  <2>2. (owners # {} => pending) /\ ((pending /\ ReceiversAlive) => owners # {})
    BY ZenonT(60) DEF GateInv
  <2> QED BY ZenonT(60), <2>1, <2>2 DEF GateHasOneOwner
<1>3. (AnswerInv /\ GateInv) /\ [Next]_vars => (AnswerInv /\ GateInv)'
  BY ZenonT(60), AnswerStep, GateStep
<1> QED BY <1>1, <1>2, <1>3, AnswerInit, PTL DEF Spec

-----------------------------------------------------------------------------
(* The refinement of SerialWriter.                                         *)

Answered == {"Committed", "Aborted", "Replied"}

\* A slot is answered only once its result is published, and a submitter still
\* waits without an answer only while the writer is about to send it.
Published(c) ==
  /\ client[c] \in {"waiting", "gone"} => state[c] # "Unused"
  /\ (current = c /\ pc = "publish") => state[c] = "Started"
  /\ (current = c /\ pc \in {"reply", "replied", "settle", "release"}) =>
       state[c] \in Answered
  /\ mailbox[c] # "empty" => state[c] \in Answered
  /\ (client[c] = "waiting" /\ mailbox[c] = "empty" /\ state[c] \in Answered) =>
       current = c /\ pc = "reply"

\* No submission is under way once admission is stopped.
NoLateSubmit ==
  stopping => \A c \in Command : client[c] \notin {"arming", "checking", "sending"}

\* The inductive invariant behind the refinement.
WriterInv == AnswerInv /\ NoLateSubmit /\ \A c \in Command : Published(c)

\* PhaseOf as a function of what it reads.
PhaseFrom(st, ran, mine, at, queued) ==
  IF ran THEN "committed"
  ELSE IF st = "Unused" THEN "new"
  ELSE IF st = "Cancelled" THEN "cancelled"
  ELSE IF st = "Accepted" THEN (IF mine /\ at = "ready" THEN "picked"
                                ELSE IF queued \/ mine THEN "queued" ELSE "lost")
  ELSE IF st = "Started" THEN (IF ~mine THEN "lost"
                               ELSE IF at = "executing" THEN "begun" ELSE "aborted")
  ELSE "aborted"

\* The refinement mapping of the phases.
Phases == [c \in Command |-> PhaseOf(c)]

\* The phase of a slot, before a step and after it.
LEMMA PhaseIs ==
  ASSUME NEW c
  PROVE  /\ PhaseOf(c) = PhaseFrom(state[c], c \in executed, current = c, pc, Queued(c))
         /\ PhaseOf(c)' = PhaseFrom(state'[c], c \in executed', current' = c, pc', Queued(c)')
<1>1. PhaseOf(c) = PhaseFrom(state[c], c \in executed, current = c, pc, Queued(c))
  BY ZenonT(60) DEF PhaseOf, PhaseFrom
<1>2. PhaseOf(c)' = PhaseFrom(state'[c], c \in executed', current' = c, pc', Queued(c)')
  BY ZenonT(60) DEF PhaseOf, PhaseFrom
<1> QED BY ZenonT(60), <1>1, <1>2

\* A slot keeps its phase when nothing that it reads changes.
LEMMA PhaseKept ==
  ASSUME NEW c, state'[c] = state[c], c \in executed' <=> c \in executed,
         Queued(c)' <=> Queued(c), current' = c <=> current = c,
         current = c => (pc' = "ready" <=> pc = "ready")
                        /\ (pc' = "executing" <=> pc = "executing")
  PROVE  PhaseOf(c)' = PhaseOf(c)
  BY ZenonT(60), PhaseIs DEF PhaseFrom

\* Steps of SerialWriter, from the phases.
LEMMA MoveFrom ==
  ASSUME NEW S, NEW to,
         \A c \in Command : PhaseOf(c)' = IF c \in S THEN to ELSE PhaseOf(c)
  PROVE  Abstract!Move(S, to)
  BY ZenonT(60) DEF Abstract!Move

LEMMA StutterFrom ==
  ASSUME \A c \in Command : PhaseOf(c)' = PhaseOf(c), UNCHANGED <<outcome, stopping>>
  PROVE  UNCHANGED Abstract!vars
  BY ZenonT(60) DEF Abstract!vars

\* A slot the writer does not hold keeps its facts when nothing of it changes.
LEMMA PublishedKept ==
  ASSUME NEW c, Published(c), state'[c] = state[c], client'[c] = client[c],
         mailbox'[c] = mailbox[c], (current' = current /\ pc' = pc) \/ (current # c /\ current' # c)
  PROVE  Published(c)'
  BY ZenonT(60) DEF Published

\* What a submitter does is a step of SerialWriter on its slot, or none.
LEMMA SubmitterRefines ==
  ASSUME WriterInv, NEW c \in Command, Submitter(c)
  PROVE  /\ NoLateSubmit' /\ \A d \in Command : Published(d)'
         /\ Abstract!Next \/ UNCHANGED Abstract!vars
<1>t. TypeOK /\ Holding /\ Distinct /\ Slot(c) /\ Published(c) /\ NoLateSubmit
  BY ZenonT(60) DEF WriterInv, AnswerInv
<1>p. \A d \in Command : Published(d)
  BY ZenonT(60) DEF WriterInv
<1>f. /\ current' = current /\ pc' = pc /\ result' = result
      /\ \A d \in Command : d # c =>
           /\ state'[d] = state[d] /\ client'[d] = client[d] /\ mailbox'[d] = mailbox[d]
           /\ outcome'[d] = outcome[d] /\ (d \in executed' <=> d \in executed)
  BY ZenonT(60), <1>t, SubmitterFrame
<1>o. \A d \in Command : d # c => Published(d)'
  BY ZenonT(60), <1>f, <1>p, PublishedKept
<1>q. ASSUME NEW d \in Command, d # c, Queued(d)' <=> Queued(d) PROVE PhaseOf(d)' = PhaseOf(d)
  BY ZenonT(60), <1>f, <1>q, PhaseKept
<1>l. ASSUME stopping' = stopping,
             stopping => client'[c] \notin {"arming", "checking", "sending"}
      PROVE  NoLateSubmit'
  BY ZenonT(60), <1>f, <1>l, <1>t DEF NoLateSubmit
<1> USE DEF submitVars, gateVars, flagVars, writerVars, auditVars
<1>s. ASSUME queue' = queue PROVE \A d : Queued(d)' <=> Queued(d)
  BY ZenonT(60), <1>s DEF Queued
<1>k. ASSUME UNCHANGED <<queue, state, executed>> PROVE \A d \in Command : PhaseOf(d)' = PhaseOf(d)
  BY ZenonT(60), <1>s, <1>k, <1>f, PhaseKept
<1>1. ASSUME client[c] \in {"idle", "checking", "sending"}, client'[c] = "done",
             NEW a \in {"Overloaded", "WorkerUnavailable", "WatermarkPending"},
             outcome' = [outcome EXCEPT ![c] = a],
             UNCHANGED <<queue, state, mailbox, executed, stopping>>
      PROVE  /\ NoLateSubmit' /\ Published(c)' /\ Abstract!Next
  <2>1. state[c] = "Unused" /\ c \notin executed /\ outcome[c] = "none"
    BY ZenonT(60), <1>1, <1>t DEF Slot
  <2>2. PhaseOf(c) = "new"
    BY ZenonT(60), <2>1, PhaseIs DEF PhaseFrom
  <2>3. Abstract!Refuse(c)
    <3>1. UNCHANGED Phases /\ Phases[c] = "new"
      BY ZenonT(60), <1>1, <1>k, <2>2 DEF Phases
    <3> QED BY ZenonT(60), <1>1, <2>1, <3>1 DEF Abstract!Refuse, Phases
  <2>4. Published(c)'
    BY ZenonT(60), <1>1, <1>f, <1>t DEF Published
  <2> QED BY ZenonT(60), <1>1, <1>l, <2>3, <2>4 DEF Abstract!Next
<1>2. ASSUME client[c] \in {"idle", "arming", "checking"}, client[c] = "idle" => ~stopping,
             client'[c] \in {"arming", "checking", "sending"},
             UNCHANGED <<queue, state, mailbox, outcome, executed, stopping>>
      PROVE  /\ NoLateSubmit' /\ Published(c)' /\ UNCHANGED Abstract!vars
  <2>1. ~stopping
    BY ZenonT(60), <1>2, <1>t DEF NoLateSubmit
  <2>2. Published(c)'
    BY ZenonT(60), <1>2, <1>f, <1>t DEF Published
  <2>3. UNCHANGED Abstract!vars
    BY ZenonT(60), <1>2, <1>k, StutterFrom
  <2> QED BY ZenonT(60), <1>2, <1>l, <2>1, <2>2, <2>3
<1>3. CASE GateBegin(c)
  <2>1. CASE pending
    <3>1. /\ client[c] = "idle" /\ client'[c] = "done"
          /\ outcome' = [outcome EXCEPT ![c] = "WatermarkPending"]
          /\ UNCHANGED <<queue, state, mailbox, executed, stopping>>
      BY ZenonT(60), <1>3, <1>t, <2>1 DEF GateBegin, Done, TypeOK
    <3> QED BY ZenonT(60), <1>1, <1>o, <3>1
  <2>2. CASE ~pending
    <3>1. /\ client[c] = "idle" /\ ~stopping /\ client'[c] = "arming"
          /\ UNCHANGED <<queue, state, mailbox, outcome, executed, stopping>>
      BY ZenonT(60), <1>3, <1>t, <2>2 DEF GateBegin, Goto, TypeOK
    <3> QED BY ZenonT(60), <1>2, <1>o, <3>1
  <2> QED BY ZenonT(60), <2>1, <2>2
<1>4. CASE GateArm(c)
  <2>1. /\ client[c] = "arming" /\ client'[c] = "checking"
        /\ UNCHANGED <<queue, state, mailbox, outcome, executed, stopping>>
    BY ZenonT(60), <1>4, <1>t DEF GateArm, Goto, TypeOK
  <2> QED BY ZenonT(60), <1>2, <1>o, <2>1
<1>5. CASE SubmitCheck(c)
  <2>1. CASE healthy
    <3>1. /\ client[c] \in {"idle", "checking"} /\ (client[c] = "idle" => ~stopping)
          /\ client'[c] = "sending"
          /\ UNCHANGED <<queue, state, mailbox, outcome, executed, stopping>>
      BY ZenonT(60), <1>5, <1>t, <2>1 DEF SubmitCheck, Goto, TypeOK
    <3> QED BY ZenonT(60), <1>2, <1>o, <3>1
  <2>2. CASE ~healthy
    <3>1. /\ client[c] \in {"idle", "checking"} /\ client'[c] = "done"
          /\ outcome' = [outcome EXCEPT ![c] = "WorkerUnavailable"]
          /\ UNCHANGED <<queue, state, mailbox, executed, stopping>>
      BY ZenonT(60), <1>5, <1>t, <2>2 DEF SubmitCheck, Done, TypeOK
    <3> QED BY ZenonT(60), <1>1, <1>o, <3>1
  <2> QED BY <2>1, <2>2
<1>6. CASE Overloaded(c)
  <2>1. /\ client[c] = "sending" /\ client'[c] = "done"
        /\ outcome' = [outcome EXCEPT ![c] = "Overloaded"]
        /\ UNCHANGED <<queue, state, mailbox, executed, stopping>>
    BY ZenonT(60), <1>6, <1>t DEF Overloaded, Done, TypeOK
  <2> QED BY ZenonT(60), <1>1, <1>o, <2>1
<1>7. CASE Disconnected(c)
  <2>1. /\ client[c] = "sending" /\ client'[c] = "done"
        /\ outcome' = [outcome EXCEPT ![c] = "WorkerUnavailable"]
        /\ UNCHANGED <<queue, state, mailbox, executed, stopping>>
    BY ZenonT(60), <1>7, <1>t DEF Disconnected, Done, TypeOK
  <2> QED BY ZenonT(60), <1>1, <1>o, <2>1
<1>8. CASE Accept(c)
  <2>1. /\ client[c] = "sending" /\ client'[c] = "waiting" /\ state'[c] = "Accepted"
        /\ queue' = [queue EXCEPT ![LaneOf(c)] = Append(@, c)]
        /\ UNCHANGED <<mailbox, outcome, executed, stopping>>
    BY ZenonT(60), <1>8, <1>t DEF Accept, Goto, TypeOK
  <2>2. /\ state[c] = "Unused" /\ c \notin executed /\ outcome[c] = "none"
        /\ ~Queued(c) /\ current # c /\ mailbox[c] = "empty"
    BY ZenonT(60), <2>1, <1>t, ConfigAssumption DEF Slot, Holding, HoldingSteps
  <2>3. \A d : Queued(d)' <=> (Queued(d) \/ d = c)
    BY ZenonT(60), <2>1, <2>2, <1>f, <1>t, AcceptQueue
  <2>4. PhaseOf(c) = "new" /\ PhaseOf(c)' = "queued"
    BY ZenonT(60), <1>f, <2>1, <2>2, <2>3, PhaseIs DEF PhaseFrom
  <2>5. \A d \in Command : PhaseOf(d)' = IF d \in {c} THEN "queued" ELSE PhaseOf(d)
    BY ZenonT(60), <1>q, <2>3, <2>4
  <2>6. ~stopping
    BY ZenonT(60), <2>1, <1>t DEF NoLateSubmit
  <2>7. Abstract!Accept(c)
    <3>1. Phases[c] = "new"
      BY ZenonT(60), <2>4 DEF Phases
    <3> QED BY ZenonT(60), <2>1, <2>2, <2>5, <2>6, <3>1, MoveFrom DEF Abstract!Accept, Phases
  <2>8. Published(c)'
    BY ZenonT(60), <1>f, <2>1, <2>2 DEF Published, Answered
  <2> QED BY ZenonT(60), <1>l, <1>o, <2>1, <2>7, <2>8 DEF Abstract!Next
<1>9. CASE Receive(c)
  <2>1. /\ client[c] = "waiting" /\ client'[c] = "done"
        /\ UNCHANGED <<queue, state, mailbox, executed, stopping>>
    BY ZenonT(60), <1>9, <1>t DEF Receive, Done, TypeOK
  <2>2. outcome[c] = "none"
    BY ZenonT(60), <2>1, <1>t DEF Slot
  <2>3. PICK a : /\ outcome' = [outcome EXCEPT ![c] = a]
                 /\ \/ mailbox[c] = "ok" /\ a = "Ok"
                    \/ mailbox[c] = "err" /\ a = "Backend"
                    \/ /\ mailbox[c] = "empty" /\ ~Queued(c) /\ current # c
                       /\ \/ state[c] = "Cancelled" /\ a = "Cancelled"
                          \/ state[c] # "Cancelled" /\ a = "WorkerUnavailable"
    BY ZenonT(60), <1>9 DEF Receive, Done
  <2>4. a \in Abstract!Truth(c)
    <3> DEFINE ph == PhaseOf(c)
    <3>1. \/ ph = "committed" /\ a \in {"Ok", "WorkerUnavailable"}
          \/ ph = "aborted" /\ a = "Backend"
          \/ ph = "cancelled" /\ a = "Cancelled"
          \/ ph = "lost" /\ a = "WorkerUnavailable"
      <4>s. state[c] # "Unused"
        BY ZenonT(60), <2>1, <1>t DEF Published
      <4>1. CASE mailbox[c] = "ok"
        <5>1. c \in executed
          BY ZenonT(60), <4>1, <1>t DEF Slot
        <5> QED BY ZenonT(60), <2>3, <4>1, <5>1, PhaseIs DEF PhaseFrom
      <4>2. CASE mailbox[c] = "err"
        <5>1. c \notin executed /\ state[c] \in Answered
          BY ZenonT(60), <4>2, <1>t DEF Slot, Published
        <5> QED BY ZenonT(60), <2>3, <4>2, <5>1, PhaseIs DEF PhaseFrom, Answered
      <4>3. CASE mailbox[c] = "empty"
        <5>1. ~Queued(c) /\ current # c
          BY ZenonT(60), <2>3, <4>3
        <5>2. state[c] \notin Answered
          BY ZenonT(60), <2>1, <4>3, <5>1, <1>t DEF Published
        <5>3. state[c] = "Cancelled" => c \notin executed
          BY ZenonT(60), <1>t DEF Slot
        <5>4. state[c] \in {"Accepted", "Cancelled", "Started"}
          BY ZenonT(60), <4>s, <5>2, <1>t DEF Answered, TypeOK
        <5>5. \/ state[c] = "Cancelled" /\ a = "Cancelled"
              \/ state[c] # "Cancelled" /\ a = "WorkerUnavailable"
          BY ZenonT(60), <2>3, <4>3
        <5> QED BY ZenonT(60), <5>1, <5>3, <5>4, <5>5, PhaseIs DEF PhaseFrom
      <4> QED BY ZenonT(60), <2>3, <4>1, <4>2, <4>3
    <3>2. Phases[c] = ph
      BY ZenonT(60) DEF Phases
    <3> HIDE DEF ph
    <3> QED BY ZenonT(60), <3>1, <3>2 DEF Abstract!Truth, Phases
  <2>5. Abstract!Tell(c)
    <3>1. UNCHANGED Phases
      BY ZenonT(60), <1>k, <2>1 DEF Phases
    <3> QED BY ZenonT(60), <2>1, <2>2, <2>3, <2>4, <3>1 DEF Abstract!Tell, Phases
  <2>6. Published(c)'
    BY ZenonT(60), <1>f, <1>t, <2>1 DEF Published
  <2> QED BY ZenonT(60), <1>l, <1>o, <2>1, <2>5, <2>6 DEF Abstract!Next
<1>10. CASE Disconnect(c)
  <2>1. /\ client[c] = "waiting" /\ client'[c] = "gone"
        /\ UNCHANGED <<queue, state, mailbox, outcome, executed, stopping>>
    BY ZenonT(60), <1>10, <1>t DEF Disconnect, Goto, TypeOK
  <2>2. Published(c)'
    BY ZenonT(60), <1>f, <1>t, <2>1 DEF Published
  <2>3. UNCHANGED Abstract!vars
    BY ZenonT(60), <2>1, <1>k, StutterFrom
  <2> QED BY ZenonT(60), <1>l, <1>o, <2>1, <2>2, <2>3
<1>11. CASE Reuse(c)
  <2>1. /\ client'[c] = "idle" /\ outcome' = [outcome EXCEPT ![c] = "none"]
        /\ state'[c] = "Unused" /\ mailbox'[c] = "empty" /\ c \notin executed'
        /\ ~Queued(c) /\ current # c /\ UNCHANGED <<queue, stopping>>
    BY ZenonT(60), <1>11, <1>t DEF Reuse, TypeOK
  <2>2. PhaseOf(c)' = "new" /\ PhaseOf(c) \notin {"queued", "picked", "begun"}
    BY ZenonT(60), <2>1, PhaseIs DEF PhaseFrom
  <2>3. \A d \in Command : PhaseOf(d)' = IF d \in {c} THEN "new" ELSE PhaseOf(d)
    BY ZenonT(60), <1>q, <1>s, <2>1, <2>2
  <2>4. Abstract!Renew(c)
    <3>1. Phases[c] \notin {"queued", "picked", "begun"}
      BY ZenonT(60), <2>2 DEF Phases
    <3> QED BY ZenonT(60), <2>1, <2>3, <3>1, MoveFrom DEF Abstract!Renew, Phases
  <2>5. Published(c)'
    BY ZenonT(60), <1>f, <2>1 DEF Published
  <2> QED BY ZenonT(60), <1>l, <1>o, <2>1, <2>4, <2>5 DEF Abstract!Next
<1> QED
  BY ZenonT(60), <1>3, <1>4, <1>5, <1>6, <1>7, <1>8, <1>9, <1>10, <1>11 DEF Submitter

\* What the writer does to the message in hand leaves the other slots alone.
LEMMA HolderFrame ==
  ASSUME WriterInv, NEW c \in Command, c = current, current' \in {c, NoCommand}, queue' = queue,
         UNCHANGED <<client, outcome, stopping>>,
         \A d \in Command : d # c =>
           /\ state'[d] = state[d] /\ mailbox'[d] = mailbox[d]
           /\ (d \in executed' <=> d \in executed),
         Published(c)'
  PROVE  /\ NoLateSubmit' /\ \A d \in Command : Published(d)'
         /\ \A d \in Command : d # c => PhaseOf(d)' = PhaseOf(d)
<1>1. NoLateSubmit'
  BY ZenonT(60) DEF WriterInv, NoLateSubmit
<1>2. ASSUME NEW d \in Command, d # c PROVE Published(d)' /\ PhaseOf(d)' = PhaseOf(d)
  <2>1. d # current' /\ (Queued(d)' <=> Queued(d)) /\ Published(d)
    BY ZenonT(60), <1>2, ConfigAssumption DEF Queued, WriterInv
  <2> QED BY ZenonT(60), <1>2, <2>1, PublishedKept, PhaseKept
<1> QED BY ZenonT(60), <1>1, <1>2

\* What is known of the message in hand.
LEMMA InHand ==
  ASSUME WriterInv, pc \in HoldingSteps
  PROVE  current \in Command /\ Slot(current) /\ Published(current) /\ ~Queued(current)
<1>1. current \in Command
  BY ZenonT(60) DEF WriterInv, AnswerInv, TypeOK, Holding
<1> QED BY ZenonT(60), <1>1 DEF WriterInv, AnswerInv, Distinct, Queued

\* Passing the last look at the stop flag picks the message; starting it, and
\* the backend's answer, are the steps of the same name.
LEMMA ExecutionRefines ==
  ASSUME WriterInv, WorkerProceed \/ CancelClosed \/ Start \/ ExecuteOk \/ ExecuteErr
  PROVE  NoLateSubmit' /\ (\A d \in Command : Published(d)') /\ Abstract!Next
<1> USE DEF submitVars, gateVars, flagVars, writerVars, auditVars
<1>t. TypeOK
  BY ZenonT(60) DEF WriterInv, AnswerInv
<1>1. /\ pc \in {"selected", "ready", "executing"} /\ current' \in {current, NoCommand}
      /\ UNCHANGED <<queue, client, mailbox, outcome, stopping>>
  BY ZenonT(60) DEF WorkerProceed, CancelClosed, Start, ExecuteOk, ExecuteErr, Step
<1>c. PICK c \in Command : c = current
  BY ZenonT(60), <1>1, InHand DEF HoldingSteps
<1>2. c \in Command /\ c = current /\ Slot(c) /\ Published(c) /\ ~Queued(c)
  BY ZenonT(60), <1>1, <1>c, InHand DEF HoldingSteps
<1>3. \A d \in Command : d # c => state'[d] = state[d] /\ (d \in executed' <=> d \in executed)
  <2>1. CASE WorkerProceed
    BY ZenonT(60), <1>2, <2>1 DEF WorkerProceed
  <2>3. CASE ExecuteOk
    BY ZenonT(60), <1>2, <1>t, <2>3 DEF ExecuteOk, TypeOK
  <2>4. CASE ExecuteErr
    BY ZenonT(60), <1>2, <1>t, <2>4 DEF ExecuteErr, TypeOK
  <2>2. CASE CancelClosed \/ Start
    BY ZenonT(60), <1>2, <1>t, <2>2 DEF CancelClosed, Start, TypeOK
  <2> QED BY ZenonT(60), <2>1, <2>2, <2>3, <2>4
<1>4. ASSUME Published(c)'
      PROVE  /\ NoLateSubmit' /\ \A d \in Command : Published(d)'
             /\ \A d \in Command : d # c => PhaseOf(d)' = PhaseOf(d)
  BY ZenonT(60), <1>1, <1>2, <1>3, <1>4, HolderFrame
<1>5. ASSUME NEW to, PhaseOf(c)' = to, Published(c)'
      PROVE  /\ NoLateSubmit' /\ \A d \in Command : Published(d)'
             /\ Abstract!Move({c}, to)
  <2>1. /\ NoLateSubmit' /\ \A d \in Command : Published(d)'
        /\ \A d \in Command : d # c => PhaseOf(d)' = PhaseOf(d)
    BY ZenonT(60), <1>4, <1>5
  <2>2. \A d \in Command : PhaseOf(d)' = IF d \in {c} THEN to ELSE PhaseOf(d)
    BY ZenonT(60), <1>5, <2>1
  <2> QED BY ZenonT(60), <2>1, <2>2, MoveFrom
<1>p. Phases[c] = PhaseOf(c)
  BY ZenonT(60), <1>2 DEF Phases
<1>q. c \notin executed /\ mailbox[c] = "empty"
  BY ZenonT(60), <1>1, <1>2 DEF Slot
<1>6. CASE WorkerProceed
  <2>1. /\ pc = "selected" /\ pc' = "ready" /\ ~stopping
        /\ UNCHANGED <<state, current, executed>>
    BY ZenonT(60), <1>6 DEF WorkerProceed, Step
  <2>2. state[c] = "Accepted"
    BY ZenonT(60), <1>2, <2>1 DEF Slot
  <2>3. PhaseOf(c) = "queued" /\ PhaseOf(c)' = "picked"
    BY ZenonT(60), <1>2, <1>q, <2>1, <2>2, PhaseIs DEF PhaseFrom
  <2>4. \A d \in Command : PhaseOf(d) \notin {"picked", "begun"}
    BY ZenonT(60), <2>1, PhaseIs DEF PhaseFrom
  <2>5. \A d \in Command : Phases[d] \notin {"picked", "begun"}
    BY ZenonT(60), <2>4 DEF Phases
  <2>6. Published(c)'
    BY ZenonT(60), <1>1, <1>2, <2>1, <2>2 DEF Published
  <2>7. Abstract!Pick(c)
    BY ZenonT(60), <1>1, <1>2, <1>5, <1>p, <2>1, <2>3, <2>5, <2>6 DEF Abstract!Pick, Phases
  <2> QED BY ZenonT(60), <1>2, <1>5, <2>3, <2>6, <2>7 DEF Abstract!Next
<1>7. CASE CancelClosed
  <2>1. pc = "ready" /\ current' = NoCommand /\ state'[c] = "Cancelled" /\ executed' = executed
    BY ZenonT(60), <1>2, <1>7, <1>t DEF CancelClosed, Step, TypeOK
  <2>2. state[c] = "Accepted"
    BY ZenonT(60), <1>2, <2>1 DEF Slot
  <2>3. PhaseOf(c) = "picked" /\ PhaseOf(c)' = "cancelled"
    BY ZenonT(60), <1>2, <1>q, <2>1, <2>2, PhaseIs DEF PhaseFrom
  <2>4. Published(c)'
    BY ZenonT(60), <1>1, <1>2, <1>q, <2>1, ConfigAssumption DEF Published, Answered
  <2>5. {c} \in SUBSET {d \in Command : Phases[d] \in {"queued", "picked"}}
    BY ZenonT(60), <1>2, <1>p, <2>3
  <2>6. Abstract!Cancel
    BY ZenonT(60), <1>1, <1>5, <2>3, <2>4, <2>5 DEF Abstract!Cancel, Phases
  <2> QED BY ZenonT(60), <1>5, <2>3, <2>4, <2>6 DEF Abstract!Next
<1>8. CASE Start
  <2>1. /\ pc = "ready" /\ pc' = "executing" /\ state'[c] = "Started"
        /\ UNCHANGED <<executed, current>>
    BY ZenonT(60), <1>2, <1>8, <1>t DEF Start, Step, TypeOK
  <2>2. state[c] = "Accepted"
    BY ZenonT(60), <1>2, <2>1 DEF Slot
  <2>3. PhaseOf(c) = "picked" /\ PhaseOf(c)' = "begun"
    BY ZenonT(60), <1>2, <1>q, <2>1, <2>2, PhaseIs DEF PhaseFrom
  <2>4. Published(c)'
    BY ZenonT(60), <1>1, <1>q, <2>1 DEF Published, Answered
  <2>5. Abstract!Begin(c)
    BY ZenonT(60), <1>1, <1>5, <1>p, <2>3, <2>4 DEF Abstract!Begin, Phases
  <2> QED BY ZenonT(60), <1>2, <1>5, <2>3, <2>4, <2>5 DEF Abstract!Next
<1>9. CASE ExecuteOk \/ ExecuteErr
  <2>1. /\ pc = "executing" /\ pc' = "publish" /\ UNCHANGED <<state, current>>
        /\ executed' \in {executed, executed \cup {c}}
    BY ZenonT(60), <1>2, <1>9 DEF ExecuteOk, ExecuteErr, Step
  <2>2. state[c] = "Started"
    BY ZenonT(60), <1>2, <2>1 DEF Slot
  <2>3. PhaseOf(c) = "begun" /\ PhaseOf(c)' \in {"committed", "aborted"}
    BY ZenonT(60), <1>2, <1>q, <2>1, <2>2, PhaseIs DEF PhaseFrom
  <2>4. Published(c)'
    BY ZenonT(60), <1>1, <1>2, <2>1, <2>2 DEF Published
  <2>5. Abstract!Move({c}, "committed") \/ Abstract!Move({c}, "aborted")
    BY ZenonT(60), <1>5, <2>3, <2>4
  <2>6. Abstract!Finish(c)
    BY ZenonT(60), <1>1, <1>p, <2>3, <2>5 DEF Abstract!Finish, Phases
  <2> QED BY ZenonT(60), <1>2, <1>4, <2>4, <2>6 DEF Abstract!Next
<1> QED BY ZenonT(60), <1>6, <1>7, <1>8, <1>9

\* Publishing the result, answering and finishing are not visible to callers.
LEMMA ReplyRefines ==
  ASSUME WriterInv, Publish \/ Reply \/ MarkReplied \/ Settle \/ Release
  PROVE  NoLateSubmit' /\ (\A d \in Command : Published(d)') /\ UNCHANGED Abstract!vars
<1> USE DEF submitVars, gateVars, flagVars, writerVars, auditVars
<1>t. TypeOK /\ Holding
  BY DEF WriterInv, AnswerInv
<1>1. /\ pc \in {"publish", "reply", "replied", "settle", "release"}
      /\ current' \in {current, NoCommand}
      /\ UNCHANGED <<queue, client, outcome, executed, stopping>>
  BY ZenonT(60) DEF Publish, Reply, MarkReplied, Settle, Release, Step
<1>c. PICK c \in Command : c = current
  BY ZenonT(60), <1>1, InHand DEF HoldingSteps
<1>2. c = current /\ Slot(c) /\ Published(c) /\ ~Queued(c)
  BY ZenonT(60), <1>1, <1>c, InHand DEF HoldingSteps
<1>3. \A d \in Command : d # c => state'[d] = state[d] /\ mailbox'[d] = mailbox[d]
  BY ZenonT(60), <1>2, <1>t DEF Publish, Reply, MarkReplied, Settle, Release, TypeOK
<1>4. ASSUME Published(c)', PhaseOf(c)' = PhaseOf(c)
      PROVE  NoLateSubmit' /\ (\A d \in Command : Published(d)') /\ UNCHANGED Abstract!vars
  <2>1. /\ NoLateSubmit' /\ \A d \in Command : Published(d)'
        /\ \A d \in Command : d # c => PhaseOf(d)' = PhaseOf(d)
    BY ZenonT(60), <1>1, <1>2, <1>3, <1>4, HolderFrame
  <2> QED BY ZenonT(60), <1>1, <1>4, <2>1, StutterFrom
<1>5. ASSUME state[c] \in Answered, state'[c] \in Answered PROVE PhaseOf(c)' = PhaseOf(c)
  BY ZenonT(60), <1>1, <1>5, PhaseIs DEF PhaseFrom, Answered
<1>6. CASE Publish
  <2>1. /\ pc = "publish" /\ pc' = "reply" /\ current' = c /\ mailbox' = mailbox
        /\ state'[c] = IF result = "ok" THEN "Committed" ELSE "Aborted"
    BY ZenonT(60), <1>2, <1>6, <1>t DEF Publish, Step, TypeOK
  <2>2. /\ state[c] = "Started" /\ (c \in executed <=> result = "ok")
        /\ mailbox[c] = "empty"
    BY ZenonT(60), <1>2, <2>1 DEF Slot, Published
  <2>3. PhaseOf(c)' = PhaseOf(c)
    BY ZenonT(60), <1>1, <1>2, <2>1, <2>2, PhaseIs DEF PhaseFrom
  <2>4. state'[c] \in Answered
    BY ZenonT(60), <2>1 DEF Answered
  <2>5. Published(c)'
    BY ZenonT(60), <1>1, <1>2, <2>1, <2>2, <2>4 DEF Published, Answered
  <2> QED BY ZenonT(60), <1>4, <2>3, <2>5
<1>7. CASE Reply
  <2>1. state[c] \in Answered /\ client[c] \in {"waiting", "gone"}
    <3>1. pc = "reply"
      BY ZenonT(60), <1>7 DEF Reply
    <3> QED BY ZenonT(60), <1>2, <3>1 DEF Slot, Published
  <2>2. /\ state' = state /\ current' = c
        /\ \/ client[c] = "gone" /\ pc' = "settle" /\ mailbox' = mailbox
           \/ client[c] # "gone" /\ pc' = "replied" /\ mailbox'[c] = result
    BY ZenonT(60), <1>2, <1>7, <1>t DEF Reply, TypeOK
  <2>3. result # "empty"
    BY ZenonT(60), <1>t DEF TypeOK
  <2>4. Published(c)'
    <3>1. CASE client[c] = "gone"
      BY ZenonT(60), <1>1, <1>2, <2>1, <2>2, <3>1 DEF Published
    <3>2. CASE client[c] # "gone"
      BY ZenonT(60), <1>1, <1>2, <2>1, <2>2, <2>3, <3>2 DEF Published
    <3> QED BY ZenonT(60), <3>1, <3>2
  <2> QED BY ZenonT(60), <1>4, <1>5, <2>1, <2>2, <2>4
<1>8. CASE MarkReplied \/ Settle \/ Release
  <2>1. /\ pc \in {"replied", "settle", "release"} /\ mailbox' = mailbox
        /\ state'[c] \in {state[c], "Replied"}
        /\ current' = NoCommand \/ pc' \in {"settle", "release"}
    BY ZenonT(60), <1>2, <1>8, <1>t DEF MarkReplied, Settle, Release, Step, TypeOK
  <2>2. state[c] \in Answered /\ state'[c] \in Answered
    <3>1. state[c] \in Answered
      BY ZenonT(60), <1>2, <2>1 DEF Published
    <3> QED BY ZenonT(60), <2>1, <3>1 DEF Answered
  <2>3. ~(client[c] = "waiting" /\ mailbox[c] = "empty") /\ state'[c] # "Unused"
    <3>1. ~(client[c] = "waiting" /\ mailbox[c] = "empty")
      BY ZenonT(60), <1>2, <2>1, <2>2 DEF Published
    <3> QED BY ZenonT(60), <2>2, <3>1 DEF Answered
  <2>4. Published(c)'
    <3>1. pc' # "publish" \/ current' # c
      BY ZenonT(60), <2>1, ConfigAssumption
    <3> QED BY ZenonT(60), <1>1, <2>1, <2>2, <2>3, <3>1 DEF Published
  <2> QED BY ZenonT(60), <1>4, <1>5, <2>2, <2>4
<1> QED BY ZenonT(60), <1>6, <1>7, <1>8

\* A step that touches no slot and leaves the writer without a message.
LEMMA IdleFrame ==
  ASSUME WriterInv, pc \notin HoldingSteps, pc' \notin HoldingSteps, UNCHANGED current,
         UNCHANGED <<state, client, mailbox, outcome, executed, stopping>>
  PROVE  /\ NoLateSubmit' /\ \A d \in Command : Published(d)'
         /\ \A d \in Command : d # current /\ d # current'
<1>1. NoLateSubmit'
  BY ZenonT(60) DEF WriterInv, NoLateSubmit
<1>2. \A d \in Command : d # current /\ d # current'
  BY ZenonT(60), ConfigAssumption DEF WriterInv, AnswerInv, Holding
<1>3. ASSUME NEW d \in Command PROVE Published(d)'
  <2>1. Published(d)
    BY ZenonT(60) DEF WriterInv
  <2> QED BY ZenonT(60), <1>2, <2>1, PublishedKept
<1> QED BY ZenonT(60), <1>1, <1>2, <1>3

\* Taking turns and parking are not visible; leaving with messages in the lanes
\* loses them.
LEMMA IdleRefines ==
  ASSUME WriterInv, WorkerTurn \/ WorkerPark \/ ReportPanic \/ WorkerIdleExit
  PROVE  /\ NoLateSubmit' /\ \A d \in Command : Published(d)'
         /\ Abstract!Next \/ UNCHANGED Abstract!vars
<1> USE DEF submitVars, gateVars, flagVars, writerVars, auditVars
<1>1. /\ pc \notin HoldingSteps /\ pc' \notin HoldingSteps
      /\ UNCHANGED <<current, state, client, mailbox, outcome, executed, stopping>>
  BY ZenonT(60) DEF WorkerTurn, WorkerPark, ReportPanic, WorkerIdleExit, Step, HoldingSteps
<1>2. /\ NoLateSubmit' /\ \A d \in Command : Published(d)'
      /\ \A d \in Command : d # current /\ d # current'
  BY ZenonT(60), <1>1, IdleFrame
<1>3. CASE WorkerTurn \/ WorkerPark \/ ReportPanic
  <2>1. queue' = queue
    BY ZenonT(60), <1>3 DEF WorkerTurn, WorkerPark, ReportPanic
  <2>2. \A d \in Command : PhaseOf(d)' = PhaseOf(d)
    <3>1. \A d : Queued(d)' <=> Queued(d)
      BY ZenonT(60), <2>1 DEF Queued
    <3> QED BY ZenonT(60), <1>1, <1>2, <3>1, PhaseKept
  <2> QED BY ZenonT(60), <1>1, <1>2, <2>2, StutterFrom
<1>4. CASE WorkerIdleExit
  <2>1. \A d : ~Queued(d)'
    BY ZenonT(60), <1>4, EmptyQueue DEF WorkerIdleExit
  <2>2. ASSUME NEW d \in Command
        PROVE  PhaseOf(d)' = IF d \in {} THEN "committed"
                             ELSE IF PhaseOf(d) \in {"queued", "begun"} THEN "lost"
                             ELSE PhaseOf(d)
    <3>1. Slot(d) /\ state'[d] = state[d] /\ (d \in executed' <=> d \in executed)
          /\ current # d /\ current' # d /\ ~Queued(d)'
      BY ZenonT(60), <1>1, <1>2, <2>1 DEF WriterInv, AnswerInv
    <3>2. Queued(d) => state[d] = "Accepted"
      BY ZenonT(60), <3>1 DEF Slot
    <3> QED BY ZenonT(60), <3>1, <3>2, PhaseIs DEF PhaseFrom
  <2>3. Abstract!Lose
    <3>1. {} \in SUBSET {d \in Command : Phases[d] = "begun"}
      OBVIOUS
    <3>2. Phases' = [d \in Command |-> IF d \in {} THEN "committed"
                                      ELSE IF Phases[d] \in {"queued", "begun"} THEN "lost"
                                      ELSE Phases[d]]
      BY ZenonT(60), <2>2 DEF Phases
    <3> QED BY ZenonT(60), <1>1, <3>1, <3>2 DEF Abstract!Lose, Phases
  <2> QED BY ZenonT(60), <1>2, <2>3 DEF Abstract!Next
<1> QED BY ZenonT(60), <1>3, <1>4

\* Taking a message from its lane is not visible.
LEMMA SelectRefines ==
  ASSUME WriterInv, SelectMessage
  PROVE  NoLateSubmit' /\ (\A d \in Command : Published(d)') /\ UNCHANGED Abstract!vars
<1> USE DEF submitVars, gateVars, flagVars, writerVars, auditVars
<1>t. TypeOK /\ Holding /\ Distinct
  BY ZenonT(60) DEF WriterInv, AnswerInv
<1>1. PICK at \in {"forced", "urgent", "recovery", "data"}, l \in Lane,
           next \in {"urgent", "recovery", "data", "nothing"}, n \in {0, StreakUp} : TryRecv(at, l, next, n)
  BY ZenonT(60) DEF SelectMessage, Lane
<1>2. /\ pc = at /\ pc \notin HoldingSteps
      /\ UNCHANGED <<state, client, mailbox, outcome, executed, stopping>>
  BY ZenonT(60), <1>1 DEF TryRecv, HoldingSteps
<1>3. CASE queue[l] = <<>>
  <2>1. pc' \notin HoldingSteps /\ current' = current /\ queue' = queue
    BY ZenonT(60), <1>1, <1>3 DEF TryRecv, HoldingSteps
  <2>2. /\ NoLateSubmit' /\ \A d \in Command : Published(d)'
        /\ \A d \in Command : d # current /\ d # current'
    BY ZenonT(60), <1>2, <2>1, IdleFrame
  <2>3. \A d : Queued(d)' <=> Queued(d)
    BY ZenonT(60), <2>1 DEF Queued
  <2>4. \A d \in Command : PhaseOf(d)' = PhaseOf(d)
    BY ZenonT(60), <1>2, <2>2, <2>3, PhaseKept
  <2> QED BY ZenonT(60), <1>2, <2>2, <2>4, StutterFrom
<1>4. CASE queue[l] # <<>>
  <2>1. /\ current' = Head(queue[l]) /\ queue' = [queue EXCEPT ![l] = Tail(@)]
        /\ pc' = "selected"
    BY ZenonT(60), <1>1, <1>4 DEF TryRecv
  <2>2. /\ Queued(current') /\ \A d : Queued(d)' <=> (Queued(d) /\ d # current')
    BY ZenonT(60), <1>4, <1>t, <2>1, RecvQueue
  <2>3. NoLateSubmit'
    BY ZenonT(60), <1>2 DEF WriterInv, NoLateSubmit
  <2>4. ASSUME NEW d \in Command PROVE Published(d)' /\ PhaseOf(d)' = PhaseOf(d)
    <3>1. Slot(d) /\ Published(d) /\ current # d
      BY ZenonT(60), <1>2, <1>t, ConfigAssumption DEF WriterInv, AnswerInv, Holding
    <3>2. Published(d)'
      BY ZenonT(60), <1>2, <2>1, <3>1 DEF Published
    <3>3. Queued(d) => state[d] = "Accepted"
      BY ZenonT(60), <3>1 DEF Slot
    <3>4. d = current' => Queued(d)
      BY ZenonT(60), <2>2
    <3>5. PhaseOf(d)' = PhaseOf(d)
      BY ZenonT(60), <1>2, <2>1, <2>2, <3>1, <3>3, <3>4, PhaseIs DEF PhaseFrom, HoldingSteps
    <3> QED BY ZenonT(60), <3>2, <3>5
  <2> QED BY ZenonT(60), <1>2, <2>3, <2>4, StutterFrom
<1> QED BY ZenonT(60), <1>3, <1>4

\* Stopping cancels what has not begun.
LEMMA StopRefines ==
  ASSUME WriterInv, WorkerStop \/ WorkerStopSelected
  PROVE  NoLateSubmit' /\ (\A d \in Command : Published(d)') /\ Abstract!Next
<1> USE DEF submitVars, gateVars, flagVars, writerVars, auditVars
<1> DEFINE doomed == {c \in Command : Queued(c) \/ current = c}
<1>1. /\ pc \in {"top", "selected"} /\ pc' = "exited" /\ CancelAll
      /\ UNCHANGED <<client, mailbox, outcome, executed, stopping>>
  BY ZenonT(60) DEF WorkerStop, WorkerStopSelected, Step
<1>2. /\ queue' = [l \in Lane |-> <<>>] /\ current' = NoCommand
      /\ \A d \in Command : state'[d] = IF d \in doomed THEN "Cancelled" ELSE state[d]
  BY ZenonT(60), <1>1 DEF CancelAll
<1>3. \A d : ~Queued(d)'
  BY ZenonT(60), <1>2, EmptyQueue
<1>4. NoLateSubmit'
  BY ZenonT(60), <1>1 DEF WriterInv, NoLateSubmit
<1>5. ASSUME NEW d \in Command
      PROVE  /\ Published(d)'
             /\ d \in doomed => PhaseOf(d) \in {"queued", "picked"}
             /\ PhaseOf(d)' = IF d \in doomed THEN "cancelled" ELSE PhaseOf(d)
  <2>1. Slot(d) /\ Published(d) /\ current' # d /\ ~Queued(d)'
    BY ZenonT(60), <1>2, <1>3, ConfigAssumption DEF WriterInv, AnswerInv
  <2>2. CASE d \in doomed
    <3>1. state'[d] = "Cancelled" /\ (Queued(d) \/ current = d)
      BY ZenonT(60), <1>2, <2>2
    <3>2. current = d => pc = "selected"
      BY ZenonT(60), <1>1, ConfigAssumption DEF WriterInv, AnswerInv, Holding, HoldingSteps
    <3>3. state[d] = "Accepted" /\ mailbox[d] = "empty" /\ d \notin executed
      BY ZenonT(60), <2>1, <3>1, <3>2 DEF Slot
    <3>4. Published(d)'
      BY ZenonT(60), <1>1, <2>1, <3>1, <3>3 DEF Published, Answered
    <3>5. PhaseOf(d) \in {"queued", "picked"} /\ PhaseOf(d)' = "cancelled"
      BY ZenonT(60), <1>1, <3>1, <3>3, PhaseIs DEF PhaseFrom
    <3> QED BY ZenonT(60), <2>2, <3>4, <3>5
  <2>3. CASE d \notin doomed
    <3>1. state'[d] = state[d] /\ ~Queued(d) /\ current # d
      BY ZenonT(60), <1>2, <2>3
    <3>2. Published(d)'
      BY ZenonT(60), <1>1, <2>1, <3>1, PublishedKept
    <3>3. PhaseOf(d)' = PhaseOf(d)
      BY ZenonT(60), <1>1, <2>1, <3>1, PhaseKept
    <3> QED BY ZenonT(60), <2>3, <3>2, <3>3
  <2> QED BY ZenonT(60), <2>2, <2>3
<1> HIDE DEF doomed
<1>6. doomed \in SUBSET {d \in Command : Phases[d] \in {"queued", "picked"}}
  BY ZenonT(60), <1>5 DEF Phases, doomed
<1>7. Abstract!Move(doomed, "cancelled")
  <2>1. \A d \in Command : PhaseOf(d)' = IF d \in doomed THEN "cancelled" ELSE PhaseOf(d)
    BY ZenonT(60), <1>5
  <2> QED BY ZenonT(60), <2>1, MoveFrom
<1>8. Abstract!Cancel
  BY ZenonT(60), <1>1, <1>6, <1>7 DEF Abstract!Cancel, Phases
<1> QED BY ZenonT(60), <1>4, <1>5, <1>8 DEF Abstract!Next

\* A panic loses what the writer had not finished, unless the transaction in
\* hand had committed.
LEMMA PanicRefines ==
  ASSUME WriterInv, Panic
  PROVE  NoLateSubmit' /\ (\A d \in Command : Published(d)') /\ Abstract!Next
<1> USE DEF submitVars, gateVars, flagVars, writerVars, auditVars
<1>1. /\ pc = "executing" /\ pc' = "unwound" /\ current' = NoCommand
      /\ queue' = [l \in Lane |-> <<>>]
      /\ UNCHANGED <<state, client, mailbox, outcome, stopping>>
  BY ZenonT(60) DEF Panic, Step
<1>c. PICK c \in Command : c = current
  BY ZenonT(60), <1>1, InHand DEF HoldingSteps
<1>2. c = current /\ Slot(c) /\ Published(c)
  BY ZenonT(60), <1>1, <1>c, InHand DEF HoldingSteps
<1>3. PICK kept \in SUBSET {c} : executed' = executed \cup kept
  <2>1. executed' = executed \cup {} \/ executed' = executed \cup {c}
    BY ZenonT(60), <1>2 DEF Panic
  <2>2. {} \in SUBSET {c} /\ {c} \in SUBSET {c}
    OBVIOUS
  <2> QED BY ZenonT(60), <2>1, <2>2
<1>4. (\A d : ~Queued(d)') /\ NoLateSubmit'
  BY ZenonT(60), <1>1, EmptyQueue DEF WriterInv, NoLateSubmit
<1>5. PhaseOf(c) = "begun" /\ c \notin executed /\ state[c] = "Started"
  <2>1. c \notin executed /\ state[c] = "Started"
    BY ZenonT(60), <1>1, <1>2 DEF Slot
  <2> QED BY ZenonT(60), <1>1, <1>2, <2>1, PhaseIs DEF PhaseFrom
<1>6. ASSUME NEW d \in Command
      PROVE  /\ Published(d)'
             /\ PhaseOf(d)' = IF d \in kept THEN "committed"
                              ELSE IF PhaseOf(d) \in {"queued", "begun"} THEN "lost"
                              ELSE PhaseOf(d)
  <2>1. Slot(d) /\ Published(d) /\ current' # d /\ ~Queued(d)' /\ state'[d] = state[d]
    BY ZenonT(60), <1>1, <1>4, ConfigAssumption DEF WriterInv, AnswerInv
  <2>2. Published(d)'
    BY ZenonT(60), <1>1, <2>1 DEF Published
  <2>3. CASE d = c
    <3>1. d \in executed' <=> d \in kept
      BY ZenonT(60), <1>3, <1>5, <2>3
    <3>2. PhaseOf(d)' = IF d \in kept THEN "committed" ELSE "lost"
      BY ZenonT(60), <1>5, <2>1, <2>3, <3>1, PhaseIs DEF PhaseFrom
    <3> QED BY ZenonT(60), <1>5, <2>2, <2>3, <3>2
  <2>4. CASE d # c
    <3>1. (d \in executed' <=> d \in executed) /\ d \notin kept
      BY ZenonT(60), <1>3, <2>4
    <3>2. Queued(d) => state[d] = "Accepted"
      BY ZenonT(60), <2>1 DEF Slot
    <3>3. PhaseOf(d)' = IF PhaseOf(d) \in {"queued", "begun"} THEN "lost" ELSE PhaseOf(d)
      BY ZenonT(60), <1>2, <2>1, <2>4, <3>1, <3>2, PhaseIs DEF PhaseFrom
    <3> QED BY ZenonT(60), <2>2, <3>1, <3>3
  <2> QED BY ZenonT(60), <2>3, <2>4
<1>7. Abstract!Lose
  <2>1. kept \in SUBSET {d \in Command : Phases[d] = "begun"}
    BY ZenonT(60), <1>5 DEF Phases
  <2>2. Phases' = [d \in Command |-> IF d \in kept THEN "committed"
                                    ELSE IF Phases[d] \in {"queued", "begun"} THEN "lost"
                                    ELSE Phases[d]]
    BY ZenonT(60), <1>6 DEF Phases
  <2> QED BY ZenonT(60), <1>1, <2>1, <2>2 DEF Abstract!Lose, Phases
<1> QED BY ZenonT(60), <1>4, <1>6, <1>7 DEF Abstract!Next

\* Every step of the executor is a step of SerialWriter or changes nothing a
\* caller can see, and keeps the invariant.
LEMMA WriterStep ==
  WriterInv /\ [Next]_vars => WriterInv' /\ (Abstract!Next \/ UNCHANGED Abstract!vars)
<1> SUFFICES ASSUME WriterInv, [Next]_vars
             PROVE  WriterInv' /\ (Abstract!Next \/ UNCHANGED Abstract!vars)
  OBVIOUS
<1>0. AnswerInv'
  BY ZenonT(60), AnswerStep DEF WriterInv
<1> SUFFICES /\ NoLateSubmit' /\ \A d \in Command : Published(d)'
             /\ Abstract!Next \/ UNCHANGED Abstract!vars
  BY ZenonT(60), <1>0 DEF WriterInv
<1>1. ASSUME NEW c \in Command, Submitter(c)
      PROVE  /\ NoLateSubmit' /\ \A d \in Command : Published(d)'
             /\ Abstract!Next \/ UNCHANGED Abstract!vars
  BY ZenonT(60), <1>1, SubmitterRefines
<1>2. CASE Writer
  BY ZenonT(60), <1>2, StopRefines, IdleRefines, SelectRefines, ExecutionRefines, PanicRefines,
     ReplyRefines DEF Writer
<1>3. CASE DeadlinePasses \/ PollMissed \/ StopAdmission \/ UNCHANGED vars
  <2>1. /\ UNCHANGED <<queue, state, client, mailbox, outcome, executed, current, pc>>
    BY ZenonT(60), <1>3 DEF DeadlinePasses, PollMissed, StopAdmission, vars, submitVars, gateVars,
       flagVars, writerVars, auditVars
  <2>2. \A d \in Command : Published(d)' /\ PhaseOf(d)' = PhaseOf(d)
    <3>1. \A d : Queued(d)' <=> Queued(d)
      BY ZenonT(60), <2>1 DEF Queued
    <3>2. \A d \in Command : Published(d)
      BY ZenonT(60) DEF WriterInv
    <3> QED BY ZenonT(60), <2>1, <3>1, <3>2, PublishedKept, PhaseKept
  <2>3. CASE stopping' = stopping
    <3>1. NoLateSubmit'
      BY ZenonT(60), <2>1, <2>3 DEF WriterInv, NoLateSubmit
    <3> QED BY ZenonT(60), <2>1, <2>2, <2>3, <3>1, StutterFrom
  <2>4. CASE StopAdmission
    <3>1. ~stopping /\ stopping' = TRUE /\ NoLateSubmit'
      BY ZenonT(60), <2>1, <2>4 DEF StopAdmission, NoLateSubmit
    <3>2. UNCHANGED Phases
      BY ZenonT(60), <2>2 DEF Phases
    <3>3. Abstract!Close
      BY ZenonT(60), <2>1, <3>1, <3>2 DEF Abstract!Close, Phases
    <3> QED BY ZenonT(60), <2>2, <3>1, <3>3 DEF Abstract!Next
  <2> QED BY ZenonT(60), <1>3, <2>3, <2>4
     DEF DeadlinePasses, PollMissed, vars, flagVars
<1> QED BY ZenonT(60), <1>1, <1>2, <1>3 DEF Next

\* The storage executor implements SerialWriter: whatever the interleaving of
\* submitters, lanes, shutdown and panics, a caller sees commands executed one
\* at a time and at most once, none after it was cancelled, no pick after
\* admission was closed, and answers that tell the truth.
THEOREM ExecutorRefines == Spec => ImplementsSerialWriter
<1>1. Init => WriterInv
  <2> SUFFICES ASSUME Init PROVE WriterInv
    OBVIOUS
  <2>1. NoLateSubmit /\ \A c \in Command : Published(c)
    BY ZenonT(60), ConfigAssumption DEF Init, NoLateSubmit, Published
  <2> QED BY ZenonT(60), <2>1, AnswerInit DEF WriterInv
<1>2. Init => Abstract!Init
  <2> SUFFICES ASSUME Init PROVE Abstract!Init
    OBVIOUS
  <2>1. \A c \in Command : PhaseOf(c) = "new"
    BY ZenonT(60) DEF Init, PhaseOf
  <2> QED BY ZenonT(60), <2>1 DEF Init, Abstract!Init
<1> QED BY <1>1, <1>2, WriterStep, PTL DEF Spec, ImplementsSerialWriter, Abstract!Spec
=============================================================================
