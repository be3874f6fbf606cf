----------------------------- MODULE DataProofs -----------------------------
(***************************************************************************)
(* Snapshots of the store, the KV catalog and the rotation workflow, for   *)
(* any sets of callers, paths, values and settings, any bound of the       *)
(* snapshot queue, any number of rotations and any interleaving of them    *)
(* with plain writes, deletions and purges.                                *)
(*                                                                         *)
(* That every snapshot caller gets the one answer that is true of what     *)
(* happened takes an invariant that says for each caller where its job is: *)
(* queued, with the worker, or settled in its cell.                        *)
(*                                                                         *)
(* RotationAnchored is not inductive.  It takes that a method under way    *)
(* finds its row as it left it (OpInv), that a prepared row expects the    *)
(* version it protects (RowInv), and, for the value a rollback brings      *)
(* back, that the held version has the value that was current when the     *)
(* rotation began, unless it was destroyed (KeptInv).                      *)
(***************************************************************************)
EXTENDS SnapshotService, KvCatalog, RotationCatalog, FiniteSetTheorems, TLAPS

Replies == {"Complete", "Backend", "TooLarge", "Deadline"}
Busy == {"begin", "poll", "chunk", "settle", "reply", "mark"}

SnapSubmission ==
  [state : {"None", "Checked", "Accepted", "Started", "Committed", "Aborted", "Cancelled", "Replied"},
   waiting : BOOLEAN, told : Replies \cup {"nothing", "Unavailable"}, bytes : Nat]
SnapWorker ==
  [at : Busy \cup Gone \cup {"loop", "receive"}, slot : SUBSET SnapSlots, bytes : Nat,
   reply : Replies \cup {"nothing"}, late : BOOLEAN]

\* What one submission may show.
AnswerFine(y) ==
  /\ y.told = "Complete" => y.state \in {"Committed", "Replied"} /\ y.bytes <= SnapMaxBytes
  /\ y.told \in {"Backend", "TooLarge", "Deadline"} => y.state \in {"Aborted", "Replied"}
  /\ y.told = "Unavailable" => y.state \in {"Accepted", "Started"}
  /\ y.state = "Cancelled" => ~y.waiting
  /\ y.state \in {"None", "Checked"} => y.told = "nothing"

\* A queued submission was accepted and told nothing.
QueueFine(y) == y.state = "Accepted" /\ y.told = "nothing"

\* A worker x at one of its busy steps and the submission y it serves.
HoldFine(x, y) ==
  /\ x.bytes <= SnapMaxBytes
  /\ x.at \in {"begin", "poll", "chunk", "settle"} => y.state = "Started" /\ y.told = "nothing"
  /\ x.at \in {"settle", "reply", "mark"} => x.reply \in Replies
  /\ x.at \in {"reply", "mark"} => y.state = IF x.reply = "Complete" THEN "Committed" ELSE "Aborted"
  /\ x.at = "reply" => y.told = "nothing"
  /\ x.at = "mark" => y.told = x.reply

WorkerFine(x) ==
  IF x.at \in Busy
  THEN \E s \in SnapSlots : x.slot = {s} /\ HoldFine(x, submissions[s])
  ELSE x.slot = {}

SnapTypes ==
  /\ submissions \in [SnapSlots -> SnapSubmission]
  /\ snapWorkers \in [SnapWorkers -> SnapWorker]
  /\ snapQueue \in Seq(SnapSlots)

\* No submission is in two places: twice in the queue, with two workers, or both.
SnapOnce ==
  /\ \A i, j \in 1 .. Len(snapQueue) : snapQueue[i] = snapQueue[j] => i = j
  /\ \A v, w \in SnapWorkers : v # w => snapWorkers[v].slot \cap snapWorkers[w].slot = {}

SnapInv ==
  /\ SnapTypes /\ SnapOnce
  /\ \A i \in 1 .. Len(snapQueue) : QueueFine(submissions[snapQueue[i]])
  /\ \A w \in SnapWorkers : WorkerFine(snapWorkers[w])
  /\ \A s \in SnapSlots : AnswerFine(submissions[s])

InSnapQueue(s) == \E i \in 1 .. Len(snapQueue) : snapQueue[i] = s

\* One submission changes, and the queue and the workers do not.
LEMMA SnapCallerFrame ==
  ASSUME SnapInv, NEW s \in SnapSlots, NEW y \in SnapSubmission,
         submissions' = [submissions EXCEPT ![s] = y],
         snapWorkers' = snapWorkers, snapQueue' = snapQueue,
         AnswerFine(y),
         InSnapQueue(s) => QueueFine(y),
         \A w \in SnapWorkers : s \in snapWorkers[w].slot =>
            HoldFine(snapWorkers[w], y)
  PROVE  SnapInv'
<1>1. /\ submissions' \in [SnapSlots -> SnapSubmission] /\ submissions'[s] = y
      /\ \A t \in SnapSlots : t # s => submissions'[t] = submissions[t]
  BY ZenonT(60) DEF SnapInv, SnapTypes
<1>2. SnapTypes' /\ SnapOnce'
  BY <1>1 DEF SnapInv, SnapTypes, SnapOnce
<1>3. ASSUME NEW i \in 1 .. Len(snapQueue) PROVE QueueFine(submissions'[snapQueue[i]])
  <2>1. snapQueue[i] \in SnapSlots
    BY DEF SnapInv, SnapTypes
  <2>2. QueueFine(submissions[snapQueue[i]])
    BY DEF SnapInv
  <2> QED BY ZenonT(60), <2>1, <2>2, <1>1 DEF InSnapQueue
<1>4. ASSUME NEW w \in SnapWorkers PROVE WorkerFine(snapWorkers[w])'
  <2>1. WorkerFine(snapWorkers[w])
    BY DEF SnapInv
  <2>2. snapWorkers'[w] = snapWorkers[w]
    OBVIOUS
  <2>3. CASE snapWorkers[w].at \in Busy
    <3>1. PICK t \in SnapSlots : snapWorkers[w].slot = {t} /\ HoldFine(snapWorkers[w], submissions[t])
      BY ZenonT(60), <2>1, <2>3 DEF WorkerFine
    <3>2. HoldFine(snapWorkers[w], submissions'[t])
      BY ZenonT(60), <3>1, <1>1
    <3> QED BY ZenonT(60), <3>1, <3>2, <2>2, <2>3 DEF WorkerFine
  <2> QED BY ZenonT(60), <2>1, <2>2, <2>3 DEF WorkerFine
<1>5. ASSUME NEW t \in SnapSlots PROVE AnswerFine(submissions'[t])
  BY ZenonT(60), <1>1 DEF SnapInv
<1> QED BY ZenonT(60), <1>2, <1>3, <1>4, <1>5 DEF SnapInv

\* submit, the dropped receiver and the forgotten submission keep the invariant.
LEMMA SnapCallerStep ==
  ASSUME SnapInv, SnapCallers
  PROVE  SnapInv'
<1> PICK s \in SnapSlots : SnapCheck(s) \/ SnapSend(s) \/ SnapLeave(s) \/ SnapForget(s)
  BY DEF SnapCallers
<1> DEFINE x == submissions[s]
<1>t. x \in SnapSubmission /\ AnswerFine(x) /\ submissions \in [SnapSlots -> SnapSubmission]
  BY DEF SnapInv, SnapTypes
<1>q. InSnapQueue(s) => QueueFine(x)
  BY ZenonT(60) DEF SnapInv, InSnapQueue
<1>w. \A w \in SnapWorkers : s \in snapWorkers[w].slot =>
        HoldFine(snapWorkers[w], x) /\ snapWorkers[w].at \in Busy
  <2> SUFFICES ASSUME NEW w \in SnapWorkers, s \in snapWorkers[w].slot
               PROVE  HoldFine(snapWorkers[w], x) /\ snapWorkers[w].at \in Busy
    OBVIOUS
  <2>1. WorkerFine(snapWorkers[w])
    BY ZenonT(60) DEF SnapInv
  <2> QED BY ZenonT(60), <2>1 DEF WorkerFine
<1>n. NoSubmission \in SnapSubmission /\ AnswerFine(NoSubmission)
  BY DEF NoSubmission, SnapSubmission, AnswerFine
<1>1. CASE SnapCheck(s)
  <2> DEFINE y == [x EXCEPT !.state = "Checked"]
  <2>1. x = NoSubmission
    BY <1>1 DEF SnapCheck
  <2>2. y \in SnapSubmission /\ AnswerFine(y)
    <3>1. x.state = "None" /\ x.told = "nothing"
      BY <2>1 DEF NoSubmission
    <3> QED BY ZenonT(60), <1>t, <3>1 DEF SnapSubmission, AnswerFine
  <2>3. /\ submissions' = [submissions EXCEPT ![s] = y]
        /\ snapWorkers' = snapWorkers /\ snapQueue' = snapQueue
    BY <1>1 DEF SnapCheck
  <2>4. x.state = "None"
    BY <2>1 DEF NoSubmission
  <2>5. ~InSnapQueue(s)
    BY <1>q, <2>4 DEF QueueFine
  <2>6. \A w \in SnapWorkers : s \notin snapWorkers[w].slot
    BY ZenonT(60), <1>w, <2>4 DEF HoldFine, Busy
  <2> HIDE DEF y
  <2> QED BY ZenonT(60), <2>2, <2>3, <2>5, <2>6, SnapCallerFrame
<1>2. CASE SnapSend(s)
  <2>1. x.state = "Checked" /\ snapWorkers' = snapWorkers
    BY <1>2 DEF SnapSend
  <2>5. ~InSnapQueue(s)
    BY <1>q, <2>1 DEF QueueFine
  <2>6. \A w \in SnapWorkers : s \notin snapWorkers[w].slot
    BY ZenonT(60), <1>w, <2>1 DEF HoldFine, Busy
  <2>7. CASE submissions' = [submissions EXCEPT ![s] = NoSubmission] /\ snapQueue' = snapQueue
    BY ZenonT(60), <2>7, <2>1, <2>5, <2>6, <1>n, SnapCallerFrame
  <2>8. CASE /\ submissions' = [submissions EXCEPT ![s].state = "Accepted", ![s].waiting = TRUE]
             /\ snapQueue' = Append(snapQueue, s)
    <3> DEFINE y1 == [x EXCEPT !.state = "Accepted"]
               y == [y1 EXCEPT !.waiting = TRUE]
    <3>2. submissions' = [submissions EXCEPT ![s] = y]
      BY ZenonT(60), <2>8, <1>t
    <3>a. x.told = "nothing"
      BY <1>t, <2>1 DEF AnswerFine
    <3>b. y1 \in SnapSubmission /\ y1.state = "Accepted" /\ y1.told = "nothing"
      BY <1>t, <3>a DEF SnapSubmission
    <3> HIDE DEF y1
    <3>c. y \in SnapSubmission /\ y.state = "Accepted" /\ y.told = "nothing"
      BY ZenonT(60), <3>b DEF SnapSubmission
    <3>1. y \in SnapSubmission /\ AnswerFine(y) /\ QueueFine(y)
      <4> HIDE DEF y
      <4> QED BY <3>c DEF AnswerFine, QueueFine
    <3> HIDE DEF y
    <3>3. /\ submissions' \in [SnapSlots -> SnapSubmission] /\ submissions'[s] = y
          /\ \A t \in SnapSlots : t # s => submissions'[t] = submissions[t]
      BY <3>1, <3>2, <1>t
    <3>4. snapQueue \in Seq(SnapSlots) /\ Len(snapQueue) \in Nat
      BY DEF SnapInv, SnapTypes
    <3>5. /\ snapQueue' \in Seq(SnapSlots) /\ Len(snapQueue') = Len(snapQueue) + 1
          /\ snapQueue'[Len(snapQueue) + 1] = s
          /\ \A i \in 1 .. Len(snapQueue) : snapQueue'[i] = snapQueue[i] /\ snapQueue[i] # s
      BY <2>8, <2>5, <3>4 DEF InSnapQueue
    <3>6. \A i, j \in 1 .. Len(snapQueue) : snapQueue[i] = snapQueue[j] => i = j
      BY ZenonT(60) DEF SnapInv, SnapOnce
    <3>7. SnapTypes' /\ SnapOnce'
      <4>1. ASSUME NEW i \in 1 .. Len(snapQueue'), NEW j \in 1 .. Len(snapQueue'),
                   snapQueue'[i] = snapQueue'[j]
            PROVE  i = j
        BY <4>1, <3>4, <3>5, <3>6
      <4>2. \A v, w \in SnapWorkers : v # w => snapWorkers'[v].slot \cap snapWorkers'[w].slot = {}
        BY ZenonT(60), <2>1 DEF SnapInv, SnapOnce
      <4>3. SnapTypes'
        BY ZenonT(60), <2>1, <3>3, <3>5 DEF SnapInv, SnapTypes
      <4> QED BY ZenonT(60), <4>1, <4>2, <4>3 DEF SnapOnce
    <3>8. ASSUME NEW i \in 1 .. Len(snapQueue') PROVE QueueFine(submissions'[snapQueue'[i]])
      <4>1. CASE i = Len(snapQueue) + 1
        BY ZenonT(60), <4>1, <3>1, <3>3, <3>5
      <4>2. CASE i # Len(snapQueue) + 1
        <5>1. i \in 1 .. Len(snapQueue)
          BY <4>2, <3>4, <3>5
        <5>2. snapQueue'[i] = snapQueue[i] /\ snapQueue[i] # s /\ snapQueue[i] \in SnapSlots
          BY <5>1, <3>4, <3>5
        <5>3. QueueFine(submissions[snapQueue[i]])
          BY ZenonT(60), <5>1 DEF SnapInv
        <5> QED BY ZenonT(60), <5>2, <5>3, <3>3
      <4> QED BY <4>1, <4>2
    <3>9. ASSUME NEW w \in SnapWorkers PROVE WorkerFine(snapWorkers[w])'
      <4>1. WorkerFine(snapWorkers[w]) /\ snapWorkers'[w] = snapWorkers[w]
        BY <2>1 DEF SnapInv
      <4> QED BY ZenonT(60), <4>1, <3>3, <2>6 DEF WorkerFine
    <3>10. ASSUME NEW t \in SnapSlots PROVE AnswerFine(submissions'[t])
      BY ZenonT(60), <3>1, <3>3 DEF SnapInv
    <3> QED BY ZenonT(60), <3>7, <3>8, <3>9, <3>10 DEF SnapInv
  <2> QED BY ZenonT(60), <1>2, <2>7, <2>8 DEF SnapSend
<1>3. CASE SnapLeave(s)
  <2> DEFINE y == [x EXCEPT !.waiting = FALSE]
  <2>1. /\ y \in SnapSubmission /\ y.state = x.state /\ y.told = x.told
        /\ y.bytes = x.bytes /\ ~y.waiting
    BY ZenonT(60), <1>t DEF SnapSubmission
  <2>2. AnswerFine(y)
    <3> HIDE DEF y
    <3> QED BY ZenonT(60), <2>1, <1>t DEF AnswerFine
  <2>3. /\ submissions' = [submissions EXCEPT ![s] = y]
        /\ snapWorkers' = snapWorkers /\ snapQueue' = snapQueue
    BY <1>3 DEF SnapLeave
  <2> HIDE DEF y
  <2>5. InSnapQueue(s) => QueueFine(y)
    BY <1>q, <2>1 DEF QueueFine
  <2>6. \A w \in SnapWorkers : s \in snapWorkers[w].slot => HoldFine(snapWorkers[w], y)
    BY ZenonT(60), <1>w, <2>1 DEF HoldFine
  <2> QED BY ZenonT(60), <2>1, <2>2, <2>3, <2>5, <2>6, SnapCallerFrame
<1>4. CASE SnapForget(s)
  <2>1. /\ submissions' = [submissions EXCEPT ![s] = NoSubmission]
        /\ snapWorkers' = snapWorkers /\ snapQueue' = snapQueue
        /\ \A w \in SnapWorkers : s \notin snapWorkers[w].slot
    BY ZenonT(60), <1>4 DEF SnapForget
  <2>2. ~InSnapQueue(s)
    BY ZenonT(60), <1>4 DEF SnapForget, InSnapQueue
  <2> QED BY ZenonT(60), <2>1, <2>2, <1>n, SnapCallerFrame
<1> QED BY <1>1, <1>2, <1>3, <1>4

\* What a busy worker holds is not in the queue, nor with another worker.
LEMMA SnapHeld ==
  ASSUME SnapInv, NEW w \in SnapWorkers, snapWorkers[w].at \in Busy
  PROVE  \E s \in SnapSlots :
           /\ snapWorkers[w].slot = {s} /\ (CHOOSE t \in SnapSlots : t \in snapWorkers[w].slot) = s
           /\ HoldFine(snapWorkers[w], submissions[s]) /\ ~InSnapQueue(s)
           /\ \A v \in SnapWorkers : v # w => s \notin snapWorkers[v].slot
<1>1. PICK s \in SnapSlots : snapWorkers[w].slot = {s} /\ HoldFine(snapWorkers[w], submissions[s])
  BY ZenonT(60) DEF SnapInv, WorkerFine
<1>2. (CHOOSE t \in SnapSlots : t \in snapWorkers[w].slot) = s
  BY <1>1
<1>3. submissions[s].state # "Accepted"
  BY ZenonT(60), <1>1 DEF HoldFine, Busy
<1>4. ~InSnapQueue(s)
  BY ZenonT(60), <1>3 DEF InSnapQueue, SnapInv, QueueFine
<1>5. ASSUME NEW v \in SnapWorkers, v # w PROVE s \notin snapWorkers[v].slot
  <2>1. snapWorkers[v].slot \cap snapWorkers[w].slot = {}
    BY ZenonT(60), <1>5 DEF SnapInv, SnapOnce
  <2> QED BY <2>1, <1>1
<1> QED BY <1>1, <1>2, <1>4, <1>5

\* One worker and the submission it serves change.
LEMMA SnapWorkerFrame ==
  ASSUME SnapInv, NEW w \in SnapWorkers, NEW x \in SnapWorker,
         NEW s \in SnapSlots, NEW y \in SnapSubmission,
         snapWorkers' = [snapWorkers EXCEPT ![w] = x],
         submissions' = [submissions EXCEPT ![s] = y], snapQueue' = snapQueue,
         ~InSnapQueue(s), \A v \in SnapWorkers : v # w => s \notin snapWorkers[v].slot,
         AnswerFine(y),
         IF x.at \in Busy THEN x.slot = {s} /\ HoldFine(x, y) ELSE x.slot = {}
  PROVE  SnapInv'
<1>1. /\ submissions' \in [SnapSlots -> SnapSubmission] /\ submissions'[s] = y
      /\ \A t \in SnapSlots : t # s => submissions'[t] = submissions[t]
  BY ZenonT(60) DEF SnapInv, SnapTypes
<1>2. /\ snapWorkers' \in [SnapWorkers -> SnapWorker] /\ snapWorkers'[w] = x
      /\ \A v \in SnapWorkers : v # w => snapWorkers'[v] = snapWorkers[v]
  BY ZenonT(60) DEF SnapInv, SnapTypes
<1>3. SnapTypes'
  BY ZenonT(60), <1>1, <1>2 DEF SnapInv, SnapTypes
<1>4. SnapOnce'
  <2>1. ASSUME NEW v \in SnapWorkers, NEW u \in SnapWorkers, v # u
        PROVE  snapWorkers'[v].slot \cap snapWorkers'[u].slot = {}
    <3>1. CASE v # w /\ u # w
      BY ZenonT(60), <2>1, <3>1, <1>2 DEF SnapInv, SnapOnce
    <3>2. CASE v = w
      <4>1. snapWorkers'[u].slot = snapWorkers[u].slot /\ s \notin snapWorkers[u].slot
        BY ZenonT(60), <3>2, <2>1, <1>2
      <4>2. x.slot \subseteq {s}
        OBVIOUS
      <4> QED BY ZenonT(60), <4>1, <4>2, <3>2, <1>2
    <3>3. CASE u = w
      <4>1. snapWorkers'[v].slot = snapWorkers[v].slot /\ s \notin snapWorkers[v].slot
        BY ZenonT(60), <3>3, <2>1, <1>2
      <4>2. x.slot \subseteq {s}
        OBVIOUS
      <4> QED BY ZenonT(60), <4>1, <4>2, <3>3, <1>2
    <3> QED BY ZenonT(60), <3>1, <3>2, <3>3
  <2> QED BY ZenonT(60), <2>1 DEF SnapInv, SnapOnce
<1>5. ASSUME NEW i \in 1 .. Len(snapQueue) PROVE QueueFine(submissions'[snapQueue[i]])
  <2>1. snapQueue[i] \in SnapSlots
    BY DEF SnapInv, SnapTypes
  <2>2. QueueFine(submissions[snapQueue[i]])
    BY ZenonT(60) DEF SnapInv
  <2> QED BY ZenonT(60), <2>1, <2>2, <1>1 DEF InSnapQueue
<1>6. ASSUME NEW v \in SnapWorkers PROVE WorkerFine(snapWorkers[v])'
  <2>1. CASE v = w
    BY ZenonT(60), <2>1, <1>1, <1>2 DEF WorkerFine
  <2>2. CASE v # w
    <3>1. WorkerFine(snapWorkers[v]) /\ snapWorkers'[v] = snapWorkers[v] /\ s \notin snapWorkers[v].slot
      BY ZenonT(60), <2>2, <1>2 DEF SnapInv
    <3> QED BY ZenonT(60), <3>1, <1>1 DEF WorkerFine
  <2> QED BY ZenonT(60), <2>1, <2>2
<1>7. ASSUME NEW t \in SnapSlots PROVE AnswerFine(submissions'[t])
  BY ZenonT(60), <1>1 DEF SnapInv
<1> QED BY ZenonT(60), <1>3, <1>4, <1>5, <1>6, <1>7 DEF SnapInv

\* A worker that holds nothing moves and still holds nothing.
LEMMA SnapIdleFrame ==
  ASSUME SnapInv, NEW w \in SnapWorkers, NEW x \in SnapWorker,
         snapWorkers' = [snapWorkers EXCEPT ![w] = x],
         submissions' = submissions, snapQueue' = snapQueue,
         x.at \notin Busy, x.slot = {}
  PROVE  SnapInv'
<1>2. /\ snapWorkers' \in [SnapWorkers -> SnapWorker] /\ snapWorkers'[w] = x
      /\ \A v \in SnapWorkers : v # w => snapWorkers'[v] = snapWorkers[v]
  BY DEF SnapInv, SnapTypes
<1>3. SnapTypes'
  BY <1>2 DEF SnapInv, SnapTypes
<1>4. \A v \in SnapWorkers : snapWorkers'[v].slot \subseteq snapWorkers[v].slot
  BY <1>2
<1>5. SnapOnce'
  <2>1. ASSUME NEW v \in SnapWorkers, NEW u \in SnapWorkers, v # u
        PROVE  snapWorkers'[v].slot \cap snapWorkers'[u].slot = {}
    <3>1. snapWorkers[v].slot \cap snapWorkers[u].slot = {}
      BY ZenonT(60), <2>1 DEF SnapInv, SnapOnce
    <3> QED BY <3>1, <1>4
  <2> QED BY ZenonT(60), <2>1 DEF SnapInv, SnapOnce
<1>6. ASSUME NEW v \in SnapWorkers PROVE WorkerFine(snapWorkers[v])'
  <2>1. CASE v = w
    BY ZenonT(60), <2>1, <1>2 DEF WorkerFine
  <2>2. CASE v # w
    BY ZenonT(60), <2>2, <1>2 DEF WorkerFine, SnapInv
  <2> QED BY <2>1, <2>2
<1> QED BY ZenonT(60), <1>3, <1>5, <1>6 DEF SnapInv

\* Taking the oldest message keeps the invariant.
LEMMA SnapReceiveStep ==
  ASSUME SnapInv, NEW w \in SnapWorkers, SnapReceive(w)
  PROVE  SnapInv'
<1>l. /\ Looping \in SnapWorker /\ Looping.at \notin Busy /\ Looping.slot = {}
      /\ Looping.bytes = 0
  BY DEF Looping, SnapWorker, Busy
<1>1. CASE snapQueue = <<>>
  <2>1. /\ snapWorkers' = [snapWorkers EXCEPT ![w] = Looping]
        /\ submissions' = submissions /\ snapQueue' = snapQueue
    BY <1>1 DEF SnapReceive
  <2> QED BY ZenonT(60), <2>1, <1>l, SnapIdleFrame
<1>2. CASE snapQueue # <<>>
  <2> DEFINE s == Head(snapQueue)
             f == submissions[s].waiting
             y == [submissions[s] EXCEPT !.state = IF f THEN "Started" ELSE "Cancelled"]
             b1 == [Looping EXCEPT !.at = "begin"]
             b == [b1 EXCEPT !.slot = {s}]
             x == IF f THEN b ELSE Looping
  <2>1. /\ snapQueue \in Seq(SnapSlots) /\ Len(snapQueue) \in Nat /\ Len(snapQueue) >= 1
        /\ snapQueue[1] = s /\ s \in SnapSlots
    BY <1>2 DEF SnapInv, SnapTypes
  <2>2. /\ submissions[s].state = "Accepted" /\ submissions[s].told = "nothing"
        /\ submissions[s] \in SnapSubmission
    <3>1. 1 \in 1 .. Len(snapQueue)
      BY <2>1
    <3>2. QueueFine(submissions[snapQueue[1]])
      BY <3>1 DEF SnapInv
    <3>3. submissions[s] \in SnapSubmission
      BY ZenonT(60), <2>1 DEF SnapInv, SnapTypes
    <3> QED BY ZenonT(60), <2>1, <3>2, <3>3 DEF QueueFine
  <2>3. /\ snapQueue' = Tail(snapQueue)
        /\ submissions' = [submissions EXCEPT ![s] = y]
        /\ snapWorkers' = [snapWorkers EXCEPT ![w] = x]
    BY <1>2 DEF SnapReceive
  <2>4. /\ y \in SnapSubmission /\ AnswerFine(y) /\ y.told = "nothing"
        /\ f => y.state = "Started"
    BY ZenonT(60), <2>2 DEF SnapSubmission, AnswerFine
  <2>5. b \in SnapWorker /\ b.at = "begin" /\ b.slot = {s} /\ b.bytes = 0
    BY ZenonT(60), <1>l, <2>1 DEF SnapWorker, Busy
  <2>6. x \in SnapWorker
    BY <2>5, <1>l
  <2>7. IF x.at \in Busy THEN x.slot = {s} /\ HoldFine(x, y) ELSE x.slot = {}
    <3>1. CASE f
      <4>1. x = b
        BY <3>1
      <4> HIDE DEF x, b, y
      <4>2. HoldFine(b, y)
        BY <2>4, <2>5, <3>1, SnapBounds DEF HoldFine
      <4>3. b.at \in Busy
        BY <2>5 DEF Busy
      <4> QED BY <4>1, <4>2, <4>3, <2>5
    <3>2. CASE ~f
      BY <3>2, <1>l
    <3> QED BY ZenonT(60), <3>1, <3>2
  <2> HIDE DEF s, f, y, b, x
  <2>8. \A v \in SnapWorkers : s \notin snapWorkers[v].slot
    <3>1. ASSUME NEW v \in SnapWorkers, s \in snapWorkers[v].slot PROVE FALSE
      <4>1. WorkerFine(snapWorkers[v])
        BY ZenonT(60) DEF SnapInv
      <4>2. snapWorkers[v].at \in Busy /\ HoldFine(snapWorkers[v], submissions[s])
        BY ZenonT(60), <4>1, <3>1 DEF WorkerFine
      <4> QED BY ZenonT(60), <4>2, <2>2 DEF HoldFine, Busy
    <3> QED BY <3>1
  <2>9. /\ snapQueue' \in Seq(SnapSlots) /\ Len(snapQueue') = Len(snapQueue) - 1
        /\ \A i \in 1 .. Len(snapQueue') : snapQueue'[i] = snapQueue[i + 1] /\ i + 1 \in 2 .. Len(snapQueue)
    BY <2>1, <2>3, <1>2
  <2>10. \A i, j \in 1 .. Len(snapQueue) : snapQueue[i] = snapQueue[j] => i = j
    BY ZenonT(60) DEF SnapInv, SnapOnce
  <2>11. /\ submissions' \in [SnapSlots -> SnapSubmission] /\ submissions'[s] = y
         /\ \A t \in SnapSlots : t # s => submissions'[t] = submissions[t]
    BY ZenonT(60), <2>1, <2>3, <2>4 DEF SnapInv, SnapTypes
  <2>12. /\ snapWorkers' \in [SnapWorkers -> SnapWorker] /\ snapWorkers'[w] = x
         /\ \A v \in SnapWorkers : v # w => snapWorkers'[v] = snapWorkers[v]
    BY ZenonT(60), <2>3, <2>6 DEF SnapInv, SnapTypes
  <2>13. SnapTypes'
    BY ZenonT(60), <2>9, <2>11, <2>12 DEF SnapTypes
  <2>14. \A i, j \in 1 .. Len(snapQueue') : snapQueue'[i] = snapQueue'[j] => i = j
    BY <2>1, <2>9, <2>10
  <2>15. ASSUME NEW v \in SnapWorkers, NEW u \in SnapWorkers, v # u
         PROVE  snapWorkers'[v].slot \cap snapWorkers'[u].slot = {}
    <3>0. x.slot \subseteq {s}
      BY ZenonT(60), <2>7
    <3>1. CASE v # w /\ u # w
      BY ZenonT(60), <2>15, <3>1, <2>12 DEF SnapInv, SnapOnce
    <3>2. CASE v = w
      <4>1. snapWorkers'[u].slot = snapWorkers[u].slot /\ s \notin snapWorkers[u].slot
        BY ZenonT(60), <3>2, <2>15, <2>12, <2>8
      <4> QED BY ZenonT(60), <4>1, <3>0, <3>2, <2>12
    <3>3. CASE u = w
      <4>1. snapWorkers'[v].slot = snapWorkers[v].slot /\ s \notin snapWorkers[v].slot
        BY ZenonT(60), <3>3, <2>15, <2>12, <2>8
      <4> QED BY ZenonT(60), <4>1, <3>0, <3>3, <2>12
    <3> QED BY ZenonT(60), <3>1, <3>2, <3>3
  <2>16. SnapOnce'
    BY ZenonT(60), <2>14, <2>15 DEF SnapOnce
  <2>17. ASSUME NEW i \in 1 .. Len(snapQueue') PROVE QueueFine(submissions'[snapQueue'[i]])
    <3>1. /\ i + 1 \in 1 .. Len(snapQueue) /\ snapQueue'[i] = snapQueue[i + 1]
          /\ i + 1 # 1 /\ 1 \in 1 .. Len(snapQueue) /\ snapQueue[i + 1] \in SnapSlots
      BY <2>1, <2>9
    <3>2. snapQueue[i + 1] # s
      BY ZenonT(60), <3>1, <2>1, <2>10
    <3>3. QueueFine(submissions[snapQueue[i + 1]])
      BY <3>1 DEF SnapInv
    <3> QED BY ZenonT(60), <3>1, <3>2, <3>3, <2>11
  <2>18. ASSUME NEW v \in SnapWorkers PROVE WorkerFine(snapWorkers[v])'
    <3>1. CASE v = w
      BY ZenonT(60), <3>1, <2>1, <2>7, <2>11, <2>12 DEF WorkerFine
    <3>2. CASE v # w
      <4>1. WorkerFine(snapWorkers[v]) /\ snapWorkers'[v] = snapWorkers[v] /\ s \notin snapWorkers[v].slot
        BY ZenonT(60), <3>2, <2>8, <2>12 DEF SnapInv
      <4> QED BY ZenonT(60), <4>1, <2>11 DEF WorkerFine
    <3> QED BY <3>1, <3>2
  <2>19. ASSUME NEW t \in SnapSlots PROVE AnswerFine(submissions'[t])
    BY ZenonT(60), <2>4, <2>11 DEF SnapInv
  <2> QED BY ZenonT(60), <2>13, <2>16, <2>17, <2>18, <2>19 DEF SnapInv
<1> QED BY <1>1, <1>2

\* A worker that leaves drops its own message, and the last one all that is queued.
LEMMA SnapLeavesStep ==
  ASSUME SnapInv, NEW w \in SnapWorkers, NEW where \in Gone, SnapLeaves(w, where),
         snapWorkers[w].at \in {"loop", "begin", "chunk"}
  PROVE  SnapInv'
<1> DEFINE x == [Looping EXCEPT !.at = where]
           workers == [snapWorkers EXCEPT ![w] = x]
           alone == SnapReceivers(workers) = {}
           dropped == snapWorkers[w].slot \cup (IF alone THEN {snapQueue[i] : i \in 1 .. Len(snapQueue)} ELSE {})
           Told(s) == [submissions[s] EXCEPT !.told = "Unavailable"]
<1>1. /\ snapWorkers' = workers
      /\ snapQueue' = IF alone THEN <<>> ELSE snapQueue
      /\ submissions' = [s \in SnapSlots |->
           IF s \in dropped /\ submissions[s].waiting THEN Told(s) ELSE submissions[s]]
  BY DEF SnapLeaves
<1>2. x \in SnapWorker /\ x.at = where /\ x.slot = {}
  BY ZenonT(60) DEF Looping, SnapWorker, Gone
<1>3. where \notin Busy
  BY DEF Gone, Busy
<1>4. ASSUME NEW s \in SnapSlots, s \in dropped
      PROVE  submissions[s].state \in {"Accepted", "Started"} /\ submissions[s].told = "nothing"
  <2>1. CASE s \in snapWorkers[w].slot
    <3>1. WorkerFine(snapWorkers[w])
      BY DEF SnapInv
    <3>2. snapWorkers[w].at \in Busy /\ HoldFine(snapWorkers[w], submissions[s])
      BY ZenonT(60), <3>1, <2>1 DEF WorkerFine
    <3>3. snapWorkers[w].at \in {"begin", "poll", "chunk", "settle"}
      BY <3>2 DEF Busy
    <3> QED BY ZenonT(60), <3>2, <3>3 DEF HoldFine
  <2>2. CASE s \notin snapWorkers[w].slot
    <3>1. s \in {snapQueue[i] : i \in 1 .. Len(snapQueue)}
      BY <1>4, <2>2
    <3>2. PICK i \in 1 .. Len(snapQueue) : snapQueue[i] = s
      BY <3>1 DEF SnapInv, SnapTypes
    <3>3. QueueFine(submissions[s])
      BY ZenonT(60), <3>2 DEF SnapInv
    <3> QED BY <3>3 DEF QueueFine
  <2> QED BY <2>1, <2>2
<1>5. \A s \in SnapSlots : submissions[s] \in SnapSubmission /\ AnswerFine(submissions[s])
  BY ZenonT(60) DEF SnapInv, SnapTypes
<1>6. ASSUME NEW s \in SnapSlots, s \in dropped
      PROVE  Told(s) \in SnapSubmission /\ AnswerFine(Told(s))
  <2>1. /\ Told(s) \in SnapSubmission /\ Told(s).told = "Unavailable"
        /\ Told(s).state = submissions[s].state /\ Told(s).waiting = submissions[s].waiting
    BY ZenonT(60), <1>5 DEF SnapSubmission
  <2>2. submissions[s].state \in {"Accepted", "Started"}
    BY ZenonT(60), <1>4, <1>6
  <2> HIDE DEF Told
  <2> QED BY ZenonT(60), <2>1, <2>2 DEF AnswerFine
<1>7. ASSUME NEW s \in SnapSlots PROVE s \notin dropped => submissions'[s] = submissions[s]
  BY <1>1
<1>8. ASSUME NEW s \in SnapSlots
      PROVE  submissions'[s] \in SnapSubmission /\ AnswerFine(submissions'[s])
  <2> HIDE DEF dropped, Told
  <2>1. submissions'[s] = IF s \in dropped /\ submissions[s].waiting THEN Told(s) ELSE submissions[s]
    BY <1>1
  <2> QED BY ZenonT(60), <2>1, <1>5, <1>6
<1>9. /\ snapWorkers' \in [SnapWorkers -> SnapWorker] /\ snapWorkers'[w] = x
      /\ \A v \in SnapWorkers : v # w => snapWorkers'[v] = snapWorkers[v]
  <2> HIDE DEF x
  <2> QED BY <1>1, <1>2 DEF SnapInv, SnapTypes
<1> HIDE DEF x
<1>10. SnapTypes'
  <2>1. snapQueue' \in Seq(SnapSlots)
    BY <1>1 DEF SnapInv, SnapTypes
  <2>2. submissions' \in [SnapSlots -> SnapSubmission]
    <3>1. submissions' = [s \in SnapSlots |-> submissions'[s]]
      BY <1>1
    <3> QED BY <3>1, <1>8
  <2> QED BY ZenonT(60), <2>1, <2>2, <1>9 DEF SnapTypes
<1>11. \A v \in SnapWorkers : snapWorkers'[v].slot \subseteq snapWorkers[v].slot
  BY ZenonT(60), <1>2, <1>9
<1>12. SnapOnce'
  <2>1. ASSUME NEW v \in SnapWorkers, NEW u \in SnapWorkers, v # u
        PROVE  snapWorkers'[v].slot \cap snapWorkers'[u].slot = {}
    <3>1. snapWorkers[v].slot \cap snapWorkers[u].slot = {}
      BY ZenonT(60), <2>1 DEF SnapInv, SnapOnce
    <3>2. snapWorkers'[v].slot \subseteq snapWorkers[v].slot /\ snapWorkers'[u].slot \subseteq snapWorkers[u].slot
      BY ZenonT(60), <1>11
    <3> QED BY ZenonT(60), <3>1, <3>2
  <2>2. \A i, j \in 1 .. Len(snapQueue') : snapQueue'[i] = snapQueue'[j] => i = j
    <3>1. CASE alone
      BY <3>1, <1>1
    <3>2. CASE ~alone
      <4>1. snapQueue' = snapQueue
        BY <3>2, <1>1
      <4> QED BY ZenonT(60), <4>1 DEF SnapInv, SnapOnce
    <3> QED BY ZenonT(60), <3>1, <3>2
  <2> QED BY ZenonT(60), <2>1, <2>2 DEF SnapOnce
<1>13. ASSUME NEW i \in 1 .. Len(snapQueue') PROVE QueueFine(submissions'[snapQueue'[i]])
  <2>1. CASE alone
    BY <2>1, <1>1
  <2>2. CASE ~alone
    <3>1. snapQueue' = snapQueue /\ dropped = snapWorkers[w].slot
      BY <2>2, <1>1
    <3>2. snapQueue[i] \in SnapSlots /\ QueueFine(submissions[snapQueue[i]])
      BY <3>1 DEF SnapInv, SnapTypes
    <3>3. snapQueue[i] \notin snapWorkers[w].slot
      <4>1. SUFFICES ASSUME snapQueue[i] \in snapWorkers[w].slot PROVE FALSE
        OBVIOUS
      <4>2. WorkerFine(snapWorkers[w])
        BY ZenonT(60) DEF SnapInv
      <4>3. HoldFine(snapWorkers[w], submissions[snapQueue[i]]) /\ snapWorkers[w].at \in Busy
        BY ZenonT(60), <4>1, <4>2 DEF WorkerFine
      <4> QED BY ZenonT(60), <4>3, <3>2 DEF HoldFine, Busy, QueueFine
    <3> QED BY ZenonT(60), <3>1, <3>2, <3>3, <1>7
  <2> QED BY ZenonT(60), <2>1, <2>2
<1>14. ASSUME NEW v \in SnapWorkers PROVE WorkerFine(snapWorkers[v])'
  <2>1. CASE v = w
    BY ZenonT(60), <2>1, <1>2, <1>3, <1>9 DEF WorkerFine
  <2>2. CASE v # w
    <3>1. WorkerFine(snapWorkers[v]) /\ snapWorkers'[v] = snapWorkers[v]
      BY ZenonT(60), <2>2, <1>9 DEF SnapInv
    <3>2. CASE snapWorkers[v].at \notin Busy
      BY ZenonT(60), <3>1, <3>2 DEF WorkerFine
    <3>3. CASE snapWorkers[v].at \in Busy
      <4>1. PICK s \in SnapSlots : snapWorkers[v].slot = {s} /\ HoldFine(snapWorkers[v], submissions[s])
        BY ZenonT(60), <3>1, <3>3 DEF WorkerFine
      <4>2. s \notin snapWorkers[w].slot
        <5>1. snapWorkers[v].slot \cap snapWorkers[w].slot = {}
          BY ZenonT(60), <2>2 DEF SnapInv, SnapOnce
        <5> QED BY ZenonT(60), <5>1, <4>1
      <4>3. CASE alone
        <5>1. snapWorkers'[v].at \in Gone
          BY <4>3, <1>1 DEF SnapReceivers
        <5> QED BY ZenonT(60), <5>1, <3>1, <3>3 DEF Gone, Busy
      <4>4. CASE ~alone
        <5>1. s \notin dropped
          BY ZenonT(60), <4>2, <4>4
        <5>2. submissions'[s] = submissions[s]
          BY ZenonT(60), <5>1, <1>7
        <5> QED BY ZenonT(60), <5>2, <4>1, <3>1, <3>3 DEF WorkerFine
      <4> QED BY ZenonT(60), <4>3, <4>4
    <3> QED BY ZenonT(60), <3>2, <3>3
  <2> QED BY ZenonT(60), <2>1, <2>2
<1> QED BY ZenonT(60), <1>10, <1>12, <1>13, <1>14, <1>8 DEF SnapInv

\* A busy worker's steps on its command keep the invariant.
LEMMA SnapBusyStep ==
  ASSUME SnapInv, NEW w \in SnapWorkers,
         SnapLate(w) \/ SnapBegin(w) \/ SnapPoll(w) \/ SnapChunk(w)
           \/ SnapSettle(w) \/ SnapReply(w) \/ SnapMark(w)
  PROVE  SnapInv'
<1> DEFINE x == snapWorkers[w]
<1>b. x.at \in Busy
  BY ZenonT(60) DEF SnapLate, SnapBegin, SnapPoll, SnapChunk, SnapSettle, SnapReply, SnapMark, Busy
<1>s. PICK s \in SnapSlots :
         /\ x.slot = {s} /\ (CHOOSE t \in SnapSlots : t \in x.slot) = s
         /\ HoldFine(x, submissions[s]) /\ ~InSnapQueue(s)
         /\ \A v \in SnapWorkers : v # w => s \notin snapWorkers[v].slot
  BY ZenonT(60), <1>b, SnapHeld
<1> DEFINE y == submissions[s]
<1>t. x \in SnapWorker /\ y \in SnapSubmission /\ AnswerFine(y)
  BY ZenonT(60) DEF SnapInv, SnapTypes
<1>f. /\ snapWorkers \in [SnapWorkers -> SnapWorker]
      /\ submissions \in [SnapSlots -> SnapSubmission]
  BY ZenonT(60) DEF SnapInv, SnapTypes
<1>q. snapQueue' = snapQueue
  BY ZenonT(60) DEF SnapLate, SnapBegin, SnapPoll, SnapChunk, SnapSettle, SnapReply, SnapMark
\* It is enough to look at the new records of the worker and its submission.
<1>g. ASSUME NEW p \in SnapWorker, NEW q \in SnapSubmission,
             snapWorkers' = [snapWorkers EXCEPT ![w] = p],
             submissions' = [submissions EXCEPT ![s] = q], AnswerFine(q),
             IF p.at \in Busy THEN p.slot = {s} /\ HoldFine(p, q) ELSE p.slot = {}
      PROVE  SnapInv'
  BY ZenonT(60), <1>g, <1>s, <1>q, SnapWorkerFrame
<1>y. submissions = [submissions EXCEPT ![s] = y]
  BY ZenonT(60), <1>f
<1>l. /\ Looping \in SnapWorker /\ Looping.at \notin Busy /\ Looping.slot = {}
  BY ZenonT(60) DEF Looping, SnapWorker, Busy
\* The worker decides on its reply.
<1>d. ASSUME NEW r \in Replies, Decide(w, r), submissions' = submissions,
             x.at \in {"begin", "poll", "chunk"}
      PROVE  SnapInv'
  <2> DEFINE p1 == [x EXCEPT !.at = "settle"]
             p == [p1 EXCEPT !.reply = r]
  <2>1. /\ p \in SnapWorker /\ p.at = "settle" /\ p.reply = r /\ p.slot = x.slot
        /\ p.bytes = x.bytes
    BY ZenonT(60), <1>t DEF SnapWorker, Busy
  <2>2. snapWorkers' = [snapWorkers EXCEPT ![w] = p]
    BY ZenonT(60), <1>d, <1>f DEF Decide
  <2>3. submissions' = [submissions EXCEPT ![s] = y]
    BY ZenonT(60), <1>d, <1>y
  <2> HIDE DEF p
  <2>4. HoldFine(p, y)
    BY ZenonT(60), <2>1, <1>s, <1>d DEF HoldFine
  <2>5. p.at \in Busy
    BY ZenonT(60), <2>1 DEF Busy
  <2> QED BY ZenonT(60), <2>1, <2>2, <2>3, <2>4, <2>5, <1>s, <1>t, <1>g
\* The worker moves on to another step before it decides.
<1>m. ASSUME NEW a \in {"poll", "chunk"}, NEW n \in Nat, n <= SnapMaxBytes,
             x.at \in {"begin", "poll", "chunk"}, submissions' = submissions,
             snapWorkers' = [snapWorkers EXCEPT ![w] = [[x EXCEPT !.at = a] EXCEPT !.bytes = n]]
      PROVE  SnapInv'
  <2> DEFINE p1 == [x EXCEPT !.at = a]
             p == [p1 EXCEPT !.bytes = n]
  <2>1. /\ p \in SnapWorker /\ p.at = a /\ p.slot = x.slot /\ p.bytes = n
    BY ZenonT(60), <1>t DEF SnapWorker, Busy
  <2>3. submissions' = [submissions EXCEPT ![s] = y]
    BY <1>m, <1>y
  <2>2. snapWorkers' = [snapWorkers EXCEPT ![w] = p]
    BY <1>m
  <2> HIDE DEF p
  <2>4. HoldFine(p, y)
    BY ZenonT(60), <2>1, <1>s, <1>m DEF HoldFine
  <2>5. p.at \in Busy
    BY ZenonT(60), <2>1 DEF Busy
  <2> QED BY ZenonT(60), <2>1, <2>2, <2>3, <2>4, <2>5, <1>s, <1>t, <1>g
<1>n. x.bytes \in Nat /\ x.bytes <= SnapMaxBytes
  BY ZenonT(60), <1>s, <1>t DEF SnapWorker, HoldFine
<1>1. CASE SnapLate(w)
  <2> DEFINE p == [x EXCEPT !.late = TRUE]
  <2>1. /\ p \in SnapWorker /\ p.at = x.at /\ p.slot = x.slot /\ p.bytes = x.bytes /\ p.reply = x.reply
    BY ZenonT(60), <1>t DEF SnapWorker
  <2>2. snapWorkers' = [snapWorkers EXCEPT ![w] = p] /\ submissions' = [submissions EXCEPT ![s] = y]
    BY <1>1, <1>y DEF SnapLate
  <2> HIDE DEF p
  <2>4. HoldFine(p, y)
    BY ZenonT(60), <2>1, <1>s DEF HoldFine
  <2> QED BY ZenonT(60), <2>1, <2>2, <2>4, <1>b, <1>s, <1>t, <1>g
<1>2. CASE SnapBegin(w)
  <2>1. CASE Decide(w, "Backend")
    BY <2>1, <1>2, <1>d DEF SnapBegin, Replies
  <2>2. CASE snapWorkers' = [snapWorkers EXCEPT ![w].at = "poll"]
    <3>1. [[x EXCEPT !.at = "poll"] EXCEPT !.bytes = x.bytes] = [x EXCEPT !.at = "poll"]
      BY ZenonT(60), <1>t DEF SnapWorker
    <3>2. snapWorkers' = [snapWorkers EXCEPT ![w] = [[x EXCEPT !.at = "poll"] EXCEPT !.bytes = x.bytes]]
      BY ZenonT(60), <2>2, <3>1
    <3>3. x.at = "begin" /\ submissions' = submissions
      BY ZenonT(60), <1>2 DEF SnapBegin
    <3> QED BY ZenonT(60), <3>2, <3>3, <1>m, <1>n
  <2> QED BY <1>2, <2>1, <2>2 DEF SnapBegin
<1>3. CASE SnapPoll(w)
  <2>0. x.at = "poll"
    BY ZenonT(60), <1>3 DEF SnapPoll
  <2>1. CASE ~y.waiting
    <3> DEFINE q == [y EXCEPT !.state = "Cancelled"]
    <3>1. q \in SnapSubmission /\ q.state = "Cancelled" /\ q.told = y.told /\ q.waiting = y.waiting
      BY ZenonT(60), <1>t DEF SnapSubmission
    <3>2. snapWorkers' = [snapWorkers EXCEPT ![w] = Looping] /\ submissions' = [submissions EXCEPT ![s] = q]
      BY ZenonT(60), <1>3, <2>1, <1>s DEF SnapPoll
    <3>3. y.told = "nothing"
      BY ZenonT(60), <1>s, <2>0 DEF HoldFine
    <3> HIDE DEF q
    <3>4. AnswerFine(q)
      BY ZenonT(60), <3>1, <3>3, <2>1 DEF AnswerFine
    <3> QED BY ZenonT(60), <3>1, <3>2, <3>4, <1>l, <1>g
  <2>2. CASE y.waiting
    <3>0. submissions' = submissions
      BY ZenonT(60), <1>3, <2>2, <1>s DEF SnapPoll
    <3>1. CASE Decide(w, "Deadline")
      BY ZenonT(60), <3>0, <3>1, <2>0, <1>d DEF Replies
    <3>2. CASE snapWorkers' = [snapWorkers EXCEPT ![w].at = "chunk"]
      <4>1. [[x EXCEPT !.at = "chunk"] EXCEPT !.bytes = x.bytes] = [x EXCEPT !.at = "chunk"]
        BY ZenonT(60), <1>t DEF SnapWorker
      <4>2. snapWorkers' = [snapWorkers EXCEPT ![w] = [[x EXCEPT !.at = "chunk"] EXCEPT !.bytes = x.bytes]]
        BY ZenonT(60), <3>2, <4>1
      <4> QED BY ZenonT(60), <4>2, <2>0, <3>0, <1>m, <1>n
    <3> QED BY ZenonT(60), <1>3, <2>2, <3>1, <3>2, <1>s DEF SnapPoll
  <2> QED BY ZenonT(60), <2>1, <2>2
<1>4. CASE SnapChunk(w)
  <2>0. x.at = "chunk" /\ submissions' = submissions
    BY ZenonT(60), <1>4 DEF SnapChunk
  <2>1. ASSUME NEW r \in Replies, Decide(w, r) PROVE SnapInv'
    BY ZenonT(60), <2>0, <2>1, <1>d
  <2>2. ASSUME NEW size \in SnapChunkSizes, Fits(w, size),
               snapWorkers' = [snapWorkers EXCEPT ![w].at = "poll", ![w].bytes = @ + size]
        PROVE  SnapInv'
    <3> DEFINE n == x.bytes + size
    <3>1. n \in Nat /\ n <= SnapMaxBytes
      BY <2>2, <1>n, SnapBounds DEF Fits
    <3>2. snapWorkers' = [snapWorkers EXCEPT ![w] = [[x EXCEPT !.at = "poll"] EXCEPT !.bytes = n]]
      BY ZenonT(60), <2>2, <1>f, <1>t DEF SnapWorker
    <3> HIDE DEF n
    <3> QED BY ZenonT(60), <3>1, <3>2, <2>0, <1>m
  <2> QED BY ZenonT(60), <1>4, <2>1, <2>2 DEF SnapChunk, Replies
<1>5. CASE SnapSettle(w)
  <2> DEFINE v == IF x.reply = "Complete" THEN "Committed" ELSE "Aborted"
             q == [y EXCEPT !.state = v]
             p == [x EXCEPT !.at = "reply"]
  <2>0. x.at = "settle" /\ y.told = "nothing" /\ x.reply \in Replies
    BY ZenonT(60), <1>5, <1>s DEF SnapSettle, HoldFine
  <2>1. q \in SnapSubmission /\ q.state = v /\ q.told = y.told /\ q.bytes = y.bytes
    BY ZenonT(60), <1>t DEF SnapSubmission
  <2>2. /\ p \in SnapWorker /\ p.at = "reply" /\ p.slot = x.slot /\ p.bytes = x.bytes /\ p.reply = x.reply
    BY ZenonT(60), <1>t DEF SnapWorker, Busy
  <2>3. snapWorkers' = [snapWorkers EXCEPT ![w] = p] /\ submissions' = [submissions EXCEPT ![s] = q]
    BY ZenonT(60), <1>5, <1>s DEF SnapSettle
  <2> HIDE DEF p, q
  <2>4. AnswerFine(q) /\ HoldFine(p, q) /\ p.at \in Busy
    BY ZenonT(60), <2>0, <2>1, <2>2, <1>n DEF AnswerFine, HoldFine, Busy
  <2> QED BY ZenonT(60), <2>1, <2>2, <2>3, <2>4, <1>s, <1>g
<1>6. CASE SnapReply(w)
  <2>0. x.at = "reply" /\ x.reply \in Replies
    BY ZenonT(60), <1>6, <1>s DEF SnapReply, HoldFine
  <2>a. CASE ~y.waiting
    <3>1. snapWorkers' = [snapWorkers EXCEPT ![w] = Looping] /\ submissions' = submissions
      BY ZenonT(60), <1>6, <2>a, <1>s DEF SnapReply
    <3>2. submissions' = [submissions EXCEPT ![s] = y]
      BY ZenonT(60), <3>1, <1>y
    <3> QED BY ZenonT(60), <3>1, <3>2, <1>t, <1>l, <1>g
  <2>b. CASE y.waiting
    <3> DEFINE q1 == [y EXCEPT !.told = x.reply]
               q == [q1 EXCEPT !.bytes = x.bytes]
               p == [x EXCEPT !.at = "mark"]
    <3>1. q \in SnapSubmission /\ q.state = y.state /\ q.told = x.reply /\ q.bytes = x.bytes
      BY ZenonT(60), <1>t, <1>n, <2>0 DEF SnapSubmission
    <3>2. /\ p \in SnapWorker /\ p.at = "mark" /\ p.slot = x.slot /\ p.bytes = x.bytes /\ p.reply = x.reply
      BY ZenonT(60), <1>t DEF SnapWorker, Busy
    <3>3. snapWorkers' = [snapWorkers EXCEPT ![w] = p]
      BY ZenonT(60), <1>6, <2>b, <1>s DEF SnapReply
    <3>4. submissions' = [submissions EXCEPT ![s] = q]
      BY ZenonT(60), <1>6, <2>b, <1>s, <1>f DEF SnapReply
    <3>5. y.state = IF x.reply = "Complete" THEN "Committed" ELSE "Aborted"
      BY ZenonT(60), <1>s, <2>0 DEF HoldFine
    <3> HIDE DEF p, q
    <3>6. AnswerFine(q) /\ HoldFine(p, q) /\ p.at \in Busy
      BY ZenonT(60), <2>0, <3>1, <3>2, <3>5, <1>n DEF AnswerFine, HoldFine, Busy, Replies
    <3> QED BY ZenonT(60), <3>1, <3>2, <3>3, <3>4, <3>6, <1>s, <1>g
  <2> QED BY <2>a, <2>b
<1>7. CASE SnapMark(w)
  <2> DEFINE q == [y EXCEPT !.state = "Replied"]
  <2>0. x.at = "mark" /\ y.told = x.reply /\ x.reply \in Replies
    BY ZenonT(60), <1>7, <1>s DEF SnapMark, HoldFine
  <2>1. q \in SnapSubmission /\ q.state = "Replied" /\ q.told = y.told /\ q.bytes = y.bytes
    BY ZenonT(60), <1>t DEF SnapSubmission
  <2>2. snapWorkers' = [snapWorkers EXCEPT ![w] = Looping] /\ submissions' = [submissions EXCEPT ![s] = q]
    BY ZenonT(60), <1>7, <1>s DEF SnapMark
  <2> HIDE DEF q
  <2>3. AnswerFine(q)
    BY ZenonT(60), <2>0, <2>1, <1>t DEF AnswerFine, Replies
  <2> QED BY ZenonT(60), <2>1, <2>2, <2>3, <1>l, <1>g
<1> QED BY ZenonT(60), <1>1, <1>2, <1>3, <1>4, <1>5, <1>6, <1>7

\* Every step of the service keeps the invariant.
LEMMA SnapStep == SnapInv /\ [SnapNext]_snapVars => SnapInv'
<1> SUFFICES ASSUME SnapInv, [SnapNext]_snapVars PROVE SnapInv'
  OBVIOUS
<1>1. CASE SnapCallers
  BY <1>1, SnapCallerStep
<1>2. ASSUME NEW w \in SnapWorkers, SnapTurn(w) \/ SnapLate(w) \/ SnapPanic(w) PROVE SnapInv'
  <2>1. CASE SnapLoop(w)
    <3>1. CASE snapStopping
      <4>1. SnapLeaves(w, "exited") /\ snapWorkers[w].at = "loop" /\ "exited" \in Gone
        BY <2>1, <3>1 DEF SnapLoop, Gone
      <4> QED BY ZenonT(60), <4>1, SnapLeavesStep
    <3>2. CASE ~snapStopping
      <4> DEFINE x == [snapWorkers[w] EXCEPT !.at = "receive"]
      <4>1. /\ snapWorkers[w].at = "loop" /\ snapQueue' = snapQueue /\ submissions' = submissions
            /\ snapWorkers' = [snapWorkers EXCEPT ![w] = x]
        BY <2>1, <3>2 DEF SnapLoop
      <4>2. snapWorkers[w] \in SnapWorker /\ WorkerFine(snapWorkers[w])
        BY DEF SnapInv, SnapTypes
      <4>3. snapWorkers[w].slot = {}
        BY <4>1, <4>2 DEF WorkerFine, Busy
      <4>4. x \in SnapWorker /\ x.at = "receive" /\ x.slot = {}
        BY ZenonT(60), <4>2, <4>3 DEF SnapWorker
      <4>5. x.at \notin Busy
        BY <4>4 DEF Busy
      <4> HIDE DEF x
      <4> QED BY ZenonT(60), <4>1, <4>4, <4>5, SnapIdleFrame
    <3> QED BY <3>1, <3>2
  <2>2. CASE SnapReceive(w)
    BY <2>2, SnapReceiveStep
  <2>3. CASE SnapReport(w)
    <3> DEFINE x == [snapWorkers[w] EXCEPT !.at = "dead"]
    <3>1. /\ snapWorkers[w].at = "unwound" /\ snapQueue' = snapQueue /\ submissions' = submissions
          /\ snapWorkers' = [snapWorkers EXCEPT ![w] = x]
      BY <2>3 DEF SnapReport
    <3>2. snapWorkers[w] \in SnapWorker /\ WorkerFine(snapWorkers[w])
      BY DEF SnapInv, SnapTypes
    <3>3. snapWorkers[w].slot = {}
      BY <3>1, <3>2 DEF WorkerFine, Busy
    <3>4. x \in SnapWorker /\ x.at = "dead" /\ x.slot = {}
      BY ZenonT(60), <3>2, <3>3 DEF SnapWorker, Gone
    <3>5. x.at \notin Busy
      BY <3>4 DEF Busy
    <3> HIDE DEF x
    <3> QED BY ZenonT(60), <3>1, <3>4, <3>5, SnapIdleFrame
  <2>4. CASE SnapPanic(w)
    <3>1. SnapLeaves(w, "unwound") /\ snapWorkers[w].at \in {"loop", "begin", "chunk"} /\ "unwound" \in Gone
      BY ZenonT(60), <2>4 DEF SnapPanic, Gone
    <3> QED BY ZenonT(60), <3>1, SnapLeavesStep
  <2> QED BY ZenonT(60), <1>2, <2>1, <2>2, <2>3, <2>4, SnapBusyStep DEF SnapTurn
<1>3. CASE SnapDrop \/ UNCHANGED snapVars
  <2>1. UNCHANGED <<submissions, snapQueue, snapWorkers>>
    BY ZenonT(60), <1>3 DEF SnapDrop, snapVars
  <2> QED BY ZenonT(60), <2>1 DEF SnapInv, SnapTypes, SnapOnce, WorkerFine
<1> QED BY ZenonT(60), <1>1, <1>2, <1>3 DEF SnapNext

\* Whatever the sizes and numbers, what a submitter of a snapshot is told agrees with the
\* command's state and the byte limit, in every interleaving of answers, dropped receivers,
\* panics and shutdown.
THEOREM SnapshotAnswers == SnapSpec => []SnapshotAnswersTruthful
<1>1. SnapInit => SnapInv
  <2> SUFFICES ASSUME SnapInit PROVE SnapInv
    OBVIOUS
  <2>1. NoSubmission \in SnapSubmission /\ AnswerFine(NoSubmission)
    BY ZenonT(60) DEF NoSubmission, SnapSubmission, AnswerFine
  <2>2. Looping \in SnapWorker /\ Looping.at \notin Busy /\ Looping.slot = {}
    BY ZenonT(60) DEF Looping, SnapWorker, Busy
  <2>3. SnapTypes
    BY <2>1, <2>2 DEF SnapInit, SnapTypes
  <2>4. /\ \A s \in SnapSlots : submissions[s] = NoSubmission
        /\ \A w \in SnapWorkers : snapWorkers[w] = Looping
        /\ Len(snapQueue) = 0
    BY DEF SnapInit
  <2>5. SnapOnce
    BY <2>2, <2>4 DEF SnapOnce
  <2>6. \A w \in SnapWorkers : WorkerFine(snapWorkers[w])
    BY ZenonT(60), <2>2, <2>4 DEF WorkerFine
  <2>7. 1 .. Len(snapQueue) = {}
    BY <2>4
  <2> QED BY ZenonT(60), <2>1, <2>3, <2>4, <2>5, <2>6, <2>7 DEF SnapInv
<1>2. SnapInv => SnapshotAnswersTruthful
  BY ZenonT(60) DEF SnapInv, AnswerFine, SnapshotAnswersTruthful
<1> QED BY <1>1, <1>2, SnapStep, PTL DEF SnapSpec

-----------------------------------------------------------------------------
\* The records that carry the versions vs.
EntryRecord(vs) ==
  [generation : Nat, current : Nat, versions : {vs}, cas : {"unset", "yes", "no"}, max : Nat,
   protected : Nat, known : BOOLEAN, deferred : BOOLEAN]

\* An entry: its version numbers are between 1 and the current one.
IsEntry(e) == e \in EntryRecord(e.versions) /\ Retained(e) \subseteq 1 .. e.current

\* The versions that must be served or rolled back to are there.
Anchored(e) ==
  /\ e.current # 0 => e.current \in Retained(e)
  /\ e.protected # 0 => e.protected \in Retained(e)

DeferredOnHold(e) == e.deferred => e.protected \notin {0, e.current}

\* A version is marked destroyed when, and only when, its value is wiped.
Marked(e) ==
  \A v \in Retained(e) :
    /\ e.versions[v] \in [state : VersionState, value : {e.versions[v].value}]
    /\ e.versions[v].value = Wiped <=> e.versions[v].state = "Destroyed"

\* What no operation that keeps the numbering changes.
SameCounters(e, f) == f.current = e.current /\ f.max = e.max /\ f.protected = e.protected

(* Pruning drops versions, and neither the current nor the held one (prune). *)
LEMMA PruneShape ==
  ASSUME NEW e, NEW m, IsEntry(e)
  PROVE  /\ IsEntry(Prune(e, m)) /\ SameCounters(e, Prune(e, m))
         /\ Retained(Prune(e, m)) \subseteq Retained(e)
         /\ \A v \in Retained(Prune(e, m)) : Prune(e, m).versions[v] = e.versions[v]
         /\ \A v \in {e.current, e.protected} \cap Retained(e) : v \in Retained(Prune(e, m))
<1> DEFINE excess     == Cardinality(Retained(e)) - MaxOf(e, m)
           candidates == Retained(e) \ {e.protected, e.current}
           gone       == {v \in candidates : Cardinality({x \in candidates : x < v}) < excess}
           d          == Drop(e, gone)
           f          == [d EXCEPT !.deferred = Cardinality(candidates) < excess]
<1>1. Prune(e, m) = f
  BY DEF Prune
<1>2. gone \subseteq Retained(e) \ {e.protected, e.current}
  OBVIOUS
<1> HIDE DEF gone, candidates, excess
<1>3. (Cardinality(candidates) < excess) \in BOOLEAN
  OBVIOUS
<1>4. /\ d \in EntryRecord(d.versions) /\ SameCounters(e, d)
      /\ d.versions = [v \in Retained(e) \ gone |-> e.versions[v]]
  BY ZenonT(60) DEF Drop, IsEntry, EntryRecord, SameCounters
<1> HIDE DEF d
<1>5. /\ f \in EntryRecord(f.versions) /\ SameCounters(e, f)
      /\ f.versions = [v \in Retained(e) \ gone |-> e.versions[v]]
  BY ZenonT(60), <1>3, <1>4 DEF SameCounters, EntryRecord
<1> HIDE DEF f
<1>6. Retained(f) = Retained(e) \ gone /\ \A v \in Retained(f) : f.versions[v] = e.versions[v]
  BY ZenonT(60), <1>5 DEF Retained
<1> QED
  BY ZenonT(60), <1>1, <1>2, <1>5, <1>6 DEF IsEntry, EntryRecord, SameCounters

(* Pruning is put off only for a held version that is not the current one:   *)
(* max_versions is at least one, and one version is the current (prune).     *)
LEMMA PruneDefers ==
  ASSUME NEW e, NEW m \in Nat \ {0}, IsEntry(e)
  PROVE  DeferredOnHold(Prune(e, m))
<1> DEFINE excess     == Cardinality(Retained(e)) - MaxOf(e, m)
           candidates == Retained(e) \ {e.protected, e.current}
           gone       == {v \in candidates : Cardinality({x \in candidates : x < v}) < excess}
           d          == Drop(e, gone)
<1>1. Prune(e, m) = [d EXCEPT !.deferred = Cardinality(candidates) < excess]
  BY DEF Prune
<1>2. d \in EntryRecord(d.versions)
  BY ZenonT(60) DEF Drop, IsEntry, EntryRecord
<1> HIDE DEF d, gone
<1>3. Prune(e, m).deferred = (Cardinality(candidates) < excess)
  BY <1>1, <1>2, Zenon DEF EntryRecord
<1>4. Prune(e, m).protected = e.protected /\ Prune(e, m).current = e.current
  BY ZenonT(60), PruneShape DEF SameCounters
<1>5. SUFFICES ASSUME e.protected \in {0, e.current} PROVE ~(Cardinality(candidates) < excess)
  BY <1>3, <1>4, Zenon DEF DeferredOnHold
<1>6. IsFiniteSet(Retained(e))
  <2>1. e.current \in Int /\ 1 \in Int /\ Retained(e) \subseteq 1 .. e.current
    BY DEF IsEntry, EntryRecord
  <2>2. IsFiniteSet(1 .. e.current)
    BY <2>1, FS_Interval
  <2> QED
    BY <2>1, <2>2, FS_Subset
<1>7. candidates = Retained(e) \ {e.current}
  BY <1>5 DEF IsEntry, EntryRecord
<1> HIDE DEF candidates
<1>8. /\ Cardinality(Retained(e)) \in Nat /\ Cardinality(candidates) \in Nat
      /\ Cardinality(candidates) >= Cardinality(Retained(e)) - 1
  <2>1. /\ IsFiniteSet(candidates)
        /\ Cardinality(candidates) = IF e.current \in Retained(e)
                                     THEN Cardinality(Retained(e)) - 1
                                     ELSE Cardinality(Retained(e))
    BY <1>6, <1>7, FS_RemoveElement, Zenon
  <2>2. Cardinality(Retained(e)) \in Nat /\ Cardinality(candidates) \in Nat
    BY <1>6, <2>1, FS_CardinalityType, Zenon
  <2> QED
    BY <2>1, <2>2
<1>9. MaxOf(e, m) \in Nat \ {0}
  BY DEF MaxOf, IsEntry, EntryRecord
<1> QED
  BY <1>8, <1>9

Sound(e) == IsEntry(e) /\ Anchored(e) /\ DeferredOnHold(e) /\ Marked(e)

\* The entry f continues the history of e.
Continues(e, f) ==
  /\ f.current >= e.current
  /\ \A v \in Retained(f) \ Retained(e) : v > e.current
  /\ \A v \in Retained(f) \cap Retained(e) :
       /\ f.versions[v].value \in {e.versions[v].value, Wiped}
       /\ f.versions[v].value = Wiped <=> f.versions[v].state = "Destroyed"
       /\ e.versions[v].state = "Destroyed" => f.versions[v] = e.versions[v]

(* A new path has no version and holds none (Entry::new).                    *)
LEMMA NewEntrySound == ASSUME NEW c \in {"unset", "yes", "no"} PROVE Sound(NewEntry(c))
<1>1. NewEntry(c).versions = <<>> /\ DOMAIN NewEntry(c).versions = {}
  BY DEF NewEntry
<1>2. NewEntry(c) \in EntryRecord(NewEntry(c).versions)
  BY DEF NewEntry, EntryRecord
<1> QED
  BY ZenonT(60), <1>1, <1>2 DEF NewEntry, Sound, IsEntry, Anchored, DeferredOnHold, Marked, Retained

(* A sound entry stays sound when it is pruned; nothing is added (prune).    *)
LEMMA PruneSound ==
  ASSUME NEW e, NEW m \in Nat \ {0}, IsEntry(e), Anchored(e), Marked(e)
  PROVE  Sound(Prune(e, m)) /\ Continues(e, Prune(e, m))
<1> DEFINE f == Prune(e, m)
<1>1. /\ IsEntry(f) /\ SameCounters(e, f) /\ DeferredOnHold(f)
      /\ Retained(f) \subseteq Retained(e)
      /\ \A v \in Retained(f) : f.versions[v] = e.versions[v]
      /\ \A v \in {e.current, e.protected} \cap Retained(e) : v \in Retained(f)
  BY ZenonT(60), PruneShape, PruneDefers
<1> HIDE DEF f
<1>2. Anchored(f)
  BY ZenonT(60), <1>1 DEF SameCounters, Anchored
<1>3. Marked(f)
  BY ZenonT(60), <1>1 DEF Marked
<1>4. Continues(e, f)
  BY <1>1 DEF Continues, SameCounters, Marked, IsEntry, EntryRecord
<1> QED
  BY ZenonT(60), <1>1, <1>2, <1>3, <1>4 DEF Sound, f

(* Pruning after a step still continues the history from before the step.    *)
LEMMA PruneContinues ==
  ASSUME NEW e, NEW f, NEW m, IsEntry(f), Continues(e, f)
  PROVE  Continues(e, Prune(f, m))
<1> DEFINE g == Prune(f, m)
<1>1. /\ Retained(g) \subseteq Retained(f) /\ g.current = f.current
      /\ \A x \in Retained(g) : g.versions[x] = f.versions[x]
  BY PruneShape DEF SameCounters
<1> HIDE DEF g
<1>2. Continues(e, g)
  BY ZenonT(60), <1>1 DEF Continues
<1> QED
  BY ZenonT(60), <1>2 DEF g

(* A write adds one version, numbered after the current one (write).         *)
LEMMA AppendSound ==
  ASSUME NEW e, NEW value, value # Wiped, IsEntry(e), Anchored(e), Marked(e)
  PROVE  LET f == AppendVersion(e, value)
         IN  /\ IsEntry(f) /\ Anchored(f) /\ Marked(f) /\ Continues(e, f)
             /\ f.current = e.current + 1 /\ f.protected = e.protected
             /\ f.versions[f.current].value = value
<1> DEFINE n == e.current + 1
           vs == [x \in Retained(e) \cup {n} |->
                    IF x = n THEN [state |-> "Live", value |-> value] ELSE e.versions[x]]
           f == [e EXCEPT !.current = n, !.generation = @ + 1, !.versions = vs]
<1>1. AppendVersion(e, value) = f
  BY DEF AppendVersion, IsEntry, EntryRecord
<1>2. n \in Nat /\ n = e.current + 1 /\ e.current \in Nat
  BY DEF IsEntry, EntryRecord
<1> HIDE DEF vs, n
<1>3. f \in EntryRecord(vs) /\ f.versions = vs /\ f.current = n /\ f.protected = e.protected
  <2> DEFINE a == [e EXCEPT !.current = n]
             b == [a EXCEPT !.generation = e.generation + 1]
  <2>1. a \in EntryRecord(e.versions) /\ a.current = n /\ a.protected = e.protected
    BY ZenonT(60), <1>2 DEF IsEntry, EntryRecord
  <2>2. f = [b EXCEPT !.versions = vs]
    BY ZenonT(60) DEF IsEntry, EntryRecord
  <2> HIDE DEF a
  <2>3. b \in EntryRecord(e.versions) /\ b.current = n /\ b.protected = e.protected
    BY <2>1 DEF IsEntry, EntryRecord
  <2> HIDE DEF b, f
  <2> QED
    BY ZenonT(60), <2>2, <2>3 DEF EntryRecord
<1> HIDE DEF f
<1>4. /\ Retained(f) = Retained(e) \cup {n}
      /\ f.versions[n] = [state |-> "Live", value |-> value]
      /\ \A x \in Retained(e) : x # n => f.versions[x] = e.versions[x]
  BY ZenonT(60), <1>3 DEF Retained, vs
<1>5. \A x \in Retained(e) : x \in 1 .. e.current /\ x # n
  BY <1>2 DEF IsEntry
<1>6. IsEntry(f)
  BY <1>2, <1>3, <1>4, <1>5 DEF IsEntry
<1>7. Anchored(f)
  BY ZenonT(60), <1>3, <1>4 DEF Anchored
<1>8. Marked(f)
  <2> SUFFICES ASSUME NEW v \in Retained(f)
               PROVE  /\ f.versions[v] \in [state : VersionState, value : {f.versions[v].value}]
                      /\ f.versions[v].value = Wiped <=> f.versions[v].state = "Destroyed"
    BY ZenonT(60) DEF Marked
  <2>1. CASE v = n
    BY <2>1, <1>4 DEF VersionState
  <2>2. CASE v # n
    BY <2>2, <1>4, Zenon DEF Marked
  <2> QED
    BY ZenonT(60), <2>1, <2>2
<1>9. Continues(e, f)
  BY <1>2, <1>3, <1>4, <1>5 DEF Continues, Marked
<1> QED
  BY <1>1, <1>2, <1>3, <1>4, <1>6, <1>7, <1>8, <1>9

(* Delete, undelete and destroy change the named versions in place, and      *)
(* leave what was destroyed as it is (mutate_versions_locked).               *)
LEMMA MutateSound ==
  ASSUME NEW e, NEW vs, NEW action \in {"SoftDelete", "Undelete", "Destroy"}, IsEntry(e),
         Marked(e), CanMutate(e, vs, action)
  PROVE  LET f == MutateVersions(e, vs, action)
         IN  /\ IsEntry(f) /\ Marked(f) /\ Continues(e, f) /\ Retained(f) = Retained(e)
             /\ f.current = e.current /\ f.protected = e.protected /\ f.deferred = e.deferred
<1> DEFINE ms == [v \in Retained(e) |-> IF v \in vs THEN MutatedVersion(e.versions[v], action)
                                       ELSE e.versions[v]]
           a == [e EXCEPT !.generation = e.generation + 1]
           f == [a EXCEPT !.versions = ms]
<1>1. MutateVersions(e, vs, action) = f
  BY ZenonT(60) DEF MutateVersions, IsEntry, EntryRecord
<1>2. /\ a \in EntryRecord(e.versions) /\ a.current = e.current /\ a.protected = e.protected
      /\ a.deferred = e.deferred
  BY DEF IsEntry, EntryRecord
<1> HIDE DEF ms, a
<1>3. /\ f \in EntryRecord(ms) /\ f.versions = ms /\ f.current = e.current
      /\ f.protected = e.protected /\ f.deferred = e.deferred
  BY ZenonT(60), <1>2 DEF EntryRecord
<1> HIDE DEF f
<1>4. /\ Retained(f) = Retained(e)
      /\ \A v \in Retained(e) :
           f.versions[v] = IF v \in vs THEN MutatedVersion(e.versions[v], action)
                           ELSE e.versions[v]
  BY ZenonT(60), <1>3 DEF Retained, ms
<1>5. ASSUME NEW v \in Retained(e)
      PROVE  /\ f.versions[v] \in [state : VersionState, value : {f.versions[v].value}]
             /\ f.versions[v].value \in {e.versions[v].value, Wiped}
             /\ f.versions[v].value = Wiped <=> f.versions[v].state = "Destroyed"
             /\ e.versions[v].state = "Destroyed" => f.versions[v] = e.versions[v]
  <2> DEFINE x == e.versions[v]
  <2>1. /\ x \in [state : VersionState, value : {x.value}]
        /\ x.value = Wiped <=> x.state = "Destroyed"
        /\ action = "SoftDelete" /\ v \in vs => x.state # "Destroyed"
    BY ZenonT(60) DEF Marked, CanMutate
  <2>2. f.versions[v] = IF v \in vs THEN MutatedVersion(x, action) ELSE x
    BY ZenonT(60), <1>4
  <2> HIDE DEF x
  <2>3. CASE v \notin vs
    BY <2>1, <2>2, <2>3, Zenon DEF x
  <2>4. CASE v \in vs /\ action = "SoftDelete"
    BY ZenonT(60), <2>1, <2>2, <2>4 DEF MutatedVersion, VersionState, x
  <2>5. CASE v \in vs /\ action = "Undelete"
    BY ZenonT(60), <2>1, <2>2, <2>5 DEF MutatedVersion, VersionState, x
  <2>6. CASE v \in vs /\ action = "Destroy"
    <3>1. f.versions[v] = [state |-> "Destroyed", value |-> Wiped]
      BY ZenonT(60), <2>2, <2>6 DEF MutatedVersion
    <3>2. x.state = "Destroyed" => x = [state |-> "Destroyed", value |-> Wiped]
      BY ZenonT(60), <2>1
    <3> QED
      BY <3>1, <3>2 DEF VersionState, x
  <2> QED
    BY ZenonT(60), <2>3, <2>4, <2>5, <2>6
<1>6. IsEntry(f) /\ Marked(f)
  BY ZenonT(60), <1>3, <1>4, <1>5 DEF IsEntry, Marked
<1>7. Continues(e, f)
  BY <1>3, <1>4, <1>5 DEF Continues, IsEntry, EntryRecord
<1> QED
  BY ZenonT(60), <1>1, <1>3, <1>4, <1>6, <1>7

(* Settings leave the versions alone (update_metadata, set_path_*,           *)
(* set_rotation_protection before it prunes).                                *)
LEMMA SettingSound ==
  ASSUME NEW e, NEW f, IsEntry(e), Marked(e), f \in EntryRecord(e.versions),
         f.current = e.current
  PROVE  IsEntry(f) /\ Marked(f) /\ Continues(e, f) /\ Retained(f) = Retained(e)
<1>1. f.versions = e.versions
  BY ZenonT(60) DEF EntryRecord
<1> QED
  BY <1>1 DEF IsEntry, Marked, Continues, Retained, EntryRecord

(* Setting or releasing a hold and pruning (set_rotation_protection).        *)
LEMMA ProtectionSound ==
  ASSUME NEW e, NEW v \in Retained(e) \cup {0}, NEW m \in Nat \ {0}, Sound(e)
  PROVE  Sound(SetProtection(e, v, m)) /\ Continues(e, SetProtection(e, v, m))
<1> DEFINE a == [e EXCEPT !.protected = v]
           b == [a EXCEPT !.known = TRUE]
           f == [b EXCEPT !.generation = e.generation + 1]
<1>0. v \in Nat
  BY DEF Sound, IsEntry, EntryRecord
<1>1. SetProtection(e, v, m) = Prune(f, m)
  BY ZenonT(60) DEF SetProtection, Sound, IsEntry, EntryRecord
<1>2. a \in EntryRecord(e.versions) /\ a.current = e.current /\ a.protected = v
  BY ZenonT(60), <1>0 DEF Sound, IsEntry, EntryRecord
<1> HIDE DEF a
<1>3. b \in EntryRecord(e.versions) /\ b.current = e.current /\ b.protected = v
  BY ZenonT(60), <1>2 DEF EntryRecord
<1> HIDE DEF b
<1>4. f \in EntryRecord(e.versions) /\ f.current = e.current /\ f.protected = v
  BY <1>3 DEF EntryRecord, Sound, IsEntry
<1> HIDE DEF f
<1>5. IsEntry(f) /\ Marked(f) /\ Continues(e, f) /\ Retained(f) = Retained(e)
  BY ZenonT(60), <1>4, SettingSound DEF Sound
<1>6. Anchored(f)
  BY ZenonT(60), <1>4, <1>5 DEF Sound, Anchored
<1>7. Sound(Prune(f, m)) /\ Continues(f, Prune(f, m))
  BY ZenonT(60), <1>5, <1>6, PruneSound
<1> QED
  BY ZenonT(60), <1>1, <1>5, <1>7, PruneContinues

(* A write as a whole: the new version, then pruning (write).                *)
LEMMA WriteSound ==
  ASSUME NEW e, NEW value, value # Wiped, NEW m \in Nat \ {0}, Sound(e)
  PROVE  LET f == Prune(AppendVersion(e, value), m) IN Sound(f) /\ Continues(e, f)
<1> DEFINE a == AppendVersion(e, value)
<1>1. IsEntry(a) /\ Anchored(a) /\ Marked(a) /\ Continues(e, a)
  BY ZenonT(60), AppendSound DEF Sound
<1> HIDE DEF a
<1>2. Sound(Prune(a, m)) /\ Continues(e, Prune(a, m))
  BY ZenonT(60), <1>1, PruneSound, PruneContinues
<1> QED
  BY ZenonT(60), <1>2 DEF a

(* Writing metadata, for a path that exists or not (update_metadata).        *)
LEMMA MetadataSound ==
  ASSUME NEW e, NEW cas \in {"keep", "yes", "no"}, NEW max \in Nat \cup {-1}, Sound(e)
  PROVE  Sound(UpdateMetadata(e, cas, max)) /\ Continues(e, UpdateMetadata(e, cas, max))
<1> DEFINE a == [e EXCEPT !.generation = e.generation + 1]
           b == [a EXCEPT !.cas = IF cas = "keep" THEN e.cas ELSE cas]
           f == [b EXCEPT !.max = IF max = -1 THEN e.max ELSE max]
<1>1. UpdateMetadata(e, cas, max) = f
  BY ZenonT(60) DEF UpdateMetadata, Sound, IsEntry, EntryRecord
<1>2. /\ a \in EntryRecord(e.versions) /\ a.current = e.current
      /\ a.protected = e.protected /\ a.deferred = e.deferred
  BY DEF Sound, IsEntry, EntryRecord
<1>3. e.cas \in {"unset", "yes", "no"} /\ e.max \in Nat
  BY ZenonT(60) DEF Sound, IsEntry, EntryRecord
<1> HIDE DEF a
<1>4. /\ b \in EntryRecord(e.versions) /\ b.current = e.current
      /\ b.protected = e.protected /\ b.deferred = e.deferred
  BY ZenonT(60), <1>2, <1>3 DEF EntryRecord
<1> HIDE DEF b
<1>5. /\ f \in EntryRecord(e.versions) /\ f.current = e.current
      /\ f.protected = e.protected /\ f.deferred = e.deferred
  BY ZenonT(60), <1>3, <1>4 DEF EntryRecord
<1> HIDE DEF f
<1>6. IsEntry(f) /\ Marked(f) /\ Continues(e, f) /\ Retained(f) = Retained(e)
  BY ZenonT(60), <1>5, SettingSound DEF Sound
<1>7. Anchored(f) /\ DeferredOnHold(f)
  BY ZenonT(60), <1>5, <1>6 DEF Sound, Anchored, DeferredOnHold
<1> QED
  BY ZenonT(60), <1>1, <1>6, <1>7 DEF Sound

(* set_path_cas_required, set_path_max_versions.                             *)
LEMMA PathSettingSound ==
  ASSUME NEW e, NEW cas \in {"unset", "yes", "no"}, NEW max \in Nat, Sound(e)
  PROVE  LET f == [e EXCEPT !.cas = cas, !.max = max] IN Sound(f) /\ Continues(e, f)
<1> DEFINE a == [e EXCEPT !.cas = cas]
           f == [a EXCEPT !.max = max]
<1>1. [e EXCEPT !.cas = cas, !.max = max] = f
  BY DEF Sound, IsEntry, EntryRecord
<1>2. /\ a \in EntryRecord(e.versions) /\ a.current = e.current
      /\ a.protected = e.protected /\ a.deferred = e.deferred
  BY DEF Sound, IsEntry, EntryRecord
<1> HIDE DEF a
<1>3. /\ f \in EntryRecord(e.versions) /\ f.current = e.current
      /\ f.protected = e.protected /\ f.deferred = e.deferred
  BY <1>2 DEF EntryRecord
<1> HIDE DEF f
<1>4. IsEntry(f) /\ Marked(f) /\ Continues(e, f) /\ Retained(f) = Retained(e)
  BY ZenonT(60), <1>3, SettingSound DEF Sound
<1>5. Anchored(f) /\ DeferredOnHold(f)
  BY ZenonT(60), <1>3, <1>4 DEF Sound, Anchored, DeferredOnHold
<1> QED
  BY <1>1, <1>4, <1>5 DEF Sound

(* A hold whose version is unknown (set_unknown_rotation_protection).        *)
LEMMA UnknownSound ==
  ASSUME NEW e, Sound(e)
  PROVE  LET f == [e EXCEPT !.known = FALSE] IN Sound(f) /\ Continues(e, f)
<1> DEFINE f == [e EXCEPT !.known = FALSE]
<1>1. /\ f \in EntryRecord(e.versions) /\ f.current = e.current
      /\ f.protected = e.protected /\ f.deferred = e.deferred
  BY ZenonT(60) DEF Sound, IsEntry, EntryRecord
<1> HIDE DEF f
<1>2. IsEntry(f) /\ Marked(f) /\ Continues(e, f) /\ Retained(f) = Retained(e)
  BY ZenonT(60), <1>1, SettingSound DEF Sound
<1>3. Anchored(f) /\ DeferredOnHold(f)
  BY ZenonT(60), <1>1, <1>2 DEF Sound, Anchored, DeferredOnHold
<1> QED
  BY ZenonT(60), <1>2, <1>3 DEF Sound, f

-----------------------------------------------------------------------------
(* The catalog.                                                            *)

CatalogSound ==
  /\ mountMax \in Nat \ {0}
  /\ \A p \in DOMAIN entries : Sound(entries[p])

HistoryStep ==
  \A p \in DOMAIN entries \cap DOMAIN entries' : Continues(entries[p], entries'[p])

(* The catalog starts empty.                                                 *)
LEMMA CatalogInitially == Init => CatalogSound
  BY CatalogAssumption DEF Init, CatalogSound

(* A step that leaves every entry alone, or removes some.                    *)
LEMMA EntriesKept ==
  ASSUME CatalogSound, mountMax' \in Nat \ {0}, DOMAIN entries' \subseteq DOMAIN entries,
         \A q \in DOMAIN entries' : entries'[q] = entries[q]
  PROVE  CatalogSound' /\ HistoryStep
<1>1. \A q \in DOMAIN entries : Sound(entries[q]) /\ Continues(entries[q], entries[q])
  BY DEF CatalogSound, Sound, Continues, IsEntry, EntryRecord, Marked
<1> QED
  BY ZenonT(60), <1>1 DEF CatalogSound, HistoryStep

(* A step that replaces one entry by a sound one that continues it.          *)
LEMMA EntryPut ==
  ASSUME NEW p, NEW e, CatalogSound, UNCHANGED mountMax, Put(p, e), Sound(e),
         Exists(p) => Continues(entries[p], e)
  PROVE  CatalogSound' /\ HistoryStep
<1>1. \A q \in DOMAIN entries : Sound(entries[q]) /\ Continues(entries[q], entries[q])
  BY DEF CatalogSound, Sound, Continues, IsEntry, EntryRecord, Marked
<1>2. /\ DOMAIN entries' = DOMAIN entries \cup {p}
      /\ \A q \in DOMAIN entries' : entries'[q] = IF q = p THEN e ELSE entries[q]
  BY ZenonT(60) DEF Put
<1>3. CatalogSound'
  BY ZenonT(60), <1>1, <1>2 DEF CatalogSound
<1>4. HistoryStep
  BY ZenonT(60), <1>1, <1>2 DEF HistoryStep, Exists
<1> QED
  BY ZenonT(60), <1>3, <1>4

(* Every operation of the data surface, the settings and the purge keeps the *)
(* entries sound and continues the history of the paths that stay.           *)
LEMMA CatalogStep == CatalogSound /\ Next => CatalogSound' /\ HistoryStep
<1> SUFFICES ASSUME CatalogSound, Next PROVE CatalogSound' /\ HistoryStep
  OBVIOUS
<1>m. mountMax \in Nat \ {0}
  BY ZenonT(60) DEF CatalogSound
<1>e. ASSUME NEW p, NEW c \in {"unset", "yes", "no"} PROVE Sound(EntryOr(p, NewEntry(c)))
  BY ZenonT(60), NewEntrySound DEF EntryOr, Exists, CatalogSound
<1>w. ASSUME NEW p, NEW value \in Value, WriteVersion(p, value), UNCHANGED mountMax
      PROVE  CatalogSound' /\ HistoryStep
  <2> DEFINE o == EntryOr(p, NewEntry("unset"))
             e == Prune(AppendVersion(o, value), mountMax)
  <2>1. Sound(o)
    BY ZenonT(60), <1>e
  <2>2. value # Wiped
    BY ZenonT(60), CatalogAssumption
  <2>3. Sound(e) /\ Continues(o, e)
    BY ZenonT(60), <1>m, <2>1, <2>2, WriteSound
  <2>4. Put(p, e)
    BY ZenonT(60), <1>w DEF WriteVersion
  <2>5. Exists(p) => Continues(entries[p], e)
    BY ZenonT(60), <2>3 DEF EntryOr
  <2> HIDE DEF e
  <2> QED
    BY ZenonT(60), <1>w, <2>3, <2>4, <2>5, EntryPut
<1>1. ASSUME NEW p \in Path, NEW action \in Action, Denied(p, action)
      PROVE CatalogSound' /\ HistoryStep
  BY ZenonT(60), <1>1, <1>m, EntriesKept DEF Denied, settings
<1>2. ASSUME NEW p \in Path, NEW value \in Value, NEW cas \in {-1, 0}, Write(p, value, cas)
      PROVE CatalogSound' /\ HistoryStep
  <2>1. UNCHANGED mountMax /\ (UNCHANGED entries \/ WriteVersion(p, value))
    BY ZenonT(60), <1>2 DEF Write, settings
  <2> QED
    BY ZenonT(60), <2>1, <1>m, <1>w, EntriesKept
<1>3. ASSUME NEW c \in Client, NEW p \in Path, ReadCurrent(c, p) \/ PurgePreflight(c, p)
      PROVE CatalogSound' /\ HistoryStep
  BY ZenonT(60), <1>3, <1>m, EntriesKept DEF ReadCurrent, PurgePreflight, settings
<1>4. ASSUME NEW p \in Path, NEW vs, NEW action \in {"SoftDelete", "Undelete", "Destroy"},
             Mutate(p, vs, action)
      PROVE CatalogSound' /\ HistoryStep
  <2>1. CASE Exists(p) /\ CanMutate(entries[p], vs, action)
    <3> DEFINE e == MutateVersions(entries[p], vs, action)
    <3>1. UNCHANGED mountMax /\ Put(p, e)
      BY ZenonT(60), <1>4, <2>1 DEF Mutate, settings
    <3>2. Sound(entries[p])
      BY ZenonT(60), <2>1 DEF CatalogSound, Exists
    <3>3. /\ IsEntry(e) /\ Marked(e) /\ Continues(entries[p], e)
          /\ Retained(e) = Retained(entries[p]) /\ e.current = entries[p].current
          /\ e.protected = entries[p].protected /\ e.deferred = entries[p].deferred
      BY <2>1, <3>2, MutateSound DEF Sound
    <3> HIDE DEF e
    <3>4. Sound(e)
      BY ZenonT(60), <3>2, <3>3 DEF Sound, Anchored, DeferredOnHold
    <3> QED
      BY ZenonT(60), <3>1, <3>3, <3>4, EntryPut
  <2>2. CASE ~(Exists(p) /\ CanMutate(entries[p], vs, action))
    BY ZenonT(60), <1>4, <2>2, <1>m, EntriesKept DEF Mutate, settings
  <2> QED
    BY ZenonT(60), <2>1, <2>2
<1>5. ASSUME NEW p \in Path, NEW action \in {"List", "Metadata"}, ListOrMetadata(p, action)
      PROVE CatalogSound' /\ HistoryStep
  BY ZenonT(60), <1>5, <1>m, EntriesKept DEF ListOrMetadata, settings
<1>6. ASSUME NEW p \in Path, NEW cas \in CasChoice \cup {"keep"},
             NEW max \in MaxChoice \cup {-1, 0}, WriteMetadata(p, cas, max)
      PROVE CatalogSound' /\ HistoryStep
  <2> DEFINE o == EntryOr(p, NewEntry("unset"))
             e == UpdateMetadata(o, cas, max)
  <2>1. UNCHANGED mountMax /\ Put(p, e)
    BY ZenonT(60), <1>6 DEF WriteMetadata, settings
  <2>2. cas \in {"keep", "yes", "no"} /\ max \in Nat \cup {-1}
    BY CatalogAssumption
  <2>3. Sound(o)
    BY ZenonT(60), <1>e
  <2>4. Sound(e) /\ Continues(o, e)
    BY ZenonT(60), <2>2, <2>3, MetadataSound
  <2>5. Exists(p) => Continues(entries[p], e)
    BY ZenonT(60), <2>4 DEF EntryOr
  <2> HIDE DEF e
  <2> QED
    BY ZenonT(60), <2>1, <2>4, <2>5, EntryPut
<1>7. ASSUME NEW p \in Path, NEW cas \in CasChoice \cup {"unset"},
             NEW max \in MaxChoice \cup {0}, SetPath(p, cas, max)
      PROVE CatalogSound' /\ HistoryStep
  <2> DEFINE o == EntryOr(p, NewEntry(cas))
             e == [o EXCEPT !.cas = cas, !.max = max]
  <2>1. UNCHANGED mountMax /\ Put(p, e)
    BY ZenonT(60), <1>7 DEF SetPath, settings
  <2>2. cas \in {"unset", "yes", "no"} /\ max \in Nat
    BY CatalogAssumption
  <2>3. Sound(o)
    BY ZenonT(60), <1>e, <2>2
  <2> HIDE DEF o
  <2>4. Sound(e) /\ Continues(o, e)
    BY ZenonT(60), <2>2, <2>3, PathSettingSound
  <2>5. Exists(p) => Continues(entries[p], e)
    BY ZenonT(60), <2>4 DEF EntryOr, o
  <2> HIDE DEF e
  <2> QED
    BY ZenonT(60), <2>1, <2>4, <2>5, EntryPut
<1>8. ASSUME NEW p \in Path, NEW v, SetRotationProtection(p, v)
      PROVE CatalogSound' /\ HistoryStep
  <2> DEFINE e == SetProtection(entries[p], v, mountMax)
  <2>1. UNCHANGED mountMax /\ Put(p, e) /\ Exists(p) /\ v \in Retained(entries[p]) \cup {0}
    BY ZenonT(60), <1>8 DEF SetRotationProtection, settings
  <2>2. Sound(entries[p])
    BY ZenonT(60), <2>1 DEF CatalogSound, Exists
  <2>3. Sound(e) /\ Continues(entries[p], e)
    BY ZenonT(60), <2>1, <2>2, <1>m, ProtectionSound
  <2> HIDE DEF e
  <2> QED
    BY ZenonT(60), <2>1, <2>3, EntryPut
<1>9. ASSUME NEW p \in Path, SetUnknownRotationProtection(p)
      PROVE CatalogSound' /\ HistoryStep
  <2> DEFINE e == [entries[p] EXCEPT !.known = FALSE]
  <2>1. UNCHANGED mountMax /\ Put(p, e) /\ Exists(p)
    BY ZenonT(60), <1>9 DEF SetUnknownRotationProtection, settings
  <2>2. Sound(entries[p])
    BY ZenonT(60), <2>1 DEF CatalogSound, Exists
  <2>3. Sound(e) /\ Continues(entries[p], e)
    BY ZenonT(60), <2>2, UnknownSound
  <2> HIDE DEF e
  <2> QED
    BY ZenonT(60), <2>1, <2>3, EntryPut
<1>10. ASSUME NEW c \in Client, Purge(c) PROVE CatalogSound' /\ HistoryStep
  <2>1. UNCHANGED mountMax
        /\ (UNCHANGED entries
            \/ entries' = [q \in DOMAIN entries \ {review[c].path} |-> entries[q]])
    BY ZenonT(60), <1>10 DEF Purge, settings
  <2> QED
    BY ZenonT(60), <2>1, <1>m, EntriesKept
<1>11. ASSUME NEW c \in Client, NEW value \in Value, WriteBack(c, value)
      PROVE CatalogSound' /\ HistoryStep
  <2>1. UNCHANGED mountMax /\ (UNCHANGED entries \/ WriteVersion(seen[c].path, value))
    BY ZenonT(60), <1>11 DEF WriteBack, settings
  <2> QED
    BY ZenonT(60), <2>1, <1>m, <1>w, EntriesKept
<1>12. ASSUME NEW cas \in CasChoice, NEW max \in MaxChoice, SetMount(cas = "yes", max)
      PROVE CatalogSound' /\ HistoryStep
  <2>1. mountMax' \in Nat \ {0} /\ UNCHANGED entries
    BY ZenonT(60), <1>12, CatalogAssumption DEF SetMount
  <2> QED
    BY ZenonT(60), <2>1, EntriesKept
<1>13. ASSUME NEW g \in GrantSet, ReplaceGrants(g) PROVE CatalogSound' /\ HistoryStep
  BY ZenonT(60), <1>13, <1>m, EntriesKept DEF ReplaceGrants
<1>14. CASE AuditCommitFails
  BY ZenonT(60), <1>14, <1>m, EntriesKept DEF AuditCommitFails, settings
<1> QED
  BY ZenonT(60), <1>1, <1>2, <1>3, <1>4, <1>5, <1>6, <1>7, <1>8, <1>9, <1>10, <1>11, <1>12, <1>13, <1>14
     DEF Next

(* Stuttering.                                                               *)
LEMMA CatalogStutters == CatalogSound /\ UNCHANGED vars => CatalogSound'
  BY ZenonT(60) DEF CatalogSound, vars, settings

(* Whatever max_versions is set to, a path keeps its current version and the *)
(* one a rotation holds, and puts pruning off only for such a hold (prune).  *)
THEOREM KvHeldVersions == Spec => []HeldVersionsRetained
<1>1. CatalogSound => HeldVersionsRetained
  BY ZenonT(60) DEF CatalogSound, Sound, Anchored, DeferredOnHold, HeldVersionsRetained
<1> QED
  BY <1>1, CatalogInitially, CatalogStep, CatalogStutters, PTL DEF Spec

(* No sequence of calls moves the history of a path back, gives a version    *)
(* number out twice, or brings a destroyed version back.                     *)
THEOREM KvHistory == Spec => HistoryIsAppendOnly
<1>1. HistoryStep =>
        \A p \in DOMAIN entries \cap DOMAIN entries' :
          LET e == entries[p] f == entries'[p]
          IN  /\ f.current >= e.current
              /\ \A v \in Retained(f) \ Retained(e) : v > e.current
              /\ \A v \in Retained(f) \cap Retained(e) :
                   /\ f.versions[v].value \in {e.versions[v].value, Wiped}
                   /\ f.versions[v].value = Wiped <=> f.versions[v].state = "Destroyed"
                   /\ e.versions[v].state = "Destroyed" => f.versions[v] = e.versions[v]
  BY Zenon DEF HistoryStep, Continues
<1> QED
  BY <1>1, CatalogInitially, CatalogStep, CatalogStutters, PTL DEF Spec, HistoryIsAppendOnly

-----------------------------------------------------------------------------
RowStates == {"none", "Prepared", "Cutover"} \cup Terminal

Rows == [state : RowStates, protected : Nat, expected : Nat, target : Nat, history : Nat]

EntryOK(e) == IsEntry(e) /\ Anchored(e) /\ Marked(e)

RotationTypes ==
  /\ mountLimit \in Nat \ {0}
  /\ EntryOK(entry)
  /\ rows \in [Id -> Rows]
  /\ DOMAIN kept = Id

OpInv ==
  /\ op # Idle => op.id \in Id
  /\ op.call \in {"idle", "begin", "refresh", "rollback", "copy", "release"}
  /\ op.call = "begin" => rows[op.id] = NoRow /\ \A other \in Id : ~Open(other)
  /\ op.call = "refresh" => rows[op.id].state = "Prepared"
  /\ op.call \in {"rollback", "copy", "release"} => rows[op.id].state = "Cutover"
  /\ op.call = "copy" => op.value = kept[op.id]

RowInv ==
  \A id \in Id :
    /\ rows[id].state = "none" => rows[id] = NoRow
    /\ rows[id].state = "Prepared" => rows[id].expected = rows[id].protected /\ rows[id].target = 0

KeptInv ==
  \A id \in Id : Open(id) =>
    /\ kept[id] # Wiped
    /\ entry.versions[rows[id].protected].value \in {kept[id], Wiped}

RotationInv ==
  RotationTypes /\ OpInv /\ RowInv /\ KeptInv /\ OpenRotationHolds /\ CutoverReplacesSnapshot

\* A step that leaves the rows alone, and the held version where it is.
Undisturbed ==
  /\ exists => exists'
  /\ EntryOK(entry') /\ entry'.protected = entry.protected
  /\ Continues(entry, entry')

-----------------------------------------------------------------------------
(* Entries.                                                                *)

(* Resetting the generation, which this model does not count.                *)
LEMMA ResetGeneration ==
  ASSUME NEW e, IsEntry(e), Marked(e)
  PROVE  LET f == [e EXCEPT !.generation = 1]
         IN  /\ IsEntry(f) /\ Marked(f) /\ Continues(e, f)
             /\ f.current = e.current /\ f.protected = e.protected /\ f.versions = e.versions
             /\ Anchored(e) => Anchored(f)
<1> DEFINE f == [e EXCEPT !.generation = 1]
<1>1. /\ f \in EntryRecord(e.versions) /\ f.current = e.current
      /\ f.protected = e.protected /\ f.versions = e.versions
  BY ZenonT(60) DEF IsEntry, EntryRecord
<1> HIDE DEF f
<1>2. IsEntry(f) /\ Marked(f) /\ Continues(e, f) /\ Retained(f) = Retained(e)
  BY ZenonT(60), <1>1, SettingSound
<1>3. Anchored(e) => Anchored(f)
  BY ZenonT(60), <1>1, <1>2 DEF Anchored
<1> QED
  BY ZenonT(60), <1>1, <1>2, <1>3 DEF f

(* Continuing the history twice.                                             *)
LEMMA ContinuesReset ==
  ASSUME NEW d, NEW e, NEW f, Continues(d, e), f.current = e.current, f.versions = e.versions
  PROVE  Continues(d, f)
  BY ZenonT(60) DEF Continues, Retained

(* The write of a version, as SetEntry installs it.                          *)
LEMMA AppendEntry ==
  ASSUME NEW e, NEW value, value # Wiped, EntryOK(e)
  PROVE  LET f == [AppendVersion(e, value) EXCEPT !.generation = 1]
         IN  /\ EntryOK(f) /\ Continues(e, f) /\ f.protected = e.protected
             /\ f.current = e.current + 1 /\ f.versions[f.current].value = value
<1> DEFINE a == AppendVersion(e, value)
           f == [a EXCEPT !.generation = 1]
<1>1. /\ IsEntry(a) /\ Anchored(a) /\ Marked(a) /\ Continues(e, a)
      /\ a.current = e.current + 1 /\ a.protected = e.protected
      /\ a.versions[a.current].value = value
  BY ZenonT(60), AppendSound DEF EntryOK
<1> HIDE DEF a
<1>2. /\ IsEntry(f) /\ Marked(f) /\ Anchored(f)
      /\ f.current = a.current /\ f.protected = a.protected /\ f.versions = a.versions
  BY ZenonT(60), <1>1, ResetGeneration
<1> HIDE DEF f
<1>3. Continues(e, f)
  BY ZenonT(60), <1>1, <1>2, ContinuesReset
<1> QED
  BY ZenonT(60), <1>1, <1>2, <1>3 DEF EntryOK, f, a

(* Pruning an entry, as it is installed.                                     *)
LEMMA PruneEntry ==
  ASSUME NEW d, NEW e, NEW m \in Nat \ {0}, EntryOK(e), Continues(d, e)
  PROVE  LET f == [Prune(e, m) EXCEPT !.generation = 1]
         IN  EntryOK(f) /\ Continues(d, f) /\ f.protected = e.protected
<1> DEFINE a == Prune(e, m)
           f == [a EXCEPT !.generation = 1]
<1>1. IsEntry(a) /\ Anchored(a) /\ Marked(a) /\ Continues(d, a) /\ a.protected = e.protected
  BY ZenonT(60), PruneSound, PruneContinues, PruneShape DEF EntryOK, Sound, SameCounters
<1> HIDE DEF a
<1>2. /\ IsEntry(f) /\ Marked(f) /\ Anchored(f)
      /\ f.current = a.current /\ f.protected = a.protected /\ f.versions = a.versions
  BY ZenonT(60), <1>1, ResetGeneration
<1> HIDE DEF f
<1>3. Continues(d, f)
  BY ZenonT(60), <1>1, <1>2, ContinuesReset
<1> QED
  BY ZenonT(60), <1>1, <1>2, <1>3 DEF EntryOK, f, a

(* Releasing the hold.                                                       *)
LEMMA UnprotectEntry ==
  ASSUME NEW e, NEW m \in Nat \ {0}, EntryOK(e)
  PROVE  LET f == [Unprotect(e, m) EXCEPT !.generation = 1] IN EntryOK(f) /\ Continues(e, f)
<1> DEFINE a == [e EXCEPT !.protected = 0]
           b == [a EXCEPT !.generation = e.generation + 1]
<1>1. Unprotect(e, m) = Prune(b, m)
  BY ZenonT(60) DEF Unprotect, EntryOK, IsEntry, EntryRecord
<1>2. a \in EntryRecord(e.versions) /\ a.current = e.current /\ a.protected = 0
  BY ZenonT(60) DEF EntryOK, IsEntry, EntryRecord
<1> HIDE DEF a
<1>3. b \in EntryRecord(e.versions) /\ b.current = e.current /\ b.protected = 0
  BY <1>2 DEF EntryOK, IsEntry, EntryRecord
<1> HIDE DEF b
<1>4. IsEntry(b) /\ Marked(b) /\ Continues(e, b) /\ Retained(b) = Retained(e)
  BY ZenonT(60), <1>3, SettingSound DEF EntryOK
<1>5. Anchored(b)
  BY ZenonT(60), <1>3, <1>4 DEF EntryOK, Anchored
<1> QED
  BY ZenonT(60), <1>1, <1>4, <1>5, PruneEntry DEF EntryOK

(* Holding the current version.                                              *)
LEMMA ProtectEntry ==
  ASSUME NEW e, EntryOK(e), e.current \in Retained(e)
  PROVE  LET f == [ProtectCurrent(e) EXCEPT !.generation = 1]
         IN  /\ EntryOK(f) /\ Continues(e, f) /\ f.protected = e.current
             /\ f.versions = e.versions
<1> DEFINE a == [e EXCEPT !.protected = e.current]
           b == [a EXCEPT !.known = TRUE]
           c == [b EXCEPT !.generation = e.generation + 1]
           f == [c EXCEPT !.generation = 1]
<1>1. ProtectCurrent(e) = c
  BY ZenonT(60) DEF ProtectCurrent, EntryOK, IsEntry, EntryRecord
<1>2. a \in EntryRecord(e.versions) /\ a.current = e.current /\ a.protected = e.current
  BY ZenonT(60) DEF EntryOK, IsEntry, EntryRecord
<1> HIDE DEF a
<1>3. b \in EntryRecord(e.versions) /\ b.current = e.current /\ b.protected = e.current
  BY ZenonT(60), <1>2 DEF EntryRecord
<1> HIDE DEF b
<1>4. c \in EntryRecord(e.versions) /\ c.current = e.current /\ c.protected = e.current
  BY <1>3 DEF EntryOK, IsEntry, EntryRecord
<1> HIDE DEF c
<1>5. /\ f \in EntryRecord(e.versions) /\ f.current = e.current /\ f.protected = e.current
      /\ f.versions = e.versions
  BY ZenonT(60), <1>4 DEF EntryRecord
<1> HIDE DEF f
<1>6. IsEntry(f) /\ Marked(f) /\ Continues(e, f) /\ Retained(f) = Retained(e)
  BY ZenonT(60), <1>5, SettingSound DEF EntryOK
<1>7. Anchored(f)
  BY ZenonT(60), <1>5, <1>6 DEF EntryOK, Anchored
<1> QED
  BY ZenonT(60), <1>1, <1>5, <1>6, <1>7 DEF EntryOK, f

-----------------------------------------------------------------------------
(* Steps.                                                                  *)

\* What RollbackRestores and NoWayBack say of one step.
ForwardStep ==
  /\ op.call = "copy" /\ op'.call = "release" =>
       /\ entry'.current = entry.current + 1
       /\ entry'.versions[entry'.current].value = kept[op.id]
       /\ kept[op.id] # Wiped
  /\ (\E id \in Id : Open(id)) => entry'.current >= entry.current
  /\ \A id \in Id : rows[id].state \in Terminal => rows'[id] = rows[id]

(* Nothing exists and nothing is open at the start.                          *)
LEMMA RotationInitially == RotationInit => RotationInv
<1> SUFFICES ASSUME RotationInit PROVE RotationInv
  OBVIOUS
<1>1. Sound(entry)
  BY ZenonT(60), NewEntrySound DEF RotationInit
<1>2. RotationTypes
  BY ZenonT(60), <1>1, RotationAssumption
     DEF RotationInit, RotationTypes, EntryOK, Sound, Rows, RowStates, NoRow
<1>3. \A id \in Id : rows[id] = NoRow /\ ~Open(id)
  BY ZenonT(60) DEF RotationInit, Open, NoRow
<1>4. OpInv
  BY ZenonT(60) DEF RotationInit, OpInv, Idle
<1> QED
  BY <1>2, <1>3, <1>4
     DEF RotationInv, RowInv, KeptInv, OpenRotationHolds, CutoverReplacesSnapshot, NoRow

(* The held version is one of the retained ones, so it is not zero.          *)
LEMMA HeldIsRetained ==
  ASSUME RotationInv, NEW id \in Id, Open(id)
  PROVE  /\ exists /\ entry.protected = rows[id].protected /\ entry.protected # 0
         /\ entry.protected \in Retained(entry)
  BY DEF RotationInv, RotationTypes, EntryOK, IsEntry, OpenRotationHolds

(* A step that leaves the rows alone keeps the invariant.                    *)
LEMMA RowsKept ==
  ASSUME RotationInv, Undisturbed, mountLimit' \in Nat \ {0}, UNCHANGED <<rows, kept>>, OpInv'
  PROVE  RotationInv'
<1>1. RotationTypes'
  BY ZenonT(60) DEF RotationInv, RotationTypes, Undisturbed
<1>2. ASSUME NEW id \in Id, Open(id)
      PROVE  /\ exists' /\ entry'.protected = rows[id].protected
             /\ entry'.protected \in Retained(entry')
             /\ entry'.versions[rows[id].protected].value \in {kept[id], Wiped}
  <2>1. /\ exists /\ entry.protected = rows[id].protected /\ entry.protected # 0
        /\ entry.protected \in Retained(entry)
    BY ZenonT(60), <1>2, HeldIsRetained
  <2>2. entry'.protected \in Retained(entry')
    BY ZenonT(60), <2>1 DEF Undisturbed, EntryOK, Anchored
  <2>3. entry.versions[rows[id].protected].value \in {kept[id], Wiped}
    BY ZenonT(60), <1>2 DEF RotationInv, KeptInv
  <2>4. /\ entry'.versions[rows[id].protected].value
             \in {entry.versions[rows[id].protected].value, Wiped}
    BY ZenonT(60), <2>1, <2>2 DEF Undisturbed, Continues
  <2> QED
    BY ZenonT(60), <2>1, <2>2, <2>3, <2>4 DEF Undisturbed
<1>3. KeptInv'
  BY ZenonT(60), <1>2 DEF RotationInv, KeptInv, Open
<1>4. OpenRotationHolds'
  BY ZenonT(60), <1>2 DEF RotationInv, OpenRotationHolds, Open
<1> QED
  BY ZenonT(60), <1>1, <1>3, <1>4 DEF RotationInv, RowInv, CutoverReplacesSnapshot

(* Steps of the others, between two lock acquisitions of a method.           *)
LEMMA OthersKept ==
  ASSUME RotationInv, Undisturbed, mountLimit' \in Nat \ {0}, UNCHANGED <<rows, op, kept>>
  PROVE  RotationInv' /\ ForwardStep
<1>1. OpInv'
  BY ZenonT(60) DEF RotationInv, OpInv, Open
<1>2. ForwardStep
  BY ZenonT(60) DEF ForwardStep, Undisturbed, Continues
<1> QED
  BY ZenonT(60), <1>1, <1>2, RowsKept

(* An entry nobody touches.                                                  *)
LEMMA SameUndisturbed == RotationInv /\ SameEntry => Undisturbed /\ mountLimit' \in Nat \ {0}
<1> SUFFICES ASSUME RotationInv, SameEntry PROVE Undisturbed /\ mountLimit' \in Nat \ {0}
  OBVIOUS
<1>1. Continues(entry, entry)
  BY DEF RotationInv, RotationTypes, EntryOK, IsEntry, EntryRecord, Marked, Continues
<1> QED
  BY ZenonT(60), <1>1 DEF SameEntry, RotationInv, RotationTypes, Undisturbed

(* A method that gives up leaves everything as it found it.                  *)
LEMMA AbandonKept == RotationInv /\ Abandon => RotationInv' /\ ForwardStep
<1> SUFFICES ASSUME RotationInv, Abandon PROVE RotationInv' /\ ForwardStep
  OBVIOUS
<1>1. Undisturbed /\ mountLimit' \in Nat \ {0}
  BY ZenonT(60), SameUndisturbed DEF Abandon
<1>2. OpInv' /\ op'.call # "release"
  BY ZenonT(60) DEF Abandon, Leave, OpInv, Idle
<1>3. UNCHANGED <<rows, kept>>
  BY ZenonT(60) DEF Abandon
<1>4. ForwardStep
  BY ZenonT(60), <1>1, <1>2, <1>3 DEF ForwardStep, Undisturbed, Continues
<1> QED
  BY ZenonT(60), <1>1, <1>2, <1>3, <1>4, RowsKept

(* Everybody else: writes, deletions, settings and purges.                   *)
LEMMA KvStepKept == RotationInv /\ KvStep => RotationInv' /\ ForwardStep
<1> SUFFICES ASSUME RotationInv, KvStep PROVE RotationInv' /\ ForwardStep
  OBVIOUS
<1>m. mountLimit \in Nat \ {0} /\ EntryOK(entry)
  BY ZenonT(60) DEF RotationInv, RotationTypes
<1>1. ASSUME NEW value \in Secret, PlainWrite(value) PROVE RotationInv' /\ ForwardStep
  <2> DEFINE a == AppendVersion(entry, value)
  <2>1. /\ EntryOK(a) /\ Continues(entry, a) /\ a.protected = entry.protected
    BY ZenonT(60), <1>m, AppendSound, RotationAssumption DEF EntryOK
  <2>2. entry' = [Prune(a, mountLimit) EXCEPT !.generation = 1]
    BY ZenonT(60), <1>1 DEF PlainWrite
  <2> HIDE DEF a
  <2>3. EntryOK(entry') /\ Continues(entry, entry') /\ entry'.protected = entry.protected
    BY <1>m, <2>1, <2>2, PruneEntry
  <2>4. Undisturbed
    BY ZenonT(60), <1>1, <2>3 DEF Undisturbed, PlainWrite
  <2> QED
    BY ZenonT(60), <1>1, <1>m, <2>4, OthersKept DEF PlainWrite
<1>2. ASSUME NEW vs, NEW action \in {"SoftDelete", "Undelete", "Destroy"},
             PlainMutate(vs, action)
      PROVE RotationInv' /\ ForwardStep
  <2> DEFINE a == MutateVersions(entry, vs, action)
  <2>1. /\ IsEntry(a) /\ Marked(a) /\ Continues(entry, a) /\ Retained(a) = Retained(entry)
        /\ a.current = entry.current /\ a.protected = entry.protected
    BY ZenonT(60), <1>2, <1>m, MutateSound DEF EntryOK, PlainMutate
  <2>2. entry' = [a EXCEPT !.generation = 1] /\ UNCHANGED <<exists, mountLimit>>
    BY ZenonT(60), <1>2 DEF PlainMutate, SetEntry
  <2> HIDE DEF a
  <2>3. Anchored(a)
    BY ZenonT(60), <1>m, <2>1 DEF EntryOK, Anchored
  <2>4. /\ EntryOK(entry') /\ entry'.protected = a.protected /\ entry'.current = a.current
        /\ entry'.versions = a.versions
    BY ZenonT(60), <2>1, <2>2, <2>3, ResetGeneration DEF EntryOK
  <2>5. Continues(entry, entry')
    BY ZenonT(60), <2>1, <2>4, ContinuesReset
  <2>6. Undisturbed
    BY ZenonT(60), <2>1, <2>2, <2>4, <2>5 DEF Undisturbed
  <2> QED
    BY ZenonT(60), <1>2, <1>m, <2>2, <2>6, OthersKept DEF PlainMutate
<1>3. ASSUME NEW max \in Limits \cup {0}, SetPathMax(max) PROVE RotationInv' /\ ForwardStep
  <2> DEFINE a == [entry EXCEPT !.generation = entry.generation + 1]
             b == [a EXCEPT !.cas = entry.cas]
             c == [b EXCEPT !.max = max]
             f == [c EXCEPT !.generation = 1]
  <2>0. max \in Nat /\ max # -1
    BY RotationAssumption
  <2>1. UpdateMetadata(entry, "keep", max) = c
    BY ZenonT(60), <1>m, <2>0 DEF UpdateMetadata, EntryOK, IsEntry, EntryRecord
  <2>2. /\ a \in EntryRecord(entry.versions) /\ a.current = entry.current
        /\ a.protected = entry.protected
    BY <1>m DEF EntryOK, IsEntry, EntryRecord
  <2> HIDE DEF a
  <2>3. /\ b \in EntryRecord(entry.versions) /\ b.current = entry.current
        /\ b.protected = entry.protected
    BY ZenonT(60), <1>m, <2>2 DEF EntryOK, IsEntry, EntryRecord
  <2> HIDE DEF b
  <2>4. /\ c \in EntryRecord(entry.versions) /\ c.current = entry.current
        /\ c.protected = entry.protected
    BY ZenonT(60), <2>0, <2>3 DEF EntryRecord
  <2> HIDE DEF c
  <2>5. /\ f \in EntryRecord(entry.versions) /\ f.current = entry.current
        /\ f.protected = entry.protected
    BY ZenonT(60), <2>4 DEF EntryRecord
  <2> HIDE DEF f
  <2>6. entry' = f
    BY ZenonT(60), <1>3, <2>1 DEF SetPathMax, f
  <2>7. IsEntry(f) /\ Marked(f) /\ Continues(entry, f) /\ Retained(f) = Retained(entry)
    BY ZenonT(60), <1>m, <2>5, SettingSound DEF EntryOK
  <2>8. Anchored(f)
    BY ZenonT(60), <1>m, <2>5, <2>7 DEF EntryOK, Anchored
  <2>9. Undisturbed
    BY ZenonT(60), <1>3, <2>5, <2>6, <2>7, <2>8 DEF Undisturbed, EntryOK, SetPathMax
  <2> QED
    BY ZenonT(60), <1>3, <1>m, <2>9, OthersKept DEF SetPathMax
<1>4. ASSUME NEW max \in Limits, SetMountMax(max) PROVE RotationInv' /\ ForwardStep
  <2>1. mountLimit' \in Nat \ {0} /\ UNCHANGED <<exists, entry, rows, op, kept>>
    BY ZenonT(60), <1>4, RotationAssumption DEF SetMountMax
  <2>2. Continues(entry, entry)
    BY <1>m DEF EntryOK, IsEntry, EntryRecord, Marked, Continues
  <2>3. Undisturbed
    BY ZenonT(60), <1>m, <2>1, <2>2 DEF Undisturbed
  <2> QED
    BY ZenonT(60), <2>1, <2>3, OthersKept
<1>5. CASE PlainPurge
  <2>1. \A id \in Id : ~Open(id)
    BY ZenonT(60), <1>5, HeldIsRetained DEF PlainPurge
  <2>2. EntryOK(entry')
    BY ZenonT(60), <1>5, NewEntrySound DEF PlainPurge, EntryOK, Sound
  <2>3. \A id \in Id : ~Open(id)'
    BY ZenonT(60), <1>5, <2>1 DEF PlainPurge, Open
  <2>4. RotationTypes' /\ RowInv' /\ CutoverReplacesSnapshot'
    BY ZenonT(60), <1>5, <2>2
       DEF PlainPurge, RotationInv, RotationTypes, RowInv, CutoverReplacesSnapshot
  <2>5. OpInv'
    BY ZenonT(60), <1>5 DEF PlainPurge, RotationInv, OpInv, Open
  <2>6. KeptInv' /\ OpenRotationHolds'
    BY ZenonT(60), <2>3 DEF KeptInv, OpenRotationHolds
  <2>7. ForwardStep
    BY ZenonT(60), <1>5, <2>1 DEF PlainPurge, ForwardStep
  <2> QED
    BY ZenonT(60), <2>4, <2>5, <2>6, <2>7 DEF RotationInv
<1> QED
  BY ZenonT(60), <1>1, <1>2, <1>3, <1>4, <1>5 DEF KvStep

(* Entering and leaving a method: the rows stay.                             *)
LEMMA MethodKept ==
  ASSUME RotationInv, NEW id \in Id,
         \/ Begin(id) \/ Refresh(id) \/ Rollback(id) \/ Supersede(id) \/ Observe(id)
  PROVE  RotationInv' /\ ForwardStep
<1>1. SameEntry /\ UNCHANGED <<rows, kept>>
  BY ZenonT(60) DEF Begin, Refresh, Rollback, Supersede, Observe
<1>2. Undisturbed /\ mountLimit' \in Nat \ {0}
  BY ZenonT(60), <1>1, SameUndisturbed
<1>3. OpInv'
  <2>1. CASE Begin(id)
    BY <1>1, <2>1 DEF Begin, RotationInv, OpInv, Enter, Idle, Open
  <2>2. CASE Refresh(id)
    BY <1>1, <2>2 DEF Refresh, RotationInv, OpInv, Enter, Idle, Open
  <2>3. CASE Rollback(id)
    BY <1>1, <2>3 DEF Rollback, RotationInv, OpInv, Enter, Idle, Open
  <2>4. CASE Supersede(id)
    BY <1>1, <2>4 DEF Supersede, RotationInv, OpInv, Idle, Open
  <2>5. CASE Observe(id)
    BY ZenonT(60), <1>1, <2>5 DEF Observe, RotationInv, OpInv, Open
  <2> QED BY ZenonT(60), <2>1, <2>2, <2>3, <2>4, <2>5
<1>4. ~(op.call = "copy" /\ op'.call = "release")
  <2>1. op' = op \/ op = Idle
    BY ZenonT(60) DEF Begin, Refresh, Rollback, Supersede, Observe
  <2> QED BY <2>1 DEF Idle
<1>5. ForwardStep
  BY ZenonT(60), <1>1, <1>2, <1>4 DEF ForwardStep, Undisturbed, Continues
<1> QED
  BY ZenonT(60), <1>1, <1>2, <1>3, <1>5, RowsKept

(* The reading half of a rollback carries the value that was kept.           *)
LEMMA RollbackReadKept == RotationInv /\ RollbackRead => RotationInv' /\ ForwardStep
<1> SUFFICES ASSUME RotationInv, RollbackRead PROVE RotationInv' /\ ForwardStep
  OBVIOUS
<1> DEFINE v == rows[op.id].protected
<1>1. op.call = "rollback" /\ op.id \in Id /\ rows[op.id].state = "Cutover"
  <2>1. op.call = "rollback"
    BY ZenonT(60) DEF RollbackRead
  <2>2. op # Idle
    BY <2>1 DEF Idle
  <2> QED
    BY ZenonT(60), <2>1, <2>2 DEF RotationInv, OpInv
<1>2. CASE /\ exists /\ entry.current = op.snapshot /\ entry.protected = v
           /\ v \in Retained(entry) /\ entry.versions[v].state # "Destroyed"
  <2>1. /\ op' = [call |-> "copy", id |-> op.id, snapshot |-> op.snapshot,
                  value |-> entry.versions[v].value]
        /\ SameEntry /\ UNCHANGED <<rows, kept>>
    BY ZenonT(60), <1>2 DEF RollbackRead
  <2>2. Undisturbed /\ mountLimit' \in Nat \ {0}
    BY ZenonT(60), <2>1, SameUndisturbed
  <2>3. entry.versions[v].value # Wiped
    BY ZenonT(60), <1>2 DEF RotationInv, RotationTypes, EntryOK, Marked
  <2>4. entry.versions[v].value = kept[op.id]
    BY ZenonT(60), <1>1, <2>3 DEF RotationInv, KeptInv, Open
  <2>5. OpInv'
    BY ZenonT(60), <1>1, <2>1, <2>4 DEF OpInv, Idle, Open
  <2>6. ForwardStep
    BY ZenonT(60), <1>1, <2>1, <2>2 DEF ForwardStep, Undisturbed, Continues
  <2> QED
    BY ZenonT(60), <2>1, <2>2, <2>5, <2>6, RowsKept
<1>3. CASE Abandon
  BY ZenonT(60), <1>3, AbandonKept
<1> QED
  BY ZenonT(60), <1>2, <1>3 DEF RollbackRead

(* The writing half brings that value back as a new version.                 *)
LEMMA RollbackWriteKept == RotationInv /\ RollbackWrite => RotationInv' /\ ForwardStep
<1> SUFFICES ASSUME RotationInv, RollbackWrite PROVE RotationInv' /\ ForwardStep
  OBVIOUS
<1>1. /\ op.call = "copy" /\ op.id \in Id /\ rows[op.id].state = "Cutover"
      /\ op.value = kept[op.id] /\ kept[op.id] # Wiped
  BY DEF RollbackWrite, RotationInv, OpInv, Idle, KeptInv, Open
<1>2. CASE exists /\ entry.current = op.snapshot /\ entry.protected # 0
  <2>1. /\ entry' = [AppendVersion(entry, op.value) EXCEPT !.generation = 1]
        /\ UNCHANGED <<exists, mountLimit, rows, kept>>
        /\ op' = [call |-> "release", id |-> op.id, snapshot |-> op.snapshot]
    BY ZenonT(60), <1>2 DEF RollbackWrite, SetEntry
  <2>2. EntryOK(entry) /\ mountLimit \in Nat \ {0}
    BY ZenonT(60) DEF RotationInv, RotationTypes
  <2> DEFINE v == kept[op.id]
             f == [AppendVersion(entry, v) EXCEPT !.generation = 1]
  <2>v. v # Wiped
    BY ZenonT(60), <1>1
  <2> HIDE DEF v
  <2>f. /\ EntryOK(f) /\ Continues(entry, f) /\ f.protected = entry.protected
        /\ f.current = entry.current + 1 /\ f.versions[f.current].value = v
    BY ZenonT(60), <2>2, <2>v, AppendEntry
  <2>e. entry' = f
    BY ZenonT(60), <1>1, <2>1 DEF v
  <2> HIDE DEF f
  <2>3. /\ EntryOK(entry') /\ Continues(entry, entry') /\ entry'.protected = entry.protected
        /\ entry'.current = entry.current + 1
        /\ entry'.versions[entry'.current].value = kept[op.id]
    BY ZenonT(60), <2>f, <2>e DEF v
  <2>4. Undisturbed
    BY ZenonT(60), <2>1, <2>3 DEF Undisturbed
  <2>5. OpInv'
    BY ZenonT(60), <1>1, <2>1 DEF OpInv, Idle, Open
  <2>6. ForwardStep
    BY ZenonT(60), <1>1, <2>1, <2>3 DEF ForwardStep, Continues
  <2> QED
    BY ZenonT(60), <2>1, <2>2, <2>4, <2>5, <2>6, RowsKept
<1>3. CASE Abandon
  BY <1>3, AbandonKept
<1> QED
  BY ZenonT(60), <1>2, <1>3 DEF RollbackWrite

(* A row in a new state is a row, and keeps its versions.                    *)
LEMMA TransitionRow ==
  ASSUME rows \in [Id -> Rows], NEW id \in Id, NEW state \in RowStates
  PROVE  /\ Transition(id, state) \in Rows /\ Transition(id, state).state = state
         /\ Transition(id, state).protected = rows[id].protected
         /\ Transition(id, state).target = rows[id].target
<1> DEFINE r == rows[id]
           a == [r EXCEPT !.state = state]
           b == [a EXCEPT !.history = r.history + 1]
<1>1. r \in Rows
  OBVIOUS
<1>2. Transition(id, state) = b
  BY ZenonT(60), <1>1 DEF Transition, Rows
<1> HIDE DEF r
<1>3. a \in Rows /\ a.state = state /\ a.protected = r.protected /\ a.target = r.target
  BY ZenonT(60), <1>1 DEF Rows
<1>4. r.history + 1 \in Nat
  BY <1>1 DEF Rows
<1> HIDE DEF a
<1>5. b \in Rows /\ b.state = state /\ b.protected = r.protected /\ b.target = r.target
  BY ZenonT(60), <1>3, <1>4 DEF Rows
<1> QED
  BY ZenonT(60), <1>2, <1>5 DEF r

(* Taking the hold: nothing else is open, and what is held is current and    *)
(* live, as it was when the snapshot was taken.                              *)
LEMMA ProtectKept == RotationInv /\ Protect => RotationInv' /\ ForwardStep
<1> SUFFICES ASSUME RotationInv, Protect PROVE RotationInv' /\ ForwardStep
  OBVIOUS
<1>1. /\ op.call \in {"begin", "refresh"} /\ op.id \in Id /\ op # Idle
      /\ rows[op.id].target = 0 /\ rows[op.id].state \in {"none", "Prepared"}
      /\ \A other \in Id : other # op.id => ~Open(other)
  <2>1. op.call \in {"begin", "refresh"} /\ op.id \in Id /\ op # Idle
    BY DEF Protect, RotationInv, OpInv, Idle
  <2>2. CASE op.call = "begin"
    BY <2>1, <2>2 DEF RotationInv, OpInv, NoRow
  <2>3. CASE op.call = "refresh"
    BY ZenonT(60), <2>1, <2>3 DEF RotationInv, OpInv, RowInv, OpenRotationHolds, Open
  <2> QED
    BY ZenonT(60), <2>1, <2>2, <2>3
<1>2. CASE exists /\ entry.current = op.snapshot /\ CurrentIsLive(entry)
  <2> DEFINE row == [Transition(op.id, "Prepared") EXCEPT
                       !.protected = op.snapshot, !.expected = op.snapshot]
  <2>1. /\ entry' = [ProtectCurrent(entry) EXCEPT !.generation = 1]
        /\ UNCHANGED <<exists, mountLimit>>
        /\ rows' = [rows EXCEPT ![op.id] = row]
        /\ kept' = [kept EXCEPT ![op.id] = entry.versions[op.snapshot].value]
        /\ op' = Idle
    BY ZenonT(60), <1>2 DEF Protect, SetEntry, Install, Leave
  <2>2. /\ EntryOK(entry) /\ mountLimit \in Nat \ {0} /\ rows \in [Id -> Rows]
        /\ DOMAIN kept = Id /\ op.snapshot \in Nat
    BY ZenonT(60), <1>2 DEF RotationInv, RotationTypes, EntryOK, IsEntry, EntryRecord
  <2> DEFINE f == [ProtectCurrent(entry) EXCEPT !.generation = 1]
  <2>c. entry.current \in Retained(entry)
    BY ZenonT(60), <1>2 DEF CurrentIsLive
  <2>f. EntryOK(f) /\ Continues(entry, f) /\ f.protected = entry.current /\ f.versions = entry.versions
    BY ZenonT(60), <2>c, <2>2, ProtectEntry
  <2>e. entry' = f
    BY ZenonT(60), <2>1
  <2> HIDE DEF f
  <2>3. /\ EntryOK(entry') /\ Continues(entry, entry') /\ entry'.protected = op.snapshot
        /\ entry'.versions = entry.versions /\ op.snapshot \in Retained(entry)
    BY ZenonT(60), <1>2, <2>c, <2>f, <2>e
  <2>4. /\ row \in Rows /\ row.state = "Prepared" /\ row.protected = op.snapshot
        /\ row.expected = op.snapshot /\ row.target = 0
    <3> DEFINE a == Transition(op.id, "Prepared")
               b == [a EXCEPT !.protected = op.snapshot]
               c == [b EXCEPT !.expected = op.snapshot]
    <3>1. a \in Rows /\ a.state = "Prepared" /\ a.target = 0
      BY <1>1, <2>2, TransitionRow DEF RowStates
    <3> HIDE DEF a
    <3>2. row = c
      BY ZenonT(60), <3>1 DEF a, Rows
    <3>3. b \in Rows /\ b.state = "Prepared" /\ b.target = 0 /\ b.protected = op.snapshot
      BY ZenonT(60), <2>2, <3>1 DEF Rows
    <3> HIDE DEF b
    <3> QED
      BY ZenonT(60), <2>2, <3>2, <3>3 DEF Rows
  <2> HIDE DEF row
  <2>5. rows' \in [Id -> Rows] /\ rows'[op.id] = row
        /\ \A other \in Id : other # op.id => rows'[other] = rows[other]
    BY ZenonT(60), <1>1, <2>1, <2>2, <2>4
  <2>6. RotationTypes'
    BY ZenonT(60), <2>1, <2>2, <2>3, <2>5 DEF RotationTypes
  <2>7. OpInv'
    BY ZenonT(60), <2>1 DEF OpInv, Idle
  <2>8. RowInv' /\ CutoverReplacesSnapshot'
    BY <2>4, <2>5 DEF RotationInv, RowInv, CutoverReplacesSnapshot
  <2>9. \A id \in Id : Open(id)' => id = op.id
    BY ZenonT(60), <1>1, <2>5 DEF Open
  <2>10. OpenRotationHolds'
    BY ZenonT(60), <1>2, <2>1, <2>3, <2>4, <2>5, <2>9 DEF OpenRotationHolds, Retained
  <2>11. entry.versions[op.snapshot].value # Wiped
    BY ZenonT(60), <1>2, <2>2, <2>3 DEF EntryOK, Marked, CurrentIsLive
  <2>12. KeptInv'
    <3>1. /\ kept'[op.id] = entry.versions[op.snapshot].value
          /\ rows'[op.id].protected = op.snapshot /\ entry'.versions = entry.versions
      BY ZenonT(60), <1>1, <2>1, <2>2, <2>3, <2>4, <2>5
    <3> QED
      BY ZenonT(60), <2>9, <2>11, <3>1 DEF KeptInv
  <2>13. ForwardStep
    BY ZenonT(60), <1>1, <2>1, <2>3, <2>5 DEF ForwardStep, Continues, Terminal
  <2> QED
    BY ZenonT(60), <2>6, <2>7, <2>8, <2>10, <2>12, <2>13 DEF RotationInv
<1>3. CASE Abandon
  BY <1>3, AbandonKept
<1> QED
  BY ZenonT(60), <1>2, <1>3 DEF Protect

(* The cutover: the row's target is the version it adds.                     *)
LEMMA CutoverKept ==
  ASSUME RotationInv, NEW id \in Id, NEW value \in Secret, Cutover(id, value)
  PROVE  RotationInv' /\ ForwardStep
<1> DEFINE row == [Transition(id, "Cutover") EXCEPT !.target = entry.current + 1]
           f == [AppendVersion(entry, value) EXCEPT !.generation = 1]
<1>1. /\ op = Idle /\ rows[id].state = "Prepared" /\ entry.current = rows[id].expected
      /\ entry' = f /\ rows' = [rows EXCEPT ![id] = row] /\ UNCHANGED <<exists, mountLimit, op, kept>>
  BY ZenonT(60) DEF Cutover, SetEntry, Install
<1>2. /\ EntryOK(entry) /\ mountLimit \in Nat \ {0} /\ rows \in [Id -> Rows]
      /\ DOMAIN kept = Id /\ entry.current \in Nat /\ value # Wiped
  BY ZenonT(60), RotationAssumption DEF RotationInv, RotationTypes, EntryOK, IsEntry, EntryRecord
<1>3. EntryOK(f) /\ Continues(entry, f) /\ f.protected = entry.protected
  BY ZenonT(60), <1>2, AppendEntry
<1>4. /\ row \in Rows /\ row.state = "Cutover" /\ row.protected = rows[id].protected
      /\ row.target = entry.current + 1
  <2> DEFINE a == Transition(id, "Cutover")
  <2>1. a \in Rows /\ a.state = "Cutover" /\ a.protected = rows[id].protected
    BY <1>2, TransitionRow DEF RowStates
  <2>2. entry.current + 1 \in Nat
    BY <1>2
  <2> HIDE DEF a
  <2> QED
    BY ZenonT(60), <2>1, <2>2 DEF Rows, a
<1> HIDE DEF row, f
<1>5. rows' \in [Id -> Rows] /\ rows'[id] = row /\ \A other \in Id : other # id => rows'[other] = rows[other]
  BY ZenonT(60), <1>1, <1>2, <1>4
<1>6. RotationTypes'
  BY ZenonT(60), <1>1, <1>2, <1>3, <1>5 DEF RotationTypes
<1>7. OpInv'
  BY ZenonT(60), <1>1 DEF OpInv, Idle
<1>8. row.target = row.protected + 1
  BY ZenonT(60), <1>1, <1>4 DEF RotationInv, RowInv
<1>9. RowInv' /\ CutoverReplacesSnapshot'
  BY ZenonT(60), <1>4, <1>5, <1>8 DEF RotationInv, RowInv, CutoverReplacesSnapshot
<1>10. \A i \in Id : Open(i)' => Open(i) /\ rows'[i].protected = rows[i].protected
  BY ZenonT(60), <1>1, <1>4, <1>5 DEF Open
<1>11. ASSUME NEW i \in Id, Open(i)
       PROVE  /\ exists' /\ entry'.protected = rows[i].protected
              /\ entry'.protected \in Retained(entry')
              /\ entry'.versions[rows[i].protected].value \in {kept[i], Wiped}
  <2>1. /\ exists /\ entry.protected = rows[i].protected /\ entry.protected # 0
        /\ entry.protected \in Retained(entry)
    BY ZenonT(60), <1>11, HeldIsRetained
  <2>2. entry'.protected \in Retained(entry')
    BY ZenonT(60), <1>1, <1>3, <2>1 DEF EntryOK, Anchored
  <2>3. entry.versions[rows[i].protected].value \in {kept[i], Wiped}
    BY ZenonT(60), <1>11 DEF RotationInv, KeptInv
  <2>4. f.versions[entry.protected].value \in {entry.versions[entry.protected].value, Wiped}
    BY ZenonT(60), <1>1, <1>3, <2>1, <2>2 DEF Continues
  <2> QED
    BY ZenonT(60), <1>1, <1>3, <2>1, <2>2, <2>3, <2>4
<1>12. OpenRotationHolds' /\ KeptInv'
  BY ZenonT(60), <1>1, <1>10, <1>11 DEF OpenRotationHolds, KeptInv, RotationInv
<1>13. ForwardStep
  BY ZenonT(60), <1>1, <1>3, <1>5 DEF ForwardStep, Continues, Terminal, Idle
<1> QED
  BY ZenonT(60), <1>6, <1>7, <1>9, <1>12, <1>13 DEF RotationInv

(* Closing the open row, whatever becomes of the entry: no row is open then. *)
LEMMA CloseKept ==
  ASSUME RotationInv, NEW id \in Id, Open(id), NEW state \in Terminal,
         EntryOK(entry'), Continues(entry, entry'), UNCHANGED <<mountLimit, kept>>,
         op' = Idle, Install(id, Transition(id, state))
  PROVE  RotationInv' /\ ForwardStep
<1> DEFINE row == Transition(id, state)
<1>1. rows \in [Id -> Rows] /\ rows' = [rows EXCEPT ![id] = row] /\ mountLimit \in Nat \ {0} /\ DOMAIN kept = Id
  BY ZenonT(60) DEF Install, RotationInv, RotationTypes
<1>2. /\ row \in Rows /\ row.state \in Terminal /\ row.protected = rows[id].protected
      /\ row.target = rows[id].target
  BY ZenonT(60), <1>1, TransitionRow DEF RowStates
<1> HIDE DEF row
<1>3. rows' \in [Id -> Rows] /\ rows'[id] = row /\ \A other \in Id : other # id => rows'[other] = rows[other]
  BY ZenonT(60), <1>1, <1>2
<1>4. RotationTypes'
  BY ZenonT(60), <1>1, <1>3 DEF RotationTypes
<1>5. OpInv'
  BY ZenonT(60) DEF OpInv, Idle
<1>6. RowInv' /\ CutoverReplacesSnapshot'
  BY ZenonT(60), <1>2, <1>3 DEF RotationInv, RowInv, CutoverReplacesSnapshot, Terminal
<1>7. \A i \in Id : ~Open(i)'
  BY ZenonT(60), <1>2, <1>3 DEF Open, Terminal, RotationInv, OpenRotationHolds
<1>8. OpenRotationHolds' /\ KeptInv'
  BY ZenonT(60), <1>7 DEF OpenRotationHolds, KeptInv
<1>9. ForwardStep
  BY ZenonT(60), <1>3 DEF ForwardStep, Continues, Idle, Open, Terminal
<1> QED
  BY ZenonT(60), <1>4, <1>5, <1>6, <1>8, <1>9 DEF RotationInv

(* The three ways a row is closed.                                           *)
LEMMA CancelKept ==
  ASSUME RotationInv, NEW id \in Id, Cancel(id) PROVE RotationInv' /\ ForwardStep
<1> DEFINE f == [Unprotect(entry, mountLimit) EXCEPT !.generation = 1]
<1>1. /\ Open(id) /\ op' = Idle /\ UNCHANGED <<mountLimit, kept>> /\ entry' = f
      /\ Install(id, Transition(id, "CancelledBeforeCutover"))
  BY ZenonT(60) DEF Cancel, SetEntry, Open
<1>2. EntryOK(f) /\ Continues(entry, f)
  BY ZenonT(60), UnprotectEntry DEF RotationInv, RotationTypes
<1> HIDE DEF f
<1>3. EntryOK(entry') /\ Continues(entry, entry') /\ "CancelledBeforeCutover" \in Terminal
  BY ZenonT(60), <1>1, <1>2 DEF Terminal
<1> QED
  BY ZenonT(60), <1>1, <1>3, CloseKept

LEMMA ReleaseKept == RotationInv /\ Release => RotationInv' /\ ForwardStep
<1> SUFFICES ASSUME RotationInv, Release PROVE RotationInv' /\ ForwardStep
  OBVIOUS
<1> DEFINE f == [Unprotect(entry, mountLimit) EXCEPT !.generation = 1]
<1>1. CASE exists /\ entry.protected = rows[op.id].protected
  <2>1. op.id \in Id /\ Open(op.id)
    BY DEF Release, RotationInv, OpInv, Idle, Open
  <2>2. /\ op' = Idle /\ UNCHANGED <<mountLimit, kept>> /\ entry' = f
        /\ Install(op.id, Transition(op.id, "Superseded"))
    BY ZenonT(60), <1>1 DEF Release, SetEntry, Leave
  <2>3. EntryOK(f) /\ Continues(entry, f)
    BY ZenonT(60), UnprotectEntry DEF RotationInv, RotationTypes
  <2> HIDE DEF f
  <2>4. EntryOK(entry') /\ Continues(entry, entry') /\ "Superseded" \in Terminal
    BY ZenonT(60), <2>2, <2>3 DEF Terminal
  <2> QED
    BY ZenonT(60), <2>1, <2>2, <2>4, CloseKept
<1>2. CASE Abandon
  BY <1>2, AbandonKept
<1> QED
  BY ZenonT(60), <1>1, <1>2 DEF Release

LEMMA CompleteKept ==
  ASSUME RotationInv, NEW id \in Id, Complete(id) PROVE RotationInv' /\ ForwardStep
<1>1. /\ Open(id) /\ op' = Idle /\ UNCHANGED <<mountLimit, kept>> /\ SameEntry
      /\ Install(id, Transition(id, "Completed"))
  BY ZenonT(60) DEF Complete, SameEntry, Open
<1>2. EntryOK(entry') /\ Continues(entry, entry') /\ "Completed" \in Terminal
  BY ZenonT(60), <1>1, SameUndisturbed DEF Undisturbed, Terminal
<1> QED
  BY ZenonT(60), <1>1, <1>2, CloseKept

-----------------------------------------------------------------------------
(* The theorems.                                                           *)

(* Every step, of the workflow or of anybody else.                           *)
LEMMA RotationStepKept ==
  RotationInv /\ [RotationNext]_rotationVars => RotationInv' /\ (ForwardStep \/ UNCHANGED rotationVars)
<1> SUFFICES ASSUME RotationInv, [RotationNext]_rotationVars
             PROVE  RotationInv' /\ (ForwardStep \/ UNCHANGED rotationVars)
  OBVIOUS
<1>1. CASE UNCHANGED rotationVars
  <2>1. SameEntry /\ UNCHANGED <<rows, op, kept>>
    BY ZenonT(60), <1>1 DEF rotationVars, SameEntry
  <2> QED
    BY ZenonT(60), <1>1, <2>1, SameUndisturbed, OthersKept
<1>2. CASE KvStep
  BY ZenonT(60), <1>2, KvStepKept
<1>3. CASE RotationStep
  BY ZenonT(60), <1>3, MethodKept, ProtectKept, CutoverKept, CancelKept, RollbackReadKept, RollbackWriteKept,
     ReleaseKept, CompleteKept DEF RotationStep
<1>4. ASSUME NEW id \in Id, Observe(id) PROVE RotationInv' /\ ForwardStep
  BY ZenonT(60), <1>4, MethodKept
<1> QED
  BY ZenonT(60), <1>1, <1>2, <1>3, <1>4 DEF RotationNext

(* RotationAnchored: while a rotation is open its hold is on the version it  *)
(* recorded, that version is retained, no other rotation is open, and a      *)
(* target is the version after it (rotation.rs: begin, refresh, cutover,     *)
(* cancel, rollback, supersede_after_plain_write, complete).                 *)
THEOREM RotationHolds == RotationSpec => []RotationAnchored
<1>1. RotationInv => RotationAnchored
  BY ZenonT(60) DEF RotationInv, RotationAnchored
<1> QED
  BY <1>1, RotationInitially, RotationStepKept, PTL DEF RotationSpec

(* RotationMovesForward: a rollback brings back the value that was current   *)
(* when the rotation began, although it reads and writes it under two locks; *)
(* the version counter never goes back under an open rotation, and a closed  *)
(* row is never changed.                                                     *)
THEOREM RotationForward == RotationSpec => RotationMovesForward
<1>1. ForwardStep \/ UNCHANGED rotationVars =>
        /\ [(op.call = "copy" /\ op'.call = "release") =>
              /\ entry'.current = entry.current + 1
              /\ entry'.versions[entry'.current].value = kept[op.id]
              /\ kept[op.id] # Wiped]_rotationVars
        /\ [/\ (\E id \in Id : Open(id)) => entry'.current >= entry.current
            /\ \A id \in Id : rows[id].state \in Terminal => rows'[id] = rows[id]]_rotationVars
  BY ZenonT(60) DEF ForwardStep
<1> QED
  BY <1>1, RotationInitially, RotationStepKept, PTL
  DEF RotationSpec, RotationMovesForward, RollbackRestores, NoWayBack
=============================================================================
