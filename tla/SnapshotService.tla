-------------------------- MODULE SnapshotService --------------------------
(***************************************************************************)
(* The bounded snapshot readers beside the storage writer                  *)
(* (storage_executor.rs, SnapshotService and snapshot_worker).  Submitters *)
(* put a command into one bounded queue; a few worker threads take it from *)
(* there, ask the backend for a cursor, collect its chunks until the       *)
(* cursor ends, the result grows too large or the deadline has passed, and *)
(* answer over a channel whose other end the submitter may have dropped.   *)
(*                                                                         *)
(* A slot stands for one submission at a time and is used again once its   *)
(* submitter and its worker are done with it.                              *)
(***************************************************************************)
EXTENDS Naturals, Sequences, FiniteSets

CONSTANTS
  SnapSlots,      \* submissions that exist at a time
  SnapWorkers,    \* config.concurrency worker threads
  SnapQueueSize,  \* config.queue_capacity
  SnapMaxBytes,   \* config.max_result_bytes
  SnapChunkSizes  \* the chunk lengths a cursor returns

ASSUME SnapBounds == /\ SnapQueueSize \in Nat \ {0}
                     /\ SnapMaxBytes \in Nat \ {0}
                     /\ SnapChunkSizes \subseteq Nat

VARIABLES
  submissions,   \* per slot: CommandState, whether the receiver lives, what it was told
  snapQueue,     \* the slots in the channel, oldest first
  snapWorkers,   \* per worker: where it is, its slot, bytes collected, the reply, past its deadline
  snapHealthy,   \* the healthy flag
  snapStopping   \* the stopping flag; the sender is gone as well

snapVars == <<submissions, snapQueue, snapWorkers, snapHealthy, snapStopping>>

NoSubmission == [state |-> "None", waiting |-> FALSE, told |-> "nothing", bytes |-> 0]
Looping == [at |-> "loop", slot |-> {}, bytes |-> 0, reply |-> "nothing", late |-> FALSE]

SnapInit ==
  /\ submissions = [s \in SnapSlots |-> NoSubmission]
  /\ snapQueue = <<>>
  /\ snapWorkers = [w \in SnapWorkers |-> Looping]
  /\ snapHealthy = TRUE
  /\ snapStopping = FALSE

Gone == {"unwound", "dead", "exited"}

\* The workers that still hold the receiving end of the queue.
SnapReceivers(workers) == {w \in SnapWorkers : workers[w].at \notin Gone}

\* submit: the health check comes first ...
SnapCheck(s) ==
  /\ submissions[s] = NoSubmission
  /\ snapHealthy /\ ~snapStopping
  /\ submissions' = [submissions EXCEPT ![s].state = "Checked"]
  /\ UNCHANGED <<snapQueue, snapWorkers, snapHealthy, snapStopping>>

\* ... then try_send, which refuses when the queue is full or nobody receives.
\* The borrow of the service ends with submit, so Drop comes before or after it.
SnapSend(s) ==
  /\ submissions[s].state = "Checked"
  /\ IF Len(snapQueue) < SnapQueueSize /\ SnapReceivers(snapWorkers) # {}
     THEN /\ submissions' = [submissions EXCEPT ![s].state = "Accepted", ![s].waiting = TRUE]
          /\ snapQueue' = Append(snapQueue, s)
     ELSE /\ submissions' = [submissions EXCEPT ![s] = NoSubmission]
          /\ UNCHANGED snapQueue
  /\ UNCHANGED <<snapWorkers, snapHealthy, snapStopping>>

\* The submitter drops the SnapshotSubmission before an answer came.
SnapLeave(s) ==
  /\ submissions[s].waiting /\ submissions[s].told = "nothing"
  /\ submissions' = [submissions EXCEPT ![s].waiting = FALSE]
  /\ UNCHANGED <<snapQueue, snapWorkers, snapHealthy, snapStopping>>

\* The answered or abandoned submission is forgotten; its slot is free again.
SnapForget(s) ==
  /\ submissions[s].state \notin {"None", "Checked"}
  /\ ~submissions[s].waiting \/ submissions[s].told # "nothing"
  /\ \A i \in 1 .. Len(snapQueue) : snapQueue[i] # s
  /\ \A w \in SnapWorkers : s \notin snapWorkers[w].slot
  /\ submissions' = [submissions EXCEPT ![s] = NoSubmission]
  /\ UNCHANGED <<snapQueue, snapWorkers, snapHealthy, snapStopping>>

\* Worker w leaves for good.  Its own message is dropped with it, and so is
\* every queued message when it held the last receiver: their submitters find
\* the channel closed.
SnapLeaves(w, where) ==
  LET workers == [snapWorkers EXCEPT ![w] = [Looping EXCEPT !.at = where]]
      dropped == snapWorkers[w].slot \cup
                   (IF SnapReceivers(workers) = {} THEN {snapQueue[i] : i \in 1 .. Len(snapQueue)} ELSE {})
  IN /\ snapWorkers' = workers
     /\ snapQueue' = IF SnapReceivers(workers) = {} THEN <<>> ELSE snapQueue
     /\ submissions' = [s \in SnapSlots |->
          IF s \in dropped /\ submissions[s].waiting
          THEN [submissions[s] EXCEPT !.told = "Unavailable"]
          ELSE submissions[s]]

\* The head of the loop: while !stopping.
SnapLoop(w) ==
  /\ snapWorkers[w].at = "loop"
  /\ IF snapStopping
     THEN SnapLeaves(w, "exited")
     ELSE /\ snapWorkers' = [snapWorkers EXCEPT ![w].at = "receive"]
          /\ UNCHANGED <<submissions, snapQueue>>
  /\ UNCHANGED <<snapHealthy, snapStopping>>

\* recv_timeout under the queue lock: a message, or back to the loop.  A
\* message whose submitter has left is only marked.
SnapReceive(w) ==
  /\ snapWorkers[w].at = "receive"
  /\ IF snapQueue = <<>>
     THEN /\ snapWorkers' = [snapWorkers EXCEPT ![w] = Looping]
          /\ UNCHANGED <<submissions, snapQueue>>
     ELSE LET s == Head(snapQueue) IN
          /\ snapQueue' = Tail(snapQueue)
          /\ submissions' = [submissions EXCEPT ![s].state =
               IF submissions[s].waiting THEN "Started" ELSE "Cancelled"]
          /\ snapWorkers' = [snapWorkers EXCEPT ![w] =
               IF submissions[s].waiting
               THEN [Looping EXCEPT !.at = "begin", !.slot = {s}] ELSE Looping]
  /\ UNCHANGED <<snapHealthy, snapStopping>>

\* The deadline of the command worker w runs passes.
SnapLate(w) ==
  /\ snapWorkers[w].at \in {"begin", "poll", "chunk"} /\ ~snapWorkers[w].late
  /\ snapWorkers' = [snapWorkers EXCEPT ![w].late = TRUE]
  /\ UNCHANGED <<submissions, snapQueue, snapHealthy, snapStopping>>

Decide(w, reply) == snapWorkers' = [snapWorkers EXCEPT ![w].at = "settle", ![w].reply = reply]

\* begin_snapshot
SnapBegin(w) ==
  /\ snapWorkers[w].at = "begin"
  /\ \/ Decide(w, "Backend")
     \/ snapWorkers' = [snapWorkers EXCEPT ![w].at = "poll"]
  /\ UNCHANGED <<submissions, snapQueue, snapHealthy, snapStopping>>

\* A bug: nobody looks at the clock while chunks arrive.
PastDeadline_Mutant(w) == FALSE
\* Instant::now() > deadline, before and after next_chunk.
PastDeadline(w) == snapWorkers[w].late

\* A bug: the chunk is compared with the whole budget, not with what is left.
Fits_Mutant(w, size) == size <= SnapMaxBytes
Fits(w, size) == size <= SnapMaxBytes - snapWorkers[w].bytes

\* The head of the chunk loop: has the submitter left, has the deadline passed?
SnapPoll(w) ==
  LET s == CHOOSE x \in SnapSlots : x \in snapWorkers[w].slot IN
  /\ snapWorkers[w].at = "poll"
  /\ IF ~submissions[s].waiting
     THEN /\ submissions' = [submissions EXCEPT ![s].state = "Cancelled"]
          /\ snapWorkers' = [snapWorkers EXCEPT ![w] = Looping]
     ELSE /\ UNCHANGED submissions
          /\ IF PastDeadline(w) THEN Decide(w, "Deadline")
             ELSE snapWorkers' = [snapWorkers EXCEPT ![w].at = "chunk"]
  /\ UNCHANGED <<snapQueue, snapHealthy, snapStopping>>

\* next_chunk returns: too late, with an error, at the end, or with a chunk.
SnapChunk(w) ==
  /\ snapWorkers[w].at = "chunk"
  /\ \/ PastDeadline(w) /\ Decide(w, "Deadline")
     \/ /\ ~PastDeadline(w)
        /\ \/ Decide(w, "Backend")
           \/ Decide(w, "Complete")
           \/ \E size \in SnapChunkSizes :
                IF Fits(w, size)
                THEN snapWorkers' = [snapWorkers EXCEPT ![w].at = "poll", ![w].bytes = @ + size]
                ELSE Decide(w, "TooLarge")
  /\ UNCHANGED <<submissions, snapQueue, snapHealthy, snapStopping>>

\* The state is stored before the reply is sent ...
SnapSettle(w) ==
  LET s == CHOOSE x \in SnapSlots : x \in snapWorkers[w].slot IN
  /\ snapWorkers[w].at = "settle"
  /\ submissions' = [submissions EXCEPT ![s].state =
       IF snapWorkers[w].reply = "Complete" THEN "Committed" ELSE "Aborted"]
  /\ snapWorkers' = [snapWorkers EXCEPT ![w].at = "reply"]
  /\ UNCHANGED <<snapQueue, snapHealthy, snapStopping>>

\* ... the send fails when the submitter has left in the meantime ...
SnapReply(w) ==
  LET s == CHOOSE x \in SnapSlots : x \in snapWorkers[w].slot IN
  /\ snapWorkers[w].at = "reply"
  /\ IF submissions[s].waiting
     THEN /\ submissions' = [submissions EXCEPT ![s].told = snapWorkers[w].reply,
                                                ![s].bytes = snapWorkers[w].bytes]
          /\ snapWorkers' = [snapWorkers EXCEPT ![w].at = "mark"]
     ELSE /\ snapWorkers' = [snapWorkers EXCEPT ![w] = Looping]
          /\ UNCHANGED submissions
  /\ UNCHANGED <<snapQueue, snapHealthy, snapStopping>>

\* ... and Replied is stored after it.
SnapMark(w) ==
  LET s == CHOOSE x \in SnapSlots : x \in snapWorkers[w].slot IN
  /\ snapWorkers[w].at = "mark"
  /\ submissions' = [submissions EXCEPT ![s].state = "Replied"]
  /\ snapWorkers' = [snapWorkers EXCEPT ![w] = Looping]
  /\ UNCHANGED <<snapQueue, snapHealthy, snapStopping>>

\* The backend or its cursor panics; catch_unwind ends the thread.
SnapPanic(w) ==
  /\ snapWorkers[w].at \in {"begin", "chunk"}
  /\ SnapLeaves(w, "unwound")
  /\ UNCHANGED <<snapHealthy, snapStopping>>

SnapReport(w) ==
  /\ snapWorkers[w].at = "unwound"
  /\ snapWorkers' = [snapWorkers EXCEPT ![w].at = "dead"]
  /\ snapHealthy' = FALSE
  /\ UNCHANGED <<submissions, snapQueue, snapStopping>>

\* Drop for SnapshotService: no call of submit is in progress.
SnapDrop ==
  /\ ~snapStopping
  /\ \A s \in SnapSlots : submissions[s].state # "Checked"
  /\ snapStopping' = TRUE
  /\ UNCHANGED <<submissions, snapQueue, snapWorkers, snapHealthy>>

SnapTurn(w) ==
  \/ SnapLoop(w) \/ SnapReceive(w) \/ SnapBegin(w) \/ SnapPoll(w) \/ SnapChunk(w)
  \/ SnapSettle(w) \/ SnapReply(w) \/ SnapMark(w) \/ SnapReport(w)

SnapCallers == \E s \in SnapSlots :
  SnapCheck(s) \/ SnapSend(s) \/ SnapLeave(s) \/ SnapForget(s)

SnapNext ==
  \/ SnapCallers
  \/ \E w \in SnapWorkers : SnapTurn(w) \/ SnapLate(w) \/ SnapPanic(w)
  \/ SnapDrop

SnapSpec == SnapInit /\ [][SnapNext]_snapVars

----------------------------------------------------------------------------
(* What a submitter is told agrees with the command's state and the        *)
(* limits, whichever of answer, cancellation, panic and shutdown came      *)
(* first: a complete buffer is within max_result_bytes and comes from a    *)
(* command that counts as committed, an error from an aborted one, a       *)
(* closed channel only from a command that never ended, and a submitter    *)
(* that still waits is never cancelled.                                    *)
SnapshotAnswersTruthful ==
  \A s \in SnapSlots : LET x == submissions[s] IN
    /\ x.told = "Complete" => x.state \in {"Committed", "Replied"} /\ x.bytes <= SnapMaxBytes
    /\ x.told \in {"Backend", "TooLarge", "Deadline"} => x.state \in {"Aborted", "Replied"}
    /\ x.told = "Unavailable" => x.state \in {"Accepted", "Started"}
    /\ x.state = "Cancelled" => ~x.waiting

(* Every accepted submission ends: its submitter is told something or      *)
(* leaves, although cursors may return empty chunks for ever, backends     *)
(* panic and the service is dropped with a full queue.                     *)
SnapshotsEnd ==
  \A s \in SnapSlots :
    (submissions[s].waiting /\ submissions[s].told = "nothing")
      ~> ~(submissions[s].waiting /\ submissions[s].told = "nothing")
============================================================================
