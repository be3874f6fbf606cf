------------------------- MODULE MCExecutorLiveness -------------------------
(***************************************************************************)
(* The storage threads under fair scheduling: the writer with its three    *)
(* lanes, or the snapshot readers beside it.  The two share no state, so   *)
(* `focus` says which of them runs and the other one rests in its initial  *)
(* state.                                                                  *)
(***************************************************************************)
EXTENDS StorageExecutor, SnapshotService

CONSTANTS d1, u1, r1

VARIABLE focus

\* One slot per lane: endless streams in each lane through slot reuse.
LaneCommands == {d1, u1, r1}
LaneOperation == [c \in LaneCommands |->
  CASE c = d1 -> "DataPlane"
    [] c = u1 -> "CredentialRevocation"
    [] c = r1 -> "Checkpoint"]
LaneBucket == [c \in LaneCommands |-> 0]

threadVars == <<focus, vars, snapVars>>

InWriter(A) == focus = "writer" /\ A /\ UNCHANGED <<focus, snapVars>>
InReaders(A) == focus = "readers" /\ A /\ UNCHANGED <<focus, vars>>

ThreadsInit == focus \in {"writer", "readers"} /\ Init /\ SnapInit

ThreadsNext == InWriter(Next) \/ InReaders(SnapNext)

\* Fairness of StorageExecutor for the writer; for the readers, each worker
\* thread keeps being scheduled and the clock reaches a running deadline.
ThreadsFairness ==
  /\ WF_threadVars(InWriter(Writer))
  /\ \A c \in Command : WF_threadVars(InWriter(Receive(c)))
  /\ \A w \in SnapWorkers : /\ WF_threadVars(InReaders(SnapTurn(w)))
                            /\ WF_threadVars(InReaders(SnapLate(w)))

ThreadsSpec == ThreadsInit /\ [][ThreadsNext]_threadVars /\ ThreadsFairness
=============================================================================
