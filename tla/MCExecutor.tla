----------------------------- MODULE MCExecutor -----------------------------
(***************************************************************************)
(* Two instances of StorageExecutor and one of SnapshotService.  `focus`   *)
(* says which of them runs: the submitters that contend for the watermark  *)
(* gate, the data classes that contend for one overload bucket, or the     *)
(* snapshot readers, which share no state with the writer.                 *)
(***************************************************************************)
EXTENDS StorageExecutor, SnapshotService, TLC

CONSTANTS d1, d2, d3, w1, w2

VARIABLE focus

\* "gate": a data submitter and two watermark submitters, of which the second
\* meets a closed gate.  "overload": three data submitters of different
\* classes and room for one bucket, so that a refused class finds its bucket
\* taken, also when a snapshot comes back.
SlotsOf == [gate |-> {d1, w1, w2}, overload |-> {d1, d2, d3}]
Slots == {d1, d2, d3, w1, w2}
SlotOperation == [c \in Slots |-> IF c \in {w1, w2} THEN "ClockWatermark" ELSE "DataPlane"]
SlotBucket == [c \in Slots |-> CASE c = d1 -> 2 [] c = d3 -> 1 [] OTHER -> 0]

\* Bound: refusals not yet committed, of at most MaxOwed.
OwedIn == [gate |-> 1, overload |-> 3]

ExecutorInit == focus \in DOMAIN SlotsOf \cup {"readers"} /\ Init /\ SnapInit

ReaderSteps == focus = "readers" /\ SnapNext /\ UNCHANGED <<focus, vars>>

WriterSteps ==
  /\ focus # "readers"
  /\ UNCHANGED <<focus, snapVars>>
  /\ \/ Writer
     \/ \E c \in SlotsOf[focus] : Submitter(c)
     \/ DeadlinePasses \/ PollMissed \/ StopAdmission
  /\ owed' <= OwedIn[focus]

ExecutorNext == WriterSteps \/ ReaderSteps

ExecutorSpec == ExecutorInit /\ [][ExecutorNext]_<<focus, vars, snapVars>>

\* The two watermark slots are interchangeable.
WatermarkSymmetry == Permutations({w1, w2})
=============================================================================
