--------------------------- MODULE RefusalProofs ----------------------------
(***************************************************************************)
(* Every refusal of the storage executor is counted once, for any set of   *)
(* submission slots: what the accumulator holds, what is being flushed and *)
(* what the store has recorded always add up to what was refused.          *)
(***************************************************************************)
EXTENDS StorageExecutor, CounterProofs

\* An accumulator: a table of counts under numbers, and the overflow counter.
IsAccumulator(a) ==
  /\ a = [buckets |-> a.buckets, overflow |-> a.overflow]
  /\ IsTable(a.buckets) /\ DOMAIN a.buckets \subseteq Nat /\ a.overflow \in Nat

\* The empty one.
LEMMA EmptyIsAccumulator ==
  /\ IsAccumulator(EmptyAccumulator) /\ OverloadTotal(EmptyAccumulator) = 0
  /\ Cardinality(DOMAIN EmptyAccumulator.buckets) = 0
<1> DEFINE e == EmptyAccumulator
<1>1. e.buckets = <<>> /\ e.overflow = 0 /\ e = [buckets |-> e.buckets, overflow |-> e.overflow]
  BY ZenonT(60) DEF EmptyAccumulator
<1>2. DOMAIN e.buckets = {}
  BY <1>1
<1> HIDE DEF e
<1>3. IsTable(e.buckets) /\ SumFunctionOnSet(e.buckets, DOMAIN e.buckets) = 0
      /\ Cardinality(DOMAIN e.buckets) = 0
  BY ZenonT(60), <1>2, FS_EmptySet, SumEmpty DEF IsTable, CountsOn
<1>4. DOMAIN e.buckets \subseteq Nat /\ e.overflow \in Nat
  BY <1>1, <1>2
<1>5. OverloadTotal(e) = 0
  BY <1>1, <1>3 DEF OverloadTotal
<1> QED BY ZenonT(60), <1>1, <1>3, <1>4, <1>5 DEF IsAccumulator, e

\* The total of an accumulator is a number.
LEMMA TotalIsNatural ==
  ASSUME NEW a, IsAccumulator(a)
  PROVE  /\ TableTotal(a.buckets) \in Nat /\ OverloadTotal(a) \in Nat
         /\ OverloadTotal(a) = TableTotal(a.buckets) + a.overflow
<1>1. TableTotal(a.buckets) \in Nat /\ a.overflow \in Nat
  BY ZenonT(60), SumNat DEF IsAccumulator, IsTable, TableTotal
<1>2. OverloadTotal(a) = TableTotal(a.buckets) + a.overflow
  BY ZenonT(60) DEF OverloadTotal, TableTotal
<1> QED BY <1>1, <1>2

\* A refusal is counted once, and no bucket is made beyond the bound.
LEMMA RecordCounts ==
  ASSUME NEW a, IsAccumulator(a), NEW b \in Nat, NEW m \in Nat, Cardinality(DOMAIN a.buckets) <= m
  PROVE  /\ IsAccumulator(RecordOverload(a, b, m))
         /\ OverloadTotal(RecordOverload(a, b, m)) = OverloadTotal(a) + 1
         /\ Cardinality(DOMAIN RecordOverload(a, b, m).buckets) <= m
<1> DEFINE t == a.buckets
<1>1. PICK c : c = RecordOverload(a, b, m)
  BY ZenonT(60)
<1>2. /\ a = [buckets |-> t, overflow |-> a.overflow] /\ IsTable(t) /\ DOMAIN t \subseteq Nat
      /\ a.overflow \in Nat /\ Cardinality(DOMAIN t) \in Nat /\ 1 \in Nat
  BY ZenonT(60), FS_CardinalityType DEF IsAccumulator, IsTable
<1>3. ASSUME NEW u, GrowsBy(t, u, b, 1), b \in DOMAIN t \/ Cardinality(DOMAIN t) < m,
             c = [buckets |-> u, overflow |-> a.overflow]
      PROVE  IsAccumulator(c) /\ OverloadTotal(c) = OverloadTotal(a) + 1
             /\ Cardinality(DOMAIN c.buckets) <= m
  <2>1. /\ IsTable(u) /\ TableTotal(t) \in Nat /\ TableTotal(u) = TableTotal(t) + 1
        /\ b \in DOMAIN t => Cardinality(DOMAIN u) = Cardinality(DOMAIN t)
        /\ b \notin DOMAIN t => Cardinality(DOMAIN u) = Cardinality(DOMAIN t) + 1
    BY ZenonT(60), <1>2, <1>3, TableGrows
  <2>2. c.buckets = u /\ c.overflow = a.overflow
    BY ZenonT(60), <1>3
  <2>3. DOMAIN u \subseteq Nat
    BY ZenonT(60), <1>2, <1>3 DEF GrowsBy
  <2>4. IsAccumulator(c)
    BY ZenonT(60), <1>2, <1>3, <2>1, <2>2, <2>3 DEF IsAccumulator
  <2>5. OverloadTotal(c) = TableTotal(t) + 1 + a.overflow /\ OverloadTotal(a) = TableTotal(t) + a.overflow
    BY ZenonT(60), <2>1, <2>2 DEF OverloadTotal, TableTotal
  <2>6. TableTotal(t) + 1 + a.overflow = TableTotal(t) + a.overflow + 1
    BY <1>2, <2>1
  <2>7. Cardinality(DOMAIN u) <= m
    BY <1>2, <1>3, <2>1
  <2> QED BY ZenonT(60), <2>2, <2>4, <2>5, <2>6, <2>7
<1>4. CASE b \in DOMAIN t
  <2> DEFINE u == [t EXCEPT ![b] = t[b] + 1]
  <2>1. c = [a EXCEPT !.buckets = u]
    BY ZenonT(60), <1>1, <1>4 DEF RecordOverload, AddTo
  <2>2. c = [buckets |-> u, overflow |-> a.overflow]
    BY ZenonT(60), <1>2, <2>1
  <2>3. GrowsBy(t, u, b, 1)
    BY ZenonT(60), <1>4 DEF GrowsBy, EntryOf
  <2> HIDE DEF u
  <2> QED BY ZenonT(60), <1>1, <1>3, <1>4, <2>2, <2>3
<1>5. CASE b \notin DOMAIN t /\ Cardinality(DOMAIN t) < m
  <2> DEFINE u == [x \in DOMAIN t \cup {b} |-> IF x = b THEN 1 ELSE t[x]]
  <2>1. c = [a EXCEPT !.buckets = u]
    BY ZenonT(60), <1>1, <1>5 DEF RecordOverload, AddTo
  <2>2. c = [buckets |-> u, overflow |-> a.overflow]
    BY ZenonT(60), <1>2, <2>1
  <2>3. GrowsBy(t, u, b, 1)
    BY <1>5 DEF GrowsBy, EntryOf
  <2> HIDE DEF u
  <2> QED BY ZenonT(60), <1>1, <1>3, <1>5, <2>2, <2>3
<1>6. CASE b \notin DOMAIN t /\ ~(Cardinality(DOMAIN t) < m)
  <2>1. c = [a EXCEPT !.overflow = a.overflow + 1]
    BY ZenonT(60), <1>1, <1>6 DEF RecordOverload, AddTo
  <2>2. /\ c = [buckets |-> t, overflow |-> a.overflow + 1]
        /\ c.buckets = t /\ c.overflow = a.overflow + 1 /\ c.overflow \in Nat
    BY <1>2, <2>1
  <2>3. IsAccumulator(c)
    BY ZenonT(60), <1>2, <2>2 DEF IsAccumulator
  <2>4. TableTotal(t) \in Nat
    BY ZenonT(60), TotalIsNatural
  <2>5. /\ OverloadTotal(c) = TableTotal(t) + (a.overflow + 1)
        /\ OverloadTotal(a) = TableTotal(t) + a.overflow
    BY ZenonT(60), <2>2 DEF OverloadTotal, TableTotal
  <2>6. TableTotal(t) + (a.overflow + 1) = TableTotal(t) + a.overflow + 1
    BY <1>2, <2>4
  <2> QED BY ZenonT(60), <1>1, <2>2, <2>3, <2>5, <2>6
<1> QED BY ZenonT(60), <1>4, <1>5, <1>6


\* The buckets a merge finds room for stay within the bound.
LEMMA AdmittedFit ==
  ASSUME NEW a, IsAccumulator(a), NEW s, IsAccumulator(s), NEW m \in Nat,
         Cardinality(DOMAIN a.buckets) <= m
  PROVE  LET used == DOMAIN a.buckets
             in == Admitted(a, s, m)
         IN  /\ in \subseteq DOMAIN s.buckets /\ in \cup used \subseteq Nat
             /\ IsFiniteSet(in) /\ IsFiniteSet(used \cup in)
             /\ Cardinality(used \cup in) <= m
<1> DEFINE used == DOMAIN a.buckets
           S == DOMAIN s.buckets
           in == Admitted(a, s, m)
           F == S \ used
           I == {b \in F : Cardinality({x \in F : x < b}) + Cardinality(used) < m}
<1>1. /\ IsFiniteSet(used) /\ IsFiniteSet(S) /\ used \subseteq Nat /\ S \subseteq Nat
      /\ Cardinality(used) \in Nat /\ Cardinality(used) <= m
  BY ZenonT(60), FS_CardinalityType DEF IsAccumulator, IsTable
<1>2. in \subseteq S /\ used \cup in = used \cup I
  BY ZenonT(60) DEF Admitted
<1>3. IsFiniteSet(F) /\ F \subseteq Nat
  <2>1. F \subseteq S
    OBVIOUS
  <2>2. IsFiniteSet(F)
    BY ZenonT(60), <1>1, <2>1, FS_Subset
  <2> QED BY ZenonT(60), <1>1, <2>1, <2>2
<1>4. I \cap used = {}
  OBVIOUS
<1> HIDE DEF used, S, in, F
<1>5. IsFiniteSet(I) /\ Cardinality(I) \in Nat /\ Cardinality(I) + Cardinality(used) <= m
  BY ZenonT(60), <1>1, <1>3, RoomFor
<1> HIDE DEF I
<1>6. IsFiniteSet(used \cup I) /\ Cardinality(used \cup I) = Cardinality(used) + Cardinality(I)
  <2>1. used \cap I = {}
    BY ZenonT(60), <1>4
  <2>2. IsFiniteSet(used \cup I) /\ Cardinality(used \cup I) = Cardinality(used) + Cardinality(I) - Cardinality(used \cap I)
    BY ZenonT(60), <1>1, <1>5, FS_Union
  <2>3. Cardinality(used \cap I) = 0
    BY ZenonT(60), <2>1, FS_EmptySet
  <2>4. Cardinality(used) + Cardinality(I) - 0 = Cardinality(used) + Cardinality(I)
    BY <1>1, <1>5
  <2> QED BY ZenonT(60), <2>2, <2>3, <2>4
<1>7. Cardinality(used) + Cardinality(I) <= m
  BY <1>1, <1>5
<1>8. IsFiniteSet(in)
  BY ZenonT(60), <1>1, <1>2, FS_Subset
<1>9. in \cup used \subseteq Nat
  BY ZenonT(60), <1>1, <1>2
<1> QED BY ZenonT(60), <1>2, <1>6, <1>7, <1>8, <1>9 DEF used, S, in

\* A merge loses nothing: what finds no bucket goes to the overflow counter.
LEMMA MergeCounts ==
  ASSUME NEW a, IsAccumulator(a), NEW s, IsAccumulator(s), NEW m \in Nat,
         Cardinality(DOMAIN a.buckets) <= m
  PROVE  /\ IsAccumulator(MergeOverloads(a, s, m))
         /\ OverloadTotal(MergeOverloads(a, s, m)) = OverloadTotal(a) + OverloadTotal(s)
         /\ Cardinality(DOMAIN MergeOverloads(a, s, m).buckets) <= m
<1> DEFINE used == DOMAIN a.buckets
           S == DOMAIN s.buckets
           in == Admitted(a, s, m)
           out == S \ in
           U == used \cup in
           old == [b \in U |-> IF b \in used THEN a.buckets[b] ELSE 0]
           new == [b \in U |-> IF b \in in THEN s.buckets[b] ELSE 0]
           t == [b \in U |-> (IF b \in used THEN a.buckets[b] ELSE 0)
                               + (IF b \in in THEN s.buckets[b] ELSE 0)]
           spilt == SumFunctionOnSet(s.buckets, out)
<1>1. PICK c : c = MergeOverloads(a, s, m)
  BY ZenonT(60)
<1>2. c = [buckets |-> t, overflow |-> a.overflow + s.overflow + spilt]
  BY ZenonT(60), <1>1 DEF MergeOverloads
<1>3. c.buckets = t /\ c.overflow = a.overflow + s.overflow + spilt
      /\ c = [buckets |-> c.buckets, overflow |-> c.overflow]
  BY ZenonT(60), <1>2
<1>4. /\ in \subseteq S /\ in \cup used \subseteq Nat
      /\ IsFiniteSet(in) /\ IsFiniteSet(U) /\ Cardinality(U) <= m
  BY ZenonT(60), AdmittedFit
<1>5. /\ IsFiniteSet(used) /\ IsFiniteSet(S) /\ CountsOn(a.buckets, used) /\ CountsOn(s.buckets, S)
      /\ a.overflow \in Nat /\ s.overflow \in Nat
  BY ZenonT(60) DEF IsAccumulator, IsTable
<1>6. /\ used \in SUBSET U /\ in \in SUBSET U /\ out \in SUBSET S
      /\ \A b \in U : t[b] = old[b] + new[b]
      /\ DOMAIN t = U
  BY ZenonT(60)
<1>7. Extends(old, a.buckets, used, U) /\ Extends(new, s.buckets, in, U)
  BY ZenonT(60), <1>6 DEF Extends
<1> HIDE DEF used, S, in, U, old, new, t, out
<1>8. CountsOn(s.buckets, in) /\ CountsOn(s.buckets, out) /\ IsFiniteSet(out)
      /\ in \cup out = S /\ in \cap out = {}
  <2>1. in \cup out = S /\ in \cap out = {} /\ out \subseteq S
    BY ZenonT(60), <1>4 DEF out
  <2>2. CountsOn(s.buckets, in) /\ CountsOn(s.buckets, out)
    BY ZenonT(60), <1>4, <1>5, <2>1 DEF CountsOn
  <2>3. IsFiniteSet(out)
    BY ZenonT(60), <1>5, <2>1, FS_Subset
  <2> QED BY ZenonT(60), <2>1, <2>2, <2>3
<1>9. CountsOn(old, U) /\ SumFunctionOnSet(old, U) = SumFunctionOnSet(a.buckets, used)
  <2>1. IsFiniteSet(U) /\ used \in SUBSET U /\ CountsOn(a.buckets, used)
        /\ Extends(old, a.buckets, used, U)
    BY ZenonT(60), <1>4, <1>5, <1>6, <1>7
  <2> QED BY ZenonT(60), <2>1, SumExtends
<1>10. CountsOn(new, U) /\ SumFunctionOnSet(new, U) = SumFunctionOnSet(s.buckets, in)
  <2>1. IsFiniteSet(U) /\ in \in SUBSET U /\ CountsOn(s.buckets, in)
        /\ Extends(new, s.buckets, in, U)
    BY ZenonT(60), <1>4, <1>6, <1>7, <1>8
  <2> QED BY ZenonT(60), <2>1, SumExtends
<1>11. SumFunctionOnSet(t, U) = SumFunctionOnSet(old, U) + SumFunctionOnSet(new, U)
  BY <1>4, <1>6, <1>9, <1>10, SumPlus
<1>12. SumFunctionOnSet(s.buckets, S) = SumFunctionOnSet(s.buckets, in) + spilt
  BY ZenonT(60), <1>4, <1>8, SumUnion
<1>13. /\ SumFunctionOnSet(a.buckets, used) \in Nat /\ SumFunctionOnSet(s.buckets, in) \in Nat
       /\ spilt \in Nat
  BY ZenonT(60), <1>4, <1>5, <1>8, SumNat
<1>14. CountsOn(t, U)
  BY <1>6, <1>9, <1>10 DEF CountsOn
<1>15. PICK x, y, z : x = SumFunctionOnSet(a.buckets, used) /\ y = SumFunctionOnSet(s.buckets, in) /\ z = spilt
  BY ZenonT(60)
<1> HIDE DEF spilt
<1>16. /\ OverloadTotal(c) = (x + y) + (a.overflow + s.overflow + z)
       /\ OverloadTotal(a) = x + a.overflow /\ OverloadTotal(s) = (y + z) + s.overflow
  BY ZenonT(60), <1>3, <1>6, <1>9, <1>10, <1>11, <1>12, <1>15 DEF OverloadTotal, used, S
<1>17. x \in Nat /\ y \in Nat /\ z \in Nat
  BY ZenonT(60), <1>13, <1>15
<1>18. OverloadTotal(c) = OverloadTotal(a) + OverloadTotal(s)
  BY <1>5, <1>16, <1>17
<1>19. c.overflow \in Nat
  <2>1. a.overflow + s.overflow + z \in Nat
    BY <1>5, <1>17
  <2> QED BY ZenonT(60), <1>3, <1>15, <2>1
<1>20. IsTable(c.buckets) /\ DOMAIN c.buckets \subseteq Nat /\ Cardinality(DOMAIN c.buckets) <= m
  <2>1. U \subseteq Nat
    BY ZenonT(60), <1>4 DEF U
  <2> QED BY ZenonT(60), <1>3, <1>4, <1>6, <1>14, <2>1 DEF IsTable
<1> QED BY ZenonT(60), <1>1, <1>3, <1>18, <1>19, <1>20 DEF IsAccumulator


-----------------------------------------------------------------------------
\* The inductive invariant: the snapshot is empty outside a transaction.
RefusalInv ==
  /\ IsAccumulator(overloads) /\ IsAccumulator(taken)
  /\ pc # "executing" => taken = EmptyAccumulator
  /\ pc \notin {"unwound", "failed"} => owed = OverloadTotal(overloads) + OverloadTotal(taken)
  /\ Cardinality(DOMAIN overloads.buckets) <= MaxBuckets

\* A step that leaves the counters alone and neither begins nor ends a transaction.
Quiet ==
  /\ UNCHANGED <<overloads, taken, owed>>
  /\ \/ pc' = pc
     \/ /\ pc # "executing" /\ pc' # "executing"
        /\ pc \in {"unwound", "failed"} => pc' = "failed"

\* Which steps those are.
LEMMA MostStepsAreQuiet ==
  ASSUME [Next]_vars
  PROVE  \/ Quiet
         \/ \E c \in Command : Overloaded(c)
         \/ Start \/ ExecuteOk \/ ExecuteErr \/ Panic
<1> USE DEF Quiet, writerVars, auditVars, Step
<1>1. CASE WorkerStop
  BY ZenonT(60), <1>1 DEF WorkerStop
<1>2. CASE WorkerTurn
  BY ZenonT(60), <1>2 DEF WorkerTurn
<1>3. CASE SelectMessage
  BY ZenonT(60), <1>3 DEF SelectMessage, TryRecv
<1>4. CASE WorkerIdleExit
  BY ZenonT(60), <1>4 DEF WorkerIdleExit
<1>5. CASE WorkerPark
  BY ZenonT(60), <1>5 DEF WorkerPark
<1>6. CASE WorkerStopSelected
  BY ZenonT(60), <1>6 DEF WorkerStopSelected
<1>7. CASE WorkerProceed
  BY ZenonT(60), <1>7 DEF WorkerProceed
<1>8. CASE CancelClosed
  BY ZenonT(60), <1>8 DEF CancelClosed
<1>9. CASE ReportPanic
  BY ZenonT(60), <1>9 DEF ReportPanic
<1>10. CASE Publish
  BY ZenonT(60), <1>10 DEF Publish
<1>11. CASE Reply
  BY ZenonT(60), <1>11 DEF Reply
<1>12. CASE MarkReplied
  BY ZenonT(60), <1>12 DEF MarkReplied
<1>13. CASE Settle
  BY ZenonT(60), <1>13 DEF Settle
<1>14. CASE Release
  BY ZenonT(60), <1>14 DEF Release
<1>15. CASE DeadlinePasses
  BY ZenonT(60), <1>15 DEF DeadlinePasses
<1>16. CASE PollMissed
  BY ZenonT(60), <1>16 DEF PollMissed
<1>17. CASE StopAdmission
  BY ZenonT(60), <1>17 DEF StopAdmission
<1>18. CASE UNCHANGED vars
  BY ZenonT(60), <1>18 DEF vars
<1>19. ASSUME NEW c \in Command, GateBegin(c)  PROVE Quiet
  BY ZenonT(60), <1>19 DEF GateBegin
<1>20. ASSUME NEW c \in Command, GateArm(c)  PROVE Quiet
  BY ZenonT(60), <1>20 DEF GateArm
<1>21. ASSUME NEW c \in Command, SubmitCheck(c)  PROVE Quiet
  BY ZenonT(60), <1>21 DEF SubmitCheck
<1>22. ASSUME NEW c \in Command, Accept(c)  PROVE Quiet
  BY ZenonT(60), <1>22 DEF Accept
<1>23. ASSUME NEW c \in Command, Disconnected(c)  PROVE Quiet
  BY ZenonT(60), <1>23 DEF Disconnected
<1>24. ASSUME NEW c \in Command, Receive(c)  PROVE Quiet
  BY ZenonT(60), <1>24 DEF Receive
<1>25. ASSUME NEW c \in Command, Disconnect(c)  PROVE Quiet
  BY ZenonT(60), <1>25 DEF Disconnect
<1>26. ASSUME NEW c \in Command, Reuse(c)  PROVE Quiet
  BY ZenonT(60), <1>26 DEF Reuse
<1> HIDE DEF Quiet
<1> QED BY ZenonT(60), <1>1, <1>2, <1>3, <1>4, <1>5, <1>6, <1>7, <1>8, <1>9, <1>10, <1>11,
           <1>12, <1>13, <1>14, <1>15, <1>16, <1>17, <1>18, <1>19, <1>20, <1>21, <1>22, <1>23,
           <1>24, <1>25, <1>26 DEF Next, Writer, Submitter

\* Such a step keeps the invariant.
LEMMA QuietKeeps ==
  ASSUME RefusalInv, Quiet
  PROVE  RefusalInv'
BY ZenonT(60) DEF RefusalInv, Quiet

\* A refusal, a snapshot and the three ways a transaction ends.
LEMMA CountersKeep ==
  ASSUME RefusalInv,
         (\E c \in Command : Overloaded(c)) \/ Start \/ ExecuteOk \/ ExecuteErr \/ Panic
  PROVE  RefusalInv'
<1>1. PICK o, t, o2, t2 : o = overloads /\ t = taken /\ o2 = overloads' /\ t2 = taken'
  BY ZenonT(60)
<1>2. /\ IsAccumulator(o) /\ IsAccumulator(t)
      /\ pc # "executing" => t = EmptyAccumulator
      /\ pc \notin {"unwound", "failed"} => owed = OverloadTotal(o) + OverloadTotal(t)
      /\ Cardinality(DOMAIN o.buckets) <= MaxBuckets
  BY ZenonT(60), <1>1 DEF RefusalInv
<1>3. OverloadTotal(o) \in Nat /\ OverloadTotal(t) \in Nat /\ MaxBuckets \in Nat /\ 0 <= MaxBuckets
  BY <1>2, TotalIsNatural, ConfigAssumption
<1>4. ASSUME NEW c \in Command, Overloaded(c)  PROVE RefusalInv'
  <2>1. /\ pc \notin {"unwound", "failed"} /\ o2 = RecordOverload(o, BucketOf[c], MaxBuckets)
        /\ owed' = owed + 1 /\ t2 = t /\ pc' = pc
    BY ZenonT(60), <1>1, <1>4 DEF Overloaded, ReceiversAlive, writerVars
  <2>2. BucketOf[c] \in Nat
    BY ZenonT(60), ConfigAssumption
  <2>3. /\ IsAccumulator(o2) /\ OverloadTotal(o2) = OverloadTotal(o) + 1
        /\ Cardinality(DOMAIN o2.buckets) <= MaxBuckets
    BY ZenonT(60), <1>2, <1>3, <2>1, <2>2, RecordCounts
  <2>4. owed = OverloadTotal(o) + OverloadTotal(t)
    BY ZenonT(60), <1>2, <2>1
  <2>5. owed' = OverloadTotal(o2) + OverloadTotal(t2)
    BY <1>3, <2>1, <2>3, <2>4
  <2> QED BY ZenonT(60), <1>1, <1>2, <2>1, <2>3, <2>5 DEF RefusalInv
<1>5. CASE Start
  <2>1. pc = "ready" /\ pc' = "executing" /\ t2 = o /\ o2 = EmptyAccumulator /\ owed' = owed
    BY ZenonT(60), <1>1, <1>5 DEF Start, Step
  <2>2. t = EmptyAccumulator /\ owed = OverloadTotal(o) + OverloadTotal(t) /\ pc' = "executing"
    BY ZenonT(60), <1>2, <2>1
  <2>3. /\ OverloadTotal(t) = 0 /\ IsAccumulator(o2) /\ OverloadTotal(o2) = 0
        /\ Cardinality(DOMAIN o2.buckets) = 0
    BY ZenonT(60), <2>1, <2>2, EmptyIsAccumulator
  <2>4. owed' = OverloadTotal(o2) + OverloadTotal(t2)
    <3>1. owed' = OverloadTotal(o) + 0 /\ t2 = o
      BY ZenonT(60), <2>1, <2>2, <2>3
    <3>2. OverloadTotal(o) + 0 = 0 + OverloadTotal(o)
      BY <1>3
    <3> QED BY ZenonT(60), <2>3, <3>1, <3>2
  <2> QED BY ZenonT(60), <1>1, <1>2, <1>3, <2>1, <2>2, <2>3, <2>4 DEF RefusalInv
<1>6. CASE ExecuteOk
  <2>1. /\ pc = "executing" /\ pc' = "publish" /\ o2 = o /\ t2 = EmptyAccumulator
        /\ owed' = owed - OverloadTotal(t)
    BY ZenonT(60), <1>1, <1>6 DEF ExecuteOk, Step
  <2>2. owed = OverloadTotal(o) + OverloadTotal(t)
    BY ZenonT(60), <1>2, <2>1
  <2>3. OverloadTotal(t2) = 0 /\ IsAccumulator(t2)
    BY ZenonT(60), <2>1, EmptyIsAccumulator
  <2>4. owed' = OverloadTotal(o) + 0
    BY <1>3, <2>1, <2>2
  <2> QED BY ZenonT(60), <1>1, <1>2, <2>1, <2>3, <2>4 DEF RefusalInv
<1>7. CASE ExecuteErr
  <2>1. /\ pc = "executing" /\ pc' = "publish" /\ o2 = MergeOverloads(o, t, MaxBuckets)
        /\ t2 = EmptyAccumulator /\ owed' = owed
    BY ZenonT(60), <1>1, <1>7 DEF ExecuteErr, Step
  <2>2. owed = OverloadTotal(o) + OverloadTotal(t)
    BY ZenonT(60), <1>2, <2>1
  <2>3. OverloadTotal(t2) = 0 /\ IsAccumulator(t2)
    BY ZenonT(60), <2>1, EmptyIsAccumulator
  <2>4. /\ IsAccumulator(o2) /\ OverloadTotal(o2) = OverloadTotal(o) + OverloadTotal(t)
        /\ Cardinality(DOMAIN o2.buckets) <= MaxBuckets
    BY ZenonT(60), <1>2, <1>3, <2>1, MergeCounts
  <2>5. owed' = OverloadTotal(o2) + 0
    BY <1>3, <2>1, <2>2, <2>4
  <2> QED BY ZenonT(60), <1>1, <2>1, <2>3, <2>4, <2>5 DEF RefusalInv
<1>8. CASE Panic
  <2>1. pc' = "unwound" /\ o2 = o /\ t2 = EmptyAccumulator
    BY ZenonT(60), <1>1, <1>8 DEF Panic, Step
  <2>2. IsAccumulator(t2) /\ pc' \in {"unwound", "failed"}
    BY ZenonT(60), <2>1, EmptyIsAccumulator
  <2> QED BY ZenonT(60), <1>1, <1>2, <2>1, <2>2 DEF RefusalInv
<1> QED BY ZenonT(60), <1>4, <1>5, <1>6, <1>7, <1>8

\* For any bound of the buckets, any number of refusals and any outcome of the transactions: a
\* refusal is in the accumulator, in the snapshot of the transaction under way or committed,
\* exactly once, until the backend panics (storage_executor.rs: record, take, merge).
THEOREM RefusalsConserve == Spec => []RefusalsConserved
<1>1. Init => RefusalInv
  <2> SUFFICES ASSUME Init PROVE RefusalInv
    OBVIOUS
  <2>1. overloads = EmptyAccumulator /\ taken = EmptyAccumulator /\ owed = 0
    BY ZenonT(60) DEF Init
  <2>2. /\ IsAccumulator(overloads) /\ IsAccumulator(taken) /\ OverloadTotal(overloads) = 0
        /\ OverloadTotal(taken) = 0 /\ Cardinality(DOMAIN overloads.buckets) = 0
    BY ZenonT(60), <2>1, EmptyIsAccumulator
  <2>3. 0 <= MaxBuckets /\ 0 = 0 + 0
    BY ConfigAssumption
  <2> QED BY ZenonT(60), <2>1, <2>2, <2>3 DEF RefusalInv
<1>2. RefusalInv /\ [Next]_vars => RefusalInv'
  BY ZenonT(60), MostStepsAreQuiet, QuietKeeps, CountersKeep
<1>3. RefusalInv => RefusalsConserved
  BY ZenonT(60) DEF RefusalInv, RefusalsConserved
<1> QED BY <1>1, <1>2, <1>3, PTL DEF Spec
=============================================================================
