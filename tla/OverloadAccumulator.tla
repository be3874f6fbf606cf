------------------------ MODULE OverloadAccumulator ------------------------
(***************************************************************************)
(* The bounded aggregate of refused submissions that the writer commits    *)
(* with its next command (OverloadAccumulator of storage_executor.rs).     *)
(*                                                                         *)
(* An accumulator is a record: "buckets" maps the bounded set of buckets   *)
(* in use to their counts (the BTreeMap), "overflow" counts what found no  *)
(* bucket.  A snapshot taken from it has the same shape; a zero overflow   *)
(* stands for the absent None entry.  A bucket (lane, operation, class) is *)
(* a natural number in the order the derived Ord gives it.  The counters   *)
(* are u64 with saturating addition; 2^64 refusals are out of reach, so    *)
(* addition is plain here.                                                 *)
(***************************************************************************)
EXTENDS Naturals, FiniteSets, Functions

\* new(), and what take() leaves behind.
EmptyAccumulator == [buckets |-> <<>>, overflow |-> 0]

\* The accumulator with n more refusals of bucket b, when b has a bucket or
\* one is still free; otherwise they go to the overflow counter.
AddTo(acc, b, n, maxBuckets) ==
  LET used == DOMAIN acc.buckets
  IN  IF b \in used
      THEN [acc EXCEPT !.buckets[b] = @ + n]
      ELSE IF Cardinality(used) < maxBuckets
      THEN [acc EXCEPT !.buckets =
              [x \in used \cup {b} |-> IF x = b THEN n ELSE @[x]]]
      ELSE [acc EXCEPT !.overflow = @ + n]

\* record(bucket): one refusal.
RecordOverload(acc, b, maxBuckets) == AddTo(acc, b, 1, maxBuckets)

\* Buckets of the snapshot that merge() finds room for: the ones already in
\* use and, in bucket order, as many new ones as are free.
Admitted(acc, snapshot, maxBuckets) ==
  LET used  == DOMAIN acc.buckets
      fresh == DOMAIN snapshot.buckets \ used
  IN  {b \in DOMAIN snapshot.buckets :
         \/ b \in used
         \/ Cardinality({x \in fresh : x < b}) + Cardinality(used) < maxBuckets}

\* A merge that forgets the buckets it finds no room for.
MergeOverloads_Mutant(acc, snapshot, maxBuckets) ==
  LET used == DOMAIN acc.buckets
      in   == Admitted(acc, snapshot, maxBuckets)
      Old(b) == IF b \in used THEN acc.buckets[b] ELSE 0
      New(b) == IF b \in in THEN snapshot.buckets[b] ELSE 0
  IN  [buckets  |-> [b \in used \cup in |-> Old(b) + New(b)],
       overflow |-> acc.overflow + snapshot.overflow]

\* merge(snapshot): give a snapshot back after the command it travelled with
\* was aborted.  What no longer finds a bucket is kept in the overflow counter.
MergeOverloads(acc, snapshot, maxBuckets) ==
  LET used == DOMAIN acc.buckets
      in   == Admitted(acc, snapshot, maxBuckets)
      out  == DOMAIN snapshot.buckets \ in
      Old(b) == IF b \in used THEN acc.buckets[b] ELSE 0
      New(b) == IF b \in in THEN snapshot.buckets[b] ELSE 0
  IN  [buckets  |-> [b \in used \cup in |-> Old(b) + New(b)],
       overflow |-> acc.overflow + snapshot.overflow
                      + SumFunctionOnSet(snapshot.buckets, out)]

\* Refusals an accumulator or a snapshot stands for.
OverloadTotal(acc) == SumFunctionOnSet(acc.buckets, DOMAIN acc.buckets) + acc.overflow
=============================================================================
