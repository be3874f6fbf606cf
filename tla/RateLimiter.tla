---------------------------- MODULE RateLimiter ----------------------------
(***************************************************************************)
(* Fixed-memory request limiting (rate_limit.rs): the guards in front of   *)
(* the login, probe and authenticated routes, their fixed-window buckets,  *)
(* the concurrency permits, and the bounded table of dropped requests that *)
(* the operator's drain takes.                                             *)
(*                                                                         *)
(* A guard reads the clock, and only then takes the lock around the        *)
(* buckets, so a request may be counted in a window that is already over.  *)
(* Addresses and identities appear as the shard they hash to.              *)
(***************************************************************************)
EXTENDS Naturals, FiniteSets, Functions

CONSTANTS
  Callers,            \* requests being served at a time
  ShardIds,           \* the shards sources and identities hash to
  GlobalAttempts, ClassAttempts,   \* allowances per window
  MaxAggregates,      \* config.max_aggregates
  Permits,            \* config.authenticated_concurrency
  MaxWindow,          \* windows the clock goes through
  MaxRequests         \* requests in all

ASSUME LimiterBounds == /\ GlobalAttempts \in Nat \ {0} /\ ClassAttempts \in Nat \ {0}
                        /\ MaxAggregates \in Nat \ {0} /\ Permits \in Nat \ {0}
                        /\ MaxWindow \in Nat /\ MaxRequests \in Nat
                        /\ ShardIds \subseteq Nat

\* AggregateClass and DropReason, in their derived order.
ClassLogin == 1
ClassProbe == 2
ClassAuthenticated == 3
ClassOverflow == 4
ReasonRate == 1
ReasonOversize == 2
ReasonMalformed == 3
ReasonConcurrency == 4
OverflowShard == 65535

BucketIds == {<<0, 0>>} \cup ((ClassLogin .. ClassAuthenticated) \X ShardIds)
Allowance(b) == IF b = <<0, 0>> THEN GlobalAttempts ELSE ClassAttempts

VARIABLES
  windowNow,    \* now_milliseconds / window_milliseconds
  buckets,      \* per bucket: the window it counts and the attempts used in it
  drops,        \* the aggregate table: <<class, reason, shard, window>> to a count
  requests,     \* per caller: where its request is
  arrived,      \* requests so far
  recorded,     \* history: drops recorded so far
  drained,      \* history: drops the drain has handed out
  admitted,     \* history: attempts granted per bucket and window
  overtaken     \* history: calls that set a bucket back, per bucket and window crossed

limiterVars == <<windowNow, buckets, drops, requests, arrived, recorded, drained,
                 admitted, overtaken>>

NoRequest == [at |-> "idle", class |-> 0, shard |-> 0, window |-> 0]

LimiterInit ==
  /\ windowNow = 0
  /\ buckets = [b \in BucketIds |-> [window |-> 0, used |-> 0]]
  /\ drops = <<>>
  /\ requests = [c \in Callers |-> NoRequest]
  /\ arrived = 0 /\ recorded = 0 /\ drained = 0
  /\ admitted = [b \in BucketIds |-> [w \in 0 .. MaxWindow |-> 0]]
  /\ overtaken = admitted

\* The bucket as consume finds it: a different window starts it afresh.
Opened(b, w) == IF buckets[b].window = w THEN buckets[b] ELSE [window |-> w, used |-> 0]
\* A bug: one attempt more than the allowance.
Grants_Mutant(b, w) == Opened(b, w).used <= Allowance(b)
Grants(b, w) == Opened(b, w).used < Allowance(b)
Charged(b, w) == [Opened(b, w) EXCEPT !.used = IF Grants(b, w) THEN @ + 1 ELSE @]

\* The buckets bs are tried in one lock acquisition, in window w; those in ok
\* grant the attempt.
Consume(bs, ok, w) ==
  /\ buckets' = [b \in BucketIds |-> IF b \in bs THEN Charged(b, w) ELSE buckets[b]]
  /\ admitted' = [b \in BucketIds |-> IF b \in ok
                    THEN [admitted[b] EXCEPT ![w] = @ + 1] ELSE admitted[b]]
  /\ overtaken' = [b \in BucketIds |-> IF b \in bs /\ w < buckets[b].window
                    THEN [v \in 0 .. MaxWindow |->
                            overtaken[b][v] + (IF v \in w .. buckets[b].window THEN 1 ELSE 0)]
                    ELSE overtaken[b]]

\* The derived order of AggregateKey.
KeyBefore(k, m) ==
  \E i \in 1 .. 4 : k[i] < m[i] /\ \A j \in 1 .. i - 1 : k[j] = m[j]
Oldest == CHOOSE k \in DOMAIN drops : \A m \in DOMAIN drops \ {k} : KeyBefore(k, m)

CountOf(table, k) == IF k \in DOMAIN table THEN table[k] ELSE 0
Counted(table, k, n) ==
  [m \in DOMAIN table \cup {k} |-> CountOf(table, m) + (IF m = k THEN n ELSE 0)]

\* The oldest entry is folded into the overflow entry that takes its place.
Folded(overflow) == Counted(Restrict(drops, DOMAIN drops \ {Oldest}), overflow, drops[Oldest])

\* record_locked
Drop(class, reason, shard, w) ==
  LET key == <<class, reason, shard, w>>
      overflow == <<ClassOverflow, reason, OverflowShard, w>>
      full == Cardinality(DOMAIN drops) >= MaxAggregates
  IN /\ recorded' = recorded + 1
     /\ drops' = IF key \in DOMAIN drops \/ ~full THEN Counted(drops, key, 1)
                 ELSE IF overflow \in DOMAIN drops THEN Counted(drops, overflow, 1)
                 ELSE Counted(Folded(overflow), overflow, 1)

Keep == UNCHANGED <<drops, recorded>>
Ends(c) == requests' = [requests EXCEPT ![c] = NoRequest]
MovesTo(c, at) == requests' = [requests EXCEPT ![c].at = at]

\* The guard takes the time, before it takes the lock.
ReadWindow(c, class, shard) ==
  /\ requests[c] = NoRequest /\ arrived < MaxRequests
  /\ arrived' = arrived + 1
  /\ requests' = [requests EXCEPT ![c] =
       [at |-> "timed", class |-> class, shard |-> shard, window |-> windowNow]]
  /\ UNCHANGED <<windowNow, buckets, drops, recorded, drained, admitted, overtaken>>

\* check_unauthenticated: the global bucket first, then the class's own.
CheckUnauthenticated(c) ==
  LET r == requests[c]
      own == <<r.class, r.shard>>
      bs == IF Grants(<<0, 0>>, r.window) THEN {<<0, 0>>, own} ELSE {<<0, 0>>}
      ok == {b \in bs : Grants(b, r.window)}
  IN /\ r.at = "timed" /\ r.class # ClassAuthenticated
     /\ Consume(bs, ok, r.window)
     /\ IF own \in ok THEN MovesTo(c, "checked") /\ Keep
        ELSE Ends(c) /\ Drop(r.class, ReasonRate, r.shard, r.window)
     /\ UNCHANGED <<windowNow, arrived, drained>>

\* check_authenticated
CheckAuthenticated(c) ==
  LET r == requests[c]
      own == <<r.class, r.shard>>
  IN /\ r.at = "timed" /\ r.class = ClassAuthenticated
     /\ Consume({own}, {b \in {own} : Grants(b, r.window)}, r.window)
     /\ IF Grants(own, r.window) THEN MovesTo(c, "checked") /\ Keep
        ELSE Ends(c) /\ Drop(r.class, ReasonRate, r.shard, r.window)
     /\ UNCHANGED <<windowNow, arrived, drained>>

\* The body is too large by its header or when it is read.
RefuseBody(c) ==
  /\ requests[c].at = "checked"
  /\ Ends(c)
  /\ Drop(requests[c].class, ReasonOversize, requests[c].shard, requests[c].window)
  /\ UNCHANGED <<windowNow, buckets, arrived, drained, admitted, overtaken>>

\* next.run: an authenticated request needs a permit first.
Run(c) ==
  LET r == requests[c] IN
  /\ r.at = "checked"
  /\ IF r.class = ClassAuthenticated
        /\ Cardinality({x \in Callers : requests[x].at = "running"
                          /\ requests[x].class = ClassAuthenticated}) >= Permits
     THEN Ends(c) /\ Drop(r.class, ReasonConcurrency, r.shard, r.window)
     ELSE MovesTo(c, "running") /\ Keep
  /\ UNCHANGED <<windowNow, buckets, arrived, drained, admitted, overtaken>>

\* The handler answers, or the connection goes away and the guard is dropped
\* with its permit.  The pre-verifier guard records what the handler refused.
FinishRequest(c) ==
  LET r == requests[c] IN
  /\ r.at = "running"
  /\ Ends(c)
  /\ \/ Keep
     \/ /\ r.class # ClassAuthenticated
        /\ \E reason \in {ReasonOversize, ReasonMalformed} :
             Drop(r.class, reason, r.shard, r.window)
  /\ UNCHANGED <<windowNow, buckets, arrived, drained, admitted, overtaken>>

\* take_aggregates
TakeAggregates ==
  /\ drops # <<>>
  /\ drained' = drained + SumFunctionOnSet(drops, DOMAIN drops)
  /\ drops' = <<>>
  /\ UNCHANGED <<windowNow, buckets, requests, arrived, recorded, admitted, overtaken>>

NextWindow ==
  /\ windowNow < MaxWindow
  /\ windowNow' = windowNow + 1
  /\ UNCHANGED <<buckets, drops, requests, arrived, recorded, drained, admitted, overtaken>>

LimiterNext ==
  \/ \E c \in Callers :
       \/ \E class \in ClassLogin .. ClassAuthenticated, shard \in ShardIds :
            ReadWindow(c, class, shard)
       \/ CheckUnauthenticated(c) \/ CheckAuthenticated(c)
       \/ RefuseBody(c) \/ Run(c) \/ FinishRequest(c)
  \/ TakeAggregates
  \/ NextWindow

LimiterSpec == LimiterInit /\ [][LimiterNext]_limiterVars

----------------------------------------------------------------------------
(* Every recorded drop is counted exactly once, in the table or in what    *)
(* the drain took, however often the full table had to fold an old entry   *)
(* into the overflow entry; and the table never outgrows max_aggregates.   *)
DropsAccounted ==
  /\ drained + SumFunctionOnSet(drops, DOMAIN drops) = recorded
  /\ Cardinality(DOMAIN drops) <= MaxAggregates

(* In a window a bucket grants no more than its allowance, and one         *)
(* allowance more for each call that read the clock before the bucket      *)
(* moved on and came to the lock after it: such a call sets the bucket     *)
(* back to its own window, and the next call of any window it was set back *)
(* over starts the bucket afresh.                                          *)
WindowBudget ==
  \A b \in BucketIds, w \in 0 .. MaxWindow :
    admitted[b][w] <= Allowance(b) * (1 + overtaken[b][w])

(* What the limiter refuses it counts, and what it grants it bounds.       *)
LimiterAccounts == DropsAccounted /\ WindowBudget
============================================================================
