--------------------------- MODULE ArtifactProofs ---------------------------
(***************************************************************************)
(* What leaves the system, for any keys, backups, events and exports: the  *)
(* audit export, the recovery fork, the backup catalog and the rollover of *)
(* the signing key.                                                        *)
(*                                                                         *)
(* RolloverKeepsTrust is not inductive.  That a registered key is new      *)
(* takes that it was when its transition was prepared and that the lineage *)
(* has not grown since (PreparedFresh); that the pending flag ends with    *)
(* the right checkpoint takes that an outstanding descriptor is bound to   *)
(* the newest transition (BoundToLast) and that nothing but registered     *)
(* transitions is covered.                                                 *)
(***************************************************************************)
EXTENDS Publications, RecoveryFork, FiniteSetTheorems, TLAPS

Transition ==
  [id : TransitionIds, old : SigningKeys, new : SigningKeys, sequence : Nat,
   generation : Nat \ {0}, expires : Nat]

Entry ==
  [key : SigningKeys, state : {"Current", "Retired"}, generation : Nat, effective : Nat,
   retired : Nat, previous : SigningKeys \cup {"none"},
   transition : Transition \cup {NoTransition}, lastUse : Nat]

Descriptor ==
  [domain : SignableDomain, artifact : Artifacts, key : SigningKeys,
   transition : Transition \cup {NoTransition}, disposition : Disposition]

Last == lineage[Len(lineage)]

TrustTypes ==
  /\ lineage \in Seq(Entry)
  /\ trustHead \in Nat \ {0}
  /\ prepared \in [TransitionIds -> Transition \cup {NoTransition}]
  /\ descriptors \in [DescriptorIds -> Descriptor \cup {NoDescriptor}]

\* What an entry at place i of a lineage of length n looks like.
Link(e, i, n) ==
  /\ e.generation = i /\ e.effective > 0 /\ e.effective <= trustHead
  /\ i = n => e.state = "Current" /\ e.retired = 0
  /\ i # n => e.state = "Retired" /\ e.retired >= e.effective
  /\ i = 1 => e.previous = "none" /\ e.transition = NoTransition
  /\ i # 1 => e.transition # NoTransition /\ e.transition \in registered

Chained ==
  /\ Len(lineage) <= MaxPublicKeys
  /\ \A i \in 1..Len(lineage) : Link(lineage[i], i, Len(lineage))
  /\ \A i \in 1..Len(lineage) : i # 1 => lineage[i].previous = lineage[i - 1].key
  /\ \A i, j \in 1..Len(lineage) : lineage[i].key = lineage[j].key => i = j

PreparedFresh ==
  \A t \in TransitionIds : prepared[t] # NoTransition =>
    /\ prepared[t].generation <= Len(lineage) /\ prepared[t].generation < MaxPublicKeys
    /\ prepared[t].generation = Len(lineage) =>
         \A i \in 1..Len(lineage) : lineage[i].key # prepared[t].new

BoundToLast ==
  \A d \in DescriptorIds :
    /\ descriptors[d] # NoDescriptor => Len(lineage) > 0
    /\ descriptors[d].disposition = "Outstanding" =>
         descriptors[d].key = Last.key /\ descriptors[d].transition = Last.transition

CoveredRegistered == covered \subseteq registered \cup {NoTransition}

PendingLast == checkpointPending = (Len(lineage) > 1 /\ Last.transition \notin covered)

TrustInv ==
  TrustTypes /\ Chained /\ PreparedFresh /\ BoundToLast /\ CoveredRegistered /\ PendingLast

-----------------------------------------------------------------------------
(* The current entry.                                                      *)

(* An entry and its place.                                                   *)
LEMMA LinkAt ==
  ASSUME TrustTypes, Chained, NEW i \in 1..Len(lineage)
  PROVE  lineage[i] \in Entry /\ Link(lineage[i], i, Len(lineage))
  BY DEF TrustTypes, Chained

LEMMA CurrentOnlyLast ==
  ASSUME TrustTypes, Chained, NEW i \in 1..Len(lineage)
  PROVE  lineage[i].state = "Current" <=> i = Len(lineage)
<1>1. Link(lineage[i], i, Len(lineage))
  BY LinkAt
<1>2. CASE i = Len(lineage)
  BY ZenonT(60), <1>1, <1>2 DEF Link
<1>3. CASE i # Len(lineage)
  BY ZenonT(60), <1>1, <1>3 DEF Link
<1> QED
  BY <1>2, <1>3

(* The entry found by its state is the last one.                             *)
LEMMA CurrentIsLast == ASSUME TrustTypes, Chained, Enrolled PROVE CurrentEntry = Last
<1> DEFINE n == Len(lineage)
           c == CHOOSE i \in DOMAIN lineage : lineage[i].state = "Current"
<1>1. n \in Nat /\ n > 0 /\ DOMAIN lineage = 1..n
  BY DEF TrustTypes, Enrolled
<1>2. n \in DOMAIN lineage /\ lineage[n].state = "Current"
  <2>1. n \in 1..Len(lineage)
    BY <1>1
  <2>2. lineage[n].state = "Current"
    BY <2>1, CurrentOnlyLast, Zenon
  <2> QED
    BY <1>1, <2>1, <2>2
<1>3. c \in DOMAIN lineage /\ lineage[c].state = "Current"
  BY <1>2, Zenon
<1>4. c = n
  BY ZenonT(60), <1>1, <1>3, CurrentOnlyLast
<1> QED
  BY ZenonT(60), <1>4 DEF CurrentEntry, Last

LEMMA LastEntry == ASSUME TrustTypes, Chained, Enrolled
                   PROVE  /\ Last \in Entry /\ Len(lineage) \in Nat \ {0}
                          /\ Link(Last, Len(lineage), Len(lineage))
<1>1. Len(lineage) \in Nat /\ Len(lineage) > 0 /\ DOMAIN lineage = 1..Len(lineage)
  BY DEF TrustTypes, Enrolled
<1>2. Last \in Entry
  BY <1>1 DEF TrustTypes, Last
<1> QED
  BY <1>1, <1>2 DEF Chained, Last

(* TrustInv is strong enough.                                                *)
LEMMA TrustInvImplies == TrustInv => RolloverKeepsTrust
<1> SUFFICES ASSUME TrustInv PROVE RolloverKeepsTrust
  OBVIOUS
<1> DEFINE n == Len(lineage)
<1>1. n \in Nat /\ DOMAIN lineage = 1..n /\ \A i \in 1..n : lineage[i] \in Entry
  BY DEF TrustInv, TrustTypes
<1>2. n > 0 => CurrentEntry = Last
  BY CurrentIsLast DEF TrustInv, Enrolled
<1>3. n > 0 => \E i \in DOMAIN lineage :
                \A j \in DOMAIN lineage : (lineage[j].state = "Current") <=> (i = j)
  <2> HAVE n > 0
  <2>1. n \in 1..n
    BY <1>1
  <2>2. \A i \in 1..n : lineage[i].state = "Current" <=> i = n
    BY CurrentOnlyLast DEF TrustInv
  <2>3. \A j \in DOMAIN lineage : (lineage[j].state = "Current") <=> (n = j)
    BY ZenonT(60), <1>1, <2>2
  <2>4. n \in DOMAIN lineage
    BY <1>1, <2>1
  <2> QED
    BY ZenonT(60), <2>3, <2>4
<1>4. ASSUME NEW i \in 1..n
      PROVE  /\ EntryValid(lineage[i]) /\ lineage[i].generation = i
             /\ lineage[i].previous = IF i = 1 THEN "none" ELSE lineage[i - 1].key
             /\ \A j \in DOMAIN lineage : lineage[i].key = lineage[j].key => i = j
  <2>1. Link(lineage[i], i, n) /\ lineage[i] \in Entry
    BY <1>1 DEF TrustInv, Chained
  <2>2. i # 1 => /\ lineage[i].previous = lineage[i - 1].key /\ i - 1 \in 1..n
                 /\ lineage[i - 1] \in Entry
    BY <1>1 DEF TrustInv, Chained
  <2>3. lineage[i].previous # lineage[i].key
    <3>1. CASE i = 1
      BY ZenonT(60), <2>1, <3>1, TrustNames DEF Link, Entry
    <3>2. CASE i # 1
      <4>1. lineage[i - 1].key # lineage[i].key
        BY <1>1, <2>2, <3>2 DEF TrustInv, Chained
      <4> QED
        BY <2>2, <3>2, <4>1
    <3> QED
      BY <3>1, <3>2
  <2>4. i # 1 => lineage[i].previous # "none"
    BY ZenonT(60), <2>2, TrustNames DEF Entry
  <2>5. EntryValid(lineage[i])
    BY <2>1, <2>3, <2>4 DEF EntryValid, Link
  <2> QED
    BY ZenonT(60), <1>1, <2>1, <2>2, <2>5 DEF Link, TrustInv, Chained
<1>5. LineageStaysValid
  BY ZenonT(60), <1>1, <1>3, <1>4 DEF LineageStaysValid, LineageValid, Enrolled, TrustInv, Chained
<1>6. OutstandingUnderCurrentKey
  BY <1>1, <1>2 DEF OutstandingUnderCurrentKey, TrustInv, BoundToLast, NoDescriptor
<1>7. PendingUntilCheckpoint
  BY <1>1, <1>2 DEF PendingUntilCheckpoint, TrustInv, PendingLast
<1> QED
  BY <1>5, <1>6, <1>7 DEF RolloverKeepsTrust

LEMMA TrustInitially == TrustInit => TrustInv
<1> SUFFICES ASSUME TrustInit PROVE TrustInv
  OBVIOUS
<1>1. lineage = <<>> /\ Len(lineage) = 0
  BY DEF TrustInit
<1>2. TrustTypes
  BY DEF TrustInit, TrustTypes
<1>3. Chained /\ PreparedFresh
  BY <1>1, TrustBounds DEF TrustInit, Chained, PreparedFresh
<1>4. \A d \in DescriptorIds : descriptors[d] = NoDescriptor
  BY DEF TrustInit
<1>5. NoDescriptor.disposition # "Outstanding"
  BY DEF NoDescriptor
<1>6. BoundToLast
  BY <1>4, <1>5 DEF BoundToLast
<1>7. CoveredRegistered
  BY DEF TrustInit, CoveredRegistered
<1>8. checkpointPending = FALSE /\ ~(Len(lineage) > 1)
  BY <1>1 DEF TrustInit
<1>9. PendingLast
  BY ZenonT(60), <1>8 DEF PendingLast
<1> QED
  BY <1>2, <1>3, <1>6, <1>7, <1>9 DEF TrustInv

-----------------------------------------------------------------------------
(* Steps.                                                                  *)

\* What RetiredEntriesFrozen says of one step.
FrozenStep ==
  /\ Len(lineage') >= Len(lineage)
  /\ \A i \in DOMAIN lineage : lineage[i].state = "Retired" => lineage'[i] = lineage[i]

LEMMA HeadMovesKept == TrustInv /\ HeadMoves => TrustInv' /\ FrozenStep
<1> SUFFICES ASSUME TrustInv, HeadMoves PROVE TrustInv' /\ FrozenStep
  OBVIOUS
<1>0. \A i \in 1..Len(lineage) : lineage[i] \in Entry
  BY DEF TrustInv, TrustTypes
<1>1. TrustTypes' /\ PreparedFresh' /\ BoundToLast' /\ CoveredRegistered' /\ PendingLast'
  BY DEF HeadMoves, TrustInv, TrustTypes, PreparedFresh, BoundToLast, CoveredRegistered, PendingLast, Last
<1>2. ASSUME NEW i \in 1..Len(lineage) PROVE Link(lineage[i], i, Len(lineage))'
  <2>1. Link(lineage[i], i, Len(lineage)) /\ lineage[i].effective \in Nat
    BY ZenonT(60), <1>0, LinkAt DEF TrustInv, Entry
  <2>2. trustHead' = trustHead + 1 /\ trustHead \in Nat /\ UNCHANGED <<lineage, registered>>
    BY DEF HeadMoves, TrustInv, TrustTypes
  <2>3. lineage[i].effective <= trustHead'
    BY <2>1, <2>2 DEF Link
  <2> QED
    BY ZenonT(60), <2>1, <2>2, <2>3 DEF Link
<1>4. Chained'
  BY <1>2 DEF HeadMoves, TrustInv, Chained
<1>3. FrozenStep
  BY DEF HeadMoves, FrozenStep, TrustInv, TrustTypes
<1> QED
  BY <1>1, <1>4, <1>3 DEF TrustInv

LEMMA EnrollKept == ASSUME TrustInv, NEW key \in SigningKeys, Enroll(key)
                    PROVE  TrustInv' /\ FrozenStep
<1> DEFINE e == LineageEntry(key, 1, trustHead, "none", NoTransition)
<1>1. e \in Entry /\ trustHead \in Nat \ {0}
  BY DEF LineageEntry, Entry, TrustInv, TrustTypes
<1>2. /\ e.key = key /\ e.state = "Current" /\ e.generation = 1 /\ e.effective = trustHead
      /\ e.retired = 0 /\ e.previous = "none" /\ e.transition = NoTransition
  BY DEF LineageEntry
<1>3. /\ lineage' = <<e>> /\ Len(lineage) = 0
      /\ UNCHANGED <<checkpointPending, prepared, registered, descriptors,
                     checkpointRegistered, trustHead, claims, covered>>
  BY DEF Enroll, Enrolled, TrustInv, TrustTypes
<1> HIDE DEF e
<1>4. lineage' \in Seq(Entry) /\ Len(lineage') = 1 /\ lineage'[1] = e
  BY <1>1, <1>3
<1>5. TrustTypes'
  BY <1>3, <1>4 DEF TrustInv, TrustTypes
<1>6. Chained'
  BY <1>1, <1>2, <1>3, <1>4, TrustBounds DEF Chained, Link
<1>7. \A t \in TransitionIds : prepared[t] = NoTransition
  <2> TAKE t \in TransitionIds
  <2>1. prepared[t] \in Transition \cup {NoTransition}
    BY DEF TrustInv, TrustTypes
  <2>2. prepared[t] \in Transition => prepared[t].generation \in Nat \ {0}
    BY ZenonT(60) DEF Transition
  <2>3. prepared[t] # NoTransition => prepared[t].generation <= 0
    BY <1>3 DEF TrustInv, PreparedFresh
  <2> QED
    BY <2>1, <2>2, <2>3
<1>8. PreparedFresh'
  BY <1>3, <1>7 DEF PreparedFresh
<1>9. \A d \in DescriptorIds : descriptors[d] = NoDescriptor
  BY <1>3 DEF TrustInv, BoundToLast
<1>10. BoundToLast' /\ CoveredRegistered'
  BY <1>3, <1>9 DEF BoundToLast, NoDescriptor, TrustInv, CoveredRegistered
<1>11. PendingLast'
  BY <1>3, <1>4 DEF PendingLast, TrustInv
<1>12. FrozenStep
  BY <1>3, <1>4 DEF FrozenStep, TrustInv, TrustTypes
<1> QED
  BY <1>5, <1>6, <1>8, <1>10, <1>11, <1>12 DEF TrustInv

LEMMA PrepareKept ==
  ASSUME TrustInv, NEW id \in TransitionIds, NEW key \in SigningKeys, PrepareRotation(id, key)
  PROVE  TrustInv' /\ FrozenStep
<1> DEFINE t == TransitionFor(id, key)
<1>1. CurrentEntry = Last /\ Last \in Entry /\ Len(lineage) \in Nat \ {0} /\ Last.generation = Len(lineage)
  BY ZenonT(60), CurrentIsLast, LastEntry DEF PrepareRotation, TrustInv, Link
<1>2. trustHead + TransitionTtl \in Nat /\ trustHead \in Nat
  BY TrustBounds DEF TrustInv, TrustTypes
<1>3. t \in Transition /\ t.generation = Len(lineage) /\ t.new = key
  BY ZenonT(60), <1>1, <1>2 DEF TransitionFor, Transition, Entry
<1>4. /\ prepared' = [prepared EXCEPT ![id] = t] /\ Len(lineage) < MaxPublicKeys
      /\ \A i \in 1..Len(lineage) : lineage[i].key # key
      /\ UNCHANGED <<lineage, checkpointPending, registered, descriptors,
                     checkpointRegistered, trustHead, claims, covered>>
  BY DEF PrepareRotation, TrustInv, TrustTypes
<1> HIDE DEF t
<1>5. TrustTypes'
  BY ZenonT(60), <1>3, <1>4 DEF TrustInv, TrustTypes
<1>6. Chained' /\ BoundToLast' /\ CoveredRegistered' /\ PendingLast' /\ FrozenStep
  <2>1. Last' = Last /\ FrozenStep
    BY <1>4 DEF TrustInv, TrustTypes, Last, FrozenStep
  <2> QED
    BY ZenonT(60), <1>4, <2>1
    DEF TrustInv, Chained, Link, BoundToLast, CoveredRegistered, PendingLast
<1>7. PreparedFresh'
  <2> SUFFICES ASSUME NEW u \in TransitionIds, prepared'[u] # NoTransition
               PROVE  /\ prepared'[u].generation <= Len(lineage)
                      /\ prepared'[u].generation < MaxPublicKeys
                      /\ prepared'[u].generation = Len(lineage) =>
                           \A i \in 1..Len(lineage) : lineage[i].key # prepared'[u].new
    BY ZenonT(60), <1>4 DEF PreparedFresh
  <2>1. CASE u = id
    <3>1. prepared'[u] = t
      BY ZenonT(60), <1>4, <2>1 DEF TrustInv, TrustTypes
    <3>2. Len(lineage) <= Len(lineage)
      BY <1>1
    <3> QED
      BY ZenonT(60), <1>3, <1>4, <3>1, <3>2
  <2>2. CASE u # id
    BY ZenonT(60), <1>4, <2>2 DEF TrustInv, TrustTypes, PreparedFresh
  <2> QED
    BY ZenonT(60), <2>1, <2>2
<1> QED
  BY ZenonT(60), <1>5, <1>6, <1>7 DEF TrustInv

(* The rollover: the last entry is retired and a new one follows it.  No     *)
(* descriptor is outstanding, since it would be bound to the last key.       *)
LEMMA RegisterKept ==
  ASSUME TrustInv, NEW id \in TransitionIds, RegisterRotation(prepared[id])
  PROVE  TrustInv' /\ FrozenStep
<1> DEFINE n == Len(lineage)
           t == prepared[id]
           r == [Last EXCEPT !.state = "Retired"]
           old == [r EXCEPT !.retired = trustHead]
           new == LineageEntry(t.new, n + 1, trustHead, Last.key, t)
<1>1. /\ CurrentEntry = Last /\ Last \in Entry /\ n \in Nat \ {0} /\ Last.generation = n
      /\ Link(Last, n, n) /\ lineage \in Seq(Entry) /\ trustHead \in Nat \ {0}
  BY ZenonT(60), CurrentIsLast, LastEntry
  DEF RegisterRotation, Registrable, TrustInv, TrustTypes, Link
<1>2. /\ t \in Transition /\ t \notin registered /\ t # NoTransition /\ t.generation = n
      /\ n < MaxPublicKeys /\ \A i \in 1..n : lineage[i].key # t.new
  <2>1. t \notin registered /\ t # NoTransition /\ t.generation = n
    BY ZenonT(60), <1>1 DEF RegisterRotation, Registrable
  <2>2. t \in Transition
    BY <2>1 DEF TrustInv, TrustTypes
  <2> QED
    BY ZenonT(60), <2>1, <2>2 DEF TrustInv, PreparedFresh
<1>3. \A d \in DescriptorIds : descriptors[d].disposition # "Outstanding"
  <2>1. \A d \in DescriptorIds :
          ~(descriptors[d].disposition = "Outstanding" /\ descriptors[d].key = Last.key)
    BY ZenonT(60), <1>1 DEF RegisterRotation, Registrable, OutstandingFor
  <2> QED
    BY <2>1 DEF TrustInv, BoundToLast
<1>4. /\ r \in Entry /\ r.state = "Retired" /\ r.key = Last.key /\ r.generation = n
      /\ r.effective = Last.effective /\ r.previous = Last.previous
      /\ r.transition = Last.transition
  BY ZenonT(60), <1>1 DEF Entry
<1>5. RetireLast(lineage) = [lineage EXCEPT ![n] = old]
  BY ZenonT(60), <1>1 DEF RetireLast, Last, Entry
<1> HIDE DEF r
<1>6. /\ old \in Entry /\ old.state = "Retired" /\ old.key = Last.key /\ old.generation = n
      /\ old.effective = Last.effective /\ old.previous = Last.previous
      /\ old.transition = Last.transition /\ old.retired = trustHead
  BY ZenonT(60), <1>1, <1>4 DEF Entry
<1>7. t.new \in SigningKeys /\ n + 1 \in Nat /\ Last.key \in SigningKeys
  <2>1. t.new \in SigningKeys
    BY ZenonT(60), <1>2 DEF Transition
  <2>2. Last.key \in SigningKeys
    BY ZenonT(60), <1>1 DEF Entry
  <2> QED
    BY <1>1, <2>1, <2>2
<1>8. /\ new \in Entry /\ new.key = t.new /\ new.state = "Current" /\ new.generation = n + 1
      /\ new.effective = trustHead /\ new.retired = 0 /\ new.previous = Last.key
      /\ new.transition = t
  BY ZenonT(60), <1>1, <1>2, <1>7 DEF LineageEntry, Entry
<1>9. /\ lineage' = Append([lineage EXCEPT ![n] = old], new)
      /\ checkpointPending' = TRUE /\ registered' = registered \cup {t}
      /\ UNCHANGED <<prepared, descriptors, checkpointRegistered, trustHead, claims, covered>>
  BY <1>1, <1>5 DEF RegisterRotation
<1> HIDE DEF old, new
<1>10. [lineage EXCEPT ![n] = old] \in Seq(Entry) /\ Len([lineage EXCEPT ![n] = old]) = n
  BY <1>1, <1>6
<1>11. /\ lineage' \in Seq(Entry) /\ Len(lineage') = n + 1 /\ lineage'[n + 1] = new
       /\ lineage'[n] = old /\ \A i \in 1..n : i # n => lineage'[i] = lineage[i]
  <2> DEFINE q == [lineage EXCEPT ![n] = old]
  <2>1. q[n] = old /\ \A i \in 1..n : i # n => q[i] = lineage[i]
    BY <1>1
  <2>2. q \in Seq(Entry) /\ Len(q) = n /\ lineage' = Append(q, new)
    BY ZenonT(60), <1>9, <1>10
  <2> HIDE DEF q
  <2>3. lineage' \in Seq(Entry) /\ Len(lineage') = n + 1 /\ lineage'[n + 1] = new
    BY <1>1, <1>8, <2>2
  <2>4. \A i \in 1..n : lineage'[i] = q[i]
    BY <1>1, <1>8, <2>2
  <2>5. n \in 1..n
    BY <1>1
  <2> QED
    BY ZenonT(60), <2>1, <2>3, <2>4, <2>5
<1>12. TrustTypes'
  BY ZenonT(60), <1>9, <1>11 DEF TrustInv, TrustTypes
<1>13. ASSUME NEW i \in 1..(n + 1) PROVE Link(lineage[i], i, Len(lineage))'
  <2>1. CASE i = n + 1
    <3>1. i # 1 /\ trustHead > 0 /\ trustHead <= trustHead
      BY <1>1, <2>1
    <3>2. lineage'[i] = new /\ Len(lineage') = i /\ t \in registered'
      BY ZenonT(60), <1>9, <1>11, <2>1
    <3> QED
      BY ZenonT(60), <1>2, <1>8, <1>9, <2>1, <3>1, <3>2 DEF Link
  <2>2. CASE i = n
    <3>1. /\ Last.effective > 0 /\ Last.effective <= trustHead /\ Last.effective \in Nat
          /\ n = 1 => Last.previous = "none" /\ Last.transition = NoTransition
          /\ n # 1 => Last.transition # NoTransition /\ Last.transition \in registered
      BY ZenonT(60), <1>1 DEF Link, Entry
    <3>2. n # n + 1
      BY <1>1
    <3>3. lineage'[i] = old /\ Len(lineage') = n + 1 /\ i # n + 1
      BY ZenonT(60), <1>11, <2>2, <3>2
    <3> QED
      BY ZenonT(60), <1>1, <1>6, <1>9, <2>2, <3>1, <3>3 DEF Link
  <2>3. CASE i \notin {n, n + 1}
    <3>1. i \in 1..n /\ Link(lineage[i], i, n) /\ i # n /\ i # n + 1
      BY <1>1, <2>3, LinkAt DEF TrustInv
    <3> QED
      BY ZenonT(60), <1>9, <1>11, <3>1 DEF Link
  <2> QED
    BY ZenonT(60), <2>1, <2>2, <2>3
<1>14. \A i \in 1..n : lineage'[i].key = lineage[i].key /\ lineage'[i].previous = lineage[i].previous
  BY ZenonT(60), <1>1, <1>6, <1>11 DEF Last
<1>15. \A i \in 1..(n + 1) : i # 1 => lineage'[i].previous = lineage'[i - 1].key
  <2> SUFFICES ASSUME NEW i \in 1..(n + 1), i # 1
               PROVE  lineage'[i].previous = lineage'[i - 1].key
    OBVIOUS
  <2>1. CASE i = n + 1
    <3>1. i - 1 = n
      BY <1>1, <2>1
    <3> QED
      BY ZenonT(60), <1>6, <1>8, <1>11, <2>1, <3>1
  <2>2. CASE i # n + 1
    <3>1. i \in 1..n /\ i - 1 \in 1..n
      BY <1>1, <2>2
    <3>2. lineage[i].previous = lineage[i - 1].key
      BY ZenonT(60), <3>1 DEF TrustInv, Chained
    <3> QED
      BY ZenonT(60), <1>14, <3>1, <3>2
  <2> QED
    BY ZenonT(60), <2>1, <2>2
<1>16. \A i, j \in 1..(n + 1) : lineage'[i].key = lineage'[j].key => i = j
  <2> SUFFICES ASSUME NEW i \in 1..(n + 1), NEW j \in 1..(n + 1), i < j
               PROVE  lineage'[i].key # lineage'[j].key
    BY <1>1
  <2>1. i \in 1..n
    BY <1>1
  <2>2. CASE j = n + 1
    BY ZenonT(60), <1>2, <1>8, <1>11, <1>14, <2>1, <2>2
  <2>3. CASE j # n + 1
    <3>1. j \in 1..n
      BY <1>1, <2>3
    <3> QED
      BY <1>14, <2>1, <3>1 DEF TrustInv, Chained
  <2> QED
    BY ZenonT(60), <2>2, <2>3
<1>17. Chained'
  <2>1. n + 1 <= MaxPublicKeys
    BY <1>1, <1>2, TrustBounds
  <2> QED
    BY ZenonT(60), <1>11, <1>13, <1>15, <1>16, <2>1 DEF Chained
<1>18. PreparedFresh'
  <2> SUFFICES ASSUME NEW u \in TransitionIds, prepared[u] # NoTransition
               PROVE  /\ prepared[u].generation <= n + 1 /\ prepared[u].generation < MaxPublicKeys
                      /\ prepared[u].generation # n + 1
    BY ZenonT(60), <1>9, <1>11 DEF PreparedFresh
  <2>1. prepared[u] \in Transition /\ prepared[u].generation <= n /\ prepared[u].generation < MaxPublicKeys
    BY ZenonT(60) DEF TrustInv, TrustTypes, PreparedFresh
  <2>2. prepared[u].generation \in Nat
    BY ZenonT(60), <2>1 DEF Transition
  <2> QED
    BY <1>1, <2>1, <2>2
<1>19. BoundToLast'
  <2>1. Len(lineage') > 0
    BY <1>1, <1>11
  <2> QED
    BY ZenonT(60), <1>3, <1>9, <2>1 DEF BoundToLast
<1>20. CoveredRegistered' /\ t \notin covered
  BY ZenonT(60), <1>2, <1>9 DEF TrustInv, CoveredRegistered
<1>21. Last'.transition \notin covered' /\ Len(lineage') > 1 /\ checkpointPending' = TRUE
  BY <1>1, <1>8, <1>9, <1>11, <1>20 DEF Last
<1>22. PendingLast'
  BY ZenonT(60), <1>21 DEF PendingLast
<1>23. FrozenStep
  <2>1. Last.state # "Retired"
    BY ZenonT(60), <1>1 DEF Link
  <2> QED
    BY <1>1, <1>11, <2>1 DEF FrozenStep, Last
<1> QED
  BY <1>12, <1>17, <1>18, <1>19, <1>20, <1>22, <1>23 DEF TrustInv

(* A descriptor is bound to the current entry as it is made, also where it   *)
(* replaces another.                                                         *)
LEMMA CreateKept ==
  ASSUME TrustInv, NEW d \in DescriptorIds, NEW domain \in SignableDomain, NEW a \in Artifacts,
         CreateDescriptor(d, domain, a)
  PROVE  TrustInv' /\ FrozenStep
<1> DEFINE x == DescriptorFor(domain, a)
<1>1. CurrentEntry = Last /\ Last \in Entry /\ Len(lineage) \in Nat \ {0}
  BY ZenonT(60), CurrentIsLast, LastEntry DEF CreateDescriptor, TrustInv
<1>2. /\ x \in Descriptor /\ x.key = Last.key /\ x.transition = Last.transition
  BY ZenonT(60), <1>1 DEF DescriptorFor, Descriptor, Disposition, Entry
<1>3. /\ descriptors' = [descriptors EXCEPT ![d] = x]
      /\ UNCHANGED <<lineage, checkpointPending, prepared, registered,
                     checkpointRegistered, trustHead, covered>>
  BY ZenonT(60) DEF CreateDescriptor
<1> HIDE DEF x
<1>4. TrustTypes'
  BY ZenonT(60), <1>2, <1>3 DEF TrustInv, TrustTypes
<1>5. Chained' /\ PreparedFresh' /\ CoveredRegistered' /\ PendingLast' /\ FrozenStep
  <2>1. Last' = Last /\ FrozenStep
    BY <1>3 DEF TrustInv, TrustTypes, Last, FrozenStep
  <2> QED
    BY ZenonT(60), <1>3, <2>1
    DEF TrustInv, Chained, Link, PreparedFresh, CoveredRegistered, PendingLast
<1>6. BoundToLast'
  <2>1. Last' = Last /\ Len(lineage') > 0
    BY <1>1, <1>3 DEF Last
  <2>2. descriptors'[d] = x /\ \A e \in DescriptorIds : e # d => descriptors'[e] = descriptors[e]
    BY ZenonT(60), <1>3 DEF TrustInv, TrustTypes
  <2> QED
    BY ZenonT(60), <1>2, <2>1, <2>2 DEF TrustInv, BoundToLast
<1> QED
  BY ZenonT(60), <1>4, <1>5, <1>6 DEF TrustInv

(* Resolving a descriptor stamps the last entry alone, and a registered      *)
(* checkpoint covers its transition.                                         *)
LEMMA ResolveKept ==
  ASSUME TrustInv, NEW d \in DescriptorIds, NEW disposition \in Disposition \ {"Outstanding"},
         ResolveDescriptor(d, disposition)
  PROVE  TrustInv' /\ FrozenStep
<1> DEFINE n == Len(lineage)
           x == descriptors[d]
           y == [x EXCEPT !.disposition = disposition]
           e == [Last EXCEPT !.lastUse = trustHead]
<1>1. /\ x \in Descriptor /\ x.disposition = "Outstanding" /\ n > 0 /\ n \in Nat
      /\ x.key = Last.key /\ x.transition = Last.transition
  BY DEF ResolveDescriptor, TrustInv, TrustTypes, BoundToLast, NoDescriptor
<1>2. /\ CurrentEntry = Last /\ Last \in Entry /\ Link(Last, n, n) /\ lineage \in Seq(Entry)
      /\ trustHead \in Nat
  BY ZenonT(60), <1>1, CurrentIsLast, LastEntry DEF TrustInv, TrustTypes, Enrolled
<1>3. y \in Descriptor /\ y.disposition = disposition /\ y.key = x.key
  BY ZenonT(60), <1>1 DEF Descriptor
<1>4. /\ descriptors' = [descriptors EXCEPT ![d] = y]
      /\ UNCHANGED <<prepared, registered, trustHead>>
  BY DEF ResolveDescriptor
<1>5. /\ e \in Entry /\ e.key = Last.key /\ e.state = Last.state /\ e.generation = Last.generation
      /\ e.effective = Last.effective /\ e.retired = Last.retired /\ e.previous = Last.previous
      /\ e.transition = Last.transition
  BY ZenonT(60), <1>2 DEF Entry
<1> HIDE DEF y
<1>6. \A i \in 1..n : lineage[i].key = x.key <=> i = n
  BY <1>1 DEF TrustInv, Chained, Last
<1>7. lineage' = lineage \/ lineage' = [lineage EXCEPT ![n] = e]
  <2>1. CASE disposition # "Registered"
    BY <2>1 DEF ResolveDescriptor
  <2>2. CASE disposition = "Registered"
    <3>1. lineage' = [i \in DOMAIN lineage |->
                        IF i \in {k \in DOMAIN lineage : lineage[k].key = x.key}
                        THEN [lineage[i] EXCEPT !.lastUse = trustHead] ELSE lineage[i]]
      BY <2>2 DEF ResolveDescriptor
    <3>2. DOMAIN lineage = 1..n
      BY <1>2
    <3> QED
      BY ZenonT(60), <1>1, <1>6, <3>1, <3>2 DEF Last
  <2> QED
    BY <2>1, <2>2
<1> HIDE DEF e
<1>8. /\ lineage' \in Seq(Entry) /\ Len(lineage') = n /\ lineage'[n] \in {Last, e}
      /\ \A i \in 1..n : i # n => lineage'[i] = lineage[i]
  BY <1>1, <1>2, <1>5, <1>7 DEF Last
<1>9. TrustTypes'
  BY ZenonT(60), <1>3, <1>4, <1>8 DEF TrustInv, TrustTypes
<1>10. \A i \in 1..n : lineage'[i].key = lineage[i].key /\ lineage'[i].previous = lineage[i].previous
  BY ZenonT(60), <1>1, <1>5, <1>8 DEF Last
<1>11. ASSUME NEW i \in 1..n PROVE Link(lineage[i], i, Len(lineage))'
  <2>1. Link(lineage[i], i, n)
    BY LinkAt DEF TrustInv
  <2>2. CASE i = n /\ lineage'[n] = e
    BY ZenonT(60), <1>2, <1>4, <1>5, <1>8, <2>2 DEF Link
  <2>3. CASE lineage'[i] = lineage[i]
    BY ZenonT(60), <1>4, <1>8, <2>1, <2>3 DEF Link
  <2> QED
    BY ZenonT(60), <1>8, <2>2, <2>3 DEF Last
<1>12. Chained'
  <2>1. \A i \in 1..n : i # 1 => lineage'[i].previous = lineage'[i - 1].key
    <3> SUFFICES ASSUME NEW i \in 1..n, i # 1 PROVE lineage'[i].previous = lineage'[i - 1].key
      OBVIOUS
    <3>1. i - 1 \in 1..n
      BY <1>1
    <3>2. lineage[i].previous = lineage[i - 1].key
      BY ZenonT(60) DEF TrustInv, Chained
    <3> QED
      BY ZenonT(60), <1>10, <3>1, <3>2
  <2>2. \A i, j \in 1..n : lineage'[i].key = lineage'[j].key => i = j
    BY ZenonT(60), <1>10 DEF TrustInv, Chained
  <2>3. n <= MaxPublicKeys
    BY ZenonT(60) DEF TrustInv, Chained
  <2> QED
    BY ZenonT(60), <1>8, <1>11, <2>1, <2>2, <2>3 DEF Chained
<1>13. PreparedFresh'
  BY <1>4, <1>8, <1>10 DEF TrustInv, PreparedFresh
<1>14. Last'.key = Last.key /\ Last'.transition = Last.transition
  BY ZenonT(60), <1>5, <1>8 DEF Last
<1>15. BoundToLast'
  <2>1. descriptors'[d] = y /\ \A z \in DescriptorIds : z # d => descriptors'[z] = descriptors[z]
    BY ZenonT(60), <1>4 DEF TrustInv, TrustTypes
  <2>2. y.disposition # "Outstanding" /\ Len(lineage') > 0
    BY ZenonT(60), <1>1, <1>3, <1>8
  <2> QED
    BY ZenonT(60), <1>14, <2>1, <2>2 DEF TrustInv, BoundToLast
<1>16. CoveredRegistered' /\ PendingLast'
  <2>1. CASE disposition = "Registered" /\ x.domain = "AuditCheckpoint"
    <3>1. covered' = covered \cup {Last.transition} /\ checkpointPending' = FALSE
      BY <1>1, <1>2, <2>1 DEF ResolveDescriptor, EndsWait
    <3>2. Last.transition \in registered \cup {NoTransition}
      BY ZenonT(60), <1>1, <1>2 DEF Link
    <3>3. CoveredRegistered'
      BY ZenonT(60), <1>4, <3>1, <3>2 DEF TrustInv, CoveredRegistered
    <3>4. Last'.transition \in covered'
      BY ZenonT(60), <1>14, <3>1
    <3>5. PendingLast'
      BY ZenonT(60), <3>1, <3>4 DEF PendingLast
    <3> QED
      BY <3>3, <3>5
  <2>2. CASE ~(disposition = "Registered" /\ x.domain = "AuditCheckpoint")
    <3>1. UNCHANGED <<covered, checkpointPending>>
      BY ZenonT(60), <2>2 DEF ResolveDescriptor, EndsWait
    <3>2. CoveredRegistered'
      BY ZenonT(60), <1>4, <3>1 DEF TrustInv, CoveredRegistered
    <3>3. PendingLast'
      BY ZenonT(60), <1>8, <1>14, <3>1 DEF TrustInv, PendingLast
    <3> QED
      BY <3>2, <3>3
  <2> QED
    BY ZenonT(60), <2>1, <2>2
<1>17. FrozenStep
  <2>1. Last.state # "Retired"
    BY ZenonT(60), <1>2 DEF Link
  <2> QED
    BY <1>1, <1>2, <1>8, <2>1 DEF FrozenStep, Last
<1> QED
  BY ZenonT(60), <1>9, <1>12, <1>13, <1>15, <1>16, <1>17 DEF TrustInv

-----------------------------------------------------------------------------
(* The theorems.                                                           *)

(* Every step of the catalog.                                                *)
LEMMA TrustStep == TrustInv /\ [TrustNext]_trustVars => TrustInv' /\ (FrozenStep \/ UNCHANGED trustVars)
<1> SUFFICES ASSUME TrustInv, [TrustNext]_trustVars
             PROVE  TrustInv' /\ (FrozenStep \/ UNCHANGED trustVars)
  OBVIOUS
<1>1. CASE UNCHANGED trustVars
  BY ZenonT(60), <1>1 DEF trustVars, TrustInv, TrustTypes, Chained, Link, PreparedFresh, BoundToLast,
              CoveredRegistered, PendingLast, Last
<1>2. CASE TrustNext
  <2> HIDE DEF TrustInv
  <2> QED
    BY ZenonT(60), <1>2, HeadMovesKept, EnrollKept, PrepareKept, RegisterKept, CreateKept, ResolveKept
    DEF TrustNext
<1> QED
  BY ZenonT(60), <1>1, <1>2

(* RolloverKeepsTrust: whatever the order of rollovers, reservations and     *)
(* registrations, the lineage stays encodable with one current key, nothing  *)
(* outstanding waits for a retired key, and the pending flag is up exactly   *)
(* until a checkpoint covers the newest transition (signing_trust.rs:        *)
(* register_rotation, create_descriptor, resolve_descriptor).                *)
THEOREM TrustRollover == TrustSpec => []RolloverKeepsTrust
  BY TrustInitially, TrustStep, TrustInvImplies, PTL DEF TrustSpec

(* RetiredEntriesFrozen: the entry of a retired key is never changed and no  *)
(* entry is removed, so what it signed can be verified for good.             *)
THEOREM TrustHistory == TrustSpec => RetiredEntriesFrozen
<1>1. FrozenStep \/ UNCHANGED trustVars =>
        [/\ Len(lineage') >= Len(lineage)
         /\ \A i \in DOMAIN lineage :
              lineage[i].state = "Retired" => lineage'[i] = lineage[i]]_trustVars
  BY ZenonT(60) DEF FrozenStep
<1> QED
  BY <1>1, TrustInitially, TrustStep, PTL DEF TrustSpec, RetiredEntriesFrozen

-----------------------------------------------------------------------------
\* The order of the naturals, as a relation.
Less == {p \in Nat \X Nat : p[1] < p[2]}

\* Every set of naturals has a least element; with it, a counterexample may be taken to be
\* the first one.
LEMMA LeastNatural ==
  ASSUME NEW T \in SUBSET Nat, T # {}
  PROVE  \E n \in T : \A m \in T : n <= m
<1>1. IsWellFoundedOn(Less, Nat)
  BY NatLessThanWellFounded DEF OpToRel, Less
<1>2. PICK n \in T : \A m \in T : ~ (<<m, n>> \in Less)
  BY ZenonT(60), <1>1, WFMin
<1>3. ASSUME NEW m \in T PROVE n <= m
  <2>1. m \in Nat /\ n \in Nat /\ <<m, n>> \notin Less
    BY <1>2
  <2>2. m < n => <<m, n>> \in Less
    BY <2>1 DEF Less
  <2> QED BY <2>1, <2>2
<1> QED BY ZenonT(60), <1>3

-----------------------------------------------------------------------------
\* s lists the members of S in increasing order.
Enumerates(s, S) ==
  /\ s \in Seq(Nat)
  /\ \A i, j \in 1 .. Len(s) : i < j => s[i] < s[j]
  /\ \A i \in 1 .. Len(s) : s[i] \in S
  /\ \A x \in S : \E i \in 1 .. Len(s) : s[i] = x

\* A set of numbers up to m that has as many members as an increasing list of them.
Listed(S) == IsFiniteSet(S) /\ \E s : Enumerates(s, S) /\ Len(s) = Cardinality(S)

\* One larger member is appended to the list.
LEMMA ListedAdds ==
  ASSUME NEW S, NEW m \in Nat, \A x \in S : x \in Nat /\ x < m, Listed(S)
  PROVE  Listed(S \cup {m})
<1> PICK s : Enumerates(s, S) /\ Len(s) = Cardinality(S)
  BY DEF Listed
<1> DEFINE t == Append(s, m)
<1>1. s \in Seq(Nat) /\ t \in Seq(Nat) /\ Len(t) = Len(s) + 1 /\ t[Len(s) + 1] = m /\ Len(s) \in Nat
      /\ \A i \in 1 .. Len(s) : t[i] = s[i] /\ s[i] \in S /\ s[i] < m
  BY DEF Enumerates
<1>2. IsFiniteSet(S \cup {m}) /\ Cardinality(S \cup {m}) = Cardinality(S) + 1
  <2>1. m \notin S
    OBVIOUS
  <2> QED BY ZenonT(60), <2>1, FS_AddElement DEF Listed
<1> HIDE DEF t
<1>3. \A i, j \in 1 .. Len(t) : i < j => t[i] < t[j]
  <2> TAKE i, j \in 1 .. Len(t)
  <2> HAVE i < j
  <2>1. i \in 1 .. Len(s)
    BY <1>1
  <2>2. CASE j = Len(s) + 1
    BY ZenonT(60), <1>1, <2>1, <2>2
  <2>3. CASE j \in 1 .. Len(s)
    BY ZenonT(60), <1>1, <2>1, <2>3 DEF Enumerates
  <2> QED BY <1>1, <2>2, <2>3
<1>4. \A i \in 1 .. Len(t) : t[i] \in S \cup {m}
  <2> TAKE i \in 1 .. Len(t)
  <2>1. i = Len(s) + 1 \/ i \in 1 .. Len(s)
    BY <1>1
  <2> QED BY ZenonT(60), <1>1, <2>1
<1>5. \A x \in S \cup {m} : \E i \in 1 .. Len(t) : t[i] = x
  <2> TAKE x \in S \cup {m}
  <2>1. CASE x = m
    BY <1>1, <2>1
  <2>2. CASE x \in S
    <3>1. PICK i \in 1 .. Len(s) : s[i] = x
      BY ZenonT(60), <2>2 DEF Enumerates
    <3>2. i \in 1 .. Len(t) /\ t[i] = x
      BY <1>1, <3>1
    <3> QED BY ZenonT(60), <3>2
  <2> QED BY ZenonT(60), <2>1, <2>2
<1>6. Enumerates(t, S \cup {m})
  BY ZenonT(60), <1>1, <1>3, <1>4, <1>5 DEF Enumerates
<1>7. Len(t) = Cardinality(S \cup {m})
  BY ZenonT(60), <1>1, <1>2
<1> QED BY ZenonT(60), <1>2, <1>6, <1>7 DEF Listed

\* Every set of positions of a chain has its list: the first chain length for which one had not
\* would have it from the shorter one.
LEMMA ListExists ==
  ASSUME NEW n \in Nat, NEW S \in SUBSET (1 .. n) PROVE Listed(S)
<1> DEFINE T == {m \in Nat : \E U \in SUBSET (1 .. m) : ~Listed(U)}
<1>1. SUFFICES ASSUME T # {} PROVE FALSE
  <2>1. ~Listed(S) => n \in T
    OBVIOUS
  <2> QED BY <2>1
<1>2. PICK m \in T : \A k \in T : m <= k
  <2>1. T \in SUBSET Nat
    OBVIOUS
  <2> HIDE DEF T
  <2> QED BY ZenonT(60), <1>1, <2>1, LeastNatural
<1>3. PICK U \in SUBSET (1 .. m) : ~Listed(U)
  BY <1>2
<1>4. m \in Nat
  BY <1>2
<1>5. CASE m = 0
  <2>1. U = {}
    BY <1>5
  <2>2. Enumerates(<<>>, {}) /\ Len(<<>>) = 0
    BY DEF Enumerates
  <2>3. Listed({})
    BY ZenonT(60), <2>2, FS_EmptySet DEF Listed
  <2> QED BY <1>3, <2>1, <2>3
<1>6. CASE m # 0
  <2>1. m - 1 \in Nat /\ ~(m <= m - 1)
    BY <1>4, <1>6
  <2>2. m - 1 \notin T
    <3> HIDE DEF T
    <3> QED BY ZenonT(60), <1>2, <2>1
  <2>3. \A V \in SUBSET (1 .. m - 1) : Listed(V)
    BY ZenonT(60), <2>1, <2>2
  <2> DEFINE V == U \ {m}
  <2>4. V \in SUBSET (1 .. m - 1) /\ (m \in U => U = V \cup {m}) /\ (m \notin U => U = V)
    BY <1>4
  <2>5. \A x \in V : x \in Nat /\ x < m
    BY <1>4, <2>4
  <2>6. Listed(V)
    BY ZenonT(60), <2>3, <2>4
  <2> HIDE DEF V, T
  <2>7. Listed(V \cup {m})
    BY ZenonT(60), <1>4, <2>5, <2>6, ListedAdds
  <2> QED BY ZenonT(60), <1>3, <2>4, <2>6, <2>7
<1> QED BY <1>5, <1>6

\* InOrder lists its argument.
LEMMA InOrderLists ==
  ASSUME NEW n \in Nat, NEW S \in SUBSET (1 .. n) PROVE Enumerates(InOrder(S), S)
<1>1. PICK s : Enumerates(s, S) /\ Len(s) = Cardinality(S)
  BY ZenonT(60), ListExists DEF Listed
<1>2. Cardinality(S) \in Nat
  BY <1>1 DEF Enumerates
<1> DEFINE P(q) == /\ \A i, j \in 1 .. Cardinality(S) : i < j => q[i] < q[j]
                   /\ \A x \in S : \E i \in 1 .. Cardinality(S) : q[i] = x
<1>3. s \in [1 .. Cardinality(S) -> S] /\ P(s)
  BY <1>1 DEF Enumerates
<1>4. InOrder(S) \in [1 .. Cardinality(S) -> S] /\ P(InOrder(S))
  BY ZenonT(60), <1>3 DEF InOrder
<1>5. InOrder(S) \in Seq(Nat) /\ Len(InOrder(S)) = Cardinality(S)
  <2> PICK q : q = InOrder(S)
    BY ZenonT(60)
  <2>1. \A x \in S : x \in Nat
    OBVIOUS
  <2>2. q \in [1 .. Cardinality(S) -> S]
    BY ZenonT(60), <1>4
  <2> HIDE DEF P
  <2>3. q \in [1 .. Cardinality(S) -> Nat]
    BY ZenonT(60), <2>1, <2>2
  <2>4. q \in Seq(Nat) /\ Len(q) = Cardinality(S)
    BY <1>2, <2>3
  <2> QED BY ZenonT(60), <2>4
<1> QED BY ZenonT(60), <1>4, <1>5 DEF Enumerates


\* Functions that agree everywhere are one.
LEMMA SameFunction ==
  ASSUME NEW D, NEW R, NEW f \in [D -> R], NEW g \in [D -> R], \A x \in D : f[x] = g[x]
  PROVE  f = g
OBVIOUS

\* A list determines itself: at the first place where two of them differ, one skipped a member.
LEMMA ListUnique ==
  ASSUME NEW S, NEW s, NEW t, Enumerates(s, S), Enumerates(t, S) PROVE s = t
<1>0. s \in Seq(Nat) /\ t \in Seq(Nat) /\ Len(s) \in Nat /\ Len(t) \in Nat
  BY DEF Enumerates
<1>1. ASSUME NEW u, NEW v, Enumerates(u, S), Enumerates(v, S), NEW k \in 1 .. Len(u),
             \A j \in 1 .. k - 1 : j \in 1 .. Len(v) /\ u[j] = v[j]
      PROVE  k \in 1 .. Len(v) /\ v[k] <= u[k]
  <2>0. u \in Seq(Nat) /\ v \in Seq(Nat) /\ Len(u) \in Nat /\ Len(v) \in Nat /\ k \in Nat
    BY <1>1 DEF Enumerates
  <2>1. PICK i \in 1 .. Len(v) : v[i] = u[k]
    BY ZenonT(60), <1>1 DEF Enumerates
  <2>2. ~(i \in 1 .. k - 1)
    <3>1. SUFFICES ASSUME i \in 1 .. k - 1 PROVE FALSE
      OBVIOUS
    <3>2. u[i] = u[k] /\ i \in 1 .. Len(u) /\ i < k
      BY <1>1, <2>0, <2>1, <3>1
    <3>3. u[i] < u[k]
      BY ZenonT(60), <1>1, <3>2 DEF Enumerates
    <3>4. u[k] \in Nat
      BY <2>0
    <3> QED BY <3>2, <3>3, <3>4
  <2>3. k \in 1 .. Len(v) /\ (k = i \/ k < i)
    BY <2>0, <2>2
  <2>4. k < i => v[k] < v[i]
    BY ZenonT(60), <1>1, <2>1, <2>3 DEF Enumerates
  <2>5. v[k] \in Nat /\ u[k] \in Nat
    <3>1. v \in [1 .. Len(v) -> Nat] /\ u \in [1 .. Len(u) -> Nat]
      BY <2>0
    <3> QED BY ZenonT(60), <1>1, <2>3, <3>1
  <2> QED BY <2>1, <2>3, <2>4, <2>5
<1> DEFINE T == {k \in Nat : k \in 1 .. Len(s) \cup 1 .. Len(t)
                             /\ ~(k \in 1 .. Len(s) /\ k \in 1 .. Len(t) /\ s[k] = t[k])}
<1>2. T = {}
  <2> SUFFICES ASSUME T # {} PROVE FALSE
    OBVIOUS
  <2>1. PICK k \in T : \A j \in T : k <= j
    <3>1. T \in SUBSET Nat
      OBVIOUS
    <3> HIDE DEF T
    <3> QED BY ZenonT(60), <3>1, LeastNatural
  <2>2. k \in Nat /\ \A j \in 1 .. k - 1 : j \in Nat /\ ~(k <= j)
    OBVIOUS
  <2>3. \A j \in 1 .. k - 1 : j \notin T
    <3> HIDE DEF T
    <3> QED BY ZenonT(60), <2>1, <2>2
  <2>4. k \in 1 .. Len(s) \/ k \in 1 .. Len(t)
    OBVIOUS
  <2>5. \A j \in 1 .. k - 1 : j \in 1 .. Len(s) \cup 1 .. Len(t)
    BY <1>0, <2>2, <2>4
  <2>6. \A j \in 1 .. k - 1 : j \in 1 .. Len(s) /\ j \in 1 .. Len(t) /\ s[j] = t[j]
    BY ZenonT(60), <2>2, <2>3, <2>5
  <2> HIDE DEF T
  <2>7. k \in 1 .. Len(s) => k \in 1 .. Len(t) /\ t[k] <= s[k]
    BY ZenonT(60), <1>1, <2>6
  <2>8. k \in 1 .. Len(t) => k \in 1 .. Len(s) /\ s[k] <= t[k]
    BY ZenonT(60), <1>1, <2>6
  <2>9. k \in 1 .. Len(s) /\ k \in 1 .. Len(t) /\ s[k] = t[k]
    <3>1. k \in 1 .. Len(s) /\ k \in 1 .. Len(t) /\ t[k] <= s[k] /\ s[k] <= t[k]
      BY ZenonT(60), <2>4, <2>7, <2>8
    <3>2. s[k] \in Nat /\ t[k] \in Nat
      BY <1>0, <3>1
    <3> QED BY <3>1, <3>2
  <2> QED BY ZenonT(60), <2>9 DEF T
<1>3. \A k \in 1 .. Len(s) \cup 1 .. Len(t) : k \in 1 .. Len(s) /\ k \in 1 .. Len(t) /\ s[k] = t[k]
  <2>1. \A k \in 1 .. Len(s) \cup 1 .. Len(t) : k \in Nat
    OBVIOUS
  <2> QED BY ZenonT(60), <1>2, <2>1
<1>4. Len(s) = Len(t)
  <2>1. Len(s) # 0 => Len(s) \in 1 .. Len(s)
    BY <1>0
  <2>2. Len(t) # 0 => Len(t) \in 1 .. Len(t)
    BY <1>0
  <2>3. Len(s) # 0 => Len(s) \in 1 .. Len(t)
    BY ZenonT(60), <1>3, <2>1
  <2>4. Len(t) # 0 => Len(t) \in 1 .. Len(s)
    BY ZenonT(60), <1>3, <2>2
  <2> QED BY <1>0, <2>3, <2>4
<1> HIDE DEF T
<1>5. s \in [1 .. Len(s) -> Nat] /\ t \in [1 .. Len(t) -> Nat]
  BY <1>0
<1>6. \A k \in 1 .. Len(s) : s[k] = t[k]
  BY ZenonT(60), <1>3
<1>7. t \in [1 .. Len(s) -> Nat]
  BY ZenonT(60), <1>4, <1>5
<1> PICK D : D = 1 .. Len(s)
  BY ZenonT(60)
<1>8. s \in [D -> Nat] /\ t \in [D -> Nat] /\ \A k \in D : s[k] = t[k]
  BY ZenonT(60), <1>5, <1>6, <1>7
<1> QED BY <1>8, SameFunction

\* Two lists, the second of larger numbers, make one.
LEMMA ListsJoin ==
  ASSUME NEW S, NEW U, NEW s, NEW t, Enumerates(s, S), Enumerates(t, U),
         \A x \in S, y \in U : x < y
  PROVE  Enumerates(s \o t, S \cup U)
<1> DEFINE m == Len(s)
           n == Len(t)
           c == s \o t
<1>1. s \in Seq(Nat) /\ t \in Seq(Nat) /\ m \in Nat /\ n \in Nat
  BY DEF Enumerates
<1>2. /\ c \in Seq(Nat) /\ Len(c) = m + n
      /\ \A i \in 1 .. m : c[i] = s[i]
      /\ \A i \in 1 .. n : c[m + i] = t[i]
  BY <1>1
<1>3. \A i \in 1 .. Len(c) : i \in 1 .. m \/ (i - m \in 1 .. n /\ i = m + (i - m))
  BY <1>1, <1>2
<1> HIDE DEF m, n, c
<1>4. \A i \in 1 .. m : c[i] \in S
  BY ZenonT(60), <1>2 DEF Enumerates, m
<1>5. \A i \in 1 .. n : c[m + i] \in U
  BY ZenonT(60), <1>2 DEF Enumerates, n
<1>6. \A i \in 1 .. Len(c) : c[i] \in S \cup U
  BY ZenonT(60), <1>3, <1>4, <1>5
<1>7. \A x \in S \cup U : \E i \in 1 .. Len(c) : c[i] = x
  <2> TAKE x \in S \cup U
  <2>1. CASE x \in S
    <3>1. PICK i \in 1 .. m : s[i] = x
      BY ZenonT(60), <2>1 DEF Enumerates, m
    <3>2. i \in 1 .. Len(c) /\ c[i] = x
      BY <1>1, <1>2, <3>1
    <3> QED BY ZenonT(60), <3>2
  <2>2. CASE x \in U
    <3>1. PICK i \in 1 .. n : t[i] = x
      BY ZenonT(60), <2>2 DEF Enumerates, n
    <3>2. m + i \in 1 .. Len(c) /\ c[m + i] = x
      BY <1>1, <1>2, <3>1
    <3> QED BY ZenonT(60), <3>2
  <2> QED BY ZenonT(60), <2>1, <2>2
<1>8. \A i, j \in 1 .. Len(c) : i < j => c[i] < c[j]
  <2> TAKE i, j \in 1 .. Len(c)
  <2> HAVE i < j
  <2>1. CASE i \in 1 .. m /\ j \in 1 .. m
    <3>1. s[i] < s[j]
      BY ZenonT(60), <2>1 DEF Enumerates, m
    <3> QED BY ZenonT(60), <1>2, <2>1, <3>1
  <2>2. CASE i \in 1 .. m /\ j - m \in 1 .. n /\ j = m + (j - m)
    <3>1. c[i] \in S /\ c[m + (j - m)] \in U
      BY ZenonT(60), <1>4, <1>5, <2>2
    <3> QED BY ZenonT(60), <2>2, <3>1
  <2>3. CASE i - m \in 1 .. n /\ i = m + (i - m) /\ j - m \in 1 .. n /\ j = m + (j - m)
    <3>1. i - m < j - m
      BY <1>1
    <3>2. t[i - m] < t[j - m]
      BY ZenonT(60), <2>3, <3>1 DEF Enumerates, n
    <3>3. c[m + (i - m)] = t[i - m] /\ c[m + (j - m)] = t[j - m]
      BY ZenonT(60), <1>2, <2>3
    <3> QED BY ZenonT(60), <2>3, <3>2, <3>3
  <2>4. i - m \in 1 .. n => ~(j \in 1 .. m)
    BY <1>1
  <2> QED BY ZenonT(60), <1>3, <2>1, <2>2, <2>3, <2>4
<1> QED BY ZenonT(60), <1>2, <1>6, <1>7, <1>8 DEF Enumerates, c

\* The first k members of a list are the smallest ones.
LEMMA ListPrefix ==
  ASSUME NEW S, NEW s, Enumerates(s, S), NEW k \in 1 .. Len(s)
  PROVE  Enumerates(SubSeq(s, 1, k), {x \in S : x <= s[k]})
<1> DEFINE p == SubSeq(s, 1, k)
<1>1. s \in Seq(Nat) /\ Len(s) \in Nat /\ k \in Nat
  BY DEF Enumerates
<1>2. p \in Seq(Nat) /\ Len(p) = k /\ \A i \in 1 .. k : p[i] = s[i] /\ s[i] \in Nat /\ i \in 1 .. Len(s)
  BY <1>1
<1> HIDE DEF p
<1>3. \A i, j \in 1 .. k : i < j => s[i] < s[j]
  BY ZenonT(60), <1>2 DEF Enumerates
<1>4. \A i \in 1 .. k : s[i] \in S /\ s[i] <= s[k]
  <2> TAKE i \in 1 .. k
  <2>1. s[i] \in S
    BY ZenonT(60), <1>2 DEF Enumerates
  <2>2. k \in 1 .. k /\ (i < k \/ i = k)
    BY <1>1
  <2>3. i < k => s[i] < s[k]
    BY ZenonT(60), <1>3, <2>2
  <2> QED BY <1>2, <2>1, <2>2, <2>3
<1>5. \A x \in S : x <= s[k] => \E i \in 1 .. k : s[i] = x
  <2> TAKE x \in S
  <2> HAVE x <= s[k]
  <2>1. PICK i \in 1 .. Len(s) : s[i] = x
    BY ZenonT(60) DEF Enumerates
  <2>2. k < i => s[k] < s[i]
    BY ZenonT(60) DEF Enumerates
  <2>3. s[i] \in Nat /\ s[k] \in Nat
    BY <1>1
  <2>4. i \in 1 .. k
    BY <1>1, <2>1, <2>2, <2>3
  <2> QED BY ZenonT(60), <2>1, <2>4
<1> QED BY ZenonT(60), <1>2, <1>3, <1>4, <1>5 DEF Enumerates, p


-----------------------------------------------------------------------------
\* What a walk has shown of the snapshot it is bound to.
Shows(w, entries) ==
  /\ w.after \in Nat
  /\ Enumerates(w.views, {i \in Selected(w.filter, entries, 0) : i <= w.after})
  /\ w.state = "done" => Enumerates(w.views, Selected(w.filter, entries, 0))

\* One page more: what was shown is still the selection up to the cursor, and all of it when
\* no page follows.
LEMMA PageShows ==
  ASSUME NEW f, NEW entries \in Seq(Operations), NEW after \in Nat, NEW views,
         Enumerates(views, {i \in Selected(f, entries, 0) : i <= after})
  PROVE  /\ Shows(Released(f, entries, after, views), entries)
         /\ Released(f, entries, after, views).cutoff = Len(entries)
<1> SUFFICES ASSUME NEW w, NEW whole, w = Released(f, entries, after, views),
                    whole = Selected(f, entries, 0)
             PROVE  Shows(w, entries) /\ w.cutoff = Len(entries)
  BY ZenonT(60)
<1> Enumerates(views, {i \in whole : i <= after})
  BY ZenonT(60)
<1> DEFINE rest == Selected(f, entries, after)
           found == InOrder(rest)
           k == IF Len(found) < PageLimit THEN Len(found) ELSE PageLimit
           shown == SubSeq(found, 1, k)
           page == PageOf(f, entries, after)
<1>1. /\ whole \in SUBSET (1 .. Len(entries)) /\ rest = {i \in whole : i > after}
      /\ Len(entries) \in Nat /\ \A i \in whole : i \in Nat
  BY DEF Selected
<1>2. Enumerates(found, rest)
  <2>1. rest \in SUBSET (1 .. Len(entries))
    BY ZenonT(60), <1>1
  <2> HIDE DEF rest
  <2>2. Len(entries) \in Nat
    BY ZenonT(60), <1>1
  <2> QED BY ZenonT(60), <2>1, <2>2, InOrderLists
<1>3. page.views = shown /\ page.more = (Len(found) > PageLimit)
  BY ZenonT(60) DEF PageOf
<1>4. /\ w.state = (IF page.more THEN "paging" ELSE "done") /\ w.filter = f
      /\ w.cutoff = Len(entries) /\ w.after = NextAfter(page, after) /\ w.views = views \o page.views
  <2> HIDE DEF page
  <2> QED BY ZenonT(60) DEF Released, page
<1>9. w.state = "done" => ~(Len(found) > PageLimit)
  <2> HIDE DEF page, found
  <2> QED BY ZenonT(60), <1>3, <1>4
<1> HIDE DEF rest, found, page
<1>5. found \in Seq(Nat) /\ Len(found) \in Nat
  BY <1>2 DEF Enumerates
<1>6. k \in 0 .. Len(found) /\ shown \in Seq(Nat) /\ Len(shown) = k
  BY <1>5, ExportBounds
<1>7. ASSUME k = 0
     PROVE  /\ w.state \in {"paging", "done"} /\ w.filter = f /\ w.cutoff = Len(entries)
            /\ w.after \in Nat /\ Enumerates(w.views, {i \in whole : i <= w.after})
            /\ w.state = "done" => Enumerates(w.views, whole)
  <2>1. shown = <<>> /\ w.after = after /\ w.views = views
    <3>1. shown = <<>>
      BY <1>6, <1>7
    <3>2. views \in Seq(Nat)
      BY ZenonT(60) DEF Enumerates
    <3>3. views \o <<>> = views
      BY <3>2
    <3> HIDE DEF shown
    <3> QED BY ZenonT(60), <1>3, <1>4, <3>1, <3>3 DEF NextAfter
  <2>2. w.state = "done" => Len(found) = 0
    BY <1>5, <1>7, <1>9, ExportBounds
  <2>3. Len(found) = 0 => \A x \in rest : FALSE
    BY <1>2, <1>5 DEF Enumerates
  <2>4. Len(found) = 0 => {i \in whole : i <= after} = whole
    BY <1>1, <2>3
  <2> HIDE DEF shown, k
  <2>5. w.state \in {"paging", "done"}
    BY ZenonT(60), <1>4
  <2> QED BY ZenonT(60), <1>4, <2>1, <2>2, <2>4, <2>5
<1>8. ASSUME k # 0
     PROVE  /\ w.state \in {"paging", "done"} /\ w.filter = f /\ w.cutoff = Len(entries)
            /\ w.after \in Nat /\ Enumerates(w.views, {i \in whole : i <= w.after})
            /\ w.state = "done" => Enumerates(w.views, whole)
  <2>1. k \in 1 .. Len(found) /\ k \in 1 .. k
    BY <1>6, <1>8
  <2>2. found[k] \in rest /\ found[k] \in Nat /\ found[k] > after
    <3>1. found[k] \in rest
      BY ZenonT(60), <1>2, <2>1 DEF Enumerates
    <3> QED BY ZenonT(60), <1>1, <3>1
  <2>3. Enumerates(shown, {x \in rest : x <= found[k]})
    <3> HIDE DEF k
    <3> QED BY ZenonT(60), <1>2, <2>1, ListPrefix
  <2>4. w.after = found[k] /\ w.views = views \o shown
    <3>1. shown # <<>> /\ shown[Len(shown)] = found[k]
      <4>1. shown[k] = found[k]
        <5> HIDE DEF k
        <5> QED BY <1>5, <2>1
      <4> HIDE DEF shown, k
      <4>2. shown # <<>>
        BY <1>6, <1>8
      <4> QED BY ZenonT(60), <1>6, <4>1, <4>2
    <3> HIDE DEF shown, k
    <3> QED BY ZenonT(60), <1>3, <1>4, <3>1 DEF NextAfter
  <2> HIDE DEF shown, k
  <2> DEFINE lo == {i \in whole : i <= after}
             hi == {x \in rest : x <= found[k]}
  <2>5. \A x \in lo, y \in hi : x < y
    BY <1>1
  <2>6. lo \cup hi = {i \in whole : i <= found[k]}
    BY <1>1, <2>2
  <2>7. lo \cup rest = whole
    BY <1>1
  <2>8. \A x \in lo, y \in rest : x < y
    BY <1>1
  <2>9. Enumerates(views, lo) /\ Enumerates(shown, hi)
    BY ZenonT(60), <2>3
  <2> HIDE DEF lo, hi
  <2>10. Enumerates(views \o shown, lo \cup hi)
    BY ZenonT(60), <2>5, <2>9, ListsJoin
  <2>11. w.state = "done" => shown = found
    <3>1. w.state = "done" => k = Len(found)
      BY <1>5, <1>9, ExportBounds DEF k
    <3>2. SubSeq(found, 1, Len(found)) = found
      BY <1>5
    <3> QED BY ZenonT(60), <3>1, <3>2 DEF shown
  <2>12. Enumerates(views \o found, lo \cup rest)
    BY ZenonT(60), <1>2, <2>8, <2>9, ListsJoin
  <2>13. w.state \in {"paging", "done"}
    BY <1>4
  <2> QED BY ZenonT(60), <1>4, <2>2, <2>4, <2>6, <2>7, <2>10, <2>11, <2>12, <2>13
<1>12. /\ w.state \in {"paging", "done"} /\ w.filter = f /\ w.cutoff = Len(entries)
       /\ w.after \in Nat /\ Enumerates(w.views, {i \in whole : i <= w.after})
       /\ w.state = "done" => Enumerates(w.views, whole)
  BY ZenonT(60), <1>7, <1>8
<1> HIDE DEF rest, found, k, shown, page
<1> QED BY ZenonT(60), <1>12 DEF Shows


-----------------------------------------------------------------------------
WalkSound ==
  walk.state # "idle" =>
    /\ walk.cutoff \in 0 .. Len(chain)
    /\ Shows(walk, SubSeq(chain, 1, walk.cutoff))

\* A bundle's members are positions, at least one, and consecutive once a recipient accepted them.
MembersSound(e) ==
  e.publication # "none" =>
    /\ e.members \in Seq(Nat) /\ e.members # <<>>
    /\ e.accepted => VerifyPayloadBindings(e.members)

BundlesSound ==
  /\ DOMAIN exports = Bundles
  /\ \A b \in Bundles : MembersSound(exports[b])

\* The inductive invariant of the audit reader.
ExportSound ==
  /\ chain \in Seq(Operations) /\ exportSigner \in Nat
  /\ WalkSound /\ BundlesSound

\* A snapshot the chain has outgrown is still the same snapshot.
LEMMA SnapshotKept ==
  ASSUME NEW s \in Seq(Operations), NEW e \in Operations, NEW n \in 0 .. Len(s)
  PROVE  /\ Append(s, e) \in Seq(Operations) /\ n \in 0 .. Len(Append(s, e))
         /\ SubSeq(Append(s, e), 1, n) = SubSeq(s, 1, n)
<1>1. Append(s, e) \in Seq(Operations) /\ Len(Append(s, e)) = Len(s) + 1 /\ Len(s) \in Nat
  OBVIOUS
<1>2. n \in 0 .. Len(Append(s, e))
  BY <1>1
<1>3. \A i \in 1 .. n : Append(s, e)[i] = s[i]
  OBVIOUS
<1> DEFINE t == Append(s, e)
<1> HIDE DEF t
<1>4. SubSeq(t, 1, n) = SubSeq(s, 1, n)
  <2>1. t \in Seq(Operations) /\ n \in 0 .. Len(t) /\ \A i \in 1 .. n : t[i] = s[i]
    BY ZenonT(60), <1>1, <1>2, <1>3 DEF t
  <2>2. SubSeq(t, 1, n) = [i \in 1 .. n |-> t[i]] /\ SubSeq(s, 1, n) = [i \in 1 .. n |-> s[i]]
    BY <2>1
  <2>3. [i \in 1 .. n |-> t[i]] = [i \in 1 .. n |-> s[i]]
    BY ZenonT(60), <2>1
  <2> QED BY ZenonT(60), <2>2, <2>3
<1> QED BY ZenonT(60), <1>1, <1>2, <1>4 DEF t

\* The first page of a walk, over the whole chain.
LEMMA FirstPage ==
  ASSUME ExportSound, NEW f, QueryFirst(f)
  PROVE  WalkSound'
<1>1. walk' = Released(f, chain, 0, <<>>) /\ chain' = chain /\ chain \in Seq(Operations)
  BY ZenonT(60) DEF QueryFirst, ExportSound
<1>2. Enumerates(<<>>, {i \in Selected(f, chain, 0) : i <= 0}) /\ 0 \in Nat
  <2> DEFINE whole == Selected(f, chain, 0)
  <2>1. \A i \in whole : i \in Nat /\ i > 0
    BY <1>1 DEF Selected
  <2> HIDE DEF whole
  <2>2. {i \in whole : i <= 0} = {}
    BY <2>1
  <2>3. Enumerates(<<>>, {})
    BY DEF Enumerates
  <2>4. Enumerates(<<>>, {i \in whole : i <= 0})
    BY ZenonT(60), <2>2, <2>3
  <2> QED BY ZenonT(60), <2>4 DEF whole
<1>3. Shows(walk', chain) /\ walk'.cutoff = Len(chain)
  BY ZenonT(60), <1>1, <1>2, PageShows
<1>4. SubSeq(chain, 1, Len(chain)) = chain /\ Len(chain) \in 0 .. Len(chain)
  BY <1>1
<1> QED BY ZenonT(60), <1>1, <1>3, <1>4 DEF WalkSound

\* A further page: the cursor is only accepted for the snapshot it was made for.
LEMMA FurtherPage ==
  ASSUME ExportSound, NEW n \in {walk.cutoff, Len(chain)}, QueryNext(n)
  PROVE  WalkSound'
<1> DEFINE entries == SubSeq(chain, 1, n)
<1>1. /\ walk.state = "paging" /\ walk.cutoff = Len(entries) /\ chain' = chain
      /\ walk' = Released(walk.filter, entries, walk.after, walk.views)
  BY ZenonT(60) DEF QueryNext, CursorAccepted
<1>2. /\ chain \in Seq(Operations) /\ walk.cutoff \in 0 .. Len(chain)
      /\ Shows(walk, SubSeq(chain, 1, walk.cutoff))
  <2>1. walk.state # "idle"
    BY ZenonT(60), <1>1
  <2> QED BY ZenonT(60), <2>1 DEF ExportSound, WalkSound
<1>3. n = walk.cutoff /\ entries \in Seq(Operations)
  <2>1. n \in 0 .. Len(chain)
    BY <1>2
  <2>2. Len(entries) = n /\ entries \in Seq(Operations)
    BY <1>2, <2>1
  <2> QED BY ZenonT(60), <1>1, <2>2
<1>4. entries = SubSeq(chain, 1, walk.cutoff)
  BY ZenonT(60), <1>3
<1> HIDE DEF entries
<1>5. /\ walk.after \in Nat
      /\ Enumerates(walk.views, {i \in Selected(walk.filter, entries, 0) : i <= walk.after})
  BY ZenonT(60), <1>2, <1>4 DEF Shows
<1>6. Shows(walk', entries) /\ walk'.cutoff = walk.cutoff
  BY ZenonT(60), <1>1, <1>3, <1>5, PageShows
<1> QED BY ZenonT(60), <1>1, <1>2, <1>4, <1>6 DEF WalkSound

\* Consecutive neighbours leave no hole between the first and the last.
LEMMA NoHole ==
  ASSUME NEW s \in Seq(Nat), s # <<>>, VerifyPayloadBindings(s)
  PROVE  \A i \in s[1] .. s[Len(s)] : \E k \in 1 .. Len(s) : s[k] = i
<1> DEFINE T == {k \in Nat : k < Len(s) /\ s[k + 1] # s[1] + k}
<1>1. Len(s) \in Nat /\ 1 <= Len(s) /\ \A k \in 1 .. Len(s) : s[k] \in Nat
  OBVIOUS
<1>2. T = {}
  <2>1. SUFFICES ASSUME T # {} PROVE FALSE
    OBVIOUS
  <2>2. PICK k \in T : \A m \in T : k <= m
    <3>1. T \in SUBSET Nat
      OBVIOUS
    <3> HIDE DEF T
    <3> QED BY ZenonT(60), <2>1, <3>1, LeastNatural
  <2>3. k \in Nat /\ k < Len(s) /\ s[k + 1] # s[1] + k
    BY ZenonT(60), <2>2
  <2>4. k # 0
    BY <1>1, <2>3
  <2>5. k - 1 \in Nat /\ k - 1 < Len(s) /\ k \in 1 .. Len(s) - 1 /\ k - 1 \notin T
    <3>1. k - 1 \in Nat /\ k - 1 < Len(s) /\ k \in 1 .. Len(s) - 1 /\ ~(k <= k - 1)
      BY <1>1, <2>3, <2>4
    <3> HIDE DEF T
    <3> QED BY ZenonT(60), <2>2, <3>1
  <2>6. s[k + 1] = s[k] + 1
    BY ZenonT(60), <2>5 DEF VerifyPayloadBindings
  <2>7. s[k - 1 + 1] = s[1] + (k - 1)
    BY ZenonT(60), <2>5
  <2>8. s[k] = s[1] + (k - 1)
    BY <2>3, <2>7
  <2> HIDE DEF T
  <2> QED BY <1>1, <2>3, <2>6, <2>8
<1>3. \A k \in Nat : k < Len(s) => s[k + 1] = s[1] + k
  BY ZenonT(60), <1>2
<1> HIDE DEF T
<1>4. TAKE i \in s[1] .. s[Len(s)]
<1>5. s[Len(s)] = s[1] + (Len(s) - 1) /\ s[1] \in Nat
  <2>1. Len(s) - 1 \in Nat /\ Len(s) - 1 < Len(s) /\ Len(s) - 1 + 1 = Len(s)
    BY <1>1
  <2>2. s[Len(s) - 1 + 1] = s[1] + (Len(s) - 1)
    BY ZenonT(60), <1>3, <2>1
  <2> QED BY <1>1, <2>1, <2>2
<1>6. i - s[1] \in Nat /\ i - s[1] < Len(s)
  BY <1>1, <1>4, <1>5
<1>7. s[i - s[1] + 1] = s[1] + (i - s[1])
  BY ZenonT(60), <1>3, <1>6
<1>8. s[1] + (i - s[1]) = i
  BY <1>4, <1>5
<1>9. i - s[1] + 1 \in 1 .. Len(s)
  BY <1>1, <1>6
<1> QED BY ZenonT(60), <1>7, <1>8, <1>9


-----------------------------------------------------------------------------
\* Changing one bundle to a sound one keeps them all sound.
LEMMA BundleChanged ==
  ASSUME BundlesSound, NEW b \in Bundles, NEW e, exports' = [exports EXCEPT ![b] = e],
         MembersSound(e)
  PROVE  BundlesSound'
<1>1. DOMAIN exports = Bundles /\ \A c \in Bundles : MembersSound(exports[c])
  BY ZenonT(60) DEF BundlesSound
<1>2. DOMAIN exports' = Bundles /\ \A c \in Bundles : exports'[c] = IF c = b THEN e ELSE exports[c]
  BY ZenonT(60), <1>1
<1>3. \A c \in Bundles : MembersSound(exports'[c])
  BY ZenonT(60), <1>1, <1>2
<1> QED BY ZenonT(60), <1>2, <1>3 DEF BundlesSound, MembersSound, VerifyPayloadBindings

\* The members a bundle is created with are positions of the chain.
LEMMA CreatedMembers ==
  ASSUME chain \in Seq(Operations), NEW f, NEW low, NEW high
  PROVE  ExportMembers(f, low, high) \in Seq(Nat)
<1> DEFINE S == {i \in Selected(f, chain, 0) : i >= low /\ i <= high}
<1>1. S \in SUBSET (1 .. Len(chain)) /\ Len(chain) \in Nat
  <2>1. Selected(f, chain, 0) \in SUBSET (1 .. Len(chain))
    BY DEF Selected
  <2> QED BY <2>1
<1>2. ExportMembers(f, low, high) = InOrder(S)
  BY ZenonT(60) DEF ExportMembers
<1> HIDE DEF S
<1>3. Enumerates(InOrder(S), S)
  BY ZenonT(60), <1>1, InOrderLists
<1> QED BY ZenonT(60), <1>2, <1>3 DEF Enumerates

\* Every operation on bundles keeps them sound.
LEMMA BundlesStep ==
  ASSUME ExportSound, NEW b \in Bundles,
         \/ \E f \in Filters, low \in 1 .. MaxChain, high \in 1 .. MaxChain : CreateExport(b, f, low, high)
         \/ ReadExport(b) \/ ReserveExport(b) \/ ResumeExport(b) \/ AbandonExport(b)
         \/ RegisterExportSignature(b)
  PROVE  BundlesSound'
<1>1. BundlesSound /\ MembersSound(exports[b]) /\ chain \in Seq(Operations) /\ b \in DOMAIN exports
  BY ZenonT(60) DEF ExportSound, BundlesSound
<1>2. ASSUME NEW f, NEW low, NEW high, CreateExport(b, f, low, high)  PROVE BundlesSound'
  <2> DEFINE ms == ExportMembers(f, low, high)
             e == [publication |-> "Created", members |-> ms, generation |-> exportSigner,
                   signature |-> FALSE, accepted |-> FALSE]
  <2>1. exports' = [exports EXCEPT ![b] = e] /\ ms # <<>>
    BY ZenonT(60), <1>2 DEF CreateExport
  <2>2. ms \in Seq(Nat)
    BY ZenonT(60), <1>1, CreatedMembers
  <2> HIDE DEF ms
  <2>3. MembersSound(e)
    BY ZenonT(60), <2>1, <2>2 DEF MembersSound
  <2> HIDE DEF e
  <2> QED BY ZenonT(60), <1>1, <2>1, <2>3, BundleChanged
<1>3. CASE ReadExport(b)
  <2> DEFINE e == [exports[b] EXCEPT !.accepted = TRUE]
  <2>1. /\ exports' = [exports EXCEPT ![b] = e] /\ exports[b].publication # "none"
        /\ VerifyPayloadBindings(exports[b].members)
    BY ZenonT(60), <1>3 DEF ReadExport
  <2>2. e.members = exports[b].members
    BY DEF MembersSound
  <2>3. MembersSound(e)
    <3> HIDE DEF e
    <3> QED BY ZenonT(60), <1>1, <2>1, <2>2 DEF MembersSound
  <2> HIDE DEF e
  <2> QED BY ZenonT(60), <1>1, <2>1, <2>3, BundleChanged
<1>4. ASSUME NEW from, NEW to, "none" \notin from, ExportStep(b, from, to)  PROVE BundlesSound'
  <2> DEFINE e == [exports[b] EXCEPT !.publication = to]
  <2>1. exports' = [exports EXCEPT ![b] = e] /\ exports[b].publication # "none"
    BY ZenonT(60), <1>4 DEF ExportStep
  <2>2. e.members = exports[b].members /\ e.accepted = exports[b].accepted
    OBVIOUS
  <2> HIDE DEF e
  <2>3. MembersSound(e)
    BY ZenonT(60), <1>1, <2>1, <2>2 DEF MembersSound
  <2> QED BY ZenonT(60), <1>1, <2>1, <2>3, BundleChanged
<1>5. CASE RegisterExportSignature(b)
  <2> DEFINE d == [exports[b] EXCEPT !.publication = "Registered"]
             e == [d EXCEPT !.signature = TRUE]
  <2>1. exports' = [exports EXCEPT ![b] = e] /\ exports[b].publication = "Published"
    BY ZenonT(60), <1>5 DEF RegisterExportSignature
  <2>2. e.members = exports[b].members /\ e.accepted = exports[b].accepted
    OBVIOUS
  <2> HIDE DEF e
  <2>3. exports[b].publication # "none"
    BY ZenonT(60), <2>1
  <2>4. MembersSound(e)
    BY ZenonT(60), <1>1, <2>2, <2>3 DEF MembersSound
  <2> QED BY ZenonT(60), <1>1, <2>1, <2>4, BundleChanged
<1>6. CASE ReserveExport(b) \/ ResumeExport(b) \/ AbandonExport(b)
  <2>1. /\ "none" \notin {"Created"} /\ "none" \notin {"Publishing"}
        /\ "none" \notin {"Publishing", "Published", "Abandoned"}
    OBVIOUS
  <2> QED BY ZenonT(60), <1>4, <1>6, <2>1 DEF ReserveExport, ResumeExport, AbandonExport
<1> QED BY ZenonT(60), <1>2, <1>3, <1>5, <1>6


\* ExportSound is inductive: the initial state.
LEMMA ExportInitSound ==
  ASSUME ExportInit
  PROVE  ExportSound
<1>1. chain \in Seq(Operations) /\ exportSigner \in Nat
  BY DEF ExportInit
<1>2. WalkSound
  BY ZenonT(60) DEF ExportInit, WalkSound, NoWalk
<1>3. BundlesSound
  BY ZenonT(60) DEF ExportInit, BundlesSound, MembersSound, NoExport
<1> QED BY ZenonT(60), <1>1, <1>2, <1>3 DEF ExportSound

\* ExportSound is inductive: every step.
LEMMA ExportNextSound ==
  ASSUME ExportSound, [ExportNext]_exportVars
  PROVE  ExportSound'
<1>1. chain \in Seq(Operations) /\ exportSigner \in Nat /\ WalkSound /\ BundlesSound
  BY ZenonT(60) DEF ExportSound
<1>2. UNCHANGED exports => BundlesSound'
  BY ZenonT(60), <1>1 DEF BundlesSound
<1>3. UNCHANGED <<walk, chain>> => WalkSound'
  BY <1>1 DEF WalkSound
<1>4. ASSUME NEW op \in Operations, AppendEvent(op)  PROVE ExportSound'
  <2>1. chain' = Append(chain, op) /\ UNCHANGED <<walk, exports, exportSigner>>
    BY ZenonT(60), <1>4 DEF AppendEvent
  <2>2. chain' \in Seq(Operations)
    BY <1>1, <2>1
  <2>3. WalkSound'
    <3>1. ASSUME walk.state # "idle"
          PROVE  walk.cutoff \in 0 .. Len(chain') /\ Shows(walk, SubSeq(chain', 1, walk.cutoff))
      <4>1. walk.cutoff \in 0 .. Len(chain) /\ Shows(walk, SubSeq(chain, 1, walk.cutoff))
        BY ZenonT(60), <1>1, <3>1 DEF WalkSound
      <4>2. walk.cutoff \in 0 .. Len(chain') /\ SubSeq(chain', 1, walk.cutoff) = SubSeq(chain, 1, walk.cutoff)
        <5>1. PICK c : c = walk.cutoff
          BY ZenonT(60)
        <5>2. c \in 0 .. Len(chain)
          BY ZenonT(60), <4>1, <5>1
        <5>3. c \in 0 .. Len(Append(chain, op)) /\ SubSeq(Append(chain, op), 1, c) = SubSeq(chain, 1, c)
          BY ZenonT(60), <1>1, <5>2, SnapshotKept
        <5> QED BY ZenonT(60), <2>1, <5>1, <5>3
      <4> QED BY ZenonT(60), <4>1, <4>2
    <3>2. walk' = walk
      BY ZenonT(60), <2>1
    <3> QED BY ZenonT(60), <3>1, <3>2 DEF WalkSound
  <2> QED BY ZenonT(60), <1>1, <1>2, <2>1, <2>2, <2>3 DEF ExportSound
<1>5. ASSUME NEW f, QueryFirst(f)  PROVE ExportSound'
  <2>1. UNCHANGED <<chain, exports, exportSigner>>
    BY ZenonT(60), <1>5 DEF QueryFirst
  <2>2. WalkSound'
    BY ZenonT(60), <1>5, FirstPage
  <2> QED BY ZenonT(60), <1>1, <1>2, <2>1, <2>2 DEF ExportSound
<1>6. ASSUME NEW n \in {walk.cutoff, Len(chain)}, QueryNext(n)  PROVE ExportSound'
  <2>1. UNCHANGED <<chain, exports, exportSigner>>
    BY ZenonT(60), <1>6 DEF QueryNext
  <2>2. WalkSound'
    BY ZenonT(60), <1>6, FurtherPage
  <2> QED BY ZenonT(60), <1>1, <1>2, <2>1, <2>2 DEF ExportSound
<1>7. ASSUME NEW n, QueryRefused(n)  PROVE ExportSound'
  <2>1. UNCHANGED <<chain, exports, exportSigner>> /\ walk'.state = "idle"
    BY ZenonT(60), <1>7 DEF QueryRefused, NoWalk
  <2>2. WalkSound'
    BY ZenonT(60), <2>1 DEF WalkSound
  <2> QED BY ZenonT(60), <1>1, <1>2, <2>1, <2>2 DEF ExportSound
<1>8. ASSUME NEW b \in Bundles,
             \/ \E f \in Filters, low \in 1 .. MaxChain, high \in 1 .. MaxChain : CreateExport(b, f, low, high)
             \/ ReadExport(b) \/ ReserveExport(b) \/ ResumeExport(b) \/ AbandonExport(b)
             \/ RegisterExportSignature(b)
      PROVE  ExportSound'
  <2>1. UNCHANGED <<chain, walk, exportSigner>>
    BY ZenonT(60), <1>8 DEF CreateExport, ReadExport, ReserveExport, ResumeExport, AbandonExport,
                            RegisterExportSignature, ExportStep
  <2>2. BundlesSound'
    BY ZenonT(60), <1>8, BundlesStep
  <2>3. WalkSound'
    BY ZenonT(60), <1>3, <2>1
  <2> QED BY ZenonT(60), <1>1, <2>1, <2>2, <2>3 DEF ExportSound
<1>9. CASE ExportRollover
  <2>1. UNCHANGED <<chain, walk, exports>> /\ exportSigner' \in Nat
    BY <1>1, <1>9 DEF ExportRollover
  <2> QED BY ZenonT(60), <1>1, <1>2, <1>3, <2>1 DEF ExportSound
<1>10. CASE UNCHANGED exportVars
  <2>1. UNCHANGED <<chain, walk, exports, exportSigner>>
    BY ZenonT(60), <1>10 DEF exportVars
  <2> QED BY ZenonT(60), <1>1, <1>2, <1>3, <2>1 DEF ExportSound
<1>11. CASE AppendSteps
  BY ZenonT(60), <1>4, <1>11 DEF AppendSteps
<1>12. CASE QuerySteps
  BY ZenonT(60), <1>5, <1>6, <1>7, <1>12 DEF QuerySteps
<1>13. CASE BundleSteps
  BY ZenonT(60), <1>8, <1>9, <1>13 DEF BundleSteps
<1> QED BY ZenonT(60), <1>10, <1>11, <1>12, <1>13 DEF ExportNext

\* What an auditor is handed is exact: a paged query that ran to its end has shown exactly the
\* matching entries of its snapshot, once each and in order, however the chain grew; an export
\* its recipient accepted has every entry between its first and its last
\* (audit_export.rs query_snapshot, decrypt_export).
THEOREM ExportExact == ExportSpec => []ExportIsExact
<1>1. ASSUME ExportSound  PROVE WalkIsExact
  <2>1. SUFFICES ASSUME walk.state = "done"
                 PROVE  walk.views = InOrder(Selected(walk.filter, SubSeq(chain, 1, walk.cutoff), 0))
    BY ZenonT(60) DEF WalkIsExact
  <2> DEFINE entries == SubSeq(chain, 1, walk.cutoff)
             whole == Selected(walk.filter, entries, 0)
  <2>2. walk.state # "idle"
    BY ZenonT(60), <2>1
  <2>3. walk.cutoff \in 0 .. Len(chain) /\ Enumerates(walk.views, whole) /\ chain \in Seq(Operations)
    BY ZenonT(60), <1>1, <2>1, <2>2 DEF ExportSound, WalkSound, Shows
  <2>4. entries \in Seq(Operations) /\ Len(entries) \in Nat
    BY <2>3
  <2> HIDE DEF entries
  <2>5. whole \in SUBSET (1 .. Len(entries))
    BY <2>4 DEF Selected
  <2> HIDE DEF whole
  <2>6. Enumerates(InOrder(whole), whole)
    BY ZenonT(60), <2>4, <2>5, InOrderLists
  <2>7. walk.views = InOrder(whole)
    BY ZenonT(60), <2>3, <2>6, ListUnique
  <2> QED BY ZenonT(60), <2>7 DEF whole, entries
<1>2. ASSUME ExportSound  PROVE AcceptedExportHasNoHole
  <2>1. ASSUME NEW b \in Bundles, exports[b].publication # "none", exports[b].accepted
        PROVE  LET s == exports[b].members
               IN  \A i \in s[1] .. s[Len(s)] : \E k \in 1 .. Len(s) : s[k] = i
    <3>1. PICK s : s = exports[b].members
      BY ZenonT(60)
    <3>2. s \in Seq(Nat) /\ s # <<>> /\ VerifyPayloadBindings(s)
      BY ZenonT(60), <1>2, <2>1, <3>1 DEF ExportSound, BundlesSound, MembersSound
    <3>3. \A i \in s[1] .. s[Len(s)] : \E k \in 1 .. Len(s) : s[k] = i
      BY ZenonT(60), <3>2, NoHole
    <3> QED BY ZenonT(60), <3>1, <3>3
  <2> QED BY ZenonT(60), <2>1 DEF AcceptedExportHasNoHole
<1>3. ExportInit => ExportSound
  BY ZenonT(60), ExportInitSound
<1>4. ExportSound /\ [ExportNext]_exportVars => ExportSound'
  BY ZenonT(60), ExportNextSound
<1>5. ExportSound => ExportIsExact
  BY ZenonT(60), <1>1, <1>2 DEF ExportIsExact
<1> QED BY <1>3, <1>4, <1>5, PTL DEF ExportSpec

\* A registered export never changes, and one left unsigned when its key was replaced is never
\* registered (audit_export.rs register_signature).
THEOREM ExportsFinal == ExportSpec => RegisteredExportsFinal
<1> DEFINE Keeps(b) ==
      /\ exports[b].publication = "Registered" =>
           exports'[b].publication = "Registered" /\ exports'[b].members = exports[b].members
      /\ (exports[b].publication = "Published" /\ exports[b].generation < exportSigner) =>
           exports'[b].publication # "Registered"
<1>1. ASSUME ExportSound, [ExportNext]_exportVars, NEW b \in Bundles  PROVE Keeps(b)
  <2>1. DOMAIN exports = Bundles /\ exportSigner \in Nat
    BY ZenonT(60), <1>1 DEF ExportSound, BundlesSound
  <2>2. CASE exports'[b] = exports[b]
    BY ZenonT(60), <2>2
  <2>3. ASSUME NEW e, e.publication # "Registered", exports'[b] = e,
               exports[b].publication # "Registered"
        PROVE  Keeps(b)
    BY ZenonT(60), <2>3
  <2>4. ASSUME NEW c \in Bundles, NEW e, exports' = [exports EXCEPT ![c] = e]
        PROVE  exports'[b] = IF c = b THEN e ELSE exports[b]
    BY ZenonT(60), <2>1, <2>4
  <2>5. ASSUME NEW c \in Bundles, NEW f, NEW low, NEW high, CreateExport(c, f, low, high)  PROVE Keeps(b)
    <3> DEFINE e == [publication |-> "Created", members |-> ExportMembers(f, low, high),
                     generation |-> exportSigner, signature |-> FALSE, accepted |-> FALSE]
    <3>1. exports' = [exports EXCEPT ![c] = e] /\ exports[c].publication = "none"
      BY ZenonT(60), <2>5 DEF CreateExport
    <3>2. e.publication # "Registered" /\ "none" # "Registered"
      OBVIOUS
    <3> HIDE DEF e
    <3>3. exports'[b] = IF c = b THEN e ELSE exports[b]
      BY ZenonT(60), <2>4, <3>1
    <3> QED BY ZenonT(60), <2>2, <2>3, <3>1, <3>2, <3>3
  <2>6. ASSUME NEW c \in Bundles, ReadExport(c)  PROVE Keeps(b)
    <3> DEFINE e == [exports[c] EXCEPT !.accepted = TRUE]
    <3>1. exports' = [exports EXCEPT ![c] = e]
      BY ZenonT(60), <2>6 DEF ReadExport
    <3>2. e.publication = exports[c].publication /\ e.members = exports[c].members
      OBVIOUS
    <3> HIDE DEF e
    <3>3. exports'[b] = IF c = b THEN e ELSE exports[b]
      BY ZenonT(60), <2>4, <3>1
    <3>4. ~("Published" = "Registered")
      OBVIOUS
    <3> QED BY ZenonT(60), <2>2, <3>2, <3>3, <3>4
  <2>7. ASSUME NEW c \in Bundles, NEW from, NEW to, to # "Registered", "Registered" \notin from,
               ExportStep(c, from, to)
        PROVE  Keeps(b)
    <3> DEFINE e == [exports[c] EXCEPT !.publication = to]
    <3>1. exports' = [exports EXCEPT ![c] = e] /\ exports[c].publication \in from
      BY ZenonT(60), <2>7 DEF ExportStep
    <3>2. exports'[b] = IF c = b THEN e ELSE exports[b]
      <4> HIDE DEF e
      <4> QED BY ZenonT(60), <2>4, <3>1
    <3>3. c = b => exports'[b] = [exports[b] EXCEPT !.publication = to]
      BY ZenonT(60), <3>2
    <3>4. c = b => exports'[b].publication # "Registered" \/ exports'[b] = exports[b]
      BY <2>7, <3>1, <3>3
    <3> QED BY ZenonT(60), <2>2, <2>3, <2>7, <3>1, <3>2, <3>4
  <2>8. ASSUME NEW c \in Bundles, RegisterExportSignature(c)  PROVE Keeps(b)
    <3>1. /\ exports[c].publication = "Published" /\ exports[c].generation = exportSigner
          /\ DOMAIN exports' = DOMAIN exports /\ \A d \in Bundles \ {c} : exports'[d] = exports[d]
      BY ZenonT(60), <2>1, <2>8 DEF RegisterExportSignature
    <3>2. ~(exports[c].generation < exportSigner)
      BY <2>1, <3>1
    <3>3. exports[c].publication # "Registered"
      BY ZenonT(60), <3>1
    <3> QED BY ZenonT(60), <2>2, <3>1, <3>2, <3>3
  <2>9. /\ "Publishing" # "Registered" /\ "Published" # "Registered" /\ "Abandoned" # "Registered"
        /\ "Registered" \notin {"Created"} /\ "Registered" \notin {"Publishing"}
        /\ "Registered" \notin {"Publishing", "Published", "Abandoned"}
    OBVIOUS
  <2>10. ASSUME NEW c \in Bundles, ReserveExport(c) \/ ResumeExport(c) \/ AbandonExport(c)  PROVE Keeps(b)
    BY ZenonT(60), <2>7, <2>9, <2>10 DEF ReserveExport, ResumeExport, AbandonExport
  <2>11. CASE AppendSteps \/ QuerySteps \/ ExportRollover \/ UNCHANGED exportVars
    <3>1. exports' = exports
      BY ZenonT(60), <2>11 DEF AppendSteps, QuerySteps, ExportRollover, exportVars, AppendEvent,
                               QueryFirst, QueryNext, QueryRefused
    <3> QED BY ZenonT(60), <2>2, <3>1
  <2> HIDE DEF Keeps
  <2>12. CASE BundleSteps
    BY ZenonT(60), <2>5, <2>6, <2>8, <2>10, <2>11, <2>12 DEF BundleSteps
  <2> QED BY ZenonT(60), <1>1, <2>11, <2>12 DEF ExportNext
<1>2. ExportSound /\ [ExportNext]_exportVars => [\A b \in Bundles : Keeps(b)]_exportVars
  BY ZenonT(60), <1>1
<1>3. ExportInit => ExportSound
  BY ExportInitSound
<1>4. ExportSound /\ [ExportNext]_exportVars => ExportSound'
  BY ExportNextSound
<1> QED BY <1>2, <1>3, <1>4, PTL DEF ExportSpec, RegisteredExportsFinal

-----------------------------------------------------------------------------
Cutoff == [sequence : Nat, head : Heads, generation : Nat \ {0}, signer : Signers, root : Signers,
           credentialEpoch : Nat, auditEpoch : Nat]

Scan == [count : Nat, last : {NoDigest} \cup [end : Nat, head : Heads], latest : Nat,
         newer : BOOLEAN, lineage : {NoLineage} \cup Lineages,
         covered : SUBSET Nat]

\* The accepted checkpoints cover one range that ends at the last of them, and a lineage was
\* compared with the archive's.
ScanOK ==
  /\ scan \in Scan
  /\ IF scan.count = 0 THEN scan.covered = {} /\ scan.latest = 0 ELSE
       /\ scan.last \in [end : Nat, head : Heads] /\ scan.last.end = scan.latest
       /\ \E low \in 1 .. scan.latest : scan.covered = low .. scan.latest
  /\ scan.newer <=> scan.latest > cutoff.sequence
  /\ scan.lineage # NoLineage => LineageFits(scan.lineage)

ForkInv == cutoff \in Cutoff /\ ScanOK /\ ForkIsTruthful

\* A lineage has a length.
LEMMA LineageLength == \A l \in Lineages : Len(l) \in Nat
<1> SUFFICES ASSUME NEW l \in Lineages PROVE Len(l) \in Nat
  OBVIOUS
<1>1. PICK n \in 1 .. 2 : l \in [1 .. n -> [signer : Signers, effective : 1 .. MaxSequence]]
  BY DEF Lineages
<1> QED BY <1>1

\* An empty scan is a sound one.
LEMMA EmptyScanOK ==
  ASSUME cutoff \in Cutoff, cutoff' = cutoff, scan' = EmptyScan
  PROVE  ScanOK'
BY DEF ScanOK, EmptyScan, Scan, Cutoff, NoLineage, NoDigest

\* A checkpoint that fits extends the range.
LEMMA CheckpointKept ==
  ASSUME ForkInv, NEW c \in Checkpoints, ConsiderCheckpoint(c)
  PROVE  ForkInv'
<1>c. /\ c.start \in Nat /\ c.end \in Nat /\ 1 <= c.start /\ c.start <= c.end /\ c.head \in Heads
  BY ForkBounds DEF Checkpoints
<1>u. UNCHANGED <<cutoff, classification, confirmed, installed>>
  BY DEF ConsiderCheckpoint
<1>1. CASE ~CheckpointFits(c)
  <2>1. scan' = EmptyScan
    BY <1>1 DEF ConsiderCheckpoint
  <2> QED BY ZenonT(60), <2>1, <1>u, EmptyScanOK DEF ForkInv, ForkIsTruthful, MissingRangeIsAnchored,
             NewerEvidenceForksAlways, ForkIsWhatWasConfirmed
<1>2. CASE CheckpointFits(c)
  <2> DEFINE n == scan.count + 1
             d == Digest(c)
             l == IF c.end > scan.latest THEN c.end ELSE scan.latest
             w == scan.newer \/ c.end > cutoff.sequence
             v == scan.covered \cup c.start .. c.end
             s1 == [scan EXCEPT !.count = n]
             s2 == [s1 EXCEPT !.last = d]
             s3 == [s2 EXCEPT !.latest = l]
             s4 == [s3 EXCEPT !.newer = w]
             s5 == [s4 EXCEPT !.covered = v]
  <2>0. scan \in Scan
    BY DEF ForkInv, ScanOK
  <2>d. d \in [end : Nat, head : Heads] /\ d.end = c.end
    BY <1>c DEF Digest
  <2>n. n \in Nat /\ l \in Nat /\ w \in BOOLEAN
    BY <1>c, <2>0 DEF Scan
  <2>v. v \subseteq Nat
    BY <1>c, <2>0 DEF Scan
  <2>6. scan' = s5
    BY <1>2 DEF ConsiderCheckpoint
  <2> HIDE DEF n, d, l, w, v
  <2>1. /\ s1 \in Scan /\ s1.count = n /\ s1.lineage = scan.lineage
    BY <2>0, <2>n DEF Scan
  <2> HIDE DEF s1
  <2>2. /\ s2 \in Scan /\ s2.count = n /\ s2.last = d /\ s2.lineage = scan.lineage
    BY <2>1, <2>d DEF Scan
  <2> HIDE DEF s2
  <2>3. /\ s3 \in Scan /\ s3.count = n /\ s3.last = d /\ s3.latest = l
        /\ s3.lineage = scan.lineage
    BY <2>2, <2>n DEF Scan
  <2> HIDE DEF s3
  <2>4. /\ s4 \in Scan /\ s4.count = n /\ s4.last = d /\ s4.latest = l /\ s4.newer = w
        /\ s4.lineage = scan.lineage
    BY <2>3, <2>n DEF Scan
  <2> HIDE DEF s4
  <2>5. /\ s5 \in Scan /\ s5.count = n /\ s5.last = d /\ s5.latest = l /\ s5.newer = w
        /\ s5.covered = v /\ s5.lineage = scan.lineage
    BY <2>4, <2>v DEF Scan
  <2> HIDE DEF s5
  <2>7. /\ scan' \in Scan /\ scan'.count = scan.count + 1 /\ scan'.last = Digest(c)
        /\ scan'.latest = (IF c.end > scan.latest THEN c.end ELSE scan.latest)
        /\ scan'.newer = (scan.newer \/ c.end > cutoff.sequence)
        /\ scan'.covered = scan.covered \cup c.start .. c.end /\ scan'.lineage = scan.lineage
    BY <2>5, <2>6 DEF n, d, l, w, v
  <2>8. scan.latest \in Nat /\ scan.count \in Nat /\ cutoff.sequence \in Nat
    BY <2>0 DEF Scan, ForkInv, Cutoff
  <2>9. /\ scan'.latest = c.end
        /\ \E low \in 1 .. c.end : scan'.covered = low .. c.end
    <3>1. CASE scan.count = 0
      <4>1. scan.latest = 0 /\ scan.covered = {}
        BY <3>1 DEF ForkInv, ScanOK
      <4> QED BY <4>1, <1>c, <2>7
    <3>2. CASE scan.count # 0
      <4>1. scan.last.end = scan.latest /\ c.start = scan.latest + 1
        BY <3>2, <1>2, <2>8 DEF ForkInv, ScanOK, CheckpointFits
      <4>2. PICK low \in 1 .. scan.latest : scan.covered = low .. scan.latest
        BY <3>2 DEF ForkInv, ScanOK
      <4>3. scan.covered \cup c.start .. c.end = low .. c.end
        BY <4>1, <4>2, <1>c, <2>8
      <4>4. low \in 1 .. c.end /\ scan'.latest = c.end
        BY <4>1, <4>2, <1>c, <2>7, <2>8
      <4> QED BY ZenonT(60), <4>3, <4>4, <2>7
    <3> QED BY <3>1, <3>2
  <2>10. ScanOK'
    <3>1. scan'.newer <=> scan'.latest > cutoff.sequence
      <4>1. scan.newer <=> scan.latest > cutoff.sequence
        BY DEF ForkInv, ScanOK
      <4>2. scan.latest <= c.end
        BY <2>7, <2>8, <2>9, <1>c
      <4>3. scan'.newer <=> (scan.newer \/ c.end > cutoff.sequence)
        BY ZenonT(60), <2>7
      <4>4. scan'.latest = c.end
        BY <2>9
      <4> QED BY <4>1, <4>2, <4>3, <4>4, <2>8, <1>c
    <3>2. scan'.lineage # NoLineage => LineageFits(scan'.lineage)
      BY <2>7 DEF ForkInv, ScanOK
    <3>3. scan'.count # 0
      BY <2>7, <2>8
    <3>4. scan'.last \in [end : Nat, head : Heads] /\ scan'.last.end = scan'.latest
      BY <2>7, <2>9, <2>d DEF d
    <3>5. (\A x : LineageFits(x)' <=> LineageFits(x))
      BY <1>u DEF LineageFits
    <3> QED BY ZenonT(60), <1>u, <2>7, <2>9, <3>1, <3>2, <3>3, <3>4, <3>5 DEF ScanOK
  <2> QED BY ZenonT(60), <2>10, <1>u DEF ForkInv, ForkIsTruthful, MissingRangeIsAnchored,
             NewerEvidenceForksAlways, ForkIsWhatWasConfirmed
<1> QED BY <1>1, <1>2

\* So does a lineage.
LEMMA LineageKept ==
  ASSUME ForkInv, NEW l \in Lineages, ConsiderLineage(l)
  PROVE  ForkInv'
<1>u. UNCHANGED <<cutoff, classification, confirmed, installed>>
  BY DEF ConsiderLineage
<1>r. ScanOK' => ForkInv'
  BY <1>u DEF ForkInv, ForkIsTruthful, MissingRangeIsAnchored,
             NewerEvidenceForksAlways, ForkIsWhatWasConfirmed
<1>1. CASE ~LineageFits(l)
  BY <1>1, <1>u, <1>r, EmptyScanOK DEF ConsiderLineage, ForkInv
<1>2. CASE LineageFits(l)
  <2>0. scan \in Scan
    BY DEF ForkInv, ScanOK
  <2>2. scan' = [scan EXCEPT !.lineage = l]
    BY <1>2 DEF ConsiderLineage
  <2>3. /\ scan' \in Scan /\ scan'.count = scan.count /\ scan'.last = scan.last
        /\ scan'.latest = scan.latest /\ scan'.newer = scan.newer /\ scan'.covered = scan.covered
        /\ scan'.lineage = l
    BY <2>0, <2>2 DEF Scan
  <2>4. LineageFits(l)'
    BY <1>2, <1>u DEF LineageFits
  <2>5. ScanOK'
    BY <1>u, <2>3, <2>4 DEF ForkInv, ScanOK
  <2> QED BY <2>5, <1>r
<1> QED BY <1>1, <1>2

\* The answer to the evidence accepted so far says what it says.
LEMMA AnswerTruthful ==
  ASSUME ForkInv, NEW a, a = Answer
  PROVE  /\ a.shown /\ a.required \in BOOLEAN
         /\ LET beyond == {n \in a.covered : n > cutoff.sequence}
                missing == IF a.missing = <<>> THEN {} ELSE a.missing[1] .. a.missing[2]
            IN /\ beyond \subseteq missing
               /\ \A n \in missing \ beyond : \A m \in a.covered : n < m
         /\ ~a.required => /\ a.generation = cutoff.generation /\ a.signer = cutoff.signer
                           /\ \A n \in a.covered : n <= cutoff.sequence
<1>0. /\ cutoff.sequence \in Nat /\ cutoff.generation \in Nat \ {0}
      /\ scan.latest \in Nat /\ scan.covered \subseteq Nat /\ scan.newer \in BOOLEAN
      /\ scan.lineage \in {NoLineage} \cup Lineages
  BY DEF ForkInv, ScanOK, Cutoff, Scan
<1>l. Len(scan.lineage) \in Nat
  BY <1>0, LineageLength DEF NoLineage
<1>1. /\ a.shown = TRUE /\ a.covered = scan.covered
      /\ a.required = (scan.newer \/ Len(scan.lineage) > cutoff.generation)
      /\ a.missing = (IF scan.latest > cutoff.sequence
                      THEN <<cutoff.sequence + 1, scan.latest>> ELSE <<>>)
      /\ a.signer = (IF scan.lineage = NoLineage THEN cutoff.signer ELSE scan.lineage[Len(scan.lineage)].signer)
      /\ a.generation = (IF scan.lineage = NoLineage THEN cutoff.generation
                         ELSE Len(scan.lineage))
  BY DEF Answer
<1>2. scan.newer <=> scan.latest > cutoff.sequence
  BY DEF ForkInv, ScanOK
<1>3. \A n \in scan.covered : n <= scan.latest
  BY <1>0 DEF ForkInv, ScanOK
<1>4. \A n, m \in Nat : n \in scan.covered /\ n <= m /\ m <= scan.latest => m \in scan.covered
  BY <1>0 DEF ForkInv, ScanOK
<1>5. LET beyond == {n \in a.covered : n > cutoff.sequence}
          missing == IF a.missing = <<>> THEN {} ELSE a.missing[1] .. a.missing[2]
      IN /\ beyond \subseteq missing
         /\ \A n \in missing \ beyond : \A m \in a.covered : n < m
  <2>1. CASE scan.latest > cutoff.sequence
    <3>1. /\ a.missing # <<>> /\ a.missing[1] = cutoff.sequence + 1 /\ a.missing[2] = scan.latest
      BY <1>1, <2>1
    <3>2. \A n \in scan.covered : n > cutoff.sequence => n \in cutoff.sequence + 1 .. scan.latest
      BY <1>0, <1>3
    <3>3. ASSUME NEW n \in cutoff.sequence + 1 .. scan.latest, n \notin scan.covered,
                 NEW m \in scan.covered
          PROVE  n < m
      BY <3>3, <1>0, <1>4
    <3> QED BY <3>1, <3>2, <3>3, <1>0, <1>1
  <2>2. CASE ~(scan.latest > cutoff.sequence)
    <3>1. a.missing = <<>>
      BY <1>1, <2>2
    <3> QED BY <3>1, <1>0, <1>1, <1>3, <2>2
  <2> QED BY <2>1, <2>2
<1>6. ASSUME ~a.required
      PROVE  /\ a.generation = cutoff.generation /\ a.signer = cutoff.signer
             /\ \A n \in a.covered : n <= cutoff.sequence
  <2>1. ~scan.newer /\ ~(Len(scan.lineage) > cutoff.generation)
    BY ZenonT(60), <1>6, <1>1, <1>0, <1>l
  <2>2. \A n \in a.covered : n <= cutoff.sequence
    BY <2>1, <1>0, <1>1, <1>2, <1>3
  <2>3. CASE scan.lineage = NoLineage
    BY <2>2, <2>3, <1>1
  <2>4. CASE scan.lineage # NoLineage
    <3>1. LineageFits(scan.lineage)
      BY <2>4 DEF ForkInv, ScanOK
    <3>2. Len(scan.lineage) = cutoff.generation
      BY <2>1, <3>1, <1>0, <1>l DEF LineageFits
    <3>3. scan.lineage[Len(scan.lineage)].signer = cutoff.signer
      BY <3>1, <3>2 DEF LineageFits
    <3> QED BY <2>2, <2>4, <3>2, <3>3, <1>1
  <2> QED BY <2>3, <2>4
<1> QED BY ZenonT(60), <1>0, <1>1, <1>5, <1>6

LEMMA ForkStep == ForkInv /\ [ForkNext]_forkVars => ForkInv'
<1> SUFFICES ASSUME ForkInv, [ForkNext]_forkVars PROVE ForkInv'
  OBVIOUS
<1>1. CASE Classify
  <2>1. /\ classification' = Answer /\ scan' = EmptyScan
        /\ UNCHANGED <<cutoff, confirmed, installed>> /\ ~installed.done
    BY <1>1 DEF Classify
  <2>2. ScanOK'
    BY <2>1, EmptyScanOK DEF ForkInv
  <2>3. MissingRangeIsAnchored' /\ NewerEvidenceForksAlways'
    BY ZenonT(60), <2>1, AnswerTruthful DEF MissingRangeIsAnchored, NewerEvidenceForksAlways
  <2> QED BY ZenonT(60), <2>1, <2>2, <2>3 DEF ForkInv, ForkIsTruthful, ForkIsWhatWasConfirmed
<1>2. CASE Confirm
  BY ZenonT(60), <1>2 DEF Confirm, ForkInv, ScanOK, LineageFits, ForkIsTruthful, MissingRangeIsAnchored,
             NewerEvidenceForksAlways, ForkIsWhatWasConfirmed
<1>3. ASSUME NEW s \in BOOLEAN, NEW a \in BOOLEAN, ActivateFork(s, a) PROVE ForkInv'
  <2>1. /\ UNCHANGED <<cutoff, scan, classification, confirmed>>
        /\ confirmed = classification /\ classification.required
        /\ EpochPlan(TRUE, s).credential # 0
        /\ installed' = [done |-> TRUE, epochs |-> EpochPlan(TRUE, s), genesis |-> classification,
                         anchor |-> "RollbackFork"]
    BY ZenonT(60), <1>3 DEF ActivateFork
  <2> DEFINE e == [credential |-> cutoff.credentialEpoch + 1, audit |-> cutoff.auditEpoch + 1]
  <2>2. installed' = [done |-> TRUE, epochs |-> e, genesis |-> classification,
                      anchor |-> "RollbackFork"]
    BY ZenonT(60), <2>1 DEF EpochPlan
  <2>3. e.credential > cutoff.credentialEpoch /\ e.audit > cutoff.auditEpoch
    BY DEF ForkInv, Cutoff
  <2> HIDE DEF e
  <2>6. installed'.genesis = classification /\ installed'.epochs = e
    BY <2>2
  <2>7. confirmed' = classification /\ classification.required /\ cutoff' = cutoff
    BY <2>1
  <2>4. ForkIsWhatWasConfirmed'
    BY <2>3, <2>6, <2>7 DEF ForkIsWhatWasConfirmed
  <2>5. ScanOK'
    BY ZenonT(60), <2>1 DEF ForkInv, ScanOK, LineageFits
  <2> QED BY ZenonT(60), <2>1, <2>4, <2>5 DEF ForkInv, ForkIsTruthful, MissingRangeIsAnchored,
             NewerEvidenceForksAlways
<1>4. CASE UNCHANGED forkVars
  BY ZenonT(60), <1>4 DEF forkVars, ForkInv, ScanOK, LineageFits, ForkIsTruthful, MissingRangeIsAnchored,
             NewerEvidenceForksAlways, ForkIsWhatWasConfirmed
<1> QED BY <1>1, <1>2, <1>3, <1>4, CheckpointKept, LineageKept DEF ForkNext

\* The classification an operator confirms says what the evidence says.
THEOREM ForkTruth == ForkSpec => []ForkIsTruthful
<1>1. ASSUME ForkInit PROVE ForkInv
  <2>1. cutoff \in Cutoff
    BY <1>1, ForkBounds DEF ForkInit, Cutoff
  <2>2. ScanOK
    BY <1>1, <2>1 DEF ForkInit, ScanOK, EmptyScan, Scan, Cutoff, NoLineage, NoDigest
  <2>3. ForkIsTruthful
    BY ZenonT(60), <1>1 DEF ForkInit, ForkIsTruthful, MissingRangeIsAnchored, NewerEvidenceForksAlways,
       ForkIsWhatWasConfirmed, Unclassified, NotInstalled
  <2> QED BY <2>1, <2>2, <2>3 DEF ForkInv
<1>2. ForkInv => ForkIsTruthful
  BY DEF ForkInv
<1> QED BY <1>1, <1>2, ForkStep, PTL DEF ForkSpec

-----------------------------------------------------------------------------
\* A catalog record, from its reservation on.
BackupRec ==
  [publication : {"Publishing", "Published", "Registered", "Abandoned"}, signature : BOOLEAN,
   generation : Nat, set : Nat, active : {"Missing", "Registered"},
   recovery : {"Missing", "Registered"}]

\* The records and the two numbers they were made under.
BackupInv ==
  /\ signer \in Nat /\ recoverySet \in Nat
  /\ backups \in [Archives -> BackupRec \cup {NoBackup}]

\* One step of the publication record b towards c, under signing generation s.
RecordMoves(b, c, s) ==
  /\ b.publication \in {"Registered", "Abandoned"} => c.publication = b.publication
  /\ b.publication # "none" => c.publication # "none"
  /\ (b.publication # "none" /\ b.publication # "Publishing") => c.publication # "Publishing"
  /\ (b.publication # "none" /\ ~b.signature /\ b.generation < s) => ~c.signature

\* A record that is known is complete.
LEMMA BackupKnown ==
  ASSUME BackupInv, NEW a \in Archives, Known(a)
  PROVE  backups[a] \in BackupRec
<1>1. backups[a] \in BackupRec \cup {NoBackup}
  BY DEF BackupInv
<1>2. NoBackup.publication = "none"
  BY DEF NoBackup
<1> QED BY ZenonT(60), <1>1, <1>2 DEF Known

\* A step of one record leaves the other ones alone.
LEMMA BackupRecordFrame ==
  ASSUME BackupInv, NEW a \in Archives, NEW c \in BackupRec, RecordMoves(backups[a], c, signer),
         backups' = [backups EXCEPT ![a] = c]
  PROVE  /\ backups' \in [Archives -> BackupRec \cup {NoBackup}]
         /\ \A q \in Archives : RecordMoves(backups[q], backups'[q], signer)
<1>1. backups' \in [Archives -> BackupRec \cup {NoBackup}] /\ backups'[a] = c
      /\ \A q \in Archives : q # a => backups'[q] = backups[q]
  BY ZenonT(60) DEF BackupInv
<1>2. \A b : RecordMoves(b, b, signer)
  BY DEF RecordMoves
<1> QED BY ZenonT(60), <1>1, <1>2

\* What DispositionIsFinal and OldKeyStaysUnsigned say of one step.
RecordsMove == \A a \in Archives : RecordMoves(backups[a], backups'[a], signer)

\* The catalog records alone.
LEMMA BackupRecordsStep ==
  ASSUME BackupInv, NEW a \in Archives,
         \/ ReserveBackup(a) \/ ResumeBackup(a) \/ RegisterBackupSignature(a) \/ AbandonBackup(a)
         \/ \E which \in {"active", "recovery"} : RegisterReceipt(a, which)
  PROVE  BackupInv' /\ RecordsMove
<1>1. UNCHANGED <<signer, recoverySet>>
  BY ZenonT(60)
     DEF ReserveBackup, ResumeBackup, RegisterBackupSignature, AbandonBackup, RegisterReceipt
<1>2. signer \in Nat /\ recoverySet \in Nat
  BY DEF BackupInv
<1> DEFINE b == backups[a]
<1>3. PICK c \in BackupRec : RecordMoves(b, c, signer) /\ backups' = [backups EXCEPT ![a] = c]
  <2>1. CASE ReserveBackup(a)
    <3> DEFINE c == [publication |-> "Publishing", signature |-> FALSE, generation |-> signer,
                     set |-> recoverySet, active |-> "Missing", recovery |-> "Missing"]
    <3>1. backups' = [backups EXCEPT ![a] = c] /\ b.publication = "none"
      BY <2>1 DEF ReserveBackup, Known
    <3>2. c \in BackupRec
      BY ZenonT(60), <1>2 DEF BackupRec
    <3>3. RecordMoves(b, c, signer)
      BY <3>1 DEF RecordMoves
    <3> QED BY ZenonT(60), <3>1, <3>2, <3>3
  <2>2. CASE ResumeBackup(a)
    <3> DEFINE c == [b EXCEPT !.publication = "Published"]
    <3>1. backups' = [backups EXCEPT ![a] = c] /\ b.publication = "Publishing"
      BY <2>2 DEF ResumeBackup
    <3>2. b \in BackupRec
      BY <3>1, BackupKnown DEF Known
    <3>3. c \in BackupRec /\ c.publication = "Published" /\ c.signature = b.signature
      BY ZenonT(60), <3>2 DEF BackupRec
    <3>4. RecordMoves(b, c, signer)
      BY <3>1, <3>3 DEF RecordMoves
    <3> QED BY ZenonT(60), <3>1, <3>3, <3>4
  <2>3. CASE RegisterBackupSignature(a)
    <3> DEFINE c == [b EXCEPT !.signature = TRUE, !.publication = "Registered"]
    <3>1. b.publication = "Published" /\ b.generation = signer
      BY <2>3 DEF RegisterBackupSignature
    <3>2. b \in BackupRec
      BY <3>1, BackupKnown DEF Known
    <3>3. backups' = [backups EXCEPT ![a] = c]
      BY ZenonT(60), <2>3 DEF RegisterBackupSignature, BackupInv
    <3>4. c \in BackupRec /\ c.publication = "Registered"
      BY ZenonT(60), <3>2 DEF BackupRec
    <3>5. RecordMoves(b, c, signer)
      BY <1>2, <3>1, <3>4 DEF RecordMoves
    <3> QED BY ZenonT(60), <3>3, <3>4, <3>5
  <2>4. CASE AbandonBackup(a)
    <3> DEFINE c == [b EXCEPT !.publication = "Abandoned"]
    <3>1. backups' = [backups EXCEPT ![a] = c] /\ Known(a)
          /\ b.publication \notin {"Registered", "Abandoned"}
      BY <2>4 DEF AbandonBackup
    <3>2. b \in BackupRec
      BY <3>1, BackupKnown
    <3>3. c \in BackupRec /\ c.publication = "Abandoned" /\ c.signature = b.signature
      BY ZenonT(60), <3>2 DEF BackupRec
    <3>4. RecordMoves(b, c, signer)
      BY <3>1, <3>3 DEF RecordMoves
    <3> QED BY ZenonT(60), <3>1, <3>3, <3>4
  <2>5. ASSUME NEW w \in {"active", "recovery"}, RegisterReceipt(a, w)
        PROVE  \E c \in BackupRec : RecordMoves(b, c, signer) /\ backups' = [backups EXCEPT ![a] = c]
    <3> DEFINE c == [b EXCEPT ![w] = "Registered"]
    <3>1. backups' = [backups EXCEPT ![a] = c] /\ Known(a)
      BY <2>5 DEF RegisterReceipt
    <3>2. b \in BackupRec
      BY <3>1, BackupKnown
    <3>3. c \in BackupRec /\ c.publication = b.publication /\ c.signature = b.signature
      <4>1. CASE w = "active"
        BY ZenonT(60), <4>1, <3>2 DEF BackupRec
      <4>2. CASE w = "recovery"
        BY ZenonT(60), <4>2, <3>2 DEF BackupRec
      <4> QED BY <4>1, <4>2
    <3>4. RecordMoves(b, c, signer)
      BY ZenonT(60), <3>1, <3>3 DEF RecordMoves
    <3> QED BY ZenonT(60), <3>1, <3>3, <3>4
  <2> QED BY ZenonT(60), <2>1, <2>2, <2>3, <2>4, <2>5
<1>4. backups' \in [Archives -> BackupRec \cup {NoBackup}] /\ RecordsMove
  BY ZenonT(60), <1>3, BackupRecordFrame DEF RecordsMove
<1> QED BY ZenonT(60), <1>1, <1>4 DEF BackupInv

\* The rename, with or without the record of it.
LEMMA BackupPublishStep ==
  ASSUME BackupInv, NEW a \in Archives, NEW synced \in BOOLEAN, PublishReserved(a, synced)
  PROVE  BackupInv' /\ RecordsMove
<1> DEFINE b == backups[a]
           c == [b EXCEPT !.publication = "Published"]
<1>1. /\ UNCHANGED <<signer, recoverySet>> /\ b.publication = "Publishing"
      /\ backups' = IF synced THEN [backups EXCEPT ![a] = c] ELSE backups
  BY DEF PublishReserved
<1>4. b \in BackupRec
  BY <1>1, BackupKnown DEF Known
<1>5. c \in BackupRec /\ c.publication = "Published" /\ c.signature = b.signature
  BY ZenonT(60), <1>4 DEF BackupRec
<1>6. RecordMoves(b, c, signer)
  BY <1>1, <1>5 DEF RecordMoves
<1>7. backups' \in [Archives -> BackupRec \cup {NoBackup}] /\ RecordsMove
  <2>1. CASE synced
    <3>1. backups' = [backups EXCEPT ![a] = c]
      BY <1>1, <2>1
    <3> HIDE DEF c
    <3> QED BY ZenonT(60), <3>1, <1>5, <1>6, BackupRecordFrame DEF RecordsMove
  <2>2. CASE ~synced
    <3>1. backups' = backups
      BY <1>1, <2>2
    <3> QED BY <3>1 DEF BackupInv, RecordsMove, RecordMoves
  <2> QED BY <2>1, <2>2
<1> QED BY ZenonT(60), <1>1, <1>7 DEF BackupInv

\* Every step keeps the invariant and moves each record forward only.
LEMMA BackupStep == BackupInv /\ [BackupNext]_backupVars => BackupInv' /\ RecordsMove
<1> SUFFICES ASSUME BackupInv, [BackupNext]_backupVars PROVE BackupInv' /\ RecordsMove
  OBVIOUS
<1>1. ASSUME backups' = backups, signer' \in Nat, recoverySet' \in Nat
      PROVE  BackupInv' /\ RecordsMove
  <2>1. RecordsMove
    BY <1>1 DEF RecordsMove, RecordMoves
  <2> QED BY ZenonT(60), <1>1, <2>1 DEF BackupInv
<1>2. CASE UNCHANGED backupVars \/ \E a \in Archives : RegisterRehearsal(a)
  BY ZenonT(60), <1>1, <1>2 DEF backupVars, RegisterRehearsal, BackupInv
<1>3. CASE ReplaceRecoverySet \/ SignerRollover
  <2>1. signer' \in Nat /\ recoverySet' \in Nat
    BY <1>3 DEF ReplaceRecoverySet, SignerRollover, BackupInv
  <2> QED BY ZenonT(60), <1>1, <1>3, <2>1 DEF ReplaceRecoverySet, SignerRollover
<1>4. ASSUME NEW a \in Archives,
             \/ PrepareOutput(a) \/ PublishRefused(a) \/ RenameFails(a)
             \/ \E found \in Observed : TargetChanges(a, found)
             \/ ObserveOutput(a)
      PROVE  BackupInv' /\ RecordsMove
  <2>1. UNCHANGED <<backups, signer, recoverySet>>
    BY ZenonT(60), <1>4 DEF PrepareOutput, PublishRefused, RenameFails, TargetChanges, ObserveOutput
  <2> QED BY ZenonT(60), <1>1, <2>1 DEF BackupInv
<1>5. ASSUME NEW a \in Archives,
             \/ ReserveBackup(a) \/ ResumeBackup(a) \/ RegisterBackupSignature(a) \/ AbandonBackup(a)
             \/ \E which \in {"active", "recovery"} : RegisterReceipt(a, which)
      PROVE  BackupInv' /\ RecordsMove
  BY <1>5, BackupRecordsStep
<1>6. ASSUME NEW a \in Archives, NEW synced \in BOOLEAN, PublishReserved(a, synced)
      PROVE  BackupInv' /\ RecordsMove
  BY <1>6, BackupPublishStep
<1> QED BY ZenonT(60), <1>2, <1>3, <1>4, <1>5, <1>6 DEF BackupNext

\* No record at the start.
LEMMA BackupInitially == BackupInit => BackupInv
<1> SUFFICES ASSUME BackupInit PROVE BackupInv
  OBVIOUS
<1>1. signer \in Nat /\ recoverySet \in Nat
  BY DEF BackupInit
<1>2. backups \in [Archives -> BackupRec \cup {NoBackup}]
  BY ZenonT(60) DEF BackupInit
<1> QED BY <1>1, <1>2 DEF BackupInv

\* Registered and Abandoned are final, and what a retired key left unsigned stays unsigned.
THEOREM BackupDispositions == BackupSpec => DispositionIsFinal /\ OldKeyStaysUnsigned
<1>1. BackupInv /\ [BackupNext]_backupVars =>
        /\ [\A a \in Archives :
              /\ backups[a].publication \in {"Registered", "Abandoned"} =>
                   backups'[a].publication = backups[a].publication
              /\ Known(a) => backups'[a].publication # "none"
              /\ (Known(a) /\ backups[a].publication # "Publishing") =>
                   backups'[a].publication # "Publishing"]_backupVars
        /\ [\A a \in Archives :
              (Known(a) /\ ~backups[a].signature /\ backups[a].generation < signer) =>
                ~backups'[a].signature]_backupVars
  BY ZenonT(60), BackupStep DEF RecordsMove, RecordMoves, Known
<1> QED BY <1>1, BackupInitially, BackupStep, PTL
        DEF BackupSpec, DispositionIsFinal, OldKeyStaysUnsigned

\* The disposition of a backup or an export, and the entry of a retired key, are final.
THEOREM ToolsPublish == PublicationsSpec => PublicationsAreFinal
  BY BackupDispositions, ExportsFinal, TrustHistory DEF PublicationsAreFinal, PublicationsSpec
=============================================================================
