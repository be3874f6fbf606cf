--------------------------- MODULE CounterProofs ----------------------------
(***************************************************************************)
(* Counters and their sums, for any depth of the lane, any sizes, any      *)
(* number of shards and any set of publications: the request limiter, the  *)
(* space admission accounts for, and the reserve on the same disk.         *)
(*                                                                         *)
(* A counterexample on a finite set may be taken to be a smallest one      *)
(* (SmallestSet), which is how the laws of SumFunctionOnSet are shown; the *)
(* invariants of the counters are stated with that sum.                    *)
(***************************************************************************)
EXTENDS RecoveryReserve, RateLimiter, Functions, FiniteSetTheorems, TLAPS

\* s is in T and no smaller set is.
Smallest(s, T) == s \in T /\ \A t \in T : t \subseteq s => t = s

\* A smallest member among sets of members of a finite set; with it, a counterexample about
\* finite sets may be taken to be a smallest one.
LEMMA SmallestSet ==
  ASSUME NEW S, IsFiniteSet(S), NEW T \in SUBSET (SUBSET S), T # {}
  PROVE  \E s : Smallest(s, T)
<1> DEFINE R == StrictSubsetOrdering(S)
           D == FiniteSubsetsOf(S)
<1>1. IsWellFoundedOn(R, D) /\ D = SUBSET S
  BY FS_StrictSubsetOrderingWellFounded, FS_FiniteSubsetsOfFinite
<1>2. PICK s \in T : \A t \in T : ~(<<t, s>> \in R)
  <2> HIDE DEF R, D
  <2> QED BY ZenonT(60), <1>1, WFMin
<1>3. ASSUME NEW t \in T, t \subseteq s, t # s  PROVE <<t, s>> \in R
  BY <1>3 DEF StrictSubsetOrdering
<1> HIDE DEF R, D
<1>4. ASSUME NEW t \in T, t \subseteq s  PROVE t = s
  BY ZenonT(60), <1>2, <1>3, <1>4
<1> QED BY ZenonT(60), <1>4 DEF Smallest

-----------------------------------------------------------------------------
\* The member of a set a sum takes next.
Pick(s) == CHOOSE x \in s : TRUE

\* g gives every subset of S the sum of f over it, taking one member after the other.
SumsOver(g, f, S) ==
  g = [s \in SUBSET S |-> IF s = {} THEN 0 ELSE f[Pick(s)] + g[s \ {Pick(s)}]]

\* The same, field by field.
Summing(g, f, S) ==
  /\ DOMAIN g = SUBSET S
  /\ g[{}] = 0
  /\ \A s \in SUBSET S : g[s] \in Nat
  /\ \A s \in SUBSET S : s # {} => g[s] = f[Pick(s)] + g[s \ {Pick(s)}]

\* f counts the members of S.
CountsOn(f, S) == \A x \in S : f[x] \in Nat

\* What the library's fold computes for a sum.
LEMMA SumIs ==
  ASSUME NEW S, NEW f
  PROVE  SumFunctionOnSet(f, S) = (CHOOSE g : SumsOver(g, f, S))[S]
  BY DEF SumFunctionOnSet, FoldFunctionOnSet, MapThenFoldSet, SumsOver, Pick

\* The chosen member of a set that is not empty is one of its members.
LEMMA PickIn ==
  ASSUME NEW s, s # {}
  PROVE  Pick(s) \in s
  BY DEF Pick

\* A function that satisfies the equation of a sum has natural values.
LEMMA SummingOf ==
  ASSUME NEW S, IsFiniteSet(S), NEW f, CountsOn(f, S), NEW g, SumsOver(g, f, S)
  PROVE  Summing(g, f, S)
<1>1. /\ DOMAIN g = SUBSET S
      /\ \A s \in SUBSET S : g[s] = IF s = {} THEN 0 ELSE f[Pick(s)] + g[s \ {Pick(s)}]
  BY ZenonT(60) DEF SumsOver
<1>2. {} \in SUBSET S
  OBVIOUS
<1>3. g[{}] = 0
  BY ZenonT(60), <1>1, <1>2
<1> DEFINE T == {s \in SUBSET S : g[s] \notin Nat}
<1>4. T = {}
  <2>1. SUFFICES ASSUME T # {} PROVE FALSE
    OBVIOUS
  <2>2. PICK s : Smallest(s, T)
    <3>1. T \in SUBSET (SUBSET S)
      OBVIOUS
    <3> HIDE DEF T
    <3> QED BY ZenonT(60), <2>1, <3>1, SmallestSet
  <2>3. s \in SUBSET S /\ g[s] \notin Nat
    BY ZenonT(60), <2>2 DEF Smallest
  <2>9. s # {}
    BY <1>3, <2>3
  <2>4. Pick(s) \in s /\ s \ {Pick(s)} \in SUBSET S /\ s \ {Pick(s)} \subseteq s /\ s \ {Pick(s)} # s
    BY <2>3, <2>9, PickIn
  <2>5. s \ {Pick(s)} \notin T
    <3> HIDE DEF T
    <3> QED BY <2>2, <2>4 DEF Smallest
  <2>6. g[s \ {Pick(s)}] \in Nat
    BY ZenonT(60), <2>4, <2>5
  <2>7. f[Pick(s)] \in Nat
    BY <2>3, <2>4 DEF CountsOn
  <2>8. g[s] = f[Pick(s)] + g[s \ {Pick(s)}]
    BY ZenonT(60), <1>1, <2>3, <2>9
  <2> HIDE DEF T
  <2> QED BY <2>3, <2>6, <2>7, <2>8
<1>5. \A s \in SUBSET S : g[s] \in Nat
  BY ZenonT(60), <1>4
<1>6. \A s \in SUBSET S : s # {} => g[s] = f[Pick(s)] + g[s \ {Pick(s)}]
  BY ZenonT(60), <1>1
<1> QED BY ZenonT(60), <1>1, <1>3, <1>5, <1>6 DEF Summing


\* Sums over a set and over a part of it agree on that part.
LEMMA SumsAgree ==
  ASSUME NEW S, NEW U \in SUBSET S, IsFiniteSet(U), NEW f, NEW g, NEW h,
         SumsOver(g, f, S), SumsOver(h, f, U)
  PROVE  \A s \in SUBSET U : g[s] = h[s]
<1>1. /\ \A s \in SUBSET S : g[s] = IF s = {} THEN 0 ELSE f[Pick(s)] + g[s \ {Pick(s)}]
      /\ \A s \in SUBSET U : h[s] = IF s = {} THEN 0 ELSE f[Pick(s)] + h[s \ {Pick(s)}]
  BY ZenonT(60) DEF SumsOver
<1> DEFINE T == {s \in SUBSET U : g[s] # h[s]}
<1>2. T = {}
  <2>1. SUFFICES ASSUME T # {} PROVE FALSE
    OBVIOUS
  <2>2. PICK s : Smallest(s, T)
    <3>1. T \in SUBSET (SUBSET U)
      OBVIOUS
    <3> HIDE DEF T
    <3> QED BY ZenonT(60), <2>1, <3>1, SmallestSet
  <2>3. s \in SUBSET U /\ g[s] # h[s]
    BY ZenonT(60), <2>2 DEF Smallest
  <2>4. s \in SUBSET S
    BY <2>3
  <2>5. s # {}
    BY ZenonT(60), <1>1, <2>3, <2>4
  <2>6. s \ {Pick(s)} \in SUBSET U /\ s \ {Pick(s)} \subseteq s /\ s \ {Pick(s)} # s
    BY <2>3, <2>5, PickIn
  <2>7. s \ {Pick(s)} \notin T
    <3> HIDE DEF T
    <3> QED BY <2>2, <2>6 DEF Smallest
  <2>8. g[s \ {Pick(s)}] = h[s \ {Pick(s)}]
    BY ZenonT(60), <2>6, <2>7
  <2> HIDE DEF T
  <2>9. g[s] = f[Pick(s)] + g[s \ {Pick(s)}] /\ h[s] = f[Pick(s)] + h[s \ {Pick(s)}]
    BY ZenonT(60), <1>1, <2>3, <2>4, <2>5
  <2> QED BY ZenonT(60), <2>3, <2>8, <2>9
<1> QED BY ZenonT(60), <1>2

\* A sum exists for every finite set.
LEMMA SumsExist ==
  ASSUME NEW S, IsFiniteSet(S), NEW f
  PROVE  \E g : SumsOver(g, f, S)
<1> DEFINE T == {U \in SUBSET S : ~ \E g : SumsOver(g, f, U)}
           Total(s) == (CHOOSE g : SumsOver(g, f, s))[s]
<1>1. SUFFICES ASSUME T # {} PROVE FALSE
  <2>1. S \in SUBSET S
    OBVIOUS
  <2> QED BY ZenonT(60), <2>1
<1>2. PICK U : Smallest(U, T)
  <2>1. T \in SUBSET (SUBSET S)
    OBVIOUS
  <2> HIDE DEF T
  <2> QED BY ZenonT(60), <1>1, <2>1, SmallestSet
<1>3. U \in SUBSET S /\ ~ \E g : SumsOver(g, f, U)
  BY ZenonT(60), <1>2 DEF Smallest
<1>4. ASSUME NEW s \in SUBSET U, s # U
      PROVE  SumsOver(CHOOSE g : SumsOver(g, f, s), f, s) /\ IsFiniteSet(s)
  <2>1. s \in SUBSET S /\ s \notin T
    <3> HIDE DEF T
    <3> QED BY <1>2, <1>3, <1>4 DEF Smallest
  <2>2. \E g : SumsOver(g, f, s)
    BY ZenonT(60), <2>1
  <2>3. IsFiniteSet(s)
    BY <2>1, FS_Subset
  <2> HIDE DEF T
  <2> QED BY ZenonT(60), <2>2, <2>3
<1> HIDE DEF T
<1>5. ASSUME NEW s \in SUBSET U, s # U, s # {}
      PROVE  Total(s) = f[Pick(s)] + Total(s \ {Pick(s)})
  <2> DEFINE r == s \ {Pick(s)}
  <2>1. r \in SUBSET s /\ r \in SUBSET U /\ r # U
    BY <1>5, PickIn
  <2> HIDE DEF r
  <2>2. PICK g : g = CHOOSE h : SumsOver(h, f, s)
    BY ZenonT(60)
  <2>3. PICK h : h = CHOOSE k : SumsOver(k, f, r)
    BY ZenonT(60)
  <2>4. SumsOver(g, f, s) /\ SumsOver(h, f, r) /\ IsFiniteSet(r)
    BY ZenonT(60), <1>4, <1>5, <2>1, <2>2, <2>3
  <2>5. r \in SUBSET r /\ s \in SUBSET s
    OBVIOUS
  <2>6. g[r] = h[r]
    BY <2>1, <2>4, <2>5, SumsAgree
  <2>7. g[s] = f[Pick(s)] + g[r]
    BY ZenonT(60), <1>5, <2>4, <2>5 DEF SumsOver, r
  <2> QED BY ZenonT(60), <2>2, <2>3, <2>6, <2>7 DEF r
<1>6. U # {} => Total({}) = 0
  <2>1. SUFFICES ASSUME U # {} PROVE Total({}) = 0
    BY ZenonT(60)
  <2>2. {} \in SUBSET U /\ {} # U /\ {} \in SUBSET {}
    BY <2>1
  <2>3. PICK g : g = CHOOSE h : SumsOver(h, f, {})
    BY ZenonT(60)
  <2>4. SumsOver(g, f, {})
    BY ZenonT(60), <1>4, <2>2, <2>3
  <2>5. g[{}] = 0
    BY ZenonT(60), <2>2, <2>4 DEF SumsOver
  <2> QED BY ZenonT(60), <2>3, <2>5
<1> HIDE DEF Total
<1> DEFINE last == IF U = {} THEN 0 ELSE f[Pick(U)] + Total(U \ {Pick(U)})
           k == [s \in SUBSET U |-> IF s = U THEN last ELSE Total(s)]
<1>7. ASSUME NEW s \in SUBSET U
      PROVE  k[s] = IF s = {} THEN 0 ELSE f[Pick(s)] + k[s \ {Pick(s)}]
  <2>1. s # {} => s \ {Pick(s)} \in SUBSET U /\ s \ {Pick(s)} # U
    BY PickIn
  <2>2. \A r \in SUBSET U : k[r] = IF r = U THEN last ELSE Total(r)
    BY ZenonT(60)
  <2>3. CASE s = U
    <3> HIDE DEF k
    <3>1. s # {} => k[s \ {Pick(s)}] = Total(s \ {Pick(s)})
      BY ZenonT(60), <2>1, <2>2
    <3> QED BY ZenonT(60), <2>2, <2>3, <3>1
  <2>4. CASE s # U
    <3> HIDE DEF k, last
    <3>1. s # {} => k[s \ {Pick(s)}] = Total(s \ {Pick(s)})
      BY ZenonT(60), <2>1, <2>2
    <3>2. k[s] = Total(s)
      BY ZenonT(60), <2>2, <2>4
    <3>3. s = {} => k[s] = 0
      BY ZenonT(60), <1>6, <2>4, <3>2
    <3> QED BY ZenonT(60), <1>5, <2>4, <3>1, <3>2, <3>3
  <2> QED BY ZenonT(60), <2>3, <2>4
<1>8. DOMAIN k = SUBSET U /\ k = [s \in SUBSET U |-> k[s]]
  BY ZenonT(60)
<1> HIDE DEF k
<1>9. SumsOver(k, f, U)
  BY ZenonT(60), <1>7, <1>8 DEF SumsOver
<1> QED BY ZenonT(60), <1>3, <1>9


\* The library's sum is a sum.
LEMMA SumOf ==
  ASSUME NEW S, IsFiniteSet(S), NEW f
  PROVE  \E g : SumsOver(g, f, S) /\ SumFunctionOnSet(f, S) = g[S]
<1>1. \E g : SumsOver(g, f, S)
  BY ZenonT(60), SumsExist
<1>2. PICK g : g = CHOOSE h : SumsOver(h, f, S)
  BY ZenonT(60)
<1>3. SumsOver(g, f, S)
  BY ZenonT(60), <1>1, <1>2
<1>4. SumFunctionOnSet(f, S) = g[S]
  BY ZenonT(60), <1>2, SumIs
<1> QED BY ZenonT(60), <1>3, <1>4

\* The order in which a sum takes the members does not matter.
LEMMA SumsCommute ==
  ASSUME NEW S, IsFiniteSet(S), NEW f, CountsOn(f, S), NEW g, SumsOver(g, f, S)
  PROVE  \A s \in SUBSET S, y \in S : y \notin s => g[s \cup {y}] = f[y] + g[s]
<1>1. Summing(g, f, S)
  BY ZenonT(60), SummingOf
<1>2. /\ \A s \in SUBSET S : g[s] \in Nat
      /\ \A s \in SUBSET S : s # {} => g[s] = f[Pick(s)] + g[s \ {Pick(s)}]
  BY <1>1 DEF Summing
<1> DEFINE T == {s \in SUBSET S : \E y \in S : y \notin s /\ g[s \cup {y}] # f[y] + g[s]}
<1>3. T = {}
  <2>1. SUFFICES ASSUME T # {} PROVE FALSE
    BY ZenonT(60)
  <2>2. PICK s : Smallest(s, T)
    <3>1. T \in SUBSET (SUBSET S)
      OBVIOUS
    <3> HIDE DEF T
    <3> QED BY ZenonT(60), <2>1, <3>1, SmallestSet
  <2>3. s \in SUBSET S /\ \E y \in S : y \notin s /\ g[s \cup {y}] # f[y] + g[s]
    BY ZenonT(60), <2>2 DEF Smallest
  <2>4. PICK y \in S : y \notin s /\ g[s \cup {y}] # f[y] + g[s]
    BY ZenonT(60), <2>3
  <2> DEFINE u == s \cup {y}
             z == Pick(u)
  <2>5. u \in SUBSET S /\ u # {} /\ z \in u
    BY <2>3, PickIn
  <2> HIDE DEF z
  <2>6. g[u] = f[z] + g[u \ {z}]
    <3> HIDE DEF u
    <3> QED BY ZenonT(60), <1>2, <2>5 DEF z
  <2>7. z # y
    <3>1. u \ {y} = s
      BY <2>4
    <3> HIDE DEF u
    <3> QED BY ZenonT(60), <2>4, <2>6, <3>1 DEF u
  <2> DEFINE r == s \ {z}
  <2>8. z \in s /\ z \in S /\ r \in SUBSET S /\ r \subseteq s /\ r # s /\ y \notin r /\ z \notin r
    BY <2>3, <2>4, <2>5, <2>7
  <2>9. u \ {z} = r \cup {y} /\ r \cup {z} = s
    BY <2>7, <2>8
  <2>10. r \notin T
    <3> HIDE DEF T, r
    <3> QED BY <2>2, <2>8 DEF Smallest
  <2>11. g[r \cup {y}] = f[y] + g[r] /\ g[r \cup {z}] = f[z] + g[r]
    <3> HIDE DEF r, u
    <3> QED BY ZenonT(60), <2>8, <2>10
  <2>12. f[y] \in Nat /\ f[z] \in Nat /\ g[r] \in Nat
    <3> HIDE DEF r
    <3> QED BY ZenonT(60), <1>2, <2>8 DEF CountsOn
  <2>13. g[u] = f[z] + (f[y] + g[r]) /\ g[s] = f[z] + g[r]
    <3> HIDE DEF r, u
    <3> QED BY ZenonT(60), <2>6, <2>9, <2>11
  <2>14. f[z] + (f[y] + g[r]) = f[y] + (f[z] + g[r])
    <3> HIDE DEF r
    <3> QED BY <2>12
  <2> HIDE DEF T, r
  <2> QED BY ZenonT(60), <2>4, <2>13, <2>14
<1>4. ASSUME NEW s \in SUBSET S, NEW y \in S, y \notin s, g[s \cup {y}] # f[y] + g[s]
      PROVE  FALSE
  BY ZenonT(60), <1>3, <1>4
<1> QED BY ZenonT(60), <1>4

-----------------------------------------------------------------------------
\* The laws of finite sums.  Nothing to add.
LEMMA SumEmpty ==
  ASSUME NEW f
  PROVE  SumFunctionOnSet(f, {}) = 0
<1>1. IsFiniteSet({})
  BY FS_EmptySet
<1>2. PICK g : SumsOver(g, f, {}) /\ SumFunctionOnSet(f, {}) = g[{}]
  BY ZenonT(60), <1>1, SumOf
<1>3. {} \in SUBSET {}
  OBVIOUS
<1> QED BY ZenonT(60), <1>2, <1>3 DEF SumsOver

\* A sum of naturals is a natural.
LEMMA SumNat ==
  ASSUME NEW S, IsFiniteSet(S), NEW f, CountsOn(f, S)
  PROVE  SumFunctionOnSet(f, S) \in Nat
<1>1. PICK g : SumsOver(g, f, S) /\ SumFunctionOnSet(f, S) = g[S]
  BY ZenonT(60), SumOf
<1>2. Summing(g, f, S)
  BY ZenonT(60), <1>1, SummingOf
<1>3. S \in SUBSET S
  OBVIOUS
<1> QED BY ZenonT(60), <1>1, <1>2, <1>3 DEF Summing

\* One member more.
LEMMA SumAdd ==
  ASSUME NEW S, IsFiniteSet(S), NEW f, NEW x, x \notin S, CountsOn(f, S), f[x] \in Nat
  PROVE  SumFunctionOnSet(f, S \cup {x}) = f[x] + SumFunctionOnSet(f, S)
<1> DEFINE U == S \cup {x}
<1>1. IsFiniteSet(U) /\ S \in SUBSET U /\ x \in U /\ CountsOn(f, U) /\ S \in SUBSET S
  BY FS_AddElement DEF CountsOn
<1>2. PICK u : u = U
  BY ZenonT(60)
<1> HIDE DEF U
<1>3. PICK g : SumsOver(g, f, u) /\ SumFunctionOnSet(f, u) = g[u]
  BY ZenonT(60), <1>1, <1>2, SumOf
<1>4. PICK h : SumsOver(h, f, S) /\ SumFunctionOnSet(f, S) = h[S]
  BY ZenonT(60), <1>1, SumOf
<1>5. g[S] = h[S]
  BY <1>1, <1>2, <1>3, <1>4, SumsAgree
<1>6. g[S \cup {x}] = f[x] + g[S]
  BY <1>1, <1>2, <1>3, SumsCommute
<1> QED BY ZenonT(60), <1>2, <1>3, <1>4, <1>5, <1>6 DEF U


\* One member taken out.
LEMMA SumTake ==
  ASSUME NEW S, IsFiniteSet(S), NEW f, CountsOn(f, S), NEW x \in S
  PROVE  /\ IsFiniteSet(S \ {x}) /\ CountsOn(f, S \ {x})
         /\ SumFunctionOnSet(f, S) = f[x] + SumFunctionOnSet(f, S \ {x})
<1>1. PICK r : r = S \ {x}
  BY ZenonT(60)
<1>2. IsFiniteSet(r) /\ CountsOn(f, r) /\ x \notin r /\ r \cup {x} = S /\ f[x] \in Nat
  BY <1>1, FS_RemoveElement DEF CountsOn
<1>3. SumFunctionOnSet(f, r \cup {x}) = f[x] + SumFunctionOnSet(f, r)
  BY ZenonT(60), <1>2, SumAdd
<1> QED BY ZenonT(60), <1>1, <1>2, <1>3

\* Equal counts have equal sums.
LEMMA SumSame ==
  ASSUME NEW S, IsFiniteSet(S), NEW f, NEW g, CountsOn(f, S), \A x \in S : g[x] = f[x]
  PROVE  SumFunctionOnSet(g, S) = SumFunctionOnSet(f, S)
<1> DEFINE T == {s \in SUBSET S : SumFunctionOnSet(g, s) # SumFunctionOnSet(f, s)}
<1>1. SUFFICES ASSUME T # {} PROVE FALSE
  <2>1. S \in SUBSET S
    OBVIOUS
  <2> QED BY ZenonT(60), <2>1
<1>2. PICK s : Smallest(s, T)
  <2>1. T \in SUBSET (SUBSET S)
    OBVIOUS
  <2> HIDE DEF T
  <2> QED BY ZenonT(60), <1>1, <2>1, SmallestSet
<1>3. s \in SUBSET S /\ SumFunctionOnSet(g, s) # SumFunctionOnSet(f, s)
  BY ZenonT(60), <1>2 DEF Smallest
<1>4. s # {}
  BY ZenonT(60), <1>3, SumEmpty
<1>5. PICK x : x \in s
  BY ZenonT(60), <1>4
<1>6. /\ IsFiniteSet(s) /\ CountsOn(f, s) /\ CountsOn(g, s) /\ x \in S /\ g[x] = f[x]
      /\ s \ {x} \in SUBSET S /\ s \ {x} \subseteq s /\ s \ {x} # s
  BY ZenonT(60), <1>3, <1>5, FS_Subset DEF CountsOn
<1>7. s \ {x} \notin T
  <2> HIDE DEF T
  <2> QED BY <1>2, <1>6 DEF Smallest
<1>8. SumFunctionOnSet(g, s \ {x}) = SumFunctionOnSet(f, s \ {x})
  BY ZenonT(60), <1>6, <1>7
<1>9. SumFunctionOnSet(f, s) = f[x] + SumFunctionOnSet(f, s \ {x})
  BY ZenonT(60), <1>5, <1>6, SumTake
<1>10. SumFunctionOnSet(g, s) = g[x] + SumFunctionOnSet(g, s \ {x})
  BY ZenonT(60), <1>5, <1>6, SumTake
<1> HIDE DEF T
<1> QED BY ZenonT(60), <1>3, <1>6, <1>8, <1>9, <1>10

\* One count changed.
LEMMA SumChange ==
  ASSUME NEW S, IsFiniteSet(S), NEW f, NEW g, CountsOn(f, S), NEW x \in S, g[x] \in Nat,
         \A y \in S \ {x} : g[y] = f[y]
  PROVE  /\ CountsOn(g, S)
         /\ SumFunctionOnSet(g, S) + f[x] = SumFunctionOnSet(f, S) + g[x]
<1>1. PICK r : r = S \ {x}
  BY ZenonT(60)
<1>2. CountsOn(g, S) /\ f[x] \in Nat
  BY DEF CountsOn
<1>3. IsFiniteSet(r) /\ CountsOn(f, r) /\ SumFunctionOnSet(f, S) = f[x] + SumFunctionOnSet(f, r)
  BY ZenonT(60), <1>1, SumTake
<1>4. SumFunctionOnSet(g, S) = g[x] + SumFunctionOnSet(g, r)
  BY ZenonT(60), <1>1, <1>2, SumTake
<1>5. SumFunctionOnSet(g, r) = SumFunctionOnSet(f, r)
  BY ZenonT(60), <1>1, <1>3, SumSame
<1>6. PICK n : n = SumFunctionOnSet(f, r)
  BY ZenonT(60)
<1>7. n \in Nat
  BY ZenonT(60), <1>3, <1>6, SumNat
<1>8. (g[x] + n) + f[x] = (f[x] + n) + g[x]
  BY <1>2, <1>7
<1> QED BY ZenonT(60), <1>2, <1>3, <1>4, <1>5, <1>6, <1>8

\* Counts that are zero everywhere add up to zero.
LEMMA SumZero ==
  ASSUME NEW S, IsFiniteSet(S), NEW f, \A x \in S : f[x] = 0
  PROVE  SumFunctionOnSet(f, S) = 0
<1> DEFINE T == {s \in SUBSET S : SumFunctionOnSet(f, s) # 0}
<1>1. SUFFICES ASSUME T # {} PROVE FALSE
  <2>1. S \in SUBSET S
    OBVIOUS
  <2> QED BY ZenonT(60), <2>1
<1>2. PICK s : Smallest(s, T)
  <2>1. T \in SUBSET (SUBSET S)
    OBVIOUS
  <2> HIDE DEF T
  <2> QED BY ZenonT(60), <1>1, <2>1, SmallestSet
<1>3. s \in SUBSET S /\ SumFunctionOnSet(f, s) # 0
  BY ZenonT(60), <1>2 DEF Smallest
<1>4. s # {}
  BY ZenonT(60), <1>3, SumEmpty
<1>5. PICK x : x \in s
  BY ZenonT(60), <1>4
<1>6. /\ IsFiniteSet(s) /\ CountsOn(f, s) /\ f[x] = 0
      /\ s \ {x} \in SUBSET S /\ s \ {x} \subseteq s /\ s \ {x} # s
  BY <1>3, <1>5, FS_Subset DEF CountsOn
<1>7. s \ {x} \notin T
  <2> HIDE DEF T
  <2> QED BY <1>2, <1>6 DEF Smallest
<1>8. SumFunctionOnSet(f, s \ {x}) = 0
  BY ZenonT(60), <1>6, <1>7
<1>9. SumFunctionOnSet(f, s) = f[x] + SumFunctionOnSet(f, s \ {x})
  BY ZenonT(60), <1>5, <1>6, SumTake
<1> HIDE DEF T
<1>10. SumFunctionOnSet(f, s) = 0 + 0
  BY ZenonT(60), <1>6, <1>8, <1>9
<1> QED BY <1>3, <1>10

\* A count is at most the sum.
LEMMA SumBounds ==
  ASSUME NEW S, IsFiniteSet(S), NEW f, CountsOn(f, S), NEW x \in S
  PROVE  f[x] \in Nat /\ f[x] <= SumFunctionOnSet(f, S)
<1>1. PICK n : n = SumFunctionOnSet(f, S \ {x})
  BY ZenonT(60)
<1>2. n \in Nat /\ SumFunctionOnSet(f, S) = f[x] + n
  BY ZenonT(60), <1>1, SumTake, SumNat
<1>3. f[x] \in Nat
  BY DEF CountsOn
<1> QED BY <1>2, <1>3


\* Two sets without common members.
LEMMA SumUnion ==
  ASSUME NEW S, IsFiniteSet(S), NEW U, IsFiniteSet(U), S \cap U = {}, NEW f,
         CountsOn(f, S), CountsOn(f, U)
  PROVE  SumFunctionOnSet(f, S \cup U) = SumFunctionOnSet(f, S) + SumFunctionOnSet(f, U)
<1> DEFINE Joins(s) == SumFunctionOnSet(f, S \cup s) = SumFunctionOnSet(f, S) + SumFunctionOnSet(f, s)
           T == {s \in SUBSET U : ~Joins(s)}
<1>1. SUFFICES ASSUME T # {} PROVE FALSE
  <2>1. U \in SUBSET U
    OBVIOUS
  <2> QED BY ZenonT(60), <2>1
<1>2. PICK s : Smallest(s, T)
  <2>1. T \in SUBSET (SUBSET U)
    OBVIOUS
  <2> HIDE DEF T
  <2> QED BY ZenonT(60), <1>1, <2>1, SmallestSet
<1>3. s \in SUBSET U /\ ~Joins(s)
  BY ZenonT(60), <1>2 DEF Smallest
<1>4. PICK n : n = SumFunctionOnSet(f, S)
  BY ZenonT(60)
<1>5. n \in Nat
  BY ZenonT(60), <1>4, SumNat
<1>6. s # {}
  <2>1. S \cup {} = S /\ n + 0 = n
    BY <1>5
  <2> QED BY ZenonT(60), <1>3, <1>4, <2>1, SumEmpty
<1>7. PICK x : x \in s
  BY ZenonT(60), <1>6
<1>8. PICK r : r = s \ {x}
  BY ZenonT(60)
<1>9. PICK v : v = S \cup r
  BY ZenonT(60)
<1>10. /\ r \in SUBSET U /\ r \subseteq s /\ r # s /\ r \cup {x} = s /\ x \notin r
       /\ IsFiniteSet(r) /\ CountsOn(f, r) /\ f[x] \in Nat
  BY ZenonT(60), <1>3, <1>7, <1>8, FS_Subset DEF CountsOn
<1>11. v \cup {x} = S \cup s /\ x \notin v /\ CountsOn(f, v)
  BY ZenonT(60), <1>3, <1>7, <1>8, <1>9, <1>10 DEF CountsOn
<1>12. IsFiniteSet(v)
  BY ZenonT(60), <1>9, <1>10, FS_Union
<1>13. r \notin T
  <2> HIDE DEF T
  <2> QED BY <1>2, <1>10 DEF Smallest
<1>14. SumFunctionOnSet(f, v) = n + SumFunctionOnSet(f, r)
  BY ZenonT(60), <1>4, <1>9, <1>10, <1>13
<1>15. SumFunctionOnSet(f, S \cup s) = f[x] + SumFunctionOnSet(f, v)
  BY ZenonT(60), <1>10, <1>11, <1>12, SumAdd
<1>16. SumFunctionOnSet(f, s) = f[x] + SumFunctionOnSet(f, r)
  BY ZenonT(60), <1>10, SumAdd
<1>17. PICK m : m = SumFunctionOnSet(f, r)
  BY ZenonT(60)
<1>18. m \in Nat
  BY ZenonT(60), <1>10, <1>17, SumNat
<1>19. f[x] + (n + m) = n + (f[x] + m)
  BY <1>5, <1>10, <1>18
<1> HIDE DEF T
<1> QED BY ZenonT(60), <1>3, <1>4, <1>14, <1>15, <1>16, <1>17, <1>19

\* Counts added place by place.
LEMMA SumPlus ==
  ASSUME NEW S, IsFiniteSet(S), NEW f, NEW g, NEW h, CountsOn(f, S), CountsOn(g, S),
         \A x \in S : h[x] = f[x] + g[x]
  PROVE  SumFunctionOnSet(h, S) = SumFunctionOnSet(f, S) + SumFunctionOnSet(g, S)
<1> DEFINE Adds(s) == SumFunctionOnSet(h, s) = SumFunctionOnSet(f, s) + SumFunctionOnSet(g, s)
           T == {s \in SUBSET S : ~Adds(s)}
<1>1. SUFFICES ASSUME T # {} PROVE FALSE
  <2>1. S \in SUBSET S
    OBVIOUS
  <2> QED BY ZenonT(60), <2>1
<1>2. PICK s : Smallest(s, T)
  <2>1. T \in SUBSET (SUBSET S)
    OBVIOUS
  <2> HIDE DEF T
  <2> QED BY ZenonT(60), <1>1, <2>1, SmallestSet
<1>3. s \in SUBSET S /\ ~Adds(s)
  BY ZenonT(60), <1>2 DEF Smallest
<1>4. s # {}
  <2>1. 0 + 0 = 0
    OBVIOUS
  <2> QED BY ZenonT(60), <1>3, <2>1, SumEmpty
<1>5. PICK x : x \in s
  BY ZenonT(60), <1>4
<1>6. PICK r : r = s \ {x}
  BY ZenonT(60)
<1>7. /\ r \in SUBSET S /\ r \subseteq s /\ r # s /\ r \cup {x} = s /\ x \notin r
      /\ IsFiniteSet(r) /\ f[x] \in Nat /\ g[x] \in Nat /\ h[x] = f[x] + g[x]
      /\ CountsOn(f, r) /\ CountsOn(g, r)
  BY ZenonT(60), <1>3, <1>5, <1>6, FS_Subset DEF CountsOn
<1>8. h[x] \in Nat /\ CountsOn(h, r)
  <2>1. \A y \in S : f[y] \in Nat /\ g[y] \in Nat
    BY ZenonT(60) DEF CountsOn
  <2>2. \A y \in S : h[y] \in Nat
    BY <2>1
  <2> QED BY <1>7, <2>2 DEF CountsOn
<1>9. r \notin T
  <2> HIDE DEF T
  <2> QED BY ZenonT(60), <1>2, <1>7 DEF Smallest
<1>10. PICK m : m = SumFunctionOnSet(f, r)
  BY ZenonT(60)
<1>11. PICK n : n = SumFunctionOnSet(g, r)
  BY ZenonT(60)
<1>12. m \in Nat /\ n \in Nat
  BY ZenonT(60), <1>7, <1>10, <1>11, SumNat
<1>13. SumFunctionOnSet(h, r) = m + n
  BY ZenonT(60), <1>7, <1>9, <1>10, <1>11
<1>14. SumFunctionOnSet(h, s) = h[x] + (m + n)
  BY ZenonT(60), <1>7, <1>8, <1>13, SumAdd
<1>15. SumFunctionOnSet(f, s) = f[x] + m
  BY ZenonT(60), <1>7, <1>10, SumAdd
<1>16. SumFunctionOnSet(g, s) = g[x] + n
  BY ZenonT(60), <1>7, <1>11, SumAdd
<1>17. h[x] + (m + n) = (f[x] + m) + (g[x] + n)
  BY <1>7, <1>12
<1> HIDE DEF T
<1> QED BY ZenonT(60), <1>3, <1>14, <1>15, <1>16, <1>17


-----------------------------------------------------------------------------
\* A table of counts, and what it counts in all.
IsTable(t) == IsFiniteSet(DOMAIN t) /\ CountsOn(t, DOMAIN t)
TableTotal(t) == SumFunctionOnSet(t, DOMAIN t)
EntryOf(t, k) == IF k \in DOMAIN t THEN t[k] ELSE 0

\* u is t with n more in the entry k, which is made if there is none.
GrowsBy(t, u, k, n) ==
  /\ DOMAIN u = DOMAIN t \cup {k}
  /\ u[k] = EntryOf(t, k) + n
  /\ \A m \in DOMAIN t \ {k} : u[m] = t[m]

\* u is t without the entry k.
Loses(t, u, k) ==
  /\ DOMAIN u = DOMAIN t \ {k}
  /\ \A m \in DOMAIN u : u[m] = t[m]

\* An entry that grows by n adds n to the total.
LEMMA TableGrows ==
  ASSUME NEW t, IsTable(t), NEW u, NEW k, NEW n \in Nat, GrowsBy(t, u, k, n)
  PROVE  /\ IsTable(u) /\ TableTotal(t) \in Nat /\ TableTotal(u) = TableTotal(t) + n
         /\ k \in DOMAIN t => Cardinality(DOMAIN u) = Cardinality(DOMAIN t)
         /\ k \notin DOMAIN t => Cardinality(DOMAIN u) = Cardinality(DOMAIN t) + 1
<1> DEFINE D == DOMAIN t
<1>1. IsFiniteSet(D) /\ CountsOn(t, D) /\ TableTotal(t) = SumFunctionOnSet(t, D)
  BY DEF IsTable, TableTotal
<1>2. TableTotal(t) \in Nat
  BY ZenonT(60), <1>1, SumNat
<1>3. /\ DOMAIN u = D \cup {k} /\ u[k] = EntryOf(t, k) + n
      /\ \A m \in D \ {k} : u[m] = t[m]
  BY ZenonT(60) DEF GrowsBy
<1> HIDE DEF D
<1>4. CASE k \in D
  <2>1. D \cup {k} = D
    BY <1>4
  <2>2. u[k] = t[k] + n /\ t[k] \in Nat
    BY ZenonT(60), <1>1, <1>3, <1>4 DEF EntryOf, D, CountsOn
  <2>3. u[k] \in Nat
    BY <2>2
  <2>4. CountsOn(u, D) /\ SumFunctionOnSet(u, D) + t[k] = SumFunctionOnSet(t, D) + u[k]
    BY <1>1, <1>3, <1>4, <2>3, SumChange
  <2>5. SumFunctionOnSet(u, D) \in Nat
    BY ZenonT(60), <1>1, <2>4, SumNat
  <2>6. SumFunctionOnSet(u, D) = TableTotal(t) + n
    BY <1>1, <1>2, <2>2, <2>4, <2>5
  <2>7. DOMAIN u = D
    BY ZenonT(60), <1>3, <2>1
  <2> QED BY ZenonT(60), <1>1, <1>2, <1>4, <2>4, <2>6, <2>7 DEF IsTable, TableTotal, D
<1>5. CASE k \notin D
  <2>1. u[k] = 0 + n
    BY ZenonT(60), <1>3, <1>5 DEF EntryOf, D
  <2>2. u[k] = n
    BY <2>1
  <2>3. \A m \in D : u[m] = t[m]
    BY <1>3, <1>5
  <2>4. CountsOn(u, D) /\ CountsOn(u, D \cup {k})
    BY ZenonT(60), <1>1, <2>2, <2>3 DEF CountsOn
  <2>5. SumFunctionOnSet(u, D) = SumFunctionOnSet(t, D)
    BY <1>1, <2>3, SumSame
  <2>6. SumFunctionOnSet(u, D \cup {k}) = u[k] + SumFunctionOnSet(u, D)
    BY ZenonT(60), <1>1, <1>5, <2>2, <2>4, SumAdd
  <2>7. SumFunctionOnSet(u, D \cup {k}) = n + TableTotal(t)
    BY ZenonT(60), <1>1, <2>2, <2>5, <2>6
  <2>8. n + TableTotal(t) = TableTotal(t) + n
    BY <1>2
  <2>9. IsFiniteSet(D \cup {k}) /\ Cardinality(D \cup {k}) = Cardinality(D) + 1
    BY ZenonT(60), <1>1, <1>5, FS_AddElement
  <2> QED BY ZenonT(60), <1>2, <1>3, <1>5, <2>4, <2>7, <2>8, <2>9 DEF IsTable, TableTotal, D
<1> QED BY ZenonT(60), <1>4, <1>5

\* An entry that is taken out takes its count with it.
LEMMA TableLoses ==
  ASSUME NEW t, IsTable(t), NEW u, NEW k \in DOMAIN t, Loses(t, u, k)
  PROVE  /\ IsTable(u) /\ t[k] \in Nat /\ TableTotal(u) \in Nat
         /\ TableTotal(t) = TableTotal(u) + t[k]
         /\ Cardinality(DOMAIN u) = Cardinality(DOMAIN t) - 1
<1> DEFINE D == DOMAIN t
<1>1. IsFiniteSet(D) /\ CountsOn(t, D) /\ TableTotal(t) = SumFunctionOnSet(t, D) /\ k \in D
  BY DEF IsTable, TableTotal
<1>2. DOMAIN u = D \ {k} /\ \A m \in D \ {k} : u[m] = t[m]
  BY ZenonT(60) DEF Loses
<1> HIDE DEF D
<1>3. /\ IsFiniteSet(D \ {k}) /\ CountsOn(t, D \ {k})
      /\ SumFunctionOnSet(t, D) = t[k] + SumFunctionOnSet(t, D \ {k})
  BY ZenonT(60), <1>1, SumTake
<1>4. CountsOn(u, D \ {k})
  BY ZenonT(60), <1>2, <1>3 DEF CountsOn
<1>5. SumFunctionOnSet(u, D \ {k}) = SumFunctionOnSet(t, D \ {k})
  BY ZenonT(60), <1>2, <1>3, SumSame
<1>6. t[k] \in Nat /\ SumFunctionOnSet(t, D \ {k}) \in Nat
  BY ZenonT(60), <1>1, <1>3, SumNat DEF CountsOn
<1>7. t[k] + SumFunctionOnSet(t, D \ {k}) = SumFunctionOnSet(t, D \ {k}) + t[k]
  BY <1>6
<1>8. Cardinality(D \ {k}) = Cardinality(D) - 1
  BY ZenonT(60), <1>1, FS_RemoveElement
<1> QED BY ZenonT(60), <1>1, <1>2, <1>3, <1>4, <1>5, <1>6, <1>7, <1>8 DEF IsTable, TableTotal, D


-----------------------------------------------------------------------------
\* g is f where f counts, and zero elsewhere.
Extends(g, f, S, U) == (\A x \in S : g[x] = f[x]) /\ (\A x \in U \ S : g[x] = 0)

\* Zeros add nothing.
LEMMA SumExtends ==
  ASSUME NEW U, IsFiniteSet(U), NEW S \in SUBSET U, NEW f, CountsOn(f, S), NEW g, Extends(g, f, S, U)
  PROVE  CountsOn(g, U) /\ SumFunctionOnSet(g, U) = SumFunctionOnSet(f, S)
<1>1. (\A x \in S : g[x] = f[x]) /\ (\A x \in U \ S : g[x] = 0)
  BY DEF Extends
<1>2. IsFiniteSet(S) /\ IsFiniteSet(U \ S)
  <2>1. U \ S \subseteq U /\ S \subseteq U
    OBVIOUS
  <2> QED BY <2>1, FS_Subset
<1>3. CountsOn(g, S) /\ CountsOn(g, U \ S) /\ CountsOn(g, U)
  BY <1>1 DEF CountsOn
<1>4. SumFunctionOnSet(g, S) = SumFunctionOnSet(f, S)
  BY ZenonT(60), <1>1, <1>2, SumSame
<1>5. SumFunctionOnSet(g, U \ S) = 0
  BY ZenonT(60), <1>1, <1>2, SumZero
<1>6. S \cup (U \ S) = U /\ S \cap (U \ S) = {}
  OBVIOUS
<1>7. SumFunctionOnSet(g, S \cup (U \ S)) = SumFunctionOnSet(g, S) + SumFunctionOnSet(g, U \ S)
  BY ZenonT(60), <1>2, <1>3, <1>6, SumUnion
<1>8. SumFunctionOnSet(f, S) \in Nat
  BY ZenonT(60), <1>2, SumNat
<1>9. SumFunctionOnSet(g, U) = SumFunctionOnSet(f, S) + 0
  BY ZenonT(60), <1>4, <1>5, <1>6, <1>7
<1>10. SumFunctionOnSet(f, S) + 0 = SumFunctionOnSet(f, S)
  BY <1>8
<1> QED BY ZenonT(60), <1>3, <1>9, <1>10

\* A finite set of numbers that is not empty has a largest one.
LEMMA LargestNumber ==
  ASSUME NEW I, IsFiniteSet(I), I \subseteq Nat, I # {}
  PROVE  \E b \in I : \A y \in I : y <= b
<1> DEFINE Above(b) == {y \in I : y >= b}
           T == {Above(b) : b \in I}
<1>1. T \in SUBSET (SUBSET I) /\ T # {}
  BY ZenonT(30)
<1>2. PICK s : Smallest(s, T)
  BY ZenonT(60), <1>1, SmallestSet
<1>3. s \in T /\ \A t \in T : t \subseteq s => t = s
  BY <1>2 DEF Smallest
<1>4. PICK b \in I : s = Above(b)
  BY <1>3
<1>5. ASSUME NEW y \in I  PROVE y <= b
  <2> SUFFICES ASSUME ~(y <= b) PROVE FALSE
    OBVIOUS
  <2>1. y \in Nat /\ b \in Nat /\ y > b
    OBVIOUS
  <2>2. ASSUME NEW z \in Above(y) PROVE z \in Above(b)
    <3>1. z \in I /\ z \in Nat /\ z >= y
      OBVIOUS
    <3>2. z >= b
      BY <2>1, <3>1
    <3> QED BY ZenonT(60), <3>1, <3>2
  <2>3. b \in Above(b) /\ b \notin Above(y)
    BY <2>1
  <2>4. Above(y) \in T
    OBVIOUS
  <2> HIDE DEF T, Above
  <2> QED BY ZenonT(60), <1>3, <1>4, <2>2, <2>3, <2>4
<1> QED BY <1>5

\* The members of F that are taken in order while fewer than m are in use: they fit.
LEMMA RoomFor ==
  ASSUME NEW F, IsFiniteSet(F), F \subseteq Nat, NEW n \in Nat, NEW m \in Nat, n <= m,
         NEW I, I = {b \in F : Cardinality({x \in F : x < b}) + n < m}
  PROVE  IsFiniteSet(I) /\ Cardinality(I) \in Nat /\ Cardinality(I) + n <= m
<1>1. IsFiniteSet(I) /\ Cardinality(I) \in Nat
  <2>1. I \subseteq F
    OBVIOUS
  <2> QED BY ZenonT(30), <2>1, FS_Subset, FS_CardinalityType
<1>2. CASE I = {}
  <2>1. Cardinality(I) = 0
    BY ZenonT(60), <1>2, FS_EmptySet
  <2>2. 0 + n <= m
    OBVIOUS
  <2> QED BY ZenonT(60), <1>1, <2>1, <2>2
<1>3. CASE I # {}
  <2>1. I \subseteq Nat
    BY ZenonT(30)
  <2>2. PICK b \in I : \A y \in I : y <= b
    BY ZenonT(60), <1>1, <1>3, <2>1, LargestNumber
  <2> DEFINE L == {x \in F : x < b}
  <2>3. b \in Nat /\ b \in F /\ Cardinality(L) + n < m
    OBVIOUS
  <2>4. L \subseteq F /\ I \subseteq L \cup {b} /\ b \notin L
    <3>1. ASSUME NEW y \in I  PROVE y \in L \cup {b}
      <4>1. y \in F /\ y \in Nat /\ y <= b
        BY ZenonT(60), <2>2
      <4>2. y < b \/ y = b
        BY <2>3, <4>1
      <4> QED BY <4>1, <4>2
    <3>2. b \notin L
      BY <2>3
    <3> QED BY ZenonT(60), <3>1, <3>2
  <2> HIDE DEF L
  <2>5. IsFiniteSet(L) /\ Cardinality(L) \in Nat
    BY ZenonT(30), <2>4, FS_Subset, FS_CardinalityType
  <2>6. IsFiniteSet(L \cup {b}) /\ Cardinality(L \cup {b}) = Cardinality(L) + 1
    BY ZenonT(60), <2>4, <2>5, FS_AddElement
  <2>7. Cardinality(I) <= Cardinality(L \cup {b})
    BY ZenonT(30), <2>4, <2>6, FS_Subset
  <2> QED BY <1>1, <2>3, <2>5, <2>6, <2>7
<1> QED BY ZenonT(60), <1>1, <1>2, <1>3

-----------------------------------------------------------------------------
\* The keys of the table of drops, the windows, and where a request may be.
AggregateKeys == Nat \X Nat \X Nat \X Nat
Windows == 0 .. MaxWindow
RequestRecs ==
  [at : {"idle", "timed", "checked", "running"}, class : 0 .. 3, shard : Nat, window : Windows]

\* A request that is under way has a class and a shard.
RequestPlaced(r) ==
  r \in RequestRecs /\ (r.at # "idle" => r.class \in ClassLogin .. ClassAuthenticated /\ r.shard \in ShardIds)

\* What a bucket with allowance A that counts window W has granted, in every window: it has
\* granted its attempts again for every call that set it back, in the windows before the
\* current one once more, and what it has used in the current one.
Budget(A, W, u, adm, ov) ==
  /\ u \in Nat /\ u <= A
  /\ \A v \in Windows :
       adm[v] <= A * ov[v] + (IF v < W THEN A ELSE IF v = W THEN u ELSE 0)

\* The inductive invariant: of the requests, of the buckets and of the table of drops.
RequestsInv ==
  /\ windowNow \in Windows
  /\ requests = [c \in Callers |-> requests[c]]
  /\ \A c \in Callers : RequestPlaced(requests[c])

BucketInv(b) ==
  /\ buckets[b] \in [window : Windows, used : Nat]
  /\ admitted[b] \in [Windows -> Nat] /\ overtaken[b] \in [Windows -> Nat]
  /\ Budget(Allowance(b), buckets[b].window, buckets[b].used, admitted[b], overtaken[b])

BucketsInv == \A b \in BucketIds : BucketInv(b)

DropsInv ==
  /\ IsTable(drops) /\ DOMAIN drops \subseteq AggregateKeys
  /\ recorded \in Nat /\ drained \in Nat
  /\ drained + TableTotal(drops) = recorded
  /\ Cardinality(DOMAIN drops) <= MaxAggregates

\* A bucket within its budget, and one step of it: a call of window w finds it at window W.
Within(A, W, u, adm, ov) ==
  /\ A \in Nat /\ W \in Windows /\ adm \in [Windows -> Nat] /\ ov \in [Windows -> Nat]
  /\ Budget(A, W, u, adm, ov)

Tries(A, W, u, adm, ov, w, used, adm2, ov2) ==
  /\ used = IF W = w THEN u ELSE 0
  /\ adm2 = IF used < A THEN [adm EXCEPT ![w] = adm[w] + 1] ELSE adm
  /\ ov2 = IF w < W THEN [v \in Windows |-> ov[v] + (IF v \in w .. W THEN 1 ELSE 0)] ELSE ov

\* The step keeps the bucket within its budget.
LEMMA BudgetStep ==
  ASSUME NEW A, NEW W, NEW w \in Windows, NEW u, NEW adm, NEW ov, NEW used, NEW adm2, NEW ov2,
         Within(A, W, u, adm, ov), Tries(A, W, u, adm, ov, w, used, adm2, ov2)
  PROVE  /\ adm2 \in [Windows -> Nat] /\ ov2 \in [Windows -> Nat]
         /\ Budget(A, w, IF used < A THEN used + 1 ELSE used, adm2, ov2)
<1>0. /\ A \in Nat /\ W \in Windows /\ u \in Nat /\ used \in Nat
      /\ adm \in [Windows -> Nat] /\ ov \in [Windows -> Nat]
      /\ used = IF W = w THEN u ELSE 0
      /\ adm2 = IF used < A THEN [adm EXCEPT ![w] = adm[w] + 1] ELSE adm
      /\ ov2 = IF w < W THEN [v \in Windows |-> ov[v] + (IF v \in w .. W THEN 1 ELSE 0)] ELSE ov
  BY ZenonT(60) DEF Within, Tries, Budget
<1> DEFINE more == IF used < A THEN 1 ELSE 0
<1>1. W \in Nat /\ w \in Nat /\ MaxWindow \in Nat /\ (\A v \in Windows : v \in Nat)
  BY <1>0, LimiterBounds DEF Windows
<1>2. /\ u <= A
      /\ \A v \in Windows : adm[v] <= A * ov[v] + (IF v < W THEN A ELSE IF v = W THEN u ELSE 0)
  BY ZenonT(60) DEF Within, Budget
<1>3. adm2 \in [Windows -> Nat] /\ ov2 \in [Windows -> Nat]
  <2>1. adm2 \in [Windows -> Nat]
    BY <1>0, <1>1
  <2>2. CASE w < W
    <3>1. ov2 = [v \in Windows |-> ov[v] + (IF v \in w .. W THEN 1 ELSE 0)]
      BY ZenonT(60), <1>0, <2>2
    <3> QED BY <1>0, <2>1, <3>1
  <2> QED BY ZenonT(60), <1>0, <1>1, <2>1, <2>2
<1>4. used <= A /\ more \in Nat /\ used + more <= A
      /\ (IF used < A THEN used + 1 ELSE used) = used + more
  BY <1>0, <1>2
<1>5. ASSUME NEW v \in Windows
      PROVE  adm2[v] <= A * ov2[v] + (IF v < w THEN A ELSE IF v = w THEN used + more ELSE 0)
  <2>1. v \in Nat /\ adm[v] \in Nat /\ ov[v] \in Nat /\ A * ov[v] \in Nat
    BY <1>0, <1>1
  <2>2. A * (ov[v] + 1) = A * ov[v] + A
    BY <1>0, <2>1
  <2>3. adm2[v] = adm[v] + (IF v = w THEN more ELSE 0)
    BY <1>0, <1>1, <2>1
  <2>4. ov2[v] = IF w < W /\ w <= v /\ v <= W THEN ov[v] + 1 ELSE ov[v]
    BY <1>0, <1>1, <2>1
  <2>5. adm[v] <= A * ov[v] + (IF v < W THEN A ELSE IF v = W THEN u ELSE 0)
    BY ZenonT(60), <1>2
  <2> DEFINE a == adm[v]
             x == A * ov[v]
             y == A * ov2[v]
  <2>6. y = IF w < W /\ w <= v /\ v <= W THEN x + A ELSE x
    BY ZenonT(60), <2>2, <2>4
  <2>7. a \in Nat /\ x \in Nat /\ a <= x + (IF v < W THEN A ELSE IF v = W THEN u ELSE 0)
    BY ZenonT(60), <2>1, <2>5
  <2> HIDE DEF a, x, y, more
  <2>8. a + (IF v = w THEN more ELSE 0) <= y + (IF v < w THEN A ELSE IF v = w THEN used + more ELSE 0)
    BY <1>0, <1>1, <1>2, <1>4, <2>1, <2>6, <2>7
  <2> QED BY ZenonT(60), <2>3, <2>8 DEF a, y
<1>6. used + more \in Nat
  BY <1>0, <1>4
<1> HIDE DEF more
<1> QED BY ZenonT(60), <1>3, <1>4, <1>5, <1>6 DEF Budget


\* The buckets that are tried stay within their budget.
LEMMA ConsumeKeeps ==
  ASSUME BucketsInv, NEW w \in Windows, NEW bs \in SUBSET BucketIds, NEW ok,
         ok = {b \in bs : Grants(b, w)}, Consume(bs, ok, w)
  PROVE  BucketsInv'
<1> SUFFICES ASSUME NEW b \in BucketIds PROVE BucketInv(b)'
  BY DEF BucketsInv
<1>1. BucketInv(b)
  BY ZenonT(60) DEF BucketsInv
<1>2. /\ buckets'[b] = IF b \in bs THEN Charged(b, w) ELSE buckets[b]
      /\ admitted'[b] = IF b \in ok THEN [admitted[b] EXCEPT ![w] = admitted[b][w] + 1] ELSE admitted[b]
      /\ overtaken'[b] = IF b \in bs /\ w < buckets[b].window
                    THEN [v \in Windows |->
                            overtaken[b][v] + (IF v \in w .. buckets[b].window THEN 1 ELSE 0)]
                    ELSE overtaken[b]
  BY ZenonT(60) DEF Consume, Windows
<1>3. Allowance(b) \in Nat
  BY LimiterBounds DEF Allowance
<1>4. CASE b \notin bs
  <2>1. buckets'[b] = buckets[b] /\ admitted'[b] = admitted[b] /\ overtaken'[b] = overtaken[b]
    BY ZenonT(60), <1>2, <1>4
  <2> QED BY ZenonT(60), <1>1, <2>1 DEF BucketInv
<1>5. CASE b \in bs
  <2> DEFINE W == buckets[b].window
             u == buckets[b].used
             used == Opened(b, w).used
             A == Allowance(b)
  <2>1. W \in Windows /\ u \in Nat /\ admitted[b] \in [Windows -> Nat] /\ overtaken[b] \in [Windows -> Nat]
        /\ Budget(A, W, u, admitted[b], overtaken[b])
    BY ZenonT(60), <1>1 DEF BucketInv
  <2>2. used = (IF W = w THEN u ELSE 0) /\ used \in Nat
    BY ZenonT(60), <2>1 DEF Opened
  <2>3. Charged(b, w) = [window |-> w, used |-> IF used < A THEN used + 1 ELSE used]
    BY <1>1 DEF Charged, Opened, Grants, BucketInv
  <2>4. b \in ok <=> used < A
    BY ZenonT(60), <1>5 DEF Grants
  <2>5. /\ admitted'[b] = IF used < A THEN [admitted[b] EXCEPT ![w] = admitted[b][w] + 1] ELSE admitted[b]
        /\ overtaken'[b] = IF w < W THEN [v \in Windows |-> overtaken[b][v] + (IF v \in w .. W THEN 1 ELSE 0)]
                    ELSE overtaken[b]
    BY ZenonT(60), <1>2, <1>5, <2>4
  <2>6. PICK adm, ov, adm2, ov2 : adm = admitted[b] /\ ov = overtaken[b] /\ adm2 = admitted'[b] /\ ov2 = overtaken'[b]
    BY ZenonT(60)
  <2> HIDE DEF W, u, used, A
  <2>7. /\ adm2 \in [Windows -> Nat] /\ ov2 \in [Windows -> Nat]
        /\ Budget(A, w, IF used < A THEN used + 1 ELSE used, adm2, ov2)
    <3>1. Within(A, W, u, adm, ov)
      BY ZenonT(60), <1>3, <2>1, <2>6 DEF Within, A
    <3>2. Tries(A, W, u, adm, ov, w, used, adm2, ov2)
      BY ZenonT(60), <2>2, <2>5, <2>6 DEF Tries
    <3> QED BY ZenonT(60), <3>1, <3>2, BudgetStep
  <2>8. buckets'[b] = [window |-> w, used |-> IF used < A THEN used + 1 ELSE used]
    BY ZenonT(60), <1>2, <1>5, <2>3
  <2>9. /\ buckets'[b].window = w /\ buckets'[b].used = (IF used < A THEN used + 1 ELSE used)
        /\ buckets'[b] \in [window : Windows, used : Nat]
    BY <2>2, <2>8
  <2> QED BY ZenonT(60), <2>6, <2>7, <2>9 DEF BucketInv, A
<1> QED BY ZenonT(60), <1>4, <1>5

\* One key comes before the other.
LEMMA KeyOrder ==
  ASSUME NEW k \in AggregateKeys, NEW m \in AggregateKeys
  PROVE  KeyBefore(k, m) <=> \/ k[1] < m[1]
                             \/ k[1] = m[1] /\ k[2] < m[2]
                             \/ k[1] = m[1] /\ k[2] = m[2] /\ k[3] < m[3]
                             \/ k[1] = m[1] /\ k[2] = m[2] /\ k[3] = m[3] /\ k[4] < m[4]
<1> DEFINE At(i) == k[i] < m[i] /\ \A j \in 1 .. i - 1 : k[j] = m[j]
<1>1. KeyBefore(k, m) <=> At(1) \/ At(2) \/ At(3) \/ At(4)
  <2>1. \A i : i \in 1 .. 4 <=> i = 1 \/ i = 2 \/ i = 3 \/ i = 4
    OBVIOUS
  <2>2. KeyBefore(k, m) <=> \E i \in 1 .. 4 : At(i)
    BY ZenonT(60) DEF KeyBefore
  <2> HIDE DEF At
  <2> QED BY ZenonT(60), <2>1, <2>2
<1>2. /\ At(1) <=> k[1] < m[1]
      /\ At(2) <=> k[1] = m[1] /\ k[2] < m[2]
  BY SMT
<1>3. At(3) <=> k[1] = m[1] /\ k[2] = m[2] /\ k[3] < m[3]
  <2>1. \A j : j \in 1 .. 3 - 1 <=> j = 1 \/ j = 2
    OBVIOUS
  <2> QED BY ZenonT(60), <2>1
<1>4. At(4) <=> k[1] = m[1] /\ k[2] = m[2] /\ k[3] = m[3] /\ k[4] < m[4]
  <2>1. \A j : j \in 1 .. 4 - 1 <=> j = 1 \/ j = 2 \/ j = 3
    OBVIOUS
  <2> QED BY ZenonT(60), <2>1
<1> HIDE DEF At
<1> QED BY ZenonT(60), <1>1, <1>2, <1>3, <1>4

\* The order of the keys is total and transitive.
LEMMA KeysOrdered ==
  ASSUME NEW k \in AggregateKeys, NEW m \in AggregateKeys, NEW n \in AggregateKeys
  PROVE  /\ k = m \/ KeyBefore(k, m) \/ KeyBefore(m, k)
         /\ KeyBefore(k, m) /\ KeyBefore(m, n) => KeyBefore(k, n)
<1>1. /\ k[1] \in Nat /\ k[2] \in Nat /\ k[3] \in Nat /\ k[4] \in Nat
      /\ m[1] \in Nat /\ m[2] \in Nat /\ m[3] \in Nat /\ m[4] \in Nat
      /\ n[1] \in Nat /\ n[2] \in Nat /\ n[3] \in Nat /\ n[4] \in Nat
      /\ k = <<k[1], k[2], k[3], k[4]>> /\ m = <<m[1], m[2], m[3], m[4]>>
  BY DEF AggregateKeys
<1>2. k[1] = m[1] /\ k[2] = m[2] /\ k[3] = m[3] /\ k[4] = m[4] => k = m
  BY ZenonT(60), <1>1
<1>3. k = m \/ KeyBefore(k, m) \/ KeyBefore(m, k)
  BY <1>1, <1>2, KeyOrder
<1>4. KeyBefore(k, m) /\ KeyBefore(m, n) => KeyBefore(k, n)
  BY <1>1, KeyOrder
<1> QED BY ZenonT(60), <1>3, <1>4

\* So a table that is not empty has an oldest entry.
LEMMA OldestThere ==
  ASSUME IsFiniteSet(DOMAIN drops), DOMAIN drops \subseteq AggregateKeys, DOMAIN drops # {}
  PROVE  Oldest \in DOMAIN drops
<1> PICK D : D = DOMAIN drops
  BY ZenonT(60)
<1>1. IsFiniteSet(D) /\ D \subseteq AggregateKeys /\ D # {}
  BY ZenonT(60)
<1> DEFINE HasFirst(s) == \E k \in s : \A m \in s \ {k} : KeyBefore(k, m)
           T == {s \in SUBSET D : s # {} /\ ~HasFirst(s)}
<1>2. T = {}
  <2> SUFFICES ASSUME T # {} PROVE FALSE
    OBVIOUS
  <2>1. T \in SUBSET (SUBSET D)
    OBVIOUS
  <2>2. PICK s : Smallest(s, T)
    BY ZenonT(60), <1>1, <2>1, SmallestSet
  <2>3. s \in SUBSET D /\ s # {} /\ ~HasFirst(s) /\ \A t \in T : t \subseteq s => t = s
    BY ZenonT(60), <2>2 DEF Smallest
  <2>4. PICK x \in s : TRUE
    BY ZenonT(60), <2>3
  <2>5. s \ {x} # {}
    <3> SUFFICES ASSUME s \ {x} = {} PROVE FALSE
      OBVIOUS
    <3>1. HasFirst(s)
      BY ZenonT(60), <2>4
    <3> QED BY ZenonT(60), <2>3, <3>1
  <2>6. HasFirst(s \ {x})
    <3> HIDE DEF HasFirst
    <3>1. s \ {x} \subseteq s /\ s \ {x} # s /\ s \ {x} \in SUBSET D
      BY ZenonT(60), <2>3, <2>4
    <3>2. s \ {x} \notin T
      BY ZenonT(60), <2>3, <3>1
    <3> QED BY ZenonT(60), <2>5, <3>1, <3>2
  <2>7. PICK k \in s \ {x} : \A m \in (s \ {x}) \ {k} : KeyBefore(k, m)
    BY ZenonT(60), <2>6
  <2>8. k \in AggregateKeys /\ x \in AggregateKeys /\ k # x /\ k \in s
    BY ZenonT(60), <1>1, <2>3, <2>4, <2>7
  <2>9. CASE KeyBefore(k, x)
    <3>1. \A m \in s \ {k} : KeyBefore(k, m)
      BY ZenonT(60), <2>7, <2>9
    <3> QED BY ZenonT(60), <2>3, <2>8, <3>1
  <2>10. CASE KeyBefore(x, k)
    <3>1. ASSUME NEW m \in s \ {x}  PROVE KeyBefore(x, m)
      <4>1. m = k \/ KeyBefore(k, m)
        BY ZenonT(60), <2>7
      <4>2. m \in AggregateKeys
        BY ZenonT(60), <1>1, <2>3
      <4> QED BY ZenonT(60), <2>8, <2>10, <4>1, <4>2, KeysOrdered
    <3> QED BY ZenonT(60), <2>3, <2>4, <3>1
  <2> QED BY ZenonT(60), <2>8, <2>9, <2>10, KeysOrdered
<1>3. HasFirst(D)
  <2> HIDE DEF HasFirst
  <2>1. D \in SUBSET D
    OBVIOUS
  <2> QED BY ZenonT(60), <1>1, <1>2, <2>1
<1> QED BY ZenonT(60), <1>3 DEF Oldest


\* Counting n more under a key.
LEMMA CountedGrows ==
  ASSUME NEW t, IsTable(t), NEW k, NEW n \in Nat
  PROVE  GrowsBy(t, Counted(t, k, n), k, n)
<1> DEFINE u == Counted(t, k, n)
<1>1. /\ DOMAIN u = DOMAIN t \cup {k}
      /\ \A m \in DOMAIN t \cup {k} : u[m] = CountOf(t, m) + (IF m = k THEN n ELSE 0)
  BY ZenonT(60) DEF Counted
<1> HIDE DEF u
<1>2. u[k] = EntryOf(t, k) + n
  BY ZenonT(60), <1>1 DEF CountOf, EntryOf
<1>3. ASSUME NEW m \in DOMAIN t \ {k}  PROVE u[m] = t[m]
  <2>1. u[m] = t[m] + 0 /\ t[m] \in Nat
    BY ZenonT(60), <1>1 DEF CountOf, IsTable, CountsOn
  <2> QED BY <2>1
<1> QED BY ZenonT(60), <1>1, <1>2, <1>3 DEF GrowsBy, u

\* A drop is recorded in an entry of its own while there is room, and else in the overflow
\* entry, which takes over the oldest one when it has to be made.
LEMMA DropKeeps ==
  ASSUME DropsInv, UNCHANGED drained, NEW class \in Nat, NEW reason \in Nat, NEW shard \in Nat,
         NEW w \in Nat, Drop(class, reason, shard, w)
  PROVE  DropsInv'
<1> DEFINE key == <<class, reason, shard, w>>
           overflow == <<ClassOverflow, reason, OverflowShard, w>>
           full == Cardinality(DOMAIN drops) >= MaxAggregates
<1>1. PICK t, u : t = drops /\ u = drops'
  BY ZenonT(60)
<1>2. /\ IsTable(t) /\ DOMAIN t \subseteq AggregateKeys /\ recorded \in Nat /\ drained \in Nat
      /\ drained + TableTotal(t) = recorded /\ Cardinality(DOMAIN t) <= MaxAggregates
  BY ZenonT(60), <1>1 DEF DropsInv
<1>3. key \in AggregateKeys /\ overflow \in AggregateKeys
  BY DEF AggregateKeys, ClassOverflow, OverflowShard
<1>4. /\ recorded' = recorded + 1
      /\ u = IF key \in DOMAIN t \/ ~full THEN Counted(t, key, 1)
             ELSE IF overflow \in DOMAIN t THEN Counted(t, overflow, 1)
             ELSE Counted(Folded(overflow), overflow, 1)
  BY ZenonT(60), <1>1 DEF Drop
<1>5. Cardinality(DOMAIN t) \in Nat /\ MaxAggregates \in Nat /\ MaxAggregates > 0 /\ 1 \in Nat
      /\ (full <=> Cardinality(DOMAIN t) >= MaxAggregates)
  BY <1>1, <1>2, FS_CardinalityType, LimiterBounds DEF IsTable
<1> HIDE DEF key, overflow, full
<1> DEFINE Grown ==
      /\ IsTable(u) /\ DOMAIN u \subseteq AggregateKeys /\ TableTotal(u) = TableTotal(t) + 1
      /\ Cardinality(DOMAIN u) <= MaxAggregates /\ TableTotal(t) \in Nat
<1>6. Grown
  <2>1. ASSUME NEW k \in AggregateKeys, u = Counted(t, k, 1), k \in DOMAIN t \/ ~full
        PROVE  Grown
    <3>1. GrowsBy(t, u, k, 1)
      BY ZenonT(60), <1>2, <1>5, <2>1, CountedGrows
    <3>2. /\ IsTable(u) /\ TableTotal(t) \in Nat /\ TableTotal(u) = TableTotal(t) + 1
          /\ k \in DOMAIN t => Cardinality(DOMAIN u) = Cardinality(DOMAIN t)
          /\ k \notin DOMAIN t => Cardinality(DOMAIN u) = Cardinality(DOMAIN t) + 1
      BY ZenonT(60), <1>2, <1>5, <3>1, TableGrows
    <3>3. DOMAIN u \subseteq AggregateKeys
      BY <1>2, <3>1 DEF GrowsBy
    <3>4. Cardinality(DOMAIN u) <= MaxAggregates
      BY <1>2, <1>5, <2>1, <3>2
    <3> QED BY ZenonT(60), <3>2, <3>3, <3>4
  <2>2. ASSUME overflow \notin DOMAIN t, full, u = Counted(Folded(overflow), overflow, 1)
        PROVE  Grown
    <3>1. PICK o : o = Oldest
      BY ZenonT(60)
    <3>2. o \in DOMAIN t
      <4>1. DOMAIN t # {}
        BY <1>5, <2>2, FS_EmptySet
      <4> QED BY ZenonT(60), <1>1, <1>2, <3>1, <4>1, OldestThere DEF IsTable
    <3>3. PICK r, f : r = Restrict(t, DOMAIN t \ {o}) /\ f = Counted(r, overflow, t[o])
      BY ZenonT(60)
    <3>4. f = Folded(overflow)
      BY ZenonT(60), <1>1, <3>1, <3>3 DEF Folded
    <3>5. Loses(t, r, o)
      BY <3>3 DEF Loses, Restrict
    <3>6. /\ IsTable(r) /\ t[o] \in Nat /\ TableTotal(r) \in Nat
          /\ TableTotal(t) = TableTotal(r) + t[o]
          /\ Cardinality(DOMAIN r) = Cardinality(DOMAIN t) - 1
      BY ZenonT(60), <1>2, <3>2, <3>5, TableLoses
    <3>7. DOMAIN r \subseteq DOMAIN t /\ overflow \notin DOMAIN r
      BY <2>2, <3>5 DEF Loses
    <3>8. GrowsBy(r, f, overflow, t[o])
      BY ZenonT(60), <3>3, <3>6, CountedGrows
    <3>9. /\ IsTable(f) /\ TableTotal(f) = TableTotal(r) + t[o]
          /\ Cardinality(DOMAIN f) = Cardinality(DOMAIN r) + 1
      BY ZenonT(60), <3>6, <3>7, <3>8, TableGrows
    <3>10. DOMAIN f = DOMAIN r \cup {overflow}
      BY <3>8 DEF GrowsBy
    <3>16. overflow \in DOMAIN f
      BY <3>10
    <3>11. GrowsBy(f, u, overflow, 1)
      BY ZenonT(60), <1>5, <2>2, <3>4, <3>9, CountedGrows
    <3>12. /\ IsTable(u) /\ TableTotal(f) \in Nat /\ TableTotal(u) = TableTotal(f) + 1
           /\ Cardinality(DOMAIN u) = Cardinality(DOMAIN f)
      BY ZenonT(60), <1>5, <3>9, <3>11, <3>16, TableGrows
    <3>13. DOMAIN u \subseteq AggregateKeys
      BY <1>2, <1>3, <3>7, <3>10, <3>11 DEF GrowsBy
    <3>14. TableTotal(t) = TableTotal(f) /\ Cardinality(DOMAIN u) = Cardinality(DOMAIN t) - 1 + 1
      BY ZenonT(60), <3>6, <3>9, <3>12
    <3>15. Cardinality(DOMAIN u) <= MaxAggregates
      BY <1>2, <1>5, <3>14
    <3> QED BY ZenonT(60), <3>12, <3>13, <3>14, <3>15
  <2> QED BY ZenonT(60), <1>3, <1>4, <2>1, <2>2
<1>7. recorded' \in Nat /\ drained' \in Nat /\ drained' + TableTotal(u) = recorded'
  BY <1>2, <1>4, <1>6
<1> QED BY ZenonT(60), <1>1, <1>6, <1>7 DEF DropsInv

\* The drain takes every count over.
LEMMA DrainKeeps ==
  ASSUME DropsInv, TakeAggregates
  PROVE  DropsInv'
<1>1. PICK t, u : t = drops /\ u = drops'
  BY ZenonT(60)
<1>2. /\ IsTable(t) /\ recorded \in Nat /\ drained \in Nat
      /\ drained + TableTotal(t) = recorded
  BY ZenonT(60), <1>1 DEF DropsInv
<1>3. u = <<>> /\ drained' = drained + TableTotal(t) /\ recorded' = recorded
  BY ZenonT(60), <1>1 DEF TakeAggregates, TableTotal
<1>4. DOMAIN u = {}
  BY <1>3
<1>5. IsTable(u) /\ TableTotal(u) = 0 /\ Cardinality(DOMAIN u) = 0
  BY <1>4, FS_EmptySet, SumEmpty DEF IsTable, TableTotal, CountsOn
<1>6. TableTotal(t) \in Nat
  BY ZenonT(60), <1>2, SumNat DEF IsTable, TableTotal
<1>7. drained' \in Nat /\ recorded' \in Nat /\ drained' + TableTotal(u) = recorded'
      /\ Cardinality(DOMAIN u) <= MaxAggregates
  BY <1>2, <1>3, <1>5, <1>6, LimiterBounds
<1>8. DOMAIN u \subseteq AggregateKeys
  BY <1>4
<1> QED BY ZenonT(60), <1>1, <1>5, <1>7, <1>8 DEF DropsInv


\* The requests.
LEMMA RequestsMove ==
  ASSUME RequestsInv, UNCHANGED windowNow, NEW c \in Callers,
         \/ Ends(c)
         \/ \E at \in {"checked", "running"} : requests[c].at # "idle" /\ MovesTo(c, at)
  PROVE  RequestsInv'
<1>1. PICK r, s : r = requests /\ s = requests'
  BY ZenonT(60)
<1>2. /\ r = [d \in Callers |-> r[d]] /\ \A d \in Callers : RequestPlaced(r[d])
  BY ZenonT(60), <1>1 DEF RequestsInv
<1>3. /\ s = [d \in Callers |-> s[d]] /\ \A d \in Callers \ {c} : s[d] = r[d]
  <2>1. CASE Ends(c)
    <3>1. s = [r EXCEPT ![c] = NoRequest]
      BY ZenonT(60), <1>1, <2>1 DEF Ends
    <3> QED BY <1>2, <3>1
  <2>2. ASSUME NEW at, MovesTo(c, at)
        PROVE  /\ s = [d \in Callers |-> s[d]] /\ \A d \in Callers \ {c} : s[d] = r[d]
    <3>1. s = [r EXCEPT ![c] = [r[c] EXCEPT !.at = at]]
      BY ZenonT(60), <1>1, <2>2 DEF MovesTo
    <3> QED BY <1>2, <3>1
  <2> QED BY ZenonT(60), <2>1, <2>2
<1>4. RequestPlaced(s[c])
  <2>1. CASE Ends(c)
    <3>1. s = [r EXCEPT ![c] = NoRequest]
      BY ZenonT(60), <1>1, <2>1 DEF Ends
    <3>2. s[c] = NoRequest
      BY <1>2, <3>1
    <3>3. RequestPlaced(NoRequest)
      BY LimiterBounds DEF RequestPlaced, RequestRecs, NoRequest, Windows
    <3> QED BY ZenonT(60), <3>2, <3>3
  <2>2. ASSUME NEW at \in {"checked", "running"}, r[c].at # "idle", MovesTo(c, at)
        PROVE  RequestPlaced(s[c])
    <3>1. s = [r EXCEPT ![c] = [r[c] EXCEPT !.at = at]]
      BY ZenonT(60), <1>1, <2>2 DEF MovesTo
    <3>2. s[c] = [r[c] EXCEPT !.at = at]
      BY <1>2, <3>1
    <3>3. RequestPlaced(r[c])
      BY <1>2
    <3> QED BY <2>2, <3>2, <3>3 DEF RequestPlaced, RequestRecs
  <2> QED BY ZenonT(60), <1>1, <2>1, <2>2
<1>5. \A d \in Callers : RequestPlaced(s[d])
  BY ZenonT(60), <1>2, <1>3, <1>4
<1> QED BY ZenonT(60), <1>1, <1>3, <1>5 DEF RequestsInv

\* What a request that is under way stands for.
LEMMA PlacedGives ==
  ASSUME RequestsInv, NEW c \in Callers, requests[c].at # "idle"
  PROVE  /\ requests[c].class \in Nat /\ requests[c].class \in ClassLogin .. ClassAuthenticated
         /\ requests[c].shard \in Nat /\ requests[c].shard \in ShardIds
         /\ requests[c].window \in Windows /\ requests[c].window \in Nat
         /\ <<requests[c].class, requests[c].shard>> \in BucketIds
<1>1. RequestPlaced(requests[c])
  BY DEF RequestsInv
<1>2. /\ requests[c].class \in ClassLogin .. ClassAuthenticated /\ requests[c].shard \in ShardIds
      /\ requests[c].window \in Windows /\ requests[c].shard \in Nat
  BY <1>1 DEF RequestPlaced, RequestRecs
<1>3. requests[c].class \in Nat /\ requests[c].window \in Nat
  BY <1>2, LimiterBounds DEF ClassLogin, ClassAuthenticated, Windows
<1> QED BY <1>2, <1>3 DEF BucketIds

\* The three parts together.
LimiterInv == RequestsInv /\ BucketsInv /\ DropsInv

\* Each part is kept by a step that leaves its variables alone.
LEMMA LimiterFrames ==
  /\ RequestsInv /\ UNCHANGED <<windowNow, requests>> => RequestsInv'
  /\ BucketsInv /\ UNCHANGED <<buckets, admitted, overtaken>> => BucketsInv'
  /\ DropsInv /\ UNCHANGED <<drops, recorded, drained>> => DropsInv'
<1>1. RequestsInv /\ UNCHANGED <<windowNow, requests>> => RequestsInv'
  BY DEF RequestsInv
<1>2. BucketsInv /\ UNCHANGED <<buckets, admitted, overtaken>> => BucketsInv'
  BY DEF BucketsInv, BucketInv, Budget
<1>3. DropsInv /\ UNCHANGED <<drops, recorded, drained>> => DropsInv'
  BY DEF DropsInv, TableTotal
<1> QED BY <1>1, <1>2, <1>3


\* A request ends with or without a recorded drop, or goes on.
LEMMA DropOrKeep ==
  ASSUME DropsInv, UNCHANGED drained,
         \/ Keep
         \/ \E class, reason, shard, w \in Nat : Drop(class, reason, shard, w)
  PROVE  DropsInv'
<1>1. ASSUME Keep PROVE DropsInv'
  <2>1. UNCHANGED <<drops, recorded, drained>>
    BY ZenonT(60), <1>1 DEF Keep
  <2> QED BY ZenonT(60), <2>1, LimiterFrames
<1> QED BY ZenonT(60), <1>1, DropKeeps

\* The reasons are numbers.
LEMMA Reasons ==
  /\ ReasonRate \in Nat /\ ReasonOversize \in Nat /\ ReasonMalformed \in Nat
  /\ ReasonConcurrency \in Nat
BY DEF ReasonRate, ReasonOversize, ReasonMalformed, ReasonConcurrency

\* The guard of the login and probe routes.
LEMMA UnauthenticatedKeeps ==
  ASSUME LimiterInv, NEW c \in Callers, CheckUnauthenticated(c)
  PROVE  LimiterInv'
<1> DEFINE r == requests[c]
           own == <<r.class, r.shard>>
           bs == IF Grants(<<0, 0>>, r.window) THEN {<<0, 0>>, own} ELSE {<<0, 0>>}
           ok == {b \in bs : Grants(b, r.window)}
<1>1. RequestsInv /\ BucketsInv /\ DropsInv
  BY DEF LimiterInv
<1>2. /\ r.at = "timed" /\ Consume(bs, ok, r.window) /\ UNCHANGED <<windowNow, drained>>
      /\ \/ MovesTo(c, "checked") /\ Keep
         \/ Ends(c) /\ Drop(r.class, ReasonRate, r.shard, r.window)
  BY ZenonT(60) DEF CheckUnauthenticated
<1>3. requests[c].at # "idle"
  BY <1>2
<1>4. r.class \in Nat /\ r.shard \in Nat /\ r.window \in Windows /\ r.window \in Nat /\ own \in BucketIds
  BY ZenonT(60), <1>1, <1>3, PlacedGives
<1>5. bs \in SUBSET BucketIds
  BY <1>4 DEF BucketIds
<1> HIDE DEF bs
<1>6. BucketsInv'
  BY ZenonT(60), <1>1, <1>2, <1>4, <1>5, ConsumeKeeps
<1>7. RequestsInv'
  BY ZenonT(60), <1>1, <1>2, <1>3, RequestsMove
<1>8. DropsInv'
  BY ZenonT(60), <1>1, <1>2, <1>4, Reasons, DropOrKeep
<1> QED BY <1>6, <1>7, <1>8 DEF LimiterInv

\* The guard of the authenticated routes.
LEMMA AuthenticatedKeeps ==
  ASSUME LimiterInv, NEW c \in Callers, CheckAuthenticated(c)
  PROVE  LimiterInv'
<1> DEFINE r == requests[c]
           own == <<r.class, r.shard>>
           bs == {own}
           ok == {b \in bs : Grants(b, r.window)}
<1>1. RequestsInv /\ BucketsInv /\ DropsInv
  BY DEF LimiterInv
<1>2. /\ r.at = "timed" /\ Consume(bs, ok, r.window) /\ UNCHANGED <<windowNow, drained>>
      /\ \/ MovesTo(c, "checked") /\ Keep
         \/ Ends(c) /\ Drop(r.class, ReasonRate, r.shard, r.window)
  BY ZenonT(60) DEF CheckAuthenticated
<1>3. requests[c].at # "idle"
  BY <1>2
<1>4. r.class \in Nat /\ r.shard \in Nat /\ r.window \in Windows /\ r.window \in Nat /\ own \in BucketIds
  BY ZenonT(60), <1>1, <1>3, PlacedGives
<1>5. bs \in SUBSET BucketIds
  BY <1>4
<1> HIDE DEF bs
<1>6. BucketsInv'
  BY ZenonT(60), <1>1, <1>2, <1>4, <1>5, ConsumeKeeps
<1>7. RequestsInv'
  BY ZenonT(60), <1>1, <1>2, <1>3, RequestsMove
<1>8. DropsInv'
  BY ZenonT(60), <1>1, <1>2, <1>4, Reasons, DropOrKeep
<1> QED BY <1>6, <1>7, <1>8 DEF LimiterInv

\* What happens to a request after its guard.
LEMMA ServingKeeps ==
  ASSUME LimiterInv, NEW c \in Callers, RefuseBody(c) \/ Run(c) \/ FinishRequest(c)
  PROVE  LimiterInv'
<1> DEFINE r == requests[c]
<1>1. RequestsInv /\ BucketsInv /\ DropsInv
  BY DEF LimiterInv
<1>2. /\ r.at \in {"checked", "running"} /\ UNCHANGED <<windowNow, drained, buckets, admitted, overtaken>>
      /\ Ends(c) \/ MovesTo(c, "running")
      /\ \/ Keep
         \/ \E reason \in {ReasonOversize, ReasonMalformed, ReasonConcurrency} :
              Drop(r.class, reason, r.shard, r.window)
  <2>1. CASE RefuseBody(c)
    BY ZenonT(60), <2>1 DEF RefuseBody
  <2>2. CASE Run(c)
    BY ZenonT(60), <2>2 DEF Run
  <2>3. CASE FinishRequest(c)
    BY ZenonT(60), <2>3 DEF FinishRequest
  <2> QED BY ZenonT(60), <2>1, <2>2, <2>3
<1>3. requests[c].at # "idle"
  <2>1. requests[c].at \in {"checked", "running"}
    BY ZenonT(60), <1>2
  <2> QED BY <2>1
<1>4. r.class \in Nat /\ r.shard \in Nat /\ r.window \in Nat
  BY ZenonT(60), <1>1, <1>3, PlacedGives
<1>6. BucketsInv'
  BY ZenonT(60), <1>1, <1>2, LimiterFrames
<1>7. RequestsInv'
  BY ZenonT(60), <1>1, <1>2, <1>3, RequestsMove
<1>8. DropsInv'
  BY ZenonT(60), <1>1, <1>2, <1>4, Reasons, DropOrKeep
<1> QED BY <1>6, <1>7, <1>8 DEF LimiterInv

\* A request arrives and reads the clock.
LEMMA ArrivalKeeps ==
  ASSUME LimiterInv, NEW c \in Callers, NEW class \in ClassLogin .. ClassAuthenticated,
         NEW shard \in ShardIds, ReadWindow(c, class, shard)
  PROVE  LimiterInv'
<1>1. RequestsInv /\ BucketsInv /\ DropsInv
  BY DEF LimiterInv
<1>2. UNCHANGED <<windowNow, buckets, drops, recorded, drained, admitted, overtaken>>
  BY ZenonT(60) DEF ReadWindow
<1>3. BucketsInv' /\ DropsInv'
  BY ZenonT(60), <1>1, <1>2, LimiterFrames
<1>4. PICK r, s : r = requests /\ s = requests'
  BY ZenonT(60)
<1>5. s = [r EXCEPT ![c] = [at |-> "timed", class |-> class, shard |-> shard, window |-> windowNow]]
  BY ZenonT(60), <1>4 DEF ReadWindow
<1>6. r = [d \in Callers |-> r[d]] /\ windowNow \in Windows /\ \A d \in Callers : RequestPlaced(r[d])
  BY ZenonT(60), <1>1, <1>4 DEF RequestsInv
<1>7. s = [d \in Callers |-> s[d]] /\ \A d \in Callers \ {c} : s[d] = r[d]
  BY <1>5, <1>6
<1>10. s[c] = [at |-> "timed", class |-> class, shard |-> shard, window |-> windowNow]
  BY <1>5, <1>6
<1>8. RequestPlaced(s[c])
  <2>1. class \in 0 .. 3 /\ shard \in Nat
    BY LimiterBounds DEF ClassLogin, ClassAuthenticated
  <2>2. PICK e : e = [at |-> "timed", class |-> class, shard |-> shard, window |-> windowNow]
    BY ZenonT(60)
  <2>3. e.at = "timed" /\ e.class = class /\ e.shard = shard
    BY <2>2
  <2>4. windowNow \in Windows
    BY <1>6
  <2>5. e \in RequestRecs
    BY <2>1, <2>2, <2>4 DEF RequestRecs
  <2>6. s[c] = e
    BY <1>10, <2>2
  <2> QED BY ZenonT(60), <2>3, <2>5, <2>6 DEF RequestPlaced
<1>9. RequestsInv'
  BY ZenonT(60), <1>2, <1>4, <1>6, <1>7, <1>8 DEF RequestsInv
<1> QED BY <1>3, <1>9 DEF LimiterInv

\* Every step keeps the invariant.
LEMMA LimiterStep ==
  ASSUME LimiterInv, [LimiterNext]_limiterVars
  PROVE  LimiterInv'
<1>1. RequestsInv /\ BucketsInv /\ DropsInv
  BY DEF LimiterInv
<1>2. CASE TakeAggregates
  <2>1. DropsInv'
    BY <1>1, <1>2, DrainKeeps
  <2>2. UNCHANGED <<windowNow, requests, buckets, admitted, overtaken>>
    BY ZenonT(60), <1>2 DEF TakeAggregates
  <2> QED BY ZenonT(60), <1>1, <2>1, <2>2, LimiterFrames DEF LimiterInv
<1>3. CASE NextWindow
  <2>1. UNCHANGED <<drops, recorded, drained, requests, buckets, admitted, overtaken>>
    BY ZenonT(60), <1>3 DEF NextWindow
  <2>2. BucketsInv' /\ DropsInv'
    BY ZenonT(60), <1>1, <2>1, LimiterFrames
  <2>3. windowNow' \in Windows
    BY <1>1, <1>3, LimiterBounds DEF NextWindow, RequestsInv, Windows
  <2>4. RequestsInv'
    BY ZenonT(60), <1>1, <2>1, <2>3 DEF RequestsInv
  <2> QED BY <2>2, <2>4 DEF LimiterInv
<1>4. CASE UNCHANGED limiterVars
  <2>1. UNCHANGED <<windowNow, requests, drops, recorded, drained, buckets, admitted, overtaken>>
    BY ZenonT(60), <1>4 DEF limiterVars
  <2> QED BY ZenonT(60), <1>1, <2>1, LimiterFrames DEF LimiterInv
<1> QED BY ZenonT(60), <1>2, <1>3, <1>4, ArrivalKeeps, UnauthenticatedKeeps, AuthenticatedKeeps,
           ServingKeeps DEF LimiterNext

\* For any number of callers, shards and windows, any allowances and any size of the table:
\* every recorded drop is counted once, in the table or in what a drain took, the table stays
\* within its bound, and a bucket grants its allowance once per window and once more for every
\* late call that set it back over the window (rate_limit.rs: consume, record_locked,
\* take_aggregates).
THEOREM LimiterAccount == LimiterSpec => []LimiterAccounts
<1>1. LimiterInit => LimiterInv
  <2> SUFFICES ASSUME LimiterInit PROVE LimiterInv
    OBVIOUS
  <2>1. RequestsInv
    BY LimiterBounds
       DEF LimiterInit, RequestsInv, RequestPlaced, RequestRecs, NoRequest, Windows
  <2>2. BucketsInv
    <3> SUFFICES ASSUME NEW b \in BucketIds PROVE BucketInv(b)
      BY DEF BucketsInv
    <3>1. /\ buckets[b] = [window |-> 0, used |-> 0] /\ admitted[b] = [w \in Windows |-> 0]
          /\ overtaken[b] = [w \in Windows |-> 0]
      BY DEF LimiterInit, Windows
    <3>2. /\ buckets[b].window = 0 /\ buckets[b].used = 0 /\ Allowance(b) \in Nat
          /\ buckets[b] \in [window : Windows, used : Nat]
      BY <3>1, LimiterBounds DEF Windows, Allowance
    <3>3. /\ admitted[b] \in [Windows -> Nat] /\ overtaken[b] \in [Windows -> Nat]
          /\ \A v \in Windows : admitted[b][v] = 0 /\ overtaken[b][v] = 0
      BY <3>1
    <3>4. Budget(Allowance(b), 0, 0, admitted[b], overtaken[b])
      <4>1. ASSUME NEW v \in Windows
            PROVE  0 <= Allowance(b) * 0 + (IF v < 0 THEN Allowance(b) ELSE IF v = 0 THEN 0 ELSE 0)
        BY <3>2
      <4>2. 0 \in Nat /\ 0 <= Allowance(b)
        BY <3>2
      <4> QED BY ZenonT(60), <3>3, <4>1, <4>2 DEF Budget
    <3> QED BY ZenonT(60), <3>2, <3>3, <3>4 DEF BucketInv
  <2>3. DropsInv
    <3>1. drops = <<>> /\ recorded = 0 /\ drained = 0
      BY ZenonT(60) DEF LimiterInit
    <3>2. DOMAIN drops = {}
      BY <3>1
    <3>3. IsTable(drops) /\ TableTotal(drops) = 0 /\ Cardinality(DOMAIN drops) = 0
      BY <3>2, FS_EmptySet, SumEmpty DEF IsTable, TableTotal, CountsOn
    <3> QED BY <3>1, <3>2, <3>3, LimiterBounds DEF DropsInv
  <2> QED BY <2>1, <2>2, <2>3 DEF LimiterInv
<1>2. LimiterInv /\ [LimiterNext]_limiterVars => LimiterInv'
  BY LimiterStep
<1>3. LimiterInv => LimiterAccounts
  <2> SUFFICES ASSUME LimiterInv PROVE LimiterAccounts
    OBVIOUS
  <2>1. DropsAccounted
    BY ZenonT(60) DEF LimiterInv, DropsInv, DropsAccounted, TableTotal
  <2>2. ASSUME NEW b \in BucketIds, NEW w \in 0 .. MaxWindow
        PROVE  admitted[b][w] <= Allowance(b) * (1 + overtaken[b][w])
    <3>1. BucketInv(b) /\ w \in Windows
      BY DEF LimiterInv, BucketsInv, Windows
    <3> DEFINE a == admitted[b][w]
               o == overtaken[b][w]
               u == buckets[b].used
               W == buckets[b].window
               A == Allowance(b)
    <3>2. /\ a \in Nat /\ o \in Nat /\ u \in Nat /\ u <= A
          /\ a <= A * o + (IF w < W THEN A ELSE IF w = W THEN u ELSE 0)
      BY <3>1 DEF BucketInv, Budget
    <3>3. A \in Nat
      BY LimiterBounds DEF Allowance
    <3> HIDE DEF a, o, u, W, A
    <3>4. A * (1 + o) = A * o + A /\ A * o \in Nat
      BY <3>2, <3>3
    <3>5. a <= A * (1 + o)
      BY <3>2, <3>3, <3>4
    <3> QED BY <3>5 DEF a, o, A
  <2> QED BY ZenonT(60), <2>1, <2>2 DEF LimiterAccounts, WindowBudget
<1> QED BY <1>1, <1>2, <1>3, PTL DEF LimiterSpec

-----------------------------------------------------------------------------
-----------------------------------------------------------------------------
\* The files the two fixed names show, for each phase and each step of the process.
ReserveInv ==
  /\ record.op \notin {"final", "temp"}
  /\ record.phase \in {"healthy", "release_requested", "released", "recreate_requested"}
  /\ record.phase = "healthy" => "final" \in files /\ "temp" \notin files
  /\ record.phase = "release_requested" => "temp" \notin files
  /\ record.phase = "released" => "final" \notin files /\ "temp" \notin files
  /\ record.phase = "recreate_requested" => ~("final" \in files /\ "temp" \in files)
  /\ driver \in {"renamed", "commit_released"} =>
       record.phase = "release_requested" /\ "final" \notin files
  /\ driver = "allocated" =>
       record.phase = "recreate_requested" /\ "final" \notin files /\ "temp" \in files
  /\ driver = "commit_healthy" =>
       record.phase = "recreate_requested" /\ "final" \in files /\ "temp" \notin files

\* A transition replaces the record.
LEMMA MovesGives ==
  ASSUME NEW phase, NEW op, Moves(phase, op)
  PROVE  record'.phase = phase /\ record'.op = op
  BY ZenonT(60) DEF Moves

\* reconcile, as a table.
LEMMA ReconcileTable ==
  ASSUME NEW final \in BOOLEAN, NEW temp \in BOOLEAN,
         NEW phase \in {"healthy", "release_requested", "released", "recreate_requested"}
  PROVE  /\ Reconcile(phase, final, temp) = "commit_released" =>
              phase = "release_requested" /\ ~final /\ ~temp
         /\ Reconcile(phase, final, temp) = "commit_healthy" =>
              phase = "recreate_requested" /\ final /\ ~temp
         /\ Reconcile(phase, final, temp) \in
              {"idle", "finish_release", "commit_released", "recreate", "commit_healthy", "unsafe"}
         /\ Reconcile(phase, final, temp) = "unsafe" =>
              \/ phase = "healthy" /\ ~(final /\ ~temp)
              \/ phase = "release_requested" /\ temp
              \/ phase = "released" /\ (final \/ temp)
              \/ phase = "recreate_requested" /\ temp
  BY ZenonT(60) DEF Reconcile

\* Every step of the reserve keeps the record and the files together.
LEMMA ReserveStepSound ==
  ASSUME ReserveInv, ReserveSteps
  PROVE  ReserveInv'
<1>1. ASSUME NEW op \in ReserveOps, NEW g, RequestRelease(op, g)  PROVE ReserveInv'
  <2>1. /\ record'.phase = "release_requested" /\ record'.op = op /\ op \notin {"final", "temp"}
        /\ record.phase = "healthy" /\ driver = "idle" /\ UNCHANGED <<files, driver>>
    BY ZenonT(60), <1>1, MovesGives, ReserveBounds DEF RequestRelease
  <2> QED BY <2>1 DEF ReserveInv
<1>2. ASSUME NEW op \in ReserveOps, NEW g, RequestRecreate(op, g)  PROVE ReserveInv'
  <2>1. /\ record'.phase = "recreate_requested" /\ record'.op = op /\ op \notin {"final", "temp"}
        /\ record.phase = "released" /\ driver = "idle" /\ UNCHANGED <<files, driver>>
    BY ZenonT(60), <1>2, MovesGives, ReserveBounds DEF RequestRecreate
  <2> QED BY ZenonT(60), <2>1 DEF ReserveInv
<1>3. CASE RenameAside
  BY ZenonT(60), <1>3 DEF ReserveInv, RenameAside
<1>4. CASE Unlink
  BY ZenonT(60), <1>4 DEF ReserveInv, Unlink
<1>5. CASE MarkReleased
  <2>1. /\ record'.phase = "released" /\ record'.op = record.op /\ driver = "commit_released"
        /\ driver' = "idle" /\ files' = files
    BY <1>5, MovesGives DEF MarkReleased
  <2> QED BY <2>1 DEF ReserveInv
<1>6. CASE Allocate
  BY ZenonT(60), <1>6 DEF ReserveInv, Allocate
<1>7. CASE RenameTemp
  BY ZenonT(60), <1>7 DEF ReserveInv, RenameTemp
<1>8. CASE MarkHealthy
  <2>1. /\ record'.phase = "healthy" /\ record'.op = "none" /\ driver = "commit_healthy"
        /\ driver' = "idle" /\ files' = files
    BY ZenonT(60), <1>8, MovesGives DEF MarkHealthy, NoOp
  <2> QED BY ZenonT(60), <2>1 DEF ReserveInv
<1>9. CASE StopProcess
  BY ZenonT(60), <1>9 DEF ReserveInv, StopProcess
<1>10. CASE StartProcess
  <2> DEFINE final == "final" \in files
             temp == "temp" \in files
             v == Reconcile(record.phase, final, temp)
  <2>1. /\ UNCHANGED <<record, files>>
        /\ driver' = (IF v = "recreate" /\ record.phase = "released" THEN "idle" ELSE v)
    BY ZenonT(60), <1>10 DEF StartProcess, Verdict
  <2>2. /\ v = "commit_released" => record.phase = "release_requested" /\ ~final /\ ~temp
        /\ v = "commit_healthy" => record.phase = "recreate_requested" /\ final /\ ~temp
        /\ v \in {"idle", "finish_release", "commit_released", "recreate", "commit_healthy", "unsafe"}
    <3>1. final \in BOOLEAN /\ temp \in BOOLEAN
      OBVIOUS
    <3>2. record.phase \in {"healthy", "release_requested", "released", "recreate_requested"}
      BY ZenonT(60) DEF ReserveInv
    <3> HIDE DEF final, temp
    <3> QED BY ZenonT(60), <3>1, <3>2, ReconcileTable
  <2>3. /\ driver' \in {"renamed", "commit_released"} =>
              record.phase = "release_requested" /\ "final" \notin files
        /\ driver' # "allocated"
        /\ driver' = "commit_healthy" =>
              record.phase = "recreate_requested" /\ "final" \in files /\ "temp" \notin files
    <3> HIDE DEF v
    <3> QED BY ZenonT(60), <2>1, <2>2
  <2> HIDE DEF v
  <2> QED BY ZenonT(60), <2>1, <2>3 DEF ReserveInv
<1> QED BY ZenonT(60), <1>1, <1>2, <1>3, <1>4, <1>5, <1>6, <1>7, <1>8, <1>9, <1>10 DEF ReserveSteps

\* The record of the reserve agrees with the files after a stop at any step of release or
\* recreate, except inside provision_reserve (capacity.rs reconcile, release_reserve,
\* provision_reserve).
THEOREM ReserveAgrees == ReserveSpec => []ReserveMatchesRecord
<1>1. ReserveInit => ReserveInv
  BY DEF ReserveInit, ReserveInv, NoOp
<1>2. ASSUME ReserveInv, [ReserveNext]_<<capacityVars, reserveVars>>  PROVE ReserveInv'
  <2>1. CASE UNCHANGED reserveVars
    BY ZenonT(60), <1>2, <2>1 DEF ReserveInv, reserveVars
  <2>2. CASE ReserveSteps
    BY ZenonT(60), <1>2, <2>2, ReserveStepSound
  <2> QED BY ZenonT(60), <1>2, <2>1, <2>2 DEF ReserveNext
<1>3. ASSUME ReserveInv  PROVE ReserveMatchesRecord
  <2>1. HealthyIsBacked
    BY ZenonT(60), <1>3 DEF HealthyIsBacked, ReserveInv
  <2>2. ASSUME driver = "down", Verdict = "unsafe"
        PROVE  record.phase = "recreate_requested" /\ files \cap {"final", "temp"} = {"temp"}
    <3> DEFINE final == "final" \in files
               temp == "temp" \in files
    <3>1. final \in BOOLEAN /\ temp \in BOOLEAN
      OBVIOUS
    <3>2. record.phase \in {"healthy", "release_requested", "released", "recreate_requested"}
      BY ZenonT(60), <1>3 DEF ReserveInv
    <3>3. Reconcile(record.phase, final, temp) = "unsafe"
      BY ZenonT(60), <2>2 DEF Verdict
    <3> HIDE DEF final, temp
    <3>4. \/ record.phase = "healthy" /\ ~(final /\ ~temp)
          \/ record.phase = "release_requested" /\ temp
          \/ record.phase = "released" /\ (final \/ temp)
          \/ record.phase = "recreate_requested" /\ temp
      BY ZenonT(60), <3>1, <3>2, <3>3, ReconcileTable
    <3>5. record.phase = "recreate_requested" /\ temp /\ ~final
      BY ZenonT(60), <1>3, <3>4 DEF ReserveInv, final, temp
    <3> QED BY ZenonT(60), <3>5 DEF final, temp
  <2>3. RefusalMeansInterruptedProvision
    BY ZenonT(60), <2>2 DEF RefusalMeansInterruptedProvision
  <2> QED BY ZenonT(60), <2>1, <2>3 DEF ReserveMatchesRecord
<1> QED BY <1>1, <1>2, <1>3, PTL DEF ReserveSpec


-----------------------------------------------------------------------------
(* Space.                                                                   *)

Sizes == 1 .. MaxCommit

SpaceTypes ==
  /\ free \in Nat /\ spent \in Nat /\ drawn \in Nat
  /\ inflight \in [Sizes -> Nat] /\ held \in [Outputs -> Nat]

\* What admission keeps free on top of the work in flight: the floors, and a full commit for
\* every place of the lane that is not taken.
LaneReserve(n) == MinimalRecovery + ShutdownFloor + (LaneDepth - n) * MaxCommit

\* The inductive invariant of admission.
SpaceInv ==
  /\ SpaceTypes
  /\ DataInflight \in 0 .. LaneDepth
  /\ DataInflight = 0 => InflightBytes = 0
  /\ burst /\ DataInflight > 0 => free + spent >= InflightBytes + LaneReserve(DataInflight)
  /\ free + drawn >= HeldBytes + ShutdownFloor

\* The constants are numbers.
LEMMA SpaceConstants ==
  /\ LaneDepth \in Nat /\ MinimalRecovery \in Nat /\ ShutdownFloor \in Nat /\ MaxCommit \in Nat
  /\ LaneDepth > 0 /\ ShutdownFloor > 0 /\ MaxFree \in Nat /\ MaxFree >= ShutdownFloor
  /\ IsFiniteSet(Outputs) /\ IsFiniteSet(Sizes)
<1>1. IsFiniteSet(Sizes)
  BY CapacityBounds, FS_Interval DEF Sizes
<1> QED BY <1>1, CapacityBounds

\* The totals are numbers.
LEMMA TotalsNat ==
  ASSUME SpaceTypes
  PROVE  DataInflight \in Nat /\ InflightBytes \in Nat /\ HeldBytes \in Nat
<1> DEFINE weighed == [c \in Sizes |-> c * inflight[c]]
<1>1. CountsOn(inflight, Sizes) /\ CountsOn(held, Outputs)
  BY ZenonT(60) DEF SpaceTypes, CountsOn
<1>2. CountsOn(weighed, Sizes)
  BY SpaceConstants DEF SpaceTypes, CountsOn, Sizes
<1>3. InflightBytes = SumFunctionOnSet(weighed, Sizes)
  BY ZenonT(60) DEF InflightBytes, Sizes
<1>4. DataInflight = SumFunctionOnSet(inflight, Sizes) /\ HeldBytes = SumFunctionOnSet(held, Outputs)
  BY ZenonT(60) DEF DataInflight, HeldBytes, Sizes
<1> HIDE DEF weighed
<1> QED BY ZenonT(60), <1>1, <1>2, <1>3, <1>4, SpaceConstants, SumNat

\* One permit more or less of size c.
LEMMA PermitsChange ==
  ASSUME SpaceTypes, NEW c \in Sizes, NEW n \in Nat, inflight' = [inflight EXCEPT ![c] = n]
  PROVE  /\ inflight' \in [Sizes -> Nat] /\ DataInflight' \in Nat /\ InflightBytes' \in Nat
         /\ DataInflight' + inflight[c] = DataInflight + n
         /\ InflightBytes' + c * inflight[c] = InflightBytes + c * n
<1> DEFINE old == [d \in Sizes |-> d * inflight[d]]
           new == [d \in Sizes |-> d * inflight'[d]]
<1>1. inflight' \in [Sizes -> Nat] /\ inflight'[c] = n /\ \A d \in Sizes \ {c} : inflight'[d] = inflight[d]
  BY ZenonT(60) DEF SpaceTypes
<1>2. CountsOn(inflight, Sizes) /\ inflight[c] \in Nat
  BY ZenonT(60) DEF SpaceTypes, CountsOn
<1>3. DataInflight = SumFunctionOnSet(inflight, Sizes) /\ DataInflight' = SumFunctionOnSet(inflight', Sizes)
  BY ZenonT(60) DEF DataInflight, Sizes
<1>4. DataInflight' + inflight[c] = DataInflight + n /\ DataInflight' \in Nat
  <2>1. PICK f, g : f = inflight /\ g = inflight'
    BY ZenonT(60)
  <2>3. CountsOn(f, Sizes) /\ g[c] \in Nat /\ \A d \in Sizes \ {c} : g[d] = f[d]
    BY ZenonT(60), <1>1, <1>2, <2>1
  <2>2. CountsOn(g, Sizes) /\ SumFunctionOnSet(g, Sizes) + f[c] = SumFunctionOnSet(f, Sizes) + g[c]
    BY <2>3, SpaceConstants, SumChange
  <2>4. SumFunctionOnSet(g, Sizes) \in Nat
    BY ZenonT(60), <2>2, SpaceConstants, SumNat
  <2> QED BY ZenonT(60), <1>1, <1>3, <2>1, <2>2, <2>4
<1>5. InflightBytes = SumFunctionOnSet(old, Sizes) /\ InflightBytes' = SumFunctionOnSet(new, Sizes)
  BY ZenonT(60) DEF InflightBytes, Sizes
<1>6. /\ CountsOn(old, Sizes) /\ old[c] = c * inflight[c] /\ new[c] = c * n /\ new[c] \in Nat
      /\ \A d \in Sizes \ {c} : new[d] = old[d]
  <2>1. \A d \in Sizes : old[d] = d * inflight[d] /\ new[d] = d * inflight'[d]
    BY ZenonT(60)
  <2>2. \A d \in Sizes : d * inflight[d] \in Nat
    BY SpaceConstants DEF SpaceTypes, Sizes
  <2>3. c * n \in Nat
    BY SpaceConstants DEF Sizes
  <2> HIDE DEF old, new
  <2> QED BY ZenonT(60), <1>1, <2>1, <2>2, <2>3 DEF CountsOn
<1> HIDE DEF old, new
<1>7. /\ SumFunctionOnSet(new, Sizes) + old[c] = SumFunctionOnSet(old, Sizes) + new[c]
      /\ SumFunctionOnSet(new, Sizes) \in Nat
  <2>1. PICK f, g : f = old /\ g = new
    BY ZenonT(60)
  <2>2. CountsOn(g, Sizes) /\ SumFunctionOnSet(g, Sizes) + f[c] = SumFunctionOnSet(f, Sizes) + g[c]
    BY <1>6, <2>1, SpaceConstants, SumChange
  <2>3. SumFunctionOnSet(g, Sizes) \in Nat
    BY ZenonT(60), <2>2, SpaceConstants, SumNat
  <2> QED BY ZenonT(60), <2>1, <2>2, <2>3
<1> QED BY ZenonT(60), <1>1, <1>4, <1>5, <1>6, <1>7

\* One hold changed.
LEMMA HoldsChange ==
  ASSUME SpaceTypes, NEW o \in Outputs, NEW n \in Nat, held' = [held EXCEPT ![o] = n]
  PROVE  /\ held' \in [Outputs -> Nat] /\ HeldBytes' \in Nat
         /\ HeldBytes' + held[o] = HeldBytes + n
<1>1. held' \in [Outputs -> Nat] /\ held'[o] = n /\ \A d \in Outputs \ {o} : held'[d] = held[d]
  BY ZenonT(60) DEF SpaceTypes
<1>2. CountsOn(held, Outputs) /\ held[o] \in Nat
  BY ZenonT(60) DEF SpaceTypes, CountsOn
<1>3. PICK f, g : f = held /\ g = held'
  BY ZenonT(60)
<1>5. CountsOn(f, Outputs) /\ g[o] \in Nat /\ \A d \in Outputs \ {o} : g[d] = f[d]
  BY ZenonT(60), <1>1, <1>2, <1>3
<1>4. CountsOn(g, Outputs) /\ SumFunctionOnSet(g, Outputs) + f[o] = SumFunctionOnSet(f, Outputs) + g[o]
  BY <1>5, SpaceConstants, SumChange
<1>6. SumFunctionOnSet(g, Outputs) \in Nat
  BY ZenonT(60), <1>4, SpaceConstants, SumNat
<1> QED BY ZenonT(60), <1>1, <1>3, <1>4, <1>6 DEF HeldBytes

\* A single commit is no more than the bytes in flight.
LEMMA PermitWithin ==
  ASSUME SpaceTypes, NEW c \in Sizes
  PROVE  inflight[c] \in Nat /\ inflight[c] <= DataInflight /\ c * inflight[c] <= InflightBytes
<1> DEFINE weighed == [d \in Sizes |-> d * inflight[d]]
<1>1. CountsOn(inflight, Sizes)
  BY ZenonT(60) DEF SpaceTypes, CountsOn
<1>2. CountsOn(weighed, Sizes) /\ weighed[c] = c * inflight[c]
  BY SpaceConstants DEF SpaceTypes, CountsOn, Sizes
<1>3. InflightBytes = SumFunctionOnSet(weighed, Sizes) /\ DataInflight = SumFunctionOnSet(inflight, Sizes)
  BY ZenonT(60) DEF InflightBytes, DataInflight, Sizes
<1> HIDE DEF weighed
<1>4. weighed[c] <= SumFunctionOnSet(weighed, Sizes)
  BY ZenonT(60), <1>2, SpaceConstants, SumBounds
<1>5. inflight[c] \in Nat /\ inflight[c] <= SumFunctionOnSet(inflight, Sizes)
  BY ZenonT(60), <1>1, SpaceConstants, SumBounds
<1> QED BY ZenonT(60), <1>2, <1>3, <1>4, <1>5

\* Empty permits and holds add up to nothing.
LEMMA NothingHeld ==
  ASSUME inflight = [c \in 1 .. MaxCommit |-> 0], held = [o \in Outputs |-> 0]
  PROVE  /\ inflight \in [Sizes -> Nat] /\ held \in [Outputs -> Nat]
         /\ DataInflight = 0 /\ InflightBytes = 0 /\ HeldBytes = 0
<1> DEFINE weighed == [c \in Sizes |-> c * inflight[c]]
<1>1. \A c \in Sizes : inflight[c] = 0 /\ weighed[c] = 0
  BY SpaceConstants DEF Sizes
<1>2. \A o \in Outputs : held[o] = 0
  OBVIOUS
<1>3. /\ InflightBytes = SumFunctionOnSet(weighed, Sizes) /\ DataInflight = SumFunctionOnSet(inflight, Sizes)
      /\ HeldBytes = SumFunctionOnSet(held, Outputs)
  BY ZenonT(60) DEF InflightBytes, DataInflight, HeldBytes, Sizes
<1>4. inflight \in [Sizes -> Nat] /\ held \in [Outputs -> Nat]
  BY ZenonT(60) DEF Sizes
<1> HIDE DEF weighed
<1>5. SumFunctionOnSet(weighed, Sizes) = 0
  BY ZenonT(60), <1>1, SpaceConstants, SumZero
<1>6. SumFunctionOnSet(inflight, Sizes) = 0
  BY ZenonT(60), <1>1, SpaceConstants, SumZero
<1>7. SumFunctionOnSet(held, Outputs) = 0
  BY ZenonT(60), <1>2, SpaceConstants, SumZero
<1> QED BY ZenonT(60), <1>3, <1>4, <1>5, <1>6, <1>7


\* Space that is left when the holds are subtracted.
LEMMA AvailableIs ==
  ASSUME SpaceTypes, NEW a \in Nat, a > 0, Available >= a
  PROVE  free >= HeldBytes + a
<1>1. free \in Nat /\ HeldBytes \in Nat
  BY ZenonT(60), TotalsNat DEF SpaceTypes
<1> QED BY <1>1 DEF Available, Minus

\* Data work enters the lane.
LEMMA AdmitDataKeeps ==
  ASSUME SpaceInv, NEW c \in Sizes, AdmitData(c)
  PROVE  SpaceInv'
<1>1. /\ SpaceTypes /\ DataInflight \in 0 .. LaneDepth
      /\ DataInflight = 0 => InflightBytes = 0
      /\ burst /\ DataInflight > 0 => free + spent >= InflightBytes + LaneReserve(DataInflight)
      /\ free + drawn >= HeldBytes + ShutdownFloor
  BY ZenonT(60) DEF SpaceInv
<1>2. /\ DataInflight + 1 <= LaneDepth /\ Available > DataRequired(c)
      /\ inflight' = [inflight EXCEPT ![c] = inflight[c] + 1]
      /\ spent' = (IF DataInflight = 0 THEN 0 ELSE spent)
      /\ UNCHANGED <<free, held, drawn, burst>>
  BY ZenonT(60) DEF AdmitData
<1>3. inflight[c] \in Nat /\ inflight[c] + 1 \in Nat /\ c \in Nat /\ c <= MaxCommit /\ c > 0
  BY <1>1, SpaceConstants DEF SpaceTypes, Sizes
<1>4. /\ inflight' \in [Sizes -> Nat] /\ DataInflight' \in Nat /\ InflightBytes' \in Nat
      /\ DataInflight' + inflight[c] = DataInflight + (inflight[c] + 1)
      /\ InflightBytes' + c * inflight[c] = InflightBytes + c * (inflight[c] + 1)
  BY ZenonT(60), <1>1, <1>2, <1>3, PermitsChange
<1>5. SpaceTypes' /\ HeldBytes' = HeldBytes
  BY ZenonT(60), <1>1, <1>2, <1>4 DEF SpaceTypes, HeldBytes
<1>6. DataInflight' \in Nat /\ InflightBytes' \in Nat /\ DataInflight \in Nat /\ InflightBytes \in Nat
  BY ZenonT(60), <1>1, <1>4, TotalsNat
<1>7. DataInflight' = DataInflight + 1 /\ InflightBytes' = InflightBytes + c
  <2>1. PICK m, p, q : m = inflight[c] /\ p = c * m /\ q = c * (m + 1)
    BY ZenonT(60)
  <2>2. p \in Nat /\ q = p + c
    BY <1>3, <2>1
  <2>3. DataInflight' + m = DataInflight + (m + 1) /\ InflightBytes' + p = InflightBytes + q
    BY ZenonT(60), <1>4, <2>1
  <2> QED BY <1>3, <1>6, <2>1, <2>2, <2>3
<1>8. PICK n, k : n = DataInflight /\ k = (LaneDepth - (n + 1)) * MaxCommit
  BY ZenonT(60)
<1>9. /\ n \in Nat /\ n + 1 <= LaneDepth /\ k \in Nat /\ (LaneDepth - n) * MaxCommit = k + MaxCommit
      /\ LaneDepth - (n + 1) \in Nat
  <2>1. n \in Nat /\ n + 1 <= LaneDepth /\ LaneDepth - (n + 1) \in Nat
    BY <1>2, <1>6, <1>8, SpaceConstants
  <2>2. LaneDepth - n = (LaneDepth - (n + 1)) + 1
    BY <2>1, SpaceConstants
  <2>3. PICK d : d = LaneDepth - (n + 1)
    BY ZenonT(60)
  <2>4. (d + 1) * MaxCommit = d * MaxCommit + MaxCommit /\ d * MaxCommit \in Nat
    BY <2>1, <2>3, SpaceConstants
  <2> QED BY ZenonT(60), <1>8, <2>1, <2>2, <2>3, <2>4
<1>10. LaneReserve(n) = MinimalRecovery + ShutdownFloor + (k + MaxCommit)
       /\ LaneReserve(n + 1) = MinimalRecovery + ShutdownFloor + k
  BY ZenonT(60), <1>8, <1>9 DEF LaneReserve
<1>11. burst' => free' + spent' >= InflightBytes' + LaneReserve(n + 1)
  <2>1. SUFFICES ASSUME burst PROVE free + spent' >= InflightBytes + c + (MinimalRecovery + ShutdownFloor + k)
    BY ZenonT(60), <1>2, <1>7, <1>10
  <2>2. CASE n = 0
    <3>1. Minus(LaneDepth, n + 1) = LaneDepth - (n + 1)
      BY ZenonT(60), <1>9, SpaceConstants DEF Minus
    <3>2. DataRequired(c) = MinimalRecovery + ShutdownFloor + k + c
      BY ZenonT(60), <1>8, <3>1 DEF DataRequired
    <3>3. Available >= MinimalRecovery + ShutdownFloor + k + c
      <4>1. Available \in Nat
        BY <1>1, TotalsNat DEF Available, Minus, SpaceTypes
      <4> QED BY <1>2, <1>3, <1>9, <3>2, <4>1, SpaceConstants
    <3>4. free >= HeldBytes + (MinimalRecovery + ShutdownFloor + k + c)
      <4>1. MinimalRecovery + ShutdownFloor + k + c \in Nat /\ MinimalRecovery + ShutdownFloor + k + c > 0
        BY <1>3, <1>9, SpaceConstants
      <4> QED BY ZenonT(60), <1>1, <3>3, <4>1, AvailableIs
    <3>5. HeldBytes \in Nat /\ free \in Nat /\ InflightBytes = 0 /\ spent' = 0
      BY ZenonT(60), <1>1, <1>2, <1>8, <2>2, TotalsNat DEF SpaceTypes
    <3> QED BY <1>3, <1>9, <3>4, <3>5, SpaceConstants
  <2>3. CASE n # 0
    <3>1. free + spent >= InflightBytes + (MinimalRecovery + ShutdownFloor + (k + MaxCommit)) /\ spent' = spent
      BY <1>1, <1>2, <1>6, <1>8, <1>10, <2>1, <2>3
    <3>2. free \in Nat /\ spent \in Nat
      BY ZenonT(60), <1>1 DEF SpaceTypes
    <3> QED BY <1>3, <1>6, <1>9, <3>1, <3>2, SpaceConstants
  <2> QED BY ZenonT(60), <2>2, <2>3
<1>12. free' + drawn' >= HeldBytes' + ShutdownFloor
  BY ZenonT(60), <1>1, <1>2, <1>5
<1>13. DataInflight' \in 0 .. LaneDepth /\ DataInflight' = n + 1 /\ DataInflight' # 0
  BY <1>6, <1>7, <1>8, <1>9, SpaceConstants
<1>14. LaneReserve(DataInflight)' = LaneReserve(n + 1)
  BY ZenonT(60), <1>13 DEF LaneReserve
<1> QED BY ZenonT(60), <1>5, <1>11, <1>12, <1>13, <1>14 DEF SpaceInv


\* A lane that holds no permit has no bytes in flight.
LEMMA NoneInFlight ==
  ASSUME NEW f \in [Sizes -> Nat], SumFunctionOnSet(f, Sizes) = 0
  PROVE  SumFunctionOnSet([d \in Sizes |-> d * f[d]], Sizes) = 0
<1> DEFINE g == [d \in Sizes |-> d * f[d]]
<1>1. CountsOn(f, Sizes)
  BY ZenonT(60) DEF CountsOn
<1>2. ASSUME NEW d \in Sizes  PROVE g[d] = 0
  <2>1. f[d] \in Nat /\ f[d] <= 0
    BY ZenonT(60), <1>1, SpaceConstants, SumBounds
  <2> QED BY <2>1 DEF Sizes
<1> HIDE DEF g
<1>3. SumFunctionOnSet(g, Sizes) = 0
  BY ZenonT(60), <1>2, SpaceConstants, SumZero
<1> QED BY ZenonT(60), <1>3 DEF g

\* A permit is given back, with its commit written or not.
LEMMA DropPermitKeeps ==
  ASSUME SpaceInv, NEW c \in Sizes, NEW w \in Nat, DropPermit(c, w)
  PROVE  SpaceInv'
<1>1. /\ SpaceTypes /\ DataInflight \in 0 .. LaneDepth
      /\ free + drawn >= HeldBytes + ShutdownFloor
  BY ZenonT(60) DEF SpaceInv
<1>2. /\ inflight[c] > 0 /\ w <= free /\ inflight' = [inflight EXCEPT ![c] = inflight[c] - 1]
      /\ free' = free - w /\ drawn' = drawn + w /\ UNCHANGED <<held, spent>>
  BY ZenonT(60) DEF DropPermit
<1>3. /\ inflight[c] \in Nat /\ inflight[c] - 1 \in Nat /\ c \in Nat /\ c > 0
      /\ free \in Nat /\ drawn \in Nat /\ spent \in Nat
  BY <1>1, <1>2, SpaceConstants DEF SpaceTypes, Sizes
<1>4. /\ inflight' \in [Sizes -> Nat] /\ DataInflight' \in Nat /\ InflightBytes' \in Nat
      /\ DataInflight' + inflight[c] = DataInflight + (inflight[c] - 1)
  BY ZenonT(60), <1>1, <1>2, <1>3, PermitsChange
<1>5. SpaceTypes' /\ HeldBytes' = HeldBytes
  BY <1>1, <1>2, <1>3, <1>4 DEF SpaceTypes, HeldBytes
<1>6. DataInflight \in Nat /\ DataInflight' = DataInflight - 1 /\ HeldBytes \in Nat
  BY <1>1, <1>3, <1>4, TotalsNat
<1>7. burst' = (DataInflight = 1)
  BY ZenonT(60) DEF DropPermit
<1>8. DataInflight' \in 0 .. LaneDepth /\ (burst' => DataInflight' = 0) /\ ~(0 > 0)
  <2>1. DataInflight' \in 0 .. LaneDepth /\ (DataInflight = 1 => DataInflight' = 0)
    BY <1>1, <1>4, <1>6, SpaceConstants
  <2>2. ~(0 > 0)
    OBVIOUS
  <2> QED BY ZenonT(60), <1>7, <2>1, <2>2
<1>9. DataInflight' = 0 => InflightBytes' = 0
  <2>1. SUFFICES ASSUME DataInflight' = 0 PROVE InflightBytes' = 0
    BY ZenonT(60)
  <2>2. PICK f : f = inflight'
    BY ZenonT(60)
  <2>3. f \in [Sizes -> Nat] /\ SumFunctionOnSet(f, Sizes) = 0
    BY ZenonT(60), <1>4, <2>1, <2>2 DEF DataInflight, Sizes
  <2>4. SumFunctionOnSet([d \in Sizes |-> d * f[d]], Sizes) = 0
    BY ZenonT(60), <2>3, NoneInFlight
  <2> QED BY ZenonT(60), <2>2, <2>4 DEF InflightBytes, Sizes
<1>10. free' + drawn' >= HeldBytes' + ShutdownFloor
  BY <1>1, <1>2, <1>3, <1>5, <1>6, SpaceConstants
<1> QED BY ZenonT(60), <1>5, <1>8, <1>9, <1>10 DEF SpaceInv

\* What keeps SpaceInv when the lane stands still.
LEMMA LaneStandsStill ==
  ASSUME SpaceInv, UNCHANGED <<inflight, burst>>, SpaceTypes',
         free' + spent' >= free + spent, free' + drawn' >= HeldBytes' + ShutdownFloor
  PROVE  SpaceInv'
<1>1. /\ DataInflight \in 0 .. LaneDepth
      /\ DataInflight = 0 => InflightBytes = 0
      /\ burst /\ DataInflight > 0 => free + spent >= InflightBytes + LaneReserve(DataInflight)
  BY ZenonT(60) DEF SpaceInv
<1>2. DataInflight' = DataInflight /\ InflightBytes' = InflightBytes /\ burst' = burst
      /\ LaneReserve(DataInflight)' = LaneReserve(DataInflight)
  BY ZenonT(60) DEF DataInflight, InflightBytes, LaneReserve
<1>3. PICK h, i, n, fr, sp, fr2, sp2 :
        /\ h = LaneReserve(DataInflight) /\ i = InflightBytes /\ n = DataInflight
        /\ fr = free /\ sp = spent /\ fr2 = free' /\ sp2 = spent'
  BY ZenonT(60)
<1>7. i \in Nat /\ n \in Nat
  BY ZenonT(60), <1>3, TotalsNat DEF SpaceInv
<1>8. h \in Int
  BY <1>3, <1>7, SpaceConstants DEF LaneReserve
<1>9. fr \in Nat /\ sp \in Nat /\ fr2 \in Nat /\ sp2 \in Nat /\ fr2 + sp2 >= fr + sp
  BY ZenonT(60), <1>3 DEF SpaceInv, SpaceTypes
<1>10. fr + sp >= i + h => fr2 + sp2 >= i + h
  BY <1>7, <1>8, <1>9
<1>4. ASSUME free + spent >= InflightBytes + LaneReserve(DataInflight)
      PROVE  free' + spent' >= InflightBytes + LaneReserve(DataInflight)
  BY ZenonT(60), <1>3, <1>4, <1>10
<1>5. DataInflight' \in 0 .. LaneDepth /\ (DataInflight' = 0 => InflightBytes' = 0)
  BY ZenonT(60), <1>1, <1>2
<1>6. ASSUME burst', DataInflight' > 0
      PROVE  free' + spent' >= InflightBytes' + LaneReserve(DataInflight)'
  <2>1. burst /\ DataInflight > 0
    BY <1>2, <1>6
  <2>2. free + spent >= InflightBytes + LaneReserve(DataInflight)
    BY ZenonT(60), <1>1, <2>1
  <2>3. free' + spent' >= InflightBytes + LaneReserve(DataInflight)
    BY ZenonT(60), <1>4, <2>2
  <2> QED BY ZenonT(60), <1>2, <2>3
<1> QED BY ZenonT(60), <1>5, <1>6 DEF SpaceInv

\* A control command writes at once.
LEMMA AdmitControlKeeps ==
  ASSUME SpaceInv, NEW safe \in BOOLEAN, NEW c \in Sizes, AdmitControl(safe, c)
  PROVE  SpaceInv'
<1>1. SpaceTypes /\ free + drawn >= HeldBytes + ShutdownFloor /\ HeldBytes \in Nat
  BY ZenonT(60), TotalsNat DEF SpaceInv
<1>2. /\ Available >= ControlRequired(safe, c) /\ free' = free - c /\ spent' = spent + c
      /\ drawn' = drawn + (IF safe THEN c ELSE 0) /\ UNCHANGED <<inflight, held, burst>>
  BY ZenonT(60) DEF AdmitControl
<1>3. c \in Nat /\ c > 0 /\ free \in Nat /\ spent \in Nat /\ drawn \in Nat
  BY <1>1, SpaceConstants DEF SpaceTypes, Sizes
<1>4. HeldBytes' = HeldBytes
  BY ZenonT(60), <1>2 DEF HeldBytes
<1>5. CASE safe
  <2>1. Available >= c /\ drawn' = drawn + c
    BY ZenonT(60), <1>2, <1>5 DEF ControlRequired
  <2>2. free >= HeldBytes + c
    BY ZenonT(60), <1>1, <1>3, <2>1, AvailableIs
  <2>3. SpaceTypes'
    BY <1>1, <1>2, <1>3, <2>1, <2>2 DEF SpaceTypes
  <2>4. free' + spent' >= free + spent /\ free' + drawn' >= HeldBytes' + ShutdownFloor
    BY <1>1, <1>2, <1>3, <1>4, <2>1, SpaceConstants
  <2> QED BY ZenonT(60), <1>2, <2>3, <2>4, LaneStandsStill
<1>6. CASE ~safe
  <2>1. Available >= ShutdownFloor + c /\ drawn' = drawn + 0
    BY ZenonT(60), <1>2, <1>6 DEF ControlRequired
  <2>2. ShutdownFloor + c \in Nat /\ ShutdownFloor + c > 0
    BY <1>3, SpaceConstants
  <2>3. free >= HeldBytes + (ShutdownFloor + c)
    BY ZenonT(60), <1>1, <2>1, <2>2, AvailableIs
  <2>4. SpaceTypes'
    BY <1>1, <1>2, <1>3, <2>1, <2>3, SpaceConstants DEF SpaceTypes
  <2>5. free' + spent' >= free + spent /\ free' + drawn' >= HeldBytes' + ShutdownFloor
    BY <1>1, <1>2, <1>3, <1>4, <2>1, <2>3, SpaceConstants
  <2> QED BY <1>2, <2>4, <2>5, LaneStandsStill
<1> QED BY ZenonT(60), <1>5, <1>6

\* A publication takes a hold.
LEMMA HoldKeeps ==
  ASSUME SpaceInv, NEW o \in Outputs, NEW b \in Nat, b > 0, HoldPublication(o, b)
  PROVE  SpaceInv'
<1>1. SpaceTypes /\ HeldBytes \in Nat /\ free \in Nat /\ drawn \in Nat
  BY ZenonT(60), TotalsNat DEF SpaceInv, SpaceTypes
<1>2. /\ held[o] = 0 /\ Available >= ShutdownFloor + b /\ held' = [held EXCEPT ![o] = b]
      /\ UNCHANGED <<free, inflight, spent, drawn, burst>>
  BY ZenonT(60) DEF HoldPublication
<1>3. held' \in [Outputs -> Nat] /\ HeldBytes' \in Nat /\ HeldBytes' + held[o] = HeldBytes + b
  BY ZenonT(60), <1>1, <1>2, HoldsChange
<1>4. HeldBytes' = HeldBytes + b
  <2>1. PICK before, after : before = HeldBytes /\ after = HeldBytes'
    BY ZenonT(60)
  <2>2. after \in Nat /\ before \in Nat /\ after + 0 = before + b
    BY ZenonT(60), <1>1, <1>2, <1>3, <2>1
  <2>3. after = before + b
    BY <2>2
  <2> QED BY ZenonT(60), <2>1, <2>3
<1>5. ShutdownFloor + b \in Nat /\ ShutdownFloor + b > 0
  BY SpaceConstants
<1>6. free >= HeldBytes + (ShutdownFloor + b)
  BY ZenonT(60), <1>1, <1>2, <1>5, AvailableIs
<1>7. SpaceTypes'
  BY ZenonT(60), <1>1, <1>2, <1>3 DEF SpaceTypes
<1>8. free' + spent' >= free + spent /\ free' + drawn' >= HeldBytes' + ShutdownFloor
  BY <1>1, <1>2, <1>4, <1>6, SpaceConstants DEF SpaceTypes
<1> QED BY ZenonT(60), <1>2, <1>7, <1>8, LaneStandsStill

\* A publication ends with what its hold paid for.
LEMMA FinishKeeps ==
  ASSUME SpaceInv, NEW o \in Outputs, NEW w \in Nat, FinishPublication(o, w)
  PROVE  SpaceInv'
<1>1. /\ SpaceTypes /\ HeldBytes \in Nat /\ free \in Nat /\ drawn \in Nat /\ spent \in Nat
      /\ held[o] \in Nat /\ free + drawn >= HeldBytes + ShutdownFloor
  BY ZenonT(60), TotalsNat DEF SpaceInv, SpaceTypes
<1>2. /\ w <= held[o] /\ w <= free /\ held' = [held EXCEPT ![o] = 0] /\ free' = free - w
      /\ spent' = spent + w /\ UNCHANGED <<inflight, drawn, burst>>
  BY ZenonT(60) DEF FinishPublication
<1>3. held' \in [Outputs -> Nat] /\ HeldBytes' \in Nat /\ HeldBytes' + held[o] = HeldBytes + 0
  <2>1. 0 \in Nat
    OBVIOUS
  <2> QED BY ZenonT(60), <1>1, <1>2, <2>1, HoldsChange
<1>4. SpaceTypes'
  BY <1>1, <1>2, <1>3 DEF SpaceTypes
<1>5. free' + spent' >= free + spent /\ free' + drawn' >= HeldBytes' + ShutdownFloor
  <2>1. PICK before, after, hold : before = HeldBytes /\ after = HeldBytes' /\ hold = held[o]
    BY ZenonT(60)
  <2>2. /\ after \in Nat /\ before \in Nat /\ hold \in Nat /\ after + hold = before + 0
        /\ w <= hold /\ free + drawn >= before + ShutdownFloor
    BY ZenonT(60), <1>1, <1>2, <1>3, <2>1
  <2>3. /\ w <= free /\ free' = free - w /\ spent' = spent + w /\ drawn' = drawn
        /\ free \in Nat /\ drawn \in Nat /\ spent \in Nat
    BY ZenonT(60), <1>1, <1>2
  <2>4. free' + spent' >= free + spent /\ free' + drawn' >= after + ShutdownFloor
    BY <2>2, <2>3, SpaceConstants
  <2> QED BY ZenonT(60), <2>1, <2>4
<1> QED BY ZenonT(60), <1>2, <1>4, <1>5, LaneStandsStill


\* A node starts with nothing admitted and nothing held.
LEMMA SpaceStarts ==
  ASSUME CapacityInit
  PROVE  SpaceInv
<1>1. /\ inflight \in [Sizes -> Nat] /\ held \in [Outputs -> Nat]
      /\ DataInflight = 0 /\ InflightBytes = 0 /\ HeldBytes = 0
  BY ZenonT(60), NothingHeld DEF CapacityInit
<1>2. /\ free \in {MaxFree, DataStopFloor + 1} /\ spent = 0 /\ drawn = 0 /\ burst = TRUE
  BY ZenonT(60) DEF CapacityInit
<1>3. free \in Nat /\ free >= ShutdownFloor
  BY <1>2, SpaceConstants DEF DataStopFloor
<1>4. free + drawn >= 0 + ShutdownFloor /\ spent \in Nat /\ drawn \in Nat /\ burst \in BOOLEAN
  BY <1>2, <1>3, SpaceConstants
<1>5. SpaceTypes
  BY ZenonT(60), <1>1, <1>3, <1>4 DEF SpaceTypes
<1>6. 0 \in 0 .. LaneDepth /\ ~(0 > 0)
  BY SpaceConstants
<1> QED BY ZenonT(60), <1>1, <1>4, <1>5, <1>6 DEF SpaceInv

\* Every step of admission keeps it.
LEMMA AdmissionKeeps ==
  ASSUME SpaceInv, CapacityNext
  PROVE  SpaceInv'
<1>1. ASSUME NEW c \in 1 .. MaxCommit, AdmitData(c)  PROVE SpaceInv'
  BY ZenonT(60), <1>1, AdmitDataKeeps DEF Sizes
<1>2. ASSUME NEW c \in 1 .. MaxCommit, NEW w \in {0, c}, DropPermit(c, w)  PROVE SpaceInv'
  <2>1. w \in Nat /\ c \in Sizes
    BY SpaceConstants DEF Sizes
  <2> QED BY ZenonT(60), <1>2, <2>1, DropPermitKeeps
<1>3. ASSUME NEW c \in 1 .. MaxCommit, NEW safe \in BOOLEAN, AdmitControl(safe, c)
      PROVE  SpaceInv'
  BY ZenonT(60), <1>3, AdmitControlKeeps DEF Sizes
<1>4. ASSUME NEW o \in Outputs, NEW b \in 1 .. 2 * MaxCommit, HoldPublication(o, b)
      PROVE  SpaceInv'
  <2>1. b \in Nat /\ b > 0
    BY SpaceConstants
  <2> QED BY ZenonT(60), <1>4, <2>1, HoldKeeps
<1>5. ASSUME NEW o \in Outputs, NEW w \in 0 .. held[o], FinishPublication(o, w)
      PROVE  SpaceInv'
  <2>1. held[o] \in Nat
    BY ZenonT(60) DEF SpaceInv, SpaceTypes
  <2>2. w \in Nat
    BY <2>1
  <2> QED BY ZenonT(60), <1>5, <2>2, FinishKeeps
<1> QED BY ZenonT(60), <1>1, <1>2, <1>3, <1>4, <1>5 DEF CapacityNext

\* So does a step that leaves admission alone.
LEMMA SpaceFrame ==
  ASSUME SpaceInv, UNCHANGED capacityVars
  PROVE  SpaceInv'
BY ZenonT(60) DEF SpaceInv, capacityVars, SpaceTypes, DataInflight, InflightBytes, HeldBytes, LaneReserve

\* The invariant is what the property needs: a lane that is not empty has its bytes in
\* flight and the two floors.
LEMMA SpaceIsKept ==
  ASSUME SpaceInv
  PROVE  SpaceKeepsFloors
<1>1. /\ DataInflight \in 0 .. LaneDepth
      /\ burst /\ DataInflight > 0 => free + spent >= InflightBytes + LaneReserve(DataInflight)
      /\ HoldsAreFunded
  BY ZenonT(60) DEF SpaceInv, HoldsAreFunded
<1>2. ASSUME burst, DataInflight > 0
      PROVE  free + spent >= InflightBytes + MinimalRecovery + ShutdownFloor
  <2>1. PICK n, i, r : n = DataInflight /\ i = InflightBytes /\ r = (LaneDepth - n) * MaxCommit
    BY ZenonT(60)
  <2>2. n \in 0 .. LaneDepth /\ i \in Nat
    BY ZenonT(60), <1>1, <2>1, TotalsNat DEF SpaceInv
  <2>3. r \in Nat
    BY <2>1, <2>2, SpaceConstants
  <2>4. free + spent >= i + (MinimalRecovery + ShutdownFloor + r)
    BY ZenonT(60), <1>1, <1>2, <2>1 DEF LaneReserve
  <2>5. free \in Nat /\ spent \in Nat
    BY ZenonT(60) DEF SpaceInv, SpaceTypes
  <2>6. free + spent >= i + MinimalRecovery + ShutdownFloor
    BY <2>2, <2>3, <2>4, <2>5, SpaceConstants
  <2> QED BY ZenonT(60), <2>1, <2>6
<1> QED BY ZenonT(60), <1>1, <1>2 DEF SpaceKeepsFloors, BurstKeepsFloors

\* For every depth of the lane, every size of a commit and every floor: a burst of data
\* commands that were admitted one by one leaves the recovery and the shutdown floor free when
\* it is written, and the bytes held for publications are there on top of the shutdown floor
\* (capacity.rs: admit_data, admit_control, hold_publication).
THEOREM SpaceIsFunded == CapacitySpec => []SpaceKeepsFloors
<1>1. CapacityInit => SpaceInv
  BY ZenonT(60), SpaceStarts
<1>2. SpaceInv /\ [CapacityNext]_capacityVars => SpaceInv'
  BY ZenonT(60), AdmissionKeeps, SpaceFrame
<1>3. SpaceInv => SpaceKeepsFloors
  BY ZenonT(60), SpaceIsKept
<1> QED BY <1>1, <1>2, <1>3, PTL DEF CapacitySpec

\* A stop forgets permits and holds.
LEMMA StopKeepsSpace ==
  ASSUME SpaceInv, StopProcess
  PROVE  SpaceInv'
<1>1. PICK i, h : i = inflight' /\ h = held'
  BY ZenonT(60)
<1>2. /\ i = [c \in Sizes |-> 0] /\ h = [o \in Outputs |-> 0] /\ burst' = TRUE
      /\ UNCHANGED <<free, spent, drawn>>
  BY ZenonT(60), <1>1 DEF StopProcess, Sizes
<1>3. /\ \A c \in Sizes : i[c] = 0
      /\ \A o \in Outputs : h[o] = 0
      /\ i \in [Sizes -> Nat] /\ h \in [Outputs -> Nat]
  BY ZenonT(60), <1>2
<1>4. SumFunctionOnSet(i, Sizes) = 0 /\ SumFunctionOnSet(h, Outputs) = 0
  BY ZenonT(60), <1>3, SpaceConstants, SumZero
<1>5. SumFunctionOnSet([d \in Sizes |-> d * i[d]], Sizes) = 0
  BY ZenonT(60), <1>3, <1>4, NoneInFlight
<1>6. DataInflight' = 0 /\ InflightBytes' = 0 /\ HeldBytes' = 0
  BY ZenonT(60), <1>1, <1>4, <1>5 DEF DataInflight, InflightBytes, HeldBytes, Sizes
<1>7. /\ free \in Nat /\ spent \in Nat /\ drawn \in Nat /\ HeldBytes \in Nat
      /\ free + drawn >= HeldBytes + ShutdownFloor
  BY ZenonT(60), TotalsNat DEF SpaceInv, SpaceTypes
<1>8. TRUE \in BOOLEAN /\ 0 \in 0 .. LaneDepth /\ ~(0 > 0)
  BY SpaceConstants
<1>9. SpaceTypes'
  BY ZenonT(60), <1>1, <1>2, <1>3, <1>7, <1>8 DEF SpaceTypes
<1>10. free + drawn >= 0 + ShutdownFloor
  BY <1>7, SpaceConstants
<1>11. free' + drawn' >= HeldBytes' + ShutdownFloor
  BY ZenonT(60), <1>2, <1>6, <1>10
<1> QED BY ZenonT(60), <1>6, <1>8, <1>9, <1>11 DEF SpaceInv

\* Releasing and recreating the reserve keeps the invariant of admission.
LEMMA ReserveKeepsSpace ==
  ASSUME SpaceInv, ReserveSteps
  PROVE  SpaceInv'
<1>1. ASSUME UNCHANGED capacityVars  PROVE SpaceInv'
  BY ZenonT(60), <1>1, SpaceFrame
<1>2. SpaceTypes /\ free + drawn >= HeldBytes + ShutdownFloor /\ HeldBytes \in Nat
  BY ZenonT(60), TotalsNat DEF SpaceInv
<1>3. free \in Nat /\ drawn \in Nat /\ spent \in Nat /\ ReserveSize \in Nat
  BY ZenonT(60), <1>2, ReserveBounds DEF SpaceTypes
<1>4. CASE Unlink
  <2>1. /\ free' = free + ReserveSize /\ drawn' = drawn /\ spent' = spent
        /\ UNCHANGED <<inflight, held, burst>>
    BY ZenonT(60), <1>4 DEF Unlink
  <2>2. SpaceTypes' /\ HeldBytes' = HeldBytes
    BY <1>2, <1>3, <2>1 DEF SpaceTypes, HeldBytes
  <2>3. free' + spent' >= free + spent /\ free' + drawn' >= HeldBytes' + ShutdownFloor
    BY <1>2, <1>3, <2>1, <2>2, SpaceConstants
  <2> QED BY ZenonT(60), <2>1, <2>2, <2>3, LaneStandsStill
<1>5. CASE Allocate
  <2>1. /\ free >= ReserveSize /\ free' = free - ReserveSize
        /\ drawn' = drawn + ReserveSize /\ spent' = spent + ReserveSize
        /\ UNCHANGED <<inflight, held, burst>>
    BY ZenonT(60), <1>5 DEF Allocate
  <2>2. SpaceTypes' /\ HeldBytes' = HeldBytes
    BY <1>2, <1>3, <2>1 DEF SpaceTypes, HeldBytes
  <2>3. free' + spent' >= free + spent /\ free' + drawn' >= HeldBytes' + ShutdownFloor
    BY <1>2, <1>3, <2>1, <2>2, SpaceConstants
  <2> QED BY ZenonT(60), <2>1, <2>2, <2>3, LaneStandsStill
<1>6. CASE StopProcess
  BY ZenonT(60), <1>2, <1>6, StopKeepsSpace
<1> QED BY ZenonT(60), <1>1, <1>4, <1>5, <1>6
     DEF ReserveSteps, RequestRelease, RequestRecreate, RenameAside, MarkReleased, RenameTemp,
         MarkHealthy, StartProcess

\* The same while the reserve is released and recreated and the process stops and starts at any
\* step of it (capacity.rs).
THEOREM SpaceSurvivesReserve == ReserveSpec => []SpaceKeepsFloors
<1>1. ReserveInit => SpaceInv
  BY ZenonT(60), SpaceStarts DEF ReserveInit
<1>2. SpaceInv /\ [ReserveNext]_<<capacityVars, reserveVars>> => SpaceInv'
  BY ZenonT(60), AdmissionKeeps, SpaceFrame, ReserveKeepsSpace DEF ReserveNext
<1>3. SpaceInv => SpaceKeepsFloors
  BY SpaceIsKept
<1> QED BY <1>1, <1>2, <1>3, PTL DEF ReserveSpec
=============================================================================
