------------------------------ MODULE SumTheorems ------------------------------
(***************************************************************************)
(* Sums over finite sets and least elements, which the ledgers need:       *)
(* MotivationLedger's points are a sum over days, rewards and missions,    *)
(* and SessionLedger's totals one over sessions.                           *)
(*                                                                         *)
(* The modules sum with SumFunctionOnSet of the community modules, a       *)
(* CHOOSE of a table over all subsets. Induction over the set is replaced  *)
(* by the least counterexample: among the subsets for which a fact fails   *)
(* one has none below it.                                                  *)
(***************************************************************************)
EXTENDS Integers, Functions, FiniteSetTheorems, WellFoundedInduction, TLAPS

\* A nonempty set of naturals has a least element.
LEMMA LeastOf ==
    ASSUME NEW T, T \subseteq Nat, T # {}
    PROVE  \E m \in T : \A k \in T : m <= k
<1> DEFINE R == {ss \in Nat \X Nat : ss[1] < ss[2]}
<1>1. IsWellFoundedOn(R, Nat)
  BY NatLessThanWellFounded DEF OpToRel
<1>2. PICK m \in T : \A y \in T : ~(<<y, m>> \in R)
  BY <1>1, WFMin
<1>3. \A y \in T : ~(y < m)
  BY <1>2
<1> QED
  BY <1>3

\* A function on some of the numbers up to n is greatest somewhere.
LEMMA GreatestOf ==
    ASSUME NEW len \in Nat, NEW T, T \subseteq 1 .. len, T # {}, NEW f, \A i \in T : f[i] \in Int
    PROVE  \E i \in T : \A j \in T : f[j] <= f[i]
<1> DEFINE Among(n) == {i \in T : i <= n}
           Best(n) == \E i \in Among(n) : \A j \in Among(n) : f[j] <= f[i]
           Bad == {n \in Nat : Among(n) # {} /\ ~Best(n)}
<1>1. \A i \in T : i \in Nat /\ 1 <= i /\ i <= len
  OBVIOUS
<1>2. Bad = {}
  <2> SUFFICES ASSUME Bad # {} PROVE FALSE
    OBVIOUS
  <2>1. PICK n \in Bad : \A k \in Bad : n <= k
    <3>1. Bad \subseteq Nat
      OBVIOUS
    <3> HIDE DEF Bad
    <3> QED
      BY <3>1, LeastOf
  <2>2. n \in Nat /\ Among(n) # {} /\ ~Best(n)
    OBVIOUS
  <2>3. n # 0
    <3> SUFFICES ASSUME n = 0 PROVE FALSE
      OBVIOUS
    <3>1. PICK i \in T : i <= n
      BY <2>2
    <3> QED
      BY <1>1, <3>1
  <2>4. n - 1 \in Nat /\ ~(n <= n - 1)
    BY <2>2, <2>3
  <2>5. Among(n - 1) = {} \/ Best(n - 1)
    BY <2>1, <2>4
  <2>6. \A i \in Among(n) : i = n \/ i \in Among(n - 1)
    <3> TAKE i \in Among(n)
    <3>1. i \in T /\ i \in Nat /\ i <= n
      BY <1>1
    <3> QED
      BY <2>2, <3>1
  <2>7. Among(n - 1) \subseteq Among(n)
    <3> SUFFICES ASSUME NEW i \in T, i <= n - 1 PROVE i <= n
      OBVIOUS
    <3> QED
      BY <1>1, <2>2
  <2> HIDE DEF Bad, Among
  <2>8. \A i \in Among(n) : f[i] \in Int
    BY DEF Among
  <2>9. CASE n \notin Among(n)
    BY <2>2, <2>5, <2>6, <2>7, <2>9
  <2>10. CASE n \in Among(n) /\ Among(n - 1) = {}
    <3>1. \A i \in Among(n) : i = n
      BY <2>6, <2>10
    <3> QED
      BY <2>2, <2>8, <2>10, <3>1
  <2>11. CASE n \in Among(n) /\ Best(n - 1)
    <3>1. PICK i \in Among(n - 1) : \A j \in Among(n - 1) : f[j] <= f[i]
      BY <2>11
    <3>2. CASE f[i] <= f[n]
      <4>1. \A j \in Among(n) : f[j] <= f[n]
        BY <2>6, <2>7, <2>8, <2>11, <3>1, <3>2
      <4> QED
        BY <2>2, <2>11, <4>1
    <3>3. CASE ~(f[i] <= f[n])
      <4>1. \A j \in Among(n) : f[j] <= f[i]
        BY <2>6, <2>7, <2>8, <2>11, <3>1, <3>3
      <4> QED
        BY <2>2, <2>7, <4>1
    <3> QED
      BY <3>2, <3>3
  <2> QED
    BY <2>5, <2>9, <2>10, <2>11
<1>3. Among(len) = T
  BY <1>1
<1>4. Best(len)
  <2>1. len \notin Bad
    BY <1>2
  <2> QED
    BY <1>3, <2>1
<1> QED
  BY <1>3, <1>4

-----------------------------------------------------------------------------
(* Finite sets and sums *)

\* Two elements are finitely many.
LEMMA PairIsFinite == \A a, b : IsFiniteSet({a, b})
<1> SUFFICES ASSUME NEW a, NEW b PROVE IsFiniteSet({a, b})
  OBVIOUS
<1>1. IsFiniteSet({} \cup {a})
  BY FS_EmptySet, FS_AddElement
<1>2. IsFiniteSet(({} \cup {a}) \cup {b})
  BY <1>1, FS_AddElement
<1>3. ({} \cup {a}) \cup {b} = {a, b}
  OBVIOUS
<1> QED
  BY <1>2, <1>3

Below(s, t) == s \subseteq t /\ s # t

\* Among subsets of a finite set one has no smaller one.
LEMMA SmallestOf ==
    ASSUME NEW S, IsFiniteSet(S), NEW B, B \subseteq SUBSET S, B # {}
    PROVE  \E s \in B : \A t \in B : ~Below(t, s)
<1>1. IsWellFoundedOn(StrictSubsetOrdering(S), SUBSET S)
  BY FS_StrictSubsetOrderingWellFounded, FS_FiniteSubsetsOfFinite
<1>2. PICK s \in B : \A t \in B : <<t, s>> \notin StrictSubsetOrdering(S)
  BY <1>1, WFMin
<1>3. \A t \in B : ~Below(t, s)
  BY <1>2 DEF StrictSubsetOrdering, Below
<1> QED
  BY <1>3

\* The table by which the community modules define a sum.
Picked(s) == CHOOSE x \in s : TRUE
Rest(s) == s \ {Picked(s)}
IsTable(h, f, S) ==
    h = [s \in SUBSET S |-> IF s = {} THEN 0 ELSE f[Picked(s)] + h[Rest(s)]]
SumOver(f, S) == (CHOOSE h : IsTable(h, f, S))[S]

\* The community modules' sum is the one by a table.
LEMMA SumOverIsSum == \A f, S : SumFunctionOnSet(f, S) = SumOver(f, S)
  BY DEF SumFunctionOnSet, FoldFunctionOnSet, MapThenFoldSet, SumOver, IsTable, Picked, Rest

\* What is left without the picked element is smaller.
LEMMA RestIsBelow ==
    \A s : s # {} => Picked(s) \in s /\ Below(Rest(s), s) /\ Rest(s) \subseteq s
  BY DEF Picked, Rest, Below

\* Two tables agree where both are defined.
LEMMA TablesAgree ==
    ASSUME NEW S, IsFiniteSet(S), NEW T, T \subseteq S, NEW f, NEW h, NEW g,
           IsTable(h, f, S), IsTable(g, f, T)
    PROVE  \A t \in SUBSET T : h[t] = g[t]
<1> DEFINE B == {t \in SUBSET T : h[t] # g[t]}
<1> SUFFICES ASSUME B # {} PROVE FALSE
  OBVIOUS
<1>1. B \subseteq SUBSET S
  OBVIOUS
<1>2. PICK t \in B : \A u \in B : ~Below(u, t)
  <2> HIDE DEF B
  <2> QED
    BY <1>1, SmallestOf
<1>3. t \in SUBSET T /\ t \in SUBSET S /\ h[t] # g[t]
  OBVIOUS
<1>4. h[t] = IF t = {} THEN 0 ELSE f[Picked(t)] + h[Rest(t)]
  BY <1>3 DEF IsTable
<1>5. g[t] = IF t = {} THEN 0 ELSE f[Picked(t)] + g[Rest(t)]
  BY <1>3 DEF IsTable
<1>6. t # {}
  BY <1>3, <1>4, <1>5
<1>7. Rest(t) \in SUBSET T /\ Below(Rest(t), t)
  BY <1>3, <1>6, RestIsBelow
<1>8. h[Rest(t)] = g[Rest(t)]
  BY <1>2, <1>7
<1> QED
  BY <1>3, <1>4, <1>5, <1>8

\* Every finite set has its table.
LEMMA TableExists ==
    ASSUME NEW S, IsFiniteSet(S), NEW f
    PROVE  \E h : IsTable(h, f, S)
<1> DEFINE B == {s \in SUBSET S : ~\E h : IsTable(h, f, s)}
<1>1. ASSUME B # {} PROVE FALSE
  <2>1. PICK s \in B : \A u \in B : ~Below(u, s)
    <3>1. B \subseteq SUBSET S
      OBVIOUS
    <3> HIDE DEF B
    <3> QED
      BY <1>1, <3>1, SmallestOf
  <2>2. s \in SUBSET S /\ ~\E h : IsTable(h, f, s)
    OBVIOUS
  <2>3. \A u \in SUBSET s : u # s => \E h : IsTable(h, f, u)
    BY <2>1, <2>2 DEF Below
  <2> HIDE DEF B
  <2>4. \A u \in SUBSET s : u # s => IsTable(CHOOSE h : IsTable(h, f, u), f, u)
    BY <2>3
  <2> DEFINE h == [t \in SUBSET s |-> IF t = {} THEN 0 ELSE f[Picked(t)] + SumOver(f, Rest(t))]
  <2>5. ASSUME NEW t \in SUBSET s, t # {} PROVE h[Rest(t)] = SumOver(f, Rest(t))
    <3> DEFINE u == Rest(t)
               g == CHOOSE g : IsTable(g, f, u)
               v == Rest(u)
               k == CHOOSE k : IsTable(k, f, v)
    <3>1. u \in SUBSET s /\ u # s
      BY <2>5, RestIsBelow DEF Below
    <3>2. IsTable(g, f, u) /\ SumOver(f, u) = g[u]
      BY <2>4, <3>1 DEF SumOver
    <3>3. h[u] = IF u = {} THEN 0 ELSE f[Picked(u)] + SumOver(f, v)
      BY <3>1
    <3> HIDE DEF h, g, u
    <3>4. g[u] = IF u = {} THEN 0 ELSE f[Picked(u)] + g[v]
      BY <3>2 DEF IsTable
    <3>5. ASSUME u # {} PROVE g[v] = SumOver(f, v)
      <4>1. v \in SUBSET u /\ v \in SUBSET s /\ v # s
        BY <3>1, <3>5, RestIsBelow DEF Below
      <4>2. IsTable(k, f, v) /\ SumOver(f, v) = k[v]
        BY <2>4, <4>1 DEF SumOver
      <4>3. IsFiniteSet(u)
        BY <2>2, <3>1, FS_Subset
      <4> HIDE DEF v, k
      <4> QED
        BY <3>2, <4>1, <4>2, <4>3, TablesAgree
    <3> HIDE DEF v
    <3> QED
      BY <3>2, <3>3, <3>4, <3>5 DEF u
  <2>6. h = [t \in SUBSET s |-> IF t = {} THEN 0 ELSE f[Picked(t)] + h[Rest(t)]]
    BY <2>5
  <2> HIDE DEF h
  <2> QED
    BY <2>2, <2>6 DEF IsTable
<1> QED
  BY <1>1

\* A sum is 0 over nothing, and else the picked element's value and the rest's sum.
LEMMA SumStep ==
    ASSUME NEW S, IsFiniteSet(S), NEW f
    PROVE  SumOver(f, S) = IF S = {} THEN 0 ELSE f[Picked(S)] + SumOver(f, Rest(S))
<1> DEFINE h == CHOOSE h : IsTable(h, f, S)
           r == Rest(S)
           g == CHOOSE g : IsTable(g, f, r)
<1>1. IsTable(h, f, S)
  BY TableExists
<1>2. SumOver(f, S) = h[S]
  BY DEF SumOver
<1> HIDE DEF h
<1>3. h[S] = IF S = {} THEN 0 ELSE f[Picked(S)] + h[r]
  BY <1>1 DEF IsTable
<1>4. ASSUME S # {} PROVE h[r] = SumOver(f, r)
  <2>1. r \subseteq S /\ IsFiniteSet(r)
    BY <1>4, RestIsBelow, FS_Subset
  <2>2. IsTable(g, f, r) /\ SumOver(f, r) = g[r]
    BY <2>1, TableExists DEF SumOver
  <2> HIDE DEF g, r
  <2> QED
    BY <1>1, <2>1, <2>2, TablesAgree
<1> QED
  BY <1>2, <1>3, <1>4

\* The sum over nothing.
LEMMA SumEmpty == \A f : SumOver(f, {}) = 0
  BY SumStep, FS_EmptySet

\* A sum of naturals is one.
LEMMA SumIsNat ==
    ASSUME NEW S, IsFiniteSet(S), NEW f, \A x \in S : f[x] \in Nat
    PROVE  SumOver(f, S) \in Nat
<1> DEFINE B == {s \in SUBSET S : SumOver(f, s) \notin Nat}
<1>1. ASSUME B # {} PROVE FALSE
  <2>1. PICK s \in B : \A u \in B : ~Below(u, s)
    <3>1. B \subseteq SUBSET S
      OBVIOUS
    <3> HIDE DEF B
    <3> QED
      BY <1>1, <3>1, SmallestOf
  <2>2. s \in SUBSET S /\ SumOver(f, s) \notin Nat /\ IsFiniteSet(s)
    BY FS_Subset
  <2>3. s # {}
    BY <2>2, SumEmpty
  <2>4. Picked(s) \in s /\ Rest(s) \in SUBSET S /\ Below(Rest(s), s)
    BY <2>2, <2>3, RestIsBelow
  <2>5. SumOver(f, Rest(s)) \in Nat /\ f[Picked(s)] \in Nat
    BY <2>1, <2>2, <2>4
  <2>6. SumOver(f, s) = f[Picked(s)] + SumOver(f, Rest(s))
    BY <2>2, <2>3, SumStep
  <2> QED
    BY <2>2, <2>5, <2>6
<1> QED
  BY <1>1

\* Any element's value may be split off.
LEMMA SumSplit ==
    ASSUME NEW S, IsFiniteSet(S), NEW f, \A x \in S : f[x] \in Nat, NEW e \in S
    PROVE  SumOver(f, S) = f[e] + SumOver(f, S \ {e})
<1> DEFINE Splits(s) == \A x \in s : SumOver(f, s) = f[x] + SumOver(f, s \ {x})
           B == {s \in SUBSET S : ~Splits(s)}
<1>1. ASSUME B # {} PROVE FALSE
  <2>1. PICK s \in B : \A u \in B : ~Below(u, s)
    <3>1. B \subseteq SUBSET S
      OBVIOUS
    <3> HIDE DEF B
    <3> QED
      BY <1>1, <3>1, SmallestOf
  <2>2. s \in SUBSET S /\ ~Splits(s)
    OBVIOUS
  <2>3. \A u \in SUBSET s : u # s => Splits(u)
    BY <2>1, <2>2 DEF Below
  <2> HIDE DEF B
  <2>4. PICK x \in s : SumOver(f, s) # f[x] + SumOver(f, s \ {x})
    BY <2>2
  <2> DEFINE p == Picked(s)
  <2>5. p \in s /\ Rest(s) = s \ {p} /\ IsFiniteSet(s)
    BY <2>2, <2>4, RestIsBelow, FS_Subset DEF Rest
  <2>6. SumOver(f, s) = f[p] + SumOver(f, s \ {p})
    BY <2>4, <2>5, SumStep
  <2> HIDE DEF p
  <2>7. p # x
    BY <2>4, <2>6
  <2> DEFINE u == (s \ {p}) \ {x}
  <2>8. Splits(s \ {p}) /\ Splits(s \ {x})
    BY <2>3, <2>4, <2>5
  <2>9. SumOver(f, s \ {p}) = f[x] + SumOver(f, u)
    BY <2>4, <2>7, <2>8
  <2>10. SumOver(f, s \ {x}) = f[p] + SumOver(f, u)
    <3>1. u = (s \ {x}) \ {p}
      OBVIOUS
    <3> HIDE DEF u
    <3> QED
      BY <2>5, <2>7, <2>8, <3>1
  <2>11. f[p] \in Nat /\ f[x] \in Nat /\ SumOver(f, u) \in Nat
    <3>1. u \in SUBSET S /\ IsFiniteSet(u)
      BY <2>2, FS_Subset
    <3> HIDE DEF u
    <3> QED
      BY <2>2, <2>4, <2>5, <3>1, SumIsNat
  <2> HIDE DEF u
  <2> QED
    BY <2>4, <2>6, <2>9, <2>10, <2>11
<1>2. Splits(S)
  BY <1>1
<1> QED
  BY <1>2

\* Functions that agree on a set have the same sum.
LEMMA SumSame ==
    ASSUME NEW S, IsFiniteSet(S), NEW f, NEW g, \A x \in S : f[x] = g[x]
    PROVE  SumOver(f, S) = SumOver(g, S)
<1> DEFINE B == {s \in SUBSET S : SumOver(f, s) # SumOver(g, s)}
<1>1. ASSUME B # {} PROVE FALSE
  <2>1. PICK s \in B : \A u \in B : ~Below(u, s)
    <3>1. B \subseteq SUBSET S
      OBVIOUS
    <3> HIDE DEF B
    <3> QED
      BY <1>1, <3>1, SmallestOf
  <2>2. s \in SUBSET S /\ SumOver(f, s) # SumOver(g, s) /\ IsFiniteSet(s)
    BY FS_Subset
  <2>3. s # {}
    BY <2>2, SumEmpty
  <2>4. Picked(s) \in s /\ Rest(s) \in SUBSET S /\ Below(Rest(s), s)
    BY <2>2, <2>3, RestIsBelow
  <2>5. SumOver(f, Rest(s)) = SumOver(g, Rest(s)) /\ f[Picked(s)] = g[Picked(s)]
    BY <2>1, <2>2, <2>4
  <2>6. /\ SumOver(f, s) = f[Picked(s)] + SumOver(f, Rest(s))
        /\ SumOver(g, s) = g[Picked(s)] + SumOver(g, Rest(s))
    BY <2>2, <2>3, SumStep
  <2> QED
    BY <2>2, <2>5, <2>6
<1> QED
  BY <1>1

\* What is zero adds nothing.
LEMMA SumOfSubset ==
    ASSUME NEW S, IsFiniteSet(S), NEW T, T \subseteq S, NEW f, \A x \in S : f[x] \in Nat,
           \A x \in S : x \notin T => f[x] = 0
    PROVE  SumOver(f, S) = SumOver(f, T)
<1> DEFINE B == {s \in SUBSET S : T \subseteq s /\ SumOver(f, s) # SumOver(f, T)}
<1>1. ASSUME B # {} PROVE FALSE
  <2>1. PICK m \in B : \A t \in B : ~Below(t, m)
    <3>1. B \subseteq SUBSET S
      OBVIOUS
    <3> HIDE DEF B
    <3> QED
      BY <1>1, <3>1, SmallestOf
  <2>2. m \subseteq S /\ T \subseteq m /\ SumOver(f, m) # SumOver(f, T)
    BY <2>1
  <2>3. PICK x \in m : x \notin T
    <3>1. m # T
      BY <2>2
    <3> QED
      BY <2>2, <3>1
  <2> DEFINE r == m \ {x}
  <2>4. r \in SUBSET S /\ T \subseteq r /\ Below(r, m)
    BY <2>2, <2>3 DEF Below
  <2>5. SumOver(f, r) = SumOver(f, T)
    BY <2>1, <2>4
  <2>6. IsFiniteSet(m) /\ IsFiniteSet(T) /\ \A y \in m : f[y] \in Nat
    BY <2>2, FS_Subset
  <2>7. SumOver(f, m) = f[x] + SumOver(f, r)
    BY <2>3, <2>6, SumSplit
  <2>8. f[x] = 0 /\ x \in S
    BY <2>2, <2>3
  <2>9. SumOver(f, T) \in Nat
    BY <2>6, SumIsNat
  <2> HIDE DEF r, B
  <2> QED
    BY <2>2, <2>5, <2>7, <2>8, <2>9
<1>2. S \in SUBSET S
  OBVIOUS
<1> QED
  BY <1>1, <1>2

\* What the last is of a sum over the first numbers.
LEMMA SumUpTo ==
    ASSUME NEW n \in Nat, NEW f, \A i \in 1..(n + 1) : f[i] \in Nat
    PROVE  /\ SumOver(f, 1..(n + 1)) = SumOver(f, 1..n) + f[n + 1]
           /\ SumOver(f, 1..n) \in Nat /\ SumOver(f, 1..(n + 1)) \in Nat
<1>1. IsFiniteSet(1..(n + 1)) /\ IsFiniteSet(1..n)
  BY FS_Interval
<1>2. (1..(n + 1)) \ {n + 1} = 1..n /\ n + 1 \in 1..(n + 1)
  OBVIOUS
<1>3. SumOver(f, 1..(n + 1)) = f[n + 1] + SumOver(f, 1..n)
  BY <1>1, <1>2, SumSplit
<1>4. \A i \in 1..n : f[i] \in Nat
  OBVIOUS
<1>5. SumOver(f, 1..n) \in Nat /\ SumOver(f, 1..(n + 1)) \in Nat
  BY <1>1, <1>4, SumIsNat
<1> QED
  BY <1>2, <1>3, <1>5

\* A greater function has a greater sum.
LEMMA SumMonotone ==
    ASSUME NEW S, IsFiniteSet(S), NEW f, NEW g,
           \A x \in S : f[x] \in Nat /\ g[x] \in Nat /\ f[x] <= g[x]
    PROVE  SumOver(f, S) <= SumOver(g, S)
<1> DEFINE B == {s \in SUBSET S : ~(SumOver(f, s) <= SumOver(g, s))}
<1>1. ASSUME B # {} PROVE FALSE
  <2>1. PICK s \in B : \A u \in B : ~Below(u, s)
    <3>1. B \subseteq SUBSET S
      OBVIOUS
    <3> HIDE DEF B
    <3> QED
      BY <1>1, <3>1, SmallestOf
  <2>2. s \in SUBSET S /\ ~(SumOver(f, s) <= SumOver(g, s)) /\ IsFiniteSet(s)
    BY FS_Subset
  <2>3. s # {}
    BY <2>2, SumEmpty
  <2>4. Picked(s) \in s /\ Rest(s) \in SUBSET S /\ Below(Rest(s), s)
    BY <2>2, <2>3, RestIsBelow
  <2>5. SumOver(f, Rest(s)) <= SumOver(g, Rest(s))
    BY <2>1, <2>4
  <2>6. /\ SumOver(f, s) = f[Picked(s)] + SumOver(f, Rest(s))
        /\ SumOver(g, s) = g[Picked(s)] + SumOver(g, Rest(s))
    BY <2>2, <2>3, SumStep
  <2>7. IsFiniteSet(Rest(s)) /\ \A x \in Rest(s) : f[x] \in Nat /\ g[x] \in Nat
    BY <2>4, FS_Subset
  <2>8. SumOver(f, Rest(s)) \in Nat /\ SumOver(g, Rest(s)) \in Nat
    BY <2>7, SumIsNat
  <2>9. /\ f[Picked(s)] \in Nat /\ g[Picked(s)] \in Nat /\ f[Picked(s)] <= g[Picked(s)]
    BY <2>2, <2>4
  <2> QED
    BY <2>2, <2>5, <2>6, <2>8, <2>9
<1>2. S \in SUBSET S
  OBVIOUS
<1> QED
  BY <1>1, <1>2

\* A function defined by adding up one value after the other is the sum.
LEMMA PrefixSums ==
    ASSUME NEW n \in Nat, NEW f, \A i \in 1..n : f[i] \in Nat, NEW h,
           h[0] = 0, \A i \in 1..n : h[i] = h[i - 1] + f[i]
    PROVE  \A i \in 0..n : h[i] = SumOver(f, 1..i)
<1> DEFINE B == {i \in 0..n : h[i] # SumOver(f, 1..i)}
<1>1. ASSUME B # {} PROVE FALSE
  <2>1. PICK i \in B : \A k \in B : i <= k
    <3>1. B \subseteq Nat
      OBVIOUS
    <3> HIDE DEF B
    <3> QED
      BY <1>1, <3>1, LeastOf
  <2>2. i \in 0..n /\ h[i] # SumOver(f, 1..i)
    OBVIOUS
  <2>3. i # 0
    <3>1. 1..0 = {}
      OBVIOUS
    <3> QED
      BY <2>2, <3>1, SumEmpty
  <2>4. i \in 1..n /\ i - 1 \in 0..n /\ i - 1 \in Nat /\ (i - 1) + 1 = i /\ ~(i <= i - 1)
    BY <2>2, <2>3
  <2>5. h[i - 1] = SumOver(f, 1..(i - 1))
    BY <2>1, <2>4
  <2>6. \A j \in 1..i : f[j] \in Nat
    BY <2>4
  <2>7. SumOver(f, 1..i) = SumOver(f, 1..(i - 1)) + f[i]
    BY <2>4, <2>6, SumUpTo
  <2>8. h[i] = h[i - 1] + f[i]
    BY <2>4
  <2> QED
    BY <2>2, <2>5, <2>7, <2>8
<1> QED
  BY <1>1

\* f has naturals up to n, and g is f from k on.
Counts(f, n) == \A i \in 1..n : f[i] \in Nat
IsShift(g, f, k, m) == \A i \in 1..m : g[i] = f[i + k]

\* What a shifted function adds up to.
LEMMA SumShift ==
    ASSUME NEW k \in Nat, NEW m \in Nat, NEW f, NEW g, Counts(f, m + k), IsShift(g, f, k, m)
    PROVE  /\ SumOver(f, 1..(m + k)) = SumOver(f, 1..k) + SumOver(g, 1..m)
           /\ SumOver(g, 1..m) \in Nat /\ SumOver(f, 1..k) \in Nat
<1>0. (\A i \in 1..(m + k) : f[i] \in Nat) /\ \A i \in 1..m : g[i] = f[i + k]
  BY DEF Counts, IsShift
<1> DEFINE h == [i \in 0..m |-> SumOver(f, 1..(i + k)) - SumOver(f, 1..k)]
<1>1. ASSUME NEW i \in 0..m PROVE SumOver(f, 1..(i + k)) \in Nat
  <2>1. 1 \in Int /\ i + k \in Int /\ \A j \in 1..(i + k) : f[j] \in Nat
    BY <1>0
  <2>2. IsFiniteSet(1..(i + k))
    BY ONLY <2>1, FS_Interval
  <2> QED
    BY <2>1, <2>2, SumIsNat
<1>2. SumOver(f, 1..k) \in Nat
  <2>1. 0 \in 0..m /\ 0 + k = k
    OBVIOUS
  <2> QED
    BY <1>1, <2>1
<1>3. h[0] = 0
  <2>1. 0 \in 0..m /\ 0 + k = k
    OBVIOUS
  <2> QED
    BY <1>2, <2>1
<1>4. \A i \in 1..m : g[i] \in Nat
  BY <1>0
<1>5. ASSUME NEW i \in 1..m PROVE h[i] = h[i - 1] + g[i]
  <2>1. i \in 0..m /\ i - 1 \in 0..m
    OBVIOUS
  <2> DEFINE p == (i - 1) + k
  <2>2. p \in Nat /\ p + 1 = i + k /\ \A j \in 1..(p + 1) : f[j] \in Nat
    BY <1>0
  <2>3. SumOver(f, 1..(p + 1)) = SumOver(f, 1..p) + f[p + 1]
    <3> HIDE DEF p
    <3> QED
      BY <2>2, SumUpTo
  <2>4. /\ h[i] = SumOver(f, 1..(p + 1)) - SumOver(f, 1..k)
        /\ h[i - 1] = SumOver(f, 1..p) - SumOver(f, 1..k)
    BY <2>1, <2>2
  <2>5. SumOver(f, 1..p) \in Nat /\ g[i] = f[p + 1] /\ g[i] \in Nat
    BY <1>0, <1>1, <1>4, <2>1, <2>2
  <2> HIDE DEF h, p
  <2> QED
    BY <1>2, <2>3, <2>4, <2>5
<1>6. h[m] = SumOver(g, 1..m)
  <2>1. m \in 0..m
    OBVIOUS
  <2> HIDE DEF h
  <2> QED
    BY <1>3, <1>4, <1>5, <2>1, PrefixSums
<1>7. h[m] = SumOver(f, 1..(m + k)) - SumOver(f, 1..k)
  OBVIOUS
<1>8. SumOver(f, 1..(m + k)) \in Nat
  BY <1>1
<1>9. SumOver(g, 1..m) \in Nat
  <2>1. IsFiniteSet(1..m)
    BY FS_Interval
  <2> QED
    BY <1>4, <2>1, SumIsNat
<1> HIDE DEF h
<1> QED
  BY <1>2, <1>6, <1>7, <1>8, <1>9

================================================================================
