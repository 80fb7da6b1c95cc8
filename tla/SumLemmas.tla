----------------------------- MODULE SumLemmas ------------------------------
(***************************************************************************)
(* What the totals of module Sums promise.  Induction is by the least      *)
(* counterexample: the intervals 0..m are finite sets, and strict          *)
(* inclusion of finite sets is well founded.                               *)
(***************************************************************************)
EXTENDS Sums, Functions, FiniteSetTheorems, TLAPS

(* A column t of running totals explains the entries f up to n.            *)
Explains(t, f, n) ==
    /\ t \in [0..n -> Int]
    /\ t[0] = 0
    /\ \A i \in 1..n : t[i] = t[i - 1] + f[i]

(* Every non-empty set of naturals has a least element.                    *)
LEMMA LeastElement ==
    ASSUME NEW T \in SUBSET Nat, T # {}
    PROVE  \E m \in T : \A k \in T : m <= k
<1> DEFINE R == StrictSubsetOrdering(Nat)
           I == {0..m : m \in T}
<1>1. IsWellFoundedOn(R, FiniteSubsetsOf(Nat))
  BY FS_StrictSubsetOrderingWellFounded
<1>2. I \subseteq FiniteSubsetsOf(Nat) /\ I # {}
  <2>1. \A m \in T : 0..m \in SUBSET Nat /\ IsFiniteSet(0..m)
    BY FS_Interval
  <2> QED BY <2>1 DEF FiniteSubsetsOf
<1>3. \E x \in I : \A y \in I : ~ (<<y, x>> \in R)
  <2> HIDE DEF R, I
  <2> QED BY <1>1, <1>2, WFMin
<1>4. PICK m \in T : \A k \in T : <<0..k, 0..m>> \notin R
  BY <1>3
<1>5. ASSUME NEW k \in T, k < m PROVE FALSE
  <2>1. 0..k \in SUBSET Nat /\ 0..m \in SUBSET Nat
    OBVIOUS
  <2>2. 0..k \subseteq 0..m /\ m \in 0..m /\ m \notin 0..k
    BY <1>5
  <2> QED BY <1>4, <2>1, <2>2 DEF StrictSubsetOrdering
<1>6. \A k \in T : ~ (k < m)
  BY <1>5
<1>7. \A k \in T : m <= k
  BY <1>6
<1> QED BY <1>7

(* A column that explains the entries is the one RunningTotal defines.     *)
LEMMA RunningTotalUnique ==
    ASSUME NEW n \in Nat, NEW f, NEW t, Explains(t, f, n)
    PROVE  RunningTotal(f, n) = t
<1> DEFINE Fix(g) == g = [i \in 0..n |-> IF i = 0 THEN 0 ELSE g[i - 1] + f[i]]
           r == CHOOSE g : Fix(g)
<1>1. Fix(t)
  <2>1. t = [i \in 0..n |-> t[i]]
    BY DEF Explains
  <2>2. \A i \in 0..n : t[i] = IF i = 0 THEN 0 ELSE t[i - 1] + f[i]
    BY DEF Explains
  <2> QED BY <2>1, <2>2
<1>2. Fix(r)
  <2> HIDE DEF Fix
  <2> QED BY <1>1
<1>3. RunningTotal(f, n) = r
  BY DEF RunningTotal
<1> HIDE DEF r
<1>4. \A i \in 0..n : r[i] = t[i]
  <2> DEFINE Bad == {i \in 0..n : r[i] # t[i]}
  <2>1. SUFFICES ASSUME Bad # {} PROVE FALSE
    OBVIOUS
  <2>2. PICK m \in Bad : \A k \in Bad : m <= k
    <3>1. Bad \in SUBSET Nat
      OBVIOUS
    <3> HIDE DEF Bad
    <3> QED BY <2>1, <3>1, LeastElement
  <2>3. r[m] = IF m = 0 THEN 0 ELSE r[m - 1] + f[m]
    BY <1>2
  <2>4. t[m] = IF m = 0 THEN 0 ELSE t[m - 1] + f[m]
    BY <1>1
  <2>5. m # 0 => r[m - 1] = t[m - 1]
    BY <2>2
  <2> QED BY <2>2, <2>3, <2>4, <2>5
<1>5. r = t
  <2>1. r = [i \in 0..n |-> r[i]]
    BY <1>2
  <2>2. t = [i \in 0..n |-> t[i]]
    BY DEF Explains
  <2> QED BY <1>4, <2>1, <2>2
<1> QED BY <1>3, <1>5

(* A column that explains the entries ends in their total.                 *)
LEMMA TotalOfExplained ==
    ASSUME NEW n \in Nat, NEW f, NEW t, Explains(t, f, n)
    PROVE  Total(f, n) = t[n]
BY RunningTotalUnique DEF Total

(* Every column of integer entries has running totals.                     *)
LEMMA RunningTotalExplains ==
    ASSUME NEW n \in Nat, NEW f \in [1..n -> Int]
    PROVE  Explains(RunningTotal(f, n), f, n)
<1> DEFINE Bad == {k \in 0..n : ~ \E t : Explains(t, f, k)}
<1>1. Bad = {}
  <2>1. SUFFICES ASSUME Bad # {} PROVE FALSE
    OBVIOUS
  <2>2. PICK m \in Bad : \A k \in Bad : m <= k
    <3>1. Bad \in SUBSET Nat
      OBVIOUS
    <3> HIDE DEF Bad
    <3> QED BY <2>1, <3>1, LeastElement
  <2>3. m # 0
    <3>1. Explains([i \in 0..0 |-> 0], f, 0)
      BY DEF Explains
    <3> QED BY <2>2, <3>1
  <2>4. m - 1 \in 0..n /\ m - 1 \notin Bad /\ m \in 1..n
    BY <2>2, <2>3
  <2>5. PICK t : Explains(t, f, m - 1)
    BY <2>4
  <2> DEFINE u == [i \in 0..m |-> IF i = m THEN t[m - 1] + f[m] ELSE t[i]]
  <2>6. u \in [0..m -> Int]
    <3>1. t[m - 1] + f[m] \in Int
      BY <2>4, <2>5 DEF Explains
    <3>2. \A i \in 0..m : i # m => i \in 0..(m - 1)
      BY <2>4
    <3> QED BY <2>5, <3>1, <3>2 DEF Explains
  <2>7. u[0] = 0
    BY <2>3, <2>4, <2>5 DEF Explains
  <2>8. ASSUME NEW i \in 1..m PROVE u[i] = u[i - 1] + f[i]
    <3>1. CASE i = m
      BY <2>4, <3>1
    <3>2. CASE i # m
      <4>1. i \in 1..(m - 1) /\ i - 1 \in 0..m /\ i - 1 # m
        BY <2>4, <3>2
      <4> QED BY <2>5, <3>2, <4>1 DEF Explains
    <3> QED BY <3>1, <3>2
  <2>9. Explains(u, f, m)
    <3> HIDE DEF u
    <3> QED BY <2>6, <2>7, <2>8 DEF Explains
  <2> HIDE DEF u
  <2> QED BY <2>2, <2>9
<1>2. n \in 0..n
  OBVIOUS
<1>3. PICK t : Explains(t, f, n)
  <2>1. n \notin Bad
    BY <1>1
  <2> QED BY <1>2, <2>1
<1> QED BY <1>3, RunningTotalUnique

(* A total of integers is an integer.                                      *)
LEMMA TotalType ==
    ASSUME NEW n \in Nat, NEW f \in [1..n -> Int]
    PROVE  Total(f, n) \in Int
BY RunningTotalExplains DEF Explains, Total

(* Entries that are all zero total zero.                                   *)
LEMMA TotalZero ==
    ASSUME NEW n \in Nat, NEW f, \A i \in 1..n : f[i] = 0
    PROVE  Total(f, n) = 0
<1>1. Explains([i \in 0..n |-> 0], f, n)
  BY DEF Explains
<1> QED BY <1>1, TotalOfExplained

(* Changing one entry changes the total by the same amount.                *)
LEMMA TotalUpdate ==
    ASSUME NEW n \in Nat, NEW f \in [1..n -> Int], NEW g \in [1..n -> Int],
           NEW k \in 1..n, \A i \in 1..n \ {k} : g[i] = f[i]
    PROVE  Total(g, n) = Total(f, n) + g[k] - f[k]
<1> DEFINE t == RunningTotal(f, n)
           u == [i \in 0..n |-> IF i < k THEN t[i] ELSE t[i] + g[k] - f[k]]
<1>1. Explains(t, f, n)
  BY RunningTotalExplains
<1> HIDE DEF t
<1>2. Explains(u, g, n)
  <2>1. \A i \in 0..n : t[i] \in Int
    BY <1>1 DEF Explains
  <2>2. f[k] \in Int /\ g[k] \in Int
    OBVIOUS
  <2>3. u \in [0..n -> Int]
    BY <2>1, <2>2
  <2>4. u[0] = 0
    BY <1>1 DEF Explains
  <2>5. ASSUME NEW i \in 1..n PROVE u[i] = u[i - 1] + g[i]
    <3>1. i \in 0..n /\ i - 1 \in 0..n /\ t[i] = t[i - 1] + f[i]
      BY <1>1 DEF Explains
    <3>2. g[i] \in Int /\ f[i] \in Int
      OBVIOUS
    <3>3. i = k \/ g[i] = f[i]
      OBVIOUS
    <3> QED BY <2>1, <2>2, <3>1, <3>2, <3>3
  <2> HIDE DEF u
  <2> QED BY <2>3, <2>4, <2>5 DEF Explains
<1>3. Total(g, n) = u[n]
  <2> HIDE DEF u
  <2> QED BY <1>2, TotalOfExplained
<1>4. Total(f, n) = t[n] /\ t[n] \in Int
  BY <1>1 DEF Total, t, Explains
<1> QED BY <1>3, <1>4

(* Filling an entry that was zero adds it to the total.                    *)
LEMMA TotalFill ==
    ASSUME NEW n \in Nat, NEW f \in [1..n -> Int], NEW k \in 1..n, NEW v \in Int,
           f[k] = 0
    PROVE  Total([f EXCEPT ![k] = v], n) = Total(f, n) + v
<1> DEFINE g == [f EXCEPT ![k] = v]
<1>1. g \in [1..n -> Int] /\ g[k] = v /\ \A i \in 1..n \ {k} : g[i] = f[i]
  OBVIOUS
<1> HIDE DEF g
<1>2. Total(g, n) = Total(f, n) + g[k] - f[k]
  BY <1>1, TotalUpdate
<1>3. Total(f, n) \in Int
  BY TotalType
<1>4. Total(g, n) = Total(f, n) + v
  BY <1>1, <1>2, <1>3
<1> QED BY <1>4 DEF g

(* Entries that are the same have the same total.                          *)
LEMMA TotalSame ==
    ASSUME NEW n \in Nat, NEW f \in [1..n -> Int], NEW g,
           \A i \in 1..n : g[i] = f[i]
    PROVE  Total(g, n) = Total(f, n)
<1>1. Explains(RunningTotal(f, n), g, n)
  BY RunningTotalExplains DEF Explains
<1> QED BY <1>1, TotalOfExplained DEF Total

(* The total of sums is the sum of the totals.                             *)
LEMMA TotalPlus ==
    ASSUME NEW n \in Nat, NEW f \in [1..n -> Int], NEW g \in [1..n -> Int], NEW h,
           \A i \in 1..n : h[i] = f[i] + g[i]
    PROVE  Total(h, n) = Total(f, n) + Total(g, n)
<1> DEFINE t == RunningTotal(f, n)
           u == RunningTotal(g, n)
           w == [i \in 0..n |-> t[i] + u[i]]
<1>1. Explains(t, f, n) /\ Explains(u, g, n)
  BY RunningTotalExplains
<1> HIDE DEF t, u
<1>2. Explains(w, h, n)
  <2>1. w \in [0..n -> Int] /\ w[0] = 0
    BY <1>1 DEF Explains
  <2>2. ASSUME NEW i \in 1..n PROVE w[i] = w[i - 1] + h[i]
    <3>1. i \in 0..n /\ i - 1 \in 0..n
      OBVIOUS
    <3>2. /\ t[i] = t[i - 1] + f[i] /\ u[i] = u[i - 1] + g[i]
          /\ t[i - 1] \in Int /\ u[i - 1] \in Int /\ f[i] \in Int /\ g[i] \in Int
      BY <1>1, <3>1 DEF Explains
    <3> QED BY <3>1, <3>2
  <2> HIDE DEF w
  <2> QED BY <2>1, <2>2 DEF Explains
<1>3. Total(h, n) = w[n]
  <2> HIDE DEF w
  <2> QED BY <1>2, TotalOfExplained
<1> QED BY <1>3 DEF Total, t, u

(* No entry is greater than the total of entries that are not negative.    *)
LEMMA TotalBoundsEntry ==
    ASSUME NEW n \in Nat, NEW f \in [1..n -> Nat], NEW k \in 1..n
    PROVE  f[k] <= Total(f, n)
<1> DEFINE t == RunningTotal(f, n)
           Bad == {i \in 0..n : t[i] < 0 \/ (k <= i /\ t[i] < f[k])}
<1>1. Explains(t, f, n)
  BY RunningTotalExplains
<1> HIDE DEF t
<1>2. Bad = {}
  <2>1. SUFFICES ASSUME Bad # {} PROVE FALSE
    OBVIOUS
  <2>2. PICK m \in Bad : \A j \in Bad : m <= j
    <3>1. Bad \in SUBSET Nat
      OBVIOUS
    <3> HIDE DEF Bad
    <3> QED BY <2>1, <3>1, LeastElement
  <2>3. m # 0
    BY <1>1, <2>2 DEF Explains
  <2>4. m - 1 \in 0..n /\ m - 1 \notin Bad /\ m \in 1..n
    BY <2>2, <2>3
  <2>5. t[m] = t[m - 1] + f[m] /\ t[m - 1] \in Int /\ f[m] \in Nat /\ f[k] \in Nat
    BY <1>1, <2>4 DEF Explains
  <2>6. t[m - 1] >= 0 /\ (k <= m - 1 => t[m - 1] >= f[k])
    BY <2>4, <2>5
  <2>7. t[m] >= 0 /\ (k <= m => t[m] >= f[k])
    BY <2>4, <2>5, <2>6
  <2> QED BY <2>2, <2>4, <2>5, <2>7
<1>3. n \in 0..n /\ n \notin Bad /\ k <= n
  BY <1>2
<1>4. t[n] \in Int /\ f[k] \in Nat
  BY <1>1, <1>3 DEF Explains
<1> QED BY <1>3, <1>4 DEF Total, t

-----------------------------------------------------------------------------
(* The sum of f over a finite set, SumFunctionOnSet(f, S), takes elements  *)
(* out in the order CHOOSE gives them.  A column c of the sums over the    *)
(* subsets of S:                                                           *)
OneOf(s) == CHOOSE x \in s : TRUE

SetSums(c, f, S) ==
    /\ c = [s \in SUBSET S |-> c[s]]
    /\ c[{}] = 0
    /\ \A s \in SUBSET S : s # {} => c[s] = f[OneOf(s)] + c[s \ {OneOf(s)}]

(* Among the subsets of a finite set there is a smallest counterexample.   *)
LEMMA MinimalSubset ==
    ASSUME NEW S, IsFiniteSet(S), NEW B \in SUBSET (SUBSET S), B # {}
    PROVE  \E m \in B : \A k \in B : k \subseteq m => k = m
<1> DEFINE R == StrictSubsetOrdering(S)
<1>1. IsWellFoundedOn(R, FiniteSubsetsOf(S))
  BY FS_StrictSubsetOrderingWellFounded
<1>2. B \subseteq FiniteSubsetsOf(S)
  BY FS_Subset DEF FiniteSubsetsOf
<1>3. \E x \in B : \A y \in B : ~ (<<y, x>> \in R)
  <2> HIDE DEF R
  <2> QED BY <1>1, <1>2, WFMin
<1> QED BY <1>3 DEF StrictSubsetOrdering

LEMMA SetSumsUnique ==
    ASSUME NEW S, IsFiniteSet(S), NEW f, NEW c, NEW d, SetSums(c, f, S), SetSums(d, f, S)
    PROVE  c = d
<1> DEFINE Bad == {s \in SUBSET S : c[s] # d[s]}
<1>1. ASSUME Bad # {} PROVE FALSE
  <2>1. PICK m \in Bad : \A k \in Bad : k \subseteq m => k = m
    <3>1. Bad \in SUBSET (SUBSET S)
      OBVIOUS
    <3> HIDE DEF Bad
    <3> QED BY <1>1, <3>1, MinimalSubset
  <2>2. m # {}
    BY <2>1 DEF SetSums
  <2>3. OneOf(m) \in m
    BY <2>2 DEF OneOf
  <2>4. m \ {OneOf(m)} \in SUBSET S /\ m \ {OneOf(m)} \notin Bad
    BY <2>1, <2>3
  <2> QED BY <2>1, <2>2, <2>4 DEF SetSums
<1>2. \A s \in SUBSET S : c[s] = d[s]
  BY <1>1
<1> QED BY <1>2 DEF SetSums

(* A column over S is also one over each of its subsets.                   *)
LEMMA SetSumsRestrict ==
    ASSUME NEW S, NEW f, NEW c, SetSums(c, f, S), NEW T \in SUBSET S
    PROVE  SetSums([s \in SUBSET T |-> c[s]], f, T)
<1> DEFINE d == [s \in SUBSET T |-> c[s]]
<1>1. d = [s \in SUBSET T |-> d[s]] /\ d[{}] = 0
  BY DEF SetSums
<1>2. ASSUME NEW s \in SUBSET T, s # {} PROVE d[s] = f[OneOf(s)] + d[s \ {OneOf(s)}]
  <2>1. s \in SUBSET S /\ s \ {OneOf(s)} \in SUBSET T
    OBVIOUS
  <2>2. c[s] = f[OneOf(s)] + c[s \ {OneOf(s)}]
    BY <1>2, <2>1 DEF SetSums
  <2> QED BY <2>1, <2>2
<1> HIDE DEF d
<1>3. SetSums(d, f, T)
  BY <1>1, <1>2 DEF SetSums
<1> QED BY <1>3 DEF d

LEMMA SumOfColumn ==
    ASSUME NEW S, IsFiniteSet(S), NEW f, NEW c, SetSums(c, f, S)
    PROVE  SumFunctionOnSet(f, S) = c[S]
<1> DEFINE Fix(g) == g = [s \in SUBSET S |->
                            IF s = {} THEN 0
                            ELSE f[CHOOSE x \in s : TRUE] + g[s \ {CHOOSE x \in s : TRUE}]]
<1>1. SumFunctionOnSet(f, S) = (CHOOSE g : Fix(g))[S]
  BY DEF SumFunctionOnSet, FoldFunctionOnSet, MapThenFoldSet
<1>2. Fix(c)
  <2>1. \A s \in SUBSET S : c[s] = IF s = {} THEN 0 ELSE f[OneOf(s)] + c[s \ {OneOf(s)}]
    BY DEF SetSums
  <2>2. c = [s \in SUBSET S |-> IF s = {} THEN 0 ELSE f[OneOf(s)] + c[s \ {OneOf(s)}]]
    BY <2>1 DEF SetSums
  <2> QED BY <2>2 DEF OneOf
<1> DEFINE g == CHOOSE h : Fix(h)
<1>3. Fix(g)
  <2> HIDE DEF Fix
  <2> QED BY <1>2
<1> HIDE DEF g
<1>4. g = [s \in SUBSET S |-> IF s = {} THEN 0 ELSE f[OneOf(s)] + g[s \ {OneOf(s)}]]
  BY <1>3 DEF OneOf
<1>5. SetSums(g, f, S)
  <2>1. \A s \in SUBSET S : g[s] = IF s = {} THEN 0 ELSE f[OneOf(s)] + g[s \ {OneOf(s)}]
    BY <1>4
  <2>2. g = [s \in SUBSET S |-> g[s]]
    BY <1>4
  <2> QED BY <2>1, <2>2 DEF SetSums
<1>6. g = c
  BY <1>5, SetSumsUnique
<1>7. SumFunctionOnSet(f, S) = g[S]
  BY <1>1 DEF g
<1> QED BY <1>6, <1>7

LEMMA SetSumsExist ==
    ASSUME NEW S, IsFiniteSet(S), NEW f
    PROVE  \E c : SetSums(c, f, S)
<1> DEFINE Bad == {s \in SUBSET S : ~ \E c : SetSums(c, f, s)}
<1>1. SUFFICES ASSUME Bad # {} PROVE FALSE
  <2>1. S \in SUBSET S
    OBVIOUS
  <2> QED BY <2>1
<1>2. PICK m \in Bad : \A k \in Bad : k \subseteq m => k = m
  <2>1. Bad \in SUBSET (SUBSET S)
    OBVIOUS
  <2> HIDE DEF Bad
  <2> QED BY <1>1, <2>1, MinimalSubset
<1>3. IsFiniteSet(m) /\ \A t \in SUBSET m : IsFiniteSet(t)
  BY <1>2, FS_Subset
<1>4. m # {}
  <2>1. SetSums([s \in SUBSET {} |-> 0], f, {})
    BY DEF SetSums
  <2> QED BY <1>2, <2>1
<1> DEFINE x == OneOf(m)
           sum == [t \in SUBSET m |-> SumFunctionOnSet(f, t)]
           u == [t \in SUBSET m |-> IF t = m THEN f[x] + sum[m \ {x}] ELSE sum[t]]
<1>5. x \in m
  BY <1>4 DEF OneOf
<1> HIDE DEF x
(* Below m the sums are a column of their own.                             *)
<1>6. ASSUME NEW t \in SUBSET m, t # m
      PROVE  /\ t = {} => sum[t] = 0
             /\ t # {} => sum[t] = f[OneOf(t)] + sum[t \ {OneOf(t)}]
  <2>1. t \in SUBSET S /\ t \notin Bad
    BY <1>2, <1>6
  <2>2. PICK c : SetSums(c, f, t)
    BY <2>1
  <2>3. sum[t] = c[t]
    BY <1>3, <2>2, SumOfColumn
  <2>4. ASSUME t # {} PROVE sum[t] = f[OneOf(t)] + sum[t \ {OneOf(t)}]
    <3> DEFINE r == t \ {OneOf(t)}
    <3>1. c[t] = f[OneOf(t)] + c[r]
      BY <2>2, <2>4 DEF SetSums
    <3>2. r \in SUBSET t /\ r \in SUBSET m /\ IsFiniteSet(r)
      BY <1>3
    <3>3. SetSums([s \in SUBSET r |-> c[s]], f, r)
      BY <2>2, <3>2, SetSumsRestrict
    <3>4. SumFunctionOnSet(f, r) = [s \in SUBSET r |-> c[s]][r]
      BY <3>2, <3>3, SumOfColumn
    <3>5. sum[r] = c[r]
      BY <3>2, <3>4
    <3> QED BY <2>3, <3>1, <3>5
  <2> QED BY <2>2, <2>3, <2>4 DEF SetSums
<1>7. SetSums(u, f, m)
  <2>1. u = [t \in SUBSET m |-> u[t]]
    OBVIOUS
  <2>2. u[{}] = 0
    BY <1>4, <1>6
  <2>3. ASSUME NEW t \in SUBSET m, t # {}
        PROVE  u[t] = f[OneOf(t)] + u[t \ {OneOf(t)}]
    <3>1. OneOf(t) \in t
      BY <2>3 DEF OneOf
    <3> DEFINE r == t \ {OneOf(t)}
    <3>2. r \in SUBSET m /\ r # m
      BY <3>1
    <3>3. u[r] = sum[r]
      BY <3>2
    <3>4. CASE t = m
      BY <3>3, <3>4 DEF x
    <3>5. CASE t # m
      <4>1. u[t] = sum[t]
        BY <3>5
      <4>2. sum[t] = f[OneOf(t)] + sum[r]
        BY <1>6, <2>3, <3>5
      <4> QED BY <3>3, <4>1, <4>2
    <3> QED BY <3>4, <3>5
  <2> HIDE DEF u
  <2> QED BY <2>1, <2>2, <2>3 DEF SetSums
<1> HIDE DEF u
<1> QED BY <1>2, <1>7

(* One element taken out in the order of CHOOSE.                           *)
LEMMA SumFirst ==
    ASSUME NEW S, IsFiniteSet(S), NEW f
    PROVE  /\ SumFunctionOnSet(f, {}) = 0
           /\ S # {} => SumFunctionOnSet(f, S)
                           = f[OneOf(S)] + SumFunctionOnSet(f, S \ {OneOf(S)})
<1>1. PICK c : SetSums(c, f, S)
  BY SetSumsExist
<1>2. ASSUME NEW T \in SUBSET S PROVE SumFunctionOnSet(f, T) = c[T]
  <2>1. SetSums([s \in SUBSET T |-> c[s]], f, T)
    BY <1>1, SetSumsRestrict
  <2>2. SumFunctionOnSet(f, T) = [s \in SUBSET T |-> c[s]][T]
    BY <2>1, FS_Subset, SumOfColumn
  <2> QED BY <2>2
<1>3. {} \in SUBSET S /\ S \in SUBSET S /\ S \ {OneOf(S)} \in SUBSET S
  OBVIOUS
<1> QED BY <1>1, <1>2, <1>3 DEF SetSums

(* Any element may be taken out; a sum of integers is an integer.          *)
LEMMA SumRemove ==
    ASSUME NEW S, IsFiniteSet(S), NEW f, \A x \in S : f[x] \in Int
    PROVE  /\ SumFunctionOnSet(f, S) \in Int
           /\ \A x \in S : SumFunctionOnSet(f, S) = f[x] + SumFunctionOnSet(f, S \ {x})
<1> DEFINE sum(s) == SumFunctionOnSet(f, s)
           Good(s) == sum(s) \in Int /\ \A x \in s : sum(s) = f[x] + sum(s \ {x})
           Bad == {s \in SUBSET S : ~ Good(s)}
<1>1. SUFFICES ASSUME Bad # {} PROVE FALSE
  <2>1. S \in SUBSET S
    OBVIOUS
  <2> QED BY <2>1
<1>2. PICK m \in Bad : \A k \in Bad : k \subseteq m => k = m
  <2>1. Bad \in SUBSET (SUBSET S)
    OBVIOUS
  <2> HIDE DEF Bad
  <2> QED BY <1>1, <2>1, MinimalSubset
<1>3. m \in SUBSET S /\ IsFiniteSet(m) /\ ~ Good(m)
  BY <1>2, FS_Subset
<1>4. \A t \in SUBSET m : t # m => Good(t)
  BY <1>2
<1>5. sum({}) = 0 /\ (m # {} => sum(m) = f[OneOf(m)] + sum(m \ {OneOf(m)}))
  BY <1>3, SumFirst
<1> HIDE DEF sum
<1>6. ASSUME m = {} PROVE FALSE
  <2>1. sum(m) = 0
    BY <1>5, <1>6
  <2> QED BY <1>3, <1>6, <2>1
<1> DEFINE c == OneOf(m)
<1>7. c \in m
  BY <1>6 DEF OneOf
<1>8. sum(m) = f[c] + sum(m \ {c})
  BY <1>5, <1>6
<1> HIDE DEF c
<1>9. Good(m \ {c}) /\ f[c] \in Int
  BY <1>3, <1>4, <1>7
<1>10. ASSUME NEW x \in m, x # c PROVE sum(m) = f[x] + sum(m \ {x})
  <2>1. Good(m \ {x}) /\ f[x] \in Int
    BY <1>3, <1>4
  <2>2. x \in m \ {c} /\ c \in m \ {x} /\ (m \ {c}) \ {x} = (m \ {x}) \ {c}
    BY <1>7, <1>10
  <2>3. sum(m \ {c}) = f[x] + sum((m \ {c}) \ {x})
    BY <1>9, <2>2
  <2>4. sum(m \ {x}) = f[c] + sum((m \ {x}) \ {c})
    BY <2>1, <2>2
  <2>5. sum((m \ {x}) \ {c}) \in Int
    <3>1. (m \ {x}) \ {c} \in SUBSET m /\ (m \ {x}) \ {c} # m
      BY <1>7
    <3> QED BY <1>4, <3>1
  <2> QED BY <1>8, <1>9, <2>1, <2>2, <2>3, <2>4, <2>5
<1>11. Good(m)
  <2>1. sum(m) \in Int
    BY <1>8, <1>9
  <2>2. \A x \in m : sum(m) = f[x] + sum(m \ {x})
    BY <1>8, <1>10
  <2> QED BY <2>1, <2>2
<1> QED BY <1>3, <1>11

(* What agrees on S has the same sum over it.                              *)
LEMMA SumSame ==
    ASSUME NEW S, IsFiniteSet(S), NEW f, NEW g, \A x \in S : f[x] \in Int /\ g[x] = f[x]
    PROVE  SumFunctionOnSet(g, S) = SumFunctionOnSet(f, S)
<1> DEFINE Bad == {s \in SUBSET S : SumFunctionOnSet(g, s) # SumFunctionOnSet(f, s)}
<1>1. SUFFICES ASSUME Bad # {} PROVE FALSE
  <2>1. S \in SUBSET S
    OBVIOUS
  <2> QED BY <2>1
<1>2. PICK m \in Bad : \A k \in Bad : k \subseteq m => k = m
  <2>1. Bad \in SUBSET (SUBSET S)
    OBVIOUS
  <2> HIDE DEF Bad
  <2> QED BY <1>1, <2>1, MinimalSubset
<1>3. m \in SUBSET S /\ IsFiniteSet(m)
  BY <1>2, FS_Subset
<1>4. m # {}
  BY <1>2, <1>3, SumFirst
<1> DEFINE x == OneOf(m)
           r == m \ {x}
<1>5. x \in m /\ x \in S
  BY <1>3, <1>4 DEF OneOf
<1>6. /\ SumFunctionOnSet(f, m) = f[x] + SumFunctionOnSet(f, r)
      /\ SumFunctionOnSet(g, m) = g[x] + SumFunctionOnSet(g, r)
  BY <1>3, <1>4, SumFirst
<1> HIDE DEF x
<1>7. r \in SUBSET S /\ r \notin Bad
  BY <1>2, <1>3, <1>5
<1>8. SumFunctionOnSet(g, r) = SumFunctionOnSet(f, r)
  BY <1>7
<1> HIDE DEF r
<1> QED BY <1>2, <1>5, <1>6, <1>8

(* The sum over two sets with no element in common.                        *)
LEMMA SumUnion ==
    ASSUME NEW S, NEW T, IsFiniteSet(S), IsFiniteSet(T), S \cap T = {},
           NEW f, \A x \in S \cup T : f[x] \in Int
    PROVE  SumFunctionOnSet(f, S \cup T) = SumFunctionOnSet(f, S) + SumFunctionOnSet(f, T)
<1> DEFINE sum(s) == SumFunctionOnSet(f, s)
           Bad == {s \in SUBSET T : sum(S \cup s) # sum(S) + sum(s)}
<1>1. SUFFICES ASSUME Bad # {} PROVE FALSE
  <2>1. T \in SUBSET T
    OBVIOUS
  <2> QED BY <2>1
<1>2. PICK m \in Bad : \A k \in Bad : k \subseteq m => k = m
  <2>1. Bad \in SUBSET (SUBSET T)
    OBVIOUS
  <2> HIDE DEF Bad
  <2> QED BY <1>1, <2>1, MinimalSubset
<1>3. m \in SUBSET T /\ IsFiniteSet(m) /\ IsFiniteSet(S \cup m)
  BY <1>2, FS_Subset, FS_Union
<1>4. ASSUME m = {} PROVE FALSE
  <2>1. sum({}) = 0 /\ sum(S) \in Int /\ S \cup m = S
    BY <1>4, SumFirst, SumRemove
  <2> HIDE DEF sum
  <2> QED BY <1>2, <1>4, <2>1
<1>5. PICK x \in m : TRUE
  BY <1>4
<1>6. /\ sum(m) = f[x] + sum(m \ {x})
      /\ sum(S \cup m) = f[x] + sum((S \cup m) \ {x})
      /\ sum(S) \in Int /\ sum(m) \in Int /\ f[x] \in Int
  BY <1>3, <1>5, SumRemove
<1>7. sum(m \ {x}) \in Int
  <2>1. IsFiniteSet(m \ {x}) /\ \A y \in m \ {x} : f[y] \in Int
    BY <1>3, FS_Subset
  <2> QED BY <2>1, SumRemove
<1> HIDE DEF sum
<1>8. (S \cup m) \ {x} = S \cup (m \ {x})
  BY <1>3, <1>5
<1>9. sum(S \cup (m \ {x})) = sum(S) + sum(m \ {x})
  <2>1. m \ {x} \in SUBSET T /\ m \ {x} \notin Bad
    BY <1>2, <1>3, <1>5
  <2> QED BY <2>1
<1> QED BY <1>2, <1>6, <1>7, <1>8, <1>9

(* Summing class by class, where the classes, named by M, partition S.     *)
LEMMA SumByClass ==
    ASSUME NEW S, NEW M, IsFiniteSet(S), IsFiniteSet(M), NEW class,
           \A m \in M : class[m] \subseteq S,
           \A x \in S : \E m \in M : x \in class[m],
           \A m, n \in M : m # n => class[m] \cap class[n] = {},
           NEW f, \A x \in S : f[x] \in Int,
           NEW g, \A m \in M : g[m] = SumFunctionOnSet(f, class[m])
    PROVE  SumFunctionOnSet(g, M) = SumFunctionOnSet(f, S)
<1> DEFINE In(N) == {x \in S : \E m \in N : x \in class[m]}
           Bad == {N \in SUBSET M : SumFunctionOnSet(g, N) # SumFunctionOnSet(f, In(N))}
<1>1. SUFFICES ASSUME Bad # {} PROVE FALSE
  <2>1. M \in SUBSET M /\ In(M) = S
    OBVIOUS
  <2> HIDE DEF In
  <2> QED BY <2>1
<1>2. PICK N \in Bad : \A k \in Bad : k \subseteq N => k = N
  <2>1. Bad \in SUBSET (SUBSET M)
    OBVIOUS
  <2> HIDE DEF Bad
  <2> QED BY <1>1, <2>1, MinimalSubset
<1>3. N \in SUBSET M /\ IsFiniteSet(N)
  BY <1>2, FS_Subset
<1>4. ASSUME N = {} PROVE FALSE
  <2>1. In(N) = {}
    BY <1>4
  <2>2. SumFunctionOnSet(g, {}) = 0 /\ SumFunctionOnSet(f, {}) = 0
    BY FS_EmptySet, SumFirst
  <2> HIDE DEF In
  <2> QED BY <1>2, <1>4, <2>1, <2>2
<1>5. PICK m \in N : TRUE
  BY <1>4
<1> DEFINE Class == class[m]
           Rest == N \ {m}
<1>6. In(N) = In(Rest) \cup Class /\ In(Rest) \cap Class = {} /\ Class \subseteq S
  BY <1>3, <1>5
<1>7. IsFiniteSet(In(Rest)) /\ IsFiniteSet(Class)
  BY <1>6, FS_Subset
<1>8. SumFunctionOnSet(f, In(N)) = SumFunctionOnSet(f, In(Rest)) + SumFunctionOnSet(f, Class)
  <2>1. \A x \in In(Rest) \cup Class : f[x] \in Int
    BY <1>6
  <2> DEFINE A == In(Rest)
  <2>2. IsFiniteSet(A) /\ A \cap Class = {} /\ In(N) = A \cup Class
    BY <1>6, <1>7
  <2>3. \A x \in A \cup Class : f[x] \in Int
    BY <2>1
  <2> HIDE DEF A, Class
  <2>4. SumFunctionOnSet(f, A \cup Class) = SumFunctionOnSet(f, A) + SumFunctionOnSet(f, Class)
    BY <1>7, <2>2, <2>3, SumUnion
  <2> HIDE DEF In
  <2> QED BY <2>2, <2>4 DEF A
<1>9. \A k \in N : g[k] \in Int
  <2> SUFFICES ASSUME NEW k \in N PROVE g[k] \in Int
    OBVIOUS
  <2> DEFINE D == class[k]
  <2>1. IsFiniteSet(D) /\ \A x \in D : f[x] \in Int
    BY <1>3, FS_Subset
  <2>2. g[k] = SumFunctionOnSet(f, D)
    BY <1>3
  <2> HIDE DEF D
  <2> QED BY <2>1, <2>2, SumRemove
<1>10. SumFunctionOnSet(g, N) = g[m] + SumFunctionOnSet(g, Rest)
  BY <1>3, <1>5, <1>9, SumRemove
<1>11. SumFunctionOnSet(g, Rest) = SumFunctionOnSet(f, In(Rest))
  <2>1. Rest \in SUBSET M /\ Rest \subseteq N /\ Rest # N
    BY <1>3, <1>5
  <2> HIDE DEF In, Rest
  <2> QED BY <1>2, <2>1
<1>12. g[m] = SumFunctionOnSet(f, Class)
  BY <1>3, <1>5
<1>13. SumFunctionOnSet(f, In(Rest)) \in Int /\ SumFunctionOnSet(f, Class) \in Int
  <2>1. (\A x \in In(Rest) : f[x] \in Int) /\ (\A x \in Class : f[x] \in Int)
    BY <1>6
  <2> HIDE DEF In, Class
  <2> QED BY <1>7, <2>1, SumRemove
<1> HIDE DEF In, Class, Rest
<1> QED BY <1>2, <1>8, <1>10, <1>11, <1>12, <1>13

(* The sum of sums.                                                        *)
LEMMA SumPlus ==
    ASSUME NEW S, IsFiniteSet(S), NEW f, NEW g, NEW h,
           \A x \in S : f[x] \in Int /\ g[x] \in Int /\ h[x] = f[x] + g[x]
    PROVE  SumFunctionOnSet(h, S) = SumFunctionOnSet(f, S) + SumFunctionOnSet(g, S)
<1> DEFINE sum(k, s) == SumFunctionOnSet(k, s)
           Bad == {s \in SUBSET S : sum(h, s) # sum(f, s) + sum(g, s)}
<1>1. SUFFICES ASSUME Bad # {} PROVE FALSE
  <2>1. S \in SUBSET S
    OBVIOUS
  <2> QED BY <2>1
<1>2. PICK m \in Bad : \A k \in Bad : k \subseteq m => k = m
  <2>1. Bad \in SUBSET (SUBSET S)
    OBVIOUS
  <2> HIDE DEF Bad
  <2> QED BY <1>1, <2>1, MinimalSubset
<1>3. m \in SUBSET S /\ IsFiniteSet(m)
  BY <1>2, FS_Subset
<1>4. ASSUME m = {} PROVE FALSE
  <2>1. sum(h, {}) = 0 /\ sum(f, {}) = 0 /\ sum(g, {}) = 0
    BY <1>3, <1>4, SumFirst
  <2> HIDE DEF sum
  <2> QED BY <1>2, <1>4, <2>1
<1>5. PICK x \in m : TRUE
  BY <1>4
<1> DEFINE r == m \ {x}
<1>6. IsFiniteSet(r) /\ r \in SUBSET S /\ r \subseteq m /\ r # m
  BY <1>3, <1>5, FS_Subset
<1>7. f[x] \in Int /\ g[x] \in Int /\ h[x] = f[x] + g[x]
  BY <1>3, <1>5
<1>8. sum(f, m) = f[x] + sum(f, r) /\ sum(g, m) = g[x] + sum(g, r) /\ sum(h, m) = h[x] + sum(h, r)
  <2>1. \A y \in m : f[y] \in Int /\ g[y] \in Int /\ h[y] \in Int
    BY <1>3
  <2> QED BY <1>3, <1>5, <2>1, SumRemove
<1>9. sum(f, r) \in Int /\ sum(g, r) \in Int
  BY <1>6, SumRemove
<1> HIDE DEF r, sum
<1>10. sum(h, r) = sum(f, r) + sum(g, r)
  BY <1>2, <1>6
<1>11. sum(h, m) = sum(f, m) + sum(g, m)
  BY <1>7, <1>8, <1>9, <1>10
<1> QED BY <1>2, <1>11

=============================================================================
