------------------------------- MODULE Facts -------------------------------
(***************************************************************************)
(* Facts about numbers, finite sets and sequences that the proofs cite.    *)
(* Induction is stated of a set, not of a property: a proof by induction   *)
(* is about the set of all numbers that have the property.                 *)
(***************************************************************************)
EXTENDS Integers, Sequences, FiniteSets, FiniteSetTheorems, FunctionTheorems,
        WellFoundedInduction, TLAPS

\* Every set of natural numbers that is not empty has a least one.
LEMMA LeastNumber ==
  ASSUME NEW T \in SUBSET Nat, T # {}
  PROVE  \E n \in T : \A m \in T : n <= m
<1> DEFINE R == OpToRel(<, Nat)
<1>1. IsWellFoundedOn(R, Nat)
  BY NatLessThanWellFounded, Zenon
<1>2. \A x, y \in Nat : x < y => <<x, y>> \in R
  BY DEF OpToRel
<1> HIDE DEF R
<1>3. PICK n \in T : \A y \in T : <<y, n>> \notin R
  BY <1>1, WFMin
<1>4. \A y \in T : ~ (y < n)
  BY <1>2, <1>3
<1> QED BY <1>4

\* A set that has 0, and with each number the next one, has all.
LEMMA Induction ==
  ASSUME NEW T, 0 \in T, \A n \in Nat : n \in T => n + 1 \in T
  PROVE  Nat \subseteq T
<1> SUFFICES ASSUME Nat \ T # {} PROVE FALSE
  OBVIOUS
<1>1. PICK n \in Nat \ T : \A m \in Nat \ T : n <= m
  BY LeastNumber
<1>2. n # 0 /\ n - 1 \in Nat /\ n - 1 \in T
  BY <1>1
<1> QED BY <1>1, <1>2

\* Every set of natural numbers that is bounded and not empty has a greatest one.
LEMMA GreatestNumber ==
  ASSUME NEW T \in SUBSET Nat, T # {}, NEW b \in Nat, \A n \in T : n <= b
  PROVE  \E n \in T : \A m \in T : m <= n
<1> DEFINE D == {d \in Nat : \E n \in T : d = b - n}
<1>1. D # {}
  <2>1. PICK n \in T : n \in Nat /\ n <= b
    OBVIOUS
  <2>2. b - n \in D
    BY <2>1
  <2> QED BY <2>2
<1>2. PICK d \in D : \A e \in D : d <= e
  BY <1>1, LeastNumber
<1>3. PICK n \in T : d = b - n
  BY <1>2
<1>4. \A m \in T : b - m \in D
  OBVIOUS
<1> QED BY <1>2, <1>3, <1>4

\* A bijection keeps the number of elements.
LEMMA SameSize ==
  ASSUME NEW S, NEW T, IsFiniteSet(S), NEW f \in [S -> T],
         \A x, y \in S : f[x] = f[y] => x = y,
         \A z \in T : \E x \in S : f[x] = z
  PROVE  IsFiniteSet(T) /\ Cardinality(T) = Cardinality(S)
<1>1. f \in Bijection(S, T)
  BY DEF Bijection, Injection, Surjection, IsInjective
<1> QED BY <1>1, FS_Bijection DEF ExistsBijection

\* What is left of a set of positions when the head of the sequence is taken away.
LEMMA ShiftedSize ==
  ASSUME NEW n \in Nat, NEW S \in SUBSET (1 .. n), 
         NEW T \in SUBSET (1 .. n - 1), T = {i \in 1 .. n - 1 : i + 1 \in S}
  PROVE  /\ IsFiniteSet(S) /\ IsFiniteSet(T)
         /\ Cardinality(T) = IF 1 \in S THEN Cardinality(S) - 1 ELSE Cardinality(S)
<1> DEFINE f == [i \in T |-> i + 1]
<1>1. IsFiniteSet(1 .. n) /\ IsFiniteSet(1 .. n - 1)
  BY FS_Interval
<1>2. IsFiniteSet(S) /\ IsFiniteSet(T)
  BY <1>1, FS_Subset
<1>3. f \in [T -> S \ {1}]
  OBVIOUS
<1>4. \A x, y \in T : f[x] = f[y] => x = y
  OBVIOUS
<1>5. \A z \in S \ {1} : \E x \in T : f[x] = z
  <2> SUFFICES ASSUME NEW z \in S \ {1} PROVE z - 1 \in T /\ f[z - 1] = z
    OBVIOUS
  <2> QED OBVIOUS
<1> HIDE DEF f
<1>6. f \in Bijection(T, S \ {1})
  BY <1>3, <1>4, <1>5 DEF Bijection, Injection, Surjection, IsInjective
<1>7. Cardinality(S \ {1}) = Cardinality(T)
  BY <1>2, <1>6, FS_Bijection, Zenon DEF ExistsBijection
<1> QED BY <1>2, <1>7, FS_RemoveElement

\* Sizes when one element is added or taken away.
LEMMA Added ==
  ASSUME NEW S, IsFiniteSet(S), NEW x, x \notin S, NEW T, T = S \cup {x}
  PROVE  IsFiniteSet(T) /\ Cardinality(T) = Cardinality(S) + 1
BY FS_AddElement

LEMMA Removed ==
  ASSUME NEW S, IsFiniteSet(S), NEW x \in S, NEW T, T = S \ {x}
  PROVE  IsFiniteSet(T) /\ Cardinality(T) = Cardinality(S) - 1
BY FS_RemoveElement

-----------------------------------------------------------------------------
(* Running totals: f[i] is the sum of the first i values of v.             *)

IsTotal(f, v, n) == f = [i \in 0 .. n |-> IF i = 0 THEN 0 ELSE f[i - 1] + v[i]]

LEMMA TotalExists ==
  ASSUME NEW v, NEW n \in Nat
  PROVE  \E f : IsTotal(f, v, n)
<1> DEFINE T == {k \in Nat : \E f : IsTotal(f, v, k)}
<1>1. 0 \in T
  <2>1. IsTotal([i \in 0 .. 0 |-> 0], v, 0)
    BY DEF IsTotal
  <2> QED BY <2>1
<1>2. ASSUME NEW k \in Nat, k \in T PROVE k + 1 \in T
  <2>1. PICK f : IsTotal(f, v, k)
    BY <1>2
  <2> DEFINE g == [i \in 0 .. k + 1 |-> IF i = k + 1 THEN f[k] + v[k + 1] ELSE f[i]]
  <2>2. ASSUME NEW i \in 0 .. k + 1 PROVE g[i] = IF i = 0 THEN 0 ELSE g[i - 1] + v[i]
    <3>1. CASE i = k + 1
      <4>1. i # 0 /\ i - 1 = k /\ k \in 0 .. k + 1 /\ k # k + 1
        BY <3>1
      <4> QED BY <3>1, <4>1
    <3>2. CASE i = 0
      <4>1. 0 \in 0 .. k
        OBVIOUS
      <4>2. f[0] = 0
        BY <2>1, <4>1 DEF IsTotal
      <4> QED BY <3>2, <4>2
    <3>3. CASE i \in 1 .. k
      <4>1. i \in 0 .. k /\ i # 0 /\ i - 1 \in 0 .. k + 1 /\ i - 1 # k + 1 /\ i # k + 1
        BY <3>3
      <4>2. f[i] = f[i - 1] + v[i]
        BY <2>1, <4>1 DEF IsTotal
      <4> QED BY <4>1, <4>2
    <3> QED BY <3>1, <3>2, <3>3
  <2>3. IsTotal(g, v, k + 1)
    <3>1. g = [i \in 0 .. k + 1 |-> g[i]]
      OBVIOUS
    <3> HIDE DEF g
    <3> QED BY <2>2, <3>1 DEF IsTotal
  <2> QED BY <2>3
<1> HIDE DEF T
<1>3. n \in T
  BY <1>1, <1>2, Induction
<1> QED BY <1>3 DEF T

\* Totals of values that agree are the same as far as they agree.
LEMMA TotalsAgree ==
  ASSUME NEW v, NEW u, NEW m \in Nat, NEW n \in Nat, NEW f, IsTotal(f, v, m),
         NEW g, IsTotal(g, u, n), NEW k \in Nat, k <= m, k <= n,
         \A i \in 1 .. k : v[i] = u[i]
  PROVE  f[k] = g[k]
<1> DEFINE T == {i \in Nat : i <= k => f[i] = g[i]}
<1>1. 0 \in T
  <2>1. 0 \in 0 .. m /\ 0 \in 0 .. n
    OBVIOUS
  <2>2. f[0] = 0 /\ g[0] = 0
    BY <2>1 DEF IsTotal
  <2> QED BY <2>2
<1>2. ASSUME NEW i \in Nat, i \in T PROVE i + 1 \in T
  <2> SUFFICES ASSUME i + 1 <= k PROVE f[i + 1] = g[i + 1]
    OBVIOUS
  <2>1. i + 1 \in 0 .. m /\ i + 1 \in 0 .. n /\ i + 1 # 0 /\ i + 1 \in 1 .. k /\ i <= k /\ i + 1 - 1 = i
    OBVIOUS
  <2>2. f[i + 1] = f[i] + v[i + 1] /\ g[i + 1] = g[i] + u[i + 1]
    BY <2>1 DEF IsTotal
  <2> QED BY <1>2, <2>1, <2>2
<1> HIDE DEF T
<1>3. k \in T
  BY <1>1, <1>2, Induction
<1> QED BY <1>3 DEF T

\* One more value is added.
LEMMA TotalNext ==
  ASSUME NEW v, NEW u, NEW n \in Nat, NEW f, IsTotal(f, v, n), NEW g, IsTotal(g, u, n + 1),
         \A i \in 1 .. n : v[i] = u[i]
  PROVE  g[n + 1] = f[n] + u[n + 1]
<1>1. f[n] = g[n]
  BY TotalsAgree
<1>2. n + 1 \in 0 .. n + 1 /\ n + 1 # 0 /\ n + 1 - 1 = n
  OBVIOUS
<1>3. g[n + 1] = g[n] + u[n + 1]
  BY <1>2 DEF IsTotal
<1> QED BY <1>1, <1>3
=============================================================================
