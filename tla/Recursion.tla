------------------------------ MODULE Recursion ------------------------------
(***************************************************************************)
(* Induction over the natural numbers, and functions defined by recursion  *)
(* over them, stated for sets and functions: nothing here takes an         *)
(* operator as a parameter.                                                *)
(*                                                                         *)
(* Finite sets are well founded under inclusion (a theorem of the          *)
(* library), so the initial segments of the naturals are, and every        *)
(* nonempty set of naturals has a least element.                           *)
(***************************************************************************)
EXTENDS Integers, TLAPS, FiniteSetTheorems

LEMMA LeastElement ==
  ASSUME NEW T \in SUBSET Nat, T # {}
  PROVE  \E n \in T : \A m \in T : n <= m
<1>1. PICK t \in T : TRUE
  OBVIOUS
<1> DEFINE U == 0 .. t
           F == {0 .. m : m \in T \cap U}
<1>2. IsFiniteSet(U)
  BY FS_Interval
<1>3. IsWellFoundedOn(StrictSubsetOrdering(U), FiniteSubsetsOf(U))
  BY FS_StrictSubsetOrderingWellFounded
<1>4. F \subseteq FiniteSubsetsOf(U) /\ F # {}
  BY <1>2, FS_FiniteSubsetsOfFinite
<1>5. PICK x \in F : \A y \in F : <<y, x>> \notin StrictSubsetOrdering(U)
  BY <1>3, <1>4, WFMin
<1>6. PICK n \in T \cap U : x = 0 .. n
  OBVIOUS
<1>7. ASSUME NEW m \in T, m < n PROVE FALSE
  <2>1. 0 .. m \in F /\ 0 .. m \subseteq 0 .. n /\ 0 .. m # 0 .. n
    BY <1>7
  <2>2. <<0 .. m, x>> \in StrictSubsetOrdering(U)
    BY <2>1, <1>6 DEF StrictSubsetOrdering
  <2> QED BY <2>1, <2>2, <1>5
<1> QED BY <1>7

LEMMA NatInductionSet ==
  ASSUME NEW S, 0 \in S, \A n \in Nat : n \in S => n + 1 \in S
  PROVE  \A n \in Nat : n \in S
<1> SUFFICES ASSUME NEW k \in Nat, k \notin S PROVE FALSE
  OBVIOUS
<1> DEFINE T == {n \in Nat : n \notin S}
<1>1. PICK n \in T : \A m \in T : n <= m
  BY LeastElement
<1>2. n # 0 /\ n - 1 \in Nat /\ n - 1 \notin T
  BY <1>1
<1> QED BY <1>1, <1>2

\* f starts at a, and g gives each of its values from the one before.
Recurs(f, V, a, n, g) ==
  f \in [0 .. n -> V] /\ f[0] = a /\ \A i \in 1 .. n : f[i] = g[<<i, f[i - 1]>>]

\* A function can be defined by recursion.
LEMMA RecursionExists ==
  ASSUME NEW V, NEW a \in V, NEW n \in Nat, NEW g \in [(1 .. n) \X V -> V]
  PROVE  \E f : Recurs(f, V, a, n, g)
<1> DEFINE Upto(k, f) == /\ f \in [0 .. k -> V] /\ f[0] = a
                         /\ \A i \in 1 .. k : f[i] = g[<<i, f[i - 1]>>]
           S == {k \in Nat : k <= n => \E f \in [0 .. k -> V] : Upto(k, f)}
<1>1. 0 \in S
  <2>1. Upto(0, [i \in 0 .. 0 |-> a])
    OBVIOUS
  <2> QED BY <2>1
<1>2. ASSUME NEW k \in Nat, k \in S PROVE k + 1 \in S
  <2> SUFFICES ASSUME k + 1 <= n PROVE \E f \in [0 .. k + 1 -> V] : Upto(k + 1, f)
    OBVIOUS
  <2>1. PICK f \in [0 .. k -> V] : Upto(k, f)
    BY <1>2
  <2> DEFINE h == [i \in 0 .. k + 1 |-> IF i = k + 1 THEN g[<<k + 1, f[k]>>] ELSE f[i]]
  <2>2. f[k] \in V /\ k + 1 \in 1 .. n
    BY <2>1
  <2>3. h \in [0 .. k + 1 -> V]
    BY <2>1, <2>2
  <2>4. ASSUME NEW i \in 1 .. k + 1 PROVE h[i] = g[<<i, h[i - 1]>>]
    <3>1. CASE i = k + 1
      <4>1. h[i] = g[<<k + 1, f[k]>>] /\ h[i - 1] = f[k]
        BY <3>1
      <4> QED BY <3>1, <4>1
    <3>2. CASE i # k + 1
      <4>1. i \in 1 .. k /\ h[i] = f[i] /\ h[i - 1] = f[i - 1]
        BY <3>2
      <4> QED BY <2>1, <4>1
    <3> QED BY <3>1, <3>2
  <2>5. h[0] = a
    BY <2>1
  <2> QED BY <2>3, <2>4, <2>5
<1>3. n \in S
  BY <1>1, <1>2, NatInductionSet
<1>4. PICK f \in [0 .. n -> V] : Upto(n, f)
  BY <1>3
<1> QED BY <1>4 DEF Recurs

\* A function on D can be defined by b, which gives its value at x from the
\* function's values at elements of a lower rank.
Given(D, V, rank, b) ==
  /\ rank \in [D -> Nat] /\ b \in [[D -> V] \X D -> V]
  /\ \A f, g \in [D -> V], x \in D :
       (\A y \in D : rank[y] < rank[x] => f[y] = g[y]) => b[<<f, x>>] = b[<<g, x>>]

LEMMA RankedExists ==
  ASSUME NEW D, NEW V, NEW rank, NEW b, Given(D, V, rank, b), NEW v \in V
  PROVE  \E f \in [D -> V] : \A x \in D : f[x] = b[<<f, x>>]
<1> DEFINE Upto(n, f) == \A x \in D : rank[x] < n => f[x] = b[<<f, x>>]
           S == {n \in Nat : \E f \in [D -> V] : Upto(n, f)}
           U == {n \in Nat : \A f, g \in [D -> V] : Upto(n, f) /\ Upto(n, g) =>
                               \A x \in D : rank[x] < n => f[x] = g[x]}
<1>1. rank \in [D -> Nat] /\ b \in [[D -> V] \X D -> V]
  BY DEF Given
<1>2. 0 \in S
  <2>1. [x \in D |-> v] \in [D -> V] /\ Upto(0, [x \in D |-> v])
    BY <1>1
  <2> QED BY <2>1
<1>3. ASSUME NEW n \in Nat, n \in S PROVE n + 1 \in S
  <2>1. PICK f \in [D -> V] : Upto(n, f)
    BY <1>3
  <2> DEFINE g == [x \in D |-> b[<<f, x>>]]
  <2>2. g \in [D -> V]
    BY <1>1
  <2>3. \A x \in D : rank[x] < n => g[x] = f[x]
    BY <2>1
  <2> HIDE DEF g
  <2>4. ASSUME NEW x \in D, rank[x] < n + 1 PROVE g[x] = b[<<g, x>>]
    <3>1. \A y \in D : rank[y] < rank[x] => f[y] = g[y]
      BY <1>1, <2>3, <2>4
    <3>2. b[<<f, x>>] = b[<<g, x>>]
      BY <3>1, <2>1, <2>2 DEF Given
    <3> QED BY <3>2 DEF g
  <2>5. Upto(n + 1, g)
    BY <2>4
  <2> QED BY <2>2, <2>5
<1>4. \A n \in Nat : n \in S
  <2> HIDE DEF S
  <2> QED BY <1>2, <1>3, NatInductionSet
<1>5. 0 \in U
  BY <1>1
<1>6. ASSUME NEW n \in Nat, n \in U PROVE n + 1 \in U
  <2> SUFFICES ASSUME NEW f \in [D -> V], NEW g \in [D -> V], Upto(n + 1, f), Upto(n + 1, g),
                      NEW x \in D, rank[x] < n + 1
               PROVE  f[x] = g[x]
    OBVIOUS
  <2>1. Upto(n, f) /\ Upto(n, g)
    BY <1>1
  <2>2. \A y \in D : rank[y] < rank[x] => f[y] = g[y]
    BY <1>1, <1>6, <2>1
  <2>3. b[<<f, x>>] = b[<<g, x>>]
    BY <2>2 DEF Given
  <2> QED BY <2>3
<1>7. \A n \in Nat : n \in U
  <2> HIDE DEF U
  <2> QED BY <1>5, <1>6, NatInductionSet
<1> DEFINE F(n) == CHOOSE f \in [D -> V] : Upto(n, f)
           f0 == [x \in D |-> F(rank[x] + 1)[x]]
<1>8. ASSUME NEW n \in Nat PROVE F(n) \in [D -> V] /\ Upto(n, F(n))
  <2>1. \E f \in [D -> V] : Upto(n, f)
    BY <1>4
  <2> HIDE DEF Upto
  <2> QED BY <2>1
<1> HIDE DEF F
<1>9. f0 \in [D -> V]
  BY <1>1, <1>8
<1>10. ASSUME NEW x \in D PROVE f0[x] = b[<<f0, x>>]
  <2> DEFINE f == F(rank[x] + 1)
  <2>1. f \in [D -> V] /\ Upto(rank[x] + 1, f) /\ rank[x] + 1 \in Nat /\ rank[x] \in Nat
    <3>1. rank[x] \in Nat /\ rank[x] + 1 \in Nat
      BY <1>1
    <3> HIDE DEF Upto
    <3> QED BY <3>1, <1>8
  <2>2. ASSUME NEW y \in D, rank[y] < rank[x] PROVE f[y] = f0[y]
    <3> DEFINE g == F(rank[y] + 1)
    <3>1. g \in [D -> V] /\ Upto(rank[y] + 1, g) /\ rank[y] + 1 \in Nat /\ rank[y] \in Nat
      <4>1. rank[y] \in Nat /\ rank[y] + 1 \in Nat
        BY <1>1
      <4> HIDE DEF Upto
      <4> QED BY <4>1, <1>8
    <3>2. Upto(rank[y] + 1, f)
      BY <2>1, <3>1, <1>1, <2>2
    <3> HIDE DEF f, g
    <3>3. f[y] = g[y]
      BY <1>7, <2>1, <3>1, <3>2
    <3> QED BY <3>3 DEF g
  <2> HIDE DEF f
  <2>3. b[<<f, x>>] = b[<<f0, x>>]
    BY <2>1, <2>2, <1>9 DEF Given
  <2>4. f[x] = b[<<f, x>>]
    BY <2>1, <1>1
  <2> QED BY <2>3, <2>4 DEF f
<1> QED BY <1>9, <1>10

\* In particular, a function on the naturals.
LEMMA NatRecursionExists ==
  ASSUME NEW V, NEW a \in V, NEW g \in [V -> V]
  PROVE  \E f \in [Nat -> V] : f[0] = a /\ \A n \in Nat : f[n + 1] = g[f[n]]
<1> DEFINE rank == [n \in Nat |-> n]
           b == [p \in [Nat -> V] \X Nat |-> IF p[2] = 0 THEN a ELSE g[p[1][p[2] - 1]]]
<1>1. \A f \in [Nat -> V], n \in Nat :
        <<f, n>> \in [Nat -> V] \X Nat /\ b[<<f, n>>] = IF n = 0 THEN a ELSE g[f[n - 1]]
  OBVIOUS
<1>2. Given(Nat, V, rank, b)
  <2>1. rank \in [Nat -> Nat] /\ b \in [[Nat -> V] \X Nat -> V]
    OBVIOUS
  <2> HIDE DEF b
  <2>2. ASSUME NEW f \in [Nat -> V], NEW h \in [Nat -> V], NEW x \in Nat,
               \A y \in Nat : rank[y] < rank[x] => f[y] = h[y]
        PROVE  b[<<f, x>>] = b[<<h, x>>]
    <3>1. x # 0 => f[x - 1] = h[x - 1]
      BY <2>2
    <3> QED BY <3>1, <1>1
  <2> QED BY <2>1, <2>2 DEF Given
<1> HIDE DEF b, rank
<1>3. PICK f \in [Nat -> V] : \A x \in Nat : f[x] = b[<<f, x>>]
  BY <1>2, RankedExists
<1>4. f[0] = a
  BY <1>1, <1>3
<1>5. ASSUME NEW n \in Nat PROVE f[n + 1] = g[f[n]]
  <2>1. n + 1 \in Nat /\ n + 1 # 0 /\ (n + 1) - 1 = n
    OBVIOUS
  <2> QED BY <2>1, <1>1, <1>3
<1> QED BY <1>4, <1>5

\* As many different values as the places of a sequence do not fit in fewer.
LEMMA DistinctBound ==
  ASSUME NEW n \in Nat, NEW m \in Nat, NEW s \in [1 .. n -> 1 .. m],
         \A i, j \in 1 .. n : s[i] = s[j] => i = j
  PROVE  n <= m
<1>1. IsFiniteSet(1 .. n) /\ IsFiniteSet(1 .. m) /\ Cardinality(1 .. n) = n /\ Cardinality(1 .. m) = m
  BY FS_Interval
<1>2. s \in Injection(1 .. n, 1 .. m)
  BY DEF Injection, IsInjective
<1> QED BY <1>1, <1>2, FS_Injection

=============================================================================
