--------------------------- MODULE HashTableProofs ---------------------------
(***************************************************************************)
(* Proofs about HashTable, for any number of slots, segments, elements and *)
(* hash numbers, and any limits of the load.                               *)
(*                                                                         *)
(* TableInv says of the structure that the chain of each slot lists, in    *)
(* order (Prec) and each once, the live elements whose hash numbers have   *)
(* that remainder; splits and merges keep it, and lookup follows from it.  *)
(*                                                                         *)
(* GenInv says of a generator that it came by (Passed) every element it    *)
(* generated, and generated every stable element it came by.  Where it     *)
(* stands is told by the slots there were when it last saw a split         *)
(* (level k): the notes on the segments (History) say which elements are   *)
(* done, and of the others it came by those before its place.  From a      *)
(* deleted element it finds back by the links deleted elements were left   *)
(* with (Linked).                                                          *)
(***************************************************************************)
EXTENDS HashTable, Recursion

----------------------------------------------------------------------------
(* Powers of 2 and remainders *)

LEMMA Powers ==
  Pow2[0] = 1 /\ \A k \in Nat : Pow2[k] \in Nat \ {0} /\ Pow2[k + 1] = 2 * Pow2[k]
<1> DEFINE g == [v \in Nat |-> 2 * v]
<1>1. PICK f \in [Nat -> Nat] : f[0] = 1 /\ \A n \in Nat : f[n + 1] = g[f[n]]
  <2> DEFINE one == 1
             V == Nat
  <2>1. g \in [V -> V] /\ one \in V
    OBVIOUS
  <2> HIDE DEF g, one, V
  <2>2. \E f \in [Nat -> V] : f[0] = one /\ \A n \in Nat : f[n + 1] = g[f[n]]
    BY <2>1, NatRecursionExists
  <2> QED BY <2>2 DEF one, V
<1>2. f = [k \in Nat |-> IF k = 0 THEN 1 ELSE 2 * f[k - 1]]
  <2>1. ASSUME NEW k \in Nat, k # 0 PROVE f[k] = 2 * f[k - 1]
    <3>1. k - 1 \in Nat /\ (k - 1) + 1 = k
      BY <2>1
    <3> QED BY <3>1, <1>1
  <2> QED BY <1>1, <2>1
<1>3. Pow2 = [k \in Nat |-> IF k = 0 THEN 1 ELSE 2 * Pow2[k - 1]]
  <2> DEFINE P(p) == p = [k \in Nat |-> IF k = 0 THEN 1 ELSE 2 * p[k - 1]]
  <2>1. P(f)
    BY <1>2
  <2>2. Pow2 = CHOOSE p : P(p)
    BY DEF Pow2
  <2> HIDE DEF P
  <2>3. P(Pow2)
    BY <2>1, <2>2
  <2> QED BY <2>3 DEF P
<1>4. Pow2[0] = 1 /\ \A k \in Nat : Pow2[k + 1] = 2 * Pow2[k]
  <2>1. \A k \in Nat : k + 1 \in Nat /\ k + 1 # 0 /\ (k + 1) - 1 = k
    OBVIOUS
  <2> QED BY <1>3, <2>1
<1> DEFINE S == {k \in Nat : Pow2[k] \in Nat \ {0}}
<1>5. \A k \in Nat : k \in S
  <2>1. 0 \in S
    BY <1>4
  <2>2. \A k \in Nat : k \in S => k + 1 \in S
    BY <1>4
  <2> HIDE DEF S
  <2> QED BY <2>1, <2>2, NatInductionSet
<1> QED BY <1>4, <1>5

LEMMA DivMod ==
  ASSUME NEW n \in Nat, NEW d \in Nat \ {0}
  PROVE  /\ n = d * (n \div d) + (n % d) /\ n \div d \in Nat
         /\ (n % d) \in 0 .. d - 1
OBVIOUS

LEMMA ModUnique ==
  ASSUME NEW d \in Nat \ {0}, NEW q \in Nat, NEW r \in 0 .. d - 1
  PROVE  ((d * q + r) % d) = r /\ (d * q + r) \div d = q
OBVIOUS

LEMMA ModSmall ==
  ASSUME NEW d \in Nat \ {0}, NEW r \in 0 .. d - 1
  PROVE  (r % d) = r
OBVIOUS

\* Remainders of a multiple of a determine those of a.
LEMMA ModMod ==
  ASSUME NEW a \in Nat \ {0}, NEW b \in Nat \ {0}, NEW n \in Nat
  PROVE  ((n % (a * b)) % a) = (n % a)
<1> DEFINE d == a * b
           r == n % d
           q == n \div d
           s == r \div a
           t == r % a
<1>1. d \in Nat \ {0}
  OBVIOUS
<1>2. n = d * q + r /\ q \in Nat /\ r \in Nat
  <2> HIDE DEF d
  <2> QED BY <1>1, DivMod
<1> HIDE DEF q, r
<1>3. r = a * s + t /\ s \in Nat /\ t \in 0 .. a - 1
  BY <1>2, DivMod
<1>4. n = a * (b * q + s) + t
  <2> HIDE DEF s, t
  <2>1. d * q = a * (b * q)
    BY <1>2
  <2>2. a * (b * q + s) = a * (b * q) + a * s
    BY <1>2, <1>3
  <2> HIDE DEF d
  <2>3. d * q \in Int /\ a * s \in Int
    BY <1>1, <1>2, <1>3
  <2> QED BY <1>2, <1>3, <2>1, <2>2, <2>3
<1>5. b * q + s \in Nat
  <2> HIDE DEF s
  <2> QED BY <1>2, <1>3
<1>6. (n % a) = t
  <2> HIDE DEF s, t
  <2> QED BY <1>3, <1>4, <1>5, ModUnique
<1> QED BY <1>6 DEF r

\* The remainder of 2n, by bit n.
LEMMA ModDouble ==
  ASSUME NEW n \in Nat \ {0}, NEW h \in Nat
  PROVE  (h % (2 * n)) = IF Moves(h, n) THEN n + (h % n) ELSE (h % n)
<1> DEFINE q == h \div n
           r == h % n
           t == q \div 2
           b == q % 2
<1>1. h = n * q + r /\ q \in Nat /\ r \in 0 .. n - 1
  BY DivMod
<1>2. q = 2 * t + b /\ t \in Nat /\ b \in 0 .. 1
  BY <1>1, DivMod
<1>3. h = (2 * n) * t + (n * b + r)
  <2>1. n * q = n * (2 * t) + n * b
    BY <1>1, <1>2
  <2>2. n * (2 * t) = (2 * n) * t
    BY <1>2
  <2> QED BY <1>1, <1>2, <2>1, <2>2
<1>4. n * b + r \in 0 .. 2 * n - 1 /\ 2 * n \in Nat \ {0}
  BY <1>1, <1>2
<1>5. (h % (2 * n)) = n * b + r
  <2> HIDE DEF q, r, t, b
  <2> QED BY <1>2, <1>3, <1>4, ModUnique
<1>6. b = 1 \/ b = 0
  BY <1>2
<1> QED BY <1>1, <1>5, <1>6 DEF Moves

----------------------------------------------------------------------------
(* Numbers of slots *)

LEMMA SlotsNat ==
  /\ HSlots \in Nat \ {0, 1} /\ HSegs \in Nat \ {0} /\ Slots(0) = HSlots
  /\ \A k \in Nat : Slots(k) \in Nat \ {0, 1} /\ Slots(k + 1) = 2 * Slots(k)
<1>1. PICK j \in 1 .. 10 : HSlots = Pow2[j]
  BY ParameterAssumption
<1>2. j - 1 \in Nat /\ (j - 1) + 1 = j
  OBVIOUS
<1>3. Pow2[j - 1] \in Nat \ {0} /\ HSlots = 2 * Pow2[j - 1]
  BY <1>1, <1>2, Powers
<1>4. HSlots \in Nat \ {0, 1}
  BY <1>3
<1>5. \A k \in Nat : Slots(k) \in Nat \ {0, 1} /\ Slots(k + 1) = 2 * Slots(k)
  BY <1>4, Powers DEF Slots
<1> QED BY <1>4, <1>5, Powers, ParameterAssumption DEF Slots

\* The slots of more segments are a multiple of those of fewer.
LEMMA SlotsMultiple ==
  ASSUME NEW i \in Nat, NEW j \in Nat, i <= j
  PROVE  \E p \in Nat \ {0} : Slots(j) = Slots(i) * p
<1> DEFINE S == {n \in Nat : \E p \in Nat \ {0} : Slots(i + n) = Slots(i) * p}
<1>1. 0 \in S
  BY SlotsNat
<1>2. ASSUME NEW n \in Nat, n \in S PROVE n + 1 \in S
  <2>1. PICK p \in Nat \ {0} : Slots(i + n) = Slots(i) * p
    BY <1>2
  <2>2. i + n \in Nat /\ i + (n + 1) = (i + n) + 1
    OBVIOUS
  <2>3. Slots(i + (n + 1)) = 2 * (Slots(i) * p)
    BY <2>1, <2>2, SlotsNat
  <2>4. 2 * (Slots(i) * p) = Slots(i) * (2 * p) /\ 2 * p \in Nat \ {0}
    BY SlotsNat
  <2> QED BY <2>3, <2>4
<1>3. j - i \in Nat /\ i + (j - i) = j
  OBVIOUS
<1>4. j - i \in S
  <2> HIDE DEF S
  <2> QED BY <1>1, <1>2, <1>3, NatInductionSet
<1> QED BY <1>3, <1>4

LEMMA SlotsGrow ==
  ASSUME NEW i \in Nat, NEW j \in Nat
  PROVE  Slots(i) <= Slots(j) <=> i <= j
<1>1. ASSUME NEW a \in Nat, NEW b \in Nat, a <= b PROVE Slots(a) <= Slots(b)
  <2>1. PICK p \in Nat \ {0} : Slots(b) = Slots(a) * p
    BY <1>1, SlotsMultiple
  <2>2. Slots(a) \in Nat /\ p >= 1
    BY SlotsNat
  <2> QED BY <2>1, <2>2
<1>2. ASSUME j < i PROVE Slots(j) < Slots(i)
  <2>1. Slots(j + 1) <= Slots(i)
    BY <1>1, <1>2
  <2> QED BY <2>1, SlotsNat
<1>3. Slots(i) \in Nat /\ Slots(j) \in Nat
  BY SlotsNat
<1> QED BY <1>1, <1>2, <1>3

\* The remainder for fewer segments follows from that for more.
LEMMA ModSlots ==
  ASSUME NEW i \in Nat, NEW j \in Nat, i <= j, NEW n \in Nat
  PROVE  ((n % Slots(j)) % Slots(i)) = (n % Slots(i))
<1> DEFINE a == Slots(i)
<1>1. PICK p \in Nat \ {0} : Slots(j) = a * p
  BY SlotsMultiple
<1>2. a \in Nat \ {0}
  BY SlotsNat
<1> HIDE DEF a
<1>3. ((n % (a * p)) % a) = (n % a)
  BY <1>2, ModMod
<1> QED BY <1>1, <1>3 DEF a

LEMMA ModRange ==
  ASSUME NEW i \in Nat, NEW n \in Nat
  PROVE  (n % Slots(i)) \in 0 .. Slots(i) - 1 /\ (n % Slots(i)) <= n
<1> DEFINE d == Slots(i)
<1>1. d \in Nat \ {0}
  BY SlotsNat
<1> HIDE DEF d
<1>2. n = d * (n \div d) + (n % d) /\ (n % d) \in 0 .. d - 1 /\ n \div d \in Nat
  BY <1>1, DivMod
<1>3. d * (n \div d) \in Nat
  BY <1>1, <1>2
<1>4. (n % d) <= n
  <2> DEFINE x == d * (n \div d)
             y == n % d
  <2>1. x \in Nat /\ y \in Int /\ n = x + y
    BY <1>1, <1>2, <1>3
  <2> HIDE DEF x, y
  <2>2. y <= n
    BY <2>1
  <2> QED BY <2>2 DEF y
<1> QED BY <1>2, <1>4 DEF d

----------------------------------------------------------------------------
(* Addressing *)

LEMMA SegmentSize ==
  ASSUME NEW s \in Nat
  PROVE  /\ segsize(s) \in Nat \ {0} /\ Before(s) \in Nat
         /\ Before(s) + segsize(s) = Slots(s)
         /\ s > 0 => Before(s) = Slots(s - 1) /\ segsize(s) = Slots(s - 1)
<1>1. CASE s = 0
  BY <1>1, SlotsNat DEF segsize, Before
<1>2. CASE s # 0
  <2>1. s - 1 \in Nat /\ (s - 1) + 1 = s
    BY <1>2
  <2>2. Slots(s) = 2 * Slots(s - 1) /\ Slots(s - 1) \in Nat \ {0}
    BY <2>1, SlotsNat
  <2> QED BY <1>2, <2>2 DEF segsize, Before
<1> QED BY <1>1, <1>2

LEMMA SegmentUnique ==
  ASSUME NEW s \in Nat, NEW r \in Nat, NEW g \in Nat,
         Before(s) <= g, g < Slots(s), Before(r) <= g, g < Slots(r)
  PROVE  s = r
<1>1. ASSUME NEW a \in Nat, NEW b \in Nat, a < b, g < Slots(a), Before(b) <= g PROVE FALSE
  <2>1. Before(b) = Slots(b - 1) /\ b - 1 \in Nat /\ a <= b - 1
    BY <1>1, SegmentSize
  <2>2. Slots(a) <= Slots(b - 1) /\ Slots(a) \in Nat /\ Slots(b - 1) \in Nat
    BY <2>1, SlotsGrow, SlotsNat
  <2> QED BY <1>1, <2>1, <2>2
<1> QED BY <1>1

LEMMA SegmentOf ==
  ASSUME NEW top \in 0 .. HSegs - 1, NEW g \in 0 .. Slots(top) - 1
  PROVE  /\ SegOf(g) \in 0 .. top /\ SlotOf(g) \in 0 .. segsize(SegOf(g)) - 1
         /\ g = Before(SegOf(g)) + SlotOf(g)
         /\ Before(SegOf(g)) <= g /\ g < Slots(SegOf(g))
<1> DEFINE T == {s \in Nat : g < Slots(s)}
<1>1. top \in T /\ g \in Nat /\ top \in Nat /\ HSegs \in Nat
  BY SlotsNat
<1>2. PICK s \in T : \A r \in T : s <= r
  BY <1>1, LeastElement
<1>3. s <= top
  BY <1>1, <1>2
<1>4. Before(s) <= g
  <2>1. CASE s = 0
    BY <1>1, <2>1 DEF Before
  <2>2. CASE s # 0
    <3>1. s - 1 \in Nat /\ s - 1 \notin T
      BY <1>2, <2>2
    <3>2. ~ g < Slots(s - 1) /\ Slots(s - 1) \in Nat
      BY <3>1, SlotsNat
    <3> QED BY <1>1, <3>1, <3>2, <2>2, SegmentSize
  <2> QED BY <2>1, <2>2
<1>5. s \in 0 .. HSegs - 1 /\ Before(s) <= g /\ g < Before(s) + segsize(s)
  BY <1>1, <1>2, <1>3, <1>4, SegmentSize
<1> HIDE DEF T
<1>6. SegOf(g) \in 0 .. HSegs - 1 /\ Before(SegOf(g)) <= g
      /\ g < Before(SegOf(g)) + segsize(SegOf(g))
  BY <1>5 DEF SegOf
<1>7. SegOf(g) \in Nat /\ s \in Nat
  BY <1>5, <1>6, <1>1
<1>8. /\ Before(SegOf(g)) + segsize(SegOf(g)) = Slots(SegOf(g))
      /\ Before(s) + segsize(s) = Slots(s)
      /\ Before(SegOf(g)) \in Nat /\ segsize(SegOf(g)) \in Nat
  BY <1>7, SegmentSize
<1>9. SegOf(g) = s
  BY <1>1, <1>5, <1>6, <1>7, <1>8, SegmentUnique
<1> QED BY <1>1, <1>3, <1>6, <1>7, <1>8, <1>9 DEF SlotOf

LEMMA SlotAt ==
  ASSUME NEW top \in 0 .. HSegs - 1, NEW s \in 0 .. top, NEW j \in 0 .. segsize(s) - 1
  PROVE  /\ Before(s) + j \in 0 .. Slots(top) - 1
         /\ SegOf(Before(s) + j) = s /\ SlotOf(Before(s) + j) = j
<1> DEFINE g == Before(s) + j
<1>1. s \in Nat /\ top \in Nat /\ HSegs \in Nat /\ s <= top
  BY SlotsNat
<1>2. /\ Before(s) \in Nat /\ segsize(s) \in Nat /\ Before(s) + segsize(s) = Slots(s)
      /\ Slots(s) <= Slots(top) /\ Slots(top) \in Nat
  BY <1>1, SegmentSize, SlotsGrow, SlotsNat
<1>3. g \in 0 .. Slots(top) - 1 /\ Before(s) <= g /\ g < Slots(s)
  BY <1>2
<1> HIDE DEF g
<1>4. /\ SegOf(g) \in 0 .. top /\ Before(SegOf(g)) <= g /\ g < Slots(SegOf(g))
      /\ g = Before(SegOf(g)) + SlotOf(g)
  BY <1>3, SegmentOf
<1>5. SegOf(g) = s
  BY <1>1, <1>3, <1>4, SegmentUnique
<1>6. SlotOf(g) = j
  BY <1>2, <1>5 DEF g, SlotOf
<1> QED BY <1>3, <1>5, <1>6 DEF g

\* hchain finds the slot that the hash number has among those in use.
LEMMA Address ==
  ASSUME NEW top \in 0 .. HSegs - 1, mask = Slots(top) - 1, NEW hn \in Nat
  PROVE  /\ SegNum(hn) = SegOf(hn % Slots(top)) /\ SegSlot(hn) = SlotOf(hn % Slots(top))
         /\ hchain(hn) = Chain(hdir, hn % Slots(top))
<1> DEFINE N == Slots(top)
           g == hn % N
           s == SegOf(g)
           q == g \div HSlots
<1>1. top \in Nat /\ N \in Nat \ {0} /\ HSlots \in Nat \ {0} /\ HSegs \in Nat
  BY SlotsNat
<1>2. g \in 0 .. N - 1
  BY <1>1, ModRange
<1>3. And(hn, mask) = g
  <2>1. mask + 1 = N
    BY <1>1
  <2> QED BY <2>1 DEF And
<1> HIDE DEF g
<1>4. s \in 0 .. top /\ SlotOf(g) \in 0 .. segsize(s) - 1 /\ g = Before(s) + SlotOf(g)
      /\ Before(s) <= g /\ g < Slots(s)
  BY <1>2, SegmentOf
<1>5. ASSUME NEW k \in Nat PROVE (q < Pow2[k]) <=> (g < Slots(k))
  <2>0. g \in Nat /\ HSlots \in Nat \ {0}
    BY <1>1, <1>2
  <2>1. g = HSlots * q + (g % HSlots) /\ q \in Nat /\ (g % HSlots) \in 0 .. HSlots - 1
    BY <2>0, DivMod
  <2>2. Pow2[k] \in Nat
    BY Powers
  <2> DEFINE r == g % HSlots
             p == Pow2[k]
  <2> HIDE DEF q, r, p
  <2>3. (HSlots * q + r < HSlots * p) <=> (q < p)
    BY <1>1, <2>1, <2>2 DEF r, p
  <2> QED BY <2>1, <2>3 DEF Slots, r, p
<1>6. ASSUME NEW k \in 0 .. HSegs
      PROVE  (q < Pow2[k] /\ (k > 0 => Pow2[k - 1] <= q)) <=> (Before(k) <= g /\ g < Slots(k))
  <2>1. k \in Nat /\ q \in Nat /\ g \in Nat
    BY <1>1, <1>2, DivMod
  <2>2. CASE k = 0
    <3>1. Before(k) <= g
      BY <2>1, <2>2 DEF Before
    <3> QED BY <1>5, <2>1, <2>2, <3>1
  <2>3. CASE k # 0
    <3>0. k - 1 \in Nat /\ k > 0
      BY <2>1, <2>3
    <3>1. k - 1 \in Nat /\ Pow2[k - 1] \in Nat /\ Slots(k - 1) \in Nat /\ Before(k) = Slots(k - 1)
      BY <3>0, <2>1, Powers, SlotsNat, SegmentSize
    <3>2. (Pow2[k - 1] <= q) <=> (Slots(k - 1) <= g)
      <4>1. (q < Pow2[k - 1]) <=> (g < Slots(k - 1))
        BY <3>1, <1>5
      <4> HIDE DEF q
      <4> QED BY <2>1, <3>1, <4>1
    <3>3. (q < Pow2[k]) <=> (g < Slots(k))
      BY <2>1, <1>5
    <3> QED BY <2>1, <2>3, <3>1, <3>2, <3>3
  <2> QED BY <2>2, <2>3
<1>7. SegNum(hn) = s
  <2> DEFINE P(k) == q < Pow2[k] /\ (k > 0 => Pow2[k - 1] <= q)
  <2>1. SegNum(hn) = CHOOSE k \in 0 .. HSegs : P(k)
    BY <1>3 DEF SegNum, log2h
  <2>2. s \in 0 .. HSegs /\ P(s)
    BY <1>1, <1>4, <1>6
  <2>3. SegNum(hn) \in 0 .. HSegs /\ P(SegNum(hn))
    <3> HIDE DEF P
    <3> QED BY <2>1, <2>2
  <2>4. Before(SegNum(hn)) <= g /\ g < Slots(SegNum(hn)) /\ SegNum(hn) \in Nat /\ g \in Nat /\ s \in Nat
    BY <2>3, <1>6, <1>1, <1>2, <1>4
  <2> QED BY <2>4, <1>4, SegmentUnique
<1>8. SegSlot(hn) = SlotOf(g)
  <2> DEFINE z == segsize(s)
  <2>0. s \in Nat
    BY <1>4
  <2>1. z \in Nat \ {0} /\ z - 1 + 1 = z
    BY <2>0, SegmentSize
  <2>2. SegSlot(hn) = (hn % z)
    <3> HIDE DEF s
    <3> QED BY <2>1, <1>7 DEF SegSlot, And
  <2>3. \E i \in Nat : i <= top /\ z = Slots(i) /\ (s > 0 => Before(s) = z)
    <3>1. CASE s = 0
      BY <3>1, SlotsNat, <1>1 DEF segsize
    <3>2. CASE s # 0
      <4>1. s - 1 \in Nat /\ s - 1 <= top /\ z = Slots(s - 1) /\ Before(s) = z
        BY <3>2, <2>0, <1>4, SegmentSize
      <4> QED BY <4>1
    <3> QED BY <3>1, <3>2
  <2>4. (hn % z) = (g % z)
    BY <2>3, <1>1, ModSlots DEF g
  <2>5. (g % z) = SlotOf(g)
    <3> DEFINE j == SlotOf(g)
    <3>1. j \in 0 .. z - 1 /\ (g = z * 0 + j \/ g = z * 1 + j)
      <4>1. CASE s = 0
        BY <4>1, <1>4, <2>1 DEF Before
      <4>2. CASE s # 0
        BY <4>2, <1>4, <2>1, <2>3, <2>0
      <4> QED BY <4>1, <4>2
    <3> HIDE DEF z, j
    <3>2. ((z * 0 + j) % z) = j /\ ((z * 1 + j) % z) = j
      BY <2>1, <3>1, ModUnique
    <3> QED BY <3>1, <3>2 DEF j
  <2> QED BY <2>2, <2>4, <2>5
<1>9. hchain(hn) = Chain(hdir, g)
  BY <1>7, <1>8 DEF hchain, Chain
<1> QED BY <1>7, <1>8, <1>9 DEF g

----------------------------------------------------------------------------
(* Chains *)

\* Chains are in order of hash number, and of age where those are equal.
Prec(h, e, f) == h[e] < h[f] \/ (h[e] = h[f] /\ e < f)

Ordered(h, chain) == \A i, j \in DOMAIN chain : i < j => Prec(h, chain[i], chain[j])

\* The chain lists the elements of S, each once and in order.
Lists(h, chain, S) ==
  /\ chain \in Seq(Elem) /\ Ordered(h, chain)
  /\ \A i \in DOMAIN chain : chain[i] \in S
  /\ \A e \in S : \E i \in DOMAIN chain : chain[i] = e

LEMMA ElemNat == MaxElem \in Nat /\ Elem \subseteq Nat /\ End \notin Elem
BY ParameterAssumption DEF Elem

LEMMA PrecOrder ==
  ASSUME NEW h \in [Elem -> Nat]
  PROVE  /\ \A e, f \in Elem : Prec(h, e, f) => ~Prec(h, f, e) /\ e # f /\ h[e] <= h[f]
         /\ \A e, f \in Elem : e = f \/ Prec(h, e, f) \/ Prec(h, f, e)
         /\ \A e, f, x \in Elem : Prec(h, e, f) /\ Prec(h, f, x) => Prec(h, e, x)
         /\ \A e, f \in Elem : h[e] < h[f] => Prec(h, e, f)
<1>1. \A e \in Elem : e \in Nat /\ h[e] \in Nat
  BY ElemNat
<1>2. ASSUME NEW e \in Elem, NEW f \in Elem
      PROVE  /\ Prec(h, e, f) => ~Prec(h, f, e) /\ e # f /\ h[e] <= h[f]
             /\ e = f \/ Prec(h, e, f) \/ Prec(h, f, e)
             /\ h[e] < h[f] => Prec(h, e, f)
  <2>1. e \in Nat /\ f \in Nat /\ h[e] \in Nat /\ h[f] \in Nat
    BY <1>1
  <2>2. Prec(h, e, f) => ~Prec(h, f, e) /\ h[e] <= h[f]
    BY <2>1 DEF Prec
  <2>3. Prec(h, e, f) => e # f
    BY <2>1 DEF Prec
  <2>4. e # f => Prec(h, e, f) \/ Prec(h, f, e)
    <3>1. e < f \/ f < e \/ e = f
      BY <2>1
    <3>2. h[e] < h[f] \/ h[f] < h[e] \/ h[e] = h[f]
      BY <2>1
    <3> QED BY <3>1, <3>2 DEF Prec
  <2>5. h[e] < h[f] => Prec(h, e, f)
    BY DEF Prec
  <2> QED BY <2>2, <2>3, <2>4, <2>5
<1>3. ASSUME NEW e \in Elem, NEW f \in Elem, NEW x \in Elem, Prec(h, e, f), Prec(h, f, x)
      PROVE  Prec(h, e, x)
  <2>1. e \in Nat /\ f \in Nat /\ x \in Nat /\ h[e] \in Nat /\ h[f] \in Nat /\ h[x] \in Nat
    BY <1>1
  <2> QED BY <2>1, <1>3 DEF Prec
<1> QED BY <1>2, <1>3

LEMMA ChainIndex ==
  ASSUME NEW h \in [Elem -> Nat], NEW chain \in Seq(Elem), Ordered(h, chain)
  PROVE  /\ Len(chain) \in Nat /\ DOMAIN chain = 1 .. Len(chain)
         /\ \A i \in DOMAIN chain : chain[i] \in Elem
         /\ \A i, j \in DOMAIN chain : (i < j <=> Prec(h, chain[i], chain[j]))
                                       /\ (chain[i] = chain[j] => i = j)
<1>1. Len(chain) \in Nat /\ DOMAIN chain = 1 .. Len(chain)
  OBVIOUS
<1>2. \A i \in DOMAIN chain : chain[i] \in Elem /\ i \in Nat
  OBVIOUS
<1>3. ASSUME NEW i \in DOMAIN chain, NEW j \in DOMAIN chain
      PROVE  (i < j <=> Prec(h, chain[i], chain[j])) /\ (chain[i] = chain[j] => i = j)
  <2>1. i < j => Prec(h, chain[i], chain[j])
    BY DEF Ordered
  <2>2. j < i => Prec(h, chain[j], chain[i])
    BY DEF Ordered
  <2>3. i < j \/ j < i \/ i = j
    BY <1>2
  <2>4. Prec(h, chain[i], chain[j]) => ~Prec(h, chain[j], chain[i]) /\ chain[i] # chain[j]
    BY <1>2, PrecOrder
  <2>5. Prec(h, chain[j], chain[i]) => chain[i] # chain[j]
    BY <1>2, PrecOrder
  <2>6. ~(i < j /\ j < i) /\ (i = j => ~ i < j)
    BY <1>2
  <2> QED BY <2>1, <2>2, <2>3, <2>4, <2>5, <2>6
<1> QED BY <1>1, <1>2, <1>3

LEMMA FirstIs ==
  ASSUME NEW I \in SUBSET (Nat \ {0})
  PROVE  /\ I = {} => First(I) = 0
         /\ I # {} => First(I) \in I /\ First(I) # 0 /\ \A j \in I : First(I) <= j
<1>1. CASE I = {}
  BY <1>1 DEF First
<1>2. CASE I # {}
  <2>1. PICK n \in I : \A m \in I : n <= m
    BY <1>2, LeastElement
  <2>2. First(I) \in I /\ \A j \in I : First(I) <= j
    BY <1>2, <2>1 DEF First
  <2> QED BY <1>2, <2>2
<1> QED BY <1>1, <1>2

\* Unlinking elements leaves the others in their order.
LEMMA KeptLists ==
  ASSUME NEW h \in [Elem -> Nat], NEW S \in SUBSET Elem, NEW chain, Lists(h, chain, S), NEW keep
  PROVE  Lists(h, Kept(chain, keep), S \cap keep)
<1> DEFINE n == Len(chain)
           V == Seq(Elem)
           g == [p \in (1 .. n) \X V |->
                   IF chain[p[1]] \in keep THEN Append(p[2], chain[p[1]]) ELSE p[2]]
           P(u) == u = [i \in 0 .. n |-> IF i = 0 THEN <<>>
                          ELSE IF chain[i] \in keep THEN Append(u[i - 1], chain[i]) ELSE u[i - 1]]
           upto == CHOOSE u : P(u)
<1>1. /\ chain \in Seq(Elem) /\ Ordered(h, chain) /\ n \in Nat /\ DOMAIN chain = 1 .. n
      /\ \A i \in 1 .. n : chain[i] \in Elem
  BY DEF Lists
<1>2. P(upto)
  <2>1. \A i \in 1 .. n, v \in V : <<i, v>> \in (1 .. n) \X V
                /\ g[<<i, v>>] = IF chain[i] \in keep THEN Append(v, chain[i]) ELSE v
    OBVIOUS
  <2>2. g \in [(1 .. n) \X V -> V]
    BY <1>1
  <2>3. <<>> \in V
    OBVIOUS
  <2> HIDE DEF g, V, n
  <2>4. PICK u : Recurs(u, V, <<>>, n, g)
    BY <1>1, <2>2, <2>3, RecursionExists
  <2>5. u \in [0 .. n -> V] /\ u[0] = <<>> /\ \A i \in 1 .. n : u[i] = g[<<i, u[i - 1]>>]
    BY <2>4 DEF Recurs
  <2>6. \A i \in 1 .. n : u[i] = IF chain[i] \in keep THEN Append(u[i - 1], chain[i]) ELSE u[i - 1]
    <3> SUFFICES ASSUME NEW i \in 1 .. n
                 PROVE  u[i] = IF chain[i] \in keep THEN Append(u[i - 1], chain[i]) ELSE u[i - 1]
      OBVIOUS
    <3>1. i - 1 \in 0 .. n
      BY <1>1
    <3> QED BY <3>1, <2>1, <2>5
  <2>7. P(u)
    <3>1. \A i \in 0 .. n : i # 0 => i \in 1 .. n
      BY <1>1
    <3>2. \A i \in 0 .. n : u[i] = IF i = 0 THEN <<>>
                 ELSE IF chain[i] \in keep THEN Append(u[i - 1], chain[i]) ELSE u[i - 1]
      BY <2>5, <2>6, <3>1
    <3> QED BY <2>5, <3>2
  <2> HIDE DEF P
  <2> QED BY <2>7
<1>3. Kept(chain, keep) = upto[n]
  BY DEF Kept
<1> HIDE DEF upto
<1>4. /\ upto[0] = <<>>
      /\ \A k \in 0 .. n - 1 : upto[k + 1] = IF chain[k + 1] \in keep
                                              THEN Append(upto[k], chain[k + 1]) ELSE upto[k]
  <2>1. 0 \in 0 .. n /\ \A k \in 0 .. n - 1 : k + 1 \in 0 .. n /\ k + 1 # 0 /\ (k + 1) - 1 = k
    BY <1>1
  <2> HIDE DEF n
  <2>2. \A i \in 0 .. n : upto[i] = IF i = 0 THEN <<>>
                 ELSE IF chain[i] \in keep THEN Append(upto[i - 1], chain[i]) ELSE upto[i - 1]
    BY <1>2
  <2>3. upto[0] = <<>>
    BY <2>1, <2>2
  <2>4. ASSUME NEW k \in 0 .. n - 1
        PROVE  upto[k + 1] = IF chain[k + 1] \in keep
                             THEN Append(upto[k], chain[k + 1]) ELSE upto[k]
    BY <2>1, <2>2
  <2> QED BY <2>3, <2>4
<1> DEFINE Q(k) == /\ upto[k] \in Seq(Elem) /\ Ordered(h, upto[k])
                   /\ \A i \in DOMAIN upto[k] : upto[k][i] \in keep
                                                /\ \E j \in 1 .. k : upto[k][i] = chain[j]
                   /\ \A j \in 1 .. k : chain[j] \in keep => \E i \in DOMAIN upto[k] : upto[k][i] = chain[j]
           T == {k \in Nat : k <= n => Q(k)}
<1> HIDE DEF n
<1>5. 0 \in T
  <2>1. Q(0)
    BY <1>4 DEF Ordered
  <2> HIDE DEF Q
  <2> QED BY <2>1
<1>6. ASSUME NEW k \in Nat, k \in T PROVE k + 1 \in T
  <2> SUFFICES ASSUME k + 1 <= n PROVE Q(k + 1)
    <3> HIDE DEF Q
    <3> QED OBVIOUS
  <2> DEFINE u == upto[k]
             w == upto[k + 1]
             e == chain[k + 1]
  <2>1. Q(k) /\ k \in 0 .. n - 1 /\ k + 1 \in 1 .. n /\ e \in Elem
    BY <1>1, <1>6
  <2>2. w = IF e \in keep THEN Append(u, e) ELSE u
    BY <2>1, <1>4
  <2>3. u \in Seq(Elem) /\ Ordered(h, u)
    BY <2>1
  <2>4. \A i \in DOMAIN u : u[i] \in keep /\ \E j \in 1 .. k : u[i] = chain[j]
    BY <2>1
  <2>5. \A j \in 1 .. k : chain[j] \in keep => \E i \in DOMAIN u : u[i] = chain[j]
    BY <2>1
  <2> HIDE DEF u, w, e
  <2>6. CASE e \notin keep
    <3>1. w = u /\ e = chain[k + 1]
      BY <2>2, <2>6 DEF e
    <3>2. \A j \in 1 .. k + 1 : j \in 1 .. k \/ j = k + 1
      OBVIOUS
    <3>3. \A j \in 1 .. k : j \in 1 .. k + 1
      OBVIOUS
    <3>4. /\ w \in Seq(Elem) /\ Ordered(h, w)
          /\ \A i \in DOMAIN w : w[i] \in keep /\ \E j \in 1 .. k + 1 : w[i] = chain[j]
          /\ \A j \in 1 .. k + 1 : chain[j] \in keep => \E i \in DOMAIN w : w[i] = chain[j]
      BY <3>1, <3>2, <3>3, <2>3, <2>4, <2>5, <2>6
    <3> QED BY <3>4 DEF w
  <2>7. CASE e \in keep
    <3> DEFINE m == Len(u)
    <3>1. /\ w = Append(u, e) /\ w \in Seq(Elem) /\ m \in Nat /\ DOMAIN u = 1 .. m
          /\ DOMAIN w = 1 .. m + 1 /\ w[m + 1] = e /\ \A i \in 1 .. m : w[i] = u[i] /\ i \in 1 .. m + 1
          /\ \A i \in 1 .. m + 1 : i \in 1 .. m \/ i = m + 1
      BY <2>1, <2>2, <2>3, <2>7
    <3> HIDE DEF m
    <3>2. \A i \in 1 .. m : Prec(h, u[i], e)
      <4> SUFFICES ASSUME NEW i \in 1 .. m PROVE Prec(h, u[i], e)
        OBVIOUS
      <4>1. PICK j \in 1 .. k : u[i] = chain[j]
        BY <2>4, <3>1
      <4>2. j \in 1 .. n /\ j < k + 1 /\ k + 1 \in 1 .. n
        BY <2>1, <1>1
      <4> QED BY <4>1, <4>2, <1>1 DEF Ordered, e
    <3>3. Ordered(h, w)
      <4> SUFFICES ASSUME NEW i \in 1 .. m + 1, NEW j \in 1 .. m + 1, i < j
                   PROVE  Prec(h, w[i], w[j])
        BY <3>1 DEF Ordered
      <4>1. i \in 1 .. m
        BY <3>1
      <4> QED BY <4>1, <3>1, <3>2, <2>3 DEF Ordered
    <3>4. ASSUME NEW i \in 1 .. m + 1
          PROVE  w[i] \in keep /\ \E j \in 1 .. k + 1 : w[i] = chain[j]
      <4>1. CASE i = m + 1
        BY <4>1, <3>1, <2>7 DEF e
      <4>2. CASE i \in 1 .. m
        <5>1. PICK j \in 1 .. k : u[i] = chain[j]
          BY <4>2, <2>4, <3>1
        <5>2. j \in 1 .. k + 1
          OBVIOUS
        <5> QED BY <4>2, <5>1, <5>2, <2>4, <3>1
      <4> QED BY <4>1, <4>2, <3>1
    <3>5. ASSUME NEW j \in 1 .. k + 1, chain[j] \in keep
          PROVE  \E i \in 1 .. m + 1 : w[i] = chain[j]
      <4>1. CASE j = k + 1
        <5>1. m + 1 \in 1 .. m + 1
          BY <3>1
        <5> QED BY <4>1, <5>1, <3>1 DEF e
      <4>2. CASE j # k + 1
        <5>1. j \in 1 .. k
          BY <4>2
        <5>2. PICK i \in 1 .. m : u[i] = chain[j]
          BY <5>1, <3>5, <2>5, <3>1
        <5> QED BY <5>2, <3>1
      <4> QED BY <4>1, <4>2
    <3> QED BY <3>1, <3>3, <3>4, <3>5 DEF w
  <2> QED BY <2>6, <2>7
<1>7. n \in T
  <2> HIDE DEF T
  <2> QED BY <1>1, <1>5, <1>6, NatInductionSet
<1>8. Q(n)
  BY <1>1, <1>7
<1> DEFINE kept == upto[n]
<1>9. /\ kept \in Seq(Elem) /\ Ordered(h, kept)
      /\ \A i \in DOMAIN kept : kept[i] \in keep /\ \E j \in 1 .. n : kept[i] = chain[j]
      /\ \A j \in 1 .. n : chain[j] \in keep => \E i \in DOMAIN kept : kept[i] = chain[j]
  BY <1>8
<1> HIDE DEF kept
<1>10. /\ \A j \in 1 .. n : chain[j] \in S
       /\ \A e \in S : \E j \in 1 .. n : chain[j] = e
  BY <1>1 DEF Lists
<1>11. \A i \in DOMAIN kept : kept[i] \in S \cap keep
  BY <1>9, <1>10
<1>12. \A e \in S \cap keep : \E i \in DOMAIN kept : kept[i] = e
  BY <1>9, <1>10
<1>13. Lists(h, kept, S \cap keep)
  BY <1>9, <1>11, <1>12 DEF Lists
<1> QED BY <1>3, <1>13 DEF kept

LEMMA InsertAtIs ==
  ASSUME NEW chain \in Seq(Elem), NEW p \in 1 .. Len(chain) + 1, NEW e \in Elem
  PROVE  /\ InsertAt(chain, p, e) \in Seq(Elem)
         /\ DOMAIN InsertAt(chain, p, e) = 1 .. Len(chain) + 1
         /\ \A i \in 1 .. Len(chain) + 1 :
              InsertAt(chain, p, e)[i] = IF i < p THEN chain[i]
                                         ELSE IF i = p THEN e ELSE chain[i - 1]
<1> DEFINE n == Len(chain)
           a == SubSeq(chain, 1, p - 1)
           b == a \o <<e>>
           c == SubSeq(chain, p, n)
<1>1. a \in Seq(Elem) /\ Len(a) = p - 1 /\ \A i \in 1 .. p - 1 : a[i] = chain[i]
  OBVIOUS
<1>2. c \in Seq(Elem) /\ Len(c) = n - p + 1 /\ \A i \in 1 .. n - p + 1 : c[i] = chain[p - 1 + i]
  OBVIOUS
<1>0. n \in Nat /\ p \in 1 .. n + 1 /\ DOMAIN chain = 1 .. n
  OBVIOUS
<1> HIDE DEF a, c, n
<1>3. b \in Seq(Elem) /\ Len(b) = p /\ b[p] = e /\ \A i \in 1 .. p - 1 : b[i] = chain[i]
  BY <1>0, <1>1
<1> HIDE DEF b
<1>4. b \o c \in Seq(Elem) /\ Len(b \o c) = n + 1
  BY <1>0, <1>2, <1>3
<1>5. ASSUME NEW i \in 1 .. n + 1
      PROVE  (b \o c)[i] = IF i < p THEN chain[i] ELSE IF i = p THEN e ELSE chain[i - 1]
  <2>1. CASE i <= p
    <3>1. (b \o c)[i] = b[i]
      BY <1>0, <1>2, <1>3, <2>1
    <3>2. i < p => i \in 1 .. p - 1
      BY <1>0
    <3> QED BY <3>1, <3>2, <1>0, <1>3, <2>1
  <2>2. CASE i > p
    <3>1. (b \o c)[i] = c[i - p] /\ i - p \in 1 .. n - p + 1
      BY <1>0, <1>2, <1>3, <2>2
    <3>2. p - 1 + (i - p) = i - 1 /\ ~ i < p /\ i # p
      BY <1>0, <2>2
    <3> QED BY <3>1, <3>2, <1>2
  <2>3. i <= p \/ i > p
    BY <1>0
  <2> QED BY <2>1, <2>2, <2>3
<1>6. InsertAt(chain, p, e) = b \o c
  BY DEF InsertAt, b, a, c, n
<1> QED BY <1>4, <1>5, <1>6 DEF n

\* The chain, if only the hash number of an element that is not in it changes.
LEMMA ListsElsewhere ==
  ASSUME NEW h \in [Elem -> Nat], NEW S \in SUBSET Elem, NEW chain, Lists(h, chain, S),
         NEW h2, \A x \in S : h2[x] = h[x]
  PROVE  Lists(h2, chain, S)
<1>1. \A i \in DOMAIN chain : chain[i] \in S
  BY DEF Lists
<1>2. Ordered(h2, chain)
  BY <1>1 DEF Lists, Ordered, Prec
<1> QED BY <1>2 DEF Lists

\* An element younger than the others, put before those of greater hash numbers.
LEMMA InsertLists ==
  ASSUME NEW h \in [Elem -> Nat], NEW S \in SUBSET Elem, NEW chain, Lists(h, chain, S),
         NEW e \in Elem, \A x \in S : x < e, NEW h2 \in [Elem -> Nat],
         \A x \in S : h2[x] = h[x], NEW p \in 1 .. Len(chain) + 1,
         \A i \in DOMAIN chain : i < p <=> h[chain[i]] <= h2[e]
  PROVE  Lists(h2, InsertAt(chain, p, e), S \cup {e})
<1> DEFINE n == Len(chain)
           w == InsertAt(chain, p, e)
<1>0. Lists(h2, chain, S)
  BY ListsElsewhere
<1>1. chain \in Seq(Elem) /\ Ordered(h2, chain) /\ n \in Nat /\ DOMAIN chain = 1 .. n
  BY <1>0 DEF Lists
<1>2. \A i \in 1 .. n : chain[i] \in S /\ chain[i] \in Elem /\ h2[chain[i]] = h[chain[i]]
  BY <1>1 DEF Lists
<1>3. w \in Seq(Elem) /\ DOMAIN w = 1 .. n + 1
      /\ \A i \in 1 .. n + 1 : w[i] = IF i < p THEN chain[i] ELSE IF i = p THEN e ELSE chain[i - 1]
  <2>1. chain \in Seq(Elem)
    BY <1>1
  <2> QED BY <2>1, InsertAtIs
<1> HIDE DEF n, w
<1>4. p \in 1 .. n + 1
  BY DEF n
<1>5. \A i \in 1 .. n : h2[e] \in Nat /\ h2[chain[i]] \in Nat /\ chain[i] \in Nat /\ e \in Nat
  BY <1>2, ElemNat
<1>6. \A i \in 1 .. n : i < p => Prec(h2, chain[i], e)
  <2> SUFFICES ASSUME NEW i \in 1 .. n, i < p PROVE Prec(h2, chain[i], e)
    OBVIOUS
  <2>1. h[chain[i]] <= h2[e] /\ chain[i] < e
    BY <1>1, <1>2
  <2> QED BY <2>1, <1>2, <1>5 DEF Prec
<1>7. \A i \in 1 .. n : i >= p => Prec(h2, e, chain[i])
  <2> SUFFICES ASSUME NEW i \in 1 .. n, i >= p PROVE h2[e] < h2[chain[i]]
    BY DEF Prec
  <2>1. ~ i < p
    BY <1>4
  <2>2. ~ h[chain[i]] <= h2[e]
    BY <2>1, <1>1
  <2> QED BY <2>2, <1>2, <1>5
<1>8. ASSUME NEW i \in 1 .. n + 1, NEW j \in 1 .. n + 1, i < j PROVE Prec(h2, w[i], w[j])
  <2>1. CASE j < p
    <3>1. i < p /\ i \in 1 .. n /\ j \in 1 .. n
      BY <1>8, <2>1, <1>4, <1>1
    <3> QED BY <3>1, <2>1, <1>1, <1>3, <1>8 DEF Ordered
  <2>2. CASE j = p
    <3>1. i < p /\ i \in 1 .. n
      BY <1>8, <2>2, <1>4, <1>1
    <3> QED BY <3>1, <2>2, <1>3, <1>6
  <2>3. CASE j > p
    <3>a. j - 1 \in 1 .. n /\ ~ j < p /\ j # p /\ j - 1 >= p
      BY <2>3, <1>4, <1>1
    <3>0. j - 1 \in 1 .. n /\ ~ j < p /\ j # p /\ w[j] = chain[j - 1] /\ j - 1 >= p
      BY <3>a, <1>3
    <3>1. CASE i < p
      <4>1. i \in 1 .. n /\ i < j - 1 /\ w[i] = chain[i]
        BY <3>1, <1>3, <1>4, <1>1, <2>3
      <4> QED BY <4>1, <3>0, <1>1 DEF Ordered
    <3>2. CASE i = p
      <4>1. w[i] = e
        BY <3>2, <1>3, <1>4
      <4> QED BY <4>1, <3>0, <1>7
    <3>3. CASE i > p
      <4>1. i - 1 \in 1 .. n /\ i - 1 < j - 1 /\ w[i] = chain[i - 1]
        BY <3>3, <1>3, <1>4, <1>1, <1>8
      <4> QED BY <4>1, <3>0, <1>1 DEF Ordered
    <3> QED BY <3>1, <3>2, <3>3, <1>4
  <2> QED BY <2>1, <2>2, <2>3, <1>4
<1>9. \A i \in 1 .. n + 1 : w[i] \in S \cup {e}
  <2> SUFFICES ASSUME NEW i \in 1 .. n + 1 PROVE w[i] \in S \cup {e}
    OBVIOUS
  <2>1. (i < p /\ i \in 1 .. n) \/ i = p \/ (i > p /\ i - 1 \in 1 .. n)
    BY <1>1, <1>4
  <2>2. i > p => ~ i < p /\ i # p
    BY <1>4
  <2> QED BY <2>1, <2>2, <1>2, <1>3
<1>10. \A x \in S \cup {e} : \E i \in 1 .. n + 1 : w[i] = x
  <2>1. w[p] = e /\ p \in 1 .. n + 1
    BY <1>3, <1>4
  <2>2. ASSUME NEW x \in S PROVE \E i \in 1 .. n + 1 : w[i] = x
    <3>1. PICK j \in 1 .. n : chain[j] = x
      BY <1>1 DEF Lists
    <3>2. CASE j < p
      <4>1. j \in 1 .. n + 1 /\ w[j] = chain[j]
        BY <3>2, <1>1, <1>3
      <4> QED BY <4>1, <3>1
    <3>3. CASE j >= p
      <4>1. j + 1 \in 1 .. n + 1 /\ ~ j + 1 < p /\ j + 1 # p /\ (j + 1) - 1 = j
        BY <3>3, <1>1, <1>4
      <4>2. w[j + 1] = chain[j]
        BY <4>1, <1>3
      <4> QED BY <4>1, <4>2, <3>1
    <3> QED BY <3>2, <3>3, <1>1, <1>4
  <2> QED BY <2>1, <2>2
<1>11. Ordered(h2, w)
  BY <1>3, <1>8 DEF Ordered
<1>12. Lists(h2, w, S \cup {e})
  BY <1>3, <1>9, <1>10, <1>11 DEF Lists
<1> QED BY <1>12 DEF w

\* Where the search for a hash number stops.
LEMMA FirstAboveIs ==
  ASSUME hashnum \in [Elem -> Nat], NEW S, NEW chain, Lists(hashnum, chain, S), NEW hn \in Nat
  PROVE  LET pos == FirstAbove(chain, hn)
             p == IF pos = 0 THEN Len(chain) + 1 ELSE pos
         IN  /\ p \in 1 .. Len(chain) + 1 /\ pos \in Nat
             /\ \A i \in DOMAIN chain : i < p <=> hashnum[chain[i]] <= hn
             /\ pos # 0 => pos \in DOMAIN chain
<1> DEFINE pos == FirstAbove(chain, hn)
           n == Len(chain)
           p == IF pos = 0 THEN n + 1 ELSE pos
           I == {i \in DOMAIN chain : hashnum[chain[i]] > hn}
<1>1. chain \in Seq(Elem) /\ Ordered(hashnum, chain) /\ n \in Nat /\ DOMAIN chain = 1 .. n
  BY DEF Lists
<1>2. \A i \in 1 .. n : chain[i] \in Elem /\ hashnum[chain[i]] \in Nat
  BY <1>1
<1>3. pos = First(I) /\ I \in SUBSET (Nat \ {0})
  BY <1>1 DEF FirstAbove
<1>4. /\ I = {} => pos = 0
      /\ I # {} => pos \in I /\ pos # 0 /\ \A j \in I : pos <= j
  BY <1>3, FirstIs
<1> HIDE DEF pos, n
<1>5. CASE I = {}
  <2>a. pos = 0 /\ p = n + 1
    BY <1>4, <1>5
  <2>b. ASSUME NEW i \in 1 .. n PROVE i < n + 1 /\ hashnum[chain[i]] <= hn
    <3>1. ~ hashnum[chain[i]] > hn
      BY <1>5, <1>1
    <3> QED BY <3>1, <1>1, <1>2
  <2>1. pos = 0 /\ p = n + 1 /\ \A i \in 1 .. n : i < n + 1 /\ hashnum[chain[i]] <= hn
    BY <2>a, <2>b
  <2> QED BY <2>1, <1>1 DEF n, pos
<1>6. CASE I # {}
  <2>1. /\ pos \in 1 .. n /\ pos # 0 /\ p = pos /\ hashnum[chain[pos]] > hn
        /\ \A j \in 1 .. n : hashnum[chain[j]] > hn => pos <= j
    BY <1>1, <1>4, <1>6
  <2>2. ASSUME NEW i \in 1 .. n PROVE i < pos <=> hashnum[chain[i]] <= hn
    <3>1. CASE i < pos
      BY <3>1, <2>1, <1>2
    <3>2. CASE i = pos
      BY <3>2, <2>1, <1>2
    <3>3. CASE i > pos
      <4>1. Prec(hashnum, chain[pos], chain[i])
        BY <3>3, <2>1, <1>1 DEF Ordered
      <4>2. hashnum[chain[pos]] <= hashnum[chain[i]]
        BY <4>1, <1>2, <2>1, PrecOrder
      <4> QED BY <3>3, <4>2, <2>1, <1>2
    <3> QED BY <3>1, <3>2, <3>3, <2>1
  <2> QED BY <2>1, <2>2, <1>1 DEF n, pos
<1> QED BY <1>5, <1>6

LEMMA SuffixIs ==
  ASSUME NEW chain \in Seq(Elem), NEW j \in 1 .. Len(chain) + 1
  PROVE  /\ SubSeq(chain, j, Len(chain)) \in Seq(Elem)
         /\ DOMAIN SubSeq(chain, j, Len(chain)) = 1 .. Len(chain) - j + 1
         /\ \A k \in 1 .. Len(chain) - j + 1 : SubSeq(chain, j, Len(chain))[k] = chain[j - 1 + k]
OBVIOUS

\* c is w with e, which comes before its elements, at the head.
Headed(h, e, w, c) ==
  /\ e \in Elem /\ w \in Seq(Elem) /\ Ordered(h, w) /\ \A k \in DOMAIN w : Prec(h, e, w[k])
  /\ c \in Seq(Elem) /\ Len(c) = Len(w) + 1 /\ c[1] = e /\ \A k \in DOMAIN w : c[k + 1] = w[k]

LEMMA ConsIs ==
  ASSUME NEW h, NEW e, NEW w, NEW c, Headed(h, e, w, c)
  PROVE  /\ c \in Seq(Elem) /\ Ordered(h, c)
         /\ \A k \in DOMAIN c : c[k] = e \/ \E x \in DOMAIN w : c[k] = w[x]
         /\ \A x \in DOMAIN w : \E k \in DOMAIN c : c[k] = w[x]
         /\ \E k \in DOMAIN c : c[k] = e
<1> DEFINE n == Len(w)
<1>1. /\ n \in Nat /\ DOMAIN w = 1 .. n /\ c \in Seq(Elem) /\ DOMAIN c = 1 .. n + 1
      /\ c[1] = e /\ \A k \in 1 .. n : c[k + 1] = w[k] /\ Prec(h, e, w[k])
      /\ Ordered(h, w)
  BY DEF Headed
<1> HIDE DEF n
<1>2. \A k \in 1 .. n + 1 : k = 1 \/ (k - 1 \in 1 .. n /\ c[k] = w[k - 1] /\ k > 1)
  <2> SUFFICES ASSUME NEW k \in 1 .. n + 1, k # 1
               PROVE  k - 1 \in 1 .. n /\ c[k] = w[k - 1] /\ k > 1
    OBVIOUS
  <2>1. k - 1 \in 1 .. n /\ (k - 1) + 1 = k /\ k > 1
    BY <1>1
  <2> QED BY <2>1, <1>1
<1>3. \A k \in 1 .. n : k + 1 \in 1 .. n + 1
  BY <1>1
<1>4. ASSUME NEW i \in 1 .. n + 1, NEW j \in 1 .. n + 1, i < j PROVE Prec(h, c[i], c[j])
  <2>1. j - 1 \in 1 .. n /\ c[j] = w[j - 1]
    BY <1>2, <1>4
  <2>2. CASE i = 1
    BY <2>1, <2>2, <1>1
  <2>3. CASE i # 1
    <3>1. i - 1 \in 1 .. n /\ c[i] = w[i - 1] /\ i - 1 < j - 1
      BY <1>2, <1>4, <2>3
    <3> QED BY <3>1, <2>1, <1>1 DEF Ordered
  <2> QED BY <2>2, <2>3
<1>5. Ordered(h, c)
  BY <1>1, <1>4 DEF Ordered
<1>6. 1 \in 1 .. n + 1
  BY <1>1
<1> QED BY <1>1, <1>2, <1>3, <1>5, <1>6

\* The equation by which Merge is defined has a solution.
MergeRest(low, upp, i, j, ml, mu) ==
  IF i > Len(low) THEN SubSeq(upp, j, Len(upp))
  ELSE IF j > Len(upp) THEN SubSeq(low, i, Len(low))
  ELSE IF hashnum[low[i]] < hashnum[upp[j]] THEN <<low[i]>> \o ml ELSE <<upp[j]>> \o mu

LEMMA MergeExists ==
  ASSUME NEW low \in Seq(Elem), NEW upp \in Seq(Elem)
  PROVE  \E m : /\ Merge(low, upp) = m[1][1]
                /\ \A i \in 1 .. Len(low) + 1, j \in 1 .. Len(upp) + 1 :
                     m[i][j] = MergeRest(low, upp, i, j, m[i + 1][j], m[i][j + 1])
<1> DEFINE a == Len(low)
           b == Len(upp)
           R(i, j, ml, mu) == MergeRest(low, upp, i, j, ml, mu)
           P(m) == m = [i \in 1 .. a + 1 |-> [j \in 1 .. b + 1 |->
                          R(i, j, m[i + 1][j], m[i][j + 1])]]
           D == (1 .. a + 1) \X (1 .. b + 1)
           V == Seq(Elem)
           rank == [x \in D |-> (a + 1 - x[1]) + (b + 1 - x[2])]
           g == [p \in [D -> V] \X D |->
                   R(p[2][1], p[2][2], p[1][<<p[2][1] + 1, p[2][2]>>],
                     p[1][<<p[2][1], p[2][2] + 1>>])]
<1>1. a \in Nat /\ b \in Nat /\ DOMAIN low = 1 .. a /\ DOMAIN upp = 1 .. b
  OBVIOUS
<1>2. \A i \in 1 .. a : low[i] \in Elem
  BY <1>1
<1>3. \A j \in 1 .. b : upp[j] \in Elem
  BY <1>1
<1>4. \A f \in [D -> V], i \in 1 .. a + 1, j \in 1 .. b + 1 :
        /\ <<i, j>> \in D /\ rank[<<i, j>>] = (a + 1 - i) + (b + 1 - j)
        /\ g[<<f, <<i, j>>>>] = R(i, j, f[<<i + 1, j>>], f[<<i, j + 1>>])
  BY Zenon
<1>5. ASSUME NEW x \in D
      PROVE  x[1] \in 1 .. a + 1 /\ x[2] \in 1 .. b + 1 /\ x = <<x[1], x[2]>>
  OBVIOUS
<1>6. ASSUME NEW f \in [D -> V], NEW i \in 1 .. a + 1, NEW j \in 1 .. b + 1
      PROVE  R(i, j, f[<<i + 1, j>>], f[<<i, j + 1>>]) \in V
  <2>1. CASE i > a
    <3>1. SubSeq(upp, j, Len(upp)) \in V
      BY SuffixIs
    <3> QED BY <3>1, <2>1 DEF MergeRest
  <2>2. CASE ~ i > a /\ j > b
    <3>1. SubSeq(low, i, Len(low)) \in V
      BY SuffixIs
    <3> QED BY <3>1, <2>2 DEF MergeRest
  <2>3. CASE ~ i > a /\ ~ j > b
    <3>1. i \in 1 .. a /\ j \in 1 .. b /\ <<i + 1, j>> \in D /\ <<i, j + 1>> \in D
      BY <2>3, <1>1
    <3>2. f[<<i + 1, j>>] \in V /\ f[<<i, j + 1>>] \in V /\ low[i] \in Elem /\ upp[j] \in Elem
      BY <3>1, <1>2, <1>3
    <3> DEFINE u == f[<<i + 1, j>>]
               v == f[<<i, j + 1>>]
               e == low[i]
               k == upp[j]
    <3> HIDE DEF u, v, e, k, a, b, D
    <3>3. u \in Seq(Elem) /\ v \in Seq(Elem) /\ e \in Elem /\ k \in Elem
      BY <3>2 DEF u, v, e, k
    <3>4. <<e>> \o u \in V /\ <<k>> \o v \in V
      BY <3>3
    <3> QED BY <3>4, <2>3 DEF MergeRest, u, v, e, k, a, b
  <2> QED BY <2>1, <2>2, <2>3
<1> HIDE DEF D, g, rank, V, R, a, b
<1>7. rank \in [D -> Nat]
  <2>1. \A x \in D : (a + 1 - x[1]) + (b + 1 - x[2]) \in Nat
    BY <1>1, <1>5
  <2> QED BY <2>1 DEF rank
<1>8. g \in [[D -> V] \X D -> V]
  <2>1. ASSUME NEW f \in [D -> V], NEW x \in D PROVE g[<<f, x>>] \in V
    <3>1. PICK i \in 1 .. a + 1, j \in 1 .. b + 1 : x = <<i, j>>
      BY <1>5
    <3>2. g[<<f, <<i, j>>>>] = R(i, j, f[<<i + 1, j>>], f[<<i, j + 1>>])
      BY <1>4
    <3> QED BY <3>1, <3>2, <1>6
  <2>2. \A p \in [D -> V] \X D : p = <<p[1], p[2]>> /\ p[1] \in [D -> V] /\ p[2] \in D
    OBVIOUS
  <2>3. \A p \in [D -> V] \X D : g[p] \in V
    BY <2>1, <2>2
  <2>4. g = [p \in [D -> V] \X D |-> g[p]]
    BY DEF g
  <2> QED BY <2>3, <2>4
<1>9. Given(D, V, rank, g)
  <2> SUFFICES ASSUME NEW f \in [D -> V], NEW k \in [D -> V], NEW x \in D,
                      \A y \in D : rank[y] < rank[x] => f[y] = k[y]
               PROVE  g[<<f, x>>] = g[<<k, x>>]
    BY <1>7, <1>8 DEF Given
  <2> DEFINE i == x[1]
             j == x[2]
  <2>1. i \in 1 .. a + 1 /\ j \in 1 .. b + 1 /\ x = <<i, j>>
    BY <1>5
  <2> HIDE DEF i, j
  <2>2. g[<<f, x>>] = R(i, j, f[<<i + 1, j>>], f[<<i, j + 1>>])
        /\ g[<<k, x>>] = R(i, j, k[<<i + 1, j>>], k[<<i, j + 1>>])
    BY <1>4, <2>1
  <2>3. CASE i > a \/ j > b
    BY <2>2, <2>3 DEF R, MergeRest, a, b
  <2>4. CASE ~ i > a /\ ~ j > b
    <3>1. /\ i + 1 \in 1 .. a + 1 /\ j + 1 \in 1 .. b + 1
          /\ (a + 1 - (i + 1)) + (b + 1 - j) < (a + 1 - i) + (b + 1 - j)
          /\ (a + 1 - i) + (b + 1 - (j + 1)) < (a + 1 - i) + (b + 1 - j)
      BY <2>1, <2>4, <1>1
    <3>2. /\ <<i + 1, j>> \in D /\ <<i, j + 1>> \in D
          /\ rank[<<i + 1, j>>] < rank[x] /\ rank[<<i, j + 1>>] < rank[x]
      BY <3>1, <2>1, <1>4
    <3>3. f[<<i + 1, j>>] = k[<<i + 1, j>>] /\ f[<<i, j + 1>>] = k[<<i, j + 1>>]
      BY <3>2
    <3> QED BY <3>3, <2>2
  <2> QED BY <2>3, <2>4
<1>10. PICK f \in [D -> V] : \A x \in D : f[x] = g[<<f, x>>]
  <2>1. <<>> \in V
    BY DEF V
  <2> QED BY <2>1, <1>9, RankedExists
<1> DEFINE m0 == [i \in 1 .. a + 1 |-> [j \in 1 .. b + 1 |-> f[<<i, j>>]]]
<1>11. ASSUME NEW i \in 1 .. a + 1, NEW j \in 1 .. b + 1
       PROVE  f[<<i, j>>] = R(i, j, m0[i + 1][j], m0[i][j + 1])
  <2>1. f[<<i, j>>] = R(i, j, f[<<i + 1, j>>], f[<<i, j + 1>>])
    BY <1>4, <1>10
  <2>2. CASE i > a \/ j > b
    BY <2>1, <2>2 DEF R, MergeRest, a, b
  <2>3. CASE ~ i > a /\ ~ j > b
    <3>1. i + 1 \in 1 .. a + 1 /\ j + 1 \in 1 .. b + 1
      BY <2>3, <1>1
    <3>2. m0[i + 1][j] = f[<<i + 1, j>>] /\ m0[i][j + 1] = f[<<i, j + 1>>]
      BY <3>1
    <3> QED BY <2>1, <3>2
  <2> QED BY <2>2, <2>3
<1>12. P(m0)
  <2>1. m0 = [i \in 1 .. a + 1 |-> [j \in 1 .. b + 1 |-> R(i, j, m0[i + 1][j], m0[i][j + 1])]]
    <3> DEFINE M(i, j) == R(i, j, m0[i + 1][j], m0[i][j + 1])
    <3>1. \A i \in 1 .. a + 1, j \in 1 .. b + 1 : f[<<i, j>>] = M(i, j)
      BY <1>11
    <3> HIDE DEF M
    <3>2. m0 = [i \in 1 .. a + 1 |-> [j \in 1 .. b + 1 |-> M(i, j)]]
      BY <3>1
    <3> QED BY <3>2 DEF M
  <2> QED BY <2>1
<1> DEFINE m == CHOOSE m : P(m)
<1>13. P(m)
  <2> HIDE DEF P, m0
  <2> QED BY <1>12
<1>14. Merge(low, upp) = m[1][1]
  BY DEF Merge, R, MergeRest, a, b
<1> HIDE DEF m
<1>15. ASSUME NEW i \in 1 .. a + 1, NEW j \in 1 .. b + 1
       PROVE  m[i][j] = R(i, j, m[i + 1][j], m[i][j + 1])
  <2> DEFINE M(k, l) == R(k, l, m[k + 1][l], m[k][l + 1])
  <2>1. m = [k \in 1 .. a + 1 |-> [l \in 1 .. b + 1 |-> M(k, l)]]
    BY <1>13
  <2> HIDE DEF M
  <2>2. m[i][j] = M(i, j)
    BY <2>1
  <2> QED BY <2>2 DEF M
<1> QED BY <1>14, <1>15 DEF R, a, b

\* Merging two chains with no hash number in common.
LEMMA MergeLists ==
  ASSUME hashnum \in [Elem -> Nat], NEW A \in SUBSET Elem, NEW B \in SUBSET Elem,
         NEW low, NEW upp, Lists(hashnum, low, A), Lists(hashnum, upp, B),
         \A e \in A, f \in B : hashnum[e] # hashnum[f]
  PROVE  Lists(hashnum, Merge(low, upp), A \cup B)
<1> DEFINE a == Len(low)
           b == Len(upp)
<1>1. /\ low \in Seq(Elem) /\ Ordered(hashnum, low) /\ a \in Nat /\ DOMAIN low = 1 .. a
      /\ upp \in Seq(Elem) /\ Ordered(hashnum, upp) /\ b \in Nat /\ DOMAIN upp = 1 .. b
  BY DEF Lists
<1>2. \A i \in 1 .. a : low[i] \in Elem /\ low[i] \in A
  BY <1>1 DEF Lists
<1>3. \A j \in 1 .. b : upp[j] \in Elem /\ upp[j] \in B
  BY <1>1 DEF Lists
<1>4. PICK m : /\ Merge(low, upp) = m[1][1]
               /\ \A i \in 1 .. a + 1, j \in 1 .. b + 1 :
                    m[i][j] = MergeRest(low, upp, i, j, m[i + 1][j], m[i][j + 1])
  BY <1>1, MergeExists
<1> DEFINE Has(w, e) == \E k \in DOMAIN w : w[k] = e
           Q(i, j, w) ==
             /\ w \in Seq(Elem) /\ Ordered(hashnum, w)
             /\ \A k \in DOMAIN w : (\E x \in i .. a : w[k] = low[x]) \/ (\E y \in j .. b : w[k] = upp[y])
             /\ \A x \in i .. a : Has(w, low[x])
             /\ \A y \in j .. b : Has(w, upp[y])
           T == {n \in Nat : \A i \in 1 .. a + 1, j \in 1 .. b + 1 :
                               (a + 1 - i) + (b + 1 - j) = n => Q(i, j, m[i][j])}
<1> HIDE DEF a, b
<1>5. ASSUME NEW i \in 1 .. a + 1, NEW j \in 1 .. b + 1, i > a PROVE Q(i, j, m[i][j])
  <2> DEFINE w == m[i][j]
  <2>a. w = MergeRest(low, upp, i, j, m[i + 1][j], m[i][j + 1])
    BY <1>4
  <2>b. w = SubSeq(upp, j, b)
    BY <2>a, <1>5 DEF MergeRest, a, b
  <2>1. w = SubSeq(upp, j, b) /\ i .. a = {}
    BY <2>b, <1>5, <1>1
  <2>2. /\ w \in Seq(Elem) /\ DOMAIN w = 1 .. b - j + 1
        /\ \A k \in 1 .. b - j + 1 : w[k] = upp[j - 1 + k]
    BY <1>1, <2>1, SuffixIs DEF b
  <2> HIDE DEF w
  <2>3. \A k \in 1 .. b - j + 1 : j - 1 + k \in j .. b /\ j - 1 + k \in 1 .. b
    BY <1>1
  <2>4. Ordered(hashnum, w)
    <3> SUFFICES ASSUME NEW k \in 1 .. b - j + 1, NEW l \in 1 .. b - j + 1, k < l
                 PROVE  Prec(hashnum, w[k], w[l])
      BY <2>2 DEF Ordered
    <3>1. j - 1 + k < j - 1 + l
      BY <1>1
    <3> QED BY <3>1, <2>2, <2>3, <1>1 DEF Ordered
  <2>5. \A y \in j .. b : y - j + 1 \in 1 .. b - j + 1 /\ j - 1 + (y - j + 1) = y
    BY <1>1
  <2>6. \A y \in j .. b : Has(w, upp[y])
    BY <2>2, <2>5
  <2>7. \A k \in DOMAIN w : \E y \in j .. b : w[k] = upp[y]
    BY <2>2, <2>3
  <2>8. Q(i, j, w)
    BY <2>1, <2>2, <2>4, <2>6, <2>7
  <2> QED BY <2>8 DEF w
<1>6. ASSUME NEW i \in 1 .. a + 1, NEW j \in 1 .. b + 1, ~ i > a, j > b PROVE Q(i, j, m[i][j])
  <2> DEFINE w == m[i][j]
  <2>a. w = MergeRest(low, upp, i, j, m[i + 1][j], m[i][j + 1])
    BY <1>4
  <2>b. w = SubSeq(low, i, a)
    BY <2>a, <1>6 DEF MergeRest, a, b
  <2>1. w = SubSeq(low, i, a) /\ j .. b = {}
    BY <2>b, <1>6, <1>1
  <2>2. /\ w \in Seq(Elem) /\ DOMAIN w = 1 .. a - i + 1
        /\ \A k \in 1 .. a - i + 1 : w[k] = low[i - 1 + k]
    BY <1>1, <2>1, SuffixIs DEF a
  <2> HIDE DEF w
  <2>3. \A k \in 1 .. a - i + 1 : i - 1 + k \in i .. a /\ i - 1 + k \in 1 .. a
    BY <1>1
  <2>4. Ordered(hashnum, w)
    <3> SUFFICES ASSUME NEW k \in 1 .. a - i + 1, NEW l \in 1 .. a - i + 1, k < l
                 PROVE  Prec(hashnum, w[k], w[l])
      BY <2>2 DEF Ordered
    <3>1. i - 1 + k < i - 1 + l
      BY <1>1
    <3> QED BY <3>1, <2>2, <2>3, <1>1 DEF Ordered
  <2>5. \A x \in i .. a : x - i + 1 \in 1 .. a - i + 1 /\ i - 1 + (x - i + 1) = x
    BY <1>1
  <2>6. \A x \in i .. a : Has(w, low[x])
    BY <2>2, <2>5
  <2>7. \A k \in DOMAIN w : \E x \in i .. a : w[k] = low[x]
    BY <2>2, <2>3
  <2>8. Q(i, j, w)
    BY <2>1, <2>2, <2>4, <2>6, <2>7
  <2> QED BY <2>8 DEF w
<1>7. ASSUME NEW e \in Elem, NEW w \in Seq(Elem), Ordered(hashnum, w),
             \A k \in DOMAIN w : Prec(hashnum, e, w[k])
      PROVE  /\ <<e>> \o w \in Seq(Elem) /\ Ordered(hashnum, <<e>> \o w) /\ Has(<<e>> \o w, e)
             /\ \A k \in DOMAIN (<<e>> \o w) : (<<e>> \o w)[k] = e \/ Has(w, (<<e>> \o w)[k])
             /\ \A f : Has(w, f) => Has(<<e>> \o w, f)
  <2> DEFINE c == <<e>> \o w
  <2>1. /\ c \in Seq(Elem) /\ Ordered(hashnum, c)
        /\ \A k \in DOMAIN c : c[k] = e \/ \E x \in DOMAIN w : c[k] = w[x]
        /\ \A x \in DOMAIN w : \E k \in DOMAIN c : c[k] = w[x]
        /\ \E k \in DOMAIN c : c[k] = e
    <3>1. c \in Seq(Elem) /\ Len(c) = Len(w) + 1 /\ c[1] = e /\ \A k \in DOMAIN w : c[k + 1] = w[k]
      OBVIOUS
    <3> HIDE DEF c
    <3>2. Headed(hashnum, e, w, c)
      BY <3>1, <1>7 DEF Headed
    <3> QED BY <3>2, ConsIs
  <2> HIDE DEF c
  <2>2. /\ c \in Seq(Elem) /\ Ordered(hashnum, c) /\ Has(c, e)
        /\ \A k \in DOMAIN c : c[k] = e \/ Has(w, c[k])
        /\ \A f : Has(w, f) => Has(c, f)
    BY <2>1
  <2> HIDE DEF Has
  <2> QED BY <2>2 DEF c
<1>8. ASSUME NEW i \in 1 .. a, NEW j \in 1 .. b,
             i + 1 \in 1 .. a + 1 => Q(i + 1, j, m[i + 1][j]),
             j + 1 \in 1 .. b + 1 => Q(i, j + 1, m[i][j + 1])
      PROVE  Q(i, j, m[i][j])
  <2> DEFINE e == low[i]
             f == upp[j]
             ml == m[i + 1][j]
             mu == m[i][j + 1]
             w == m[i][j]
  <2>0. /\ i \in 1 .. a + 1 /\ j \in 1 .. b + 1 /\ ~ i > a /\ ~ j > b
        /\ i + 1 \in 1 .. a + 1 /\ j + 1 \in 1 .. b + 1
    BY <1>1
  <2>1. w = IF hashnum[e] < hashnum[f] THEN <<e>> \o ml ELSE <<f>> \o mu
    BY <2>0, <1>4 DEF MergeRest, a, b
  <2>2. e \in Elem /\ f \in Elem /\ hashnum[e] # hashnum[f] /\ hashnum[e] \in Nat /\ hashnum[f] \in Nat
    BY <1>2, <1>3
  <2>3. Q(i + 1, j, ml) /\ Q(i, j + 1, mu)
    BY <1>8, <2>0
  <2>4. \A x \in i .. a : x = i \/ x \in i + 1 .. a
    BY <1>1
  <2>5. \A y \in j .. b : y = j \/ y \in j + 1 .. b
    BY <1>1
  <2>6. (\A x \in i + 1 .. a : x \in i .. a) /\ (\A y \in j + 1 .. b : y \in j .. b)
        /\ i \in i .. a /\ j \in j .. b
    BY <1>1
  <2>7. \A x \in i + 1 .. a : Prec(hashnum, e, low[x])
    <3> SUFFICES ASSUME NEW x \in i + 1 .. a PROVE Prec(hashnum, e, low[x])
      OBVIOUS
    <3>1. x \in 1 .. a /\ i < x
      BY <1>1
    <3> QED BY <3>1, <1>1 DEF Ordered
  <2>8. \A y \in j + 1 .. b : Prec(hashnum, f, upp[y])
    <3> SUFFICES ASSUME NEW y \in j + 1 .. b PROVE Prec(hashnum, f, upp[y])
      OBVIOUS
    <3>1. y \in 1 .. b /\ j < y
      BY <1>1
    <3> QED BY <3>1, <1>1 DEF Ordered
  <2>9. (\A x \in i .. a : low[x] \in Elem) /\ (\A y \in j .. b : upp[y] \in Elem)
    BY <1>1, <1>2, <1>3
  <2> HIDE DEF e, f, ml, mu, w
  <2>10. CASE hashnum[e] < hashnum[f]
    <3>1. Prec(hashnum, e, f)
      BY <2>10 DEF Prec
    <3>2. \A y \in j .. b : Prec(hashnum, e, upp[y])
      BY <3>1, <2>2, <2>5, <2>8, <2>9, PrecOrder DEF f
    <3>3. \A k \in DOMAIN ml : Prec(hashnum, e, ml[k])
      BY <2>3, <2>7, <3>2
    <3>4. ml \in Seq(Elem) /\ Ordered(hashnum, ml)
      BY <2>3
    <3>5. /\ w \in Seq(Elem) /\ Ordered(hashnum, w) /\ Has(w, e)
          /\ \A k \in DOMAIN w : w[k] = e \/ Has(ml, w[k])
          /\ \A x : Has(ml, x) => Has(w, x)
      <4> HIDE DEF Has
      <4> QED BY <2>1, <2>2, <2>10, <3>3, <3>4, <1>7
    <3>6. \A k \in DOMAIN w : (\E x \in i .. a : w[k] = low[x]) \/ (\E y \in j .. b : w[k] = upp[y])
      <4> SUFFICES ASSUME NEW k \in DOMAIN w
                   PROVE  (\E x \in i .. a : w[k] = low[x]) \/ (\E y \in j .. b : w[k] = upp[y])
        OBVIOUS
      <4>1. CASE w[k] = e
        BY <4>1, <2>6 DEF e
      <4>2. CASE Has(ml, w[k])
        <5>1. PICK l \in DOMAIN ml : ml[l] = w[k]
          BY <4>2
        <5> QED BY <5>1, <2>3, <2>6
      <4> QED BY <4>1, <4>2, <3>5
    <3>7. (\A x \in i .. a : Has(w, low[x])) /\ (\A y \in j .. b : Has(w, upp[y]))
      <4>1. (\A x \in i + 1 .. a : Has(ml, low[x])) /\ (\A y \in j .. b : Has(ml, upp[y]))
        BY <2>3
      <4> HIDE DEF Has
      <4> QED BY <4>1, <3>5, <2>4 DEF e
    <3> QED BY <3>5, <3>6, <3>7 DEF w
  <2>11. CASE ~ hashnum[e] < hashnum[f]
    <3>1. Prec(hashnum, f, e)
      BY <2>11, <2>2 DEF Prec
    <3>2. \A x \in i .. a : Prec(hashnum, f, low[x])
      BY <3>1, <2>2, <2>4, <2>7, <2>9, PrecOrder DEF e
    <3>3. \A k \in DOMAIN mu : Prec(hashnum, f, mu[k])
      BY <2>3, <2>8, <3>2
    <3>4. mu \in Seq(Elem) /\ Ordered(hashnum, mu)
      BY <2>3
    <3>5. /\ w \in Seq(Elem) /\ Ordered(hashnum, w) /\ Has(w, f)
          /\ \A k \in DOMAIN w : w[k] = f \/ Has(mu, w[k])
          /\ \A x : Has(mu, x) => Has(w, x)
      <4> HIDE DEF Has
      <4> QED BY <2>1, <2>2, <2>11, <3>3, <3>4, <1>7
    <3>6. \A k \in DOMAIN w : (\E x \in i .. a : w[k] = low[x]) \/ (\E y \in j .. b : w[k] = upp[y])
      <4> SUFFICES ASSUME NEW k \in DOMAIN w
                   PROVE  (\E x \in i .. a : w[k] = low[x]) \/ (\E y \in j .. b : w[k] = upp[y])
        OBVIOUS
      <4>1. CASE w[k] = f
        BY <4>1, <2>6 DEF f
      <4>2. CASE Has(mu, w[k])
        <5>1. PICK l \in DOMAIN mu : mu[l] = w[k]
          BY <4>2
        <5>2. (\E x \in i .. a : mu[l] = low[x]) \/ (\E y \in j + 1 .. b : mu[l] = upp[y])
          BY <2>3
        <5> QED BY <5>1, <5>2, <2>6
      <4> QED BY <4>1, <4>2, <3>5
    <3>7. (\A x \in i .. a : Has(w, low[x])) /\ (\A y \in j .. b : Has(w, upp[y]))
      <4>1. (\A x \in i .. a : Has(mu, low[x])) /\ (\A y \in j + 1 .. b : Has(mu, upp[y]))
        BY <2>3
      <4> HIDE DEF Has
      <4> QED BY <4>1, <3>5, <2>5 DEF f
    <3> QED BY <3>5, <3>6, <3>7 DEF w
  <2> QED BY <2>10, <2>11
<1> HIDE DEF Q
<1>9. 0 \in T
  <2> SUFFICES ASSUME NEW i \in 1 .. a + 1, NEW j \in 1 .. b + 1, (a + 1 - i) + (b + 1 - j) = 0
               PROVE  Q(i, j, m[i][j])
    OBVIOUS
  <2>1. i > a
    BY <1>1
  <2> QED BY <2>1, <1>5
<1>10. ASSUME NEW n \in Nat, n \in T PROVE n + 1 \in T
  <2> SUFFICES ASSUME NEW i \in 1 .. a + 1, NEW j \in 1 .. b + 1, (a + 1 - i) + (b + 1 - j) = n + 1
               PROVE  Q(i, j, m[i][j])
    OBVIOUS
  <2>1. CASE i > a
    BY <2>1, <1>5
  <2>2. CASE ~ i > a /\ j > b
    BY <2>2, <1>6
  <2>3. CASE ~ i > a /\ ~ j > b
    <3>1. /\ i \in 1 .. a /\ j \in 1 .. b
          /\ i + 1 \in 1 .. a + 1 => (a + 1 - (i + 1)) + (b + 1 - j) = n
          /\ j + 1 \in 1 .. b + 1 => (a + 1 - i) + (b + 1 - (j + 1)) = n
      BY <2>3, <1>1
    <3>2. /\ i + 1 \in 1 .. a + 1 => Q(i + 1, j, m[i + 1][j])
          /\ j + 1 \in 1 .. b + 1 => Q(i, j + 1, m[i][j + 1])
      BY <3>1, <1>10
    <3> QED BY <3>1, <3>2, <1>8
  <2> QED BY <2>1, <2>2, <2>3
<1>11. Q(1, 1, m[1][1])
  <2>1. /\ a + b \in Nat /\ 1 \in 1 .. a + 1 /\ 1 \in 1 .. b + 1
        /\ (a + 1 - 1) + (b + 1 - 1) = a + b
    BY <1>1
  <2>2. a + b \in T
    <3> HIDE DEF T
    <3> QED BY <2>1, <1>9, <1>10, NatInductionSet
  <2> QED BY <2>1, <2>2
<1> DEFINE w == Merge(low, upp)
<1>12. Q(1, 1, w)
  BY <1>4, <1>11
<1> HIDE DEF w
<1>13. /\ w \in Seq(Elem) /\ Ordered(hashnum, w)
       /\ \A k \in DOMAIN w : w[k] \in A \cup B
  BY <1>2, <1>3, <1>12 DEF Q
<1>14. \A e \in A \cup B : \E k \in DOMAIN w : w[k] = e
  <2>1. (\A x \in 1 .. a : Has(w, low[x])) /\ (\A y \in 1 .. b : Has(w, upp[y]))
    BY <1>12 DEF Q
  <2>2. \A e \in A : \E x \in 1 .. a : low[x] = e
    BY <1>1 DEF Lists
  <2>3. \A e \in B : \E y \in 1 .. b : upp[y] = e
    BY <1>1 DEF Lists
  <2> QED BY <2>1, <2>2, <2>3
<1>15. Lists(hashnum, w, A \cup B)
  BY <1>13, <1>14 DEF Lists
<1> QED BY <1>15 DEF w

----------------------------------------------------------------------------
(* Tables *)

\* Segments 0 to top hold the chains of all slots, each of which lists the
\* elements of S whose hash numbers belong there.
Shape(dir, top) ==
  /\ top \in 0 .. HSegs - 1 /\ DOMAIN dir = 0 .. top
  /\ \A s \in 0 .. top : dir[s] \in [0 .. segsize(s) - 1 -> Seq(Elem)]

Slotted(h, S, top, g) == {e \in S : (h[e] % Slots(top)) = g}

Table(h, dir, top, S) ==
  /\ Shape(dir, top) /\ S \subseteq Elem /\ h \in [Elem -> Nat]
  /\ \A g \in 0 .. Slots(top) - 1 : Lists(h, Chain(dir, g), Slotted(h, S, top, g))

LEMMA TopNat ==
  ASSUME NEW top \in 0 .. HSegs - 1
  PROVE  top \in Nat /\ Slots(top) \in Nat \ {0, 1} /\ HSegs \in Nat
BY SlotsNat

LEMMA ShapeChain ==
  ASSUME NEW dir, NEW top, Shape(dir, top)
  PROVE  /\ \A g \in 0 .. Slots(top) - 1 : Chain(dir, g) \in Seq(Elem)
         /\ \A s \in 0 .. top : \A j \in 0 .. segsize(s) - 1 :
              /\ Before(s) + j \in 0 .. Slots(top) - 1
              /\ Chain(dir, Before(s) + j) = dir[s][j]
<1>1. top \in 0 .. HSegs - 1
  BY DEF Shape
<1>2. ASSUME NEW g \in 0 .. Slots(top) - 1 PROVE Chain(dir, g) \in Seq(Elem)
  <2>1. SegOf(g) \in 0 .. top /\ SlotOf(g) \in 0 .. segsize(SegOf(g)) - 1
    BY <1>1, SegmentOf
  <2> QED BY <2>1 DEF Chain, Shape
<1>3. ASSUME NEW s \in 0 .. top, NEW j \in 0 .. segsize(s) - 1
      PROVE  Before(s) + j \in 0 .. Slots(top) - 1 /\ Chain(dir, Before(s) + j) = dir[s][j]
  BY <1>1, SlotAt DEF Chain
<1> QED BY <1>2, <1>3

LEMMA TableMade ==
  ASSUME NEW h \in [Elem -> Nat], NEW dir, NEW top \in 0 .. HSegs - 1, NEW S \in SUBSET Elem,
         DOMAIN dir = 0 .. top,
         \A s \in 0 .. top : dir[s] = [j \in 0 .. segsize(s) - 1 |-> dir[s][j]],
         \A s \in 0 .. top : \A j \in 0 .. segsize(s) - 1 :
            Lists(h, dir[s][j], Slotted(h, S, top, Before(s) + j))
  PROVE  Table(h, dir, top, S)
<1>1. ASSUME NEW s \in 0 .. top PROVE dir[s] \in [0 .. segsize(s) - 1 -> Seq(Elem)]
  <2>1. \A j \in 0 .. segsize(s) - 1 : dir[s][j] \in Seq(Elem)
    BY DEF Lists
  <2>2. dir[s] = [j \in 0 .. segsize(s) - 1 |-> dir[s][j]]
    OBVIOUS
  <2> DEFINE D == 0 .. segsize(s) - 1
             f == dir[s]
  <2>3. f = [j \in D |-> f[j]] /\ \A j \in D : f[j] \in Seq(Elem)
    BY <2>1, <2>2
  <2> HIDE DEF D, f
  <2>4. f \in [D -> Seq(Elem)]
    BY <2>3
  <2> QED BY <2>4 DEF D, f
<1>2. Shape(dir, top)
  BY <1>1 DEF Shape
<1>3. ASSUME NEW g \in 0 .. Slots(top) - 1 PROVE Lists(h, Chain(dir, g), Slotted(h, S, top, g))
  <2> DEFINE s == SegOf(g)
             j == SlotOf(g)
  <2>1. s \in 0 .. top /\ j \in 0 .. segsize(s) - 1 /\ g = Before(s) + j
    BY SegmentOf
  <2>2. Chain(dir, g) = dir[s][j]
    BY DEF Chain
  <2> HIDE DEF s, j
  <2> QED BY <2>1, <2>2
<1> QED BY <1>2, <1>3 DEF Table

Replaced(dir, g, c, dir2) == dir2 = [dir EXCEPT ![SegOf(g)][SlotOf(g)] = c]

LEMMA TableUpdated ==
  ASSUME NEW dir, NEW top, Shape(dir, top), NEW g \in 0 .. Slots(top) - 1, NEW c \in Seq(Elem),
         NEW dir2, Replaced(dir, g, c, dir2)
  PROVE  /\ Shape(dir2, top) /\ Chain(dir2, g) = c
         /\ \A k \in 0 .. Slots(top) - 1 : k # g => Chain(dir2, k) = Chain(dir, k)
<1> DEFINE s == SegOf(g)
           j == SlotOf(g)
<1>1. top \in 0 .. HSegs - 1
  BY DEF Shape
<1>2. s \in 0 .. top /\ j \in 0 .. segsize(s) - 1 /\ g = Before(s) + j
  BY <1>1, SegmentOf
<1>3. DOMAIN dir = 0 .. top /\ \A r \in 0 .. top : dir[r] \in [0 .. segsize(r) - 1 -> Seq(Elem)]
  BY DEF Shape
<1> HIDE DEF s, j
<1>4. DOMAIN dir2 = 0 .. top /\ dir2[s] = [dir[s] EXCEPT ![j] = c]
      /\ \A r \in 0 .. top : r # s => dir2[r] = dir[r]
  <2>1. dir2 = [dir EXCEPT ![s][j] = c]
    BY DEF Replaced, s, j
  <2> QED BY <2>1, <1>2, <1>3
<1>5. dir2[s] \in [0 .. segsize(s) - 1 -> Seq(Elem)] /\ dir2[s][j] = c
      /\ \A i \in 0 .. segsize(s) - 1 : i # j => dir2[s][i] = dir[s][i]
  BY <1>2, <1>3, <1>4
<1>6. Shape(dir2, top)
  BY <1>1, <1>3, <1>4, <1>5 DEF Shape
<1>7. Chain(dir2, g) = c
  BY <1>5 DEF Chain, s, j
<1>8. ASSUME NEW k \in 0 .. Slots(top) - 1, k # g PROVE Chain(dir2, k) = Chain(dir, k)
  <2>1. SegOf(k) \in 0 .. top /\ SlotOf(k) \in 0 .. segsize(SegOf(k)) - 1
        /\ k = Before(SegOf(k)) + SlotOf(k)
    BY <1>1, SegmentOf
  <2>2. SegOf(k) # s \/ SlotOf(k) # j
    BY <1>2, <1>8, <2>1
  <2> QED BY <2>1, <2>2, <1>4, <1>5 DEF Chain
<1> QED BY <1>6, <1>7, <1>8

\* hgrow: the elements of each slot are divided between it and the new one.
LEMMA GrownTable ==
  ASSUME NEW h, NEW dir, NEW top, NEW S, Table(h, dir, top, S), mask = Slots(top) - 1,
         top + 1 \in 0 .. HSegs - 1
  PROVE  Table(h, Grown(dir, h), top + 1, S)
<1> DEFINE n == Slots(top)
           up == top + 1
           new == Grown(dir, h)
           H == {e \in Elem : Moves(h[e], n)}
           L == {e \in Elem : ~Moves(h[e], n)}
<1>1. /\ top \in 0 .. HSegs - 1 /\ top \in Nat /\ n \in Nat \ {0, 1} /\ HSegs \in Nat
      /\ h \in [Elem -> Nat] /\ S \subseteq Elem
  BY TopNat DEF Table, Shape
<1>2. mask + 1 = n
  BY <1>1
<1>3. Cardinality(DOMAIN dir) = up
  <2>1. DOMAIN dir = 0 .. top
    BY DEF Table, Shape
  <2>2. Cardinality(0 .. top) = top - 0 + 1
    BY <1>1, FS_Interval
  <2> QED BY <1>1, <2>1, <2>2
<1>4. Slots(up) = 2 * n /\ segsize(up) = n /\ Before(up) = n
  <2>1. up \in Nat /\ up > 0 /\ up - 1 = top
    BY <1>1
  <2> QED BY <2>1, <1>1, SlotsNat, SegmentSize
<1>5. /\ DOMAIN new = 0 .. up
      /\ new[up] = [k \in 0 .. n - 1 |-> Kept(Chain(dir, k), H)]
      /\ \A s \in 0 .. top : new[s] = [j \in 0 .. segsize(s) - 1 |-> Kept(dir[s][j], L)]
  <2>1. new = [s \in 0 .. up |->
                IF s = up THEN [k \in 0 .. n - 1 |-> Kept(Chain(dir, k), H)]
                ELSE [j \in 0 .. segsize(s) - 1 |-> Kept(dir[s][j], L)]]
    BY <1>2, <1>3 DEF Grown
  <2>2. up \in 0 .. up /\ \A s \in 0 .. top : s \in 0 .. up /\ s # up
    BY <1>1
  <2> HIDE DEF H, L, n, up, new
  <2>3. DOMAIN new = 0 .. up
    BY <2>1
  <2>4. new[up] = [k \in 0 .. n - 1 |-> Kept(Chain(dir, k), H)]
    BY <2>1, <2>2
  <2>5. ASSUME NEW s \in 0 .. top
        PROVE  new[s] = [j \in 0 .. segsize(s) - 1 |-> Kept(dir[s][j], L)]
    BY <2>1, <2>2
  <2> QED BY <2>3, <2>4, <2>5
<1> HIDE DEF new, n
<1>6. ASSUME NEW g \in 0 .. n - 1
      PROVE  /\ Lists(h, Kept(Chain(dir, g), H), Slotted(h, S, up, n + g))
             /\ Lists(h, Kept(Chain(dir, g), L), Slotted(h, S, up, g))
  <2> DEFINE A == Slotted(h, S, top, g)
  <2>1. Lists(h, Chain(dir, g), A) /\ A \subseteq Elem
    BY <1>1 DEF Table, Slotted, n
  <2>2. ASSUME NEW e \in S
        PROVE  (h[e] % Slots(up)) = IF Moves(h[e], n) THEN n + (h[e] % n) ELSE (h[e] % n)
    <3>1. h[e] \in Nat /\ n \in Nat \ {0}
      BY <1>1
    <3> QED BY <3>1, <1>4, ModDouble
  <2>3. \A e \in S : (h[e] % n) \in 0 .. n - 1
    BY <1>1, ModRange DEF n
  <2>4. Slotted(h, S, up, n + g) = A \cap H
    <3>1. ASSUME NEW e \in S PROVE (h[e] % Slots(up)) = n + g <=> (h[e] % n) = g /\ Moves(h[e], n)
      <4> DEFINE r == h[e] % n
      <4>1. r \in 0 .. n - 1 /\ (h[e] % Slots(up)) = IF Moves(h[e], n) THEN n + r ELSE r
        BY <2>2, <2>3
      <4> HIDE DEF r
      <4>2. (h[e] % Slots(up)) = n + g <=> r = g /\ Moves(h[e], n)
        BY <4>1, <1>1
      <4> QED BY <4>2 DEF r
    <3> QED BY <3>1, <1>1 DEF Slotted, n
  <2>5. Slotted(h, S, up, g) = A \cap L
    <3>1. ASSUME NEW e \in S PROVE (h[e] % Slots(up)) = g <=> (h[e] % n) = g /\ ~Moves(h[e], n)
      <4> DEFINE r == h[e] % n
      <4>1. r \in 0 .. n - 1 /\ (h[e] % Slots(up)) = IF Moves(h[e], n) THEN n + r ELSE r
        BY <2>2, <2>3
      <4> HIDE DEF r
      <4>2. (h[e] % Slots(up)) = g <=> r = g /\ ~Moves(h[e], n)
        BY <4>1, <1>1
      <4> QED BY <4>2 DEF r
    <3> QED BY <3>1, <1>1 DEF Slotted, n
  <2> HIDE DEF A, H, L
  <2> QED BY <2>1, <2>4, <2>5, <1>1, KeptLists
<1> HIDE DEF H, L
<1>7. ASSUME NEW s \in 0 .. up
      PROVE  new[s] = [j \in 0 .. segsize(s) - 1 |-> new[s][j]]
  <2>1. CASE s = up
    BY <2>1, <1>4, <1>5
  <2>2. CASE s # up
    <3>1. s \in 0 .. top
      BY <1>1, <2>2
    <3> QED BY <3>1, <1>5
  <2> QED BY <2>1, <2>2
<1>8. ASSUME NEW s \in 0 .. up, NEW j \in 0 .. segsize(s) - 1
      PROVE  Lists(h, new[s][j], Slotted(h, S, up, Before(s) + j))
  <2>1. CASE s = up
    BY <2>1, <1>4, <1>5, <1>6
  <2>2. CASE s # up
    <3>1. s \in 0 .. top
      BY <1>1, <2>2
    <3>2. Before(s) + j \in 0 .. n - 1 /\ Chain(dir, Before(s) + j) = dir[s][j]
      BY <3>1, ShapeChain DEF Table, n
    <3>a. new[s][j] = Kept(dir[s][j], L)
      BY <3>1, <1>5
    <3>3. new[s][j] = Kept(Chain(dir, Before(s) + j), L)
      BY <3>a, <3>2
    <3> QED BY <3>2, <3>3, <1>6
  <2> QED BY <2>1, <2>2
<1>9. Table(h, new, up, S)
  BY <1>1, <1>5, <1>7, <1>8, TableMade
<1> QED BY <1>9 DEF new

\* hshrink: each chain of the top segment is merged with that of the slot
\* where its elements belong.
LEMMA MergedTable ==
  ASSUME NEW dir, NEW top, NEW S, Table(hashnum, dir, top, S), top > 0
  PROVE  Table(hashnum, Merged(dir), top - 1, S)
<1> DEFINE low == top - 1
           n == Slots(low)
           new == Merged(dir)
<1>1. /\ top \in 0 .. HSegs - 1 /\ top \in Nat /\ low \in 0 .. HSegs - 1 /\ low \in Nat
      /\ n \in Nat \ {0, 1} /\ hashnum \in [Elem -> Nat] /\ S \subseteq Elem
  <2>1. top \in 0 .. HSegs - 1 /\ top \in Nat /\ HSegs \in Nat
    BY TopNat DEF Table, Shape
  <2>2. low \in 0 .. HSegs - 1 /\ low \in Nat
    BY <2>1
  <2> QED BY <2>1, <2>2, TopNat DEF Table
<1>2. Slots(top) = 2 * n /\ segsize(top) = n /\ Before(top) = n
  <2>1. low + 1 = top
    BY <1>1
  <2> QED BY <2>1, <1>1, SlotsNat, SegmentSize
<1>3. Cardinality(DOMAIN dir) - 1 = top
  <2>1. DOMAIN dir = 0 .. top
    BY DEF Table, Shape
  <2>2. Cardinality(0 .. top) = top - 0 + 1
    BY <1>1, FS_Interval
  <2> QED BY <1>1, <2>1, <2>2
<1>4. /\ DOMAIN new = 0 .. low
      /\ \A s \in 0 .. low : new[s] = [j \in 0 .. segsize(s) - 1 |->
                                         Merge(dir[s][j], dir[top][Before(s) + j])]
  BY <1>3 DEF Merged
<1> HIDE DEF new, n
<1>5. ASSUME NEW s \in 0 .. low, NEW j \in 0 .. segsize(s) - 1
      PROVE  Lists(hashnum, new[s][j], Slotted(hashnum, S, low, Before(s) + j))
  <2> DEFINE g == Before(s) + j
             A == Slotted(hashnum, S, top, g)
             B == Slotted(hashnum, S, top, n + g)
  <2>1. s \in 0 .. top /\ g \in 0 .. n - 1
    <3>1. Before(s) + j \in 0 .. Slots(low) - 1
      BY <1>1, SlotAt
    <3> QED BY <3>1, <1>1 DEF n
  <2>2. Chain(dir, g) = dir[s][j]
    BY <2>1, ShapeChain DEF Table
  <2>3. Chain(dir, n + g) = dir[top][g]
    <3>1. top \in 0 .. top /\ g \in 0 .. segsize(top) - 1
      BY <1>1, <1>2, <2>1
    <3> HIDE DEF g
    <3> QED BY <3>1, <1>2, ShapeChain DEF Table
  <2> HIDE DEF g
  <2>4. new[s][j] = Merge(Chain(dir, g), Chain(dir, n + g))
    <3>1. new[s][j] = Merge(dir[s][j], dir[top][g])
      BY <1>4 DEF g
    <3> QED BY <3>1, <2>2, <2>3
  <2>5. Lists(hashnum, Chain(dir, g), A) /\ Lists(hashnum, Chain(dir, n + g), B)
    <3>1. g \in 0 .. Slots(top) - 1 /\ n + g \in 0 .. Slots(top) - 1
      BY <1>1, <1>2, <2>1
    <3> QED BY <3>1 DEF Table
  <2>6. ASSUME NEW e \in S
        PROVE  (hashnum[e] % n) = g <=> (hashnum[e] % Slots(top)) = g \/ (hashnum[e] % Slots(top)) = n + g
    <3> DEFINE r == hashnum[e] % n
    <3>1. hashnum[e] \in Nat /\ n \in Nat \ {0}
      BY <1>1
    <3>2. (hashnum[e] % Slots(top)) = n + r \/ (hashnum[e] % Slots(top)) = r
      BY <3>1, <1>2, ModDouble
    <3>3. r \in 0 .. n - 1
      BY <3>1, <1>1, ModRange DEF n
    <3> HIDE DEF r
    <3>4. r = g <=> (hashnum[e] % Slots(top)) = g \/ (hashnum[e] % Slots(top)) = n + g
      BY <3>2, <3>3, <2>1, <1>1
    <3> QED BY <3>4 DEF r
  <2>7. Slotted(hashnum, S, low, g) = A \cup B
    BY <2>6 DEF Slotted, n
  <2>8. \A e \in A, f \in B : hashnum[e] # hashnum[f]
    <3>1. g # n + g
      BY <2>1, <1>1
    <3> QED BY <3>1 DEF Slotted
  <2>9. A \in SUBSET Elem /\ B \in SUBSET Elem
    BY <1>1 DEF Slotted
  <2> HIDE DEF A, B
  <2> QED BY <2>4, <2>5, <2>7, <2>8, <2>9, <1>1, MergeLists DEF g
<1>6. \A s \in 0 .. low : new[s] = [j \in 0 .. segsize(s) - 1 |-> new[s][j]]
  BY <1>4
<1> HIDE DEF low
<1>7. Table(hashnum, new, low, S)
  BY <1>1, <1>4, <1>5, <1>6, TableMade
<1> QED BY <1>7 DEF new, low

LEMMA RoundsTable ==
  ASSUME NEW top, NEW S, Table(hashnum, hdir, top, S)
  PROVE  \A k \in 0 .. top : Table(hashnum, Rounds[k], top - k, S)
<1> DEFINE n == HSegs - 1
           R(f, k) == /\ f = [i \in 0 .. k |-> f[i]] /\ f[0] = hdir
                      /\ \A i \in 1 .. k : f[i] = Merged(f[i - 1])
           X == {k \in Nat : \E f : R(f, k)}
           P(f) == f = [k \in 0 .. n |-> IF k = 0 THEN hdir ELSE Merged(f[k - 1])]
<1>1. top \in 0 .. n /\ top \in Nat /\ n \in Nat
  BY TopNat, SlotsNat DEF Table, Shape
<1>2. 0 \in X
  <2>1. R([i \in 0 .. 0 |-> hdir], 0)
    OBVIOUS
  <2> QED BY <2>1
<1>3. ASSUME NEW k \in Nat, k \in X PROVE k + 1 \in X
  <2>1. PICK f : R(f, k)
    BY <1>3
  <2> DEFINE u == [i \in 0 .. k + 1 |-> IF i = k + 1 THEN Merged(f[k]) ELSE f[i]]
  <2>2. u = [i \in 0 .. k + 1 |-> u[i]]
    OBVIOUS
  <2>3. u[k + 1] = Merged(f[k]) /\ \A i \in 0 .. k : u[i] = f[i]
    OBVIOUS
  <2> HIDE DEF u
  <2>4. ASSUME NEW i \in 1 .. k + 1 PROVE u[i] = Merged(u[i - 1])
    <3>1. i - 1 \in 0 .. k /\ (i = k + 1 => i - 1 = k) /\ (i # k + 1 => i \in 1 .. k /\ i \in 0 .. k)
      OBVIOUS
    <3> QED BY <3>1, <2>1, <2>3
  <2>5. u[0] = hdir
    BY <2>1, <2>3
  <2>6. R(u, k + 1)
    BY <2>2, <2>4, <2>5
  <2> HIDE DEF R
  <2> QED BY <2>6
<1>4. PICK f : R(f, n)
  <2> HIDE DEF R
  <2>1. \A k \in Nat : k \in X
    <3> HIDE DEF X
    <3> QED BY <1>2, <1>3, NatInductionSet
  <2> QED BY <2>1, <1>1
<1>5. P(f)
  <2>1. \A k \in 0 .. n : k # 0 => k \in 1 .. n
    BY <1>1
  <2>2. \A k \in 0 .. n : f[k] = IF k = 0 THEN hdir ELSE Merged(f[k - 1])
    BY <1>4, <2>1
  <2> QED BY <1>4, <2>2
<1>6. P(Rounds)
  <2>1. Rounds = CHOOSE g : P(g)
    BY DEF Rounds
  <2> HIDE DEF P
  <2> QED BY <2>1, <1>5
<1>7. Rounds[0] = hdir /\ \A k \in 0 .. n - 1 : Rounds[k + 1] = Merged(Rounds[k])
  <2>1. \A k \in 0 .. n : Rounds[k] = IF k = 0 THEN hdir ELSE Merged(Rounds[k - 1])
    BY <1>6
  <2>2. 0 \in 0 .. n /\ \A k \in 0 .. n - 1 : k + 1 \in 0 .. n /\ k + 1 # 0 /\ (k + 1) - 1 = k
    BY <1>1
  <2> QED BY <2>1, <2>2
<1> DEFINE T == {k \in Nat : k <= top => Table(hashnum, Rounds[k], top - k, S)}
<1>8. 0 \in T
  BY <1>1, <1>7
<1>9. ASSUME NEW k \in Nat, k \in T PROVE k + 1 \in T
  <2> SUFFICES ASSUME k + 1 <= top PROVE Table(hashnum, Rounds[k + 1], top - (k + 1), S)
    OBVIOUS
  <2>1. Table(hashnum, Rounds[k], top - k, S) /\ top - k > 0 /\ k \in 0 .. n - 1
        /\ (top - k) - 1 = top - (k + 1)
    BY <1>1, <1>9
  <2> QED BY <2>1, <1>7, MergedTable
<1>10. \A k \in Nat : k \in T
  <2> HIDE DEF T
  <2> QED BY <1>8, <1>9, NatInductionSet
<1> QED BY <1>10, <1>1

----------------------------------------------------------------------------
(* The table in every reachable state *)

Built(top) == mask = Slots(top) - 1 /\ Table(hashnum, hdir, top, live)

Counted ==
  /\ alloc \in 0 .. MaxElem /\ live \subseteq 1 .. alloc /\ size = Cardinality(live)
  /\ hashnum \in [Elem -> Hash \cup {0}]

TableInv == (\E top : Built(top)) /\ Counted

LEMMA HashNat ==
  ASSUME Counted
  PROVE  /\ hashnum \in [Elem -> Nat] /\ alloc \in Nat /\ 1 .. alloc \subseteq Elem
         /\ live \subseteq Elem /\ IsFiniteSet(live) /\ size \in 0 .. MaxElem
         /\ \A hn \in Hash : hn \in Nat
<1>1. Hash \cup {0} \subseteq Nat /\ MaxElem \in Nat
  BY ParameterAssumption
<1>2. alloc \in Nat /\ alloc <= MaxElem /\ 1 .. alloc \subseteq Elem
  BY <1>1 DEF Counted, Elem
<1>3. IsFiniteSet(1 .. alloc) /\ Cardinality(1 .. alloc) = alloc
  <2>1. Cardinality(1 .. alloc) = IF 1 > alloc THEN 0 ELSE alloc - 1 + 1
    BY <1>2, FS_Interval
  <2> QED BY <2>1, <1>2, FS_Interval
<1>4. IsFiniteSet(live) /\ Cardinality(live) <= alloc
  BY <1>3, FS_Subset DEF Counted
<1>5. Cardinality(live) \in Nat
  BY <1>4, FS_CardinalityType
<1> QED BY <1>1, <1>2, <1>4, <1>5 DEF Counted

\* The chain where the elements of a hash number hang.
LEMMA HomeChain ==
  ASSUME NEW top, Built(top), NEW hn \in Nat
  PROVE  /\ (hn % Slots(top)) \in 0 .. mask /\ mask = Slots(top) - 1 /\ mask + 1 = Slots(top)
         /\ top \in 0 .. HSegs - 1 /\ top \in Nat /\ Slots(top) \in Nat \ {0, 1}
         /\ hchain(hn) = Chain(hdir, hn % Slots(top))
         /\ Lists(hashnum, hchain(hn), Slotted(hashnum, live, top, hn % Slots(top)))
         /\ SegNum(hn) = SegOf(hn % Slots(top)) /\ SegSlot(hn) = SlotOf(hn % Slots(top))
<1>1. top \in 0 .. HSegs - 1 /\ top \in Nat /\ Slots(top) \in Nat \ {0, 1} /\ mask = Slots(top) - 1
  BY TopNat DEF Built, Table, Shape
<1>2. (hn % Slots(top)) \in 0 .. mask
  BY <1>1, ModRange
<1>3. /\ hchain(hn) = Chain(hdir, hn % Slots(top))
      /\ SegNum(hn) = SegOf(hn % Slots(top)) /\ SegSlot(hn) = SlotOf(hn % Slots(top))
  BY <1>1, Address
<1>4. Lists(hashnum, hchain(hn), Slotted(hashnum, live, top, hn % Slots(top)))
  BY <1>1, <1>2, <1>3 DEF Built, Table
<1>5. mask + 1 = Slots(top)
  BY <1>1
<1> QED BY <1>1, <1>2, <1>3, <1>4, <1>5

LEMMA MembIs ==
  ASSUME NEW top, Built(top), NEW e \in Elem
  PROVE  memb(e) <=> e \in live
<1> DEFINE hn == hashnum[e]
           chain == hchain(hn)
           S == Slotted(hashnum, live, top, hn % Slots(top))
<1>1. hashnum \in [Elem -> Nat] /\ hn \in Nat
  BY DEF Built, Table
<1>2. Lists(hashnum, chain, S)
  BY <1>1, HomeChain
<1>3. memb(e) <=> \E i \in DOMAIN chain : chain[i] = e /\ \A j \in 1 .. i : hashnum[chain[j]] <= hn
  BY DEF memb
<1> HIDE DEF chain, hn
<1>4. ASSUME memb(e) PROVE e \in live
  <2>1. PICK i \in DOMAIN chain : chain[i] = e
    BY <1>3, <1>4
  <2>2. chain[i] \in S
    BY <1>2 DEF Lists
  <2> QED BY <2>1, <2>2 DEF Slotted
<1>5. ASSUME e \in live PROVE memb(e)
  <2>1. e \in S
    BY <1>5 DEF Slotted, hn
  <2>2. PICK i \in DOMAIN chain : chain[i] = e
    BY <2>1, <1>2 DEF Lists
  <2>3. /\ DOMAIN chain = 1 .. Len(chain) /\ Len(chain) \in Nat
        /\ \A j \in DOMAIN chain : chain[j] \in Elem
        /\ \A j \in DOMAIN chain : j < i => Prec(hashnum, chain[j], chain[i])
    BY <1>1, <1>2, ChainIndex DEF Lists
  <2>4. ASSUME NEW j \in 1 .. i PROVE hashnum[chain[j]] <= hn
    <3>1. j \in DOMAIN chain /\ (j < i \/ j = i)
      BY <2>3
    <3>2. CASE j < i
      <4>1. Prec(hashnum, chain[j], e)
        BY <3>1, <3>2, <2>2, <2>3
      <4> QED BY <4>1, <3>1, <2>3, <1>1, PrecOrder DEF hn
    <3>3. CASE j = i
      BY <3>3, <2>2, <1>1 DEF hn
    <3> QED BY <3>1, <3>2, <3>3
  <2> QED BY <1>3, <2>2, <2>4
<1> QED BY <1>4, <1>5

LEMMA InsertTable ==
  ASSUME NEW top, Built(top), Counted, NEW hn \in Hash, Insert(hn)
  PROVE  /\ Counted' /\ (Built(top)' \/ (Built(top + 1)' /\ top + 1 \in Nat))
         /\ \A e \in 1 .. alloc : hashnum'[e] = hashnum[e]
         /\ live' = live \cup {alloc + 1} /\ alloc' = alloc + 1
<1> DEFINE e == alloc + 1
           g == hn % Slots(top)
           chain == hchain(hn)
           A == Slotted(hashnum, live, top, g)
           pos == FirstAbove(chain, hn)
           p == IF pos = 0 THEN Len(chain) + 1 ELSE pos
           hash == [hashnum EXCEPT ![e] = hn]
           dir == [hdir EXCEPT ![SegNum(hn)][SegSlot(hn)] = InsertAt(chain, p, e)]
           S == live \cup {e}
<1>1. /\ alloc < MaxElem /\ alloc' = e /\ hashnum' = hash /\ size' = size + 1 /\ live' = S
      /\ \/ TooCrowded(size + 1, mask, dir) /\ hdir' = Grown(dir, hash) /\ mask' = 2 * mask + 1
         \/ hdir' = dir /\ mask' = mask
  BY DEF Insert
<1>2. /\ hashnum \in [Elem -> Nat] /\ alloc \in Nat /\ MaxElem \in Nat /\ hn \in Nat
      /\ live \subseteq Elem /\ IsFiniteSet(live) /\ live \subseteq 1 .. alloc
      /\ hashnum \in [Elem -> Hash \cup {0}]
  BY HashNat, ParameterAssumption DEF Counted
<1>3. e \in Elem /\ e \in Nat /\ e \notin live /\ e \notin 1 .. alloc /\ (\A x \in live : x < e)
  BY <1>1, <1>2 DEF Elem
<1>4. /\ hash \in [Elem -> Hash \cup {0}] /\ hash \in [Elem -> Nat] /\ hash[e] = hn
      /\ \A x \in Elem : x # e => hash[x] = hashnum[x]
  BY <1>2, <1>3
<1>5. Counted'
  <2>1. Cardinality(S) = Cardinality(live) + 1
    BY <1>2, <1>3, FS_AddElement
  <2>2. alloc' \in 0 .. MaxElem /\ live' \subseteq 1 .. alloc'
    BY <1>1, <1>2, <1>3
  <2> QED BY <1>1, <1>4, <2>1, <2>2 DEF Counted
<1>6. /\ g \in 0 .. Slots(top) - 1 /\ mask = Slots(top) - 1 /\ mask + 1 = Slots(top)
      /\ top \in 0 .. HSegs - 1 /\ top \in Nat /\ Slots(top) \in Nat \ {0, 1}
      /\ Lists(hashnum, chain, A) /\ SegNum(hn) = SegOf(g) /\ SegSlot(hn) = SlotOf(g)
      /\ Shape(hdir, top)
  BY <1>2, HomeChain DEF Built, Table
<1> HIDE DEF chain, pos
<1>7. p \in 1 .. Len(chain) + 1 /\ \A i \in DOMAIN chain : i < p <=> hashnum[chain[i]] <= hn
  BY <1>2, <1>6, FirstAboveIs DEF pos
<1> HIDE DEF p
<1>8. \A x \in live : hash[x] = hashnum[x]
  BY <1>2, <1>3, <1>4
<1>9. Lists(hash, InsertAt(chain, p, e), A \cup {e})
  <2>1. A \subseteq Elem /\ A \subseteq live
    BY <1>2 DEF Slotted
  <2> HIDE DEF A, hash, e, g
  <2> QED BY <2>1, <1>2, <1>3, <1>4, <1>6, <1>7, <1>8, InsertLists
<1>10. InsertAt(chain, p, e) \in Seq(Elem)
  BY <1>9 DEF Lists
<1>11. /\ Shape(dir, top) /\ Chain(dir, g) = InsertAt(chain, p, e)
       /\ \A k \in 0 .. Slots(top) - 1 : k # g => Chain(dir, k) = Chain(hdir, k)
  <2> DEFINE c == InsertAt(chain, p, e)
  <2>1. Replaced(hdir, g, c, dir)
    BY <1>6 DEF Replaced
  <2> HIDE DEF c, g, dir
  <2> QED BY <2>1, <1>6, <1>10, TableUpdated DEF c
<1> HIDE DEF dir, hash, e
<1>12. Slotted(hash, S, top, g) = A \cup {e}
       /\ \A k \in 0 .. Slots(top) - 1 : k # g => Slotted(hash, S, top, k) = Slotted(hashnum, live, top, k)
  BY <1>4, <1>8 DEF Slotted
<1>13. Table(hash, dir, top, S)
  <2>1. ASSUME NEW k \in 0 .. Slots(top) - 1 PROVE Lists(hash, Chain(dir, k), Slotted(hash, S, top, k))
    <3>1. CASE k = g
      BY <3>1, <1>9, <1>11, <1>12
    <3>2. CASE k # g
      <4> DEFINE K == Slotted(hashnum, live, top, k)
      <4>1. Lists(hashnum, Chain(hdir, k), K)
        BY DEF Built, Table
      <4>2. K \in SUBSET Elem /\ \A x \in K : hash[x] = hashnum[x]
        BY <1>2, <1>8 DEF Slotted
      <4> HIDE DEF K
      <4>3. Lists(hash, Chain(hdir, k), K)
        BY <4>1, <4>2, <1>2, ListsElsewhere
      <4> QED BY <4>3, <3>2, <1>11, <1>12 DEF K
    <3> QED BY <3>1, <3>2
  <2>2. S \subseteq Elem
    BY <1>2, <1>3
  <2> QED BY <2>1, <2>2, <1>4, <1>11 DEF Table
<1>16. (\A x \in 1 .. alloc : hashnum'[x] = hashnum[x]) /\ live' = live \cup {alloc + 1} /\ alloc' = alloc + 1
  <2>1. \A x \in 1 .. alloc : x \in Elem /\ x # e
    BY <1>2, <1>3 DEF Elem
  <2> QED BY <2>1, <1>1, <1>4 DEF e
<1>14. CASE hdir' = dir /\ mask' = mask
  <2>1. Built(top)'
    BY <1>1, <1>6, <1>13, <1>14 DEF Built
  <2> QED BY <2>1, <1>5, <1>16
<1>15. CASE TooCrowded(size + 1, mask, dir) /\ hdir' = Grown(dir, hash) /\ mask' = 2 * mask + 1
  <2>1. top + 1 \in 0 .. HSegs - 1
    <3>1. HSegs - 1 \notin 0 .. top
      BY <1>15, <1>11 DEF TooCrowded, Shape
    <3> QED BY <3>1, <1>6, SlotsNat
  <2>2. Table(hash, Grown(dir, hash), top + 1, S)
    BY <2>1, <1>6, <1>13, GrownTable
  <2>3. mask' = Slots(top + 1) - 1
    <3>1. Slots(top + 1) = 2 * Slots(top)
      BY <1>6, SlotsNat
    <3> QED BY <3>1, <1>6, <1>15
  <2>4. Built(top + 1)'
    BY <2>2, <2>3, <1>1, <1>15 DEF Built
  <2>5. top + 1 \in Nat
    BY <1>6
  <2> QED BY <2>4, <2>5, <1>5, <1>16
<1> QED BY <1>1, <1>14, <1>15

LEMMA DeleteTable ==
  ASSUME NEW top, Built(top), Counted, NEW e \in Elem, Delete(e)
  PROVE  Counted' /\ Built(top)' /\ e \in live
<1> DEFINE hn == hashnum[e]
           g == hn % Slots(top)
           chain == hchain(hn)
           A == Slotted(hashnum, live, top, g)
           S == live \ {e}
           c == Kept(chain, Elem \ {e})
           dir == [hdir EXCEPT ![SegNum(hn)][SegSlot(hn)] = Kept(@, Elem \ {e})]
<1>1. /\ memb(e) /\ hdir' = dir /\ size' = size - 1 /\ live' = S /\ hashnum' = hashnum
      /\ mask' = mask /\ alloc' = alloc
  BY DEF Delete
<1>2. /\ hashnum \in [Elem -> Nat] /\ alloc \in Nat /\ MaxElem \in Nat /\ hn \in Nat
      /\ live \subseteq Elem /\ IsFiniteSet(live) /\ e \in live
  BY <1>1, HashNat, MembIs, ElemNat
<1>3. Counted'
  <2>1. Cardinality(S) = Cardinality(live) - 1
    BY <1>2, FS_RemoveElement
  <2> QED BY <2>1, <1>1 DEF Counted
<1>4. /\ g \in 0 .. Slots(top) - 1 /\ mask = Slots(top) - 1
      /\ Lists(hashnum, chain, A) /\ SegNum(hn) = SegOf(g) /\ SegSlot(hn) = SlotOf(g)
      /\ Shape(hdir, top) /\ chain = Chain(hdir, g)
  BY <1>2, HomeChain DEF Built, Table
<1>5. Replaced(hdir, g, c, dir)
  <2>1. dir = [hdir EXCEPT ![SegOf(g)][SlotOf(g)] = Kept(@, Elem \ {e})]
    BY <1>4
  <2>2. c = Kept(hdir[SegOf(g)][SlotOf(g)], Elem \ {e})
    BY <1>4 DEF Chain
  <2> QED BY <2>1, <2>2 DEF Replaced
<1> HIDE DEF chain, dir
<1>6. A \subseteq Elem /\ A \cap (Elem \ {e}) = A \ {e}
  BY <1>2 DEF Slotted
<1>7. Lists(hashnum, c, A \ {e}) /\ c \in Seq(Elem)
  <2>1. Lists(hashnum, c, A \cap (Elem \ {e}))
    <3> HIDE DEF A
    <3> QED BY <1>2, <1>4, <1>6, KeptLists
  <2> QED BY <2>1, <1>6 DEF Lists
<1> HIDE DEF c
<1>8. /\ Shape(dir, top) /\ Chain(dir, g) = c
      /\ \A k \in 0 .. Slots(top) - 1 : k # g => Chain(dir, k) = Chain(hdir, k)
  <2> HIDE DEF g
  <2> QED BY <1>4, <1>5, <1>7, TableUpdated
<1>9. Slotted(hashnum, S, top, g) = A \ {e}
      /\ \A k \in 0 .. Slots(top) - 1 : k # g => Slotted(hashnum, S, top, k) = Slotted(hashnum, live, top, k)
  BY DEF Slotted
<1>10. Table(hashnum, dir, top, S)
  <2>1. ASSUME NEW k \in 0 .. Slots(top) - 1 PROVE Lists(hashnum, Chain(dir, k), Slotted(hashnum, S, top, k))
    <3>1. CASE k = g
      BY <3>1, <1>7, <1>8, <1>9
    <3>2. CASE k # g
      <4>1. Lists(hashnum, Chain(hdir, k), Slotted(hashnum, live, top, k))
        BY DEF Built, Table
      <4> QED BY <4>1, <3>2, <1>8, <1>9
    <3> QED BY <3>1, <3>2
  <2>2. S \subseteq Elem
    BY <1>2
  <2> QED BY <2>1, <2>2, <1>2, <1>8 DEF Table
<1>11. Built(top)'
  BY <1>1, <1>4, <1>10 DEF Built
<1> QED BY <1>2, <1>3, <1>11

LEMMA ClearTable ==
  ASSUME NEW top, Built(top), Counted, Clear
  PROVE  Counted' /\ Built(top)'
<1>1. /\ hdir' = [s \in DOMAIN hdir |-> [j \in DOMAIN hdir[s] |-> <<>>]]
      /\ size' = 0 /\ live' = {} /\ mask' = mask /\ alloc' = alloc /\ hashnum' = hashnum
  BY DEF Clear
<1>2. Counted'
  BY <1>1, FS_EmptySet DEF Counted
<1>3. Shape(hdir, top) /\ hashnum \in [Elem -> Nat] /\ top \in 0 .. HSegs - 1 /\ mask = Slots(top) - 1
  BY DEF Built, Table, Shape
<1>4. /\ DOMAIN hdir' = 0 .. top
      /\ \A s \in 0 .. top : hdir'[s] = [j \in 0 .. segsize(s) - 1 |-> <<>>]
  <2>1. DOMAIN hdir = 0 .. top /\ \A s \in 0 .. top : DOMAIN hdir[s] = 0 .. segsize(s) - 1
    BY <1>3 DEF Shape
  <2> QED BY <2>1, <1>1
<1>5. \A s \in 0 .. top : hdir'[s] = [j \in 0 .. segsize(s) - 1 |-> hdir'[s][j]]
  BY <1>4
<1>6. \A s \in 0 .. top : \A j \in 0 .. segsize(s) - 1 :
         Lists(hashnum, hdir'[s][j], Slotted(hashnum, {}, top, Before(s) + j))
  <2>1. \A g : Slotted(hashnum, {}, top, g) = {}
    BY DEF Slotted
  <2>2. Lists(hashnum, <<>>, {})
    BY DEF Lists, Ordered
  <2> QED BY <1>4, <2>1, <2>2
<1>7. Table(hashnum, hdir', top, {})
  <2> DEFINE d == hdir'
  <2>1. DOMAIN d = 0 .. top /\ (\A s \in 0 .. top : d[s] = [j \in 0 .. segsize(s) - 1 |-> d[s][j]])
        /\ \A s \in 0 .. top : \A j \in 0 .. segsize(s) - 1 :
             Lists(hashnum, d[s][j], Slotted(hashnum, {}, top, Before(s) + j))
    BY <1>4, <1>5, <1>6
  <2>2. {} \in SUBSET Elem
    OBVIOUS
  <2> HIDE DEF d
  <2>3. Table(hashnum, d, top, {})
    BY <2>1, <2>2, <1>3, TableMade
  <2> QED BY <2>3 DEF d
<1> QED BY <1>1, <1>2, <1>3, <1>7 DEF Built

LEMMA CopyTable ==
  ASSUME NEW top, Built(top), Counted, Copy
  PROVE  Counted' /\ \E low : Built(low)'
<1>1. PICK k \in 0 .. Cardinality(DOMAIN hdir) - 1 :
        hdir' = Rounds[k] /\ mask' = Slots(Cardinality(DOMAIN hdir) - 1 - k) - 1
  BY DEF Copy
<1>2. /\ size' = size /\ alloc' = alloc /\ hashnum' = hashnum /\ live' = live
  BY DEF Copy
<1>3. Counted'
  BY <1>2 DEF Counted
<1>4. Cardinality(DOMAIN hdir) = top + 1 /\ top \in Nat
  <2>1. DOMAIN hdir = 0 .. top /\ top \in Nat
    BY TopNat DEF Built, Table, Shape
  <2>2. Cardinality(0 .. top) = top - 0 + 1
    BY <2>1, FS_Interval
  <2> QED BY <2>1, <2>2
<1>5. k \in 0 .. top /\ Cardinality(DOMAIN hdir) - 1 - k = top - k
  BY <1>4
<1>6. Table(hashnum, Rounds[k], top - k, live)
  BY <1>5, RoundsTable DEF Built
<1>7. Built(top - k)'
  BY <1>1, <1>2, <1>5, <1>6 DEF Built
<1> QED BY <1>3, <1>7

LEMMA InitTable == ASSUME Init PROVE TableInv
<1>1. PICK top \in 0 .. HSegs - 1 :
        /\ hdir = [s \in 0 .. top |-> [j \in 0 .. segsize(s) - 1 |-> <<>>]]
        /\ mask = Slots(top) - 1
  BY DEF Init
<1>2. size = 0 /\ alloc = 0 /\ live = {} /\ hashnum = [e \in Elem |-> 0]
  BY DEF Init
<1>3. Counted
  <2>1. MaxElem \in Nat
    BY ParameterAssumption
  <2> QED BY <2>1, <1>2, FS_EmptySet DEF Counted
<1>4. Table(hashnum, hdir, top, {})
  <2>1. DOMAIN hdir = 0 .. top /\ \A s \in 0 .. top : hdir[s] = [j \in 0 .. segsize(s) - 1 |-> <<>>]
    BY <1>1
  <2>2. \A s \in 0 .. top : hdir[s] = [j \in 0 .. segsize(s) - 1 |-> hdir[s][j]]
    BY <2>1
  <2>3. \A g : Slotted(hashnum, {}, top, g) = {}
    BY DEF Slotted
  <2>4. Lists(hashnum, <<>>, {})
    BY DEF Lists, Ordered
  <2>5. hashnum \in [Elem -> Nat]
    BY <1>3, HashNat
  <2>6. \A s \in 0 .. top : \A j \in 0 .. segsize(s) - 1 :
         Lists(hashnum, hdir[s][j], Slotted(hashnum, {}, top, Before(s) + j))
    BY <2>1, <2>3, <2>4
  <2>7. {} \in SUBSET Elem
    OBVIOUS
  <2> QED BY <2>1, <2>2, <2>5, <2>6, <2>7, TableMade
<1> QED BY <1>1, <1>2, <1>3, <1>4 DEF TableInv, Built

LEMMA GenTable ==
  ASSUME GenFirst \/ GenNext \/ UNCHANGED vars
  PROVE  /\ \A top : Built(top) => Built(top)'
         /\ Counted => Counted'
         /\ UNCHANGED <<hdir, mask, size, alloc, hashnum, live>>
<1>1. UNCHANGED <<hdir, mask, size, alloc, hashnum, live>>
  BY DEF GenFirst, GenNext, Took, vars, tableVars
<1> QED BY <1>1 DEF Built, Counted

LEMMA TableStep ==
  ASSUME TableInv, [Next]_vars
  PROVE  TableInv'
<1>1. PICK top : Built(top)
  BY DEF TableInv
<1>2. Counted
  BY DEF TableInv
<1>3. ASSUME NEW hn \in Hash, Insert(hn) PROVE TableInv'
  BY <1>1, <1>2, <1>3, InsertTable DEF TableInv
<1>4. ASSUME NEW e \in Elem, Delete(e) PROVE TableInv'
  BY <1>1, <1>2, <1>4, DeleteTable DEF TableInv
<1>5. CASE Clear
  BY <1>1, <1>2, <1>5, ClearTable DEF TableInv
<1>6. CASE Copy
  BY <1>1, <1>2, <1>6, CopyTable DEF TableInv
<1>7. CASE GenFirst \/ GenNext \/ UNCHANGED vars
  BY <1>1, <1>2, <1>7, GenTable DEF TableInv
<1> QED BY <1>3, <1>4, <1>5, <1>6, <1>7 DEF Next

LEMMA TableAlways == Spec => []TableInv
<1>1. Init => TableInv
  BY InitTable
<1>2. TableInv /\ [Next]_vars => TableInv'
  BY TableStep
<1> QED BY <1>1, <1>2, PTL DEF Spec

----------------------------------------------------------------------------
(* Lookup *)

\* The links of all chains, counted slot by slot, are those of the elements.
LEMMA LinksCounted ==
  ASSUME TableInv
  PROVE  Cardinality({x \in (0 .. mask) \X (1 .. MaxElem) :
                        x[2] \in DOMAIN Chain(hdir, x[1])}) = Cardinality(live)
<1> DEFINE X == {x \in (0 .. mask) \X (1 .. MaxElem) : x[2] \in DOMAIN Chain(hdir, x[1])}
           f == [x \in X |-> Chain(hdir, x[1])[x[2]]]
<1>1. PICK top : Built(top)
  BY DEF TableInv
<1>2. hashnum \in [Elem -> Nat] /\ live \subseteq Elem /\ IsFiniteSet(live) /\ MaxElem \in Nat
  BY HashNat, ElemNat DEF TableInv
<1>3. \A g \in 0 .. mask : Lists(hashnum, Chain(hdir, g), Slotted(hashnum, live, top, g))
  BY <1>1 DEF Built, Table
<1>4. ASSUME NEW g \in 0 .. mask
      PROVE  /\ DOMAIN Chain(hdir, g) \subseteq 1 .. MaxElem
             /\ \A i \in DOMAIN Chain(hdir, g) :
                  Chain(hdir, g)[i] \in live /\ (hashnum[Chain(hdir, g)[i]] % Slots(top)) = g
             /\ \A i, j \in DOMAIN Chain(hdir, g) : Chain(hdir, g)[i] = Chain(hdir, g)[j] => i = j
  <2> DEFINE c == Chain(hdir, g)
  <2>1. Lists(hashnum, c, Slotted(hashnum, live, top, g))
    BY <1>3
  <2> HIDE DEF c
  <2>2. c \in Seq(Elem) /\ Ordered(hashnum, c) /\ \A i \in DOMAIN c : c[i] \in Slotted(hashnum, live, top, g)
    BY <2>1 DEF Lists
  <2>3. /\ Len(c) \in Nat /\ DOMAIN c = 1 .. Len(c) /\ \A i \in DOMAIN c : c[i] \in Elem
        /\ \A i, j \in DOMAIN c : c[i] = c[j] => i = j
    BY <2>2, <1>2, ChainIndex
  <2>4. Len(c) <= MaxElem
    <3> DEFINE n == Len(c)
    <3>1. c \in [1 .. n -> 1 .. MaxElem]
      BY <2>2, <2>3 DEF Elem
    <3> HIDE DEF n
    <3>2. \A i, j \in 1 .. n : c[i] = c[j] => i = j
      BY <2>3 DEF n
    <3>3. n \in Nat
      BY <2>3 DEF n
    <3>4. n <= MaxElem
      BY <3>1, <3>2, <3>3, <1>2, DistinctBound
    <3> QED BY <3>4 DEF n
  <2>5. DOMAIN c \subseteq 1 .. MaxElem
    BY <2>3, <2>4, <1>2
  <2>6. \A i \in DOMAIN c : c[i] \in live /\ (hashnum[c[i]] % Slots(top)) = g
    BY <2>2 DEF Slotted
  <2> QED BY <2>3, <2>5, <2>6 DEF c
<1>5. \A x \in X : x[1] \in 0 .. mask /\ x[2] \in DOMAIN Chain(hdir, x[1]) /\ x = <<x[1], x[2]>>
  OBVIOUS
<1>6. \A g \in 0 .. mask, i \in 1 .. MaxElem :
        i \in DOMAIN Chain(hdir, g) => <<g, i>> \in X /\ f[<<g, i>>] = Chain(hdir, g)[i]
  OBVIOUS
<1>7. \A x \in X : f[x] = Chain(hdir, x[1])[x[2]]
  OBVIOUS
<1>8. f \in [X -> live]
  <2>1. \A x \in X : Chain(hdir, x[1])[x[2]] \in live
    BY <1>4, <1>5
  <2> HIDE DEF X
  <2> QED BY <2>1
<1> HIDE DEF X, f
<1>9. ASSUME NEW x \in X, NEW y \in X, f[x] = f[y] PROVE x = y
  <2>1. Chain(hdir, x[1])[x[2]] = Chain(hdir, y[1])[y[2]]
    BY <1>7, <1>9
  <2>2. x[1] = y[1]
    BY <2>1, <1>4, <1>5
  <2>3. x[2] = y[2]
    BY <2>1, <2>2, <1>4, <1>5
  <2> QED BY <2>2, <2>3, <1>5
<1>10. ASSUME NEW e \in live PROVE \E x \in X : f[x] = e
  <2> DEFINE g == hashnum[e] % Slots(top)
  <2>1. g \in 0 .. mask
    BY <1>1, <1>2, HomeChain
  <2>2. e \in Slotted(hashnum, live, top, g)
    BY DEF Slotted
  <2> HIDE DEF g
  <2>3. PICK i \in DOMAIN Chain(hdir, g) : Chain(hdir, g)[i] = e
    BY <2>1, <2>2, <1>3 DEF Lists
  <2>4. i \in 1 .. MaxElem
    BY <2>1, <1>4
  <2> QED BY <2>1, <2>3, <2>4, <1>6
<1> DEFINE k == [e \in live |-> CHOOSE x \in X : f[x] = e]
<1>11. \A e \in live : k[e] \in X /\ f[k[e]] = e
  BY <1>10
<1>12. k \in [live -> X]
  BY <1>11
<1> HIDE DEF k
<1>13. \A x \in X : f[x] \in live /\ k[f[x]] = x
  BY <1>8, <1>9, <1>11
<1>14. ExistsBijection(live, X)
  BY <1>11, <1>12, <1>13 DEF ExistsBijection, Bijection, Injection, Surjection, IsInjective
<1>15. Cardinality(X) = Cardinality(live)
  BY <1>14, <1>2, FS_Bijection
<1> QED BY <1>15 DEF X

LEMMA LookupFromTable == ASSUME TableInv PROVE LookupExact
<1>1. PICK top : Built(top)
  BY DEF TableInv
<1>2. \A e \in 1 .. alloc : e \in Elem
  BY HashNat DEF TableInv
<1>3. \A e \in 1 .. alloc : memb(e) <=> e \in live
  BY <1>1, <1>2, MembIs
<1>4. size = Cardinality(live)
  BY DEF TableInv, Counted
<1> QED BY <1>3, <1>4, LinksCounted DEF LookupExact

\* Lookup finds exactly the elements there are, after any splits and merges,
\* and size counts the links of all chains.
THEOREM LookupCorrect == Spec => []LookupExact
<1>1. TableInv => LookupExact
  BY LookupFromTable
<1> QED BY <1>1, TableAlways, PTL

----------------------------------------------------------------------------
(* What a generator has done *)

\* When slots were as many as m + 1, the generator came to hash number s:
\* the elements of lower slots, and of that slot up to s, are done.
DoneAt(hn, m, s) == And(hn, m) < And(s, m) \/ (And(hn, m) = And(s, m) /\ hn <= s)

Done(hn, k, sgm, sgh) == \E i \in 1 .. k : sgm[i] # 0 /\ DoneAt(hn, sgm[i], sgh[i])

\* What is noted of segment i is noted of every segment added with it.
Noted(sgm, sgh, i, j) ==
  /\ sgm[i] = Slots(j) - 1
  /\ \A q \in j + 1 .. i : sgm[q] = sgm[i] /\ sgh[q] = sgh[i]

\* The notes on segments 1 to k of a generator that stands at slot.
History(k, slot, sgm, sgh) ==
  /\ sgm \in [1 .. HSegs - 1 -> Nat] /\ sgh \in [1 .. HSegs - 1 -> Nat]
  /\ \A i, j \in 1 .. k : i <= j /\ sgm[i] # 0 => sgm[j] # 0
  /\ \A i \in 1 .. k : sgm[i] # 0 =>
       And(sgh[i], sgm[i]) <= slot /\ \E j \in 0 .. i - 1 : Noted(sgm, sgh, i, j)

\* The generator that stands at element ep of a slot came by element x.
Reached(h, k, slot, ep, x) ==
  \/ (h[x] % Slots(k)) < slot
  \/ ((h[x] % Slots(k)) = slot /\ (x = ep \/ Prec(h, x, ep)))

Passed(h, k, g, x) == Done(h[x], k, g.sgmask, g.sghash) \/ Reached(h, k, g.slot, g.ep, x)

LEMMA AndSlots ==
  ASSUME NEW j \in Nat, NEW n \in Nat
  PROVE  /\ And(n, Slots(j) - 1) = (n % Slots(j))
         /\ And(n, Slots(j) - 1) \in 0 .. Slots(j) - 1 /\ And(n, Slots(j) - 1) <= n
         /\ And(n, Slots(j) - 1) \in Int
<1> DEFINE d == Slots(j)
<1>1. d \in Nat \ {0, 1} /\ (d - 1) + 1 = d
  BY SlotsNat
<1>2. And(n, d - 1) = (n % d)
  <2> HIDE DEF d
  <2> QED BY <1>1 DEF And
<1>3. (n % d) \in 0 .. d - 1 /\ (n % d) <= n
  BY ModRange
<1>4. (n % d) \in Int
  <2> HIDE DEF d
  <2> QED BY <1>1, <1>3
<1> QED BY <1>2, <1>3, <1>4

LEMMA ModShift ==
  ASSUME NEW d \in Nat \ {0}, NEW p \in Nat, NEW y \in Nat
  PROVE  ((d * p + y) % d) = (y % d)
<1> DEFINE q == y \div d
           r == y % d
<1>1. y = d * q + r /\ q \in Nat /\ r \in 0 .. d - 1
  BY DivMod
<1> HIDE DEF q, r
<1>2. d * p + y = d * (p + q) + r /\ p + q \in Nat
  <2>1. d * (p + q) = d * p + d * q
    BY <1>1
  <2>2. d * p \in Nat /\ d * q \in Nat
    BY <1>1
  <2> QED BY <1>1, <2>1, <2>2
<1>3. ((d * (p + q) + r) % d) = r
  BY <1>1, <1>2, ModUnique
<1> QED BY <1>2, <1>3 DEF r

\* Of hash numbers of one slot, what is done of the greater is of the smaller.
LEMMA DoneBelow ==
  ASSUME NEW k \in 0 .. HSegs - 1, NEW slot, NEW sgm, NEW sgh, History(k, slot, sgm, sgh),
         NEW hn \in Nat, NEW hm \in Nat, (hn % Slots(k)) = (hm % Slots(k)), hn <= hm,
         Done(hm, k, sgm, sgh)
  PROVE  Done(hn, k, sgm, sgh)
<1>1. PICK i \in 1 .. k : sgm[i] # 0 /\ DoneAt(hm, sgm[i], sgh[i])
  BY DEF Done
<1>2. PICK j \in 0 .. i - 1 : sgm[i] = Slots(j) - 1
  BY <1>1 DEF History, Noted
<1>3. j \in Nat /\ k \in Nat /\ j <= k /\ sgh[i] \in Nat
  BY SlotsNat, <1>1 DEF History
<1>4. And(hn, sgm[i]) = And(hm, sgm[i])
  BY <1>2, <1>3, AndSlots, ModSlots
<1>5. /\ And(hn, sgm[i]) \in Int /\ And(sgh[i], sgm[i]) \in Int
  BY <1>2, <1>3, AndSlots
<1>6. DoneAt(hn, sgm[i], sgh[i])
  BY <1>1, <1>3, <1>4, <1>5 DEF DoneAt
<1> QED BY <1>1, <1>6 DEF Done

\* What the notes on the segments up to that of slot g say of its elements.
LEMMA NotesOfSlot ==
  ASSUME NEW top \in 0 .. HSegs - 1, NEW slot \in Int, NEW sgm, NEW sgh, History(top, slot, sgm, sgh),
         NEW g \in 0 .. Slots(top) - 1, slot < g, NEW hn \in Nat, (hn % Slots(top)) = g
  PROVE  LET s == SegOf(g)
             noted == {i \in 1 .. s : \A q \in i .. s : sgm[q] # 0}
             d(i) == And(SlotOf(g), sgm[i]) - And(sgh[i], sgm[i])
         IN  /\ Done(hn, top, sgm, sgh) <=> \E i \in noted : DoneAt(hn, sgm[i], sgh[i])
             /\ \A i \in noted : /\ d(i) \in Int /\ sgh[i] \in Nat
                                 /\ DoneAt(hn, sgm[i], sgh[i]) <=> d(i) < 0 \/ (d(i) = 0 /\ hn <= sgh[i])
<1> DEFINE s == SegOf(g)
           noted == {i \in 1 .. s : \A q \in i .. s : sgm[q] # 0}
           d(i) == And(SlotOf(g), sgm[i]) - And(sgh[i], sgm[i])
<1>1. /\ s \in 0 .. top /\ SlotOf(g) \in 0 .. segsize(s) - 1 /\ g = Before(s) + SlotOf(g)
      /\ Before(s) <= g /\ g < Slots(s)
  BY SegmentOf
<1>2. top \in Nat /\ HSegs \in Nat /\ g \in Nat /\ s \in Nat /\ s <= top
  BY <1>1, TopNat
<1> HIDE DEF s
<1>3. \A i \in 1 .. top : i \in 1 .. HSegs - 1 /\ sgm[i] \in Nat /\ sgh[i] \in Nat
  BY <1>2 DEF History
<1>4. \A i \in noted : i \in 1 .. s /\ i \in 1 .. top /\ sgm[i] # 0
  BY <1>1, <1>2
<1>5. \A i \in 1 .. s : sgm[i] # 0 => i \in noted
  BY <1>1, <1>2 DEF History
<1>6. ASSUME NEW i \in noted
      PROVE  /\ d(i) \in Int /\ sgh[i] \in Nat
             /\ DoneAt(hn, sgm[i], sgh[i]) <=> d(i) < 0 \/ (d(i) = 0 /\ hn <= sgh[i])
  <2>1. i \in 1 .. s /\ i \in 1 .. top /\ sgm[i] # 0
    BY <1>4
  <2>2. PICK j \in 0 .. i - 1 : sgm[i] = Slots(j) - 1
    BY <2>1 DEF History, Noted
  <2>3. j \in Nat /\ j <= top /\ s - 1 \in Nat /\ j <= s - 1 /\ s > 0 /\ sgh[i] \in Nat
    BY <2>1, <1>2, <1>3
  <2>4. Before(s) = Slots(s - 1) /\ SlotOf(g) \in Nat
    BY <2>3, <1>1, <1>2, SegmentSize
  <2>5. PICK p \in Nat \ {0} : Slots(s - 1) = Slots(j) * p
    BY <2>3, SlotsMultiple
  <2>6. (g % Slots(j)) = (SlotOf(g) % Slots(j))
    <3> DEFINE a == Slots(j)
               y == SlotOf(g)
    <3>1. a \in Nat \ {0} /\ g = a * p + y /\ y \in Nat
      BY <2>3, <2>4, <2>5, <1>1, SlotsNat
    <3> HIDE DEF a, y
    <3>2. ((a * p + y) % a) = (y % a)
      BY <3>1, ModShift
    <3>3. (g % a) = (y % a)
      BY <3>1, <3>2
    <3> QED BY <3>3 DEF a, y
  <2>7. (hn % Slots(j)) = (g % Slots(j))
    BY <2>3, <1>2, ModSlots
  <2>8. And(SlotOf(g), sgm[i]) = And(hn, sgm[i])
    BY <2>2, <2>3, <2>4, <2>6, <2>7, AndSlots
  <2>9. And(SlotOf(g), sgm[i]) \in Int /\ And(sgh[i], sgm[i]) \in Int
    BY <2>2, <2>3, <2>4, AndSlots
  <2> DEFINE u == And(SlotOf(g), sgm[i])
             v == And(sgh[i], sgm[i])
  <2>10. DoneAt(hn, sgm[i], sgh[i]) <=> u < v \/ (u = v /\ hn <= sgh[i])
    BY <2>8 DEF DoneAt
  <2> HIDE DEF u, v
  <2>11. d(i) = u - v
    BY DEF u, v
  <2>12. u \in Int /\ v \in Int
    BY <2>9 DEF u, v
  <2> HIDE DEF d
  <2> QED BY <2>3, <2>10, <2>11, <2>12
<1>7. ASSUME Done(hn, top, sgm, sgh) PROVE \E i \in noted : DoneAt(hn, sgm[i], sgh[i])
  <2>1. PICK i \in 1 .. top : sgm[i] # 0 /\ DoneAt(hn, sgm[i], sgh[i])
    BY <1>7 DEF Done
  <2>2. CASE i <= s
    <3>1. i \in 1 .. s
      BY <2>2, <1>2
    <3> QED BY <3>1, <2>1, <1>5
  <2>3. CASE i > s
    <3>1. PICK j \in 0 .. i - 1 : Noted(sgm, sgh, i, j)
      BY <2>1 DEF History
    <3>2. sgm[i] = Slots(j) - 1 /\ \A q \in j + 1 .. i : sgm[q] = sgm[i] /\ sgh[q] = sgh[i]
      BY <3>1 DEF Noted
    <3>3. CASE j < s
      <4>1. s \in j + 1 .. i /\ s \in 1 .. s
        BY <2>3, <3>3, <1>2
      <4>2. sgm[s] = sgm[i] /\ sgh[s] = sgh[i]
        BY <4>1, <3>2
      <4>3. s \in noted
        BY <4>1, <4>2, <2>1, <1>5
      <4> QED BY <4>2, <4>3, <2>1
    <3>4. CASE j >= s
      <4>1. j \in Nat /\ j <= top /\ sgh[i] \in Nat
        BY <1>2, <1>3
      <4>2. Slots(s) <= Slots(j) /\ Slots(s) \in Nat /\ Slots(j) \in Nat \ {0}
        BY <4>1, <3>4, <1>2, SlotsGrow, SlotsNat
      <4>3. (g % Slots(j)) = g
        <5> DEFINE a == Slots(j)
        <5>1. a \in Nat \ {0} /\ g \in 0 .. a - 1
          BY <4>2, <1>1, <1>2
        <5> HIDE DEF a
        <5>2. (g % a) = g
          BY <5>1, ModSmall
        <5> QED BY <5>2 DEF a
      <4>4. And(hn, sgm[i]) = g
        BY <3>2, <4>1, <4>3, <1>2, AndSlots, ModSlots
      <4>5. And(sgh[i], sgm[i]) <= slot
        BY <2>1 DEF History
      <4>6. And(sgh[i], sgm[i]) \in Int
        BY <3>2, <4>1, AndSlots
      <4>7. g <= And(sgh[i], sgm[i])
        BY <2>1, <4>4, <4>6, <1>2 DEF DoneAt
      <4> QED BY <4>5, <4>6, <4>7, <1>2
    <3> QED BY <3>3, <3>4, <1>2
  <2> QED BY <2>2, <2>3, <1>2
<1>8. ASSUME NEW i \in noted, DoneAt(hn, sgm[i], sgh[i]) PROVE Done(hn, top, sgm, sgh)
  BY <1>4, <1>8 DEF Done
<1> HIDE DEF noted, d
<1> QED BY <1>6, <1>7, <1>8 DEF noted, d, s

\* What hgnext takes from a slot ahead: its first element that is not done.
LEMMA EnterIs ==
  ASSUME NEW top, Built(top), NEW slot \in Int, NEW sgm, NEW sgh, History(top, slot, sgm, sgh),
         NEW g \in 0 .. mask, slot < g
  PROVE  LET e == Enter(g, sgm, sgh)
             S == {x \in Slotted(hashnum, live, top, g) : ~Done(hashnum[x], top, sgm, sgh)}
         IN  /\ S = {} => e = End
             /\ S # {} => e \in S /\ \A x \in S : x = e \/ Prec(hashnum, e, x)
<1> DEFINE s == SegOf(g)
           noted == {i \in 1 .. s : \A q \in i .. s : sgm[q] # 0}
           d(i) == And(SlotOf(g), sgm[i]) - And(sgh[i], sgm[i])
           chain == Chain(hdir, g)
           L == Slotted(hashnum, live, top, g)
           S == {x \in L : ~Done(hashnum[x], top, sgm, sgh)}
           I == {k \in DOMAIN chain : \A i \in noted : d(i) = 0 => hashnum[chain[k]] > sgh[i]}
           e == Enter(g, sgm, sgh)
<1>1. /\ top \in 0 .. HSegs - 1 /\ g \in 0 .. Slots(top) - 1 /\ hashnum \in [Elem -> Nat]
      /\ live \subseteq Elem
  BY DEF Built, Table, Shape
<1>2. Lists(hashnum, chain, L)
  BY <1>1 DEF Built, Table
<1>3. \A x \in L : x \in Elem /\ hashnum[x] \in Nat /\ (hashnum[x] % Slots(top)) = g
  BY <1>1 DEF Slotted
<1>4. ASSUME NEW x \in L
      PROVE  /\ Done(hashnum[x], top, sgm, sgh) <=> \E i \in noted : DoneAt(hashnum[x], sgm[i], sgh[i])
             /\ \A i \in noted : /\ d(i) \in Int /\ sgh[i] \in Nat
                                 /\ DoneAt(hashnum[x], sgm[i], sgh[i])
                                      <=> d(i) < 0 \/ (d(i) = 0 /\ hashnum[x] <= sgh[i])
  <2>1. hashnum[x] \in Nat /\ (hashnum[x] % Slots(top)) = g
    BY <1>3
  <2> HIDE DEF L
  <2> QED BY <1>1, <2>1, NotesOfSlot
<1>5. e = IF \E i \in noted : d(i) < 0 THEN End ELSE ElemAt(chain, First(I))
  BY DEF Enter
<1>6. /\ chain \in Seq(Elem) /\ Ordered(hashnum, chain) /\ DOMAIN chain \subseteq Nat \ {0}
      /\ \A k \in DOMAIN chain : chain[k] \in L
      /\ \A x \in L : \E k \in DOMAIN chain : chain[k] = x
  BY <1>2 DEF Lists
<1>7. \A k \in I : k \in DOMAIN chain /\ \A i \in noted : d(i) = 0 => hashnum[chain[k]] > sgh[i]
  OBVIOUS
<1>8. \A k \in DOMAIN chain : (\A i \in noted : d(i) = 0 => hashnum[chain[k]] > sgh[i]) => k \in I
  OBVIOUS
<1>9. \A x : x \in S <=> x \in L /\ ~Done(hashnum[x], top, sgm, sgh)
  OBVIOUS
<1>10. e = Enter(g, sgm, sgh)
  OBVIOUS
<1> HIDE DEF e, I, S, L, chain, d, noted
<1>11. CASE \E i \in noted : d(i) < 0
  <2>1. \A x \in L : Done(hashnum[x], top, sgm, sgh)
    BY <1>4, <1>11
  <2> QED BY <2>1, <1>5, <1>9, <1>11 DEF e, S, L
<1>12. CASE ~\E i \in noted : d(i) < 0
  <2>1. ASSUME NEW x \in L
        PROVE  x \in S <=> \A i \in noted : d(i) = 0 => hashnum[x] > sgh[i]
    <3>1. hashnum[x] \in Nat
      BY <1>3
    <3>2. \A i \in noted : ~DoneAt(hashnum[x], sgm[i], sgh[i]) <=> (d(i) = 0 => hashnum[x] > sgh[i])
      BY <1>4, <1>12, <3>1
    <3> QED BY <3>2, <1>4, <1>9
  <2>2. \A k \in DOMAIN chain : k \in I <=> chain[k] \in S
    BY <2>1, <1>6, <1>7, <1>8
  <2>3. I \in SUBSET (Nat \ {0})
    BY <1>6, <1>7
  <2>4. CASE S = {}
    <3>1. I = {}
      BY <2>2, <2>4, <1>7
    <3>2. e = End
      BY <3>1, <2>3, <1>5, <1>12, FirstIs DEF ElemAt
    <3> QED BY <3>2, <2>4 DEF e, S, L
  <2>5. CASE S # {}
    <3>1. PICK x \in S : TRUE
      BY <2>5
    <3>2. PICK k \in DOMAIN chain : chain[k] = x
      BY <3>1, <1>6, <1>9
    <3>3. I # {}
      BY <3>1, <3>2, <2>2
    <3>4. First(I) \in I /\ First(I) # 0 /\ \A j \in I : First(I) <= j
      BY <3>3, <2>3, FirstIs
    <3>5. e = chain[First(I)] /\ First(I) \in DOMAIN chain
      BY <3>4, <1>5, <1>7, <1>12 DEF ElemAt
    <3>6. e \in S
      BY <3>4, <3>5, <2>2
    <3>7. ASSUME NEW y \in S PROVE y = e \/ Prec(hashnum, e, y)
      <4>1. PICK j \in DOMAIN chain : chain[j] = y
        BY <1>6, <1>9
      <4>2. First(I) <= j
        BY <4>1, <3>4, <2>2
      <4>3. First(I) \in Nat /\ j \in Nat
        BY <1>6, <3>5
      <4>4. First(I) = j \/ First(I) < j
        BY <4>2, <4>3
      <4> QED BY <4>1, <4>4, <3>5, <1>6 DEF Ordered
    <3> QED BY <3>6, <3>7, <2>5 DEF e, S, L
  <2> QED BY <2>4, <2>5
<1> QED BY <1>11, <1>12

\* Where hgnext stops when it leaves a slot: at the first element that is not
\* done of all the slots after it.
LEMMA SearchIs ==
  ASSUME NEW top, Built(top), NEW slot \in Int, slot >= -1, NEW sgm, NEW sgh, History(top, slot, sgm, sgh)
  PROVE  LET to == Search(slot, sgm, sgh)
             S == {x \in live : (hashnum[x] % Slots(top)) > slot /\ ~Done(hashnum[x], top, sgm, sgh)}
         IN  /\ S = {} => to[2] = End
             /\ S # {} => /\ to[2] \in S /\ to[1] = (hashnum[to[2]] % Slots(top))
                          /\ \A x \in S : x = to[2] \/ ~Reached(hashnum, top, to[1], to[2], x)
<1> DEFINE res(x) == hashnum[x] % Slots(top)
           S == {x \in live : (hashnum[x] % Slots(top)) > slot /\ ~Done(hashnum[x], top, sgm, sgh)}
           hits == {h \in slot + 1 .. mask : Enter(h, sgm, sgh) # End}
           Of(g) == {x \in Slotted(hashnum, live, top, g) : ~Done(hashnum[x], top, sgm, sgh)}
           to == Search(slot, sgm, sgh)
<1>1. /\ top \in 0 .. HSegs - 1 /\ top \in Nat /\ hashnum \in [Elem -> Nat] /\ live \subseteq Elem
      /\ mask = Slots(top) - 1 /\ Slots(top) \in Nat \ {0, 1}
  BY TopNat DEF Built, Table, Shape
<1>2. \A x \in Elem : hashnum[x] \in Nat /\ res(x) \in 0 .. mask
  BY <1>1, ModRange
<1>3. ASSUME NEW g \in slot + 1 .. mask
      PROVE  /\ Of(g) = {} => Enter(g, sgm, sgh) = End
             /\ Of(g) # {} => /\ Enter(g, sgm, sgh) \in Of(g)
                              /\ \A x \in Of(g) : \/ x = Enter(g, sgm, sgh)
                                                  \/ Prec(hashnum, Enter(g, sgm, sgh), x)
  <2>1. g \in 0 .. mask /\ slot < g
    BY <1>1
  <2> QED BY <2>1, EnterIs
<1>4. \A g : \A x : x \in Of(g) <=> x \in live /\ res(x) = g /\ ~Done(hashnum[x], top, sgm, sgh)
  BY DEF Slotted
<1>5. \A x : x \in S <=> x \in live /\ res(x) > slot /\ ~Done(hashnum[x], top, sgm, sgh)
  OBVIOUS
<1>6. \A x \in S : res(x) \in slot + 1 .. mask /\ x \in Of(res(x))
  BY <1>1, <1>2, <1>4, <1>5
<1>7. \A g \in slot + 1 .. mask : Of(g) \subseteq S
  BY <1>1, <1>4, <1>5
<1>8. \A g : g \in hits <=> g \in slot + 1 .. mask /\ Enter(g, sgm, sgh) # End
  OBVIOUS
<1>9. End \notin live
  BY <1>1, ElemNat
<1> HIDE DEF Of
<1>10. \A g : g \in hits <=> g \in slot + 1 .. mask /\ Of(g) # {}
  BY <1>3, <1>4, <1>8, <1>9
<1>11. to = IF hits = {} THEN <<mask + 1, End>>
            ELSE LET h == CHOOSE x \in hits : \A y \in hits : x <= y
                 IN <<h, Enter(h, sgm, sgh)>>
  BY DEF Search
<1>12. to = Search(slot, sgm, sgh)
  OBVIOUS
<1> HIDE DEF S, hits, to
<1>13. CASE S = {}
  <2>1. hits = {}
    BY <1>7, <1>10, <1>13
  <2> QED BY <2>1, <1>11, <1>13 DEF to, S
<1>14. CASE S # {}
  <2>1. hits # {} /\ hits \subseteq Nat
    BY <1>1, <1>6, <1>8, <1>10, <1>14
  <2>2. PICK n \in hits : \A m \in hits : n <= m
    BY <2>1, LeastElement
  <2> DEFINE h == CHOOSE x \in hits : \A y \in hits : x <= y
             e == Enter(h, sgm, sgh)
  <2>3. h \in hits /\ \A y \in hits : h <= y
    BY <2>2
  <2>4. to[1] = h /\ to[2] = e
    BY <2>1, <1>11
  <2> HIDE DEF h
  <2>5. h \in slot + 1 .. mask /\ Of(h) # {}
    BY <2>3, <1>10
  <2>6. e \in Of(h) /\ \A x \in Of(h) : x = e \/ Prec(hashnum, e, x)
    BY <2>5, <1>3
  <2>7. e \in S /\ res(e) = h /\ e \in Elem
    BY <2>5, <2>6, <1>1, <1>4, <1>7
  <2>8. ASSUME NEW x \in S, x # e PROVE ~Reached(hashnum, top, h, e, x)
    <3>1. res(x) \in slot + 1 .. mask /\ x \in Of(res(x)) /\ x \in Elem
      BY <1>1, <1>5, <1>6
    <3>2. h <= res(x) /\ h \in Int /\ res(x) \in Int
      BY <3>1, <2>3, <2>5, <1>1, <1>10
    <3>3. res(x) = h => Prec(hashnum, e, x)
      BY <3>1, <2>6, <2>8
    <3>4. Prec(hashnum, e, x) => ~Prec(hashnum, x, e)
      BY <3>1, <2>7, <1>1, PrecOrder
    <3> HIDE DEF e
    <3> QED BY <3>2, <3>3, <3>4, <2>8 DEF Reached
  <2> HIDE DEF e
  <2>9. /\ to[2] \in S /\ to[1] = (hashnum[to[2]] % Slots(top))
        /\ \A x \in S : x = to[2] \/ ~Reached(hashnum, top, to[1], to[2], x)
    BY <2>4, <2>7, <2>8
  <2> QED BY <2>9, <1>14 DEF to, S
<1> QED BY <1>13, <1>14

----------------------------------------------------------------------------
(* Where a generator stands *)

\* R are deleted elements whose links lead a generator at ep back to the
\* elements there are, and past none that are stable.
Linked(h, al, lv, cl, st, ep, top, k, R) ==
  /\ R \subseteq (1 .. al) \ lv /\ ep \in R \cup lv
  /\ \A e \in R :
       /\ cl[e] # End => /\ cl[e] \in R \cup lv /\ Prec(h, e, cl[e])
                         /\ (h[cl[e]] % Slots(k)) = (h[e] % Slots(k))
       /\ \A x \in st : (h[x] % Slots(top)) = (h[e] % Slots(top)) /\ Prec(h, e, x) =>
                          cl[e] # End /\ (x = cl[e] \/ Prec(h, cl[e], x))

Placed(h, k, g) ==
  /\ g.tmask = Slots(k) - 1 /\ g.slot = (h[g.ep] % Slots(k))
  /\ ~Done(h[g.ep], k, g.sgmask, g.sghash) /\ History(k, g.slot, g.sgmask, g.sghash)

\* The generator came by the elements it generated, and generated the stable
\* elements it came by.
Standing(top, k, R) ==
  /\ k \in 0 .. top /\ Placed(hashnum, k, gen)
  /\ Linked(hashnum, alloc, live, clink, stable, gen.ep, top, k, R)
  /\ \A y \in yielded : Passed(hashnum, k, gen, y)
  /\ \A x \in stable : Passed(hashnum, k, gen, x) => x \in yielded

GenTypes ==
  /\ stable \subseteq live /\ yielded \subseteq 1 .. alloc
  /\ clink \in [Elem -> Elem \cup {End}] /\ on \in BOOLEAN

GenInv ==
  /\ GenTypes
  /\ ~on => gen = NoGen /\ yielded = {} /\ stable = {}
  /\ on => \E top, k, R : Built(top) /\ Standing(top, k, R)

\* The element after one that is in the structure is the next of its slot.
LEMMA ChainSuccessor ==
  ASSUME NEW top, Built(top), NEW e \in live
  PROVE  LET s == Successor(e) IN
         /\ s # End => /\ s \in live /\ Prec(hashnum, e, s)
                       /\ (hashnum[s] % Slots(top)) = (hashnum[e] % Slots(top))
         /\ \A x \in live : (hashnum[x] % Slots(top)) = (hashnum[e] % Slots(top)) /\ Prec(hashnum, e, x) =>
              s # End /\ (x = s \/ Prec(hashnum, s, x))
<1> DEFINE s == Successor(e)
           g == hashnum[e] % Slots(top)
           L == Slotted(hashnum, live, top, g)
           chain == hchain(hashnum[e])
           I == {k \in DOMAIN chain : chain[k] = e}
           i == First(I)
<1>1. hashnum \in [Elem -> Nat] /\ live \subseteq Elem /\ e \in Elem /\ hashnum[e] \in Nat
  BY DEF Built, Table
<1>2. Lists(hashnum, chain, L)
  BY <1>1, HomeChain
<1>3. \A x : x \in L <=> x \in live /\ (hashnum[x] % Slots(top)) = g
  BY DEF Slotted
<1>4. s = IF i < Len(chain) THEN chain[i + 1] ELSE End
  BY DEF Successor
<1>5. \A k : k \in I <=> k \in DOMAIN chain /\ chain[k] = e
  OBVIOUS
<1> HIDE DEF L, chain, I, s
<1>6. chain \in Seq(Elem) /\ Ordered(hashnum, chain) /\ \A k \in DOMAIN chain : chain[k] \in L
  BY <1>2 DEF Lists
<1>7. \A x \in L : \E k \in DOMAIN chain : chain[k] = x
  BY <1>2 DEF Lists
<1>8. /\ Len(chain) \in Nat /\ DOMAIN chain = 1 .. Len(chain)
      /\ \A j, k \in DOMAIN chain : (j < k <=> Prec(hashnum, chain[j], chain[k]))
                                    /\ (chain[j] = chain[k] => j = k)
  BY <1>1, <1>6, ChainIndex
<1>9. I \in SUBSET (Nat \ {0}) /\ I # {}
  BY <1>3, <1>5, <1>7, <1>8
<1>10. i \in DOMAIN chain /\ chain[i] = e
  BY <1>5, <1>9, FirstIs
<1> HIDE DEF i
<1>11. ASSUME s # End
       PROVE  s \in live /\ Prec(hashnum, e, s) /\ (hashnum[s] % Slots(top)) = g
  <2>1. i + 1 \in DOMAIN chain /\ s = chain[i + 1] /\ i < i + 1
    BY <1>4, <1>8, <1>10, <1>11
  <2> QED BY <2>1, <1>3, <1>6, <1>8, <1>10
<1>12. ASSUME NEW x \in live, (hashnum[x] % Slots(top)) = g, Prec(hashnum, e, x)
       PROVE  s # End /\ (x = s \/ Prec(hashnum, s, x))
  <2>1. PICK k \in DOMAIN chain : chain[k] = x
    BY <1>3, <1>7, <1>12
  <2>2. i < k
    BY <2>1, <1>8, <1>10, <1>12
  <2>3. i + 1 \in DOMAIN chain /\ s = chain[i + 1] /\ (k = i + 1 \/ i + 1 < k)
    BY <2>1, <2>2, <1>4, <1>8, <1>10
  <2>4. s \in live
    BY <2>3, <1>3, <1>6
  <2>5. s # End
    BY <2>4, <1>1, ElemNat
  <2> QED BY <2>1, <2>3, <2>5, <1>8
<1> QED BY <1>11, <1>12 DEF s

\* The element after the generator's passes no stable one of its slot.
LEMMA SuccessorIs ==
  ASSUME NEW top, Built(top), Counted, stable \subseteq live, NEW k \in 0 .. top, NEW R, NEW ep,
         Linked(hashnum, alloc, live, clink, stable, ep, top, k, R)
  PROVE  LET s == Successor(ep) IN
         /\ ep \in Elem
         /\ s # End => /\ s \in R \cup live /\ s \in Elem /\ Prec(hashnum, ep, s)
                       /\ (hashnum[s] % Slots(k)) = (hashnum[ep] % Slots(k))
         /\ \A x \in stable : (hashnum[x] % Slots(top)) = (hashnum[ep] % Slots(top)) /\ Prec(hashnum, ep, x) =>
              s # End /\ (x = s \/ Prec(hashnum, s, x))
<1> DEFINE s == Successor(ep)
<1>1. R \cup live \subseteq Elem /\ ep \in R \cup live
  BY HashNat DEF Linked
<1>2. CASE ep \in live
  <2>1. /\ s # End => /\ s \in live /\ Prec(hashnum, ep, s)
                      /\ (hashnum[s] % Slots(top)) = (hashnum[ep] % Slots(top))
        /\ \A x \in live : (hashnum[x] % Slots(top)) = (hashnum[ep] % Slots(top)) /\ Prec(hashnum, ep, x) =>
              s # End /\ (x = s \/ Prec(hashnum, s, x))
    BY <1>2, ChainSuccessor
  <2> HIDE DEF s
  <2>2. ASSUME s # End PROVE (hashnum[s] % Slots(k)) = (hashnum[ep] % Slots(k))
    <3>1. (hashnum[s] % Slots(top)) = (hashnum[ep] % Slots(top)) /\ s \in Elem /\ ep \in Elem
      BY <2>1, <2>2, <1>1
    <3>2. hashnum[s] \in Nat /\ hashnum[ep] \in Nat /\ k \in Nat /\ top \in Nat /\ k <= top
      BY <3>1, HashNat, TopNat DEF Built, Table, Shape
    <3> QED BY <3>1, <3>2, ModSlots
  <2> QED BY <2>1, <2>2, <1>1 DEF s
<1>3. CASE ep \notin live
  <2>1. s = clink[ep] /\ ep \in R
    BY <1>1, <1>3 DEF Successor
  <2> HIDE DEF s
  <2>2. /\ s # End => /\ s \in R \cup live /\ Prec(hashnum, ep, s)
                      /\ (hashnum[s] % Slots(k)) = (hashnum[ep] % Slots(k))
        /\ \A x \in stable : (hashnum[x] % Slots(top)) = (hashnum[ep] % Slots(top)) /\ Prec(hashnum, ep, x) =>
              s # End /\ (x = s \/ Prec(hashnum, s, x))
    BY <2>1 DEF Linked
  <2> QED BY <2>2, <1>1 DEF s
<1> QED BY <1>2, <1>3

\* What hgnext notes of a split: on every new segment, where it then was.
SplitNotes(sgm2, sgh2, tmask, hn, sgm, sgh) ==
  /\ sgm2 = [i \in 1 .. HSegs - 1 |-> IF Slots(i - 1) > tmask THEN tmask ELSE sgm[i]]
  /\ sgh2 = [i \in 1 .. HSegs - 1 |-> IF Slots(i - 1) > tmask THEN hn ELSE sgh[i]]

\* What the notes say after a split was seen: what is done is what was, and
\* the generator's slot up to its hash number, and the slots before it.
LEMMA SplitHistory ==
  ASSUME NEW top \in 0 .. HSegs - 1, NEW k \in 0 .. top, NEW slot, NEW sgm, NEW sgh, History(k, slot, sgm, sgh),
         NEW hn \in Nat, slot = (hn % Slots(k)), NEW tmask, tmask = Slots(k) - 1,
         NEW sgm2, NEW sgh2, SplitNotes(sgm2, sgh2, tmask, hn, sgm, sgh)
  PROVE  /\ History(top, slot, sgm2, sgh2)
         /\ k # top => \A n : Done(n, top, sgm2, sgh2) <=> Done(n, k, sgm, sgh) \/ DoneAt(n, tmask, hn)
<1>1. /\ top \in Nat /\ k \in Nat /\ k <= top /\ HSegs \in Nat /\ Slots(k) \in Nat \ {0, 1}
      /\ tmask \in Nat \ {0} /\ top <= HSegs - 1
  <2>1. top \in Nat /\ HSegs \in Nat /\ k \in Nat /\ k <= top /\ top <= HSegs - 1
    BY TopNat
  <2>2. Slots(k) \in Nat \ {0, 1}
    BY <2>1, SlotsNat
  <2>3. tmask \in Nat \ {0}
    <3> DEFINE d == Slots(k)
    <3>1. d \in Nat \ {0, 1} /\ tmask = d - 1
      BY <2>2
    <3> HIDE DEF d
    <3> QED BY <3>1
  <2> QED BY <2>1, <2>2, <2>3
<1>2. ASSUME NEW i \in 1 .. HSegs - 1
      PROVE  sgm2[i] = (IF i > k THEN tmask ELSE sgm[i]) /\ sgh2[i] = (IF i > k THEN hn ELSE sgh[i])
  <2> DEFINE p == i - 1
  <2>0. p \in Nat
    BY <1>1
  <2> HIDE DEF p
  <2>1. p \in Nat /\ Slots(p) \in Nat
    BY <2>0, SlotsNat
  <2> USE DEF p
  <2>2. Slots(k) <= Slots(i - 1) <=> k <= i - 1
    BY <2>1, <1>1, SlotsGrow
  <2>3. Slots(i - 1) > tmask <=> i > k
    BY <2>1, <2>2, <1>1
  <2> QED BY <2>3 DEF SplitNotes
<1>3. sgm \in [1 .. HSegs - 1 -> Nat] /\ sgh \in [1 .. HSegs - 1 -> Nat]
  BY DEF History
<1>4. sgm2 \in [1 .. HSegs - 1 -> Nat] /\ sgh2 \in [1 .. HSegs - 1 -> Nat]
  BY <1>1, <1>3 DEF SplitNotes
<1>5. \A i \in 1 .. top : i \in 1 .. HSegs - 1 /\ (i <= k => i \in 1 .. k)
  BY <1>1
<1> HIDE DEF History
<1>6. ASSUME NEW i \in 1 .. top, NEW j \in 1 .. top, i <= j, sgm2[i] # 0 PROVE sgm2[j] # 0
  <2>1. CASE j > k
    BY <2>1, <1>1, <1>2, <1>5
  <2>2. CASE j <= k
    <3>1. i \in 1 .. k /\ j \in 1 .. k
      BY <2>2, <1>1, <1>6
    <3>2. sgm[i] # 0
      BY <3>1, <1>1, <1>2, <1>5, <1>6
    <3>3. sgm[j] # 0
      BY <3>1, <3>2, <1>6 DEF History
    <3> QED BY <3>1, <3>3, <1>1, <1>2, <1>5
  <2> QED BY <2>1, <2>2, <1>1
<1>7. ASSUME NEW i \in 1 .. top, sgm2[i] # 0
      PROVE  And(sgh2[i], sgm2[i]) <= slot /\ \E j \in 0 .. i - 1 : Noted(sgm2, sgh2, i, j)
  <2>1. CASE i > k
    <3>1. sgm2[i] = tmask /\ sgh2[i] = hn
      BY <2>1, <1>2, <1>5
    <3>2. And(sgh2[i], sgm2[i]) = slot
      BY <3>1, <1>1, AndSlots
    <3>3. slot \in Int
      BY <1>1, ModRange
    <3>4. \A q \in k + 1 .. i : sgm2[q] = tmask /\ sgh2[q] = hn
      BY <1>1, <1>2, <1>5
    <3>5. k \in 0 .. i - 1
      BY <2>1, <1>1
    <3>6. Noted(sgm2, sgh2, i, k)
      BY <3>1, <3>4 DEF Noted
    <3>7. And(sgh2[i], sgm2[i]) <= slot
      BY <3>2, <3>3
    <3> QED BY <3>5, <3>6, <3>7
  <2>2. CASE i <= k
    <3>1. \A q \in 1 .. i : sgm2[q] = sgm[q] /\ sgh2[q] = sgh[q]
      BY <2>2, <1>1, <1>2, <1>5
    <3>2. i \in 1 .. i /\ i \in 1 .. k
      BY <2>2
    <3>3. And(sgh2[i], sgm2[i]) <= slot
      BY <3>1, <3>2, <1>7 DEF History
    <3>4. PICK j \in 0 .. i - 1 : Noted(sgm, sgh, i, j)
      BY <3>1, <3>2, <1>7 DEF History
    <3>5. \A q \in j + 1 .. i : q \in 1 .. i
      OBVIOUS
    <3>6. Noted(sgm2, sgh2, i, j)
      BY <3>1, <3>2, <3>4, <3>5 DEF Noted
    <3> QED BY <3>3, <3>6
  <2>3. i > k \/ i <= k
    BY <1>1
  <2> QED BY <2>1, <2>2, <2>3
<1>8. History(top, slot, sgm2, sgh2)
  BY <1>4, <1>6, <1>7 DEF History
<1>9. ASSUME k # top, NEW n
      PROVE  Done(n, top, sgm2, sgh2) <=> Done(n, k, sgm, sgh) \/ DoneAt(n, tmask, hn)
  <2>1. ASSUME Done(n, top, sgm2, sgh2) PROVE Done(n, k, sgm, sgh) \/ DoneAt(n, tmask, hn)
    <3>1. PICK i \in 1 .. top : sgm2[i] # 0 /\ DoneAt(n, sgm2[i], sgh2[i])
      BY <2>1 DEF Done
    <3>2. CASE i > k
      BY <3>1, <3>2, <1>2, <1>5
    <3>3. CASE i <= k
      <4>1. sgm[i] # 0 /\ DoneAt(n, sgm[i], sgh[i]) /\ i \in 1 .. k
        BY <3>1, <3>3, <1>1, <1>2, <1>5
      <4> QED BY <4>1 DEF Done
    <3> QED BY <3>2, <3>3, <1>1
  <2>2. ASSUME Done(n, k, sgm, sgh) PROVE Done(n, top, sgm2, sgh2)
    <3>1. PICK i \in 1 .. k : sgm[i] # 0 /\ DoneAt(n, sgm[i], sgh[i])
      BY <2>2 DEF Done
    <3>2. i \in 1 .. top /\ ~(i > k)
      BY <1>1
    <3>3. sgm2[i] # 0 /\ DoneAt(n, sgm2[i], sgh2[i])
      BY <3>1, <3>2, <1>2, <1>5
    <3> QED BY <3>2, <3>3 DEF Done
  <2>3. ASSUME DoneAt(n, tmask, hn) PROVE Done(n, top, sgm2, sgh2)
    <3>1. k + 1 \in 1 .. top /\ k + 1 > k
      BY <1>1, <1>9
    <3>2. sgm2[k + 1] = tmask /\ sgh2[k + 1] = hn
      BY <3>1, <1>2, <1>5
    <3> QED BY <3>1, <3>2, <2>3, <1>1 DEF Done
  <2> QED BY <2>1, <2>2, <2>3
<1> QED BY <1>8, <1>9

----------------------------------------------------------------------------
(* The steps of a generator *)

\* From where the generator is, at level k, it goes on to g, at level j: to
\* an element it did not come by, past no stable one.
Advances(k, j, g) ==
  /\ g.ep = End => \A x \in stable : Passed(hashnum, k, gen, x)
  /\ g.ep # End => /\ g.ep \in Elem /\ Placed(hashnum, j, g)
                   /\ ~Passed(hashnum, k, gen, g.ep)
                   /\ \A y \in Elem : Passed(hashnum, k, gen, y) => Passed(hashnum, j, g, y)
                   /\ \A x \in stable : Passed(hashnum, j, g, x) =>
                        Passed(hashnum, k, gen, x) \/ x = g.ep

\* The notes sgm and sgh account for the generator having left its slot.
Leaves(top, k, sgm, sgh) ==
  /\ History(top, gen.slot, sgm, sgh)
  /\ \A y \in Elem : Passed(hashnum, k, gen, y) =>
       Done(hashnum[y], top, sgm, sgh) \/ (hashnum[y] % Slots(top)) <= gen.slot
  /\ \A x \in stable :
       Done(hashnum[x], top, sgm, sgh) \/ (hashnum[x] % Slots(top)) <= gen.slot =>
         Passed(hashnum, k, gen, x)

LEMMA StandingIs ==
  ASSUME NEW top, Built(top), Counted, NEW k, NEW R, Standing(top, k, R)
  PROVE  /\ top \in 0 .. HSegs - 1 /\ top \in Nat /\ k \in Nat /\ k <= top
         /\ Slots(k) \in Nat \ {0, 1} /\ Slots(top) \in Nat \ {0, 1} /\ Slots(k) <= Slots(top)
         /\ mask = Slots(top) - 1 /\ gen.tmask = Slots(k) - 1 /\ (k = top <=> mask = gen.tmask)
         /\ gen.ep \in Elem /\ hashnum \in [Elem -> Nat] /\ hashnum[gen.ep] \in Nat
         /\ gen.slot \in 0 .. Slots(k) - 1 /\ gen.slot \in 0 .. mask /\ gen.slot \in Nat
         /\ \A x \in Elem : /\ hashnum[x] \in Nat
                            /\ (hashnum[x] % Slots(k)) \in Nat /\ (hashnum[x] % Slots(top)) \in 0 .. mask
                            /\ (hashnum[x] % Slots(top)) < Slots(k) =>
                                 (hashnum[x] % Slots(k)) = (hashnum[x] % Slots(top))
<1>1. /\ top \in 0 .. HSegs - 1 /\ top \in Nat /\ k \in Nat /\ k <= top
      /\ mask = Slots(top) - 1 /\ gen.tmask = Slots(k) - 1 /\ hashnum \in [Elem -> Nat]
  BY TopNat DEF Built, Table, Shape, Standing, Placed
<1> DEFINE a == Slots(k)
           b == Slots(top)
<1>2. a \in Nat \ {0, 1} /\ b \in Nat \ {0, 1} /\ a <= b
  BY <1>1, SlotsNat, SlotsGrow
<1>3. b <= a <=> top <= k
  BY <1>1, SlotsGrow
<1>4. gen.ep \in Elem
  BY HashNat DEF Standing, Linked
<1>5. \A x \in Elem : /\ hashnum[x] \in Nat /\ (hashnum[x] % a) \in 0 .. a - 1
                      /\ (hashnum[x] % b) \in 0 .. b - 1 /\ ((hashnum[x] % b) % a) = (hashnum[x] % a)
  BY <1>1, ModRange, ModSlots
<1>6. gen.slot = (hashnum[gen.ep] % a)
  BY DEF Standing, Placed
<1>7. mask = b - 1 /\ gen.tmask = a - 1
  BY <1>1
<1> HIDE DEF a, b
<1>8. k = top <=> mask = gen.tmask
  <2>1. k = top => a = b
    BY DEF a, b
  <2>2. a = b => k = top
    BY <1>1, <1>2, <1>3
  <2> QED BY <2>1, <2>2, <1>2, <1>7
<1>9. ASSUME NEW x \in Elem, (hashnum[x] % b) < a PROVE (hashnum[x] % a) = (hashnum[x] % b)
  <2> DEFINE n == hashnum[x] % b
  <2>1. n \in 0 .. a - 1 /\ (n % a) = (hashnum[x] % a)
    BY <1>2, <1>5, <1>9
  <2> HIDE DEF n
  <2>2. (n % a) = n
    BY <2>1, <1>2, ModSmall
  <2> QED BY <2>1, <2>2 DEF n
<1>10. gen.slot \in 0 .. a - 1 /\ gen.slot \in 0 .. mask /\ gen.slot \in Nat
  BY <1>2, <1>4, <1>5, <1>6, <1>7
<1>11. \A x \in Elem : (hashnum[x] % a) \in Nat /\ (hashnum[x] % b) \in 0 .. mask
  BY <1>2, <1>5, <1>7
<1> QED BY <1>1, <1>2, <1>4, <1>5, <1>8, <1>9, <1>10, <1>11 DEF a, b

\* The search for the next slot, when there is no more in this one.
LEMMA SearchAdvances ==
  ASSUME NEW top, Built(top), Counted, stable \subseteq live, NEW k, gen.slot \in Nat,
         NEW sgm, NEW sgh, Leaves(top, k, sgm, sgh), NEW g,
         g.slot = Search(gen.slot, sgm, sgh)[1], g.ep = Search(gen.slot, sgm, sgh)[2],
         g.sgmask = sgm, g.sghash = sgh, g.tmask = Slots(top) - 1
  PROVE  Advances(k, top, g) /\ (g.ep # End => g.ep \in live)
<1> DEFINE res(x) == hashnum[x] % Slots(top)
           done(x) == Done(hashnum[x], top, sgm, sgh)
           S == {x \in live : (hashnum[x] % Slots(top)) > gen.slot /\ ~Done(hashnum[x], top, sgm, sgh)}
           was(x) == Passed(hashnum, k, gen, x)
<1>1. /\ top \in Nat /\ hashnum \in [Elem -> Nat] /\ live \subseteq Elem
      /\ \A x \in Elem : hashnum[x] \in Nat
  BY TopNat DEF Built, Table, Shape
<1>2. \A x \in Elem : res(x) \in Nat
  BY <1>1, ModRange, SlotsNat
<1>3. History(top, gen.slot, sgm, sgh)
  BY DEF Leaves
<1>4. /\ S = {} => g.ep = End
      /\ S # {} => /\ g.ep \in S /\ g.slot = res(g.ep)
                   /\ \A x \in S : x = g.ep \/ ~Reached(hashnum, top, g.slot, g.ep, x)
  <2>1. gen.slot >= -1 /\ gen.slot \in Int
    OBVIOUS
  <2> QED BY <2>1, <1>3, SearchIs
<1>5. \A x : x \in S <=> x \in live /\ res(x) > gen.slot /\ ~done(x)
  OBVIOUS
<1>6. /\ \A y \in Elem : was(y) => done(y) \/ res(y) <= gen.slot
      /\ \A x \in stable : done(x) \/ res(x) <= gen.slot => was(x)
  BY DEF Leaves
<1>7. \A x \in Elem : res(x) <= gen.slot \/ res(x) > gen.slot
  BY <1>2
<1>8. \A x : Passed(hashnum, top, g, x) <=> done(x) \/ Reached(hashnum, top, g.slot, g.ep, x)
  BY DEF Passed
<1>9. End \notin live
  BY <1>1, ElemNat
<1> HIDE DEF S, was
<1>10. CASE S = {}
  <2>1. \A x \in stable : was(x)
    BY <1>10, <1>1, <1>5, <1>6, <1>7
  <2> QED BY <2>1, <1>4, <1>10 DEF Advances, was
<1>11. CASE S # {}
  <2>1. /\ g.ep \in live /\ res(g.ep) > gen.slot /\ ~done(g.ep) /\ g.slot = res(g.ep) /\ g.ep \in Elem
        /\ g.slot \in Nat /\ g.slot > gen.slot
    BY <1>11, <1>1, <1>2, <1>4, <1>5
  <2>2. ~was(g.ep)
    BY <2>1, <1>6
  <2>3. Placed(hashnum, top, g)
    <3>1. \A i \in 1 .. top : sgm[i] # 0 => And(sgh[i], sgm[i]) \in Int
      <4>1. ASSUME NEW i \in 1 .. top, sgm[i] # 0 PROVE And(sgh[i], sgm[i]) \in Int
        <5>1. PICK j \in 0 .. i - 1 : sgm[i] = Slots(j) - 1
          BY <1>3, <4>1 DEF History, Noted
        <5>2. j \in Nat /\ i \in 1 .. HSegs - 1
          BY <1>1, TopNat DEF Built, Table, Shape
        <5>3. sgh[i] \in Nat
          BY <5>2, <1>3 DEF History
        <5> QED BY <5>1, <5>2, <5>3, AndSlots
      <4> QED BY <4>1
    <3>2. \A i \in 1 .. top : sgm[i] # 0 => And(sgh[i], sgm[i]) <= g.slot
      <4>1. \A i \in 1 .. top : sgm[i] # 0 => And(sgh[i], sgm[i]) <= gen.slot
        BY <1>3 DEF History
      <4> QED BY <3>1, <4>1, <2>1
    <3>3. History(top, g.slot, sgm, sgh)
      BY <3>2, <1>3 DEF History
    <3> HIDE DEF History
    <3> QED BY <3>3, <2>1 DEF Placed
  <2>4. ASSUME NEW y \in Elem, was(y) PROVE Passed(hashnum, top, g, y)
    <3>1. done(y) \/ res(y) < g.slot
      BY <2>1, <2>4, <1>2, <1>6
    <3> QED BY <3>1, <1>8 DEF Reached
  <2>5. ASSUME NEW x \in stable, Passed(hashnum, top, g, x) PROVE was(x) \/ x = g.ep
    <3>1. x \in live /\ x \in Elem
      BY <1>1
    <3>2. CASE done(x) \/ res(x) <= gen.slot
      BY <3>2, <1>6
    <3>3. CASE ~done(x) /\ res(x) > gen.slot
      <4>1. x \in S /\ Reached(hashnum, top, g.slot, g.ep, x)
        BY <3>1, <3>3, <2>5, <1>5, <1>8
      <4> QED BY <4>1, <1>4, <1>11
    <3> QED BY <3>1, <3>2, <3>3, <1>7
  <2> QED BY <2>1, <2>2, <2>3, <2>4, <2>5, <1>9 DEF Advances, was
<1> QED BY <1>10, <1>11

\* hgnext without a split to note, and with one.
LEMMA HgNextIs ==
  LET g == HgNext
      s == Successor(gen.ep)
      stop(x, sgm, sgh) == IF x = End THEN Search(gen.slot, sgm, sgh) ELSE <<gen.slot, x>>
      hn == hashnum[gen.ep]
      chain == Chain(hdir, gen.slot)
      sgm == [i \in 1 .. HSegs - 1 |-> IF Slots(i - 1) > gen.tmask THEN gen.tmask ELSE gen.sgmask[i]]
      sgh == [i \in 1 .. HSegs - 1 |-> IF Slots(i - 1) > gen.tmask THEN hn ELSE gen.sghash[i]]
      x == ElemAt(chain, FirstAbove(chain, hn))
  IN  /\ ~SplitSeen => /\ g.sgmask = gen.sgmask /\ g.sghash = gen.sghash /\ g.tmask = gen.tmask
                       /\ g.slot = stop(s, gen.sgmask, gen.sghash)[1]
                       /\ g.ep = stop(s, gen.sgmask, gen.sghash)[2]
      /\ SplitSeen => /\ g.sgmask = sgm /\ g.sghash = sgh /\ g.tmask = mask
                      /\ g.slot = stop(x, sgm, sgh)[1] /\ g.ep = stop(x, sgm, sgh)[2]
<1> DEFINE s == Successor(gen.ep)
           stop(x, sgm, sgh) == IF x = End THEN Search(gen.slot, sgm, sgh) ELSE <<gen.slot, x>>
           hn == hashnum[gen.ep]
           chain == Chain(hdir, gen.slot)
           sgm == [i \in 1 .. HSegs - 1 |-> IF Slots(i - 1) > gen.tmask THEN gen.tmask ELSE gen.sgmask[i]]
           sgh == [i \in 1 .. HSegs - 1 |-> IF Slots(i - 1) > gen.tmask THEN hn ELSE gen.sghash[i]]
           x == ElemAt(chain, FirstAbove(chain, hn))
           g == HgNext
<1>1. ~SplitSeen => g = [slot |-> stop(s, gen.sgmask, gen.sghash)[1],
                         ep |-> stop(s, gen.sgmask, gen.sghash)[2],
                         sgmask |-> gen.sgmask, sghash |-> gen.sghash, tmask |-> gen.tmask]
  BY DEF HgNext
<1>2. SplitSeen => g = [slot |-> stop(x, sgm, sgh)[1], ep |-> stop(x, sgm, sgh)[2],
                        sgmask |-> sgm, sghash |-> sgh, tmask |-> mask]
  BY DEF HgNext
<1> HIDE DEF g, s, stop, sgm, sgh, x
<1>3. ~SplitSeen => /\ g.sgmask = gen.sgmask /\ g.sghash = gen.sghash /\ g.tmask = gen.tmask
                    /\ g.slot = stop(s, gen.sgmask, gen.sghash)[1]
                    /\ g.ep = stop(s, gen.sgmask, gen.sghash)[2]
  BY <1>1
<1>4. SplitSeen => /\ g.sgmask = sgm /\ g.sghash = sgh /\ g.tmask = mask
                   /\ g.slot = stop(x, sgm, sgh)[1] /\ g.ep = stop(x, sgm, sgh)[2]
  BY <1>2
<1> QED BY <1>3, <1>4 DEF g, s, stop, sgm, sgh, x

\* To the next element of the slot.
LEMMA LinkAdvances ==
  ASSUME NEW top, Built(top), Counted, GenTypes, NEW k, NEW R, Standing(top, k, R),
         ~SplitSeen, Successor(gen.ep) # End
  PROVE  /\ Advances(k, k, HgNext) /\ HgNext.ep # End
         /\ Linked(hashnum, alloc, live, clink, stable, HgNext.ep, top, k, R)
<1> DEFINE s == Successor(gen.ep)
           g == HgNext
           resk(x) == hashnum[x] % Slots(k)
           done(x) == Done(hashnum[x], k, gen.sgmask, gen.sghash)
<1>1. /\ s # End /\ g.sgmask = gen.sgmask /\ g.sghash = gen.sghash /\ g.tmask = gen.tmask
      /\ g.slot = gen.slot /\ g.ep = s
  BY HgNextIs
<1> HIDE DEF s, g
<1>2. /\ gen.ep \in Elem /\ hashnum \in [Elem -> Nat] /\ k \in 0 .. HSegs - 1 /\ gen.slot \in Nat
      /\ \A x \in Elem : hashnum[x] \in Nat /\ resk(x) \in Nat
      /\ (k = top <=> mask = gen.tmask)
  <2>1. top \in 0 .. HSegs - 1 /\ top \in Nat /\ k \in Nat /\ k <= top
    BY StandingIs
  <2>2. k \in 0 .. HSegs - 1
    BY <2>1, TopNat
  <2> QED BY <2>2, StandingIs
<1>3. gen.slot = resk(gen.ep) /\ ~done(gen.ep) /\ History(k, gen.slot, gen.sgmask, gen.sghash)
      /\ Linked(hashnum, alloc, live, clink, stable, gen.ep, top, k, R) /\ k \in 0 .. top
  BY DEF Standing, Placed
<1>4. /\ s \in R \cup live /\ s \in Elem /\ Prec(hashnum, gen.ep, s) /\ resk(s) = gen.slot
      /\ \A x \in stable : (hashnum[x] % Slots(top)) = (hashnum[gen.ep] % Slots(top))
                           /\ Prec(hashnum, gen.ep, x) => x = s \/ Prec(hashnum, s, x)
  BY <1>1, <1>3, SuccessorIs DEF GenTypes, s
<1>5. /\ hashnum[gen.ep] <= hashnum[s] /\ s # gen.ep /\ ~Prec(hashnum, s, gen.ep)
  BY <1>2, <1>4, PrecOrder
<1>6. ~done(s)
  BY <1>2, <1>3, <1>4, <1>5, DoneBelow
<1>7. ~Passed(hashnum, k, gen, s)
  BY <1>2, <1>4, <1>5, <1>6 DEF Passed, Reached
<1>8. Placed(hashnum, k, g)
  BY <1>1, <1>3, <1>4, <1>6 DEF Placed, Standing
<1>9. \A x : Passed(hashnum, k, g, x) <=> done(x) \/ Reached(hashnum, k, gen.slot, s, x)
  BY <1>1 DEF Passed
<1>10. ASSUME NEW y \in Elem, Passed(hashnum, k, gen, y) PROVE Passed(hashnum, k, g, y)
  <2>1. y = gen.ep \/ Prec(hashnum, y, gen.ep) => Prec(hashnum, y, s)
    BY <1>2, <1>4, PrecOrder
  <2> QED BY <2>1, <1>9, <1>10 DEF Passed, Reached
<1>11. ASSUME NEW x \in stable, Passed(hashnum, k, g, x) PROVE Passed(hashnum, k, gen, x) \/ x = g.ep
  <2>1. x \in Elem
    BY HashNat DEF GenTypes
  <2> SUFFICES ASSUME ~Passed(hashnum, k, gen, x), x # s PROVE FALSE
    BY <1>1
  <2>2. resk(x) = gen.slot /\ Prec(hashnum, x, s) /\ x # gen.ep /\ ~Prec(hashnum, x, gen.ep)
    BY <1>9, <1>11 DEF Passed, Reached
  <2>3. Prec(hashnum, gen.ep, x) /\ ~Prec(hashnum, s, x)
    BY <2>1, <2>2, <1>2, <1>4, PrecOrder
  <2>4. (hashnum[x] % Slots(top)) = (hashnum[gen.ep] % Slots(top))
    <3>1. CASE k = top
      BY <3>1, <2>2, <1>3
    <3>2. CASE k # top
      <4>1. hashnum[s] = hashnum[gen.ep]
        BY <3>2, <1>1, <1>2 DEF SplitSeen, s
      <4>2. hashnum[gen.ep] <= hashnum[x] /\ hashnum[x] <= hashnum[s]
        BY <2>1, <2>2, <2>3, <1>2, <1>4, PrecOrder
      <4>3. hashnum[x] = hashnum[gen.ep]
        BY <4>1, <4>2, <2>1, <1>2
      <4> QED BY <4>3
    <3> QED BY <3>1, <3>2
  <2> QED BY <2>2, <2>3, <2>4, <1>4
<1>12. Linked(hashnum, alloc, live, clink, stable, s, top, k, R)
  BY <1>3, <1>4 DEF Linked
<1>13. Advances(k, k, g)
  BY <1>1, <1>4, <1>7, <1>8, <1>10, <1>11 DEF Advances
<1> QED BY <1>1, <1>12, <1>13 DEF g

\* Without a split to note, and nothing left of the slot.
LEMMA SlotLeft ==
  ASSUME NEW top, Built(top), Counted, GenTypes, NEW k, NEW R, Standing(top, k, R),
         ~SplitSeen, Successor(gen.ep) = End
  PROVE  k = top /\ Advances(k, top, HgNext) /\ (HgNext.ep # End => HgNext.ep \in live)
<1> DEFINE sgm == gen.sgmask
           sgh == gen.sghash
           g == HgNext
           res(x) == hashnum[x] % Slots(top)
<1>1. /\ gen.ep \in Elem /\ hashnum \in [Elem -> Nat] /\ gen.slot \in Nat /\ mask = Slots(top) - 1
      /\ (k = top <=> mask = gen.tmask)
      /\ \A x \in Elem : hashnum[x] \in Nat /\ res(x) \in 0 .. mask
  BY StandingIs
<1>2. mask = gen.tmask /\ k = top
  BY <1>1 DEF SplitSeen
<1>3. /\ g.sgmask = sgm /\ g.sghash = sgh /\ g.tmask = Slots(top) - 1
      /\ g.slot = Search(gen.slot, sgm, sgh)[1] /\ g.ep = Search(gen.slot, sgm, sgh)[2]
  BY <1>1, <1>2, HgNextIs
<1>4. gen.slot = res(gen.ep) /\ History(top, gen.slot, sgm, sgh) /\ k \in 0 .. top
      /\ Linked(hashnum, alloc, live, clink, stable, gen.ep, top, k, R)
  BY <1>2 DEF Standing, Placed
<1>5. \A x \in stable : res(x) = res(gen.ep) => ~Prec(hashnum, gen.ep, x)
  BY <1>4, SuccessorIs DEF GenTypes
<1>6. \A x : Passed(hashnum, k, gen, x) <=> Done(hashnum[x], top, sgm, sgh)
                                            \/ Reached(hashnum, top, gen.slot, gen.ep, x)
  BY <1>2 DEF Passed
<1>7. \A y \in Elem : Reached(hashnum, top, gen.slot, gen.ep, y) => res(y) <= gen.slot
  BY <1>1 DEF Reached
<1>8. ASSUME NEW x \in stable, res(x) <= gen.slot PROVE Reached(hashnum, top, gen.slot, gen.ep, x)
  <2>1. x \in Elem
    BY HashNat DEF GenTypes
  <2>2. res(x) < gen.slot \/ res(x) = gen.slot
    BY <2>1, <1>1, <1>8
  <2>3. res(x) = gen.slot => x = gen.ep \/ Prec(hashnum, x, gen.ep)
    BY <2>1, <1>1, <1>4, <1>5, PrecOrder
  <2> QED BY <2>2, <2>3 DEF Reached
<1> HIDE DEF g, sgm, sgh
<1>9. Leaves(top, k, sgm, sgh)
  BY <1>4, <1>6, <1>7, <1>8 DEF Leaves
<1>10. Advances(k, top, g) /\ (g.ep # End => g.ep \in live)
  <2>1. stable \subseteq live
    BY DEF GenTypes
  <2> QED BY <2>1, <1>1, <1>3, <1>9, SearchAdvances
<1> QED BY <1>2, <1>10 DEF g

\* A split noted: done are the elements the generator came by, which are the
\* slots before its own, and its own up to its hash number.
LEMMA SplitIs ==
  ASSUME NEW top, Built(top), Counted, GenTypes, NEW k, NEW R, Standing(top, k, R), SplitSeen,
         NEW sgm, NEW sgh,
         SplitNotes(sgm, sgh, gen.tmask, hashnum[gen.ep], gen.sgmask, gen.sghash)
  PROVE  /\ History(top, gen.slot, sgm, sgh)
         /\ \A y \in Elem : Passed(hashnum, k, gen, y) => Done(hashnum[y], top, sgm, sgh)
         /\ \A x \in stable : Done(hashnum[x], top, sgm, sgh) => Passed(hashnum, k, gen, x)
         /\ \A x \in Elem : (hashnum[x] % Slots(top)) < gen.slot => Done(hashnum[x], top, sgm, sgh)
         /\ \A x \in Elem : (hashnum[x] % Slots(top)) = gen.slot =>
              (Done(hashnum[x], top, sgm, sgh) <=> hashnum[x] <= hashnum[gen.ep])
<1> DEFINE hn == hashnum[gen.ep]
           resk(x) == hashnum[x] % Slots(k)
           res(x) == hashnum[x] % Slots(top)
           was(x) == Done(hashnum[x], k, gen.sgmask, gen.sghash)
           done(x) == Done(hashnum[x], top, sgm, sgh)
<1>1. /\ top \in 0 .. HSegs - 1 /\ k \in 0 .. top /\ k \in 0 .. HSegs - 1 /\ k # top /\ k \in Nat /\ gen.ep \in Elem
      /\ hashnum \in [Elem -> Nat] /\ gen.slot \in 0 .. Slots(k) - 1 /\ gen.slot \in Nat /\ hn \in Nat
      /\ gen.tmask = Slots(k) - 1 /\ Slots(k) \in Nat \ {0, 1}
      /\ \A x \in Elem : /\ hashnum[x] \in Nat /\ resk(x) \in Nat /\ res(x) \in Nat
                         /\ res(x) < Slots(k) => resk(x) = res(x)
  <2>1. /\ top \in 0 .. HSegs - 1 /\ top \in Nat /\ k \in Nat /\ k <= top
        /\ (k = top <=> mask = gen.tmask) /\ Slots(top) \in Nat \ {0, 1} /\ mask = Slots(top) - 1
    BY StandingIs
  <2>2. k \in 0 .. HSegs - 1 /\ k \in 0 .. top
    BY <2>1, TopNat
  <2>3. \A x \in Elem : res(x) \in 0 .. mask => res(x) \in Nat
    OBVIOUS
  <2> QED BY <2>1, <2>2, <2>3, StandingIs DEF SplitSeen
<1>2. gen.slot = resk(gen.ep) /\ ~was(gen.ep) /\ History(k, gen.slot, gen.sgmask, gen.sghash)
      /\ Linked(hashnum, alloc, live, clink, stable, gen.ep, top, k, R)
  BY DEF Standing, Placed
<1>3. /\ History(top, gen.slot, sgm, sgh)
      /\ \A n : Done(n, top, sgm, sgh) <=> Done(n, k, gen.sgmask, gen.sghash) \/ DoneAt(n, gen.tmask, hn)
  <2> DEFINE sm == gen.sgmask
             sh == gen.sghash
             sl == gen.slot
             tm == gen.tmask
  <2>1. /\ top \in 0 .. HSegs - 1 /\ k \in 0 .. top /\ History(k, sl, sm, sh)
        /\ hn \in Nat /\ sl = (hn % Slots(k)) /\ tm = Slots(k) - 1 /\ k # top
        /\ SplitNotes(sgm, sgh, tm, hn, sm, sh)
    BY <1>1, <1>2
  <2> HIDE DEF sm, sh, sl, tm, hn
  <2>2. /\ History(top, sl, sgm, sgh)
        /\ \A n : Done(n, top, sgm, sgh) <=> Done(n, k, sm, sh) \/ DoneAt(n, tm, hn)
    BY <2>1, SplitHistory
  <2> QED BY <2>2 DEF sm, sh, sl, tm
<1>4. ASSUME NEW x \in Elem
      PROVE  DoneAt(hashnum[x], gen.tmask, hn) <=> resk(x) < gen.slot \/ (resk(x) = gen.slot /\ hashnum[x] <= hn)
  <2>1. And(hashnum[x], gen.tmask) = resk(x) /\ And(hn, gen.tmask) = gen.slot
    BY <1>1, <1>2, AndSlots
  <2> QED BY <2>1 DEF DoneAt
<1>5. \A x \in Elem : done(x) <=> was(x) \/ resk(x) < gen.slot \/ (resk(x) = gen.slot /\ hashnum[x] <= hn)
  BY <1>3, <1>4
<1>6. \A x : Passed(hashnum, k, gen, x) <=>
         was(x) \/ resk(x) < gen.slot \/ (resk(x) = gen.slot /\ (x = gen.ep \/ Prec(hashnum, x, gen.ep)))
  BY DEF Passed, Reached
<1> HIDE DEF done, was
<1>7. ASSUME NEW y \in Elem, Passed(hashnum, k, gen, y) PROVE done(y)
  <2>1. y = gen.ep \/ Prec(hashnum, y, gen.ep) => hashnum[y] <= hn
    BY <1>1, PrecOrder
  <2> QED BY <2>1, <1>5, <1>6, <1>7
<1>8. ASSUME NEW x \in stable, done(x) PROVE Passed(hashnum, k, gen, x)
  <2>1. x \in Elem
    BY HashNat DEF GenTypes
  <2>2. CASE was(x) \/ resk(x) < gen.slot
    BY <2>2, <1>6
  <2>3. CASE resk(x) = gen.slot /\ hashnum[x] <= hn
    <3>1. hashnum[x] < hn => Prec(hashnum, x, gen.ep)
      BY <2>1, <1>1, PrecOrder
    <3>2. ASSUME hashnum[x] = hn, Prec(hashnum, gen.ep, x) PROVE FALSE
      <4> DEFINE s == Successor(gen.ep)
      <4>1. s # End /\ s \in Elem /\ Prec(hashnum, gen.ep, s) /\ (x = s \/ Prec(hashnum, s, x))
        BY <3>2, <1>1, <1>2, SuccessorIs DEF GenTypes
      <4>2. hashnum[s] # hn
        BY <4>1 DEF SplitSeen
      <4> HIDE DEF s
      <4>3. hn <= hashnum[s] /\ hashnum[s] <= hashnum[x] /\ hashnum[s] \in Nat
        BY <4>1, <2>1, <1>1, PrecOrder
      <4> QED BY <4>2, <4>3, <3>2, <1>1
    <3>3. hashnum[x] < hn \/ hashnum[x] = hn
      BY <2>1, <2>3, <1>1
    <3>4. x = gen.ep \/ Prec(hashnum, x, gen.ep) \/ Prec(hashnum, gen.ep, x)
      BY <2>1, <1>1, PrecOrder
    <3> QED BY <2>3, <3>1, <3>2, <3>3, <3>4, <1>6
  <2> QED BY <2>1, <2>2, <2>3, <1>5, <1>8
<1>9. ASSUME NEW x \in Elem, res(x) < gen.slot PROVE done(x)
  <2>1. res(x) < Slots(k)
    BY <1>1, <1>9
  <2> QED BY <2>1, <1>1, <1>5, <1>9
<1>10. ASSUME NEW x \in Elem, res(x) = gen.slot PROVE done(x) <=> hashnum[x] <= hn
  <2>1. res(x) < Slots(k)
    BY <1>1, <1>10
  <2>2. resk(x) = gen.slot
    BY <2>1, <1>1, <1>10
  <2>3. ASSUME was(x), ~(hashnum[x] <= hn) PROVE FALSE
    <3>1. hn <= hashnum[x] /\ (hn % Slots(k)) = (hashnum[x] % Slots(k))
      BY <2>2, <2>3, <1>1, <1>2
    <3>2. was(gen.ep)
      BY <3>1, <2>3, <1>1, <1>2, DoneBelow DEF was
    <3> QED BY <3>2, <1>2 DEF was
  <2> QED BY <2>2, <2>3, <1>1, <1>5
<1> QED BY <1>3, <1>7, <1>8, <1>9, <1>10 DEF done

\* A split noted, and on to what is left of the slot or to the next.
LEMMA SplitAdvances ==
  ASSUME NEW top, Built(top), Counted, GenTypes, NEW k, NEW R, Standing(top, k, R), SplitSeen
  PROVE  Advances(k, top, HgNext) /\ (HgNext.ep # End => HgNext.ep \in live)
<1> DEFINE hn == hashnum[gen.ep]
           chain == Chain(hdir, gen.slot)
           sgm == [i \in 1 .. HSegs - 1 |-> IF Slots(i - 1) > gen.tmask THEN gen.tmask ELSE gen.sgmask[i]]
           sgh == [i \in 1 .. HSegs - 1 |-> IF Slots(i - 1) > gen.tmask THEN hn ELSE gen.sghash[i]]
           pos == FirstAbove(chain, hn)
           x == ElemAt(chain, pos)
           g == HgNext
           res(e) == hashnum[e] % Slots(top)
           L == Slotted(hashnum, live, top, gen.slot)
           done(e) == Done(hashnum[e], top, sgm, sgh)
<1>1. /\ g.sgmask = sgm /\ g.sghash = sgh /\ g.tmask = mask
      /\ g.slot = (IF x = End THEN Search(gen.slot, sgm, sgh) ELSE <<gen.slot, x>>)[1]
      /\ g.ep = (IF x = End THEN Search(gen.slot, sgm, sgh) ELSE <<gen.slot, x>>)[2]
  BY HgNextIs
<1>2. /\ top \in 0 .. HSegs - 1 /\ gen.ep \in Elem /\ hashnum \in [Elem -> Nat] /\ hn \in Nat
      /\ gen.slot \in 0 .. mask /\ gen.slot \in Nat /\ mask = Slots(top) - 1
      /\ \A e \in Elem : hashnum[e] \in Nat /\ res(e) \in 0 .. mask
  BY StandingIs
<1>3. /\ History(top, gen.slot, sgm, sgh)
      /\ \A y \in Elem : Passed(hashnum, k, gen, y) => done(y)
      /\ \A e \in stable : done(e) => Passed(hashnum, k, gen, e)
      /\ \A e \in Elem : res(e) < gen.slot => done(e)
      /\ \A e \in Elem : res(e) = gen.slot => (done(e) <=> hashnum[e] <= hn)
  <2>1. SplitNotes(sgm, sgh, gen.tmask, hashnum[gen.ep], gen.sgmask, gen.sghash)
    BY DEF SplitNotes
  <2> HIDE DEF sgm, sgh
  <2> QED BY <2>1, SplitIs
<1>4. stable \subseteq live /\ live \subseteq Elem
  BY HashNat DEF GenTypes
<1>5. Lists(hashnum, chain, L)
  BY <1>2 DEF Built, Table
<1>6. \A e : e \in L <=> e \in live /\ res(e) = gen.slot
  BY DEF Slotted
<1> HIDE DEF L
<1> DEFINE p == IF pos = 0 THEN Len(chain) + 1 ELSE pos
<1>7. /\ p \in 1 .. Len(chain) + 1 /\ pos \in Nat
      /\ \A i \in DOMAIN chain : i < p <=> hashnum[chain[i]] <= hn
      /\ pos # 0 => pos \in DOMAIN chain
  BY <1>2, <1>5, FirstAboveIs
<1>8. x = IF pos = 0 THEN End ELSE chain[pos]
  BY DEF ElemAt
<1> HIDE DEF chain, pos, sgm, sgh, g, x
<1>9. chain \in Seq(Elem) /\ Ordered(hashnum, chain) /\ (\A i \in DOMAIN chain : chain[i] \in L)
      /\ (\A e \in L : \E i \in DOMAIN chain : chain[i] = e) /\ DOMAIN chain = 1 .. Len(chain) /\ Len(chain) \in Nat
  BY <1>5 DEF Lists
<1>10. CASE pos = 0
  <2>1. x = End
    BY <1>8, <1>10
  <2>2. g.slot = Search(gen.slot, sgm, sgh)[1] /\ g.ep = Search(gen.slot, sgm, sgh)[2]
    BY <2>1, <1>1
  <2>3. \A i \in DOMAIN chain : hashnum[chain[i]] <= hn
    BY <1>7, <1>9, <1>10
  <2>4. ASSUME NEW e \in stable, res(e) <= gen.slot PROVE done(e)
    <3>1. CASE res(e) = gen.slot
      <4>1. e \in L /\ e \in Elem
        BY <3>1, <1>4, <1>6
      <4>2. hashnum[e] <= hn
        BY <4>1, <2>3, <1>9
      <4> QED BY <4>1, <4>2, <3>1, <1>3
    <3>2. CASE res(e) < gen.slot
      BY <3>2, <1>3, <1>4
    <3>3. res(e) = gen.slot \/ res(e) < gen.slot
      BY <2>4, <1>2, <1>4
    <3> QED BY <3>1, <3>2, <3>3
  <2>5. Leaves(top, k, sgm, sgh)
    BY <2>4, <1>3 DEF Leaves
  <2>6. Advances(k, top, g) /\ (g.ep # End => g.ep \in live)
    BY <2>2, <2>5, <1>1, <1>2, <1>4, SearchAdvances
  <2> QED BY <2>6 DEF g
<1>11. CASE pos # 0
  <2>1. /\ pos \in DOMAIN chain /\ x = chain[pos] /\ p = pos /\ x \in L /\ x \in live /\ x \in Elem
        /\ res(x) = gen.slot /\ ~(hashnum[x] <= hn)
    <3>1. pos \in DOMAIN chain /\ x = chain[pos] /\ p = pos
      BY <1>7, <1>8, <1>11
    <3>2. x \in L /\ x \in live /\ x \in Elem /\ res(x) = gen.slot
      BY <3>1, <1>4, <1>6, <1>9
    <3>3. ~(hashnum[x] <= hn)
      BY <3>1, <1>7
    <3> QED BY <3>1, <3>2, <3>3
  <2>2. x # End
    BY <2>1, ElemNat
  <2>3. g.slot = gen.slot /\ g.ep = x
    BY <2>2, <1>1
  <2>4. ~done(x)
    BY <2>1, <1>3
  <2>5. ~Passed(hashnum, k, gen, x)
    BY <2>1, <2>4, <1>3
  <2>6. Placed(hashnum, top, g)
    BY <2>1, <2>3, <2>4, <1>1, <1>2, <1>3 DEF Placed
  <2>7. \A e : Passed(hashnum, top, g, e) <=> done(e) \/ Reached(hashnum, top, gen.slot, x, e)
    BY <2>3, <1>1 DEF Passed
  <2>8. \A y \in Elem : Passed(hashnum, k, gen, y) => Passed(hashnum, top, g, y)
    BY <2>7, <1>3
  <2>9. ASSUME NEW e \in stable, Passed(hashnum, top, g, e) PROVE Passed(hashnum, k, gen, e) \/ e = x
    <3>1. e \in live /\ e \in Elem
      BY <1>4
    <3>2. CASE done(e)
      BY <3>2, <1>3
    <3>3. CASE ~done(e)
      <4>1. res(e) = gen.slot /\ (e = x \/ Prec(hashnum, e, x))
        BY <3>1, <3>3, <2>7, <2>9, <1>3 DEF Reached
      <4>2. ~(hashnum[e] <= hn)
        BY <3>1, <3>3, <4>1, <1>3
      <4>3. PICK i \in DOMAIN chain : chain[i] = e
        BY <3>1, <4>1, <1>6, <1>9
      <4>4. ~(i < pos)
        BY <4>2, <4>3, <2>1, <1>7
      <4>5. i = pos \/ pos < i
        BY <4>3, <4>4, <2>1, <1>9
      <4>6. e = x \/ Prec(hashnum, x, e)
        BY <4>3, <4>5, <2>1, <1>9 DEF Ordered
      <4>7. ~(Prec(hashnum, x, e) /\ Prec(hashnum, e, x))
        BY <3>1, <2>1, <1>2, PrecOrder
      <4> QED BY <4>1, <4>6, <4>7
    <3> QED BY <3>2, <3>3
  <2>10. Advances(k, top, g)
    BY <2>1, <2>2, <2>3, <2>5, <2>6, <2>8, <2>9 DEF Advances
  <2> QED BY <2>1, <2>3, <2>10 DEF g
<1> QED BY <1>10, <1>11

LEMMA NextAdvances ==
  ASSUME NEW top, Built(top), Counted, GenTypes, NEW k, NEW R, Standing(top, k, R)
  PROVE  \E j \in 0 .. top : \E Q :
           /\ Advances(k, j, HgNext)
           /\ HgNext.ep # End =>
                Linked(hashnum, alloc, live, clink, stable, HgNext.ep, top, j, Q)
<1>1. k \in 0 .. top /\ top \in 0 .. top
  BY TopNat DEF Built, Table, Shape, Standing
<1>2. CASE ~SplitSeen /\ Successor(gen.ep) # End
  BY <1>1, <1>2, LinkAdvances
<1>3. CASE SplitSeen \/ Successor(gen.ep) = End
  <2>1. Advances(k, top, HgNext) /\ (HgNext.ep # End => HgNext.ep \in live)
    BY <1>3, SlotLeft, SplitAdvances
  <2>2. HgNext.ep # End => Linked(hashnum, alloc, live, clink, stable, HgNext.ep, top, top, {})
    BY <2>1 DEF Linked
  <2> QED BY <2>1, <2>2, <1>1
<1> QED BY <1>2, <1>3

\* hgfirst stops at the first element.
LEMMA FirstAdvances ==
  ASSUME NEW top, Built(top), Counted
  PROVE  /\ HgFirst.ep = End => live = {}
         /\ HgFirst.ep # End =>
              /\ HgFirst.ep \in live /\ Placed(hashnum, top, HgFirst)
              /\ \A x \in live : Passed(hashnum, top, HgFirst, x) <=> x = HgFirst.ep
<1> DEFINE g == HgFirst
           to == Search(-1, NoHistory, NoHistory)
           slot == -1
           N == NoHistory
           res(x) == hashnum[x] % Slots(top)
           S == {x \in live : (hashnum[x] % Slots(top)) > slot /\ ~Done(hashnum[x], top, N, N)}
<1>1. /\ top \in 0 .. HSegs - 1 /\ top \in Nat /\ mask = Slots(top) - 1 /\ hashnum \in [Elem -> Nat]
      /\ live \subseteq Elem /\ HSegs \in Nat
  BY TopNat DEF Built, Table, Shape
<1>2. \A x \in Elem : hashnum[x] \in Nat /\ res(x) \in Nat
  BY <1>1, ModRange, SlotsNat
<1>3. \A i \in 1 .. HSegs - 1 : N[i] = 0
  BY DEF NoHistory
<1>4. N \in [1 .. HSegs - 1 -> Nat]
  BY DEF NoHistory
<1>5. \A i \in 1 .. top : N[i] = 0
  BY <1>1, <1>3
<1>6. \A n : ~Done(n, top, N, N)
  BY <1>5 DEF Done
<1>7. \A s : History(top, s, N, N)
  BY <1>4, <1>5 DEF History
<1>8. g.slot = to[1] /\ g.ep = to[2] /\ g.sgmask = N /\ g.sghash = N /\ g.tmask = Slots(top) - 1
  BY <1>1 DEF HgFirst
<1>9. slot \in Int /\ slot >= -1 /\ slot < 0 /\ to = Search(slot, N, N)
  OBVIOUS
<1> HIDE DEF slot, N, g, to
<1>10. /\ S = {} => to[2] = End
       /\ S # {} => /\ to[2] \in S /\ to[1] = res(to[2])
                    /\ \A x \in S : x = to[2] \/ ~Reached(hashnum, top, to[1], to[2], x)
  BY <1>7, <1>9, SearchIs
<1>11. S = live
  <2>1. \A x \in live : res(x) > slot
    BY <1>1, <1>2, <1>9
  <2> QED BY <2>1, <1>6
<1> HIDE DEF S
<1>12. End \notin live
  BY <1>1, ElemNat
<1>13. CASE live = {}
  BY <1>8, <1>10, <1>11, <1>13 DEF g
<1>14. CASE live # {}
  <2>1. g.ep \in live /\ g.slot = res(g.ep) /\ g.ep # End
        /\ \A x \in live : x = g.ep \/ ~Reached(hashnum, top, g.slot, g.ep, x)
    BY <1>8, <1>10, <1>11, <1>12, <1>14
  <2>2. Placed(hashnum, top, g)
    BY <2>1, <1>6, <1>7, <1>8 DEF Placed
  <2>3. \A x \in live : Passed(hashnum, top, g, x) <=> x = g.ep
    BY <2>1, <1>6, <1>8 DEF Passed, Reached
  <2> QED BY <2>1, <2>2, <2>3 DEF g
<1> QED BY <1>13, <1>14

LEMMA InitGen == ASSUME Init PROVE GenInv
<1>1. alloc = 0 /\ live = {} /\ clink = [e \in Elem |-> End] /\ on = FALSE /\ gen = NoGen
      /\ yielded = {} /\ stable = {}
  BY DEF Init
<1> QED BY <1>1 DEF GenInv, GenTypes

\* What the generator came by does not depend on elements yet to come.
LEMMA SamePassed ==
  ASSUME NEW h, NEW h2, NEW A, \A x \in A : h2[x] = h[x], NEW k, NEW g, g.ep \in A
  PROVE  /\ \A x \in A : Passed(h2, k, g, x) <=> Passed(h, k, g, x)
         /\ Placed(h, k, g) => Placed(h2, k, g)
<1>1. \A x \in A : Prec(h2, x, g.ep) <=> Prec(h, x, g.ep)
  BY DEF Prec
<1>2. \A x \in A : Passed(h2, k, g, x) <=> Passed(h, k, g, x)
  BY <1>1 DEF Passed, Reached
<1> HIDE DEF History, Done
<1> QED BY <1>2 DEF Placed

\* More elements, and more slots, leave the links of deleted ones in order.
LEMMA InsertLinks ==
  ASSUME NEW h \in [Elem -> Nat], NEW h2 \in [Elem -> Nat], NEW al \in Nat, NEW A, A = 1 .. al, A \subseteq Elem,
         \A x \in A : h2[x] = h[x], NEW lv \in SUBSET A, NEW st \in SUBSET lv, NEW cl, NEW ep,
         NEW top \in Nat, NEW low \in Nat, low <= top, NEW k, NEW R, Linked(h, al, lv, cl, st, ep, low, k, R)
  PROVE  Linked(h2, al + 1, lv \cup {al + 1}, cl, st, ep, top, k, R)
<1>1. R \subseteq A \ lv /\ ep \in R \cup lv /\ A \subseteq 1 .. al + 1 /\ al + 1 \notin A
  BY DEF Linked
<1>2. ASSUME NEW e \in R
      PROVE  /\ cl[e] # End => /\ cl[e] \in R \cup lv /\ Prec(h, e, cl[e])
                               /\ (h[cl[e]] % Slots(k)) = (h[e] % Slots(k))
             /\ \A x \in st : (h[x] % Slots(low)) = (h[e] % Slots(low)) /\ Prec(h, e, x) =>
                                cl[e] # End /\ (x = cl[e] \/ Prec(h, cl[e], x))
  BY DEF Linked
<1>3. \A e, x \in A : Prec(h2, e, x) <=> Prec(h, e, x)
  BY DEF Prec
<1>4. ASSUME NEW e \in R, cl[e] # End
      PROVE  /\ cl[e] \in R \cup (lv \cup {al + 1}) /\ Prec(h2, e, cl[e])
             /\ (h2[cl[e]] % Slots(k)) = (h2[e] % Slots(k))
  <2>1. cl[e] \in A /\ e \in A
    BY <1>1, <1>2, <1>4
  <2> QED BY <2>1, <1>2, <1>3, <1>4
<1>5. ASSUME NEW e \in R, NEW x \in st, (h2[x] % Slots(top)) = (h2[e] % Slots(top)), Prec(h2, e, x)
      PROVE  cl[e] # End /\ (x = cl[e] \/ Prec(h2, cl[e], x))
  <2>1. x \in A /\ e \in A /\ h[x] \in Nat /\ h[e] \in Nat
    BY <1>1
  <2>2. (h[x] % Slots(top)) = (h[e] % Slots(top))
    BY <2>1, <1>5
  <2>3. ((h[x] % Slots(top)) % Slots(low)) = (h[x] % Slots(low))
        /\ ((h[e] % Slots(top)) % Slots(low)) = (h[e] % Slots(low))
    BY <2>1, ModSlots
  <2>4. (h[x] % Slots(low)) = (h[e] % Slots(low))
    BY <2>2, <2>3
  <2>5. cl[e] # End /\ (x = cl[e] \/ Prec(h, cl[e], x))
    BY <2>1, <2>4, <1>2, <1>3, <1>5
  <2>6. cl[e] \in A
    BY <2>5, <1>1, <1>2
  <2> QED BY <2>1, <2>5, <2>6, <1>3
<1> HIDE DEF Prec
<1> QED BY <1>1, <1>4, <1>5 DEF Linked

LEMMA BuiltOnce == ASSUME NEW low, NEW top, Built(low), Built(top) PROVE low = top
<1> DEFINE a == Slots(low)
           b == Slots(top)
<1>1. low \in Nat /\ top \in Nat /\ a - 1 = b - 1
  BY TopNat DEF Built, Table, Shape
<1>2. a \in Nat /\ b \in Nat /\ (a = b => low = top)
  BY <1>1, SlotsNat, SlotsGrow
<1> HIDE DEF a, b
<1> QED BY <1>1, <1>2

LEMMA InsertGen ==
  ASSUME NEW top, Built(top), Counted, GenInv, NEW hn \in Hash, Insert(hn)
  PROVE  GenInv'
<1>1. /\ Counted' /\ (Built(top)' \/ (Built(top + 1)' /\ top + 1 \in Nat))
      /\ \A e \in 1 .. alloc : hashnum'[e] = hashnum[e]
      /\ live' = live \cup {alloc + 1} /\ alloc' = alloc + 1
  BY InsertTable
<1>2. clink' = clink /\ on' = on /\ gen' = gen /\ yielded' = yielded /\ stable' = stable
  BY DEF Insert, genVars
<1>3. alloc \in Nat /\ 1 .. alloc \subseteq 1 .. alloc + 1 /\ live \subseteq 1 .. alloc
  BY HashNat DEF Counted
<1>4. GenTypes'
  BY <1>1, <1>2, <1>3 DEF GenInv, GenTypes
<1>5. CASE ~on
  BY <1>2, <1>4, <1>5 DEF GenInv
<1>6. CASE on
  <2>1. PICK low, k, R : Built(low) /\ Standing(low, k, R)
    BY <1>6 DEF GenInv
  <2>2. low = top
    BY <2>1, BuiltOnce
  <2>3. PICK up \in {top, top + 1} : Built(up)'
    BY <1>1
  <2>4. top \in Nat /\ up \in Nat /\ top <= up
    BY TopNat DEF Built, Table, Shape
  <2>5. k \in 0 .. top /\ Placed(hashnum, k, gen)
        /\ Linked(hashnum, alloc, live, clink, stable, gen.ep, top, k, R)
    BY <2>1, <2>2 DEF Standing
  <2> DEFINE A == 1 .. alloc
  <2>6. gen.ep \in A /\ A \subseteq Elem /\ yielded \subseteq A /\ stable \subseteq live /\ live \subseteq A
        /\ hashnum \in [Elem -> Nat] /\ hashnum' \in [Elem -> Nat]
    <3>1. hashnum' \in [Elem -> Nat]
      BY <2>3 DEF Built, Table
    <3> QED BY <3>1, <2>5, HashNat DEF GenInv, GenTypes, Counted, Linked
  <2> HIDE DEF A
  <2>7. /\ \A x \in A : Passed(hashnum', k, gen, x) <=> Passed(hashnum, k, gen, x)
        /\ Placed(hashnum', k, gen)
    <3>1. \A x \in A : hashnum'[x] = hashnum[x]
      BY <1>1 DEF A
    <3> QED BY <3>1, <2>5, <2>6, SamePassed
  <2>8. Linked(hashnum', alloc + 1, live \cup {alloc + 1}, clink, stable, gen.ep, up, k, R)
    <3>1. (\A x \in A : hashnum'[x] = hashnum[x]) /\ A = 1 .. alloc
      BY <1>1 DEF A
    <3> DEFINE h2 == hashnum'
               ep == gen.ep
    <3> HIDE DEF h2, ep
    <3>2. /\ \A x \in A : h2[x] = hashnum[x]
          /\ h2 \in [Elem -> Nat] /\ Linked(hashnum, alloc, live, clink, stable, ep, top, k, R)
      BY <3>1, <2>5, <2>6 DEF h2, ep
    <3>3. Linked(h2, alloc + 1, live \cup {alloc + 1}, clink, stable, ep, up, k, R)
      BY <3>1, <3>2, <2>4, <2>6, <1>3, InsertLinks
    <3> QED BY <3>3 DEF h2, ep
  <2>9. Standing(up, k, R)'
    <3>1. k \in 0 .. up
      BY <2>4, <2>5
    <3>2. Linked(hashnum', alloc', live', clink', stable', gen'.ep, up, k, R)
      BY <2>8, <1>1, <1>2
    <3>3. \A y \in yielded : Passed(hashnum, k, gen, y)
      BY <2>1 DEF Standing
    <3>4. \A x \in stable : Passed(hashnum, k, gen, x) => x \in yielded
      BY <2>1 DEF Standing
    <3>5. \A y \in yielded' : Passed(hashnum', k, gen', y)
      BY <3>3, <2>6, <2>7, <1>2
    <3>6. \A x \in stable' : Passed(hashnum', k, gen', x) => x \in yielded'
      BY <3>4, <2>6, <2>7, <1>2
    <3> QED BY <3>1, <3>2, <3>5, <3>6, <2>7, <1>2 DEF Standing
  <2> QED BY <2>3, <2>9, <1>2, <1>4, <1>6 DEF GenInv
<1> QED BY <1>5, <1>6 DEF GenInv, GenTypes

\* The links of deleted elements when the elements in Off are deleted too, and
\* keep the links they had.
LEMMA DeleteLinks ==
  ASSUME NEW top, Built(top), Counted, NEW k \in 0 .. top, NEW R, NEW ep,
         stable \subseteq live, NEW st \in SUBSET stable,
         Linked(hashnum, alloc, live, clink, stable, ep, top, k, R),
         NEW Off \in SUBSET live, st \cap Off = {}, NEW cl,
         \A e \in Off : cl[e] = Successor(e), \A e \in R : cl[e] = clink[e]
  PROVE  Linked(hashnum, alloc, live \ Off, cl, st, ep, top, k, R \cup Off)
<1> DEFINE Q == R \cup Off
           lv == live \ Off
<1>1. /\ R \subseteq (1 .. alloc) \ live /\ ep \in R \cup live /\ live \subseteq 1 .. alloc /\ live \subseteq Elem
  BY HashNat DEF Linked, Counted
<1>2. Q \subseteq (1 .. alloc) \ lv /\ ep \in Q \cup lv /\ Q \cup lv = R \cup live
  BY <1>1
<1>3. ASSUME NEW e \in Q
      PROVE  /\ cl[e] # End => /\ cl[e] \in Q \cup lv /\ Prec(hashnum, e, cl[e])
                               /\ (hashnum[cl[e]] % Slots(k)) = (hashnum[e] % Slots(k))
             /\ \A x \in st : (hashnum[x] % Slots(top)) = (hashnum[e] % Slots(top)) /\ Prec(hashnum, e, x) =>
                                cl[e] # End /\ (x = cl[e] \/ Prec(hashnum, cl[e], x))
  <2>1. CASE e \in R
    <3>1. cl[e] = clink[e]
      BY <2>1
    <3> QED BY <2>1, <3>1, <1>2 DEF Linked
  <2>2. CASE e \in Off
    <3> DEFINE s == Successor(e)
    <3>1. cl[e] = s /\ e \in live
      BY <2>2
    <3>2. /\ s # End => /\ s \in live /\ Prec(hashnum, e, s)
                        /\ (hashnum[s] % Slots(top)) = (hashnum[e] % Slots(top))
          /\ \A x \in live : (hashnum[x] % Slots(top)) = (hashnum[e] % Slots(top)) /\ Prec(hashnum, e, x) =>
               s # End /\ (x = s \/ Prec(hashnum, s, x))
      BY <3>1, ChainSuccessor
    <3> HIDE DEF s
    <3>3. ASSUME s # End PROVE (hashnum[s] % Slots(k)) = (hashnum[e] % Slots(k))
      <4>1. (hashnum[s] % Slots(top)) = (hashnum[e] % Slots(top)) /\ s \in Elem /\ e \in Elem
        BY <3>1, <3>2, <3>3, <1>1
      <4>2. hashnum[s] \in Nat /\ hashnum[e] \in Nat /\ k \in Nat /\ top \in Nat /\ k <= top
        BY <4>1, HashNat, TopNat DEF Built, Table, Shape
      <4> QED BY <4>1, <4>2, ModSlots
    <3>4. s # End => s \in Q \cup lv
      BY <3>2, <1>2
    <3> HIDE DEF Q, lv
    <3> QED BY <3>1, <3>2, <3>3, <3>4
  <2> QED BY <2>1, <2>2
<1> HIDE DEF Q, lv
<1>4. Linked(hashnum, alloc, lv, cl, st, ep, top, k, Q)
  BY <1>2, <1>3 DEF Linked
<1> QED BY <1>4 DEF Q, lv

LEMMA DeleteGen ==
  ASSUME NEW top, Built(top), Counted, GenInv, NEW e \in Elem, Delete(e)
  PROVE  GenInv'
<1>1. Counted' /\ Built(top)' /\ e \in live
  BY DeleteTable
<1>2. /\ live' = live \ {e} /\ clink' = [clink EXCEPT ![e] = IF on THEN Successor(e) ELSE End]
      /\ stable' = stable \ {e} /\ alloc' = alloc /\ hashnum' = hashnum /\ on' = on /\ gen' = gen
      /\ yielded' = yielded
  BY DEF Delete
<1>3. /\ stable \subseteq live /\ yielded \subseteq 1 .. alloc /\ clink \in [Elem -> Elem \cup {End}]
      /\ on \in BOOLEAN /\ live \subseteq Elem
  BY HashNat DEF GenInv, GenTypes
<1>4. Successor(e) \in Elem \cup {End}
  BY <1>1, <1>3, ChainSuccessor
<1>5. clink' \in [Elem -> Elem \cup {End}] /\ (on => clink'[e] = Successor(e))
      /\ \A x \in Elem : x # e => clink'[x] = clink[x]
  BY <1>2, <1>3, <1>4
<1>6. GenTypes'
  BY <1>2, <1>3, <1>5 DEF GenTypes
<1>7. CASE ~on
  BY <1>2, <1>6, <1>7 DEF GenInv
<1>8. CASE on
  <2>1. PICK low, k, R : Built(low) /\ Standing(low, k, R)
    BY <1>8 DEF GenInv
  <2>2. low = top
    BY <2>1, BuiltOnce
  <2>3. k \in 0 .. top /\ Placed(hashnum, k, gen)
        /\ Linked(hashnum, alloc, live, clink, stable, gen.ep, top, k, R)
        /\ (\A y \in yielded : Passed(hashnum, k, gen, y))
        /\ (\A x \in stable : Passed(hashnum, k, gen, x) => x \in yielded)
    BY <2>1, <2>2 DEF Standing
  <2> DEFINE Off == {e}
             st == stable \ {e}
             cl == clink'
  <2>4. /\ Off \in SUBSET live /\ st \in SUBSET stable /\ st \cap Off = {}
        /\ \A x \in Off : cl[x] = Successor(x)
    BY <1>1, <1>5, <1>8
  <2>5. \A x \in R : cl[x] = clink[x]
    <3>1. R \subseteq (1 .. alloc) \ live
      BY <2>3 DEF Linked
    <3> QED BY <3>1, <1>1, <1>5, HashNat
  <2> HIDE DEF Off, st, cl
  <2>6. Linked(hashnum, alloc, live \ Off, cl, st, gen.ep, top, k, R \cup Off)
    BY <2>3, <2>4, <2>5, <1>3, DeleteLinks
  <2>7. Standing(top, k, R \cup Off)'
    <3>1. Linked(hashnum', alloc', live', clink', stable', gen'.ep, top, k, R \cup Off)
      BY <2>6, <1>2 DEF Off, st, cl
    <3> HIDE DEF Linked, Placed, Passed
    <3>2. \A x \in stable' : Passed(hashnum', k, gen', x) => x \in yielded'
      BY <2>3, <1>2
    <3> QED BY <3>1, <3>2, <2>3, <1>2 DEF Standing
  <2> QED BY <2>7, <1>1, <1>2, <1>6, <1>8 DEF GenInv
<1> QED BY <1>3, <1>7, <1>8

LEMMA ClearGen ==
  ASSUME NEW top, Built(top), Counted, GenInv, Clear
  PROVE  GenInv'
<1>1. Counted' /\ Built(top)'
  BY ClearTable
<1>2. /\ live' = {} /\ clink' = [e \in Elem |-> IF on /\ e \in live THEN Successor(e) ELSE clink[e]]
      /\ stable' = {} /\ alloc' = alloc /\ hashnum' = hashnum /\ on' = on /\ gen' = gen
      /\ yielded' = yielded
  BY DEF Clear
<1>3. /\ stable \subseteq live /\ yielded \subseteq 1 .. alloc /\ clink \in [Elem -> Elem \cup {End}]
      /\ on \in BOOLEAN /\ live \subseteq Elem
  BY HashNat DEF GenInv, GenTypes
<1>4. \A e \in live : Successor(e) \in Elem \cup {End}
  BY <1>3, ChainSuccessor
<1>5. clink' \in [Elem -> Elem \cup {End}] /\ (on => \A e \in live : clink'[e] = Successor(e))
      /\ \A x \in Elem : x \notin live => clink'[x] = clink[x]
  BY <1>2, <1>3, <1>4
<1>6. GenTypes'
  BY <1>2, <1>3, <1>5 DEF GenTypes
<1>7. CASE ~on
  BY <1>2, <1>6, <1>7 DEF GenInv
<1>8. CASE on
  <2>1. PICK low, k, R : Built(low) /\ Standing(low, k, R)
    BY <1>8 DEF GenInv
  <2>2. low = top
    BY <2>1, BuiltOnce
  <2>3. k \in 0 .. top /\ Placed(hashnum, k, gen)
        /\ Linked(hashnum, alloc, live, clink, stable, gen.ep, top, k, R)
        /\ (\A y \in yielded : Passed(hashnum, k, gen, y))
    BY <2>1, <2>2 DEF Standing
  <2>0. PICK Off \in SUBSET live : Off = live
    OBVIOUS
  <2> DEFINE st == {}
             cl == clink'
  <2>4. /\ Off \in SUBSET live /\ st \in SUBSET stable /\ st \cap Off = {}
        /\ \A x \in Off : cl[x] = Successor(x)
    BY <2>0, <1>1, <1>5, <1>8
  <2>5. \A x \in R : cl[x] = clink[x]
    <3>1. R \subseteq (1 .. alloc) \ live
      BY <2>3 DEF Linked
    <3> QED BY <3>1, <1>1, <1>5, HashNat
  <2>6. live' = live \ Off /\ stable' = st /\ cl = clink'
    BY <2>0, <1>2
  <2> HIDE DEF st, cl
  <2>7. Linked(hashnum, alloc, live \ Off, cl, st, gen.ep, top, k, R \cup Off)
    BY <2>3, <2>4, <2>5, <1>3, DeleteLinks
  <2>8. Standing(top, k, R \cup Off)'
    <3>1. Linked(hashnum', alloc', live', clink', stable', gen'.ep, top, k, R \cup Off)
      BY <2>6, <2>7, <1>2
    <3> HIDE DEF Linked, Placed, Passed
    <3>2. \A x \in stable' : Passed(hashnum', k, gen', x) => x \in yielded'
      BY <1>2
    <3> QED BY <3>1, <3>2, <2>3, <1>2 DEF Standing
  <2> HIDE DEF Standing
  <2> QED BY <2>8, <1>1, <1>2, <1>6, <1>8 DEF GenInv
<1> QED BY <1>3, <1>7, <1>8

LEMMA GenFirstGen ==
  ASSUME NEW top, Built(top), Counted, GenInv, GenFirst
  PROVE  GenInv' /\ (~on' => live = {})
<1> DEFINE g == HgFirst
<1>1. ~on /\ Took(g, {}, live)
  BY DEF GenFirst
<1>2. /\ Counted' /\ Built(top)'
      /\ hdir' = hdir /\ mask' = mask /\ alloc' = alloc /\ hashnum' = hashnum /\ live' = live
  BY GenTable
<1>3. /\ g.ep = End => live = {}
      /\ g.ep # End => /\ g.ep \in live /\ Placed(hashnum, top, g)
                       /\ \A x \in live : Passed(hashnum, top, g, x) <=> x = g.ep
  BY FirstAdvances
<1>4. live \subseteq 1 .. alloc /\ clink \in [Elem -> Elem \cup {End}]
  BY DEF Counted, GenInv, GenTypes
<1> HIDE DEF g
<1>5. CASE g.ep = End
  <2>1. on' = FALSE /\ gen' = NoGen /\ yielded' = {} /\ stable' = {} /\ clink' = [e \in Elem |-> End]
    BY <1>1, <1>5 DEF Took
  <2>2. GenTypes'
    BY <2>1 DEF GenTypes
  <2> QED BY <2>1, <2>2, <1>3, <1>5 DEF GenInv
<1>6. CASE g.ep # End
  <2>1. on' = TRUE /\ gen' = g /\ yielded' = {g.ep} /\ stable' = live /\ clink' = clink
    BY <1>1, <1>6 DEF Took
  <2>2. g.ep \in live
    BY <1>3, <1>6
  <2>3. GenTypes'
    BY <2>1, <2>2, <1>2, <1>4 DEF GenTypes
  <2>4. Linked(hashnum, alloc, live, clink, live, g.ep, top, top, {})
    BY <2>2 DEF Linked
  <2>5. Standing(top, top, {})'
    <3>1. top \in 0 .. top
      BY TopNat DEF Built, Table, Shape
    <3>2. Linked(hashnum', alloc', live', clink', stable', gen'.ep, top, top, {})
      BY <2>1, <2>4, <1>2
    <3> HIDE DEF Linked, Placed, Passed
    <3>3. \A y \in yielded' : Passed(hashnum', top, gen', y)
      BY <2>1, <2>2, <1>2, <1>3
    <3>4. \A x \in stable' : Passed(hashnum', top, gen', x) => x \in yielded'
      BY <2>1, <1>2, <1>3, <1>6
    <3>5. Placed(hashnum', top, gen')
      BY <2>1, <1>2, <1>3, <1>6
    <3> QED BY <3>1, <3>2, <3>3, <3>4, <3>5 DEF Standing
  <2> HIDE DEF Standing
  <2> QED BY <2>1, <2>3, <2>5, <1>2 DEF GenInv
<1> QED BY <1>5, <1>6

LEMMA GenNextGen ==
  ASSUME NEW top, Built(top), Counted, GenInv, GenNext
  PROVE  /\ GenInv'
         /\ ~on' => stable \subseteq yielded
         /\ on' => gen'.ep \notin yielded
<1> DEFINE g == HgNext
<1>1. on /\ Took(g, yielded, stable)
  BY DEF GenNext
<1>2. /\ Counted' /\ Built(top)'
      /\ hdir' = hdir /\ mask' = mask /\ alloc' = alloc /\ hashnum' = hashnum /\ live' = live
  BY GenTable
<1>3. PICK low, k, R : Built(low) /\ Standing(low, k, R)
  BY <1>1 DEF GenInv
<1>4. Standing(top, k, R)
  BY <1>3, BuiltOnce
<1>5. GenTypes
  BY DEF GenInv
<1>6. PICK j \in 0 .. top :
        \E Q : /\ Advances(k, j, g)
               /\ g.ep # End => Linked(hashnum, alloc, live, clink, stable, g.ep, top, j, Q)
  BY <1>4, <1>5, NextAdvances
<1>6a. PICK Q : /\ Advances(k, j, g)
                /\ g.ep # End => Linked(hashnum, alloc, live, clink, stable, g.ep, top, j, Q)
  BY <1>6
<1>7. /\ stable \subseteq live /\ yielded \subseteq 1 .. alloc /\ clink \in [Elem -> Elem \cup {End}]
      /\ live \subseteq Elem /\ 1 .. alloc \subseteq Elem /\ live \subseteq 1 .. alloc
  BY <1>5, HashNat DEF GenTypes, Counted
<1>8. /\ \A y \in yielded : Passed(hashnum, k, gen, y)
      /\ \A x \in stable : Passed(hashnum, k, gen, x) => x \in yielded
  BY <1>4 DEF Standing
<1> HIDE DEF g
<1>9. CASE g.ep = End
  <2>1. on' = FALSE /\ gen' = NoGen /\ yielded' = {} /\ stable' = {} /\ clink' = [e \in Elem |-> End]
    BY <1>1, <1>9 DEF Took
  <2>2. GenTypes'
    BY <2>1 DEF GenTypes
  <2>3. stable \subseteq yielded
    BY <1>6a, <1>8, <1>9 DEF Advances
  <2> QED BY <2>1, <2>2, <2>3 DEF GenInv
<1>10. CASE g.ep # End
  <2>1. on' = TRUE /\ gen' = g /\ yielded' = yielded \cup {g.ep} /\ stable' = stable /\ clink' = clink
    BY <1>1, <1>10 DEF Took
  <2>2. /\ g.ep \in Elem /\ Placed(hashnum, j, g) /\ ~Passed(hashnum, k, gen, g.ep)
        /\ \A y \in Elem : Passed(hashnum, k, gen, y) => Passed(hashnum, j, g, y)
        /\ \A x \in stable : Passed(hashnum, j, g, x) => Passed(hashnum, k, gen, x) \/ x = g.ep
    BY <1>6a, <1>10 DEF Advances
  <2>3. Linked(hashnum, alloc, live, clink, stable, g.ep, top, j, Q)
    BY <1>6a, <1>10
  <2>4. g.ep \in 1 .. alloc
    BY <2>3, <1>7 DEF Linked
  <2>5. GenTypes'
    BY <2>1, <2>4, <1>2, <1>7 DEF GenTypes
  <2>6. Passed(hashnum, j, g, g.ep)
    BY <2>2 DEF Passed, Reached, Placed
  <2>7. Standing(top, j, Q)'
    <3>1. Linked(hashnum', alloc', live', clink', stable', gen'.ep, top, j, Q)
      BY <2>1, <2>3, <1>2
    <3> HIDE DEF Linked, Placed, Passed
    <3>2. \A y \in yielded' : Passed(hashnum', j, gen', y)
      BY <2>1, <2>2, <2>6, <1>2, <1>7, <1>8
    <3>3. \A x \in stable' : Passed(hashnum', j, gen', x) => x \in yielded'
      BY <2>1, <2>2, <1>2, <1>8
    <3>4. Placed(hashnum', j, gen') /\ j \in 0 .. top
      BY <2>1, <2>2, <1>2
    <3> QED BY <3>1, <3>2, <3>3, <3>4 DEF Standing
  <2>8. gen'.ep \notin yielded
    BY <2>1, <2>2, <1>8
  <2> HIDE DEF Standing
  <2> QED BY <2>1, <2>5, <2>7, <2>8, <1>2 DEF GenInv
<1> QED BY <1>9, <1>10

----------------------------------------------------------------------------
(* The invariant of the hash structure and its generator *)

Inv == TableInv /\ GenInv

LEMMA GenStep ==
  ASSUME Inv, [Next]_vars
  PROVE  GenInv'
<1>1. PICK top : Built(top)
  BY DEF Inv, TableInv
<1>2. Counted /\ GenInv
  BY DEF Inv, TableInv
<1>3. ASSUME NEW hn \in Hash, Insert(hn) PROVE GenInv'
  BY <1>1, <1>2, <1>3, InsertGen
<1>4. ASSUME NEW e \in Elem, Delete(e) PROVE GenInv'
  BY <1>1, <1>2, <1>4, DeleteGen
<1>5. CASE Clear
  BY <1>1, <1>2, <1>5, ClearGen
<1>6. CASE Copy
  <2>1. ~on /\ UNCHANGED <<size, alloc, hashnum, live, clink, genVars>>
    BY <1>6 DEF Copy
  <2> QED BY <2>1, <1>2 DEF genVars, GenInv, GenTypes
<1>7. CASE GenFirst
  BY <1>1, <1>2, <1>7, GenFirstGen
<1>8. CASE GenNext
  BY <1>1, <1>2, <1>8, GenNextGen
<1>9. CASE UNCHANGED vars
  <2>1. /\ hdir' = hdir /\ mask' = mask /\ alloc' = alloc /\ hashnum' = hashnum /\ live' = live
        /\ clink' = clink /\ on' = on /\ gen' = gen /\ yielded' = yielded /\ stable' = stable
    BY <1>9 DEF vars, tableVars, genVars
  <2>2. CASE ~on
    BY <2>1, <2>2, <1>2 DEF GenInv, GenTypes
  <2>3. CASE on
    <3>1. PICK low, k, R : Built(low) /\ Standing(low, k, R)
      BY <2>3, <1>2 DEF GenInv
    <3>2. Built(low)' /\ Standing(low, k, R)'
      BY <3>1, <2>1 DEF Built, Standing
    <3>3. GenTypes'
      BY <2>1, <1>2 DEF GenInv, GenTypes
    <3> HIDE DEF Built, Standing, GenTypes
    <3> QED BY <3>2, <3>3, <2>1, <2>3 DEF GenInv
  <2> QED BY <2>2, <2>3
<1> QED BY <1>3, <1>4, <1>5, <1>6, <1>7, <1>8, <1>9 DEF Next

\* The chains list the elements of their slots in order, and the generator
\* stands where the elements it came by are those it generated or is done with.
THEOREM Invariant == Spec => []Inv
<1>1. Init => Inv
  BY InitTable, InitGen DEF Inv
<1>2. Inv /\ [Next]_vars => Inv'
  BY TableStep, GenStep DEF Inv
<1> QED BY <1>1, <1>2, PTL DEF Spec

LEMMA TypesFromInv == ASSUME Inv PROVE TypeOK
<1>1. PICK top : Built(top)
  BY DEF Inv, TableInv
<1>2. Counted /\ GenTypes /\ GenInv
  BY DEF Inv, TableInv, GenInv
<1>3. top \in 0 .. HSegs - 1 /\ top \in Nat /\ DOMAIN hdir = 0 .. top /\ mask = Slots(top) - 1
      /\ Slots(top) \in Nat \ {0, 1}
  BY <1>1, TopNat DEF Built, Table, Shape
<1>4. ASSUME NEW s \in 0 .. top PROVE hdir[s] \in [0 .. segsize(s) - 1 -> Seq(1 .. alloc)]
  <2>1. hdir[s] \in [0 .. segsize(s) - 1 -> Seq(Elem)]
    BY <1>1 DEF Built, Table, Shape
  <2>2. ASSUME NEW j \in 0 .. segsize(s) - 1 PROVE hdir[s][j] \in Seq(1 .. alloc)
    <3> DEFINE g == Before(s) + j
               c == hdir[s][j]
    <3>1. g \in 0 .. Slots(top) - 1 /\ Chain(hdir, g) = c
      BY <1>1, ShapeChain DEF Built, Table
    <3>2. Lists(hashnum, c, Slotted(hashnum, live, top, g))
      BY <3>1, <1>1 DEF Built, Table
    <3>3. c \in Seq(Elem) /\ \A i \in DOMAIN c : c[i] \in 1 .. alloc
      BY <3>2, <1>2 DEF Lists, Slotted, Counted
    <3> DEFINE V == 1 .. alloc
    <3>4. c \in Seq(Elem) /\ \A i \in DOMAIN c : c[i] \in V
      BY <3>3
    <3> HIDE DEF c, V
    <3>5. c \in Seq(V)
      BY <3>4
    <3> QED BY <3>5 DEF c, V
  <2> QED BY <2>1, <2>2
<1>5. size \in 0 .. MaxElem /\ alloc \in 0 .. MaxElem /\ hashnum \in [Elem -> Hash \cup {0}]
  BY <1>2, HashNat DEF Counted
<1>6. gen.ep \in Elem \cup {End} /\ gen.slot \in 0 .. mask
  <2>1. CASE ~on
    <3>1. gen.ep = End /\ gen.slot = 0
      BY <2>1, <1>2 DEF GenInv, NoGen
    <3> QED BY <3>1, <1>3
  <2>2. CASE on
    <3>1. PICK low, k, R : Built(low) /\ Standing(low, k, R)
      BY <2>2, <1>2 DEF GenInv
    <3> QED BY <3>1, <1>2, StandingIs
  <2> QED BY <2>1, <2>2
<1>7. /\ live \subseteq 1 .. alloc /\ yielded \subseteq 1 .. alloc /\ stable \subseteq live
      /\ clink \in [Elem -> Elem \cup {End}] /\ on \in BOOLEAN
  BY <1>2 DEF Counted, GenTypes
<1> QED BY <1>3, <1>4, <1>5, <1>6, <1>7 DEF TypeOK

\* The variables keep their types; in particular mask accounts for exactly the
\* segments there are, and the generator's slot is one of them.
THEOREM TypeCorrect == Spec => []TypeOK
BY Invariant, TypesFromInv, PTL

\* Whatever is inserted, deleted and split between its calls, a generator that
\* comes to its end has generated every element that was there throughout.
THEOREM GeneratesAllCorrect == Spec => GeneratesAll
<1> DEFINE A == /\ on /\ ~on' => stable \subseteq yielded
                /\ GenFirst /\ ~on' => live = {}
<1>1. Inv /\ [Next]_vars => [A]_vars
  <2> SUFFICES ASSUME Inv, [Next]_vars, ~UNCHANGED vars PROVE A
    OBVIOUS
  <2>1. PICK top : Built(top)
    BY DEF Inv, TableInv
  <2>2. Counted /\ GenInv
    BY DEF Inv, TableInv
  <2>3. ASSUME GenFirst, ~on' PROVE live = {}
    BY <2>1, <2>2, <2>3, GenFirstGen
  <2>4. ASSUME on, ~on' PROVE stable \subseteq yielded
    <3>1. GenNext
      BY <2>4 DEF Next, Insert, Delete, Clear, Copy, GenFirst, genVars
    <3> QED BY <3>1, <2>1, <2>2, <2>4, GenNextGen
  <2> QED BY <2>3, <2>4
<1>2. Spec => [][A]_vars
  <2> HIDE DEF A
  <2> QED BY <1>1, Invariant, PTL DEF Spec
<1> QED BY <1>2 DEF GeneratesAll

\* It generates no element twice, a deleted one included.
THEOREM GeneratesOnceCorrect == Spec => GeneratesOnce
<1> DEFINE A == on /\ gen' # gen /\ on' => gen'.ep \notin yielded
<1>1. Inv /\ [Next]_vars => [A]_vars
  <2> SUFFICES ASSUME Inv, [Next]_vars, ~UNCHANGED vars, on, gen' # gen, on' PROVE gen'.ep \notin yielded
    OBVIOUS
  <2>1. PICK top : Built(top)
    BY DEF Inv, TableInv
  <2>2. Counted /\ GenInv
    BY DEF Inv, TableInv
  <2>3. GenNext
    BY DEF Next, Insert, Delete, Clear, Copy, GenFirst, genVars
  <2> QED BY <2>1, <2>2, <2>3, GenNextGen
<1>2. Spec => [][A]_vars
  <2> HIDE DEF A
  <2> QED BY <1>1, Invariant, PTL DEF Spec
<1> QED BY <1>2 DEF GeneratesOnce

==============================================================================
