--------------------------- MODULE ClassInitProofs ---------------------------
(***************************************************************************)
(* Proofs about Inheritance and ClassInit, for any finite set of classes,  *)
(* any programs of them and any co-expressions.                            *)
(*                                                                         *)
(* Of the linker: merge_c3 merges its lists, and fails only if they cannot *)
(* be merged (by induction on what is left to merge); the path on which a  *)
(* class is ordered is irrelevant to an order that does not fail; so what  *)
(* holds of the superclasses carries over to the class, and the orders are *)
(* what the classes above make them.                                       *)
(*                                                                         *)
(* Of initialization: Initializes ties the state of a class to the one     *)
(* frame that initializes it and to how far that frame is, and the frames  *)
(* of code to the classes whose use made them run.                         *)
(***************************************************************************)
EXTENDS ClassInit, Recursion

----------------------------------------------------------------------------
(* merge_c3 *)

Names == Class \cup {Failed}
Lists == Seq(Seq(Names))

\* What is left to merge.
Cells(lists) == UNION {{k} \X (1 .. Len(lists[k])) : k \in DOMAIN lists}
Size(lists) == Cardinality(Cells(lists))

\* There are finitely many of them.
LEMMA CellsFinite ==
  ASSUME NEW lists \in Lists
  PROVE  IsFiniteSet(Cells(lists)) /\ Size(lists) \in Nat
<1> DEFINE F == {{k} \X (1 .. Len(lists[k])) : k \in DOMAIN lists}
<1>1. DOMAIN lists = 1 .. Len(lists) /\ Len(lists) \in Nat
  BY DEF Lists
<1>2. IsFiniteSet(DOMAIN lists)
  BY <1>1, FS_Interval
<1>3. IsFiniteSet(F)
  <2>1. [k \in DOMAIN lists |-> {k} \X (1 .. Len(lists[k]))] \in Surjection(DOMAIN lists, F)
    BY DEF Surjection
  <2> QED BY <1>2, <2>1, FS_Surjection
<1>4. ASSUME NEW k \in DOMAIN lists PROVE IsFiniteSet({k} \X (1 .. Len(lists[k])))
  <2>1. Len(lists[k]) \in Nat
    BY DEF Lists
  <2>2. IsFiniteSet(1 .. Len(lists[k]))
    BY <2>1, FS_Interval
  <2>3. IsFiniteSet({k})
    BY FS_Singleton
  <2> QED BY <2>2, <2>3, FS_Product
<1>5. IsFiniteSet(UNION F)
  BY <1>3, <1>4, FS_UNION
<1> QED BY <1>5, FS_CardinalityType DEF Cells, Size

\* What sequences are made of.
LEMMA Elements ==
  ASSUME NEW V, NEW s \in Seq(V)
  PROVE  /\ DOMAIN s = 1 .. Len(s) /\ Len(s) \in Nat
         /\ ToSet(s) \subseteq V
         /\ \A i \in DOMAIN s : s[i] \in ToSet(s)
         /\ \A x \in ToSet(s) : \E i \in DOMAIN s : s[i] = x
         /\ s # <<>> => /\ Len(s) > 0 /\ Head(s) = s[1] /\ Head(s) \in V /\ Tail(s) \in Seq(V)
                        /\ Len(Tail(s)) = Len(s) - 1
                        /\ \A i \in 1 .. Len(s) - 1 : Tail(s)[i] = s[i + 1]
BY DEF ToSet

\* A sequence with one more member before it.
LEMMA Prefixed ==
  ASSUME NEW V, NEW x \in V, NEW s \in Seq(V)
  PROVE  /\ <<x>> \o s \in Seq(V) /\ Len(<<x>> \o s) = Len(s) + 1
         /\ (<<x>> \o s)[1] = x
         /\ \A i \in 1 .. Len(s) : (<<x>> \o s)[i + 1] = s[i]
         /\ Tail(<<x>> \o s) = s
         /\ ToSet(<<x>> \o s) = {x} \cup ToSet(s)
<1>1. /\ <<x>> \o s \in Seq(V) /\ Len(<<x>> \o s) = Len(s) + 1 /\ Len(s) \in Nat
      /\ (<<x>> \o s)[1] = x
      /\ \A i \in 1 .. Len(s) : (<<x>> \o s)[i + 1] = s[i]
  OBVIOUS
<1> DEFINE t == <<x>> \o s
<1> HIDE DEF t
<1>2. t \in Seq(V) /\ Len(t) = Len(s) + 1 /\ t[1] = x /\ \A i \in 1 .. Len(s) : t[i + 1] = s[i]
  BY <1>1 DEF t
<1>3. Tail(t) = s
  <2>1. t # <<>>
    BY <1>2, <1>1
  <2>2. Tail(t) \in Seq(V) /\ Len(Tail(t)) = Len(s) /\ \A i \in 1 .. Len(s) : Tail(t)[i] = s[i]
    BY <2>1, <1>1, <1>2, Elements
  <2> QED BY <2>2
<1>4. ToSet(t) = {x} \cup ToSet(s)
  <2>1. ASSUME NEW y \in ToSet(t) PROVE y \in {x} \cup ToSet(s)
    <3>1. PICK i \in 1 .. Len(s) + 1 : t[i] = y
      BY <1>2, Elements
    <3>2. CASE i = 1
      BY <3>1, <3>2, <1>2
    <3>3. CASE i # 1
      <4>1. i - 1 \in 1 .. Len(s) /\ (i - 1) + 1 = i
        BY <3>1, <3>3, <1>1
      <4>2. y = s[i - 1]
        BY <4>1, <3>1, <1>2
      <4> QED BY <4>1, <4>2, Elements
    <3> QED BY <3>2, <3>3
  <2>2. x \in ToSet(t)
    <3>1. 1 \in DOMAIN t
      BY <1>2, <1>1
    <3> QED BY <3>1, <1>2, Elements
  <2>3. ASSUME NEW y \in ToSet(s) PROVE y \in ToSet(t)
    <3>1. PICK i \in 1 .. Len(s) : s[i] = y
      BY Elements
    <3>2. i + 1 \in DOMAIN t /\ t[i + 1] = y
      BY <3>1, <1>2, <1>1
    <3> QED BY <3>2, <1>2, Elements
  <2> QED BY <2>1, <2>2, <2>3
<1> QED BY <1>1, <1>3, <1>4 DEF t

\* The head that merge1_c3 takes is in no list but as its head.
LEMMA ChosenHead ==
  ASSUME NEW lists \in Lists, Candidates(lists) # {}
  PROVE  /\ \E k \in DOMAIN lists : lists[k] # <<>> /\ Head(lists[k]) = Chosen(lists)
         /\ Chosen(lists) \in Names
         /\ ~InTail(lists, Chosen(lists))
<1> DEFINE C == Candidates(lists)
           Least(k) == \A j \in C : k <= j
           k0 == CHOOSE k \in C : Least(k)
<1>1. DOMAIN lists = 1 .. Len(lists) /\ Len(lists) \in Nat
  BY DEF Lists
<1>2. C \in SUBSET Nat
  BY <1>1 DEF Candidates
<1>3. \E k \in C : Least(k)
  BY <1>2, LeastElement
<1>4. k0 \in C
  <2> HIDE DEF C, Least
  <2> QED BY <1>3
<1>5. Chosen(lists) = Head(lists[k0])
  BY DEF Chosen
<1> HIDE DEF k0
<1>6. k0 \in DOMAIN lists /\ lists[k0] # <<>> /\ ~InTail(lists, Head(lists[k0]))
  BY <1>4 DEF Candidates
<1>7. Head(lists[k0]) \in Names
  BY <1>6 DEF Lists
<1> QED BY <1>5, <1>6, <1>7

\* What is left of the lists without a head that is in no tail.
LEMMA WithoutHead ==
  ASSUME NEW lists \in Lists, NEW h \in Names, ~InTail(lists, h)
  PROVE  /\ Without(lists, h) \in Lists
         /\ DOMAIN Without(lists, h) = DOMAIN lists
         /\ \A k \in DOMAIN lists :
              ToSet(Without(lists, h)[k]) = ToSet(lists[k]) \ {h}
         /\ \A k \in DOMAIN lists :
              \/ Without(lists, h)[k] = lists[k] /\ h \notin ToSet(lists[k])
              \/ /\ lists[k] # <<>> /\ lists[k][1] = h
                 /\ Len(Without(lists, h)[k]) = Len(lists[k]) - 1
                 /\ \A i \in 1 .. Len(lists[k]) - 1 : Without(lists, h)[k][i] = lists[k][i + 1]
<1> DEFINE W == Without(lists, h)
<1>1. DOMAIN lists = 1 .. Len(lists) /\ Len(lists) \in Nat
  BY DEF Lists
<1>2. DOMAIN W = DOMAIN lists
  BY DEF Without
<1>3. ASSUME NEW k \in DOMAIN lists
      PROVE  W[k] = IF lists[k] # <<>> /\ Head(lists[k]) = h THEN Tail(lists[k]) ELSE lists[k]
  BY DEF Without
<1> HIDE DEF W
<1>4. ASSUME NEW k \in DOMAIN lists
      PROVE  /\ W[k] \in Seq(Names)
             /\ ToSet(W[k]) = ToSet(lists[k]) \ {h}
             /\ \/ W[k] = lists[k] /\ h \notin ToSet(lists[k])
                \/ /\ lists[k] # <<>> /\ lists[k][1] = h
                   /\ Len(W[k]) = Len(lists[k]) - 1
                   /\ \A i \in 1 .. Len(lists[k]) - 1 : W[k][i] = lists[k][i + 1]
  <2> DEFINE s == lists[k]
  <2>1. s \in Seq(Names)
    BY DEF Lists
  <2>2. s # <<>> => h \notin ToSet(Tail(s))
    BY DEF InTail
  <2>3. W[k] = IF s # <<>> /\ Head(s) = h THEN Tail(s) ELSE s
    BY <1>3
  <2> HIDE DEF s
  <2>4. s # <<>> => ToSet(s) = {Head(s)} \cup ToSet(Tail(s))
    <3> SUFFICES ASSUME s # <<>> PROVE ToSet(s) = {Head(s)} \cup ToSet(Tail(s))
      OBVIOUS
    <3>1. Tail(s) \in Seq(Names) /\ Head(s) \in Names
      BY <2>1, Elements
    <3>2. s = <<Head(s)>> \o Tail(s)
      BY <2>1
    <3>3. ToSet(<<Head(s)>> \o Tail(s)) = {Head(s)} \cup ToSet(Tail(s))
      BY <3>1, Prefixed
    <3> QED BY <3>2, <3>3
  <2>5. CASE s # <<>> /\ Head(s) = h
    <3>1. W[k] = Tail(s)
      BY <2>3, <2>5
    <3> QED BY <2>1, <2>2, <2>4, <2>5, <3>1, Elements DEF s
  <2>6. CASE s # <<>> /\ Head(s) # h
    BY <2>1, <2>2, <2>3, <2>4, <2>6 DEF s
  <2>7. CASE s = <<>>
    <3>1. ToSet(s) = {}
      BY <2>7 DEF ToSet
    <3> QED BY <2>1, <2>3, <2>7, <3>1 DEF s
  <2> QED BY <2>5, <2>6, <2>7
<1>5. W \in Lists
  <2>1. W = [k \in 1 .. Len(lists) |-> W[k]]
    BY <1>1, <1>2 DEF W, Without
  <2> QED BY <1>1, <1>4, <2>1 DEF Lists
<1> QED BY <1>2, <1>4, <1>5 DEF W

\* A step of merge_c3 leaves less to merge.
LEMMA LessLeft ==
  ASSUME NEW lists \in Lists, Candidates(lists) # {}
  PROVE  /\ Without(lists, Chosen(lists)) \in Lists
         /\ Size(Without(lists, Chosen(lists))) < Size(lists)
<1> DEFINE h == Chosen(lists)
           W == Without(lists, h)
<1>1. h \in Names /\ ~InTail(lists, h)
  BY ChosenHead
<1>2. PICK k \in DOMAIN lists : lists[k] # <<>> /\ Head(lists[k]) = h
  BY ChosenHead
<1> HIDE DEF h
<1>3. W \in Lists /\ DOMAIN W = DOMAIN lists
  BY <1>1, WithoutHead
<1>4. ASSUME NEW j \in DOMAIN lists
      PROVE  /\ Len(W[j]) \in Nat /\ Len(lists[j]) \in Nat
             /\ Len(W[j]) <= Len(lists[j])
             /\ j = k => Len(W[j]) = Len(lists[j]) - 1
  <2>1. lists[j] \in Seq(Names) /\ W[j] \in Seq(Names)
    BY <1>3 DEF Lists
  <2>2. Len(W[j]) \in Nat /\ Len(lists[j]) \in Nat
    BY <2>1
  <2>3. /\ \/ W[j] = lists[j] /\ h \notin ToSet(lists[j])
           \/ Len(W[j]) = Len(lists[j]) - 1
    BY <1>1, WithoutHead
  <2>4. j = k => h \in ToSet(lists[j])
    <3> SUFFICES ASSUME j = k PROVE h \in ToSet(lists[j])
      OBVIOUS
    <3>1. 1 \in DOMAIN lists[j] /\ lists[j][1] = h
      BY <1>2, <2>1
    <3> QED BY <3>1, <2>1, Elements
  <2> QED BY <2>2, <2>3, <2>4
<1> HIDE DEF W
<1>5. Cells(W) \subseteq Cells(lists)
  <2> SUFFICES ASSUME NEW j \in DOMAIN lists, NEW i \in 1 .. Len(W[j])
               PROVE  i \in 1 .. Len(lists[j])
    BY <1>3 DEF Cells
  <2> QED BY <1>4
<1>6. <<k, Len(lists[k])>> \in Cells(lists) \ Cells(W)
  <2>1. Len(lists[k]) \in 1 .. Len(lists[k])
    <3>1. lists[k] \in Seq(Names)
      BY DEF Lists
    <3> QED BY <3>1, <1>2
  <2>2. Len(lists[k]) \notin 1 .. Len(W[k])
    BY <1>4
  <2> QED BY <2>1, <2>2, <1>3 DEF Cells
<1>7. IsFiniteSet(Cells(lists)) /\ Size(lists) \in Nat /\ Size(W) \in Nat
  BY <1>3, CellsFinite
<1>8. Size(W) <= Size(lists) /\ Size(W) # Size(lists)
  BY <1>5, <1>6, <1>7, FS_Subset DEF Size
<1> QED BY <1>3, <1>7, <1>8 DEF W, h

AllEmpty(lists) == \A k \in DOMAIN lists : lists[k] = <<>>

\* merge_c3, one step at a time.
LEMMA MergeSteps ==
  /\ Merge \in [Lists -> Seq(Names)]
  /\ \A lists \in Lists :
       Merge[lists] = IF AllEmpty(lists) THEN <<>>
                      ELSE IF Candidates(lists) = {} THEN <<Failed>>
                      ELSE <<Chosen(lists)>> \o Merge[Without(lists, Chosen(lists))]
<1> DEFINE Rest(lists) == Without(lists, Chosen(lists))
           Step(f, lists) == IF AllEmpty(lists) THEN <<>>
                             ELSE IF Candidates(lists) = {} THEN <<Failed>>
                             ELSE <<Chosen(lists)>> \o f[Rest(lists)]
           P(f) == f = [lists \in Lists |-> Step(f, lists)]
           V == Seq(Names)
           rank == [lists \in Lists |-> Size(lists)]
           b == [p \in [Lists -> V] \X Lists |-> Step(p[1], p[2])]
<1>1. ASSUME NEW f \in [Lists -> V], NEW lists \in Lists PROVE Step(f, lists) \in V
  <2>1. CASE Candidates(lists) # {}
    <3>1. Rest(lists) \in Lists /\ Chosen(lists) \in Names
      BY <2>1, LessLeft, ChosenHead
    <3>2. f[Rest(lists)] \in V
      BY <3>1
    <3> HIDE DEF Rest
    <3>3. <<Chosen(lists)>> \o f[Rest(lists)] \in V /\ <<>> \in V
      BY <3>1, <3>2
    <3> HIDE DEF V
    <3> QED BY <2>1, <3>3
  <2>2. CASE Candidates(lists) = {}
    <3>1. <<Failed>> \in V /\ <<>> \in V
      BY DEF Names
    <3> HIDE DEF V
    <3> QED BY <2>2, <3>1
  <2> QED BY <2>1, <2>2
<1>2. ASSUME NEW f \in [Lists -> V], NEW g \in [Lists -> V], NEW lists \in Lists,
             \A l \in Lists : rank[l] < rank[lists] => f[l] = g[l]
      PROVE  Step(f, lists) = Step(g, lists)
  <2>1. CASE Candidates(lists) # {}
    <3>1. Rest(lists) \in Lists /\ Size(Rest(lists)) < Size(lists)
      BY <2>1, LessLeft
    <3>2. f[Rest(lists)] = g[Rest(lists)]
      BY <3>1, <1>2
    <3> HIDE DEF Rest
    <3> QED BY <3>2
  <2>2. CASE Candidates(lists) = {}
    BY <2>2
  <2> QED BY <2>1, <2>2
<1> HIDE DEF Step
<1>3. rank \in [Lists -> Nat]
  BY CellsFinite
<1>4. b \in [[Lists -> V] \X Lists -> V]
  BY <1>1
<1>5. \A f \in [Lists -> V], lists \in Lists : b[<<f, lists>>] = Step(f, lists)
  OBVIOUS
<1> HIDE DEF b, rank, V
<1>6. Given(Lists, V, rank, b)
  BY <1>2, <1>3, <1>4, <1>5 DEF Given
<1>7. <<>> \in V
  BY DEF V
<1>8. PICK f \in [Lists -> V] : \A lists \in Lists : f[lists] = b[<<f, lists>>]
  BY <1>6, <1>7, RankedExists
<1>9. P(f)
  BY <1>5, <1>8
<1>10. Merge = CHOOSE g : P(g)
  BY DEF Merge, Step, Rest, AllEmpty, Lists, Names
<1>11. P(Merge)
  <2> HIDE DEF P
  <2> QED BY <1>9, <1>10
<1>12. \A lists \in Lists : Merge[lists] = Step(Merge, lists)
  BY <1>11
<1> DEFINE S == {l \in Lists : Merge[l] \in V}
           below(n) == \A l \in Lists : Size(l) < n => Merge[l] \in V
           T == {n \in Nat : below(n)}
<1>13. ASSUME NEW n \in Nat, below(n) PROVE below(n + 1)
  <2> SUFFICES ASSUME NEW l \in Lists, Size(l) < n + 1 PROVE Merge[l] \in V
    OBVIOUS
  <2>1. CASE Candidates(l) # {}
    <3>1. Rest(l) \in Lists /\ Chosen(l) \in Names /\ Size(Rest(l)) < Size(l)
      BY <2>1, LessLeft, ChosenHead
    <3>2. Size(Rest(l)) \in Nat /\ Size(l) \in Nat
      BY <3>1, CellsFinite
    <3>3. Merge[Rest(l)] \in V
      BY <1>13, <3>1, <3>2
    <3> HIDE DEF Rest
    <3>4. <<Chosen(l)>> \o Merge[Rest(l)] \in V
      BY <3>1, <3>3 DEF V
    <3>5. <<>> \in V
      BY DEF V
    <3> QED BY <3>4, <3>5, <1>12, <2>1 DEF Step
  <2>2. CASE Candidates(l) = {}
    <3>1. <<Failed>> \in V /\ <<>> \in V
      BY DEF V, Names
    <3> QED BY <2>2, <3>1, <1>12 DEF Step
  <2> QED BY <2>1, <2>2
<1>14. below(0)
  BY CellsFinite
<1>15. \A n \in Nat : n \in T
  <2>1. 0 \in T
    BY <1>14
  <2>2. ASSUME NEW n \in Nat, n \in T PROVE n + 1 \in T
    <3> HIDE DEF below
    <3> QED BY <1>13, <2>2
  <2> HIDE DEF T
  <2> QED BY <2>1, <2>2, NatInductionSet
<1>16. ASSUME NEW l \in Lists PROVE Merge[l] \in V
  <2>1. Size(l) \in Nat /\ Size(l) + 1 \in Nat /\ Size(l) < Size(l) + 1
    BY CellsFinite
  <2>2. below(Size(l) + 1)
    BY <1>15, <2>1
  <2> QED BY <2>1, <2>2
<1>17. Merge \in [Lists -> V]
  <2>1. Merge = [l \in Lists |-> Merge[l]]
    <3>1. Merge = [l \in Lists |-> Step(Merge, l)]
      BY <1>11
    <3> QED BY <3>1
  <2> QED BY <1>16, <2>1
<1> QED BY <1>12, <1>17 DEF Step, Rest, V

\* What holds of all lists if it holds when nothing is left or nothing can be
\* taken, and after a head is taken that it holds without.
LEMMA MergeInduction ==
  ASSUME NEW S,
         \A l \in Lists : Candidates(l) = {} => l \in S,
         \A l \in Lists : Candidates(l) # {} /\ Without(l, Chosen(l)) \in S => l \in S
  PROVE  Lists \subseteq S
<1> DEFINE T == {n \in Nat : \A l \in Lists : Size(l) < n => l \in S}
<1>1. 0 \in T
  BY CellsFinite
<1>2. ASSUME NEW n \in Nat, n \in T PROVE n + 1 \in T
  <2> SUFFICES ASSUME NEW l \in Lists, Size(l) < n + 1, Candidates(l) # {} PROVE l \in S
    OBVIOUS
  <2> DEFINE w == Without(l, Chosen(l))
  <2>1. w \in Lists /\ Size(w) < Size(l)
    BY LessLeft
  <2>2. Size(w) \in Nat /\ Size(l) \in Nat
    BY <2>1, CellsFinite
  <2>3. w \in S
    BY <1>2, <2>1, <2>2
  <2> QED BY <2>3
<1>3. \A n \in Nat : n \in T
  <2> HIDE DEF T
  <2> QED BY <1>1, <1>2, NatInductionSet
<1>4. ASSUME NEW l \in Lists PROVE l \in S
  <2>1. Size(l) \in Nat /\ Size(l) + 1 \in Nat /\ Size(l) < Size(l) + 1
    BY CellsFinite
  <2> QED BY <1>3, <2>1
<1> QED BY <1>4

Clean(s) == Failed \notin ToSet(s)
Distinct(s) == \A i, j \in DOMAIN s : s[i] = s[j] => i = j
Before(s, x, y) == \E i, j \in DOMAIN s : i < j /\ s[i] = x /\ s[j] = y

\* m merges the lists: if it does not fail, it has their members, each once, in an
\* order that keeps those of the lists.
Merges(lists, m) ==
  /\ ToSet(m) \subseteq (UNION {ToSet(lists[k]) : k \in DOMAIN lists}) \cup {Failed}
  /\ Clean(m) =>
       /\ \A k \in DOMAIN lists : ToSet(lists[k]) \subseteq ToSet(m)
       /\ Distinct(m)
       /\ \A k \in DOMAIN lists : \A i, j \in DOMAIN lists[k] :
            i < j => Before(m, lists[k][i], lists[k][j])

\* merge_c3 merges the lists.
LEMMA MergeMerges == \A lists \in Lists : Merges(lists, Merge[lists])
<1> DEFINE S == {l \in Lists : Merges(l, Merge[l])}
<1>1. ASSUME NEW l \in Lists, Candidates(l) = {} PROVE Merges(l, Merge[l])
  <2>1. CASE AllEmpty(l)
    <3>1. Merge[l] = <<>>
      BY <2>1, MergeSteps
    <3>2. ToSet(<<>>) = {}
      BY DEF ToSet
    <3>3. \A k \in DOMAIN l : l[k] = <<>>
      BY <2>1 DEF AllEmpty
    <3>4. \A k \in DOMAIN l : ToSet(l[k]) = {} /\ DOMAIN l[k] = {}
      BY <3>2, <3>3
    <3>5. Distinct(<<>>)
      BY DEF Distinct
    <3> QED BY <3>1, <3>2, <3>4, <3>5 DEF Merges
  <2>2. CASE ~AllEmpty(l)
    <3>1. Merge[l] = <<Failed>>
      BY <2>2, <1>1, MergeSteps
    <3>2. ToSet(<<Failed>>) = {Failed}
      BY DEF ToSet
    <3>3. ~Clean(<<Failed>>)
      BY <3>2 DEF Clean
    <3> DEFINE t == <<Failed>>
    <3> HIDE DEF t
    <3>4. Merges(l, t)
      BY <3>2, <3>3 DEF Merges, t
    <3> QED BY <3>1, <3>4 DEF t
  <2> QED BY <2>1, <2>2
<1>2. ASSUME NEW l \in Lists, Candidates(l) # {},
             Merges(Without(l, Chosen(l)), Merge[Without(l, Chosen(l))])
      PROVE  Merges(l, Merge[l])
  <2> DEFINE h == Chosen(l)
             w == Without(l, h)
             r == Merge[w]
             m == Merge[l]
  <2>1. h \in Names /\ ~InTail(l, h)
    BY <1>2, ChosenHead
  <2>2. PICK k0 \in DOMAIN l : l[k0] # <<>> /\ Head(l[k0]) = h
    BY <1>2, ChosenHead
  <2>3. w \in Lists /\ r \in Seq(Names) /\ Merges(w, r)
    BY <1>2, <2>1, WithoutHead, MergeSteps
  <2>4. m = <<h>> \o r
    <3>1. ~AllEmpty(l)
      BY <2>2 DEF AllEmpty
    <3> QED BY <1>2, <3>1, MergeSteps
  <2>5. /\ DOMAIN w = DOMAIN l
        /\ \A k \in DOMAIN l : ToSet(w[k]) = ToSet(l[k]) \ {h}
    BY <2>1, WithoutHead
  <2>6. \A k \in DOMAIN l :
          \/ w[k] = l[k]
          \/ /\ l[k] # <<>> /\ l[k][1] = h /\ Len(w[k]) = Len(l[k]) - 1
             /\ \A i \in 1 .. Len(l[k]) - 1 : w[k][i] = l[k][i + 1]
    BY <2>1, WithoutHead
  <2>7. \A k \in DOMAIN l : l[k] \in Seq(Names) /\ w[k] \in Seq(Names)
    BY <2>3, <2>5 DEF Lists
  <2> HIDE DEF h, w, r, m
  <2>8. h \in ToSet(l[k0])
    BY <2>2, <2>7, Elements
  <2>9. /\ m \in Seq(Names) /\ Len(m) = Len(r) + 1 /\ m[1] = h
        /\ \A i \in 1 .. Len(r) : m[i + 1] = r[i]
        /\ ToSet(m) = {h} \cup ToSet(r)
    BY <2>1, <2>3, <2>4, Prefixed
  <2>10. Len(r) \in Nat /\ DOMAIN r = 1 .. Len(r) /\ DOMAIN m = 1 .. Len(r) + 1
    BY <2>3, <2>9
  <2>11. ToSet(m) \subseteq (UNION {ToSet(l[k]) : k \in DOMAIN l}) \cup {Failed}
    <3>1. ToSet(r) \subseteq (UNION {ToSet(w[k]) : k \in DOMAIN w}) \cup {Failed}
      BY <2>3 DEF Merges
    <3>2. UNION {ToSet(w[k]) : k \in DOMAIN w} \subseteq UNION {ToSet(l[k]) : k \in DOMAIN l}
      BY <2>5
    <3> QED BY <2>8, <2>9, <3>1, <3>2
  <2>12. ASSUME Clean(m)
         PROVE  /\ \A k \in DOMAIN l : ToSet(l[k]) \subseteq ToSet(m)
                /\ Distinct(m)
                /\ \A k \in DOMAIN l : \A i, j \in DOMAIN l[k] :
                     i < j => Before(m, l[k][i], l[k][j])
    <3>1. Clean(r) /\ h # Failed
      BY <2>12, <2>9 DEF Clean
    <3>2. /\ ToSet(r) \subseteq UNION {ToSet(w[k]) : k \in DOMAIN l}
          /\ \A k \in DOMAIN l : ToSet(w[k]) \subseteq ToSet(r)
          /\ Distinct(r)
          /\ \A k \in DOMAIN l : \A i, j \in DOMAIN w[k] : i < j => Before(r, w[k][i], w[k][j])
      <4>1. ToSet(r) \subseteq (UNION {ToSet(w[k]) : k \in DOMAIN w}) \cup {Failed}
        BY <2>3 DEF Merges
      <4>2. ToSet(r) \subseteq UNION {ToSet(w[k]) : k \in DOMAIN l}
        <5> SUFFICES ASSUME NEW x \in ToSet(r) PROVE x \in UNION {ToSet(w[k]) : k \in DOMAIN l}
          OBVIOUS
        <5>1. x # Failed
          BY <3>1 DEF Clean
        <5>2. PICK k \in DOMAIN w : x \in ToSet(w[k])
          BY <4>1, <5>1
        <5> QED BY <5>2, <2>5
      <4> QED BY <4>2, <2>3, <2>5, <3>1 DEF Merges
    <3>3. h \notin ToSet(r)
      BY <2>5, <3>2
    <3>4. \A k \in DOMAIN l : ToSet(l[k]) \subseteq ToSet(m)
      BY <2>5, <2>9, <3>2
    <3>5. ASSUME NEW i \in DOMAIN m, NEW j \in DOMAIN m, m[i] = m[j] PROVE i = j
      <4>1. \A n \in DOMAIN m : n # 1 => n - 1 \in DOMAIN r /\ m[n] = r[n - 1]
        <5> SUFFICES ASSUME NEW n \in DOMAIN m, n # 1 PROVE n - 1 \in DOMAIN r /\ m[n] = r[n - 1]
          OBVIOUS
        <5>1. n - 1 \in 1 .. Len(r) /\ (n - 1) + 1 = n
          BY <2>10
        <5> QED BY <5>1, <2>9, <2>10
      <4>2. \A n \in DOMAIN r : r[n] # h
        BY <2>3, <3>3, Elements
      <4>3. CASE i = 1 \/ j = 1
        BY <4>1, <4>2, <4>3, <3>5, <2>9
      <4>4. CASE i # 1 /\ j # 1
        <5>1. i - 1 = j - 1
          BY <4>1, <4>4, <3>5, <3>2 DEF Distinct
        <5> QED BY <5>1, <2>10
      <4> QED BY <4>3, <4>4
    <3>6. ASSUME NEW k \in DOMAIN l, NEW i \in DOMAIN l[k], NEW j \in DOMAIN l[k], i < j
          PROVE  Before(m, l[k][i], l[k][j])
      <4>1. \A x, y : Before(r, x, y) => Before(m, x, y)
        <5> SUFFICES ASSUME NEW p \in DOMAIN r, NEW q \in DOMAIN r, p < q
                     PROVE  Before(m, r[p], r[q])
          BY DEF Before
        <5>1. p + 1 \in DOMAIN m /\ q + 1 \in DOMAIN m /\ p + 1 < q + 1
          BY <2>10
        <5>2. m[p + 1] = r[p] /\ m[q + 1] = r[q]
          BY <2>9, <2>10
        <5> QED BY <5>1, <5>2 DEF Before
      <4>2. CASE w[k] = l[k]
        BY <4>1, <4>2, <3>2, <3>6
      <4>3. CASE /\ l[k] # <<>> /\ l[k][1] = h /\ Len(w[k]) = Len(l[k]) - 1
                 /\ \A n \in 1 .. Len(l[k]) - 1 : w[k][n] = l[k][n + 1]
        <5>1. /\ DOMAIN l[k] = 1 .. Len(l[k]) /\ Len(l[k]) \in Nat
              /\ DOMAIN w[k] = 1 .. Len(l[k]) - 1
          BY <2>7, <4>3
        <5>2. j - 1 \in DOMAIN w[k] /\ l[k][j] = w[k][j - 1]
          <6>1. j - 1 \in 1 .. Len(l[k]) - 1 /\ (j - 1) + 1 = j
            BY <5>1, <3>6
          <6> QED BY <6>1, <5>1, <4>3
        <5>3. CASE i = 1
          <6>1. l[k][j] \in ToSet(r)
            BY <5>2, <3>2, <2>7, Elements
          <6>2. PICK q \in DOMAIN r : r[q] = l[k][j]
            BY <6>1, <2>3, Elements
          <6>3. 1 \in DOMAIN m /\ q + 1 \in DOMAIN m /\ 1 < q + 1 /\ m[q + 1] = r[q]
            BY <2>9, <2>10
          <6> QED BY <6>2, <6>3, <5>3, <4>3, <2>9 DEF Before
        <5>4. CASE i # 1
          <6>1. i - 1 \in 1 .. Len(l[k]) - 1 /\ (i - 1) + 1 = i /\ i - 1 < j - 1
            BY <5>1, <5>4, <3>6
          <6>2. l[k][i] = w[k][i - 1]
            BY <6>1, <4>3
          <6> QED BY <6>1, <6>2, <5>1, <5>2, <3>2, <4>1
        <5> QED BY <5>3, <5>4
      <4> QED BY <4>2, <4>3, <2>6
    <3> QED BY <3>4, <3>5, <3>6 DEF Distinct
  <2> QED BY <2>11, <2>12 DEF Merges, m
<1>3. Lists \subseteq S
  <2>1. \A l \in Lists : Candidates(l) = {} => l \in S
    BY <1>1
  <2>2. \A l \in Lists : Candidates(l) # {} /\ Without(l, Chosen(l)) \in S => l \in S
    BY <1>2
  <2> HIDE DEF S
  <2> QED BY <2>1, <2>2, MergeInduction
<1> QED BY <1>3

\* pos ranks the classes as the lists do.
Ranks(pos, lists) ==
  \A k \in DOMAIN lists :
    /\ \A i \in DOMAIN lists[k] : lists[k][i] # Failed
    /\ \A i, j \in DOMAIN lists[k] : i < j => pos[lists[k][i]] < pos[lists[k][j]]

\* merge_c3 does not fail if the classes can be ordered as the lists are: the head
\* of the lowest rank is in no tail.
LEMMA MergeComplete ==
  ASSUME NEW pos \in [Names -> Nat]
  PROVE  \A lists \in Lists : Ranks(pos, lists) => Clean(Merge[lists])
<1> DEFINE S == {l \in Lists : Ranks(pos, l) => Clean(Merge[l])}
<1>1. ASSUME NEW l \in Lists, Candidates(l) = {}, Ranks(pos, l) PROVE Clean(Merge[l])
  <2>1. CASE AllEmpty(l)
    <3>1. Merge[l] = <<>>
      BY <2>1, MergeSteps
    <3> QED BY <3>1 DEF Clean, ToSet
  <2>2. CASE ~AllEmpty(l)
    <3> DEFINE K == {k \in DOMAIN l : l[k] # <<>>}
               T == {pos[Head(l[k])] : k \in K}
    <3>1. \A k \in K : l[k] \in Seq(Names) /\ Head(l[k]) \in Names
      BY DEF Lists
    <3>2. T \in SUBSET Nat /\ T # {}
      BY <3>1, <2>2 DEF AllEmpty
    <3>3. PICK n \in T : \A m \in T : n <= m
      BY <3>2, LeastElement
    <3>4. PICK k0 \in K : n = pos[Head(l[k0])]
      BY <3>3
    <3> DEFINE h == Head(l[k0])
    <3>5. ASSUME NEW k \in K, h \in ToSet(Tail(l[k])) PROVE FALSE
      <4>1. l[k] \in Seq(Names) /\ l[k] # <<>>
        BY <3>1
      <4>2. Tail(l[k]) \in Seq(Names) /\ Len(Tail(l[k])) = Len(l[k]) - 1 /\ Head(l[k]) = l[k][1]
            /\ \A i \in 1 .. Len(l[k]) - 1 : Tail(l[k])[i] = l[k][i + 1]
        BY <4>1, Elements
      <4>3. PICK i \in DOMAIN Tail(l[k]) : Tail(l[k])[i] = h
        BY <4>2, <3>5, Elements
      <4>4. i \in 1 .. Len(l[k]) - 1 /\ i + 1 \in DOMAIN l[k] /\ 1 \in DOMAIN l[k] /\ 1 < i + 1
        BY <4>1, <4>2, <4>3
      <4>5. pos[l[k][1]] < pos[l[k][i + 1]] /\ l[k][i + 1] = h
        BY <4>2, <4>3, <4>4, <1>1 DEF Ranks
      <4>6. pos[Head(l[k])] \in T
        OBVIOUS
      <4>7. n <= pos[Head(l[k])] /\ pos[Head(l[k])] < n
        BY <3>3, <3>4, <4>2, <4>5, <4>6
      <4>8. n \in Nat /\ pos[Head(l[k])] \in Nat
        BY <3>2, <3>3, <4>6
      <4> QED BY <4>7, <4>8
    <3>6. k0 \in Candidates(l)
      BY <3>5 DEF Candidates, InTail
    <3> QED BY <3>6, <1>1
  <2> QED BY <2>1, <2>2
<1>2. ASSUME NEW l \in Lists, Candidates(l) # {}, Ranks(pos, l),
             Ranks(pos, Without(l, Chosen(l))) => Clean(Merge[Without(l, Chosen(l))])
      PROVE  Clean(Merge[l])
  <2> DEFINE h == Chosen(l)
             w == Without(l, h)
  <2>1. h \in Names /\ ~InTail(l, h)
    BY <1>2, ChosenHead
  <2>2. PICK k0 \in DOMAIN l : l[k0] # <<>> /\ Head(l[k0]) = h
    BY <1>2, ChosenHead
  <2>3. w \in Lists /\ DOMAIN w = DOMAIN l
    BY <2>1, WithoutHead
  <2>4. \A k \in DOMAIN l :
          \/ w[k] = l[k]
          \/ /\ l[k] # <<>> /\ l[k][1] = h /\ Len(w[k]) = Len(l[k]) - 1
             /\ \A i \in 1 .. Len(l[k]) - 1 : w[k][i] = l[k][i + 1]
    BY <2>1, WithoutHead
  <2>5. \A k \in DOMAIN l : l[k] \in Seq(Names) /\ w[k] \in Seq(Names)
    BY <2>3 DEF Lists
  <2>6. ~AllEmpty(l)
    BY <2>2 DEF AllEmpty
  <2>7. Merge[l] = <<h>> \o Merge[w] /\ Merge[w] \in Seq(Names)
    BY <1>2, <2>3, <2>6, MergeSteps
  <2>8. h # Failed
    <3>1. 1 \in DOMAIN l[k0] /\ l[k0][1] = h
      BY <2>2, <2>5
    <3> QED BY <3>1, <1>2 DEF Ranks
  <2>9. Ranks(pos, w) => Clean(Merge[w])
    BY <1>2
  <2> HIDE DEF h, w
  <2>10. Ranks(pos, w)
    <3> SUFFICES ASSUME NEW k \in DOMAIN l
                 PROVE  /\ \A i \in DOMAIN w[k] : w[k][i] # Failed
                        /\ \A i, j \in DOMAIN w[k] : i < j => pos[w[k][i]] < pos[w[k][j]]
      BY <2>3 DEF Ranks
    <3>1. /\ \A i \in DOMAIN l[k] : l[k][i] # Failed
          /\ \A i, j \in DOMAIN l[k] : i < j => pos[l[k][i]] < pos[l[k][j]]
      BY <1>2 DEF Ranks
    <3>2. CASE w[k] = l[k]
      BY <3>1, <3>2
    <3>3. CASE /\ l[k] # <<>> /\ Len(w[k]) = Len(l[k]) - 1
               /\ \A i \in 1 .. Len(l[k]) - 1 : w[k][i] = l[k][i + 1]
      <4>1. \A i \in DOMAIN w[k] : i \in Nat /\ i + 1 \in DOMAIN l[k] /\ w[k][i] = l[k][i + 1]
        <5>1. /\ DOMAIN l[k] = 1 .. Len(l[k]) /\ Len(l[k]) \in Nat
              /\ DOMAIN w[k] = 1 .. Len(l[k]) - 1
          BY <2>5, <3>3
        <5>2. \A i \in 1 .. Len(l[k]) - 1 : i \in Nat /\ i + 1 \in 1 .. Len(l[k])
          BY <5>1
        <5> QED BY <5>1, <5>2, <3>3
      <4>2. \A i, j \in DOMAIN w[k] : i < j => i + 1 < j + 1
        BY <4>1
      <4> QED BY <3>1, <4>1, <4>2
    <3> QED BY <3>2, <3>3, <2>4
  <2>11. ToSet(Merge[l]) = {h} \cup ToSet(Merge[w])
    BY <2>1, <2>7, Prefixed
  <2> QED BY <2>8, <2>9, <2>10, <2>11 DEF Clean
<1>3. Lists \subseteq S
  <2>1. \A l \in Lists : Candidates(l) = {} => l \in S
    BY <1>1
  <2>2. \A l \in Lists : Candidates(l) # {} /\ Without(l, Chosen(l)) \in S => l \in S
    BY <1>2
  <2> HIDE DEF S
  <2> QED BY <2>1, <2>2, MergeInduction
<1> QED BY <1>3

----------------------------------------------------------------------------
(* linearize_c3 *)

\* A finite number of classes, whose superclasses are among them.
Hierarchy(supers) ==
  /\ DOMAIN supers \subseteq Class /\ IsFiniteSet(DOMAIN supers)
  /\ \A c \in DOMAIN supers : supers[c] \in Seq(DOMAIN supers)

\* What is merged for a class: the orders of its superclasses ss, and ss itself.
Orders(ss, of) == Append([k \in DOMAIN ss |-> of[ss[k]]], ss)

\* The lists that are merged for a class.
LEMMA OrdersLists ==
  ASSUME NEW C \in SUBSET Class, NEW ss \in Seq(C), NEW of \in [C -> Seq(Names)]
  PROVE  /\ Orders(ss, of) \in Lists
         /\ DOMAIN Orders(ss, of) = 1 .. Len(ss) + 1
         /\ DOMAIN ss = 1 .. Len(ss) /\ Len(ss) \in Nat
         /\ \A k \in DOMAIN ss : k \in DOMAIN Orders(ss, of) /\ Orders(ss, of)[k] = of[ss[k]]
         /\ Orders(ss, of)[Len(ss) + 1] = ss /\ Len(ss) + 1 \in DOMAIN Orders(ss, of)
<1> DEFINE o == [k \in DOMAIN ss |-> of[ss[k]]]
<1>1. DOMAIN ss = 1 .. Len(ss) /\ Len(ss) \in Nat /\ ss \in Seq(Names)
  BY DEF Names
<1>2. \A k \in DOMAIN ss : of[ss[k]] \in Seq(Names)
  OBVIOUS
<1>3. o \in Seq(Seq(Names)) /\ Len(o) = Len(ss) /\ \A k \in DOMAIN ss : o[k] = of[ss[k]]
  BY <1>1, <1>2
<1> HIDE DEF o
<1>4. /\ Append(o, ss) \in Seq(Seq(Names)) /\ Len(Append(o, ss)) = Len(ss) + 1
      /\ \A k \in 1 .. Len(ss) : Append(o, ss)[k] = o[k]
      /\ Append(o, ss)[Len(ss) + 1] = ss
  BY <1>1, <1>3
<1>5. DOMAIN Append(o, ss) = 1 .. Len(ss) + 1
  BY <1>4, <1>1
<1> QED BY <1>1, <1>3, <1>4, <1>5 DEF Orders, Lists, o

\* lin gives the orders of the classes below any path.
Linearizes(lin, supers) ==
  /\ lin \in [SUBSET DOMAIN supers -> [DOMAIN supers -> Seq(Names)]]
  /\ \A path \in SUBSET DOMAIN supers, c \in DOMAIN supers :
       lin[path][c] = IF c \in path THEN <<c, Failed>>
                      ELSE <<c>> \o Merge[Orders(supers[c], lin[path \cup {c}])]

\* linearize_c3 computes orders of classes below a path.
LEMMA LinearizeSteps ==
  ASSUME NEW supers, Hierarchy(supers)
  PROVE  \E lin : Linearizes(lin, supers) /\ Linearize(supers) = lin[{}]
<1> DEFINE C == DOMAIN supers
           D == SUBSET C
           O == [C -> Seq(Names)]
           Order(f, path, c) == IF c \in path THEN <<c, Failed>>
                                ELSE <<c>> \o Merge[Orders(supers[c], f[path \cup {c}])]
           Step(f, path) == [c \in C |-> Order(f, path, c)]
           P(f) == f = [path \in D |-> Step(f, path)]
           rank == [path \in D |-> Cardinality(C \ path)]
           b == [p \in [D -> O] \X D |-> Step(p[1], p[2])]
<1>1. C \in SUBSET Class /\ IsFiniteSet(C) /\ \A c \in C : supers[c] \in Seq(C)
  BY DEF Hierarchy
<1>2. ASSUME NEW f, NEW path \in D, NEW c \in C, c \notin path => f[path \cup {c}] \in O
      PROVE  Order(f, path, c) \in Seq(Names)
  <2>0. c \in Names /\ Failed \in Names
    BY <1>1 DEF Names
  <2>1. CASE c \in path
    BY <2>0, <2>1
  <2>2. CASE c \notin path
    <3>1. Orders(supers[c], f[path \cup {c}]) \in Lists
      BY <1>1, <1>2, <2>2, OrdersLists
    <3>2. Merge[Orders(supers[c], f[path \cup {c}])] \in Seq(Names)
      BY <3>1, MergeSteps
    <3> QED BY <2>0, <2>2, <3>2
  <2> QED BY <2>1, <2>2
<1>3. rank \in [D -> Nat]
  <2> SUFFICES ASSUME NEW path \in D PROVE Cardinality(C \ path) \in Nat
    OBVIOUS
  <2> QED BY <1>1, FS_Difference, FS_CardinalityType
<1>4. ASSUME NEW path \in D, NEW c \in C, c \notin path
      PROVE  path \cup {c} \in D /\ rank[path \cup {c}] < rank[path]
  <2>1. IsFiniteSet(C \ path) /\ C \ (path \cup {c}) = (C \ path) \ {c}
    BY <1>1, FS_Difference
  <2>2. Cardinality((C \ path) \ {c}) = Cardinality(C \ path) - 1
    BY <2>1, <1>4, FS_RemoveElement
  <2>3. rank[path] \in Nat
    BY <1>3
  <2> QED BY <2>1, <2>2, <2>3
<1>5. b \in [[D -> O] \X D -> O]
  <2>1. ASSUME NEW f \in [D -> O], NEW path \in D PROVE Step(f, path) \in O
    <3> SUFFICES ASSUME NEW c \in C PROVE Order(f, path, c) \in Seq(Names)
      OBVIOUS
    <3>1. f[path \cup {c}] \in O
      OBVIOUS
    <3> QED BY <1>2, <3>1
  <2> HIDE DEF Step
  <2> QED BY <2>1
<1>6. \A f \in [D -> O], path \in D : b[<<f, path>>] = Step(f, path)
  OBVIOUS
<1>7. ASSUME NEW f \in [D -> O], NEW g \in [D -> O], NEW path \in D,
             \A q \in D : rank[q] < rank[path] => f[q] = g[q]
      PROVE  Step(f, path) = Step(g, path)
  <2> SUFFICES ASSUME NEW c \in C PROVE Order(f, path, c) = Order(g, path, c)
    OBVIOUS
  <2>1. c \notin path => f[path \cup {c}] = g[path \cup {c}]
    BY <1>4, <1>7
  <2> QED BY <2>1
<1> HIDE DEF b, rank
<1>8. Given(D, O, rank, b)
  <2> HIDE DEF Step, D, O
  <2> QED BY <1>3, <1>5, <1>6, <1>7 DEF Given
<1>9. \E v \in O : TRUE
  <2>1. [c \in C |-> <<>>] \in O
    OBVIOUS
  <2> QED BY <2>1
<1>10. PICK f \in [D -> O] : \A path \in D : f[path] = b[<<f, path>>]
  <2> HIDE DEF D, O
  <2> QED BY <1>8, <1>9, RankedExists
<1>11. P(f)
  <2> HIDE DEF Step
  <2> QED BY <1>6, <1>10
<1> DEFINE lin == CHOOSE g : P(g)
<1>12. Linearize(supers) = lin[{}]
  BY DEF Linearize, Orders
<1>13. P(lin)
  <2> HIDE DEF P
  <2> QED BY <1>11
<1> HIDE DEF lin
<1>14. \A path \in D, c \in C : lin[path][c] = Order(lin, path, c)
  <2> HIDE DEF Order
  <2> QED BY <1>13
<1>15. \A path \in D : lin[path] = [c \in C |-> lin[path][c]]
  <2> HIDE DEF Order
  <2> QED BY <1>13
<1> DEFINE T == {n \in Nat : \A path \in D : rank[path] < n => lin[path] \in O}
<1>16. 0 \in T
  BY <1>3
<1>17. ASSUME NEW n \in Nat, n \in T PROVE n + 1 \in T
  <2> SUFFICES ASSUME NEW path \in D, rank[path] < n + 1 PROVE lin[path] \in O
    OBVIOUS
  <2> SUFFICES ASSUME NEW c \in C PROVE lin[path][c] \in Seq(Names)
    BY <1>15
  <2>1. c \notin path => lin[path \cup {c}] \in O
    <3> SUFFICES ASSUME c \notin path PROVE lin[path \cup {c}] \in O
      OBVIOUS
    <3>1. path \cup {c} \in D /\ rank[path \cup {c}] < rank[path]
      BY <1>4
    <3>2. rank[path \cup {c}] < n
      BY <3>1, <1>3
    <3> QED BY <3>1, <3>2, <1>17
  <2>2. Order(lin, path, c) \in Seq(Names)
    BY <1>2, <2>1
  <2> QED BY <2>2, <1>14
<1>18. \A n \in Nat : n \in T
  <2> HIDE DEF T
  <2> QED BY <1>16, <1>17, NatInductionSet
<1>19. ASSUME NEW path \in D PROVE lin[path] \in O
  <2>1. rank[path] \in Nat /\ rank[path] + 1 \in Nat /\ rank[path] < rank[path] + 1
    BY <1>3
  <2> QED BY <1>18, <2>1
<1>20. lin \in [D -> O]
  <2>1. lin = [path \in D |-> lin[path]]
    <3> HIDE DEF Step
    <3> QED BY <1>13
  <2> QED BY <1>19, <2>1
<1>21. Linearizes(lin, supers)
  BY <1>14, <1>20 DEF Linearizes
<1> QED BY <1>12, <1>21

\* s is the order of class c, if of gives those of its superclasses.
Steps(supers, of, c, s) ==
  LET lists == Orders(supers[c], of)
  IN /\ lists \in Lists /\ Merge[lists] \in Seq(Names) /\ s = <<c>> \o Merge[lists]
     /\ Clean(Merge[lists]) /\ Merges(lists, Merge[lists])
     /\ ToSet(s) = {c} \cup ToSet(Merge[lists])
     /\ ToSet(Merge[lists]) = UNION {ToSet(of[d]) : d \in ToSet(supers[c])}
     /\ \A d \in ToSet(supers[c]) : d \in DOMAIN supers /\ Clean(of[d])

\* A class that has an order is not on its path and has the merge of its superclasses'.
LEMMA CleanStep ==
  ASSUME NEW supers, Hierarchy(supers), NEW lin, Linearizes(lin, supers),
         NEW path \in SUBSET DOMAIN supers, NEW c \in DOMAIN supers, Clean(lin[path][c])
  PROVE  c \notin path /\ Steps(supers, lin[path \cup {c}], c, lin[path][c])
<1> DEFINE C == DOMAIN supers
           of == lin[path \cup {c}]
           ss == supers[c]
           lists == Orders(ss, of)
           m == Merge[lists]
<1>1. C \in SUBSET Class /\ ss \in Seq(C) /\ c \in Names /\ Failed \in Names
  BY DEF Hierarchy, Names
<1>2. of \in [C -> Seq(Names)]
  BY DEF Linearizes
<1>3. lin[path][c] = IF c \in path THEN <<c, Failed>> ELSE <<c>> \o m
  BY DEF Linearizes
<1>4. c \notin path
  <2>1. ToSet(<<c, Failed>>) = {c, Failed}
    BY DEF ToSet
  <2> QED BY <1>3, <2>1 DEF Clean
<1> HIDE DEF ss, of
<1>5. /\ lists \in Lists /\ DOMAIN lists = 1 .. Len(ss) + 1
      /\ DOMAIN ss = 1 .. Len(ss) /\ Len(ss) \in Nat
      /\ \A k \in DOMAIN ss : k \in DOMAIN lists /\ lists[k] = of[ss[k]]
      /\ lists[Len(ss) + 1] = ss /\ Len(ss) + 1 \in DOMAIN lists
  BY <1>1, <1>2, OrdersLists
<1> HIDE DEF lists
<1>6. m \in Seq(Names) /\ Merges(lists, m)
  BY <1>5, MergeSteps, MergeMerges
<1>7. lin[path][c] = <<c>> \o m /\ ToSet(lin[path][c]) = {c} \cup ToSet(m)
  BY <1>1, <1>3, <1>4, <1>6, Prefixed
<1>8. Clean(m)
  BY <1>7 DEF Clean
<1> HIDE DEF m
<1>9. ToSet(ss) = {ss[k] : k \in DOMAIN ss} /\ ToSet(ss) \subseteq C
  BY <1>1 DEF ToSet
<1>10. ASSUME NEW s \in ToSet(ss) PROVE s \in C /\ Clean(of[s]) /\ ToSet(of[s]) \subseteq ToSet(m)
  <2>1. PICK k \in DOMAIN ss : s = ss[k]
    BY <1>9
  <2>2. ToSet(of[s]) \subseteq ToSet(m)
    BY <2>1, <1>5, <1>6, <1>8 DEF Merges
  <2> QED BY <2>2, <1>8, <1>9 DEF Clean
<1>11. ASSUME NEW s \in ToSet(ss) PROVE s \in ToSet(of[s])
  <2>1. s \in C /\ s \in Names /\ path \cup {c} \in SUBSET C
    BY <1>1, <1>9 DEF Names
  <2>2. of[s] = IF s \in path \cup {c} THEN <<s, Failed>>
                ELSE <<s>> \o Merge[Orders(supers[s], lin[(path \cup {c}) \cup {s}])]
    BY <2>1 DEF Linearizes, of
  <2>3. s \notin path \cup {c}
    <3>1. ToSet(<<s, Failed>>) = {s, Failed}
      BY DEF ToSet
    <3> QED BY <2>2, <3>1, <1>10 DEF Clean
  <2> DEFINE r == Merge[Orders(supers[s], lin[(path \cup {c}) \cup {s}])]
  <2>4. r \in Seq(Names)
    <3>1. supers[s] \in Seq(C)
      BY <2>1 DEF Hierarchy
    <3>2. (path \cup {c}) \cup {s} \in SUBSET C
      BY <2>1
    <3>3. lin[(path \cup {c}) \cup {s}] \in [C -> Seq(Names)]
      BY <3>2 DEF Linearizes
    <3> QED BY <3>1, <3>3, <1>1, OrdersLists, MergeSteps
  <2> HIDE DEF r
  <2>5. ToSet(<<s>> \o r) = {s} \cup ToSet(r)
    BY <2>1, <2>4, Prefixed
  <2> QED BY <2>2, <2>3, <2>5 DEF r
<1>12. ToSet(m) = UNION {ToSet(of[s]) : s \in ToSet(ss)}
  <2>1. ASSUME NEW x \in ToSet(m) PROVE x \in UNION {ToSet(of[s]) : s \in ToSet(ss)}
    <3>1. PICK k \in DOMAIN lists : x \in ToSet(lists[k])
      BY <1>6, <1>8 DEF Merges, Clean
    <3>2. CASE k \in DOMAIN ss
      <4>1. lists[k] = of[ss[k]] /\ ss[k] \in ToSet(ss)
        BY <3>2, <1>5, <1>9
      <4> QED BY <3>1, <4>1
    <3>3. CASE k \notin DOMAIN ss
      <4>1. k = Len(ss) + 1
        BY <3>3, <1>5
      <4>2. x \in ToSet(ss)
        BY <3>1, <4>1, <1>5
      <4> QED BY <4>2, <1>11
    <3> QED BY <3>2, <3>3
  <2> QED BY <2>1, <1>10
<1> QED BY <1>4, <1>5, <1>6, <1>7, <1>8, <1>10, <1>12 DEF lists, m, of, ss, Steps

\* An order without failure does not depend on the path to its class, and has no class
\* of the path.
Stands(lin, C, path, c) ==
  Clean(lin[path][c]) =>
    /\ ToSet(lin[path][c]) \cap path = {}
    /\ \A q \in SUBSET C : ToSet(lin[path][c]) \cap q = {} => lin[q][c] = lin[path][c]

\* By induction on the classes that are not on the path.
LEMMA PathIrrelevant ==
  ASSUME NEW supers, Hierarchy(supers), NEW lin, Linearizes(lin, supers)
  PROVE  \A path \in SUBSET DOMAIN supers, c \in DOMAIN supers :
           Stands(lin, DOMAIN supers, path, c)
<1> DEFINE C == DOMAIN supers
           D == SUBSET C
           rank(path) == Cardinality(C \ path)
           T == {n \in Nat : \A path \in D : rank(path) < n => \A c \in C : Stands(lin, C, path, c)}
<1>1. IsFiniteSet(C) /\ \A c \in C : supers[c] \in Seq(C)
  BY DEF Hierarchy
<1>2. ASSUME NEW path \in D PROVE rank(path) \in Nat
  BY <1>1, FS_Difference, FS_CardinalityType
<1>3. ASSUME NEW path \in D, NEW c \in C, c \notin path
      PROVE  path \cup {c} \in D /\ rank(path \cup {c}) < rank(path)
  <2>1. IsFiniteSet(C \ path) /\ C \ (path \cup {c}) = (C \ path) \ {c}
    BY <1>1, FS_Difference
  <2>2. Cardinality((C \ path) \ {c}) = Cardinality(C \ path) - 1
    BY <2>1, <1>3, FS_RemoveElement
  <2> QED BY <2>1, <2>2, <1>2
<1>4. 0 \in T
  BY <1>2
<1>5. ASSUME NEW n \in Nat, n \in T PROVE n + 1 \in T
  <2> SUFFICES ASSUME NEW path \in D, rank(path) < n + 1, NEW c \in C, Clean(lin[path][c])
               PROVE  /\ ToSet(lin[path][c]) \cap path = {}
                      /\ \A q \in SUBSET C :
                           ToSet(lin[path][c]) \cap q = {} => lin[q][c] = lin[path][c]
    BY DEF Stands
  <2> DEFINE of == lin[path \cup {c}]
             ss == supers[c]
             m == Merge[Orders(ss, of)]
  <2>1. /\ c \notin path /\ lin[path][c] = <<c>> \o m
        /\ ToSet(lin[path][c]) = {c} \cup ToSet(m)
        /\ ToSet(m) = UNION {ToSet(of[s]) : s \in ToSet(ss)}
        /\ \A s \in ToSet(ss) : s \in C /\ Clean(of[s])
    <3>1. c \notin path /\ Steps(supers, lin[path \cup {c}], c, lin[path][c])
      BY CleanStep
    <3> QED BY <3>1 DEF Steps
  <2>2. path \cup {c} \in D /\ rank(path \cup {c}) < n
    <3>1. path \cup {c} \in D /\ rank(path \cup {c}) < rank(path)
      BY <1>3, <2>1
    <3> HIDE DEF rank
    <3> QED BY <3>1, <1>2
  <2>3. ASSUME NEW s \in ToSet(ss)
        PROVE  /\ ToSet(of[s]) \cap (path \cup {c}) = {}
               /\ \A q \in SUBSET C : ToSet(of[s]) \cap q = {} => lin[q][s] = of[s]
    <3>1. Stands(lin, C, path \cup {c}, s)
      BY <1>5, <2>1, <2>2
    <3> QED BY <3>1, <2>1 DEF Stands
  <2>4. ToSet(m) \cap (path \cup {c}) = {}
    <3> SUFFICES ASSUME NEW x \in ToSet(m) PROVE x \notin path \cup {c}
      OBVIOUS
    <3>1. PICK s \in ToSet(ss) : x \in ToSet(of[s])
      BY <2>1
    <3>2. ToSet(of[s]) \cap (path \cup {c}) = {}
      BY <2>3
    <3> HIDE DEF of
    <3> QED BY <3>1, <3>2
  <2>5. ASSUME NEW q \in SUBSET C, ToSet(lin[path][c]) \cap q = {} PROVE lin[q][c] = lin[path][c]
    <3>1. c \notin q /\ ToSet(m) \cap q = {}
      BY <2>1, <2>5
    <3>2. q \cup {c} \in SUBSET C
      OBVIOUS
    <3>3. \A s \in ToSet(ss) : lin[q \cup {c}][s] = of[s]
      <4> SUFFICES ASSUME NEW s \in ToSet(ss) PROVE lin[q \cup {c}][s] = of[s]
        OBVIOUS
      <4>1. ToSet(of[s]) \cap (q \cup {c}) = {}
        BY <2>1, <2>4, <3>1
      <4> QED BY <4>1, <3>2, <2>3
    <3>4. lin[q][c] = <<c>> \o Merge[Orders(ss, lin[q \cup {c}])]
      BY <3>1 DEF Linearizes
    <3>5. Orders(ss, lin[q \cup {c}]) = Orders(ss, of)
      <4> DEFINE o == lin[q \cup {c}]
      <4>1. \A k \in DOMAIN ss : o[ss[k]] = of[ss[k]]
        <5> SUFFICES ASSUME NEW k \in DOMAIN ss PROVE o[ss[k]] = of[ss[k]]
          OBVIOUS
        <5>1. ss[k] \in ToSet(ss)
          BY DEF ToSet
        <5> QED BY <5>1, <3>3
      <4> HIDE DEF o, of, ss
      <4>2. [k \in DOMAIN ss |-> o[ss[k]]] = [k \in DOMAIN ss |-> of[ss[k]]]
        BY <4>1
      <4> QED BY <4>2 DEF Orders, o
    <3> QED BY <2>1, <3>4, <3>5
  <2> QED BY <2>1, <2>4, <2>5
<1>6. \A n \in Nat : n \in T
  <2> HIDE DEF T
  <2> QED BY <1>4, <1>5, NatInductionSet
<1>7. ASSUME NEW path \in D, NEW c \in C PROVE Stands(lin, C, path, c)
  <2>1. rank(path) \in Nat /\ rank(path) + 1 \in Nat /\ rank(path) < rank(path) + 1
    BY <1>2
  <2> QED BY <1>6, <2>1
<1> QED BY <1>7

\* c has the order it should.
Ordered(supers, ord, c) ==
  Steps(supers, ord, c, ord[c]) /\ \A d \in ToSet(supers[c]) : c \notin ToSet(ord[d])

\* What linearize_c3 gives a class, in terms of the orders of its superclasses.
LEMMA OrderedExactly ==
  ASSUME NEW supers, Hierarchy(supers)
  PROVE  /\ Linearize(supers) \in [DOMAIN supers -> Seq(Names)]
         /\ \A c \in DOMAIN supers :
              LET ord == Linearize(supers)
              IN /\ ord[c] # <<>> /\ ord[c][1] = c
                 /\ Clean(ord[c]) => Ordered(supers, ord, c)
                 /\ (\A s \in ToSet(supers[c]) : Clean(ord[s]) /\ c \notin ToSet(ord[s])) =>
                      ord[c] = <<c>> \o Merge[Orders(supers[c], ord)]
<1> DEFINE C == DOMAIN supers
           ord == Linearize(supers)
<1>1. PICK lin : Linearizes(lin, supers) /\ ord = lin[{}]
  BY LinearizeSteps
<1>2. C \in SUBSET Class /\ \A c \in C : supers[c] \in Seq(C)
  BY DEF Hierarchy
<1> HIDE DEF ord
<1>3. ord \in [C -> Seq(Names)]
  BY <1>1 DEF Linearizes
<1>4. \A path \in SUBSET C, c \in C : Stands(lin, C, path, c)
  BY <1>1, PathIrrelevant
<1>5. ASSUME NEW c \in C, NEW path \in SUBSET C
      PROVE  ((\A s \in ToSet(supers[c]) : lin[path][s] = ord[s])
                => Orders(supers[c], lin[path]) = Orders(supers[c], ord))
  <2> SUFFICES ASSUME \A s \in ToSet(supers[c]) : lin[path][s] = ord[s]
               PROVE  Orders(supers[c], lin[path]) = Orders(supers[c], ord)
    OBVIOUS
  <2> DEFINE o == lin[path]
             ss == supers[c]
  <2>1. \A k \in DOMAIN ss : o[ss[k]] = ord[ss[k]]
    BY DEF ToSet
  <2> HIDE DEF o, ss
  <2>2. [k \in DOMAIN ss |-> o[ss[k]]] = [k \in DOMAIN ss |-> ord[ss[k]]]
    BY <2>1
  <2> QED BY <2>2 DEF Orders, o, ss
<1>6. ASSUME NEW c \in C
      PROVE  {c} \in SUBSET C /\ {} \in SUBSET C /\ {} \cup {c} = {c}
  OBVIOUS
<1>7. ASSUME NEW c \in C
      PROVE  /\ ord[c] = <<c>> \o Merge[Orders(supers[c], lin[{c}])]
             /\ Merge[Orders(supers[c], lin[{c}])] \in Seq(Names)
  <2>1. ord[c] = <<c>> \o Merge[Orders(supers[c], lin[{c}])]
    <3>1. ord[c] = lin[{}][c]
      BY <1>1
    <3>2. lin[{}][c] = IF c \in {} THEN <<c, Failed>>
                       ELSE <<c>> \o Merge[Orders(supers[c], lin[{} \cup {c}])]
      BY <1>1, <1>6 DEF Linearizes
    <3> QED BY <3>1, <3>2, <1>6
  <2>2. lin[{c}] \in [C -> Seq(Names)]
    BY <1>1, <1>6 DEF Linearizes
  <2> QED BY <2>1, <2>2, <1>2, OrdersLists, MergeSteps
<1>8. ASSUME NEW c \in C PROVE ord[c] # <<>> /\ ord[c][1] = c
  <2> DEFINE m == Merge[Orders(supers[c], lin[{c}])]
  <2>1. c \in Names /\ m \in Seq(Names)
    BY <1>2, <1>7 DEF Names
  <2> HIDE DEF m
  <2>2. (<<c>> \o m)[1] = c /\ Len(<<c>> \o m) = Len(m) + 1 /\ Len(m) \in Nat
    BY <2>1, Prefixed
  <2>3. ord[c] = <<c>> \o m
    BY <1>7 DEF m
  <2>4. ord[c][1] = c /\ Len(ord[c]) # 0
    BY <2>2, <2>3
  <2> QED BY <2>4
<1>9. ASSUME NEW c \in C, Clean(ord[c]) PROVE Ordered(supers, ord, c)
  <2>1. Clean(lin[{}][c])
    BY <1>1, <1>9
  <2>2. Steps(supers, lin[{} \cup {c}], c, lin[{}][c])
    BY <1>1, <1>6, <2>1, CleanStep
  <2>3. Steps(supers, lin[{c}], c, ord[c])
    BY <1>1, <1>6, <2>2
  <2>4. ASSUME NEW s \in ToSet(supers[c])
        PROVE  s \in C /\ lin[{c}][s] = ord[s] /\ Clean(ord[s]) /\ c \notin ToSet(ord[s])
    <3>1. s \in C /\ Clean(lin[{c}][s]) /\ Stands(lin, C, {c}, s)
      BY <1>4, <1>6, <2>3 DEF Steps
    <3>2. ToSet(lin[{c}][s]) \cap {c} = {} /\ lin[{}][s] = lin[{c}][s]
      BY <1>6, <3>1 DEF Stands
    <3> QED BY <1>1, <3>1, <3>2
  <2>5. Orders(supers[c], lin[{c}]) = Orders(supers[c], ord)
    BY <1>5, <1>6, <2>4
  <2>6. UNION {ToSet(lin[{c}][s]) : s \in ToSet(supers[c])}
          = UNION {ToSet(ord[s]) : s \in ToSet(supers[c])}
    BY <2>4
  <2> QED BY <2>3, <2>4, <2>5, <2>6 DEF Ordered, Steps
<1>10. ASSUME NEW c \in C, \A s \in ToSet(supers[c]) : Clean(ord[s]) /\ c \notin ToSet(ord[s])
       PROVE  ord[c] = <<c>> \o Merge[Orders(supers[c], ord)]
  <2>1. ASSUME NEW s \in ToSet(supers[c]) PROVE lin[{c}][s] = ord[s]
    <3>1. s \in C
      BY <1>2 DEF ToSet
    <3>2. Clean(lin[{}][s]) /\ c \notin ToSet(lin[{}][s]) /\ Stands(lin, C, {}, s)
      BY <1>1, <1>4, <1>6, <1>10, <3>1
    <3>3. ToSet(lin[{}][s]) \cap {c} = {}
      BY <3>2
    <3> QED BY <1>1, <1>6, <3>2, <3>3 DEF Stands
  <2>2. Orders(supers[c], lin[{c}]) = Orders(supers[c], ord)
    BY <1>5, <1>6, <2>1
  <2> QED BY <1>7, <2>2
<1> QED BY <1>3, <1>8, <1>9, <1>10 DEF ord

\* s has the members of t in the order of t.
Follows(s, t) == \A i, j \in DOMAIN t : i < j => Before(s, t[i], t[j])

\* What the linker knows of a class that has an order.
LEMMA CleanOrder ==
  ASSUME NEW supers, Hierarchy(supers), NEW c \in DOMAIN supers, Clean(Linearize(supers)[c])
  PROVE  LET ord == Linearize(supers)
         IN /\ ord[c] \in Seq(Names) /\ ord[c] # <<>> /\ ord[c][1] = c
            /\ Distinct(ord[c])
            /\ ToSet(Tail(ord[c])) = UNION {ToSet(ord[s]) : s \in ToSet(supers[c])}
            /\ ToSet(ord[c]) = {c} \cup ToSet(Tail(ord[c]))
            /\ Follows(ord[c], supers[c])
            /\ \A s \in ToSet(supers[c]) : /\ s \in DOMAIN supers /\ Clean(ord[s])
                                           /\ c \notin ToSet(ord[s])
                                           /\ Follows(ord[c], ord[s])
<1> DEFINE C == DOMAIN supers
           ord == Linearize(supers)
           ss == supers[c]
           l == Orders(ss, ord)
           m == Merge[l]
<1>1. /\ ord \in [C -> Seq(Names)] /\ ord[c] # <<>> /\ ord[c][1] = c
      /\ Ordered(supers, ord, c)
  BY OrderedExactly
<1>2. C \in SUBSET Class /\ ss \in Seq(C) /\ c \in Names
  BY DEF Hierarchy, Names
<1> HIDE DEF ord
<1>3. /\ m \in Seq(Names) /\ ord[c] = <<c>> \o m /\ Clean(m) /\ Merges(l, m)
      /\ ToSet(ord[c]) = {c} \cup ToSet(m)
      /\ ToSet(m) = UNION {ToSet(ord[s]) : s \in ToSet(ss)}
      /\ \A s \in ToSet(ss) : s \in C /\ Clean(ord[s]) /\ c \notin ToSet(ord[s])
  BY <1>1 DEF Ordered, Steps
<1>4. /\ DOMAIN l = 1 .. Len(ss) + 1 /\ DOMAIN ss = 1 .. Len(ss) /\ Len(ss) \in Nat
      /\ \A k \in DOMAIN ss : k \in DOMAIN l /\ l[k] = ord[ss[k]]
      /\ l[Len(ss) + 1] = ss /\ Len(ss) + 1 \in DOMAIN l
  BY <1>1, <1>2, OrdersLists
<1> HIDE DEF l, m, ss
<1>5. /\ Tail(ord[c]) = m /\ Len(ord[c]) = Len(m) + 1 /\ Len(m) \in Nat
      /\ \A i \in 1 .. Len(m) : ord[c][i + 1] = m[i]
      /\ ord[c] \in Seq(Names)
  BY <1>1, <1>2, <1>3, Prefixed
<1>6. Distinct(m) /\ \A k \in DOMAIN l : Follows(m, l[k])
  BY <1>3 DEF Merges, Follows
<1>7. c \notin ToSet(m)
  BY <1>3
<1>8. DOMAIN m = 1 .. Len(m) /\ DOMAIN ord[c] = 1 .. Len(m) + 1
  BY <1>3, <1>5
<1>9. ASSUME NEW i \in DOMAIN ord[c], NEW j \in DOMAIN ord[c], ord[c][i] = ord[c][j]
      PROVE  i = j
  <2>1. \A n \in DOMAIN ord[c] : n # 1 => n - 1 \in DOMAIN m /\ ord[c][n] = m[n - 1]
    <3> SUFFICES ASSUME NEW n \in DOMAIN ord[c], n # 1
                 PROVE  n - 1 \in DOMAIN m /\ ord[c][n] = m[n - 1]
      OBVIOUS
    <3>1. n - 1 \in 1 .. Len(m) /\ (n - 1) + 1 = n
      BY <1>5, <1>8
    <3> QED BY <3>1, <1>5, <1>8
  <2>2. \A n \in DOMAIN m : m[n] # c
    BY <1>3, <1>7, Elements
  <2>3. CASE i = 1 \/ j = 1
    BY <2>1, <2>2, <2>3, <1>9, <1>1
  <2>4. CASE i # 1 /\ j # 1
    <3>1. i - 1 = j - 1
      BY <2>1, <2>4, <1>6, <1>9 DEF Distinct
    <3> QED BY <3>1, <1>5, <1>8
  <2> QED BY <2>3, <2>4
<1>10. \A x, y : Before(m, x, y) => Before(ord[c], x, y)
  <2> SUFFICES ASSUME NEW p \in DOMAIN m, NEW q \in DOMAIN m, p < q
               PROVE  Before(ord[c], m[p], m[q])
    BY DEF Before
  <2>1. p + 1 \in DOMAIN ord[c] /\ q + 1 \in DOMAIN ord[c] /\ p + 1 < q + 1
    BY <1>5, <1>8
  <2>2. ord[c][p + 1] = m[p] /\ ord[c][q + 1] = m[q]
    BY <1>5, <1>8
  <2> QED BY <2>1, <2>2 DEF Before
<1>11. \A k \in DOMAIN l : Follows(ord[c], l[k])
  BY <1>6, <1>10 DEF Follows
<1>12. Follows(ord[c], ss)
  BY <1>4, <1>11
<1>13. ASSUME NEW s \in ToSet(ss) PROVE Follows(ord[c], ord[s])
  <2>1. PICK k \in DOMAIN ss : s = ss[k]
    BY DEF ToSet
  <2> QED BY <2>1, <1>4, <1>11
<1> QED BY <1>1, <1>3, <1>5, <1>9, <1>12, <1>13 DEF Distinct, ss, ord

\* A sequence has no more members than it is long.
LEMMA ToSetFinite ==
  ASSUME NEW V, NEW s \in Seq(V)
  PROVE  /\ IsFiniteSet(ToSet(s)) /\ Cardinality(ToSet(s)) \in Nat
         /\ Cardinality(ToSet(s)) <= Len(s)
<1>1. DOMAIN s = 1 .. Len(s) /\ Len(s) \in Nat
  OBVIOUS
<1>2. IsFiniteSet(DOMAIN s) /\ Cardinality(DOMAIN s) = Len(s)
  BY <1>1, FS_Interval
<1>3. s \in Surjection(DOMAIN s, ToSet(s))
  <2>1. s \in [DOMAIN s -> ToSet(s)]
    BY <1>1 DEF ToSet
  <2>2. \A x \in ToSet(s) : \E i \in DOMAIN s : s[i] = x
    BY DEF ToSet
  <2> QED BY <2>1, <2>2 DEF Surjection
<1>4. IsFiniteSet(ToSet(s)) /\ Cardinality(ToSet(s)) <= Len(s)
  BY <1>2, <1>3, FS_Surjection
<1> QED BY <1>4, FS_CardinalityType

\* What holds of a class that has an order if it holds of its superclasses.
LEMMA HierarchyInduction ==
  ASSUME NEW supers, Hierarchy(supers), NEW S,
         \A c \in DOMAIN supers :
           Clean(Linearize(supers)[c]) /\ ToSet(supers[c]) \subseteq S => c \in S
  PROVE  \A c \in DOMAIN supers : Clean(Linearize(supers)[c]) => c \in S
<1> DEFINE C == DOMAIN supers
           ord == Linearize(supers)
           rank(c) == Cardinality(ToSet(ord[c]))
           T == {n \in Nat : \A c \in C : Clean(ord[c]) /\ rank(c) < n => c \in S}
<1>1. ASSUME NEW c \in C
      PROVE  IsFiniteSet(ToSet(ord[c])) /\ rank(c) \in Nat
  <2>1. ord[c] \in Seq(Names)
    BY OrderedExactly
  <2> QED BY <2>1, ToSetFinite
<1>2. 0 \in T
  BY <1>1
<1>3. ASSUME NEW n \in Nat, n \in T PROVE n + 1 \in T
  <2> SUFFICES ASSUME NEW c \in C, Clean(ord[c]), rank(c) < n + 1, NEW s \in ToSet(supers[c])
               PROVE  s \in S
    OBVIOUS
  <2>1. /\ c \in ToSet(ord[c]) /\ ToSet(ord[s]) \subseteq ToSet(ord[c])
        /\ s \in C /\ Clean(ord[s]) /\ c \notin ToSet(ord[s])
    <3> DEFINE o == ord
    <3>1. /\ ToSet(Tail(o[c])) = UNION {ToSet(o[d]) : d \in ToSet(supers[c])}
          /\ ToSet(o[c]) = {c} \cup ToSet(Tail(o[c]))
          /\ s \in C /\ Clean(o[s]) /\ c \notin ToSet(o[s])
      BY CleanOrder
    <3> HIDE DEF o
    <3>2. ToSet(o[s]) \subseteq ToSet(Tail(o[c]))
      BY <3>1
    <3>3. ToSet(o[s]) \subseteq ToSet(o[c]) /\ c \in ToSet(o[c])
      BY <3>1, <3>2
    <3> QED BY <3>1, <3>3 DEF o
  <2>2. IsFiniteSet(ToSet(ord[c])) /\ rank(c) \in Nat /\ rank(s) \in Nat
    BY <1>1, <2>1
  <2>3. rank(s) <= rank(c) /\ rank(s) # rank(c)
    <3> DEFINE A == ToSet(ord[c])
               B == ToSet(ord[s])
    <3>1. IsFiniteSet(A) /\ B \in SUBSET A /\ A # B
      BY <2>1, <2>2
    <3> HIDE DEF A, B
    <3>2. Cardinality(B) <= Cardinality(A) /\ Cardinality(A) # Cardinality(B)
      BY <3>1, FS_Subset
    <3> QED BY <3>2 DEF A, B
  <2>4. rank(s) < n
    <3> HIDE DEF rank
    <3> QED BY <2>2, <2>3
  <2> QED BY <1>3, <2>1, <2>4
<1>4. \A n \in Nat : n \in T
  <2> HIDE DEF T
  <2> QED BY <1>2, <1>3, NatInductionSet
<1>5. ASSUME NEW c \in C, Clean(ord[c]) PROVE c \in S
  <2>1. rank(c) \in Nat /\ rank(c) + 1 \in Nat /\ rank(c) < rank(c) + 1
    BY <1>1
  <2> QED BY <1>4, <1>5, <2>1
<1> QED BY <1>5

\* An order is of classes of the program.
LEMMA OrderOfClasses ==
  ASSUME NEW supers, Hierarchy(supers)
  PROVE  \A c \in DOMAIN supers :
           Clean(Linearize(supers)[c]) => ToSet(Linearize(supers)[c]) \subseteq DOMAIN supers
<1> DEFINE ord == Linearize(supers)
           S == {c \in DOMAIN supers : ToSet(ord[c]) \subseteq DOMAIN supers}
<1>1. ASSUME NEW c \in DOMAIN supers, Clean(ord[c]), ToSet(supers[c]) \subseteq S PROVE c \in S
  <2>1. /\ ToSet(Tail(ord[c])) = UNION {ToSet(ord[d]) : d \in ToSet(supers[c])}
        /\ ToSet(ord[c]) = {c} \cup ToSet(Tail(ord[c]))
    BY <1>1, CleanOrder
  <2> QED BY <1>1, <2>1
<1> HIDE DEF S
<1>2. \A c \in DOMAIN supers : Clean(ord[c]) => c \in S
  BY <1>1, HierarchyInduction
<1> QED BY <1>2 DEF S

----------------------------------------------------------------------------
(* Initialization *)

Frame(C) == [kind : {"code"}, class : C \cup {None}, using : C \cup {None}]
              \cup [kind : {"ensure"}, class : C, i : Nat]

\* The classes of a program that is run have their orders, and their fields are resolved.
Linked ==
  /\ prog \in Program
  /\ phase \in {"source", "rejected", "run"}
  /\ phase # "source" => order = Linearize(prog.supers)
  /\ phase = "run" => \A c \in Classes(prog) : Clean(order[c]) /\ Resolves(prog, order, c)

Typed ==
  /\ init_state \in [Classes(prog) -> {"Uninitialized", "Initializing", "Initialized"}]
  /\ stack \in [Coexpr -> Seq(Frame(Classes(prog)))]
  /\ current \in Coexpr
  /\ begun \in [Classes(prog) -> Nat]

\* The code of the program or of a co-expression is never done.
Based == \A e \in Coexpr : stack[e] # <<>> /\ stack[e][1].kind = "code"

Once(c) == IF c \in prog.inits THEN 1 ELSE 0

\* The superclasses before the one a frame is at were looked at; the init method is
\* invoked by the frame that goes on to the last step.
EnsureSound(f) ==
  /\ init_state[f.class] = "Initializing"
  /\ f.i >= 1 /\ f.i <= Len(prog.supers[f.class]) + 2
  /\ \A j \in DOMAIN prog.supers[f.class] :
       j < f.i => init_state[prog.supers[f.class][j]] # "Uninitialized"
  /\ begun[f.class] = IF f.i = Len(prog.supers[f.class]) + 2 THEN Once(f.class) ELSE 0

\* Code runs in a class by way of one derived from it that was used.
CodeSound(f) ==
  f.class # None => /\ phase = "run"
                    /\ \E c \in Classes(prog) : /\ init_state[c] # "Uninitialized"
                                                /\ f.class \in ToSet(order[c])

FrameSound(f) == (f.kind = "ensure" => EnsureSound(f)) /\ (f.kind = "code" => CodeSound(f))

FramesSound == \A e \in Coexpr : \A k \in DOMAIN stack[e] : FrameSound(stack[e][k])

Ensures(e, k, c) == k \in DOMAIN stack[e] /\ stack[e][k].kind = "ensure" /\ stack[e][k].class = c

OneEnsures ==
  \A c \in Classes(prog) : \A e, x \in Coexpr : \A k, y \in Nat :
    Ensures(e, k, c) /\ Ensures(x, y, c) => e = x /\ k = y

SomeEnsures ==
  \A c \in Classes(prog) :
    init_state[c] = "Initializing" => \E e \in Coexpr : \E k \in DOMAIN stack[e] : Ensures(e, k, c)

ClassSound(c) ==
  /\ init_state[c] = "Uninitialized" => begun[c] = 0
  /\ init_state[c] = "Initialized" =>
       begun[c] = Once(c) /\ \A d \in ToSet(prog.supers[c]) : init_state[d] # "Uninitialized"

ClassesSound == \A c \in Classes(prog) : ClassSound(c)

Initializes == /\ Linked /\ Typed /\ Based /\ FramesSound
               /\ OneEnsures /\ SomeEnsures /\ ClassesSound

\* The classes of a program are a hierarchy.
LEMMA ProgramHierarchy ==
  ASSUME NEW p \in Program
  PROVE  Hierarchy(p.supers) /\ DOMAIN p.supers = Classes(p)
<1>1. Classes(p) \in SUBSET Class /\ IsFiniteSet(Class)
  BY ProgramAssumption
<1>2. IsFiniteSet(Classes(p))
  BY <1>1, FS_Subset
<1> QED BY <1>1, <1>2, ProgramAssumption DEF Hierarchy, Classes

\* The frames of st but the newest of cur, and s after them, are those of next.
Kept(st, cur, e, k) == k \in DOMAIN st[e] /\ (e = cur => k < Len(st[cur]))

ReplacedBy(st, cur, s, next) ==
  /\ \A e \in DOMAIN st : \A k \in DOMAIN next[e] :
       \/ Kept(st, cur, e, k) /\ next[e][k] = st[e][k]
       \/ e = cur /\ \E j \in DOMAIN s : k = Len(st[cur]) - 1 + j /\ next[e][k] = s[j]
  /\ \A e \in DOMAIN st : \A k \in DOMAIN st[e] :
       Kept(st, cur, e, k) => k \in DOMAIN next[e] /\ next[e][k] = st[e][k]
  /\ \A j \in DOMAIN s :
       Len(st[cur]) - 1 + j \in DOMAIN next[cur] /\ next[cur][Len(st[cur]) - 1 + j] = s[j]

Updated(st, cur, s, next) == next = [st EXCEPT ![cur] = Front(st[cur]) \o s]

\* What Replaced does to the frames.
LEMMA Replaces ==
  ASSUME NEW F, NEW E, NEW st \in [E -> Seq(F)], NEW cur \in E, st[cur] # <<>>, NEW s \in Seq(F),
         NEW next, Updated(st, cur, s, next)
  PROVE  next \in [E -> Seq(F)] /\ ReplacedBy(st, cur, s, next)
<1> DEFINE t == st[cur]
           n == Len(t)
           r == Front(t) \o s
<1>1. t \in Seq(F) /\ n \in Nat /\ n > 0 /\ DOMAIN t = 1 .. n
  OBVIOUS
<1>2. Front(t) = SubSeq(t, 1, n - 1)
  BY DEF Front
<1> HIDE DEF t, n
<1>3. /\ Front(t) \in Seq(F) /\ Len(Front(t)) = n - 1
      /\ \A k \in 1 .. n - 1 : Front(t)[k] = t[k]
  BY <1>1, <1>2 DEF n
<1>4. DOMAIN s = 1 .. Len(s) /\ Len(s) \in Nat
  OBVIOUS
<1>5. /\ r \in Seq(F) /\ DOMAIN r = 1 .. n - 1 + Len(s)
      /\ \A k \in 1 .. n - 1 : r[k] = t[k]
      /\ \A j \in 1 .. Len(s) : r[n - 1 + j] = s[j]
  <2> DEFINE u == Front(t)
  <2>1. /\ u \in Seq(F) /\ Len(u) = n - 1 /\ \A k \in 1 .. n - 1 : u[k] = t[k]
    BY <1>3
  <2> HIDE DEF u
  <2>2. /\ u \o s \in Seq(F) /\ Len(u \o s) = n - 1 + Len(s)
        /\ \A k \in 1 .. Len(u \o s) : (u \o s)[k] = IF k <= n - 1 THEN u[k] ELSE s[k - (n - 1)]
    BY <2>1
  <2>3. DOMAIN (u \o s) = 1 .. n - 1 + Len(s)
    BY <2>2, <1>1, <1>4
  <2>4. \A k \in 1 .. n - 1 : (u \o s)[k] = t[k]
    <3> SUFFICES ASSUME NEW k \in 1 .. n - 1 PROVE (u \o s)[k] = t[k]
      OBVIOUS
    <3>1. k \in 1 .. Len(u \o s) /\ k <= n - 1
      BY <2>2, <1>1, <1>4
    <3> QED BY <3>1, <2>1, <2>2
  <2>5. \A j \in 1 .. Len(s) : (u \o s)[n - 1 + j] = s[j]
    <3> SUFFICES ASSUME NEW j \in 1 .. Len(s) PROVE (u \o s)[n - 1 + j] = s[j]
      OBVIOUS
    <3>1. n - 1 + j \in 1 .. Len(u \o s) /\ ~(n - 1 + j <= n - 1) /\ (n - 1 + j) - (n - 1) = j
      BY <2>2, <1>1, <1>4
    <3> QED BY <3>1, <2>2
  <2> QED BY <2>2, <2>3, <2>4, <2>5 DEF u
<1> HIDE DEF r
<1>6. next = [e \in E |-> IF e = cur THEN r ELSE st[e]]
  BY DEF r, t, Updated
<1>7. next \in [E -> Seq(F)]
  BY <1>5, <1>6
<1>8. next[cur] = r /\ \A e \in E : e # cur => next[e] = st[e]
  BY <1>6
<1>9. ASSUME NEW k \in DOMAIN r
      PROVE  \/ k \in 1 .. n - 1 /\ r[k] = t[k]
             \/ \E j \in DOMAIN s : k = n - 1 + j /\ r[k] = s[j]
  <2>1. CASE k <= n - 1
    BY <1>1, <1>4, <1>5, <2>1
  <2>2. CASE ~(k <= n - 1)
    <3>1. k - (n - 1) \in 1 .. Len(s) /\ k = n - 1 + (k - (n - 1))
      BY <1>1, <1>4, <1>5, <2>2
    <3> QED BY <3>1, <1>4, <1>5
  <2> QED BY <2>1, <2>2
<1>10. \A k : k \in DOMAIN t /\ k < n <=> k \in 1 .. n - 1
  BY <1>1
<1>11. DOMAIN st = E
  OBVIOUS
<1>12. \A k \in 1 .. n - 1 : k \in DOMAIN r
  BY <1>1, <1>4, <1>5
<1>13. \A j \in DOMAIN s : n - 1 + j \in DOMAIN r
  BY <1>1, <1>4, <1>5
<1>14. ASSUME NEW e \in E, NEW k \in DOMAIN next[e]
       PROVE  \/ Kept(st, cur, e, k) /\ next[e][k] = st[e][k]
              \/ e = cur /\ \E j \in DOMAIN s : k = n - 1 + j /\ next[e][k] = s[j]
  <2>1. CASE e = cur
    BY <2>1, <1>8, <1>9, <1>10, <1>14 DEF Kept, t, n
  <2>2. CASE e # cur
    BY <2>2, <1>8, <1>14 DEF Kept
  <2> QED BY <2>1, <2>2
<1>15. ASSUME NEW e \in E, NEW k \in DOMAIN st[e], Kept(st, cur, e, k)
       PROVE  k \in DOMAIN next[e] /\ next[e][k] = st[e][k]
  <2>1. CASE e = cur
    BY <2>1, <1>5, <1>8, <1>10, <1>12, <1>15 DEF Kept, t, n
  <2>2. CASE e # cur
    BY <2>2, <1>8
  <2> QED BY <2>1, <2>2
<1>16. ASSUME NEW j \in DOMAIN s PROVE n - 1 + j \in DOMAIN next[cur] /\ next[cur][n - 1 + j] = s[j]
  BY <1>4, <1>5, <1>8, <1>13
<1> QED BY <1>7, <1>11, <1>14, <1>15, <1>16 DEF ReplacedBy, n, t

IsEnsure(f, c) == f.kind = "ensure" /\ f.class = c

\* The newest frame f of the current co-expression is replaced by the frames s: no
\* frame is lost that initializes a class, and none is added but for a class that was
\* not initialized.
Goes(C, f, s) ==
  /\ s = <<>> => Len(stack[current]) > 1
  /\ s # <<>> => s[1].kind = f.kind
  /\ \A j \in DOMAIN s : FrameSound(s[j])'
  /\ \A j \in DOMAIN s : \A c \in C :
       IsEnsure(s[j], c) => IsEnsure(f, c) \/ init_state[c] = "Uninitialized"
  /\ \A c \in C : \A i, j \in DOMAIN s : IsEnsure(s[i], c) /\ IsEnsure(s[j], c) => i = j
  /\ \A c \in C : init_state[c] # "Uninitialized" => init_state'[c] # "Uninitialized"
  /\ \A c \in C : init_state[c] = "Initializing" /\ ~IsEnsure(f, c) =>
       init_state'[c] = "Initializing" /\ begun'[c] = begun[c]
  /\ \A c \in C : init_state'[c] = "Initializing" =>
       \/ \E j \in DOMAIN s : IsEnsure(s[j], c)
       \/ init_state[c] = "Initializing" /\ ~IsEnsure(f, c)

\* The newest frame is replaced by frames s it may go on as: the invariant is kept.
LEMMA StackStep ==
  ASSUME Initializes, phase = "run", UNCHANGED <<prog, order, phase>>,
         NEW C, C = Classes(prog), NEW f, f = Last(stack[current]), NEW s \in Seq(Frame(C)),
         stack' = [stack EXCEPT ![current] = Front(@) \o s], current' \in Coexpr,
         init_state' \in [C -> {"Uninitialized", "Initializing", "Initialized"}],
         begun' \in [C -> Nat],
         Goes(C, f, s), ClassesSound'
  PROVE  Initializes'
<1>1. /\ stack \in [Coexpr -> Seq(Frame(C))] /\ current \in Coexpr /\ stack[current] # <<>>
      /\ init_state \in [C -> {"Uninitialized", "Initializing", "Initialized"}]
  BY DEF Initializes, Typed, Based
<1>2. /\ stack' \in [Coexpr -> Seq(Frame(C))]
      /\ ReplacedBy(stack, current, s, stack')
  <2> DEFINE F == Frame(C)
  <2>1. PICK st \in [Coexpr -> Seq(F)] : st = stack
    BY <1>1
  <2>2. PICK cur \in Coexpr : cur = current
    BY <1>1
  <2>3. s \in Seq(F)
    OBVIOUS
  <2> HIDE DEF F
  <2> DEFINE nx == [st EXCEPT ![cur] = Front(st[cur]) \o s]
  <2>4. st[cur] # <<>>
    BY <1>1, <2>1, <2>2
  <2>5. nx \in [Coexpr -> Seq(F)] /\ ReplacedBy(st, cur, s, nx)
    <3>1. Updated(st, cur, s, nx)
      BY DEF Updated
    <3> HIDE DEF nx
    <3> QED BY <2>3, <2>4, <3>1, Replaces
  <2>6. stack' = nx
    BY <2>1, <2>2
  <2> HIDE DEF nx
  <2> QED BY <2>1, <2>2, <2>5, <2>6 DEF F
<1>3. C = Classes(prog)' /\ Classes(prog)' = Classes(prog)
  BY DEF Classes
<1>4. Linked'
  BY DEF Initializes, Linked, Classes
<1>5. Typed'
  BY <1>2, <1>3 DEF Typed
<1> DEFINE n == Len(stack[current])
<1>6. n \in Nat /\ n > 0 /\ DOMAIN stack[current] = 1 .. n /\ f = stack[current][n]
  BY <1>1 DEF Last
<1>7. \A e \in Coexpr : \A k \in DOMAIN stack'[e] :
        \/ Kept(stack, current, e, k) /\ stack'[e][k] = stack[e][k]
        \/ e = current /\ \E j \in DOMAIN s : k = n - 1 + j /\ stack'[e][k] = s[j]
  BY <1>1, <1>2 DEF ReplacedBy
<1>8. \A e \in Coexpr : \A k \in DOMAIN stack[e] :
        Kept(stack, current, e, k) => k \in DOMAIN stack'[e] /\ stack'[e][k] = stack[e][k]
  BY <1>1, <1>2 DEF ReplacedBy
<1>9. \A j \in DOMAIN s : n - 1 + j \in DOMAIN stack'[current] /\ stack'[current][n - 1 + j] = s[j]
  BY <1>2 DEF ReplacedBy
<1>10. \A e \in Coexpr : DOMAIN stack[e] = 1 .. Len(stack[e]) /\ DOMAIN stack'[e] = 1 .. Len(stack'[e])
  BY <1>1, <1>2
<1>11. \A e \in Coexpr : stack[e] # <<>> /\ stack[e][1].kind = "code"
  BY DEF Initializes, Based
<1>12. DOMAIN s = 1 .. Len(s) /\ Len(s) \in Nat
  OBVIOUS
<1>13. Based'
  <2> SUFFICES ASSUME NEW e \in Coexpr PROVE stack'[e] # <<>> /\ stack'[e][1].kind = "code"
    BY DEF Based
  <2>1. CASE Kept(stack, current, e, 1)
    <3>1. 1 \in DOMAIN stack[e]
      BY <2>1 DEF Kept
    <3>2. 1 \in DOMAIN stack'[e] /\ stack'[e][1] = stack[e][1]
      BY <2>1, <3>1, <1>8
    <3>3. stack'[e] # <<>>
      BY <3>2, <1>10, <1>2
    <3> QED BY <3>2, <3>3, <1>11
  <2>2. CASE ~Kept(stack, current, e, 1)
    <3>1. stack[e] \in Seq(Frame(C)) /\ stack[e] # <<>>
      BY <1>1, <1>11
    <3>2. 1 \in DOMAIN stack[e]
      BY <3>1, <1>10
    <3>3. e = current /\ n = 1
      <4>1. e = current /\ ~(1 < n)
        BY <2>2, <3>2 DEF Kept
      <4>2. n \in Nat /\ n > 0
        BY <1>6
      <4> HIDE DEF n
      <4> QED BY <4>1, <4>2
    <3>4. s # <<>> /\ s[1].kind = f.kind
      BY <3>3 DEF Goes
    <3>5. 1 \in DOMAIN s /\ n - 1 + 1 = 1
      BY <3>3, <3>4, <1>12
    <3>6. 1 \in DOMAIN stack'[e] /\ stack'[e][1] = s[1]
      BY <3>3, <3>5, <1>9
    <3>7. stack'[e] # <<>>
      BY <3>6, <1>10, <1>2
    <3> QED BY <3>3, <3>4, <3>6, <3>7, <1>6, <1>11
  <2> QED BY <2>1, <2>2
<1>14. \A e \in Coexpr : \A k \in DOMAIN stack[e] : FrameSound(stack[e][k]) /\ stack[e][k] \in Frame(C)
  BY <1>1 DEF Initializes, FramesSound
<1>15. \A c \in C : \A e, x \in Coexpr : \A k, y \in Nat :
         Ensures(e, k, c) /\ Ensures(x, y, c) => e = x /\ k = y
  BY DEF Initializes, OneEnsures
<1>16. \A e \in Coexpr : \A k \in DOMAIN stack[e] : \A c \in C :
         Kept(stack, current, e, k) /\ IsEnsure(stack[e][k], c) =>
           ~IsEnsure(f, c) /\ init_state[c] = "Initializing"
  <2> SUFFICES ASSUME NEW e \in Coexpr, NEW k \in DOMAIN stack[e], NEW c \in C,
                      Kept(stack, current, e, k), IsEnsure(stack[e][k], c)
               PROVE  ~IsEnsure(f, c) /\ init_state[c] = "Initializing"
    OBVIOUS
  <2>1. init_state[c] = "Initializing"
    BY <1>14 DEF FrameSound, EnsureSound, IsEnsure
  <2>2. ASSUME IsEnsure(f, c) PROVE FALSE
    <3>1. Ensures(e, k, c) /\ Ensures(current, n, c) /\ k \in Nat
      BY <2>2, <1>6, <1>10 DEF Ensures, IsEnsure
    <3>2. e = current /\ k = n
      BY <3>1, <1>1, <1>6, <1>15
    <3> QED BY <3>2, <1>6 DEF Kept
  <2> QED BY <2>1, <2>2
<1>17. FramesSound'
  <2> SUFFICES ASSUME NEW e \in Coexpr, NEW k \in DOMAIN stack'[e], NEW g, g = stack'[e][k]
               PROVE  FrameSound(g)'
    BY DEF FramesSound
  <2>1. CASE \E j \in DOMAIN s : g = s[j]
    BY <2>1 DEF Goes
  <2>2. CASE Kept(stack, current, e, k) /\ g = stack[e][k]
    <3>1. k \in DOMAIN stack[e] /\ FrameSound(g) /\ g \in Frame(C)
      BY <2>2, <1>14 DEF Kept
    <3>2. ASSUME g.kind = "ensure" PROVE EnsureSound(g)'
      <4>1. g.class \in C /\ IsEnsure(g, g.class)
        BY <3>1, <3>2 DEF Frame, IsEnsure
      <4>2. ~IsEnsure(f, g.class) /\ init_state[g.class] = "Initializing"
        BY <2>2, <3>1, <4>1, <1>16
      <4>3. init_state'[g.class] = "Initializing" /\ begun'[g.class] = begun[g.class]
        BY <4>1, <4>2 DEF Goes
      <4>4. EnsureSound(g)
        BY <3>1, <3>2 DEF FrameSound
      <4>5. \A j \in DOMAIN prog.supers[g.class] : prog.supers[g.class][j] \in C
        <5>1. prog.supers[g.class] \in Seq(C)
          BY <4>1, ProgramAssumption DEF Initializes, Linked
        <5> QED BY <5>1
      <4>6. \A c \in C : init_state[c] # "Uninitialized" => init_state'[c] # "Uninitialized"
        BY DEF Goes
      <4> QED BY <4>3, <4>4, <4>5, <4>6 DEF EnsureSound, Once
    <3>3. ASSUME g.kind = "code" PROVE CodeSound(g)'
      <4>1. CodeSound(g)
        BY <3>1, <3>3 DEF FrameSound
      <4>2. \A c \in C : init_state[c] # "Uninitialized" => init_state'[c] # "Uninitialized"
        BY DEF Goes
      <4> QED BY <4>1, <4>2, <1>3 DEF CodeSound
    <3> QED BY <3>2, <3>3 DEF FrameSound
  <2> QED BY <2>1, <2>2, <1>7
<1>18. OneEnsures'
  <2> SUFFICES ASSUME NEW c \in C, NEW e \in Coexpr, NEW x \in Coexpr, NEW k \in Nat, NEW y \in Nat,
                      Ensures(e, k, c)', Ensures(x, y, c)'
               PROVE  e = x /\ k = y
    BY <1>3 DEF OneEnsures
  <2>1. /\ k \in DOMAIN stack'[e] /\ IsEnsure(stack'[e][k], c)
        /\ y \in DOMAIN stack'[x] /\ IsEnsure(stack'[x][y], c)
    BY DEF Ensures, IsEnsure
  <2>2. ASSUME NEW a \in Coexpr, NEW b \in Nat, b \in DOMAIN stack'[a], IsEnsure(stack'[a][b], c)
        PROVE  \/ /\ Kept(stack, current, a, b) /\ Ensures(a, b, c)
                  /\ ~IsEnsure(f, c) /\ init_state[c] = "Initializing"
               \/ /\ a = current
                  /\ \E j \in DOMAIN s : b = n - 1 + j /\ IsEnsure(s[j], c)
                  /\ IsEnsure(f, c) \/ init_state[c] = "Uninitialized"
    <3>1. CASE Kept(stack, current, a, b) /\ stack'[a][b] = stack[a][b]
      <4>1. b \in DOMAIN stack[a] /\ IsEnsure(stack[a][b], c)
        BY <2>2, <3>1 DEF Kept
      <4> QED BY <3>1, <4>1, <1>16 DEF Ensures, IsEnsure
    <3>2. CASE a = current /\ \E j \in DOMAIN s : b = n - 1 + j /\ stack'[a][b] = s[j]
      BY <2>2, <3>2 DEF Goes
    <3> QED BY <3>1, <3>2, <2>2, <1>7
  <2>3. CASE Ensures(e, k, c) /\ Ensures(x, y, c)
    BY <2>3, <1>15
  <2>4. ASSUME NEW i \in DOMAIN s, NEW j \in DOMAIN s, IsEnsure(s[i], c), IsEnsure(s[j], c) PROVE i = j
    BY <2>4 DEF Goes
  <2> QED BY <2>1, <2>2, <2>3, <2>4
<1>19. SomeEnsures'
  <2> SUFFICES ASSUME NEW c \in C, init_state'[c] = "Initializing"
               PROVE  \E e \in Coexpr : \E k \in DOMAIN stack'[e] : Ensures(e, k, c)'
    BY <1>3 DEF SomeEnsures
  <2>1. CASE \E j \in DOMAIN s : IsEnsure(s[j], c)
    <3>1. PICK j \in DOMAIN s : IsEnsure(s[j], c)
      BY <2>1
    <3>2. n - 1 + j \in DOMAIN stack'[current] /\ stack'[current][n - 1 + j] = s[j]
      BY <1>9
    <3>3. PICK e \in Coexpr : e = current
      BY <1>1
    <3>4. PICK k \in DOMAIN stack'[e] : k = n - 1 + j
      BY <3>2, <3>3
    <3>5. Ensures(e, k, c)'
      BY <3>1, <3>2, <3>3, <3>4 DEF Ensures, IsEnsure
    <3> QED BY <3>5
  <2>2. CASE init_state[c] = "Initializing" /\ ~IsEnsure(f, c)
    <3>1. PICK e \in Coexpr : \E k \in DOMAIN stack[e] : Ensures(e, k, c)
      BY <2>2 DEF Initializes, SomeEnsures
    <3>2. PICK k \in DOMAIN stack[e] : Ensures(e, k, c)
      BY <3>1
    <3>3. Kept(stack, current, e, k)
      <4>1. IsEnsure(stack[e][k], c)
        BY <3>2 DEF Ensures, IsEnsure
      <4>2. e = current => k # n
        BY <4>1, <2>2, <1>6
      <4> QED BY <4>2, <1>6, <1>10 DEF Kept
    <3>4. k \in DOMAIN stack'[e] /\ Ensures(e, k, c)'
      BY <3>2, <3>3, <1>8 DEF Ensures
    <3> QED BY <3>4
  <2> QED BY <2>1, <2>2 DEF Goes
<1> QED BY <1>4, <1>5, <1>13, <1>17, <1>18, <1>19 DEF Initializes

States == {"Uninitialized", "Initializing", "Initialized"}

\* Nothing was used or initialized yet.
LEMMA Begins == Init => Initializes
<1> SUFFICES ASSUME Init PROVE Initializes
  OBVIOUS
<1> DEFINE C == Classes(prog)
<1>1. Linked /\ C = DOMAIN prog.supers
  BY DEF Init, Linked, Classes
<1>2. Typed
  <2>1. Code(None) \in Frame(C)
    BY DEF Code, Frame
  <2>2. <<Code(None)>> \in Seq(Frame(C))
    BY <2>1
  <2> QED BY <2>2 DEF Init, Typed
<1>3. Code(None).kind = "code" /\ Code(None).class = None
  BY DEF Code
<1>4. \A e \in Coexpr : stack[e] # <<>> /\ DOMAIN stack[e] = {1} /\ stack[e][1] = Code(None)
  BY DEF Init
<1>5. Based
  BY <1>3, <1>4 DEF Based
<1>6. FramesSound
  BY <1>3, <1>4 DEF FramesSound, FrameSound, CodeSound
<1>7. OneEnsures
  BY <1>3, <1>4 DEF OneEnsures, Ensures
<1>8. SomeEnsures /\ ClassesSound
  BY DEF Init, SomeEnsures, ClassesSound, ClassSound
<1> QED BY <1>1, <1>2, <1>5, <1>6, <1>7, <1>8 DEF Initializes

\* The linker keeps the invariant.
LEMMA LinkStep == Initializes /\ compute_inheritance => Initializes'
<1> SUFFICES ASSUME Initializes, compute_inheritance PROVE Initializes'
  OBVIOUS
<1>1. /\ phase = "source" /\ order' = Linearize(prog.supers)
      /\ phase' \in {"run", "rejected"}
      /\ phase' = "run" => \A c \in Classes(prog) : Resolves(prog, order', c)
      /\ UNCHANGED <<prog, init_state, stack, current, begun>>
  BY DEF compute_inheritance
<1>2. Linked'
  <2>1. phase' = "run" => \A c \in Classes(prog) : Clean(order'[c]) /\ Resolves(prog, order', c)
    BY <1>1 DEF Resolves, Clean
  <2> QED BY <1>1, <2>1 DEF Initializes, Linked, Classes
<1>3. Typed' /\ Based' /\ OneEnsures' /\ SomeEnsures' /\ ClassesSound'
  BY <1>1 DEF Initializes, Typed, Based, OneEnsures, SomeEnsures, ClassesSound, ClassSound, Classes,
              Ensures, Once
<1>4. FramesSound'
  <2> SUFFICES ASSUME NEW e \in Coexpr, NEW k \in DOMAIN stack[e], NEW g, g = stack[e][k]
               PROVE  FrameSound(g)'
    BY <1>1 DEF FramesSound
  <2>1. FrameSound(g)
    BY DEF Initializes, FramesSound
  <2> QED BY <2>1, <1>1 DEF FrameSound, EnsureSound, CodeSound, Once
<1> QED BY <1>2, <1>3, <1>4 DEF Initializes

\* What a running co-expression is at.
LEMMA AtTop ==
  ASSUME Initializes, phase = "run", NEW C, C = Classes(prog), NEW f, f = Top
  PROVE  /\ f = Last(stack[current]) /\ f \in Frame(C) /\ FrameSound(f)
         /\ stack \in [Coexpr -> Seq(Frame(C))] /\ current \in Coexpr
         /\ f.kind = "ensure" => Len(stack[current]) > 1
         /\ init_state \in [C -> States] /\ begun \in [C -> Nat]
         /\ prog \in Program /\ Hierarchy(prog.supers) /\ C = DOMAIN prog.supers
         /\ order = Linearize(prog.supers)
         /\ \A c \in C : Clean(order[c])
         /\ \A c \in C : ClassSound(c)
         /\ \A c \in C : prog.supers[c] \in Seq(C)
<1>1. /\ stack \in [Coexpr -> Seq(Frame(C))] /\ current \in Coexpr
      /\ init_state \in [C -> States] /\ begun \in [C -> Nat]
  BY DEF Initializes, Typed, States
<1>2. stack[current] # <<>> /\ stack[current][1].kind = "code"
  BY <1>1 DEF Initializes, Based
<1>3. /\ Len(stack[current]) \in Nat /\ Len(stack[current]) > 0
      /\ f = stack[current][Len(stack[current])]
      /\ Len(stack[current]) \in DOMAIN stack[current]
  BY <1>1, <1>2 DEF Top, Frames, Last
<1>4. f \in Frame(C) /\ FrameSound(f)
  BY <1>1, <1>3 DEF Initializes, FramesSound
<1>5. prog \in Program /\ order = Linearize(prog.supers) /\ \A c \in C : Clean(order[c])
  BY DEF Initializes, Linked
<1>6. Hierarchy(prog.supers) /\ C = DOMAIN prog.supers
  BY <1>5, ProgramHierarchy
<1>7. \A c \in C : ClassSound(c)
  BY DEF Initializes, ClassesSound
<1>8. f.kind = "ensure" => Len(stack[current]) > 1
  BY <1>2, <1>3
<1> QED BY <1>1, <1>4, <1>5, <1>6, <1>7, <1>8, <1>3 DEF Hierarchy, Last

\* A class that is not initialized stays as it was; one that was used stays used.
Later(C) == \A c \in C : init_state[c] # "Uninitialized" => init_state'[c] # "Uninitialized"

\* Code still runs where it may when classes only get further.
LEMMA CodeKept ==
  ASSUME NEW f, NEW g, g.class = f.class, CodeSound(f), UNCHANGED <<prog, order, phase>>,
         Later(Classes(prog))
  PROVE  CodeSound(g)'
BY DEF CodeSound, Later, Classes

\* A class whose state is not touched stays as it was when others only get further.
LEMMA ClassKept ==
  ASSUME Initializes, UNCHANGED <<prog, order, phase>>, Later(Classes(prog)),
         NEW c \in Classes(prog), init_state'[c] = init_state[c], begun'[c] = begun[c]
  PROVE  ClassSound(c)'
<1>1. ClassSound(c)
  BY DEF Initializes, ClassesSound
<1>2. ToSet(prog.supers[c]) \subseteq Classes(prog)
  <2>1. prog.supers[c] \in Seq(Classes(prog))
    BY ProgramAssumption DEF Initializes, Linked
  <2> QED BY <2>1, Elements
<1> QED BY <1>1, <1>2 DEF ClassSound, Later, Once

\* A frame that ends takes no claim with it.
LEMMA ReturnStep == Initializes /\ Return => Initializes'
<1> SUFFICES ASSUME Initializes, Return PROVE Initializes'
  OBVIOUS
<1>1. PICK C : C = Classes(prog)
  OBVIOUS
<1>2. PICK f : f = Top
  OBVIOUS
<1>3. /\ phase = "run" /\ f.kind = "code" /\ Len(stack[current]) > 1
      /\ stack' = [stack EXCEPT ![current] = Front(@) \o <<>>]
      /\ UNCHANGED <<prog, order, phase, init_state, current, begun>>
  BY <1>2 DEF Return, Running, Replaced, Unchanged, Frames
<1>4. PICK s \in Seq(Frame(C)) : s = <<>>
  <2>1. <<>> \in Seq(Frame(C))
    OBVIOUS
  <2> QED BY <2>1
<1>5. Goes(C, f, s)
  BY <1>3, <1>4 DEF Goes, IsEnsure
<1>6. ClassesSound'
  <2>1. Later(C)
    BY <1>3 DEF Later
  <2> QED BY <1>1, <1>3, <2>1, ClassKept DEF ClassesSound, Classes
<1>7. /\ f = Last(stack[current]) /\ current' \in Coexpr
      /\ init_state' \in [C -> States] /\ begun' \in [C -> Nat]
  BY <1>1, <1>2, <1>3, AtTop
<1> QED BY <1>1, <1>3, <1>4, <1>5, <1>6, <1>7, StackStep DEF States

\* Another co-expression runs; the frames stay.
LEMMA ActivateStep == \A e \in Coexpr : Initializes /\ Activate(e) => Initializes'
<1> SUFFICES ASSUME NEW e \in Coexpr, Initializes, Activate(e) PROVE Initializes'
  OBVIOUS
<1>1. current' \in Coexpr /\ UNCHANGED <<prog, order, phase, init_state, stack, begun>>
  BY DEF Activate, Unchanged
<1>2. Linked' /\ Typed' /\ Based'
  BY <1>1 DEF Initializes, Linked, Typed, Based, Classes
<1>4. OneEnsures' /\ SomeEnsures'
  BY <1>1 DEF Initializes, OneEnsures, SomeEnsures, Classes, Ensures
<1>5. ClassesSound'
  BY <1>1 DEF Initializes, ClassesSound, ClassSound, Classes, Once
<1>3. FramesSound'
  BY <1>1 DEF Initializes, FramesSound, FrameSound, EnsureSound, CodeSound, Once, Classes
<1> QED BY <1>2, <1>3, <1>4, <1>5 DEF Initializes

\* Sequences of one frame,
LEMMA OneFrame ==
  ASSUME NEW F, NEW g \in F
  PROVE  \E s \in Seq(F) : s = <<g>> /\ s = <<g>> \o <<>> /\ s # <<>> /\ DOMAIN s = {1} /\ s[1] = g
<1> DEFINE s == <<g>>
<1>1. s \in Seq(F) /\ Len(s) = 1 /\ s[1] = g
  OBVIOUS
<1>2. DOMAIN s = {1} /\ s # <<>>
  BY <1>1
<1>3. s = <<g>> \o <<>>
  OBVIOUS
<1>4. s = <<g>>
  OBVIOUS
<1> HIDE DEF s
<1> QED BY <1>1, <1>2, <1>3, <1>4

\* and of two.
LEMMA TwoFrames ==
  ASSUME NEW F, NEW g \in F, NEW h \in F
  PROVE  \E s \in Seq(F) : /\ s = <<g, h>> /\ s = <<g>> \o <<h>> /\ s # <<>>
                           /\ DOMAIN s = {1, 2} /\ s[1] = g /\ s[2] = h
<1> DEFINE s == <<g, h>>
<1>1. s \in Seq(F) /\ Len(s) = 2 /\ s[1] = g /\ s[2] = h
  OBVIOUS
<1>2. DOMAIN s = {1, 2} /\ s # <<>>
  BY <1>1
<1>3. s = <<g>> \o <<h>>
  <2> DEFINE r == <<g>> \o <<h>>
  <2>1. r \in Seq(F) /\ Len(r) = 2 /\ r[1] = g /\ r[2] = h
    <3>1. <<g>> \in Seq(F) /\ <<h>> \in Seq(F)
      OBVIOUS
    <3>2. /\ r \in Seq(F) /\ Len(r) = Len(<<h>>) + 1 /\ r[1] = g
          /\ \A i \in 1 .. Len(<<h>>) : r[i + 1] = <<h>>[i]
      BY <3>1, Prefixed
    <3> HIDE DEF r
    <3> QED BY <3>2
  <2> HIDE DEF r, s
  <2>2. r = s
    BY <1>1, <2>1
  <2> QED BY <2>2 DEF r
<1>4. s = <<g, h>>
  OBVIOUS
<1> HIDE DEF s
<1> QED BY <1>1, <1>2, <1>3, <1>4

\* The frame f goes on as g.
GoesOn(C, f, g) ==
  /\ g.kind = f.kind /\ g.class = f.class /\ FrameSound(g)' /\ Later(C)
  /\ \A c \in C : init_state[c] = "Initializing" /\ ~IsEnsure(f, c) =>
       init_state'[c] = "Initializing" /\ begun'[c] = begun[c]

\* A frame goes on as one frame,
LEMMA GoesOne ==
  ASSUME NEW C, NEW f, NEW g, NEW s, s # <<>>, DOMAIN s = {1}, s[1] = g, GoesOn(C, f, g),
         \A c \in C : init_state'[c] = "Initializing" => init_state[c] = "Initializing"
  PROVE  Goes(C, f, s)
<1>1. \A c : IsEnsure(g, c) <=> IsEnsure(f, c)
  BY DEF GoesOn, IsEnsure
<1>2. \A j \in DOMAIN s : j = 1 /\ s[j] = g
  OBVIOUS
<1>3. 1 \in DOMAIN s
  OBVIOUS
<1> HIDE DEF IsEnsure, FrameSound
<1>4. \A j \in DOMAIN s : FrameSound(s[j])'
  BY <1>2 DEF GoesOn
<1> QED BY <1>1, <1>2, <1>3, <1>4 DEF Goes, GoesOn, Later

\* It is followed by the frame h.
LEMMA GoesTwo ==
  ASSUME NEW C, NEW f, NEW g, NEW h, NEW s,
         s # <<>>, DOMAIN s = {1, 2}, s[1] = g, s[2] = h, GoesOn(C, f, g), FrameSound(h)',
         \A c \in C : IsEnsure(h, c) => init_state[c] = "Uninitialized" /\ ~IsEnsure(f, c),
         \A c \in C : init_state'[c] = "Initializing" =>
                        init_state[c] = "Initializing" \/ IsEnsure(h, c)
  PROVE  Goes(C, f, s)
<1>1. \A c : IsEnsure(g, c) <=> IsEnsure(f, c)
  BY DEF GoesOn, IsEnsure
<1>2. \A j \in DOMAIN s : (j = 1 /\ s[j] = g) \/ (j = 2 /\ s[j] = h)
  OBVIOUS
<1>3. 1 \in DOMAIN s /\ 2 \in DOMAIN s
  OBVIOUS
<1>4. \A j \in DOMAIN s : FrameSound(s[j])'
  BY <1>2 DEF GoesOn
<1>5. \A j \in DOMAIN s : \A c \in C :
        IsEnsure(s[j], c) => IsEnsure(f, c) \/ init_state[c] = "Uninitialized"
  BY <1>1, <1>2
<1>6. \A c \in C : \A i, j \in DOMAIN s : IsEnsure(s[i], c) /\ IsEnsure(s[j], c) => i = j
  BY <1>1, <1>2
<1>7. \A c \in C : init_state'[c] = "Initializing" =>
        \/ \E j \in DOMAIN s : IsEnsure(s[j], c)
        \/ init_state[c] = "Initializing" /\ ~IsEnsure(f, c)
  BY <1>1, <1>3
<1> QED BY <1>4, <1>5, <1>6, <1>7 DEF Goes, GoesOn, Later

\* d is the first class of the order of c that has the field.
First(p, o, c, d) ==
  /\ d \in ToSet(o[c])
  /\ \E k \in DOMAIN o[c] : /\ d = o[c][k] /\ p.field[d] # None
                            /\ \A j \in DOMAIN o[c] : p.field[o[c][j]] # None => k <= j

\* The class whose field a class gets is the first of its order.
LEMMA DefinerInOrder ==
  ASSUME NEW p, NEW o, NEW c, NEW V, o[c] \in Seq(V)
  PROVE  Definer(p, o, c) # None => First(p, o, c, Definer(p, o, c))
<1> DEFINE s == o[c]
           has == {k \in DOMAIN s : p.field[s[k]] # None}
           Least(k) == \A j \in has : k <= j
           k0 == CHOOSE k \in has : Least(k)
<1>1. Definer(p, o, c) = IF has = {} THEN None ELSE s[k0]
  BY DEF Definer
<1>2. has \in SUBSET Nat
  OBVIOUS
<1> SUFFICES ASSUME has # {} PROVE First(p, o, c, Definer(p, o, c))
  BY <1>1
<1>3. \E k \in has : Least(k)
  BY <1>2, LeastElement
<1>4. k0 \in has /\ Least(k0)
  <2> HIDE DEF has, Least
  <2> QED BY <1>3
<1>5. k0 \in DOMAIN s
  BY <1>4
<1> HIDE DEF k0
<1>6. s[k0] \in ToSet(s)
  BY <1>5, Elements
<1>7. /\ k0 \in DOMAIN s /\ p.field[s[k0]] # None
      /\ \A j \in DOMAIN s : p.field[s[j]] # None => k0 <= j
  BY <1>4, <1>5
<1>8. Definer(p, o, c) = s[k0]
  BY <1>1
<1> QED BY <1>6, <1>7, <1>8 DEF First

\* A use of a class keeps the invariant: what is not initialized is marked first.
LEMMA UseStep == \A c \in Classes(prog) : Initializes /\ Use(c) => Initializes'
<1> SUFFICES ASSUME NEW c \in Classes(prog), Initializes, Use(c) PROVE Initializes'
  OBVIOUS
<1>1. PICK C : C = Classes(prog)
  OBVIOUS
<1>2. PICK f : f = Top
  OBVIOUS
<1>3. phase = "run" /\ f.kind = "code" /\ UNCHANGED <<prog, order, phase, current, begun>>
  BY <1>2 DEF Use, Running, Unchanged
<1>4. /\ f = Last(stack[current]) /\ f \in Frame(C) /\ FrameSound(f)
      /\ init_state \in [C -> States] /\ begun \in [C -> Nat] /\ current \in Coexpr
      /\ Hierarchy(prog.supers) /\ C = DOMAIN prog.supers /\ order = Linearize(prog.supers)
      /\ \A d \in C : Clean(order[d])
      /\ \A d \in C : ClassSound(d) /\ prog.supers[d] \in Seq(C)
  BY <1>1, <1>2, <1>3, AtTop
<1>5. c \in C /\ None \notin C /\ CodeSound(f)
  BY <1>1, <1>3, <1>4, ClassAssumption DEF FrameSound, Hierarchy
<1>6. f.class \in C \cup {None} /\ f.using \in C \cup {None}
  BY <1>3, <1>4 DEF Frame
<1>7. ASSUME NEW u \in C \cup {None}
      PROVE  /\ [f EXCEPT !.using = u] \in Frame(C)
             /\ [f EXCEPT !.using = u].kind = "code" /\ [f EXCEPT !.using = u].class = f.class
  BY <1>3, <1>4 DEF Frame
<1>8. CASE init_state[c] = "Uninitialized"
  <2>1. /\ stack' = [stack EXCEPT ![current] = Front(@) \o <<[f EXCEPT !.using = c], Ensure(c)>>]
        /\ init_state' = [init_state EXCEPT ![c] = "Initializing"]
    BY <1>2, <1>8 DEF Use, ensure_class_initialized, Replaced, Mark
  <2>2. PICK g \in Frame(C) : g = [f EXCEPT !.using = c] /\ g.kind = "code" /\ g.class = f.class
    BY <1>5, <1>7
  <2>3. PICK h \in Frame(C) : h = Ensure(c) /\ h.kind = "ensure" /\ h.class = c /\ h.i = 1
    <3>1. Ensure(c) \in Frame(C) /\ Ensure(c).kind = "ensure" /\ Ensure(c).class = c /\ Ensure(c).i = 1
      BY <1>5 DEF Ensure, Frame
    <3> QED BY <3>1
  <2>4. PICK s \in Seq(Frame(C)) : /\ s = <<g, h>> /\ DOMAIN s = {1, 2} /\ s[1] = g /\ s[2] = h
                                   /\ s # <<>>
    BY TwoFrames
  <2>5. stack' = [stack EXCEPT ![current] = Front(@) \o s]
    BY <2>1, <2>2, <2>3, <2>4
  <2>6. init_state' \in [C -> States] /\ begun' \in [C -> Nat] /\ Later(C)
        /\ init_state'[c] = "Initializing" /\ \A d \in C : d # c => init_state'[d] = init_state[d]
    BY <2>1, <1>3, <1>4, <1>5 DEF States, Later
  <2>7. FrameSound(g)'
    BY <2>2, <2>6, <1>1, <1>3, <1>5, CodeKept DEF FrameSound
  <2>8. FrameSound(h)'
    <3>1. begun[c] = 0 /\ Len(prog.supers[c]) \in Nat
      BY <1>4, <1>5, <1>8 DEF ClassSound
    <3>2. \A j \in DOMAIN prog.supers[c] : ~(j < 1)
      BY <1>4, <1>5
    <3>3. EnsureSound(h)'
      BY <2>3, <2>6, <3>1, <3>2, <1>3 DEF EnsureSound, Once
    <3> QED BY <3>3, <2>3 DEF FrameSound
  <2>9. Goes(C, f, s)
    <3>1. GoesOn(C, f, g)
      BY <2>2, <2>6, <2>7, <1>3, <1>5, <1>8 DEF GoesOn
    <3>2. \A d : IsEnsure(h, d) <=> d = c
      BY <2>3 DEF IsEnsure
    <3>3. \A d : ~IsEnsure(f, d)
      BY <1>3 DEF IsEnsure
    <3>4. \A d \in C : init_state'[d] = "Initializing" => init_state[d] = "Initializing" \/ d = c
      BY <2>6
    <3> QED BY <2>4, <2>8, <3>1, <3>2, <3>3, <3>4, <1>8, GoesTwo
  <2>10. ClassesSound'
    <3>1. ASSUME NEW d \in C PROVE ClassSound(d)'
      <4>1. CASE d = c
        BY <2>6, <4>1 DEF ClassSound
      <4>2. CASE d # c
        BY <2>6, <4>2, <1>1, <1>3, ClassKept
      <4> QED BY <4>1, <4>2
    <3> QED BY <3>1, <1>1, <1>3 DEF ClassesSound, Classes
  <2> QED BY <1>1, <1>3, <1>4, <2>5, <2>6, <2>9, <2>10, StackStep DEF States
<1>9. CASE init_state[c] # "Uninitialized"
  <2>1. /\ stack' = [stack EXCEPT ![current] = Front(@) \o (<<[f EXCEPT !.using = None]>> \o CodeOf(c))]
        /\ init_state' = init_state
    BY <1>2, <1>9 DEF Use, Replaced
  <2>2. PICK g \in Frame(C) : g = [f EXCEPT !.using = None] /\ g.kind = "code" /\ g.class = f.class
    BY <1>7
  <2>3. Later(C)
    BY <2>1 DEF Later
  <2>4. FrameSound(g)'
    BY <2>2, <2>3, <1>1, <1>3, <1>5, CodeKept DEF FrameSound
  <2>5. init_state' \in [C -> States] /\ begun' \in [C -> Nat] /\ current' \in Coexpr
    BY <2>1, <1>3, <1>4
  <2>6. ClassesSound'
    BY <2>1, <2>3, <1>1, <1>3, ClassKept DEF ClassesSound, Classes
  <2>7. PICK d : d = Definer(prog, order, c)
    OBVIOUS
  <2>8. d # None => d \in ToSet(order[c]) /\ d \in C
    <3>1. order[c] \in Seq(Names)
      BY <1>4, <1>5, OrderedExactly
    <3>2. ToSet(order[c]) \subseteq C
      BY <1>4, <1>5, OrderOfClasses
    <3> QED BY <2>7, <3>1, <3>2, DefinerInOrder DEF First
  <2>9. CASE d # None /\ CodeOf(c) = <<Code(d)>>
    <3>1. PICK h \in Frame(C) : h = Code(d) /\ h.kind = "code" /\ h.class = d
      BY <2>8, <2>9 DEF Code, Frame
    <3>2. PICK s \in Seq(Frame(C)) : /\ s = <<g>> \o <<h>> /\ DOMAIN s = {1, 2} /\ s[1] = g /\ s[2] = h
                                     /\ s # <<>>
      BY TwoFrames
    <3>3. FrameSound(h)'
      <4>1. CodeSound(h)'
        BY <3>1, <2>1, <2>8, <2>9, <1>1, <1>3, <1>5, <1>9 DEF CodeSound, Classes
      <4> QED BY <3>1, <4>1 DEF FrameSound
    <3>4. Goes(C, f, s)
      <4>1. GoesOn(C, f, g)
        BY <2>1, <2>2, <2>3, <2>4, <1>3 DEF GoesOn
      <4>2. \A e : ~IsEnsure(h, e)
        BY <3>1 DEF IsEnsure
      <4> QED BY <2>1, <3>2, <3>3, <4>1, <4>2, GoesTwo
    <3>5. stack' = [stack EXCEPT ![current] = Front(@) \o s]
      BY <2>1, <2>2, <2>9, <3>1, <3>2
    <3> QED BY <1>1, <1>3, <1>4, <2>5, <2>6, <3>4, <3>5, StackStep DEF States
  <2>10. CASE CodeOf(c) = <<>>
    <3>1. PICK s \in Seq(Frame(C)) : s = <<g>> \o <<>> /\ DOMAIN s = {1} /\ s[1] = g /\ s # <<>>
      BY OneFrame
    <3>2. Goes(C, f, s)
      <4>1. GoesOn(C, f, g)
        BY <2>1, <2>2, <2>3, <2>4, <1>3 DEF GoesOn
      <4> QED BY <2>1, <3>1, <4>1, GoesOne
    <3>3. stack' = [stack EXCEPT ![current] = Front(@) \o s]
      BY <2>1, <2>2, <2>10, <3>1
    <3> QED BY <1>1, <1>3, <1>4, <2>5, <2>6, <3>2, <3>3, StackStep DEF States
  <2> QED BY <2>7, <2>9, <2>10 DEF CodeOf
<1> QED BY <1>8, <1>9

\* A class with an init method of its own has that invoked, any other none.
LEMMA InitMethod ==
  ASSUME NEW c \in Classes(prog), order[c] \in Seq(Names), order[c] # <<>>, order[c][1] = c,
         c # None
  PROVE  (InitOwn(c) <=> c \in prog.inits) /\ (InitOwn(c) => InitField(c) = c)
<1> DEFINE s == order[c]
           k == {j \in DOMAIN s : s[j] \in prog.inits}
           Least(j) == \A i \in k : j <= i
           j0 == CHOOSE j \in k : Least(j)
<1>1. InitField(c) = IF k = {} THEN None ELSE s[j0]
  BY DEF InitField
<1>2. k \in SUBSET Nat /\ 1 \in DOMAIN s /\ \A j \in k : 1 <= j
  OBVIOUS
<1>3. k # {} => j0 \in k /\ Least(j0)
  <2> SUFFICES ASSUME k # {} PROVE j0 \in k /\ Least(j0)
    OBVIOUS
  <2>1. \E j \in k : Least(j)
    BY <1>2, LeastElement
  <2> HIDE DEF k, Least
  <2> QED BY <2>1
<1> HIDE DEF j0
<1>4. CASE c \in prog.inits
  <2>1. 1 \in k
    BY <1>2, <1>4
  <2>2. j0 = 1
    <3>1. j0 \in Nat /\ 1 <= j0 /\ j0 <= 1
      BY <1>2, <1>3, <2>1
    <3> QED BY <3>1
  <2> QED BY <1>1, <1>4, <2>1, <2>2 DEF InitOwn
<1>5. CASE c \notin prog.inits
  <2>1. k # {} => s[j0] \in prog.inits
    BY <1>3
  <2> QED BY <1>1, <1>5, <2>1 DEF InitOwn
<1> QED BY <1>4, <1>5

\* A frame that initializes c, and is at step i.
LEMMA AtEnsure ==
  ASSUME Initializes, phase = "run", NEW C, C = Classes(prog), NEW f, f = Top, f.kind = "ensure"
  PROVE  /\ f.class \in C /\ f.i \in Nat /\ EnsureSound(f)
         /\ prog.supers[f.class] \in Seq(C) /\ Len(prog.supers[f.class]) \in Nat
         /\ DOMAIN prog.supers[f.class] = 1 .. Len(prog.supers[f.class])
         /\ \A u \in Nat : /\ [f EXCEPT !.i = u] \in Frame(C)
                           /\ [f EXCEPT !.i = u].kind = "ensure"
                           /\ [f EXCEPT !.i = u].class = f.class
                           /\ [f EXCEPT !.i = u].i = u
<1>1. f \in Frame(C) /\ FrameSound(f) /\ \A c \in C : prog.supers[c] \in Seq(C)
  BY AtTop
<1>2. f \in [kind : {"ensure"}, class : C, i : Nat]
  BY <1>1 DEF Frame
<1>3. \A u \in Nat : /\ [f EXCEPT !.i = u] \in Frame(C)
                     /\ [f EXCEPT !.i = u].kind = "ensure"
                     /\ [f EXCEPT !.i = u].class = f.class
                     /\ [f EXCEPT !.i = u].i = u
  BY <1>2 DEF Frame
<1> QED BY <1>1, <1>2, <1>3 DEF FrameSound

\* A look at the next superclass leaves none before it uninitialized.
LEMMA SupersStep == Initializes /\ for_class_supers => Initializes'
<1> SUFFICES ASSUME Initializes, for_class_supers PROVE Initializes'
  OBVIOUS
<1>1. PICK C : C = Classes(prog)
  OBVIOUS
<1>2. PICK f : f = Top
  OBVIOUS
<1>3. /\ phase = "run" /\ f.kind = "ensure" /\ UNCHANGED <<prog, order, phase, current, begun>>
      /\ f.i <= Len(prog.supers[f.class])
      /\ ensure_class_initialized([f EXCEPT !.i = @ + 1], prog.supers[f.class][f.i])
  BY <1>2 DEF for_class_supers, Running, Unchanged
<1>4. /\ f = Last(stack[current])
      /\ init_state \in [C -> States] /\ begun \in [C -> Nat] /\ current \in Coexpr
      /\ \A d \in C : ClassSound(d) /\ prog.supers[d] \in Seq(C)
  BY <1>1, <1>2, <1>3, AtTop
<1>5. /\ f.class \in C /\ f.i \in Nat /\ EnsureSound(f)
      /\ prog.supers[f.class] \in Seq(C) /\ Len(prog.supers[f.class]) \in Nat
      /\ DOMAIN prog.supers[f.class] = 1 .. Len(prog.supers[f.class])
  BY <1>1, <1>2, <1>3, AtEnsure
<1>6. PICK b \in C : b = f.class
  BY <1>5
<1>7. PICK ss \in Seq(C) : ss = prog.supers[b] /\ DOMAIN ss = 1 .. Len(ss) /\ Len(ss) \in Nat
  BY <1>5, <1>6
<1>8. /\ init_state[b] = "Initializing" /\ f.i >= 1 /\ f.i <= Len(ss)
      /\ \A j \in DOMAIN ss : j < f.i => init_state[ss[j]] # "Uninitialized"
      /\ begun[b] = 0 /\ f.i \in DOMAIN ss /\ f.i + 1 \in Nat
      /\ f.i + 1 >= 1 /\ f.i + 1 <= Len(ss) + 2 /\ f.i + 1 # Len(ss) + 2
  BY <1>3, <1>5, <1>6, <1>7 DEF EnsureSound
<1>9. PICK c \in C : c = ss[f.i]
  BY <1>7, <1>8
<1>10. PICK g \in Frame(C) : /\ g = [f EXCEPT !.i = f.i + 1]
                             /\ g.kind = "ensure" /\ g.class = b /\ g.i = f.i + 1
  <2>1. PICK u \in Nat : u = f.i + 1
    BY <1>8
  <2>2. /\ [f EXCEPT !.i = u] \in Frame(C) /\ [f EXCEPT !.i = u].kind = "ensure"
        /\ [f EXCEPT !.i = u].class = f.class /\ [f EXCEPT !.i = u].i = u
    BY <1>1, <1>2, <1>3, AtEnsure
  <2> QED BY <2>1, <2>2, <1>6
<1>11. ensure_class_initialized(g, c)
  BY <1>3, <1>6, <1>7, <1>9, <1>10
<1>12. ASSUME init_state' \in [C -> States], Later(C), init_state'[b] = "Initializing",
              init_state'[c] # "Uninitialized"
       PROVE  FrameSound(g)'
  <2>1. \A j \in DOMAIN ss : j < f.i + 1 => init_state'[ss[j]] # "Uninitialized"
    <3> SUFFICES ASSUME NEW j \in DOMAIN ss, j < f.i + 1 PROVE init_state'[ss[j]] # "Uninitialized"
      OBVIOUS
    <3>1. ss[j] \in C
      BY <1>7
    <3>2. CASE j = f.i
      BY <3>2, <1>9, <1>12
    <3>3. CASE j < f.i
      BY <3>1, <3>3, <1>8, <1>12 DEF Later
    <3> QED BY <3>2, <3>3, <1>5, <1>7
  <2>2. EnsureSound(g)'
    BY <2>1, <1>3, <1>7, <1>8, <1>10, <1>12 DEF EnsureSound, Once
  <2> QED BY <2>2, <1>10 DEF FrameSound
<1>13. CASE init_state[c] = "Uninitialized"
  <2>1. /\ stack' = [stack EXCEPT ![current] = Front(@) \o <<g, Ensure(c)>>]
        /\ init_state' = [init_state EXCEPT ![c] = "Initializing"]
    BY <1>11, <1>13 DEF ensure_class_initialized, Replaced, Mark
  <2>2. c # b
    BY <1>8, <1>13
  <2>3. PICK h \in Frame(C) : h = Ensure(c) /\ h.kind = "ensure" /\ h.class = c /\ h.i = 1
    <3>1. Ensure(c) \in Frame(C) /\ Ensure(c).kind = "ensure" /\ Ensure(c).class = c /\ Ensure(c).i = 1
      BY DEF Ensure, Frame
    <3> QED BY <3>1
  <2>4. PICK s \in Seq(Frame(C)) : /\ s = <<g, h>> /\ DOMAIN s = {1, 2} /\ s[1] = g /\ s[2] = h
                                   /\ s # <<>>
    BY TwoFrames
  <2>5. stack' = [stack EXCEPT ![current] = Front(@) \o s]
    BY <2>1, <2>3, <2>4
  <2>6. init_state' \in [C -> States] /\ begun' \in [C -> Nat] /\ Later(C)
        /\ init_state'[c] = "Initializing" /\ \A d \in C : d # c => init_state'[d] = init_state[d]
    BY <2>1, <1>3, <1>4 DEF States, Later
  <2>7. FrameSound(g)'
    BY <2>2, <2>6, <1>8, <1>12
  <2>8. FrameSound(h)'
    <3>1. begun[c] = 0 /\ Len(prog.supers[c]) \in Nat
      BY <1>4, <1>13 DEF ClassSound
    <3>2. \A j \in DOMAIN prog.supers[c] : ~(j < 1)
      BY <1>4
    <3>3. EnsureSound(h)'
      BY <2>3, <2>6, <3>1, <3>2, <1>3 DEF EnsureSound, Once
    <3> QED BY <3>3, <2>3 DEF FrameSound
  <2>9. Goes(C, f, s)
    <3>1. GoesOn(C, f, g)
      BY <2>6, <2>7, <1>3, <1>6, <1>10, <1>13 DEF GoesOn
    <3>2. \A d : IsEnsure(h, d) <=> d = c
      BY <2>3 DEF IsEnsure
    <3>3. ~IsEnsure(f, c)
      BY <2>2, <1>6 DEF IsEnsure
    <3>4. \A d \in C : init_state'[d] = "Initializing" => init_state[d] = "Initializing" \/ d = c
      BY <2>6
    <3> QED BY <2>4, <2>8, <3>1, <3>2, <3>3, <3>4, <1>13, GoesTwo
  <2>10. ClassesSound'
    <3>1. ASSUME NEW d \in C PROVE ClassSound(d)'
      <4>1. CASE d = c
        BY <2>6, <4>1 DEF ClassSound
      <4>2. CASE d # c
        BY <2>6, <4>2, <1>1, <1>3, ClassKept
      <4> QED BY <4>1, <4>2
    <3> QED BY <3>1, <1>1, <1>3 DEF ClassesSound, Classes
  <2> QED BY <1>1, <1>3, <1>4, <2>5, <2>6, <2>9, <2>10, StackStep DEF States
<1>14. CASE init_state[c] # "Uninitialized"
  <2>1. /\ stack' = [stack EXCEPT ![current] = Front(@) \o <<g>>]
        /\ init_state' = init_state
    BY <1>11, <1>14 DEF ensure_class_initialized, Replaced
  <2>2. PICK s \in Seq(Frame(C)) : s = <<g>> /\ DOMAIN s = {1} /\ s[1] = g /\ s # <<>>
    BY OneFrame
  <2>3. Later(C) /\ init_state' \in [C -> States] /\ begun' \in [C -> Nat] /\ current' \in Coexpr
    BY <2>1, <1>3, <1>4 DEF Later
  <2>4. FrameSound(g)'
    BY <2>1, <2>3, <1>8, <1>12, <1>14
  <2>5. Goes(C, f, s)
    <3>1. GoesOn(C, f, g)
      BY <2>1, <2>3, <2>4, <1>3, <1>6, <1>10 DEF GoesOn
    <3> QED BY <2>1, <2>2, <3>1, GoesOne
  <2>6. ClassesSound'
    BY <2>1, <2>3, <1>1, <1>3, ClassKept DEF ClassesSound, Classes
  <2>7. stack' = [stack EXCEPT ![current] = Front(@) \o s]
    BY <2>1, <2>2
  <2> QED BY <1>1, <1>3, <1>4, <2>3, <2>5, <2>6, <2>7, StackStep DEF States
<1> QED BY <1>13, <1>14

\* The init method is invoked once, by the only frame that initializes the class.
LEMMA InitStep == Initializes /\ invoke_class_init => Initializes'
<1> SUFFICES ASSUME Initializes, invoke_class_init PROVE Initializes'
  OBVIOUS
<1>1. PICK C : C = Classes(prog)
  OBVIOUS
<1>2. PICK f : f = Top
  OBVIOUS
<1>3. /\ phase = "run" /\ f.kind = "ensure"
      /\ UNCHANGED <<prog, order, phase, init_state, current>>
      /\ f.i = Len(prog.supers[f.class]) + 1
  BY <1>2 DEF invoke_class_init, Running, Unchanged
<1>4. /\ f = Last(stack[current])
      /\ init_state \in [C -> States] /\ begun \in [C -> Nat] /\ current \in Coexpr
      /\ Hierarchy(prog.supers) /\ C = DOMAIN prog.supers /\ order = Linearize(prog.supers)
      /\ \A d \in C : Clean(order[d])
      /\ \A d \in C : ClassSound(d) /\ prog.supers[d] \in Seq(C)
  BY <1>1, <1>2, <1>3, AtTop
<1>5. /\ f.class \in C /\ f.i \in Nat /\ EnsureSound(f)
      /\ prog.supers[f.class] \in Seq(C) /\ Len(prog.supers[f.class]) \in Nat
      /\ DOMAIN prog.supers[f.class] = 1 .. Len(prog.supers[f.class])
  BY <1>1, <1>2, <1>3, AtEnsure
<1>6. PICK c \in C : c = f.class
  BY <1>5
<1>7. PICK ss \in Seq(C) : ss = prog.supers[c] /\ DOMAIN ss = 1 .. Len(ss) /\ Len(ss) \in Nat
  BY <1>5, <1>6
<1>8. /\ init_state[c] = "Initializing" /\ begun[c] = 0
      /\ \A j \in DOMAIN ss : init_state[ss[j]] # "Uninitialized"
      /\ f.i + 1 = Len(ss) + 2 /\ f.i + 1 \in Nat /\ f.i + 1 >= 1
  <2>1. f.i = Len(ss) + 1 /\ \A j \in DOMAIN ss : j < f.i
    BY <1>3, <1>6, <1>7
  <2>2. /\ init_state[c] = "Initializing"
        /\ \A j \in DOMAIN ss : j < f.i => init_state[ss[j]] # "Uninitialized"
        /\ begun[c] = IF f.i = Len(ss) + 2 THEN Once(c) ELSE 0
    BY <1>5, <1>6, <1>7 DEF EnsureSound
  <2> QED BY <2>1, <2>2, <1>7
<1>9. PICK g \in Frame(C) : /\ g = [f EXCEPT !.i = f.i + 1]
                            /\ g.kind = "ensure" /\ g.class = c /\ g.i = f.i + 1
  <2>1. PICK u \in Nat : u = f.i + 1
    BY <1>8
  <2>2. /\ [f EXCEPT !.i = u] \in Frame(C) /\ [f EXCEPT !.i = u].kind = "ensure"
        /\ [f EXCEPT !.i = u].class = f.class /\ [f EXCEPT !.i = u].i = u
    BY <1>1, <1>2, <1>3, AtEnsure
  <2> QED BY <2>1, <2>2, <1>6
<1>10. /\ c # None /\ order[c] \in Seq(Names) /\ order[c] # <<>> /\ order[c][1] = c
       /\ c \in ToSet(order[c])
  <2>1. order[c] \in Seq(Names) /\ order[c] # <<>> /\ order[c][1] = c
    BY <1>4, OrderedExactly
  <2>2. c \in ToSet(order[c])
    <3>1. 1 \in DOMAIN order[c]
      BY <2>1
    <3> QED BY <2>1, <3>1, Elements
  <2> QED BY <2>1, <2>2, <1>4, ClassAssumption DEF Hierarchy
<1>11. (InitOwn(c) <=> c \in prog.inits) /\ (InitOwn(c) => InitField(c) = c)
  BY <1>1, <1>10, InitMethod
<1>12. Later(C) /\ init_state' \in [C -> States] /\ current' \in Coexpr
  BY <1>3, <1>4 DEF Later
<1>13. ASSUME begun'[c] = Once(c) PROVE FrameSound(g)'
  <2>1. EnsureSound(g)'
    BY <1>3, <1>7, <1>8, <1>9, <1>13 DEF EnsureSound, Once
  <2> QED BY <2>1, <1>9 DEF FrameSound
<1>14. ASSUME \A d \in C : d # c => begun'[d] = begun[d] PROVE ClassesSound'
  <2>1. ASSUME NEW d \in C PROVE ClassSound(d)'
    <3>1. CASE d = c
      BY <3>1, <1>3, <1>8 DEF ClassSound
    <3>2. CASE d # c
      BY <3>2, <1>1, <1>3, <1>12, <1>14, ClassKept
    <3> QED BY <3>1, <3>2
  <2> QED BY <2>1, <1>1, <1>3 DEF ClassesSound, Classes
<1>15. ASSUME begun'[c] = Once(c), \A d \in C : d # c => begun'[d] = begun[d]
       PROVE  GoesOn(C, f, g)
  BY <1>3, <1>6, <1>9, <1>12, <1>13, <1>15 DEF GoesOn, IsEnsure
<1>16. CASE InitOwn(c)
  <2>1. /\ stack' = [stack EXCEPT ![current] = Front(@) \o (<<g>> \o <<Code(c)>>)]
        /\ begun' = [begun EXCEPT ![c] = @ + 1]
    BY <1>2, <1>6, <1>9, <1>11, <1>16 DEF invoke_class_init, Replaced
  <2>2. PICK h \in Frame(C) : h = Code(c) /\ h.kind = "code" /\ h.class = c
    <3>1. Code(c) \in Frame(C) /\ Code(c).kind = "code" /\ Code(c).class = c
      BY DEF Code, Frame
    <3> QED BY <3>1
  <2>3. PICK s \in Seq(Frame(C)) : /\ s = <<g>> \o <<h>> /\ DOMAIN s = {1, 2} /\ s[1] = g /\ s[2] = h
                                   /\ s # <<>>
    BY TwoFrames
  <2>4. /\ begun' \in [C -> Nat] /\ begun'[c] = Once(c)
        /\ \A d \in C : d # c => begun'[d] = begun[d]
    BY <2>1, <1>4, <1>8, <1>11, <1>16 DEF Once
  <2>5. FrameSound(h)'
    <3>1. CodeSound(h)'
      BY <2>2, <1>1, <1>3, <1>8, <1>10 DEF CodeSound, Classes
    <3> QED BY <2>2, <3>1 DEF FrameSound
  <2>6. Goes(C, f, s)
    <3>1. \A d : ~IsEnsure(h, d)
      BY <2>2 DEF IsEnsure
    <3> QED BY <2>3, <2>4, <2>5, <3>1, <1>3, <1>15, GoesTwo
  <2>7. stack' = [stack EXCEPT ![current] = Front(@) \o s]
    BY <2>1, <2>2, <2>3
  <2> QED BY <1>1, <1>3, <1>4, <1>12, <1>14, <2>4, <2>6, <2>7, StackStep DEF States
<1>17. CASE ~InitOwn(c)
  <2>1. /\ stack' = [stack EXCEPT ![current] = Front(@) \o (<<g>> \o <<>>)]
        /\ begun' = begun
    BY <1>2, <1>6, <1>9, <1>17 DEF invoke_class_init, Replaced
  <2>2. PICK s \in Seq(Frame(C)) : s = <<g>> \o <<>> /\ DOMAIN s = {1} /\ s[1] = g /\ s # <<>>
    BY OneFrame
  <2>3. /\ begun' \in [C -> Nat] /\ begun'[c] = Once(c)
        /\ \A d \in C : d # c => begun'[d] = begun[d]
    BY <2>1, <1>4, <1>8, <1>11, <1>17 DEF Once
  <2>4. Goes(C, f, s)
    BY <2>2, <2>3, <1>3, <1>15, GoesOne
  <2>5. stack' = [stack EXCEPT ![current] = Front(@) \o s]
    BY <2>1, <2>2
  <2> QED BY <1>1, <1>3, <1>4, <1>12, <1>14, <2>3, <2>4, <2>5, StackStep DEF States
<1> QED BY <1>16, <1>17

\* A class is Initialized when its superclasses were looked at and its init method invoked.
LEMMA StateStep == Initializes /\ set_class_state => Initializes'
<1> SUFFICES ASSUME Initializes, set_class_state PROVE Initializes'
  OBVIOUS
<1>1. PICK C : C = Classes(prog)
  OBVIOUS
<1>2. PICK f : f = Top
  OBVIOUS
<1>3. /\ phase = "run" /\ f.kind = "ensure"
      /\ UNCHANGED <<prog, order, phase, begun, current>>
      /\ f.i = Len(prog.supers[f.class]) + 2
      /\ init_state' = [init_state EXCEPT ![f.class] = "Initialized"]
      /\ stack' = [stack EXCEPT ![current] = Front(@) \o <<>>]
  BY <1>2 DEF set_class_state, Running, Unchanged, Replaced
<1>4. /\ f = Last(stack[current]) /\ Len(stack[current]) > 1
      /\ init_state \in [C -> States] /\ begun \in [C -> Nat] /\ current \in Coexpr
      /\ \A d \in C : ClassSound(d) /\ prog.supers[d] \in Seq(C)
  BY <1>1, <1>2, <1>3, AtTop
<1>5. /\ f.class \in C /\ f.i \in Nat /\ EnsureSound(f)
      /\ prog.supers[f.class] \in Seq(C) /\ Len(prog.supers[f.class]) \in Nat
      /\ DOMAIN prog.supers[f.class] = 1 .. Len(prog.supers[f.class])
  BY <1>1, <1>2, <1>3, AtEnsure
<1>6. PICK c \in C : c = f.class
  BY <1>5
<1>7. PICK ss \in Seq(C) : ss = prog.supers[c] /\ DOMAIN ss = 1 .. Len(ss) /\ Len(ss) \in Nat
  BY <1>5, <1>6
<1>8. /\ init_state[c] = "Initializing" /\ begun[c] = Once(c)
      /\ \A j \in DOMAIN ss : init_state[ss[j]] # "Uninitialized"
  BY <1>3, <1>5, <1>6, <1>7 DEF EnsureSound
<1>9. /\ init_state' \in [C -> States] /\ init_state'[c] = "Initialized"
      /\ \A d \in C : d # c => init_state'[d] = init_state[d]
      /\ Later(C)
  BY <1>3, <1>4, <1>6 DEF Later, States
<1>10. ClassesSound'
  <2>1. ASSUME NEW d \in C PROVE ClassSound(d)'
    <3>1. CASE d = c
      <4>1. \A b \in ToSet(ss) : init_state'[b] # "Uninitialized"
        <5> SUFFICES ASSUME NEW b \in ToSet(ss) PROVE init_state'[b] # "Uninitialized"
          OBVIOUS
        <5>1. PICK j \in DOMAIN ss : b = ss[j]
          BY DEF ToSet
        <5>2. b \in C
          BY <5>1, <1>7
        <5> QED BY <5>1, <5>2, <1>8, <1>9 DEF Later
      <4> QED BY <3>1, <4>1, <1>3, <1>7, <1>8, <1>9 DEF ClassSound, Once
    <3>2. CASE d # c
      BY <3>2, <1>1, <1>3, <1>9, ClassKept
    <3> QED BY <3>1, <3>2
  <2> QED BY <2>1, <1>1, <1>3 DEF ClassesSound, Classes
<1>11. PICK s \in Seq(Frame(C)) : s = <<>> /\ DOMAIN s = {}
  <2>1. <<>> \in Seq(Frame(C)) /\ DOMAIN <<>> = {}
    OBVIOUS
  <2> QED BY <2>1
<1>12. Goes(C, f, s)
  <2>1. \A d : IsEnsure(f, d) <=> d = c
    BY <1>3, <1>6 DEF IsEnsure
  <2> HIDE DEF IsEnsure
  <2>2. \A d \in C : init_state'[d] = "Initializing" => init_state[d] = "Initializing" /\ d # c
    BY <1>9
  <2>3. \A d \in C : init_state[d] = "Initializing" /\ d # c =>
          init_state'[d] = "Initializing" /\ begun'[d] = begun[d]
    BY <1>3, <1>9
  <2> QED BY <2>1, <2>2, <2>3, <1>4, <1>9, <1>11 DEF Goes, Later
<1>13. stack' = [stack EXCEPT ![current] = Front(@) \o s]
  BY <1>3, <1>11
<1> QED BY <1>1, <1>3, <1>4, <1>9, <1>10, <1>12, <1>13, StackStep DEF States

\* Nothing changes.
LEMMA StutterStep == Initializes /\ UNCHANGED vars => Initializes'
<1> SUFFICES ASSUME Initializes, UNCHANGED vars PROVE Initializes'
  OBVIOUS
<1>1. Linked' /\ Typed' /\ Based'
  BY DEF Initializes, Linked, Typed, Based, Classes, vars
<1>2. OneEnsures' /\ SomeEnsures'
  BY DEF Initializes, OneEnsures, SomeEnsures, Classes, Ensures, vars
<1>3. ClassesSound'
  BY DEF Initializes, ClassesSound, ClassSound, Classes, Once, vars
<1>4. FramesSound'
  BY DEF Initializes, FramesSound, FrameSound, EnsureSound, CodeSound, Once, Classes, vars
<1> QED BY <1>1, <1>2, <1>3, <1>4 DEF Initializes

\* The invariant of the initialization of classes (invoke.r, invokeiasm.in), from which the
\* properties follow: whatever classes do to each other, and from whatever co-expressions.
THEOREM Invariant == Spec => []Initializes
<1>1. Init => Initializes
  BY Begins
<1>2. Initializes /\ [Next]_vars => Initializes'
  <2> SUFFICES ASSUME Initializes, [Next]_vars PROVE Initializes'
    OBVIOUS
  <2>1. CASE compute_inheritance
    BY <2>1, LinkStep
  <2>2. CASE \E c \in Classes(prog) : Use(c)
    BY <2>2, UseStep
  <2>3. CASE for_class_supers
    BY <2>3, SupersStep
  <2>4. CASE invoke_class_init
    BY <2>4, InitStep
  <2>5. CASE set_class_state
    BY <2>5, StateStep
  <2>6. CASE Return
    BY <2>6, ReturnStep
  <2>7. CASE \E e \in Coexpr : Activate(e)
    BY <2>7, ActivateStep
  <2>8. CASE UNCHANGED vars
    BY <2>8, StutterStep
  <2> QED BY <2>1, <2>2, <2>3, <2>4, <2>5, <2>6, <2>7, <2>8 DEF Next
<1> QED BY <1>1, <1>2, PTL DEF Spec

\* A class that was not used, but is in the order of one that was, is a proper
\* ancestor of a class that is being initialized.
LEMMA Ancestor ==
  ASSUME Initializes, phase = "run", NEW c \in Classes(prog), init_state[c] = "Uninitialized",
         NEW x \in Classes(prog), init_state[x] # "Uninitialized", c \in ToSet(order[x])
  PROVE  \E d \in Classes(prog) : init_state[d] = "Initializing" /\ c \in ToSet(Tail(order[d]))
<1> DEFINE C == Classes(prog)
           Found == \E d \in C : init_state[d] = "Initializing" /\ c \in ToSet(Tail(order[d]))
           Leads(y) == init_state[y] # "Uninitialized" /\ c \in ToSet(order[y]) => Found
           S == {y \in C : Leads(y)}
<1>1. /\ Hierarchy(prog.supers) /\ C = DOMAIN prog.supers /\ order = Linearize(prog.supers)
      /\ init_state \in [C -> States]
      /\ \A d \in C : Clean(order[d])
      /\ \A d \in C : ClassSound(d)
  BY AtTop
<1>2. ASSUME NEW y \in C, ToSet(prog.supers[y]) \subseteq S PROVE y \in S
  <2> SUFFICES ASSUME init_state[y] # "Uninitialized", c \in ToSet(order[y]) PROVE Found
    OBVIOUS
  <2>1. /\ ToSet(Tail(order[y])) = UNION {ToSet(order[s]) : s \in ToSet(prog.supers[y])}
        /\ ToSet(order[y]) = {y} \cup ToSet(Tail(order[y]))
    <3>1. PICK supers : supers = prog.supers
      OBVIOUS
    <3> DEFINE o == Linearize(supers)
    <3>3. Hierarchy(supers) /\ y \in DOMAIN supers /\ Clean(o[y]) /\ order = o
      BY <3>1, <1>1
    <3>4. /\ ToSet(Tail(o[y])) = UNION {ToSet(o[s]) : s \in ToSet(supers[y])}
          /\ ToSet(o[y]) = {y} \cup ToSet(Tail(o[y]))
      BY <3>3, CleanOrder
    <3> HIDE DEF o
    <3> QED BY <3>1, <3>3, <3>4
  <2>2. c \in ToSet(Tail(order[y]))
    BY <2>1
  <2>3. CASE init_state[y] = "Initializing"
    BY <2>2, <2>3
  <2>4. CASE init_state[y] = "Initialized"
    <3>1. PICK s \in ToSet(prog.supers[y]) : c \in ToSet(order[s])
      BY <2>1, <2>2
    <3>2. init_state[s] # "Uninitialized"
      BY <2>4, <1>1 DEF ClassSound
    <3>3. Leads(s)
      BY <1>2
    <3> QED BY <3>1, <3>2, <3>3
  <2> QED BY <2>3, <2>4, <1>1 DEF States
<1> HIDE DEF S
<1>3. \A y \in DOMAIN prog.supers : Clean(Linearize(prog.supers)[y]) => y \in S
  BY <1>1, <1>2, HierarchyInduction
<1>4. x \in S
  BY <1>1, <1>3
<1> QED BY <1>4 DEF S

\* The invariant gives each part of InitializedOnce; the last is by Ancestor.
LEMMA InitializesOnce == Initializes => InitializedOnce
<1> SUFFICES ASSUME Initializes, phase = "run", NEW c \in Classes(prog)
             PROVE  /\ begun[c] <= 1
                    /\ Cardinality(FramesOf("ensure", c)) =
                         IF init_state[c] = "Initializing" THEN 1 ELSE 0
                    /\ init_state[c] = "Initialized" =>
                         /\ c \in prog.inits => begun[c] = 1
                         /\ \A d \in ToSet(prog.supers[c]) : init_state[d] # "Uninitialized"
                    /\ init_state[c] = "Uninitialized" /\ FramesOf("code", c) # {} =>
                         \E d \in Classes(prog) :
                           init_state[d] = "Initializing" /\ c \in ToSet(Tail(order[d]))
  BY DEF InitializedOnce
<1> DEFINE C == Classes(prog)
<1>1. /\ init_state \in [C -> States] /\ begun \in [C -> Nat] /\ C \subseteq Class
      /\ ClassSound(c)
      /\ stack \in [Coexpr -> Seq(Frame(C))]
  <2>1. /\ init_state \in [C -> States] /\ begun \in [C -> Nat] /\ ClassSound(c)
        /\ Hierarchy(prog.supers) /\ C = DOMAIN prog.supers
        /\ stack \in [Coexpr -> Seq(Frame(C))]
    BY AtTop
  <2> QED BY <2>1 DEF Hierarchy
<1>2. c # None
  BY <1>1, ClassAssumption
<1>3. \A e \in Coexpr : \A k \in DOMAIN stack[e] : FrameSound(stack[e][k])
  BY DEF Initializes, FramesSound
<1>5. \A kind : \A e \in Coexpr : \A k \in DOMAIN stack[e] :
        stack[e][k].kind = kind /\ stack[e][k].class = c => <<e, k>> \in FramesOf(kind, c)
  BY DEF FramesOf
<1>6. \A kind : \A p \in FramesOf(kind, c) :
        \E e \in Coexpr : \E k \in DOMAIN stack[e] :
          p = <<e, k>> /\ stack[e][k].kind = kind /\ stack[e][k].class = c
  BY DEF FramesOf
<1>7. \A e \in Coexpr : DOMAIN stack[e] \subseteq Nat
  BY <1>1
<1>8. CASE init_state[c] = "Initializing"
  <2>1. PICK e \in Coexpr : \E k \in DOMAIN stack[e] : Ensures(e, k, c)
    BY <1>8 DEF Initializes, SomeEnsures
  <2>2. PICK k \in DOMAIN stack[e] : Ensures(e, k, c)
    BY <2>1
  <2>3. FramesOf("ensure", c) = {<<e, k>>}
    <3>1. <<e, k>> \in FramesOf("ensure", c)
      BY <2>2, <1>5 DEF Ensures
    <3>2. ASSUME NEW p \in FramesOf("ensure", c) PROVE p = <<e, k>>
      <4>1. PICK x \in Coexpr : \E y \in DOMAIN stack[x] : p = <<x, y>> /\ Ensures(x, y, c)
        BY <1>6 DEF Ensures
      <4>2. PICK y \in DOMAIN stack[x] : p = <<x, y>> /\ Ensures(x, y, c)
        BY <4>1
      <4>3. k \in Nat /\ y \in Nat
        BY <1>7
      <4>4. x = e /\ y = k
        BY <2>2, <4>2, <4>3 DEF Initializes, OneEnsures
      <4> QED BY <4>2, <4>4
    <3> QED BY <3>1, <3>2
  <2>4. Cardinality(FramesOf("ensure", c)) = 1
    BY <2>3, FS_Singleton
  <2>5. begun[c] <= 1
    <3>1. FrameSound(stack[e][k]) /\ stack[e][k].kind = "ensure" /\ stack[e][k].class = c
      BY <2>2, <1>3 DEF Ensures
    <3>2. begun[c] \in {0, Once(c)}
      BY <3>1 DEF FrameSound, EnsureSound
    <3> QED BY <3>2 DEF Once
  <2> QED BY <2>4, <2>5, <1>8
<1>9. CASE init_state[c] # "Initializing"
  <2>1. FramesOf("ensure", c) = {}
    <3> SUFFICES ASSUME NEW p \in FramesOf("ensure", c) PROVE FALSE
      OBVIOUS
    <3>1. PICK e \in Coexpr : \E k \in DOMAIN stack[e] :
            stack[e][k].kind = "ensure" /\ stack[e][k].class = c
      BY <1>6
    <3>2. PICK k \in DOMAIN stack[e] : stack[e][k].kind = "ensure" /\ stack[e][k].class = c
      BY <3>1
    <3>3. EnsureSound(stack[e][k])
      BY <3>2, <1>3 DEF FrameSound
    <3> QED BY <3>2, <3>3, <1>9 DEF EnsureSound
  <2>2. Cardinality(FramesOf("ensure", c)) = 0
    BY <2>1, FS_EmptySet
  <2>3. begun[c] <= 1
    <3>1. init_state[c] \in States
      BY <1>1
    <3>2. begun[c] \in {0, Once(c)}
      BY <3>1, <1>1, <1>9 DEF ClassSound, States
    <3> QED BY <3>2 DEF Once
  <2>4. init_state[c] = "Initialized" =>
          /\ c \in prog.inits => begun[c] = 1
          /\ \A d \in ToSet(prog.supers[c]) : init_state[d] # "Uninitialized"
    BY <1>1 DEF ClassSound, Once
  <2>5. ASSUME init_state[c] = "Uninitialized", FramesOf("code", c) # {}
        PROVE  \E d \in Classes(prog) :
                 init_state[d] = "Initializing" /\ c \in ToSet(Tail(order[d]))
    <3>1. PICK p \in FramesOf("code", c) : TRUE
      BY <2>5
    <3>2. PICK e \in Coexpr : \E k \in DOMAIN stack[e] :
            stack[e][k].kind = "code" /\ stack[e][k].class = c
      BY <3>1, <1>6
    <3>3. PICK k \in DOMAIN stack[e] : stack[e][k].kind = "code" /\ stack[e][k].class = c
      BY <3>2
    <3>4. CodeSound(stack[e][k])
      BY <3>3, <1>3 DEF FrameSound
    <3>5. PICK x \in Classes(prog) : init_state[x] # "Uninitialized" /\ c \in ToSet(order[x])
      BY <3>3, <3>4, <1>2 DEF CodeSound
    <3> QED BY <2>5, <3>5, Ancestor
  <2> QED BY <2>2, <2>3, <2>4, <2>5, <1>9
<1> QED BY <1>8, <1>9

\* No init method is invoked twice, a class is Initializing while one frame initializes it,
\* and an Initialized class has its superclasses begun before it, for any program and any
\* number of co-expressions (check_if_uninitialized, set_class_state).
THEOREM InitializedOnceCorrect == Spec => []InitializedOnce
BY Invariant, InitializesOnce, PTL

----------------------------------------------------------------------------
(* What resolution promises *)

\* a gives the classes within any number of steps above a class.
Climbs(a, supers) ==
  /\ \A c \in DOMAIN supers : a[0][c] = {c}
  /\ \A n \in 1 .. Cardinality(Class), c \in DOMAIN supers :
       a[n][c] = {c} \cup UNION {a[n - 1][d] : d \in ToSet(supers[c])}

\* The classes above a class are reached step by step.
LEMMA AboveSteps ==
  ASSUME NEW p \in Program
  PROVE  Cardinality(Class) \in Nat /\ \E a : Climbs(a, p.supers) /\ Above(p) = a[Cardinality(Class)]
<1> DEFINE C == Classes(p)
           N == Cardinality(Class)
           O == [C -> SUBSET C]
           D == 0 .. N
           At(f, n, c) == IF n = 0 THEN {c}
                          ELSE {c} \cup UNION {f[n - 1][d] : d \in ToSet(p.supers[c])}
           Step(f, n) == [c \in C |-> At(f, n, c)]
           P(f) == f = [n \in D |-> Step(f, n)]
           rank == [n \in D |-> n]
           b == [q \in [D -> O] \X D |-> Step(q[1], q[2])]
<1>1. /\ IsFiniteSet(Class) /\ N \in Nat
      /\ \A c \in C : p.supers[c] \in Seq(C) /\ ToSet(p.supers[c]) \subseteq C
  <2>1. IsFiniteSet(Class) /\ \A c \in C : p.supers[c] \in Seq(C)
    BY ProgramAssumption
  <2> QED BY <2>1, Elements, FS_CardinalityType
<1> HIDE DEF N
<1>2. b \in [[D -> O] \X D -> O] /\ rank \in [D -> Nat]
  <2>1. ASSUME NEW f \in [D -> O], NEW n \in D PROVE Step(f, n) \in O
    <3> SUFFICES ASSUME NEW c \in C PROVE At(f, n, c) \subseteq C
      OBVIOUS
    <3>1. CASE n = 0
      BY <3>1
    <3>2. CASE n # 0
      <4>1. n - 1 \in D
        BY <3>2, <1>1
      <4>2. \A d \in C : f[n - 1][d] \subseteq C
        BY <4>1
      <4> QED BY <3>2, <4>2, <1>1
    <3> QED BY <3>1, <3>2
  <2>2. rank \in [D -> Nat]
    BY <1>1
  <2> HIDE DEF Step
  <2> QED BY <2>1, <2>2
<1>3. \A f \in [D -> O], n \in D : b[<<f, n>>] = Step(f, n)
  OBVIOUS
<1>4. ASSUME NEW f \in [D -> O], NEW g \in [D -> O], NEW n \in D,
             \A m \in D : rank[m] < rank[n] => f[m] = g[m]
      PROVE  Step(f, n) = Step(g, n)
  <2> SUFFICES ASSUME NEW c \in C PROVE At(f, n, c) = At(g, n, c)
    OBVIOUS
  <2>1. CASE n = 0
    BY <2>1
  <2>2. CASE n # 0
    <3>1. n - 1 \in D /\ rank[n - 1] < rank[n]
      BY <2>2, <1>1
    <3>2. f[n - 1] = g[n - 1]
      BY <3>1, <1>4
    <3> QED BY <3>2
  <2> QED BY <2>1, <2>2
<1> HIDE DEF b, rank
<1>5. Given(D, O, rank, b)
  <2> HIDE DEF Step, D, O
  <2> QED BY <1>2, <1>3, <1>4 DEF Given
<1>6. \E v \in O : TRUE
  <2>1. [c \in C |-> {}] \in O
    OBVIOUS
  <2> QED BY <2>1
<1>7. PICK f \in [D -> O] : \A n \in D : f[n] = b[<<f, n>>]
  <2> HIDE DEF D, O
  <2> QED BY <1>5, <1>6, RankedExists
<1>8. P(f)
  <2> HIDE DEF Step
  <2> QED BY <1>3, <1>7
<1> DEFINE a == CHOOSE g : P(g)
<1>9. Above(p) = a[N]
  BY DEF Above, N
<1>10. P(a)
  <2> HIDE DEF P
  <2> QED BY <1>8
<1> HIDE DEF a
<1>11. \A n \in D, c \in C : a[n][c] = At(a, n, c)
  <2>1. \A n \in D, c \in C : Step(a, n)[c] = At(a, n, c)
    <3> HIDE DEF At
    <3> QED OBVIOUS
  <2>2. \A n \in D : a[n] = Step(a, n)
    <3> HIDE DEF Step
    <3> QED BY <1>10
  <2> HIDE DEF Step
  <2> QED BY <2>1, <2>2
<1>12. Climbs(a, p.supers)
  <2>1. 0 \in D /\ \A n \in 1 .. N : n \in D /\ n # 0
    BY <1>1
  <2>2. \A c \in C : a[0][c] = {c}
    BY <1>11, <2>1
  <2>3. \A n \in 1 .. N, c \in C :
          a[n][c] = {c} \cup UNION {a[n - 1][d] : d \in ToSet(p.supers[c])}
    BY <1>11, <2>1
  <2> QED BY <2>2, <2>3 DEF Climbs, N, Classes
<1> QED BY <1>1, <1>9, <1>12 DEF N

\* As many steps as an order has classes are enough for all of them.
LEMMA Climbed ==
  ASSUME NEW supers, Hierarchy(supers), NEW a, Climbs(a, supers), Cardinality(Class) \in Nat
  PROVE  \A c \in DOMAIN supers : Clean(Linearize(supers)[c]) =>
           \A n \in 0 .. Cardinality(Class) :
             n >= Cardinality(ToSet(Linearize(supers)[c])) - 1 =>
               a[n][c] = ToSet(Linearize(supers)[c])
<1> DEFINE C == DOMAIN supers
           N == Cardinality(Class)
           ord == Linearize(supers)
           card(c) == Cardinality(ToSet(ord[c]))
           Fits(c) == \A n \in 0 .. N : /\ a[n][c] \subseteq ToSet(ord[c])
                                        /\ n >= card(c) - 1 => ToSet(ord[c]) \subseteq a[n][c]
           S == {c \in C : Fits(c)}
<1>1. ASSUME NEW c \in C PROVE IsFiniteSet(ToSet(ord[c])) /\ card(c) \in Nat
  <2>1. ord[c] \in Seq(Names)
    BY OrderedExactly
  <2> QED BY <2>1, ToSetFinite
<1>2. ASSUME NEW c \in C, Clean(ord[c]), ToSet(supers[c]) \subseteq S PROVE Fits(c)
  <2> DEFINE T == ToSet(ord[c])
             up == ToSet(supers[c])
  <2>1. /\ T = {c} \cup UNION {ToSet(ord[s]) : s \in up}
        /\ \A s \in up : s \in C /\ c \notin ToSet(ord[s])
    BY <1>2, CleanOrder
  <2>2. IsFiniteSet(T) /\ card(c) \in Nat /\ card(c) = Cardinality(T)
    BY <1>1
  <2>3. \A s \in up : ToSet(ord[s]) \subseteq T
    BY <2>1
  <2>4. ASSUME NEW s \in up PROVE card(s) \in Nat /\ card(s) < card(c)
    <3> DEFINE B == ToSet(ord[s])
    <3>1. B \in SUBSET T /\ B # T /\ s \in C
      BY <2>1, <2>3
    <3>2. card(s) \in Nat /\ card(s) = Cardinality(B)
      BY <1>1, <3>1
    <3> HIDE DEF T, B, card
    <3>3. Cardinality(B) <= Cardinality(T) /\ Cardinality(T) # Cardinality(B)
      BY <2>2, <3>1, FS_Subset
    <3> QED BY <2>2, <3>2, <3>3
  <2>5. Cardinality({c}) = 1
    BY FS_Singleton
  <2>6. c \in T
    BY <2>1
  <2>7. card(c) >= 1 /\ (card(c) <= 1 => T = {c})
    <3>1. {c} \in SUBSET T
      BY <2>6
    <3> HIDE DEF T, card
    <3>2. Cardinality({c}) <= Cardinality(T) /\ (Cardinality(T) = Cardinality({c}) => T = {c})
      BY <2>2, <3>1, FS_Subset
    <3> QED BY <2>2, <2>5, <3>2
  <2>8. a[0][c] = {c}
    BY DEF Climbs
  <2>9. \A n \in 1 .. N : a[n][c] = {c} \cup UNION {a[n - 1][d] : d \in up}
    BY DEF Climbs
  <2>10. \A s \in up : \A n \in 0 .. N : /\ a[n][s] \subseteq ToSet(ord[s])
                                         /\ n >= card(s) - 1 => ToSet(ord[s]) \subseteq a[n][s]
    BY <1>2
  <2>12. N \in Nat
    OBVIOUS
  <2> HIDE DEF T, up, card, N, ord
  <2>11. ASSUME NEW n \in 0 .. N PROVE a[n][c] \subseteq T /\ (n >= card(c) - 1 => T \subseteq a[n][c])
    <3>1. CASE n = 0
      <4>1. n >= card(c) - 1 => card(c) <= 1
        BY <3>1, <2>2
      <4> QED BY <3>1, <4>1, <2>6, <2>7, <2>8
    <3>2. CASE n # 0
      <4>1. n \in 1 .. N /\ n - 1 \in 0 .. N /\ n \in Int
        BY <3>2, <2>12
      <4>2. \A s \in up : a[n - 1][s] \subseteq ToSet(ord[s])
        BY <4>1, <2>10
      <4>3. a[n][c] \subseteq T
        <5> SUFFICES ASSUME NEW x \in a[n][c] PROVE x \in T
          OBVIOUS
        <5>1. x = c \/ \E s \in up : x \in a[n - 1][s]
          BY <4>1, <2>9
        <5> QED BY <5>1, <4>2, <2>3, <2>6
      <4>4. ASSUME n >= card(c) - 1, NEW x \in T PROVE x \in a[n][c]
        <5>1. CASE x = c
          BY <5>1, <4>1, <2>9
        <5>2. CASE x # c
          <6>1. PICK s \in up : x \in ToSet(ord[s])
            BY <5>2, <2>1 DEF T
          <6>2. card(s) \in Nat /\ card(s) < card(c)
            BY <2>4
          <6>3. n - 1 >= card(s) - 1
            BY <6>2, <4>1, <4>4, <2>2
          <6>4. x \in a[n - 1][s]
            BY <6>1, <6>3, <4>1, <2>10
          <6> QED BY <6>4, <4>1, <2>9
        <5> QED BY <5>1, <5>2
      <4> QED BY <4>3, <4>4
    <3> QED BY <3>1, <3>2
  <2> QED BY <2>11 DEF T
<1>3. \A c \in C : Clean(ord[c]) => c \in S
  <2>1. \A c \in C : Clean(ord[c]) /\ ToSet(supers[c]) \subseteq S => c \in S
    BY <1>2
  <2> HIDE DEF S
  <2> QED BY <2>1, HierarchyInduction
<1> QED BY <1>3

\* What is above a class, in terms of the orders.
LEMMA AboveOrder ==
  ASSUME NEW p \in Program, NEW c \in Classes(p)
  PROVE  LET ord == Linearize(p.supers)
             supers == ToSet(p.supers[c])
         IN /\ Clean(ord[c]) => Above(p)[c] = ToSet(ord[c])
            /\ (\A d \in supers : Clean(ord[d])) =>
                 Above(p)[c] = {c} \cup UNION {ToSet(ord[d]) : d \in supers}
<1> DEFINE C == Classes(p)
           ord == Linearize(p.supers)
           up == ToSet(p.supers[c])
           N == Cardinality(Class)
           above == Above(p)
<1>1. /\ Hierarchy(p.supers) /\ C = DOMAIN p.supers /\ C \subseteq Class
      /\ IsFiniteSet(Class) /\ up \subseteq C
  <2>1. C \subseteq Class /\ IsFiniteSet(Class) /\ p.supers[c] \in Seq(C)
    BY ProgramAssumption
  <2> QED BY <2>1, ProgramHierarchy, Elements
<1>2. PICK a : Climbs(a, p.supers) /\ Above(p) = a[N]
  BY AboveSteps
<1>3. N \in Nat
  BY AboveSteps
<1>4. ASSUME NEW d \in C, Clean(ord[d])
      PROVE  /\ \A n \in 0 .. N : n >= Cardinality(ToSet(ord[d])) - 1 => a[n][d] = ToSet(ord[d])
             /\ Cardinality(ToSet(ord[d])) \in Nat /\ Cardinality(ToSet(ord[d])) <= N
  <2>1. ToSet(ord[d]) \subseteq C
    BY <1>1, <1>4, OrderOfClasses
  <2>2. ToSet(ord[d]) \in SUBSET Class
    BY <1>1, <2>1
  <2>3. IsFiniteSet(ToSet(ord[d])) /\ Cardinality(ToSet(ord[d])) <= N
    BY <1>1, <2>2, FS_Subset
  <2> QED BY <1>1, <1>2, <1>3, <1>4, <2>3, Climbed, FS_CardinalityType
<1>5. Clean(ord[c]) => above[c] = ToSet(ord[c])
  <2> SUFFICES ASSUME Clean(ord[c]) PROVE a[N][c] = ToSet(ord[c])
    BY <1>2
  <2> DEFINE k == Cardinality(ToSet(ord[c]))
  <2>1. k \in Nat /\ k <= N /\ \A n \in 0 .. N : n >= k - 1 => a[n][c] = ToSet(ord[c])
    BY <1>4
  <2> HIDE DEF k, N
  <2>2. N \in 0 .. N /\ N >= k - 1
    BY <1>3, <2>1
  <2> QED BY <2>1, <2>2
<1>6. ASSUME \A d \in up : Clean(ord[d])
      PROVE  above[c] = {c} \cup UNION {ToSet(ord[d]) : d \in up}
  <2>1. {c} \in SUBSET Class
    BY <1>1
  <2>2. Cardinality({c}) <= N /\ Cardinality({c}) = 1
    BY <1>1, <2>1, FS_Subset, FS_Singleton
  <2>3. N \in 1 .. N /\ N - 1 \in 0 .. N
    <3> HIDE DEF N
    <3> QED BY <1>3, <2>2
  <2>4. \A d \in up : a[N - 1][d] = ToSet(ord[d])
    <3> SUFFICES ASSUME NEW d \in up PROVE a[N - 1][d] = ToSet(ord[d])
      OBVIOUS
    <3> DEFINE k == Cardinality(ToSet(ord[d]))
    <3>1. k \in Nat /\ k <= N /\ \A n \in 0 .. N : n >= k - 1 => a[n][d] = ToSet(ord[d])
      BY <1>1, <1>4, <1>6
    <3> HIDE DEF k, N
    <3>2. N - 1 >= k - 1
      BY <1>3, <3>1
    <3> QED BY <2>3, <3>1, <3>2
  <2>5. a[N][c] = {c} \cup UNION {a[N - 1][d] : d \in up}
    BY <1>1, <1>2, <2>3 DEF Climbs
  <2>6. {a[N - 1][d] : d \in up} = {ToSet(ord[d]) : d \in up}
    BY <2>4
  <2> QED BY <1>2, <2>5, <2>6
<1> QED BY <1>5, <1>6

\* A sequence without repetition lists the set of its members.
LEMMA DistinctLists ==
  ASSUME NEW V, NEW s \in Seq(V), Distinct(s)
  PROVE  s \in SetToSeqs(ToSet(s))
<1> DEFINE T == ToSet(s)
           D == 1 .. Len(s)
<1>1. Len(s) \in Nat /\ DOMAIN s = D /\ s \in [D -> T]
  BY DEF ToSet
<1>2. IsFiniteSet(D) /\ Cardinality(D) = Len(s)
  BY <1>1, FS_Interval
<1>3. s \in Bijection(D, T)
  <2>1. \A x \in T : \E i \in D : s[i] = x
    BY DEF ToSet
  <2>2. \A i, j \in DOMAIN s : s[i] = s[j] => i = j
    BY DEF Distinct
  <2> HIDE DEF D, T
  <2> QED BY <1>1, <2>1, <2>2 DEF Bijection, Injection, Surjection, IsInjective
<1>4. Cardinality(T) = Len(s)
  BY <1>2, <1>3, FS_Bijection DEF ExistsBijection
<1>5. \A i, j \in D : i # j => s[i] # s[j]
  BY <1>1 DEF Distinct
<1> HIDE DEF T
<1>6. s \in {f \in [1 .. Cardinality(T) -> T] : \A i, j \in 1 .. Cardinality(T) : i # j => f[i] # f[j]}
  BY <1>1, <1>4, <1>5
<1> QED BY <1>6 DEF SetToSeqs, T

\* What lists a set has its members, each once.
LEMMA ListsDistinct ==
  ASSUME NEW T, IsFiniteSet(T), NEW s \in SetToSeqs(T)
  PROVE  s \in Seq(T) /\ Distinct(s) /\ ToSet(s) = T
<1> DEFINE n == Cardinality(T)
           D == 1 .. n
<1>1. n \in Nat /\ IsFiniteSet(D) /\ Cardinality(D) = n
  <2>1. n \in Nat
    BY FS_CardinalityType
  <2> HIDE DEF n
  <2> QED BY <2>1, FS_Interval
<1>2. s \in [D -> T] /\ \A i, j \in D : i # j => s[i] # s[j]
  BY DEF SetToSeqs
<1>3. s \in Seq(T)
  <2> HIDE DEF n
  <2> QED BY <1>1, <1>2
<1>4. DOMAIN s = D
  BY <1>2
<1>5. Distinct(s)
  BY <1>2, <1>4 DEF Distinct
<1>6. s \in Injection(D, T)
  BY <1>2, <1>4, <1>5 DEF Injection, IsInjective, Distinct
<1>7. s \in Surjection(D, T)
  BY <1>1, <1>6, FS_Injection
<1>8. \A x \in T : \E i \in DOMAIN s : s[i] = x
  BY <1>4, <1>7 DEF Surjection
<1>9. \A i \in DOMAIN s : s[i] \in T
  BY <1>2, <1>4
<1> HIDE DEF D, n
<1> QED BY <1>3, <1>5, <1>8, <1>9 DEF ToSet

\* The position of a member that stands once.
LEMMA PositionOf ==
  ASSUME NEW s, Distinct(s), NEW i \in DOMAIN s
  PROVE  Position(s, s[i]) = i
<1>1. \A j \in DOMAIN s : s[j] = s[i] => j = i
  BY DEF Distinct
<1>2. Position(s, s[i]) \in DOMAIN s /\ s[Position(s, s[i])] = s[i]
  BY DEF Position
<1> QED BY <1>1, <1>2

\* To keep an order is to follow it.
LEMMA FollowsKeeps ==
  ASSUME NEW s, Distinct(s), NEW t, Follows(s, t)
  PROVE  Keeps(s, t)
<1> SUFFICES ASSUME NEW i \in DOMAIN t, NEW j \in DOMAIN t, i < j
             PROVE  Position(s, t[i]) < Position(s, t[j])
  BY DEF Keeps
<1>1. PICK k \in DOMAIN s, l \in DOMAIN s : k < l /\ s[k] = t[i] /\ s[l] = t[j]
  BY DEF Follows, Before
<1>2. Position(s, s[k]) = k /\ Position(s, s[l]) = l
  BY PositionOf
<1> QED BY <1>1, <1>2

\* s is a sequence that the order of class c may be.
Keeping(p, ord, c, s) ==
  /\ s \in SetToSeqs(Above(p)[c]) /\ Head(s) = c /\ Keeps(s, p.supers[c])
  /\ \A d \in ToSet(p.supers[c]) : Keeps(s, ord[d])

\* The order of a class is one of those it may be.
LEMMA OrderKeeps ==
  ASSUME NEW p \in Program, NEW c \in Classes(p), NEW ord, ord = Linearize(p.supers),
         Clean(ord[c])
  PROVE  /\ Keeping(p, ord, c, ord[c])
         /\ \A d \in ToSet(p.supers[c]) : Clean(ord[d]) /\ c \notin Above(p)[d]
<1> DEFINE s == ord[c]
           up == ToSet(p.supers[c])
<1>1. PICK supers : supers = p.supers
  OBVIOUS
<1>2. Hierarchy(supers) /\ Classes(p) = DOMAIN supers
  BY <1>1, ProgramHierarchy
<1>3. /\ s \in Seq(Names) /\ s # <<>> /\ s[1] = c /\ Distinct(s) /\ Follows(s, supers[c])
      /\ \A d \in ToSet(supers[c]) : /\ d \in DOMAIN supers /\ Clean(ord[d])
                                     /\ c \notin ToSet(ord[d]) /\ Follows(s, ord[d])
  <2> DEFINE o == Linearize(supers)
  <2>1. /\ o[c] \in Seq(Names) /\ o[c] # <<>> /\ o[c][1] = c /\ Distinct(o[c])
        /\ Follows(o[c], supers[c])
        /\ \A d \in ToSet(supers[c]) : /\ d \in DOMAIN supers /\ Clean(o[d])
                                       /\ c \notin ToSet(o[d]) /\ Follows(o[c], o[d])
    BY <1>1, <1>2, CleanOrder
  <2>2. ord = o
    BY <1>1
  <2> HIDE DEF o
  <2> QED BY <2>1, <2>2
<1>4. Above(p)[c] = ToSet(s)
  BY AboveOrder
<1>5. ASSUME NEW d \in up PROVE Clean(ord[d]) /\ c \notin Above(p)[d] /\ Keeps(s, ord[d])
  <2>1. d \in Classes(p) /\ Clean(ord[d]) /\ c \notin ToSet(ord[d]) /\ Follows(s, ord[d])
    BY <1>1, <1>2, <1>3
  <2>2. Above(p)[d] = ToSet(ord[d])
    BY <2>1, AboveOrder
  <2> QED BY <2>1, <2>2, <1>3, FollowsKeeps
<1>6. s \in SetToSeqs(Above(p)[c]) /\ Head(s) = c
  BY <1>3, <1>4, DistinctLists, Elements
<1>7. Keeps(s, p.supers[c])
  BY <1>1, <1>3, FollowsKeeps
<1> QED BY <1>5, <1>6, <1>7 DEF Keeping

\* If there is any it may be, it has an order.
LEMMA KeepsOrder ==
  ASSUME NEW p \in Program, NEW c \in Classes(p), NEW ord, ord = Linearize(p.supers),
         \A d \in ToSet(p.supers[c]) : Clean(ord[d]) /\ c \notin Above(p)[d],
         NEW s, Keeping(p, ord, c, s)
  PROVE  Clean(ord[c])
<1> DEFINE C == Classes(p)
           ss == p.supers[c]
           T == Above(p)[c]
           lists == Orders(ss, ord)
           pos == [x \in Names |-> IF x \in T THEN Position(s, x) ELSE 0]
<1>1. PICK supers : supers = p.supers
  OBVIOUS
<1>2. Hierarchy(supers) /\ C = DOMAIN supers /\ C \in SUBSET Class /\ ss \in Seq(C)
  BY <1>1, ProgramHierarchy, ProgramAssumption
<1>3. /\ ord \in [C -> Seq(Names)]
      /\ \A d \in C : ord[d] # <<>> /\ ord[d][1] = d
      /\ (\A d \in ToSet(ss) : Clean(ord[d]) /\ c \notin ToSet(ord[d])) =>
           ord[c] = <<c>> \o Merge[Orders(ss, ord)]
  <2> DEFINE o == Linearize(supers)
  <2>1. /\ o \in [C -> Seq(Names)]
        /\ \A d \in C : o[d] # <<>> /\ o[d][1] = d
        /\ (\A d \in ToSet(supers[c]) : Clean(o[d]) /\ c \notin ToSet(o[d])) =>
             o[c] = <<c>> \o Merge[Orders(supers[c], o)]
    BY <1>2, OrderedExactly
  <2>2. ord = o
    BY <1>1
  <2> HIDE DEF o
  <2> QED BY <2>1, <2>2, <1>1
<1>4. /\ DOMAIN lists = 1 .. Len(ss) + 1 /\ DOMAIN ss = 1 .. Len(ss) /\ Len(ss) \in Nat
      /\ lists \in Lists
      /\ \A k \in DOMAIN ss : lists[k] = ord[ss[k]]
      /\ lists[Len(ss) + 1] = ss
  BY <1>2, <1>3, OrdersLists
<1>5. ASSUME NEW d \in ToSet(ss)
      PROVE  d \in C /\ Clean(ord[d]) /\ c \notin ToSet(ord[d]) /\ d \in ToSet(ord[d])
  <2>1. d \in C /\ Clean(ord[d]) /\ c \notin Above(p)[d]
    BY <1>2, Elements
  <2>2. Above(p)[d] = ToSet(ord[d])
    BY <2>1, AboveOrder
  <2>3. ord[d] \in Seq(Names) /\ ord[d] # <<>> /\ ord[d][1] = d
    BY <1>3, <2>1
  <2>4. 1 \in DOMAIN ord[d]
    BY <2>3, Elements
  <2> QED BY <2>1, <2>2, <2>3, <2>4, Elements
<1>6. T = {c} \cup UNION {ToSet(ord[d]) : d \in ToSet(ss)}
  BY <1>5, AboveOrder
<1>7. T \subseteq C /\ IsFiniteSet(T)
  <2>1. \A d \in ToSet(ss) : ToSet(ord[d]) \subseteq C
    BY <1>1, <1>2, <1>5, OrderOfClasses
  <2>2. T \subseteq C
    BY <2>1, <1>6
  <2>3. IsFiniteSet(C)
    BY <1>2 DEF Hierarchy
  <2> QED BY <2>2, <2>3, FS_Subset
<1>8. s \in Seq(T) /\ Distinct(s) /\ ToSet(s) = T
  BY <1>7, ListsDistinct DEF Keeping
<1>9. pos \in [Names -> Nat] /\ \A x \in T : pos[x] = Position(s, x)
  <2>1. ASSUME NEW x \in T PROVE Position(s, x) \in Nat
    <3>1. PICK i \in DOMAIN s : s[i] = x
      BY <1>8, Elements
    <3>2. Position(s, x) = i
      BY <1>8, <3>1, PositionOf
    <3> QED BY <1>8, <3>2, Elements
  <2>2. T \subseteq Names
    BY <1>2, <1>7 DEF Names
  <2> HIDE DEF T
  <2> QED BY <2>1, <2>2
<1> HIDE DEF pos
<1>10. Ranks(pos, lists)
  <2>1. ASSUME NEW t, \A i \in DOMAIN t : t[i] \in T /\ t[i] # Failed, Keeps(s, t)
        PROVE  /\ \A i \in DOMAIN t : t[i] # Failed
               /\ \A i, j \in DOMAIN t : i < j => pos[t[i]] < pos[t[j]]
    BY <1>9, <2>1 DEF Keeps
  <2>2. Failed \notin C
    BY <1>2, ClassAssumption
  <2>3. ASSUME NEW k \in DOMAIN lists
        PROVE  (\A i \in DOMAIN lists[k] : lists[k][i] \in T /\ lists[k][i] # Failed) /\ Keeps(s, lists[k])
    <3>1. CASE k \in DOMAIN ss
      <4>1. ss[k] \in ToSet(ss) /\ lists[k] = ord[ss[k]]
        BY <3>1, <1>4 DEF ToSet
      <4>2. PICK d \in ToSet(ss) : lists[k] = ord[d]
        BY <4>1
      <4>3. ToSet(ord[d]) \subseteq T /\ T \subseteq C
        BY <1>6, <1>7
      <4>4. \A i \in DOMAIN ord[d] : ord[d][i] \in ToSet(ord[d])
        BY DEF ToSet
      <4> QED BY <4>2, <4>3, <4>4, <2>2 DEF Keeping
    <3>2. CASE k \notin DOMAIN ss
      <4>1. lists[k] = ss
        BY <3>2, <1>4
      <4>2. \A d \in ToSet(ss) : d \in T /\ d # Failed
        BY <1>5, <1>6, <2>2
      <4>3. \A i \in DOMAIN ss : ss[i] \in ToSet(ss)
        BY DEF ToSet
      <4> QED BY <4>1, <4>2, <4>3 DEF Keeping
    <3> QED BY <3>1, <3>2
  <2> QED BY <2>1, <2>3 DEF Ranks
<1>11. Clean(Merge[lists]) /\ Merge[lists] \in Seq(Names)
  BY <1>4, <1>9, <1>10, MergeComplete, MergeSteps
<1>12. ord[c] = <<c>> \o Merge[lists]
  BY <1>3, <1>5
<1>13. c \in Names /\ c # Failed
  BY <1>2, ClassAssumption DEF Names
<1> HIDE DEF lists
<1>14. ToSet(ord[c]) = {c} \cup ToSet(Merge[lists])
  BY <1>11, <1>12, <1>13, Prefixed
<1> QED BY <1>11, <1>13, <1>14 DEF Clean

\* Classes have the orders they should, and only those.
LEMMA OrdersExact == \A p \in Program : OrderExact(p, Linearize(p.supers))
<1> SUFFICES ASSUME NEW p \in Program, NEW ord, ord = Linearize(p.supers)
             PROVE  OrderExact(p, ord)
  OBVIOUS
<1> DEFINE supers(c) == ToSet(p.supers[c])
           keep(c) == {s \in SetToSeqs(Above(p)[c]) :
                         /\ Head(s) = c /\ Keeps(s, p.supers[c])
                         /\ \A d \in supers(c) : Keeps(s, ord[d])}
           Bad(c) == \E d \in supers(c) : c \in Above(p)[d] \/ Failed \in ToSet(ord[d])
<1>1. ASSUME NEW c \in Classes(p)
      PROVE  IF Bad(c) THEN Failed \in ToSet(ord[c])
             ELSE IF keep(c) = {} THEN Failed \in ToSet(ord[c]) ELSE ord[c] \in keep(c)
  <2>1. \A s : s \in keep(c) <=> Keeping(p, ord, c, s)
    BY DEF Keeping
  <2> HIDE DEF keep
  <2>2. Clean(ord[c]) => ~Bad(c) /\ ord[c] \in keep(c)
    BY <2>1, OrderKeeps DEF Clean
  <2>3. ~Bad(c) /\ keep(c) # {} => Clean(ord[c])
    <3> SUFFICES ASSUME ~Bad(c), NEW s \in keep(c) PROVE Clean(ord[c])
      OBVIOUS
    <3>1. \A d \in ToSet(p.supers[c]) : Clean(ord[d]) /\ c \notin Above(p)[d]
      BY DEF Clean
    <3>2. Keeping(p, ord, c, s)
      BY <2>1
    <3> HIDE DEF Bad
    <3> QED BY <3>1, <3>2, KeepsOrder
  <2>4. Clean(ord[c]) <=> ~(Failed \in ToSet(ord[c]))
    BY DEF Clean
  <2> HIDE DEF Bad
  <2> QED BY <2>2, <2>3, <2>4
<1> QED BY <1>1 DEF OrderExact

\* An order follows that of every class in it.
LEMMA OrderFollows ==
  ASSUME NEW supers, Hierarchy(supers)
  PROVE  \A c \in DOMAIN supers : Clean(Linearize(supers)[c]) =>
           \A e \in ToSet(Linearize(supers)[c]) : Follows(Linearize(supers)[c], Linearize(supers)[e])
<1> DEFINE ord == Linearize(supers)
           S == {c \in DOMAIN supers : \A e \in ToSet(ord[c]) : Follows(ord[c], ord[e])}
<1>1. ASSUME NEW c \in DOMAIN supers, Clean(ord[c]), ToSet(supers[c]) \subseteq S PROVE c \in S
  <2> SUFFICES ASSUME NEW e \in ToSet(ord[c]) PROVE Follows(ord[c], ord[e])
    OBVIOUS
  <2>1. /\ ToSet(Tail(ord[c])) = UNION {ToSet(ord[s]) : s \in ToSet(supers[c])}
        /\ ToSet(ord[c]) = {c} \cup ToSet(Tail(ord[c]))
        /\ \A s \in ToSet(supers[c]) : Follows(ord[c], ord[s])
    BY <1>1, CleanOrder
  <2>2. CASE e = c
    BY <2>2 DEF Follows, Before
  <2>3. CASE e # c
    <3>1. PICK s \in ToSet(supers[c]) : e \in ToSet(ord[s])
      BY <2>1, <2>3
    <3>2. Follows(ord[s], ord[e]) /\ Follows(ord[c], ord[s])
      BY <1>1, <2>1, <3>1
    <3> HIDE DEF ord, S
    <3>3. ASSUME NEW x, NEW y, Before(ord[s], x, y) PROVE Before(ord[c], x, y)
      BY <3>2, <3>3 DEF Before, Follows
    <3> QED BY <3>2, <3>3 DEF Follows
  <2> QED BY <2>2, <2>3
<1> HIDE DEF S
<1>2. \A c \in DOMAIN supers : Clean(ord[c]) => c \in S
  BY <1>1, HierarchyInduction
<1> QED BY <1>2 DEF S

\* A class has the field if one of its order does.
LEMMA DefinerExists ==
  ASSUME NEW p, NEW o, NEW c, NEW V, o[c] \in Seq(V), None \notin V,
         NEW k \in DOMAIN o[c], p.field[o[c][k]] # None
  PROVE  Definer(p, o, c) # None
<1> DEFINE s == o[c]
           has == {j \in DOMAIN s : p.field[s[j]] # None}
           Least(j) == \A i \in has : j <= i
           k0 == CHOOSE j \in has : Least(j)
<1>1. Definer(p, o, c) = IF has = {} THEN None ELSE s[k0]
  BY DEF Definer
<1>2. has \in SUBSET Nat /\ has # {}
  OBVIOUS
<1>3. \E j \in has : Least(j)
  BY <1>2, LeastElement
<1>4. k0 \in has
  <2> HIDE DEF has, Least
  <2> QED BY <1>3
<1>5. k0 \in DOMAIN s
  BY <1>4
<1> HIDE DEF k0
<1>6. s[k0] \in V
  BY <1>5
<1> QED BY <1>1, <1>2, <1>6

\* The field of class d stands for that of class e.
LEMMA NoClash ==
  ASSUME NEW p \in Program, NEW d \in Classes(p), NEW e \in Classes(p),
         p.field[d] # None, p.field[e] # None, ~Clash(p, d, e)
  PROVE  /\ p.field[e].static = p.field[d].static
         /\ p.field[e].method = p.field[d].method \/ p.field[e].static
         /\ Instance(p.field[e]) => /\ {"final", "private"} \cap p.field[e].flags = {}
                                    /\ "override" \in p.field[d].flags
                                    /\ "package" \in p.field[e].flags => ~OtherPackage(p, e, d)
<1>1. /\ p.field[d].static \in BOOLEAN /\ p.field[d].method \in BOOLEAN
      /\ p.field[e].static \in BOOLEAN /\ p.field[e].method \in BOOLEAN
  BY ProgramAssumption
<1> DEFINE old == p.field[d]
           new == p.field[e]
<1>2. /\ (old.static /\ new.static) \/ (Instance(old) /\ Instance(new))
      /\ "final" \notin new.flags
      /\ Instance(new) => /\ "package" \in new.flags => ~OtherPackage(p, e, d)
                          /\ "private" \notin new.flags
                          /\ "override" \in old.flags
  BY DEF Clash
<1> HIDE DEF old, new
<1>3. new.static = old.static /\ (new.method = old.method \/ new.static)
  BY <1>1, <1>2 DEF Instance, old, new
<1>4. Instance(new) => {"final", "private"} \cap new.flags = {}
  BY <1>2
<1> QED BY <1>2, <1>3, <1>4 DEF old, new

\* The field a class gets in a program that links.
LEMMA FieldSound ==
  ASSUME NEW p \in Program, NEW ord, ord = Linearize(p.supers),
         \A c \in Classes(p) : Resolves(p, ord, c),
         NEW c \in Classes(p), NEW d, d = Definer(p, ord, c)
  PROVE  LET mine == p.field[d]
             defs == {e \in Above(p)[c] \ {d} : p.field[e] # None}
         IN /\ d = None => defs = {}
            /\ d # None =>
                 /\ \A e \in defs : d \notin Above(p)[e]
                 /\ "abstract" \in mine.flags => "abstract" \in p.flags[c]
                 /\ "override" \in mine.flags =>
                      \E e \in Above(p)[d] \ {d} : p.field[e] # None /\ Instance(p.field[e])
                 /\ \A e \in defs : ~Clash(p, d, e) /\ e \in Classes(p) /\ d \in Classes(p)
<1> DEFINE C == Classes(p)
           defs == {e \in Above(p)[c] \ {d} : p.field[e] # None}
<1>1. PICK supers : supers = p.supers
  OBVIOUS
<1>2. Hierarchy(supers) /\ C = DOMAIN supers /\ C \subseteq Class /\ ord = Linearize(supers)
  BY <1>1, ProgramHierarchy, ProgramAssumption
<1>3. \A e \in C : Clean(ord[e])
  BY DEF Resolves, Clean
<1>4. \A e \in C : /\ ord[e] \in Seq(Names) /\ ord[e] # <<>> /\ ord[e][1] = e
                   /\ Distinct(ord[e])
                   /\ Above(p)[e] = ToSet(ord[e]) /\ ToSet(ord[e]) \subseteq C
  <2> SUFFICES ASSUME NEW e \in C
               PROVE  /\ ord[e] \in Seq(Names) /\ ord[e] # <<>> /\ ord[e][1] = e
                      /\ Distinct(ord[e])
                      /\ Above(p)[e] = ToSet(ord[e]) /\ ToSet(ord[e]) \subseteq C
    OBVIOUS
  <2>1. Above(p)[e] = ToSet(ord[e])
    BY <1>3, AboveOrder
  <2> DEFINE o == Linearize(supers)
  <2>2. /\ o[e] \in Seq(Names) /\ o[e] # <<>> /\ o[e][1] = e /\ Distinct(o[e])
        /\ ToSet(o[e]) \subseteq C
    BY <1>2, <1>3, CleanOrder, OrderOfClasses
  <2> HIDE DEF o
  <2>3. ord = o
    BY <1>2 DEF o
  <2> QED BY <2>1, <2>2, <2>3
<1>5. None \notin Names
  BY ClassAssumption DEF Names
<1>6. /\ \A e \in defs : e \in ToSet(ord[c]) /\ e # d /\ p.field[e] # None /\ e \in C
      /\ ToSet(ord[c]) \subseteq C
  BY <1>4
<1> HIDE DEF defs
<1>7. d = None => defs = {}
  <2> SUFFICES ASSUME NEW e \in defs PROVE d # None
    OBVIOUS
  <2>1. PICK k \in DOMAIN ord[c] : ord[c][k] = e
    BY <1>4, <1>6, Elements
  <2>2. ord[c] \in Seq(Names) /\ p.field[ord[c][k]] # None
    BY <1>4, <1>6, <2>1
  <2> QED BY <1>5, <2>2, DefinerExists
<1>8. ASSUME d # None
      PROVE  /\ \A e \in defs : d \notin Above(p)[e]
             /\ "abstract" \in p.field[d].flags => "abstract" \in p.flags[c]
             /\ "override" \in p.field[d].flags =>
                  \E e \in Above(p)[d] \ {d} : p.field[e] # None /\ Instance(p.field[e])
             /\ \A e \in defs : ~Clash(p, d, e) /\ e \in C /\ d \in C
  <2>1. ord[c] \in Seq(Names)
    BY <1>4
  <2>2. /\ d \in ToSet(ord[c])
        /\ \E k \in DOMAIN ord[c] :
             /\ d = ord[c][k] /\ p.field[ord[c][k]] # None
             /\ \A j \in DOMAIN ord[c] : p.field[ord[c][j]] # None => k <= j
    <3>1. First(p, ord, c, d)
      BY <1>8, <2>1, DefinerInOrder
    <3> QED BY <3>1 DEF First
  <2>3. PICK k \in DOMAIN ord[c] :
             /\ d = ord[c][k] /\ p.field[ord[c][k]] # None
             /\ \A j \in DOMAIN ord[c] : p.field[ord[c][j]] # None => k <= j
    BY <2>2
  <2>4. d \in C /\ p.field[d] # None
    BY <1>6, <2>2, <2>3
  <2>5. ASSUME NEW e \in defs, d \in Above(p)[e] PROVE FALSE
    <3>1. PICK j \in DOMAIN ord[c] : ord[c][j] = e
      BY <1>6, <2>1, Elements
    <3>2. k <= j /\ j # k
      BY <1>6, <2>3, <3>1
    <3>3. PICK m \in DOMAIN ord[e] : ord[e][m] = d
      BY <1>4, <1>6, <2>5, Elements
    <3>4. DOMAIN ord[e] = 1 .. Len(ord[e]) /\ Len(ord[e]) \in Nat /\ Len(ord[e]) > 0
      BY <1>4, <1>6, Elements
    <3>5. m # 1 /\ ord[e][1] = e
      BY <1>4, <1>6, <3>3
    <3>6. 1 \in DOMAIN ord[e] /\ 1 < m
      BY <3>3, <3>4, <3>5
    <3>7. Follows(ord[c], ord[e])
      BY <1>2, <1>3, <1>6, OrderFollows
    <3>8. Before(ord[c], e, d)
      BY <3>3, <3>5, <3>6, <3>7 DEF Follows
    <3>9. PICK x \in DOMAIN ord[c], y \in DOMAIN ord[c] :
            x < y /\ ord[c][x] = e /\ ord[c][y] = d
      BY <3>8 DEF Before
    <3>10. Distinct(ord[c])
      BY <1>4
    <3>11. x = j /\ y = k
      BY <2>3, <3>1, <3>9, <3>10 DEF Distinct
    <3>12. DOMAIN ord[c] \subseteq Nat
      BY <2>1
    <3> QED BY <3>2, <3>9, <3>11, <3>12
  <2>6. ~FieldErrors(p, ord, c) /\ ~FieldErrors(p, ord, d)
    BY <2>4 DEF Resolves
  <2>7. /\ \A e \in defs : ~Clash(p, d, e)
        /\ "abstract" \in p.field[d].flags => "abstract" \in p.flags[c]
    BY <1>6, <1>8, <2>6 DEF FieldErrors
  <2>8. Definer(p, ord, d) = d
    <3>1. ord[d] \in Seq(Names) /\ ord[d] # <<>> /\ ord[d][1] = d
      BY <1>4, <2>4
    <3>2. 1 \in DOMAIN ord[d] /\ DOMAIN ord[d] \subseteq Nat \ {0}
      BY <3>1, Elements
    <3>3. Definer(p, ord, d) # None
      BY <1>5, <2>4, <3>1, <3>2, DefinerExists
    <3>7. First(p, ord, d, Definer(p, ord, d))
      BY <3>1, <3>3, DefinerInOrder
    <3>4. PICK n \in DOMAIN ord[d] :
            /\ Definer(p, ord, d) = ord[d][n]
            /\ \A j \in DOMAIN ord[d] : p.field[ord[d][j]] # None => n <= j
      BY <3>7 DEF First
    <3>5. n <= 1
      BY <2>4, <3>1, <3>2, <3>4
    <3>6. n = 1
      BY <3>2, <3>4, <3>5
    <3> QED BY <3>1, <3>4, <3>6
  <2>9. "override" \in p.field[d].flags =>
          \E e \in ToSet(ord[d]) \ {d} : p.field[e] # None /\ Instance(p.field[e])
    BY <1>8, <2>6, <2>8 DEF FieldErrors
  <2> QED BY <1>4, <1>6, <2>4, <2>5, <2>7, <2>9
<1> QED BY <1>7, <1>8 DEF defs

\* In a program that links, fields are resolved soundly.
LEMMA FieldsAreSound ==
  ASSUME NEW p \in Program, NEW ord, ord = Linearize(p.supers),
         \A c \in Classes(p) : Resolves(p, ord, c)
  PROVE  FieldsSound(p, ord)
<1> DEFINE defs(c, d) == {e \in Above(p)[c] \ {d} : p.field[e] # None}
           Sound(c, d) ==
             /\ d = None => defs(c, d) = {}
             /\ d # None =>
                  /\ \A e \in defs(c, d) : d \notin Above(p)[e]
                  /\ "abstract" \in p.field[d].flags => "abstract" \in p.flags[c]
                  /\ "override" \in p.field[d].flags =>
                       \E e \in Above(p)[d] \ {d} : p.field[e] # None /\ Instance(p.field[e])
                  /\ \A e \in defs(c, d) :
                       /\ p.field[e].static = p.field[d].static
                       /\ p.field[e].method = p.field[d].method \/ p.field[e].static
                       /\ Instance(p.field[e]) =>
                            /\ {"final", "private"} \cap p.field[e].flags = {}
                            /\ "override" \in p.field[d].flags
                            /\ "package" \in p.field[e].flags => ~OtherPackage(p, e, d)
<1>1. ASSUME NEW c \in Classes(p), NEW d, d = Definer(p, ord, c) PROVE Sound(c, d)
  <2>1. /\ d = None => defs(c, d) = {}
        /\ d # None =>
             /\ \A e \in defs(c, d) : d \notin Above(p)[e]
             /\ "abstract" \in p.field[d].flags => "abstract" \in p.flags[c]
             /\ "override" \in p.field[d].flags =>
                  \E e \in Above(p)[d] \ {d} : p.field[e] # None /\ Instance(p.field[e])
             /\ \A e \in defs(c, d) : ~Clash(p, d, e) /\ e \in Classes(p) /\ d \in Classes(p)
    BY <1>1, FieldSound
  <2>2. d # None => p.field[d] # None
    <3>1. ord[c] \in Seq(Names)
      <4>1. PICK supers : supers = p.supers
        OBVIOUS
      <4>2. Hierarchy(supers) /\ Classes(p) = DOMAIN supers
        BY <4>1, ProgramHierarchy
      <4> QED BY <4>1, <4>2, OrderedExactly
    <3>2. d # None => First(p, ord, c, d)
      BY <1>1, <3>1, DefinerInOrder
    <3> QED BY <3>2 DEF First
  <2>3. ASSUME d # None, NEW e \in defs(c, d)
        PROVE  /\ p.field[e].static = p.field[d].static
               /\ p.field[e].method = p.field[d].method \/ p.field[e].static
               /\ Instance(p.field[e]) =>
                    /\ {"final", "private"} \cap p.field[e].flags = {}
                    /\ "override" \in p.field[d].flags
                    /\ "package" \in p.field[e].flags => ~OtherPackage(p, e, d)
    <3>1. ~Clash(p, d, e) /\ e \in Classes(p) /\ d \in Classes(p) /\ p.field[e] # None
      BY <2>1, <2>3
    <3> HIDE DEF defs
    <3> QED BY <2>2, <2>3, <3>1, NoClash
  <2> QED BY <2>1, <2>3
<1>2. \A c \in Classes(p) : Sound(c, Definer(p, ord, c))
  <2> HIDE DEF Sound
  <2> QED BY <1>1
<1> QED BY <1>2 DEF FieldsSound

\* What the linker accepts is what the lemmas above are about.
LEMMA ResolvesSoundly == Initializes => ResolvedSoundly
<1> SUFFICES ASSUME Initializes PROVE ResolvedSoundly
  OBVIOUS
<1>1. /\ prog \in Program
      /\ phase # "source" => order = Linearize(prog.supers)
      /\ phase = "run" => phase # "source" /\ \A c \in Classes(prog) : Resolves(prog, order, c)
  BY DEF Initializes, Linked
<1>2. phase # "source" => OrderExact(prog, order)
  BY <1>1, OrdersExact
<1>3. phase = "run" => FieldsSound(prog, order)
  BY <1>1, FieldsAreSound
<1> QED BY <1>2, <1>3 DEF ResolvedSoundly

\* For any program: linearize_c3 finds an order of a class if there is one that keeps those
\* of its superclasses, and rejects it if there is none; and in a program that the linker
\* accepts the field a class gets stands soundly for all those it hides (resolve.c).
THEOREM ResolvedSoundlyCorrect == Spec => []ResolvedSoundly
BY Invariant, ResolvesSoundly, PTL

=============================================================================
