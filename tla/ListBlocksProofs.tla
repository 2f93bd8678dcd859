-------------------------- MODULE ListBlocksProofs --------------------------
(***************************************************************************)
(* Theorems about ListBlocks, for any values, number of blocks and bounds, *)
(* of programs that do not concatenate two empty lists.                    *)
(*                                                                         *)
(* A list is laid out as a sequence q when its blocks have ranks r along   *)
(* the links, and block b holds the elements of q after the first off[b].  *)
(* What a change of blocks does to q, r and off is shown of the few steps  *)
(* that the operations are made of; what is read through the links is      *)
(* shown from the layout.                                                  *)
(***************************************************************************)
EXTENDS ListBlocks, Recursion

Used(bs) == {b \in Block : bs[b] # Null}

\* Block b is followed by the one of the next rank, or is the last; and so backwards.
NextLink(bs, tl, r, b) ==
  IF b = tl THEN bs[b].listnext = Hdr
  ELSE LET c == bs[b].listnext IN c \in Used(bs) /\ bs[c].listprev = b /\ r[c] = r[b] + 1

PrevLink(bs, hd, r, b) ==
  IF b = hd THEN bs[b].listprev = Hdr
  ELSE LET c == bs[b].listprev IN c \in Used(bs) /\ bs[c].listnext = b /\ r[c] = r[b] - 1

Linked(bs, hd, tl, r) ==
  /\ bs \in [Block -> Elem \cup {Null}] /\ r \in [Block -> Int]
  /\ hd \in Used(bs) /\ tl \in Used(bs)
  /\ \A b \in Used(bs) : NextLink(bs, tl, r, b) /\ PrevLink(bs, hd, r, b)
                         /\ r[hd] <= r[b] /\ r[b] <= r[tl]
  /\ \A b, c \in Used(bs) : r[b] = r[c] => b = c

Offsets(bs, hd, tl, off, q) ==
  /\ q \in Seq(Val) /\ Len(q) <= MaxSize
  /\ off \in [Block -> Int] /\ off[hd] = 0 /\ off[tl] + bs[tl].nused = Len(q)
  /\ \A b \in Used(bs) \ {tl} : off[bs[b].listnext] = off[b] + bs[b].nused

Filled(bs, off, q) ==
  \A b \in Used(bs) : \A p \in 0 .. bs[b].nused - 1 :
    q[off[b] + p + 1] = bs[b].lslots[Slot(bs[b], p)]

Inner(bs, hd, tl) == \A b \in Used(bs) \ {hd, tl} : bs[b].nused > 0

Layout(bs, hd, tl, q, r, off) ==
  Linked(bs, hd, tl, r) /\ Offsets(bs, hd, tl, off, q) /\ Filled(bs, off, q)

----------------------------------------------------------------------------
(* Blocks *)

LEMMA ElemFields ==
  ASSUME NEW le \in Elem
  PROVE  /\ le.nslots \in 1 .. MaxSlots /\ MaxSlots \in Nat
         /\ le.first \in 0 .. le.nslots - 1
         /\ le.nused \in 0 .. le.nslots
         /\ le.lslots \in [0 .. le.nslots - 1 -> Val \cup {Null}]
         /\ le.listprev \in Block \cup {Hdr} /\ le.listnext \in Block \cup {Hdr}
         /\ le = [nslots |-> le.nslots, first |-> le.first, nused |-> le.nused,
                  lslots |-> le.lslots, listprev |-> le.listprev, listnext |-> le.listnext]
         /\ le # Null
BY ListAssumption DEF Elem, MaxSlots

LEMMA ElemMade ==
  ASSUME NEW n \in 1 .. MaxSlots, NEW first \in 0 .. n - 1, NEW nused \in 0 .. n,
         NEW ls \in [0 .. n - 1 -> Val \cup {Null}],
         NEW prev \in Block \cup {Hdr}, NEW next \in Block \cup {Hdr}
  PROVE  [nslots |-> n, first |-> first, nused |-> nused, lslots |-> ls,
          listprev |-> prev, listnext |-> next] \in Elem
BY DEF Elem

\* The ring: notional indices and slots correspond.
LEMMA SlotRing ==
  ASSUME NEW le \in Elem, NEW p \in 0 .. le.nslots - 1
  PROVE  /\ Slot(le, p) \in 0 .. le.nslots - 1
         /\ p = IF Slot(le, p) >= le.first THEN Slot(le, p) - le.first
                ELSE Slot(le, p) - le.first + le.nslots
BY ElemFields DEF Slot

LEMMA SlotsDiffer ==
  ASSUME NEW le \in Elem, NEW p \in 0 .. le.nslots - 1, NEW r \in 0 .. le.nslots - 1,
         Slot(le, p) = Slot(le, r)
  PROVE  p = r
BY ElemFields DEF Slot

LEMMA BeforeFirstSlot ==
  ASSUME NEW le \in Elem
  PROVE  /\ BeforeFirst(le) \in 0 .. le.nslots - 1
         /\ BeforeFirst(le) = Slot(le, le.nslots - 1)
BY ElemFields DEF Slot, BeforeFirst

LEMMA NewBlockElem ==
  ASSUME NEW n \in 1 .. MaxSlots, NEW prev \in Block \cup {Hdr}, NEW next \in Block \cup {Hdr}
  PROVE  /\ NewBlock(n, prev, next) \in Elem
         /\ NewBlock(n, prev, next).nslots = n /\ NewBlock(n, prev, next).first = 0
         /\ NewBlock(n, prev, next).nused = 0
         /\ NewBlock(n, prev, next).listprev = prev /\ NewBlock(n, prev, next).listnext = next
<1>1. [i \in 0 .. n - 1 |-> Null] \in [0 .. n - 1 -> Val \cup {Null}]
  OBVIOUS
<1>2. 0 \in 0 .. n - 1 /\ 0 \in 0 .. n
  BY DEF MaxSlots
<1> QED BY <1>1, <1>2, ElemMade DEF NewBlock

----------------------------------------------------------------------------
(* Ranks and offsets *)

LEMMA LinkedBlock ==
  ASSUME NEW bs, NEW hd, NEW tl, NEW r, Linked(bs, hd, tl, r), NEW b \in Used(bs)
  PROVE  /\ b \in Block /\ bs[b] \in Elem /\ b # Hdr /\ b # Null
         /\ r[b] \in Int /\ r[hd] \in Int /\ r[tl] \in Int /\ r[hd] <= r[b] /\ r[b] <= r[tl]
         /\ NextLink(bs, tl, r, b) /\ PrevLink(bs, hd, r, b)
         /\ bs[b].nused \in Nat /\ hd \in Used(bs) /\ tl \in Used(bs)
<1>1. b \in Block /\ bs[b] \in Elem /\ b # Hdr /\ b # Null
  BY ListAssumption DEF Linked, Used
<1>2. bs[b].nused \in Nat
  BY <1>1, ElemFields
<1> QED BY <1>1, <1>2 DEF Linked, Used

\* Blocks of a higher rank hold what comes later.
LEMMA Growth ==
  ASSUME NEW bs, NEW hd, NEW tl, NEW r, NEW off, NEW q,
         Linked(bs, hd, tl, r), Offsets(bs, hd, tl, off, q)
  PROVE  \A b, c \in Used(bs) : r[b] < r[c] => off[b] + bs[b].nused <= off[c]
<1> DEFINE T == {d \in Nat : \A b, c \in Used(bs) :
                   r[c] = r[b] + d + 1 => off[b] + bs[b].nused <= off[c]}
<1>1. ASSUME NEW b \in Used(bs), NEW c \in Used(bs), r[b] < r[c]
      PROVE  /\ bs[b].listnext \in Used(bs) /\ r[bs[b].listnext] = r[b] + 1
             /\ off[bs[b].listnext] = off[b] + bs[b].nused
  <2>1. b # tl
    BY <1>1, LinkedBlock
  <2> QED BY <2>1, LinkedBlock DEF NextLink, Offsets
<1>2. \A b \in Used(bs) : off[b] \in Int /\ r[b] \in Int /\ bs[b].nused \in Nat
  BY LinkedBlock DEF Offsets
<1>3. 0 \in T
  <2> SUFFICES ASSUME NEW b \in Used(bs), NEW c \in Used(bs), r[c] = r[b] + 0 + 1
               PROVE  off[b] + bs[b].nused <= off[c]
    OBVIOUS
  <2>1. bs[b].listnext = c
    BY <1>1, <1>2 DEF Linked
  <2> QED BY <1>1, <1>2, <2>1
<1>4. ASSUME NEW d \in Nat, d \in T PROVE d + 1 \in T
  <2> SUFFICES ASSUME NEW b \in Used(bs), NEW c \in Used(bs), r[c] = r[b] + (d + 1) + 1
               PROVE  off[b] + bs[b].nused <= off[c]
    OBVIOUS
  <2> DEFINE e == bs[b].listnext
  <2>1. e \in Used(bs) /\ r[e] = r[b] + 1 /\ off[e] = off[b] + bs[b].nused
    BY <1>1, <1>2
  <2>2. r[c] = r[e] + d + 1
    BY <1>2, <2>1
  <2>3. off[e] + bs[e].nused <= off[c]
    BY <1>4, <2>1, <2>2
  <2> HIDE DEF e
  <2> QED BY <1>2, <2>1, <2>3
<1>5. \A d \in Nat : d \in T
  <2> HIDE DEF T
  <2> QED BY <1>3, <1>4, NatInductionSet
<1> SUFFICES ASSUME NEW b \in Used(bs), NEW c \in Used(bs), r[b] < r[c]
             PROVE  off[b] + bs[b].nused <= off[c]
  OBVIOUS
<1>6. r[c] - r[b] - 1 \in Nat /\ r[c] = r[b] + (r[c] - r[b] - 1) + 1
  BY <1>2
<1> QED BY <1>5, <1>6

LEMMA Bounds ==
  ASSUME NEW bs, NEW hd, NEW tl, NEW r, NEW off, NEW q,
         Linked(bs, hd, tl, r), Offsets(bs, hd, tl, off, q), NEW b \in Used(bs)
  PROVE  /\ off[b] \in Nat /\ bs[b].nused \in Nat /\ Len(q) \in Nat
         /\ off[b] + bs[b].nused <= Len(q)
<1>1. /\ off[b] \in Int /\ bs[b].nused \in Nat /\ Len(q) \in Nat
      /\ off[hd] = 0 /\ off[tl] \in Int /\ off[tl] + bs[tl].nused = Len(q)
      /\ bs[hd].nused \in Nat /\ bs[tl].nused \in Nat
  BY LinkedBlock DEF Offsets
<1>2. off[b] >= 0
  <2>1. CASE b = hd
    BY <1>1, <2>1
  <2>2. CASE b # hd
    <3>1. r[hd] < r[b]
      <4>1. hd \in Used(bs) /\ r[hd] # r[b]
        BY <2>2 DEF Linked
      <4> QED BY <4>1, LinkedBlock
    <3>2. off[hd] + bs[hd].nused <= off[b]
      BY <3>1, Growth, LinkedBlock
    <3> QED BY <1>1, <3>2
  <2> QED BY <2>1, <2>2
<1>3. off[b] + bs[b].nused <= Len(q)
  <2>1. CASE b = tl
    BY <1>1, <2>1
  <2>2. CASE b # tl
    <3>1. r[b] < r[tl]
      BY <2>2, LinkedBlock DEF Linked
    <3>2. off[b] + bs[b].nused <= off[tl]
      BY <3>1, Growth, LinkedBlock
    <3> QED BY <1>1, <3>2
  <2> QED BY <2>1, <2>2
<1> QED BY <1>1, <1>2, <1>3

\* Every element is in one block.
LEMMA ElementAt ==
  ASSUME NEW bs, NEW hd, NEW tl, NEW r, NEW off, NEW q,
         Linked(bs, hd, tl, r), Offsets(bs, hd, tl, off, q), NEW k \in 0 .. Len(q) - 1
  PROVE  /\ \E b \in Used(bs) : off[b] <= k /\ k < off[b] + bs[b].nused
         /\ \A b, c \in Used(bs) : /\ off[b] <= k /\ k < off[b] + bs[b].nused
                                   /\ off[c] <= k /\ k < off[c] + bs[c].nused
                                   => b = c
<1>1. \A b \in Used(bs) : off[b] \in Nat /\ r[b] \in Int /\ bs[b].nused \in Nat /\ r[b] - r[hd] \in Nat
  BY Bounds, LinkedBlock
<1>2. hd \in Used(bs) /\ tl \in Used(bs) /\ off[hd] = 0 /\ off[tl] + bs[tl].nused = Len(q)
  BY DEF Linked, Offsets
<1> DEFINE B == {b \in Used(bs) : k < off[b] + bs[b].nused}
           T == {r[b] - r[hd] : b \in B}
<1>3. tl \in B
  BY <1>2
<1>4. PICK m \in T : \A t \in T : m <= t
  <2>1. T \in SUBSET Nat /\ T # {}
    BY <1>1, <1>3
  <2> HIDE DEF T
  <2> QED BY <2>1, LeastElement
<1>5. PICK b \in B : m = r[b] - r[hd]
  BY <1>4
<1>6. off[b] <= k
  <2>1. CASE b = hd
    BY <1>2, <2>1
  <2>2. CASE b # hd
    <3> DEFINE p == bs[b].listprev
    <3>1. p \in Used(bs) /\ bs[p].listnext = b /\ r[p] = r[b] - 1
      BY <1>5, <2>2, LinkedBlock DEF PrevLink
    <3>2. p # tl
      BY <3>1, <1>1, <1>5, LinkedBlock
    <3>3. off[b] = off[p] + bs[p].nused
      BY <3>1, <3>2 DEF Offsets
    <3>4. p \notin B
      <4> SUFFICES ASSUME p \in B PROVE FALSE
        OBVIOUS
      <4>1. m <= r[p] - r[hd]
        BY <1>4
      <4>2. m = r[b] - r[hd] /\ r[b] \in Int /\ r[hd] \in Int
        BY <1>1, <1>2, <1>5
      <4> HIDE DEF p
      <4> QED BY <4>1, <4>2, <3>1
    <3> QED BY <3>1, <3>3, <3>4, <1>1, <1>5
  <2> QED BY <2>1, <2>2
<1>7. ASSUME NEW c \in Used(bs), NEW e \in Used(bs), r[c] < r[e],
             k < off[c] + bs[c].nused, off[e] <= k
      PROVE  FALSE
  <2>1. off[c] + bs[c].nused <= off[e]
    BY <1>7, Growth
  <2>2. PICK oc, oe, nc \in Nat : oc = off[c] /\ oe = off[e] /\ nc = bs[c].nused
    BY <1>1
  <2>3. k < oc + nc /\ oe <= k /\ oc + nc <= oe /\ k \in Int
    BY <1>7, <2>1, <2>2
  <2> QED BY <2>3
<1>8. \A c, e \in Used(bs) : /\ off[c] <= k /\ k < off[c] + bs[c].nused
                             /\ off[e] <= k /\ k < off[e] + bs[e].nused
                             => c = e
  <2> SUFFICES ASSUME NEW c \in Used(bs), NEW e \in Used(bs), off[c] <= k, k < off[c] + bs[c].nused,
                      off[e] <= k, k < off[e] + bs[e].nused, c # e
               PROVE FALSE
    OBVIOUS
  <2>1. r[c] < r[e] \/ r[e] < r[c]
    <3>1. r[c] # r[e]
      BY Zenon DEF Linked
    <3>2. r[c] \in Int /\ r[e] \in Int
      BY <1>1
    <3> QED BY <3>1, <3>2
  <2> QED BY <2>1, <1>7
<1> QED BY <1>5, <1>6, <1>8

----------------------------------------------------------------------------
(* What changes a layout *)

\* The slot of a notional index is a matter of the ring alone.
LEMMA SameRing ==
  ASSUME NEW le1, NEW le2, le1.first = le2.first, le1.nslots = le2.nslots, NEW p
  PROVE  Slot(le1, p) = Slot(le2, p)
BY DEF Slot

\* The sequence q2 is q with what it has from place a on, as many as are in block le,
\* replaced by what is in block le2.
Spliced(q, a, le, le2, q2) ==
  /\ q2 \in Seq(Val) /\ Len(q2) <= MaxSize
  /\ Len(q2) = Len(q) + le2.nused - le.nused
  /\ \A k \in 1 .. a : q2[k] = q[k]
  /\ \A k \in a + le.nused + 1 .. Len(q) : q2[k + (le2.nused - le.nused)] = q[k]
  /\ \A p \in 0 .. le2.nused - 1 : q2[a + p + 1] = le2.lslots[Slot(le2, p)]

\* Block b becomes le2, with the same links.
Altered(bs, b, le2, bs2) ==
  /\ bs2 = [bs EXCEPT ![b] = le2]
  /\ le2.listnext = bs[b].listnext /\ le2.listprev = bs[b].listprev

LEMMA OneBlock ==
  ASSUME NEW bs, NEW hd, NEW tl, NEW q, NEW r, NEW off, Layout(bs, hd, tl, q, r, off),
         NEW b \in Used(bs), NEW le2 \in Elem, NEW bs2, Altered(bs, b, le2, bs2),
         NEW q2, Spliced(q, off[b], bs[b], le2, q2)
  PROVE  \E off2 : /\ Layout(bs2, hd, tl, q2, r, off2) /\ off2[b] = off[b]
                   /\ le2.nused = bs[b].nused => off2 = off
<1> DEFINE d == le2.nused - bs[b].nused
           off2 == [c \in Block |-> IF r[c] > r[b] THEN off[c] + d ELSE off[c]]
<1>0. Linked(bs, hd, tl, r) /\ Offsets(bs, hd, tl, off, q) /\ Filled(bs, off, q)
  BY DEF Layout
<1>1. b \in Block /\ r \in [Block -> Int] /\ off \in [Block -> Int] /\ bs \in [Block -> Elem \cup {Null}]
  BY <1>0 DEF Linked, Offsets, Used
<1>2. \A c \in Block : /\ c # b => bs2[c] = bs[c]
                       /\ bs2[b] = le2
  BY <1>1 DEF Altered
<1>3. Used(bs2) = Used(bs)
  BY <1>2, ElemFields DEF Used
<1>4. /\ \A c \in Used(bs) : c \in Block /\ bs2[c].listnext = bs[c].listnext
                             /\ bs2[c].listprev = bs[c].listprev
      /\ hd \in Used(bs) /\ tl \in Used(bs)
  BY <1>0, <1>2 DEF Used, Linked, Altered
<1>5. Linked(bs2, hd, tl, r)
  <2>1. bs2 \in [Block -> Elem \cup {Null}]
    BY <1>1 DEF Altered
  <2>2. ASSUME NEW c \in Used(bs) PROVE NextLink(bs2, tl, r, c) /\ PrevLink(bs2, hd, r, c)
    <3>1. NextLink(bs, tl, r, c) /\ PrevLink(bs, hd, r, c)
      BY <1>0, LinkedBlock
    <3> QED BY <3>1, <1>3, <1>4 DEF NextLink, PrevLink
  <2> QED BY <2>1, <2>2, <1>0, <1>3 DEF Linked
<1>6. /\ bs[b].nused \in Nat /\ d \in Int /\ le2.nused = bs[b].nused + d
      /\ \A c \in Used(bs) : off[c] \in Nat /\ r[c] \in Int /\ bs[c].nused \in Nat
  <2>1. le2.nused \in Nat
    BY ElemFields
  <2>2. \A c \in Used(bs) : off[c] \in Nat /\ r[c] \in Int /\ bs[c].nused \in Nat
    BY <1>0, Bounds, LinkedBlock
  <2> QED BY <2>1, <2>2
<1>7. off2 \in [Block -> Int] /\ off2[b] = off[b]
  BY <1>1, <1>6
<1>8. d = 0 => off2 = off
  BY <1>1
<1>9. \A c \in Used(bs) : /\ r[c] > r[b] => off2[c] = off[c] + d
                          /\ r[c] <= r[b] => off2[c] = off[c]
  BY <1>4, <1>6
<1>10. le2.nused = bs[b].nused => d = 0
  BY <1>6
<1>11. /\ q2 \in Seq(Val) /\ Len(q2) <= MaxSize /\ Len(q) \in Nat /\ Len(q2) = Len(q) + d
       /\ \A k \in 1 .. off[b] : q2[k] = q[k]
       /\ \A k \in off[b] + bs[b].nused + 1 .. Len(q) : q2[k + d] = q[k]
       /\ \A p \in 0 .. le2.nused - 1 : q2[off[b] + p + 1] = le2.lslots[Slot(le2, p)]
  BY <1>0, <1>6 DEF Spliced, Offsets
<1>sum. /\ Len(q) \in Nat /\ Len(q2) = Len(q) + d /\ d \in Int
        /\ bs[b].nused \in Nat /\ le2.nused = bs[b].nused + d
  BY <1>6, <1>11
<1> HIDE DEF d, off2
<1>12. off2[hd] = 0
  <2>1. r[hd] <= r[b] /\ off[hd] = 0
    BY <1>0, LinkedBlock DEF Offsets
  <2> QED BY <2>1, <1>4, <1>9
<1>13. off2[tl] + bs2[tl].nused = Len(q2)
  <2>1. off[tl] + bs[tl].nused = Len(q) /\ off[tl] \in Nat /\ bs[tl].nused \in Nat
    BY <1>0, <1>4, <1>6 DEF Offsets
  <2>2. CASE tl = b
    <3>1. bs2[tl] = le2 /\ off2[tl] = off[tl]
      BY <2>2, <1>1, <1>2, <1>7
    <3>2. off2[tl] + bs2[tl].nused = (off[tl] + bs[tl].nused) + d
      BY <2>1, <2>2, <3>1, <1>sum
    <3> QED BY <2>1, <3>2, <1>sum
  <2>3. CASE tl # b
    <3>1. r[b] < r[tl]
      <4>1. r[b] # r[tl] /\ r[b] <= r[tl]
        BY <2>3, <1>0, <1>4, LinkedBlock DEF Linked
      <4> QED BY <4>1, <1>4, <1>6
    <3>2. off2[tl] = off[tl] + d /\ bs2[tl] = bs[tl]
      BY <2>3, <3>1, <1>2, <1>4, <1>9
    <3>3. off2[tl] + bs2[tl].nused = (off[tl] + bs[tl].nused) + d
      BY <2>1, <3>2, <1>sum
    <3> QED BY <2>1, <3>3, <1>sum
  <2> QED BY <2>2, <2>3
<1>14. ASSUME NEW c \in Used(bs) \ {tl} PROVE off2[bs2[c].listnext] = off2[c] + bs2[c].nused
  <2>1. PICK e \in Used(bs) : e = bs[c].listnext /\ r[e] = r[c] + 1
    BY <1>0, LinkedBlock DEF NextLink
  <2>2. off[e] = off[c] + bs[c].nused /\ bs2[c].listnext = e
    BY <2>1, <1>0, <1>4 DEF Offsets
  <2>3. off[e] \in Nat /\ off[c] \in Nat /\ bs[c].nused \in Nat /\ r[e] \in Int /\ r[c] \in Int
        /\ r[b] \in Int
    BY <1>6
  <2>4. CASE c = b
    <3>1. bs2[c] = le2 /\ off2[c] = off[c]
      BY <2>4, <1>1, <1>2, <1>7
    <3>2. off2[e] = off[e] + d
      BY <2>1, <2>3, <2>4, <1>9
    <3> QED BY <2>2, <2>3, <2>4, <3>1, <3>2, <1>6
  <2>5. CASE c # b
    <3>1. bs2[c] = bs[c]
      BY <2>5, <1>2, <1>4
    <3>2. r[c] # r[b]
      BY <2>5, <1>0 DEF Linked
    <3>3. CASE r[c] > r[b]
      <4>1. r[e] > r[b]
        BY <3>3, <2>1, <2>3
      <4>2. off2[c] = off[c] + d /\ off2[e] = off[e] + d
        BY <3>3, <4>1, <1>9
      <4> QED BY <4>2, <3>1, <2>2, <2>3, <1>6
    <3>4. CASE r[c] < r[b]
      <4>1. r[e] <= r[b] /\ r[c] <= r[b]
        BY <3>4, <2>1, <2>3
      <4>2. off2[c] = off[c] /\ off2[e] = off[e]
        BY <4>1, <1>9
      <4> QED BY <4>2, <3>1, <2>2
    <3> QED BY <3>2, <3>3, <3>4, <2>3
  <2> QED BY <2>4, <2>5
<1>15. Offsets(bs2, hd, tl, off2, q2)
  BY <1>3, <1>7, <1>11, <1>12, <1>13, <1>14 DEF Offsets
<1>16. Filled(bs2, off2, q2)
  <2> SUFFICES ASSUME NEW c \in Used(bs), NEW p \in 0 .. bs2[c].nused - 1
               PROVE  q2[off2[c] + p + 1] = bs2[c].lslots[Slot(bs2[c], p)]
    BY <1>3 DEF Filled
  <2>0. off[c] \in Nat /\ bs[c].nused \in Nat /\ r[c] \in Int /\ r[b] \in Int /\ off[b] \in Nat
    BY <1>6
  <2>1. CASE c = b
    BY <2>1, <1>1, <1>2, <1>7, <1>11
  <2>2. ASSUME c # b
        PROVE  /\ bs2[c] = bs[c] /\ p \in 0 .. bs[c].nused - 1
               /\ q[off[c] + p + 1] = bs[c].lslots[Slot(bs[c], p)]
    <3>1. bs2[c] = bs[c]
      BY <2>2, <1>2, <1>4
    <3> QED BY <3>1, <1>0 DEF Filled
  <2>3. CASE r[c] < r[b]
    <3>1. off[c] + bs[c].nused <= off[b]
      BY <2>3, <1>0, Growth
    <3>2. c # b
      BY <2>0, <2>3
    <3>3. off2[c] = off[c]
      BY <2>0, <2>3, <1>9
    <3>4. off[c] + p + 1 \in 1 .. off[b]
      BY <3>1, <3>2, <2>0, <2>2
    <3> QED BY <3>2, <3>3, <3>4, <2>2, <1>11
  <2>4. CASE r[c] > r[b]
    <3>1. off[b] + bs[b].nused <= off[c] /\ off[c] + bs[c].nused <= Len(q)
      BY <2>4, <2>0, <1>0, Growth, Bounds
    <3>2. c # b
      BY <2>0, <2>4
    <3>3. off2[c] = off[c] + d
      BY <2>4, <1>9
    <3>4. p \in 0 .. bs[c].nused - 1
      BY <3>2, <2>2
    <3>5. off[c] + p + 1 \in off[b] + bs[b].nused + 1 .. Len(q)
      <4>1. p \in Nat /\ p + 1 <= bs[c].nused
        BY <3>4, <2>0
      <4>2. off[b] + bs[b].nused + 1 <= off[c] + p + 1
        BY <4>1, <3>1, <2>0, <1>sum
      <4>3. off[c] + p + 1 <= off[c] + bs[c].nused
        BY <4>1, <2>0
      <4>4. off[c] + p + 1 <= Len(q)
        <5>1. PICK oc, nc, l, t \in Nat : oc = off[c] /\ nc = bs[c].nused /\ l = Len(q) /\ t = p
          BY <4>1, <2>0, <1>sum
        <5>2. oc + t + 1 <= oc + nc /\ oc + nc <= l
          BY <4>3, <3>1, <5>1
        <5> QED BY <5>1, <5>2
      <4> QED BY <4>1, <4>2, <4>4, <2>0, <1>sum
    <3>6. off2[c] + p + 1 = (off[c] + p + 1) + d
      BY <3>3, <3>4, <2>0, <1>6
    <3> QED BY <3>2, <3>5, <3>6, <2>2, <1>11
  <2>5. r[c] = r[b] => c = b
    BY <1>0 DEF Linked
  <2> QED BY <2>0, <2>1, <2>3, <2>4, <2>5
<1> QED BY <1>5, <1>7, <1>8, <1>10, <1>15, <1>16 DEF Layout

\* What a block has besides its links.
SameData(le, le2) ==
  /\ le2 \in Elem /\ le2.nslots = le.nslots /\ le2.first = le.first
  /\ le2.nused = le.nused /\ le2.lslots = le.lslots

LEMMA Relinked ==
  ASSUME NEW le \in Elem, NEW x \in Block \cup {Hdr}
  PROVE  /\ SameData(le, [le EXCEPT !.listprev = x])
         /\ [le EXCEPT !.listprev = x].listprev = x
         /\ [le EXCEPT !.listprev = x].listnext = le.listnext
         /\ SameData(le, [le EXCEPT !.listnext = x])
         /\ [le EXCEPT !.listnext = x].listnext = x
         /\ [le EXCEPT !.listnext = x].listprev = le.listprev
<1> DEFINE lp == [nslots |-> le.nslots, first |-> le.first, nused |-> le.nused,
                  lslots |-> le.lslots, listprev |-> x, listnext |-> le.listnext]
           ln == [nslots |-> le.nslots, first |-> le.first, nused |-> le.nused,
                  lslots |-> le.lslots, listprev |-> le.listprev, listnext |-> x]
<1>1. lp \in Elem /\ ln \in Elem
  BY ElemFields, ElemMade
<1>2. [le EXCEPT !.listprev = x] = lp /\ [le EXCEPT !.listnext = x] = ln
  BY ElemFields
<1> QED BY <1>1, <1>2 DEF SameData

LEMMA SameFilled ==
  ASSUME NEW le \in Elem, NEW le2, SameData(le, le2), NEW q, NEW a,
         \A p \in 0 .. le.nused - 1 : q[a + p + 1] = le.lslots[Slot(le, p)]
  PROVE  \A p \in 0 .. le2.nused - 1 : q[a + p + 1] = le2.lslots[Slot(le2, p)]
BY DEF SameData, Slot

\* Blocks are relinked, added when they are empty, and dropped when they are empty.
LEMMA SameContents ==
  ASSUME NEW bs, NEW bs2, NEW q, NEW off, NEW off2, Filled(bs, off, q),
         bs \in [Block -> Elem \cup {Null}],
         \A c \in Used(bs2) \cap Used(bs) : SameData(bs[c], bs2[c]) /\ off2[c] = off[c],
         \A c \in Used(bs2) \ Used(bs) : bs2[c].nused = 0
  PROVE  Filled(bs2, off2, q)
<1> SUFFICES ASSUME NEW c \in Used(bs2)
             PROVE  \A p \in 0 .. bs2[c].nused - 1 :
                      q[off2[c] + p + 1] = bs2[c].lslots[Slot(bs2[c], p)]
  BY DEF Filled
<1>1. CASE c \in Used(bs)
  <2>1. bs[c] \in Elem /\ SameData(bs[c], bs2[c]) /\ off2[c] = off[c]
    BY <1>1 DEF Used
  <2>2. \A p \in 0 .. bs[c].nused - 1 : q[off[c] + p + 1] = bs[c].lslots[Slot(bs[c], p)]
    BY <1>1 DEF Filled
  <2> QED BY <2>1, <2>2, SameFilled
<1>2. CASE c \notin Used(bs)
  BY <1>2
<1> QED BY <1>1, <1>2

\* An empty block comes first.
AddedFront(bs, hd, b, le, bs2) ==
  /\ b \in Block /\ bs[b] = Null
  /\ le \in Elem /\ le.nused = 0 /\ le.listprev = Hdr /\ le.listnext = hd
  /\ bs2 = [bs EXCEPT ![b] = le, ![hd].listprev = b]

LEMMA AddFront ==
  ASSUME NEW bs, NEW hd, NEW tl, NEW q, NEW r, NEW off, Layout(bs, hd, tl, q, r, off),
         NEW b, NEW le, NEW bs2, AddedFront(bs, hd, b, le, bs2)
  PROVE  /\ \E r2, off2 : Layout(bs2, b, tl, q, r2, off2) /\ off2[b] = 0
         /\ Used(bs2) = Used(bs) \cup {b} /\ bs2[b] = le
         /\ \A c \in Used(bs) : bs2[c].nused = bs[c].nused
<1> DEFINE r2 == [r EXCEPT ![b] = r[hd] - 1]
           off2 == [off EXCEPT ![b] = 0]
           h2 == [bs[hd] EXCEPT !.listprev = b]
<1>0. Linked(bs, hd, tl, r) /\ Offsets(bs, hd, tl, off, q) /\ Filled(bs, off, q)
  BY DEF Layout
<1>1. /\ bs \in [Block -> Elem \cup {Null}] /\ r \in [Block -> Int] /\ off \in [Block -> Int]
      /\ hd \in Used(bs) /\ tl \in Used(bs) /\ hd \in Block /\ bs[hd] \in Elem
      /\ b \in Block /\ b # hd /\ b \notin Used(bs) /\ le \in Elem /\ le # Null /\ b # Hdr
  <2>1. b \in Block /\ b \notin Used(bs) /\ le \in Elem /\ le # Null /\ b # Hdr
    <3>1. b \in Block /\ b \notin Used(bs) /\ le \in Elem
      BY DEF Used, AddedFront
    <3> QED BY <3>1, ElemFields, ListAssumption
  <2>2. hd \in Used(bs) /\ tl \in Used(bs)
    BY <1>0 DEF Linked
  <2>3. hd \in Block /\ bs[hd] \in Elem
    BY <1>0, <2>2, LinkedBlock
  <2> QED BY <1>0, <2>1, <2>2, <2>3 DEF Linked, Offsets
<1>2. SameData(bs[hd], h2) /\ h2.listprev = b /\ h2.listnext = bs[hd].listnext
  BY <1>1, Relinked
<1>3. /\ \A c \in Block : c # b /\ c # hd => bs2[c] = bs[c]
      /\ bs2[b] = le /\ bs2[hd] = h2
  BY <1>1 DEF AddedFront
<1> HIDE DEF h2
<1>4. h2 \in Elem /\ h2 # Null
  BY <1>2, ElemFields DEF SameData
<1>5. Used(bs2) = Used(bs) \cup {b}
  BY <1>1, <1>3, <1>4 DEF Used
<1>6. \A c \in Used(bs) : /\ SameData(bs[c], bs2[c]) /\ bs2[c].listnext = bs[c].listnext
                          /\ c # hd => bs2[c].listprev = bs[c].listprev
  <2> SUFFICES ASSUME NEW c \in Used(bs)
               PROVE  /\ SameData(bs[c], bs2[c]) /\ bs2[c].listnext = bs[c].listnext
                      /\ c # hd => bs2[c].listprev = bs[c].listprev
    OBVIOUS
  <2>1. CASE c = hd
    BY <2>1, <1>2, <1>3
  <2>2. CASE c # hd
    <3>1. bs2[c] = bs[c] /\ bs[c] \in Elem
      BY <2>2, <1>0, <1>1, <1>3, LinkedBlock
    <3> QED BY <2>2, <3>1 DEF SameData
  <2> QED BY <2>1, <2>2
<1>7. bs2 \in [Block -> Elem \cup {Null}]
  <2>1. bs2 = [c \in Block |-> bs2[c]]
    BY <1>1 DEF AddedFront
  <2> QED BY <2>1, <1>1, <1>3, <1>4
<1>8. /\ r2 \in [Block -> Int] /\ r2[b] = r[hd] - 1
      /\ off2 \in [Block -> Int] /\ off2[b] = 0
      /\ \A c \in Used(bs) : r2[c] = r[c] /\ off2[c] = off[c]
  <2>1. \A c \in Used(bs) : c \in Block /\ c # b
    BY <1>1 DEF Used
  <2> QED BY <1>1, <2>1
<1> HIDE DEF r2, off2
<1>9. Linked(bs2, b, tl, r2)
  <2>1. ASSUME NEW c \in Used(bs)
        PROVE  /\ NextLink(bs2, tl, r2, c) /\ PrevLink(bs2, b, r2, c)
               /\ r2[b] <= r2[c] /\ r2[c] <= r2[tl]
    <3>1. /\ NextLink(bs, tl, r, c) /\ PrevLink(bs, hd, r, c) /\ r[hd] <= r[c] /\ r[c] <= r[tl]
          /\ r[c] \in Int /\ r[hd] \in Int /\ c # b
      BY <1>0, <1>1, LinkedBlock
    <3>2. NextLink(bs2, tl, r2, c)
      <4>1. CASE c = tl
        BY <4>1, <3>1, <1>6 DEF NextLink
      <4>2. CASE c # tl
        <5>1. PICK e \in Used(bs) : bs[c].listnext = e /\ bs[e].listprev = c /\ r[e] = r[c] + 1
          BY <4>2, <3>1 DEF NextLink
        <5>2. e # hd
          BY <5>1, <3>1
        <5> QED BY <5>1, <5>2, <4>2, <1>5, <1>6, <1>8 DEF NextLink
      <4> QED BY <4>1, <4>2
    <3>3. PrevLink(bs2, b, r2, c)
      <4>1. CASE c = hd
        BY <4>1, <3>1, <1>1, <1>2, <1>3, <1>5, <1>8 DEF PrevLink, AddedFront
      <4>2. CASE c # hd
        BY <4>2, <3>1, <1>5, <1>6, <1>8 DEF PrevLink
      <4> QED BY <4>1, <4>2
    <3> QED BY <3>1, <3>2, <3>3, <1>1, <1>8
  <2>2. /\ NextLink(bs2, tl, r2, b) /\ PrevLink(bs2, b, r2, b)
        /\ r2[b] <= r2[b] /\ r2[b] <= r2[tl]
    <3>1. r[hd] \in Int /\ r[tl] \in Int /\ r[hd] <= r[tl] /\ b # tl
      BY <1>0, <1>1, LinkedBlock
    <3>2. NextLink(bs2, tl, r2, b)
      <4>1. bs2[b].listnext = hd /\ hd \in Used(bs2) /\ bs2[hd].listprev = b
        BY <1>1, <1>2, <1>3, <1>5 DEF AddedFront
      <4>2. r2[hd] = r2[b] + 1
        BY <3>1, <1>1, <1>8
      <4> QED BY <3>1, <4>1, <4>2 DEF NextLink
    <3>3. PrevLink(bs2, b, r2, b)
      BY <1>3 DEF PrevLink, AddedFront
    <3> QED BY <3>1, <3>2, <3>3, <1>1, <1>8
  <2>3. \A c, e \in Used(bs2) : r2[c] = r2[e] => c = e
    <3>1. \A c \in Used(bs) : r2[c] # r2[b]
      <4> SUFFICES ASSUME NEW c \in Used(bs) PROVE r2[c] # r2[b]
        OBVIOUS
      <4>1. r[c] \in Int /\ r[hd] \in Int /\ r[hd] <= r[c]
        BY <1>0, LinkedBlock
      <4> QED BY <4>1, <1>8
    <3> QED BY <3>1, <1>0, <1>5, <1>8 DEF Linked
  <2>4. b \in Used(bs2) /\ tl \in Used(bs2)
    BY <1>1, <1>5
  <2>5. \A c \in Used(bs2) : NextLink(bs2, tl, r2, c) /\ PrevLink(bs2, b, r2, c)
                             /\ r2[b] <= r2[c] /\ r2[c] <= r2[tl]
    BY <2>1, <2>2, <1>5
  <2> QED BY <2>3, <2>4, <2>5, <1>7, <1>8 DEF Linked
<1>10. \A c \in Used(bs) : bs2[c].nused = bs[c].nused
  BY <1>6 DEF SameData
<1>11. Offsets(bs2, b, tl, off2, q)
  <2>1. off2[tl] + bs2[tl].nused = Len(q)
    BY <1>0, <1>1, <1>8, <1>10 DEF Offsets
  <2>2. ASSUME NEW c \in Used(bs2) \ {tl} PROVE off2[bs2[c].listnext] = off2[c] + bs2[c].nused
    <3>1. CASE c = b
      BY <3>1, <1>0, <1>1, <1>3, <1>8 DEF Offsets, AddedFront
    <3>2. CASE c # b
      <4>1. c \in Used(bs) /\ bs[c].listnext \in Used(bs)
        BY <3>2, <2>2, <1>0, <1>5, LinkedBlock DEF NextLink
      <4>2. off[bs[c].listnext] = off[c] + bs[c].nused
        BY <4>1, <2>2, <1>0 DEF Offsets
      <4> QED BY <4>1, <4>2, <1>6, <1>8, <1>10
    <3> QED BY <3>1, <3>2
  <2> QED BY <2>1, <2>2, <1>0, <1>8 DEF Offsets
<1>12. Filled(bs2, off2, q)
  <2>1. \A c \in Used(bs2) \ Used(bs) : bs2[c].nused = 0
    BY <1>3, <1>5 DEF AddedFront
  <2>2. \A c \in Used(bs2) \cap Used(bs) : SameData(bs[c], bs2[c]) /\ off2[c] = off[c]
    BY <1>6, <1>8
  <2> QED BY <2>1, <2>2, <1>0, <1>1, SameContents
<1>13. Layout(bs2, b, tl, q, r2, off2)
  BY <1>9, <1>11, <1>12 DEF Layout
<1> QED BY <1>3, <1>5, <1>8, <1>10, <1>13

\* An empty block comes last.
AddedBack(bs, tl, b, le, bs2) ==
  /\ b \in Block /\ bs[b] = Null
  /\ le \in Elem /\ le.nused = 0 /\ le.listprev = tl /\ le.listnext = Hdr
  /\ bs2 = [bs EXCEPT ![b] = le, ![tl].listnext = b]

LEMMA AddBack ==
  ASSUME NEW bs, NEW hd, NEW tl, NEW q, NEW r, NEW off, Layout(bs, hd, tl, q, r, off),
         NEW b, NEW le, NEW bs2, AddedBack(bs, tl, b, le, bs2)
  PROVE  /\ \E r2, off2 : Layout(bs2, hd, b, q, r2, off2) /\ off2[b] = Len(q)
         /\ Used(bs2) = Used(bs) \cup {b} /\ bs2[b] = le
         /\ \A c \in Used(bs) : bs2[c].nused = bs[c].nused
<1> DEFINE r2 == [r EXCEPT ![b] = r[tl] + 1]
           off2 == [off EXCEPT ![b] = Len(q)]
           t2 == [bs[tl] EXCEPT !.listnext = b]
<1>0. Linked(bs, hd, tl, r) /\ Offsets(bs, hd, tl, off, q) /\ Filled(bs, off, q)
  BY DEF Layout
<1>1. /\ bs \in [Block -> Elem \cup {Null}] /\ r \in [Block -> Int] /\ off \in [Block -> Int]
      /\ hd \in Used(bs) /\ tl \in Used(bs) /\ tl \in Block /\ bs[tl] \in Elem
      /\ b \in Block /\ b # tl /\ b \notin Used(bs) /\ le \in Elem /\ le # Null /\ b # Hdr
  <2>1. b \in Block /\ b \notin Used(bs) /\ le \in Elem /\ le # Null /\ b # Hdr
    <3>1. b \in Block /\ b \notin Used(bs) /\ le \in Elem
      BY DEF Used, AddedBack
    <3> QED BY <3>1, ElemFields, ListAssumption
  <2>2. hd \in Used(bs) /\ tl \in Used(bs)
    BY <1>0 DEF Linked
  <2>3. tl \in Block /\ bs[tl] \in Elem
    BY <1>0, <2>2, LinkedBlock
  <2> QED BY <1>0, <2>1, <2>2, <2>3 DEF Linked, Offsets
<1>2. SameData(bs[tl], t2) /\ t2.listnext = b /\ t2.listprev = bs[tl].listprev
  BY <1>1, Relinked
<1>3. /\ \A c \in Block : c # b /\ c # tl => bs2[c] = bs[c]
      /\ bs2[b] = le /\ bs2[tl] = t2
  BY <1>1 DEF AddedBack
<1> HIDE DEF t2
<1>4. t2 \in Elem /\ t2 # Null
  BY <1>2, ElemFields DEF SameData
<1>5. Used(bs2) = Used(bs) \cup {b}
  BY <1>1, <1>3, <1>4 DEF Used
<1>6. \A c \in Used(bs) : /\ SameData(bs[c], bs2[c]) /\ bs2[c].listprev = bs[c].listprev
                          /\ c # tl => bs2[c].listnext = bs[c].listnext
  <2> SUFFICES ASSUME NEW c \in Used(bs)
               PROVE  /\ SameData(bs[c], bs2[c]) /\ bs2[c].listprev = bs[c].listprev
                      /\ c # tl => bs2[c].listnext = bs[c].listnext
    OBVIOUS
  <2>1. CASE c = tl
    BY <2>1, <1>2, <1>3
  <2>2. CASE c # tl
    <3>1. bs2[c] = bs[c] /\ bs[c] \in Elem
      BY <2>2, <1>0, <1>1, <1>3, LinkedBlock
    <3> QED BY <2>2, <3>1 DEF SameData
  <2> QED BY <2>1, <2>2
<1>7. bs2 \in [Block -> Elem \cup {Null}]
  <2>1. bs2 = [c \in Block |-> bs2[c]]
    BY <1>1 DEF AddedBack
  <2> QED BY <2>1, <1>1, <1>3, <1>4
<1>8. /\ r2 \in [Block -> Int] /\ r2[b] = r[tl] + 1
      /\ off2 \in [Block -> Int] /\ off2[b] = Len(q)
      /\ \A c \in Used(bs) : r2[c] = r[c] /\ off2[c] = off[c]
  <2>1. \A c \in Used(bs) : c \in Block /\ c # b
    BY <1>1 DEF Used
  <2>2. Len(q) \in Int
    BY <1>0 DEF Offsets
  <2> QED BY <1>1, <2>1, <2>2
<1> HIDE DEF r2, off2
<1>9. Linked(bs2, hd, b, r2)
  <2>1. ASSUME NEW c \in Used(bs)
        PROVE  /\ NextLink(bs2, b, r2, c) /\ PrevLink(bs2, hd, r2, c)
               /\ r2[hd] <= r2[c] /\ r2[c] <= r2[b]
    <3>1. /\ NextLink(bs, tl, r, c) /\ PrevLink(bs, hd, r, c) /\ r[hd] <= r[c] /\ r[c] <= r[tl]
          /\ r[c] \in Int /\ r[tl] \in Int /\ c # b
      BY <1>0, <1>1, LinkedBlock
    <3>2. PrevLink(bs2, hd, r2, c)
      <4>1. CASE c = hd
        BY <4>1, <3>1, <1>6 DEF PrevLink
      <4>2. CASE c # hd
        <5>1. PICK e \in Used(bs) : bs[c].listprev = e /\ bs[e].listnext = c /\ r[e] = r[c] - 1
          BY <4>2, <3>1 DEF PrevLink
        <5>2. e # tl
          BY <5>1, <3>1
        <5> QED BY <5>1, <5>2, <4>2, <1>5, <1>6, <1>8 DEF PrevLink
      <4> QED BY <4>1, <4>2
    <3>3. NextLink(bs2, b, r2, c)
      <4>1. CASE c = tl
        <5>1. bs2[c].listnext = b /\ b \in Used(bs2) /\ bs2[b].listprev = c
          BY <4>1, <1>2, <1>3, <1>5 DEF AddedBack
        <5> QED BY <4>1, <5>1, <3>1, <1>8 DEF NextLink
      <4>2. CASE c # tl
        BY <4>2, <3>1, <1>5, <1>6, <1>8 DEF NextLink
      <4> QED BY <4>1, <4>2
    <3> QED BY <3>1, <3>2, <3>3, <1>1, <1>8
  <2>2. /\ NextLink(bs2, b, r2, b) /\ PrevLink(bs2, hd, r2, b)
        /\ r2[hd] <= r2[b] /\ r2[b] <= r2[b]
    <3>1. r[hd] \in Int /\ r[tl] \in Int /\ r[hd] <= r[tl] /\ b # hd
      BY <1>0, <1>1, LinkedBlock
    <3>2. PrevLink(bs2, hd, r2, b)
      <4>1. bs2[b].listprev = tl /\ tl \in Used(bs2) /\ bs2[tl].listnext = b
        BY <1>1, <1>2, <1>3, <1>5 DEF AddedBack
      <4>2. r2[tl] = r2[b] - 1
        BY <3>1, <1>1, <1>8
      <4> QED BY <3>1, <4>1, <4>2 DEF PrevLink
    <3>3. NextLink(bs2, b, r2, b)
      BY <1>3 DEF NextLink, AddedBack
    <3> QED BY <3>1, <3>2, <3>3, <1>1, <1>8
  <2>3. \A c, e \in Used(bs2) : r2[c] = r2[e] => c = e
    <3>1. \A c \in Used(bs) : r2[c] # r2[b]
      <4> SUFFICES ASSUME NEW c \in Used(bs) PROVE r2[c] # r2[b]
        OBVIOUS
      <4>1. r[c] \in Int /\ r[tl] \in Int /\ r[c] <= r[tl]
        BY <1>0, LinkedBlock
      <4> QED BY <4>1, <1>8
    <3> QED BY <3>1, <1>0, <1>5, <1>8 DEF Linked
  <2>4. hd \in Used(bs2) /\ b \in Used(bs2)
    BY <1>1, <1>5
  <2>5. \A c \in Used(bs2) : NextLink(bs2, b, r2, c) /\ PrevLink(bs2, hd, r2, c)
                             /\ r2[hd] <= r2[c] /\ r2[c] <= r2[b]
    BY <2>1, <2>2, <1>5
  <2> QED BY <2>3, <2>4, <2>5, <1>7, <1>8 DEF Linked
<1>10. \A c \in Used(bs) : bs2[c].nused = bs[c].nused
  BY <1>6 DEF SameData
<1>11. Offsets(bs2, hd, b, off2, q)
  <2>1. off2[b] + bs2[b].nused = Len(q)
    BY <1>0, <1>3, <1>8 DEF Offsets, AddedBack
  <2>2. ASSUME NEW c \in Used(bs2) \ {b} PROVE off2[bs2[c].listnext] = off2[c] + bs2[c].nused
    <3>0. c \in Used(bs)
      BY <1>5
    <3>1. CASE c = tl
      <4>1. bs2[c].listnext = b /\ off[tl] + bs[tl].nused = Len(q)
        BY <3>1, <1>0, <1>2, <1>3 DEF Offsets
      <4> QED BY <3>0, <3>1, <4>1, <1>8, <1>10
    <3>2. CASE c # tl
      <4>1. bs[c].listnext \in Used(bs)
        BY <3>0, <3>2, <1>0, LinkedBlock DEF NextLink
      <4>2. off[bs[c].listnext] = off[c] + bs[c].nused
        BY <3>0, <3>2, <1>0 DEF Offsets
      <4> QED BY <3>0, <3>2, <4>1, <4>2, <1>6, <1>8, <1>10
    <3> QED BY <3>1, <3>2
  <2> QED BY <2>1, <2>2, <1>0, <1>1, <1>8 DEF Offsets
<1>12. Filled(bs2, off2, q)
  <2>1. \A c \in Used(bs2) \ Used(bs) : bs2[c].nused = 0
    BY <1>3, <1>5 DEF AddedBack
  <2>2. \A c \in Used(bs2) \cap Used(bs) : SameData(bs[c], bs2[c]) /\ off2[c] = off[c]
    BY <1>6, <1>8
  <2> QED BY <2>1, <2>2, <1>0, <1>1, SameContents
<1>13. Layout(bs2, hd, b, q, r2, off2)
  BY <1>9, <1>11, <1>12 DEF Layout
<1> QED BY <1>3, <1>5, <1>8, <1>10, <1>13

\* Block b of bs goes, and its neighbours are linked to next and prev instead.
Cut(bs, hd, tl, b, next, prev, bs2) ==
  LET bs1 == IF hd = b THEN bs ELSE [bs EXCEPT ![bs[b].listprev].listnext = next]
      bs3 == IF tl = b THEN bs1 ELSE [bs1 EXCEPT ![bs[b].listnext].listprev = prev]
  IN bs2 = [bs3 EXCEPT ![b] = Null]

Neighbours(bs, hd, tl, b) ==
  /\ hd # b => bs[b].listprev \in Used(bs) \ {b}
  /\ tl # b => bs[b].listnext \in Used(bs) \ {b}
  /\ hd # b /\ tl # b => bs[b].listprev # bs[b].listnext

AfterCut(bs, hd, tl, b, next, prev, bs2) ==
  /\ bs2 \in [Block -> Elem \cup {Null}]
  /\ Used(bs2) = Used(bs) \ {b}
  /\ \A c \in Used(bs) \ {b} :
       /\ SameData(bs[c], bs2[c])
       /\ bs2[c].listnext = IF hd # b /\ c = bs[b].listprev THEN next ELSE bs[c].listnext
       /\ bs2[c].listprev = IF tl # b /\ c = bs[b].listnext THEN prev ELSE bs[c].listprev

LEMMA CutBlocks ==
  ASSUME NEW bs, bs \in [Block -> Elem \cup {Null}], NEW hd, NEW tl, NEW b, b \in Block,
         NEW next, next \in Block \cup {Hdr}, NEW prev, prev \in Block \cup {Hdr}, NEW bs2,
         Cut(bs, hd, tl, b, next, prev, bs2), Neighbours(bs, hd, tl, b)
  PROVE  AfterCut(bs, hd, tl, b, next, prev, bs2)
<1> DEFINE pv == bs[b].listprev
           nx == bs[b].listnext
           bs1 == IF hd = b THEN bs ELSE [bs EXCEPT ![pv].listnext = next]
           bs3 == IF tl = b THEN bs1 ELSE [bs1 EXCEPT ![nx].listprev = prev]
           Kept(bsA, bsB) ==
             /\ bsB \in [Block -> Elem \cup {Null}] /\ Used(bsB) = Used(bsA)
             /\ \A c \in Used(bsA) : SameData(bsA[c], bsB[c])
<1>0. /\ hd # b => bs[b].listprev \in Used(bs) \ {b}
      /\ tl # b => bs[b].listnext \in Used(bs) \ {b}
      /\ hd # b /\ tl # b => bs[b].listprev # bs[b].listnext
  BY DEF Neighbours
<1>1. \A c \in Used(bs) : c \in Block /\ bs[c] \in Elem
  BY DEF Used
<1>2. /\ bs1 \in [Block -> Elem \cup {Null}] /\ Used(bs1) = Used(bs)
      /\ \A c \in Used(bs) : /\ SameData(bs[c], bs1[c]) /\ bs1[c].listprev = bs[c].listprev
                             /\ bs1[c].listnext =
                                  IF hd # b /\ c = pv THEN next ELSE bs[c].listnext
  <2>1. CASE hd = b
    BY <2>1, <1>1 DEF SameData
  <2>2. CASE hd # b
    <3>1. pv \in Used(bs) /\ pv \in Block /\ bs[pv] \in Elem
      BY <2>2, <1>0, <1>1
    <3> DEFINE le == [bs[pv] EXCEPT !.listnext = next]
    <3>2. SameData(bs[pv], le) /\ le.listnext = next /\ le.listprev = bs[pv].listprev
      BY <3>1, Relinked
    <3>3. bs1 = [bs EXCEPT ![pv] = le]
      BY <2>2
    <3>4. le \in Elem /\ le # Null
      BY <3>2, ElemFields DEF SameData
    <3> HIDE DEF le, bs1
    <3>5. bs1 \in [Block -> Elem \cup {Null}]
      BY <3>3, <3>4
    <3>6. \A c \in Block : bs1[c] = IF c = pv THEN le ELSE bs[c]
      BY <3>3
    <3>7. Used(bs1) = Used(bs)
      BY <3>1, <3>4, <3>6 DEF Used
    <3>8. \A c \in Used(bs) : c # pv => bs1[c] = bs[c] /\ SameData(bs[c], bs1[c])
      BY <3>6, <1>1 DEF SameData
    <3>9. bs1[pv] = le
      BY <3>1, <3>6
    <3> QED BY <3>2, <3>5, <3>7, <3>8, <3>9, <2>2
  <2> QED BY <2>1, <2>2
<1> HIDE DEF bs1
<1>3. /\ bs3 \in [Block -> Elem \cup {Null}] /\ Used(bs3) = Used(bs)
      /\ \A c \in Used(bs) : /\ SameData(bs1[c], bs3[c]) /\ bs3[c].listnext = bs1[c].listnext
                             /\ bs3[c].listprev =
                                  IF tl # b /\ c = nx THEN prev ELSE bs1[c].listprev
  <2>0. \A c \in Used(bs) : bs1[c] \in Elem
    BY <1>2 DEF SameData
  <2>1. CASE tl = b
    BY <2>0, <2>1, <1>2 DEF SameData
  <2>2. CASE tl # b
    <3>1. nx \in Used(bs) /\ nx \in Block /\ bs1[nx] \in Elem
      BY <2>0, <2>2, <1>0, <1>1
    <3> DEFINE le == [bs1[nx] EXCEPT !.listprev = prev]
    <3>2. SameData(bs1[nx], le) /\ le.listprev = prev /\ le.listnext = bs1[nx].listnext
      BY <3>1, Relinked
    <3>3. bs3 = [bs1 EXCEPT ![nx] = le]
      BY <2>2
    <3>4. le \in Elem /\ le # Null
      BY <3>2, ElemFields DEF SameData
    <3> HIDE DEF le, bs3
    <3>5. bs3 \in [Block -> Elem \cup {Null}]
      BY <3>3, <3>4, <1>2
    <3>6. \A c \in Block : bs3[c] = IF c = nx THEN le ELSE bs1[c]
      BY <3>3, <1>2
    <3>7. Used(bs3) = Used(bs)
      BY <3>1, <3>4, <3>6, <1>2 DEF Used
    <3>8. \A c \in Used(bs) : c # nx => bs3[c] = bs1[c] /\ SameData(bs1[c], bs3[c])
      BY <2>0, <3>6, <1>1 DEF SameData
    <3>9. bs3[nx] = le
      BY <3>1, <3>6
    <3> QED BY <3>2, <3>5, <3>7, <3>8, <3>9, <2>2
  <2> QED BY <2>1, <2>2
<1>4. bs2 = [bs3 EXCEPT ![b] = Null]
  BY DEF Cut, bs1
<1> HIDE DEF bs3
<1>5. bs2 \in [Block -> Elem \cup {Null}]
  BY <1>3, <1>4
<1>6. \A c \in Block : bs2[c] = IF c = b THEN Null ELSE bs3[c]
  BY <1>3, <1>4
<1>7. Used(bs2) = Used(bs) \ {b}
  <2>1. Used(bs2) = Used(bs3) \ {b}
    BY <1>6 DEF Used
  <2> QED BY <2>1, <1>3
<1>8. \A c \in Used(bs) \ {b} : bs2[c] = bs3[c] /\ SameData(bs[c], bs2[c])
  BY <1>1, <1>2, <1>3, <1>6 DEF SameData
<1> QED BY <1>0, <1>2, <1>3, <1>5, <1>7, <1>8 DEF AfterCut

\* An empty block goes.
LEMMA DropBlock ==
  ASSUME NEW bs, NEW hd, NEW tl, NEW q, NEW r, NEW off, Layout(bs, hd, tl, q, r, off),
         NEW b \in Used(bs), bs[b].nused = 0, ~(hd = b /\ tl = b), NEW bs2,
         Cut(bs, hd, tl, b, bs[b].listnext, bs[b].listprev, bs2)
  PROVE  /\ \E r2 : Layout(bs2, IF hd = b THEN bs[b].listnext ELSE hd,
                           IF tl = b THEN bs[b].listprev ELSE tl, q, r2, off)
         /\ Used(bs2) = Used(bs) \ {b}
         /\ \A c \in Used(bs) \ {b} : SameData(bs[c], bs2[c])
<1> DEFINE pv == bs[b].listprev
           nx == bs[b].listnext
           hd2 == IF hd = b THEN nx ELSE hd
           tl2 == IF tl = b THEN pv ELSE tl
           r2 == [c \in Block |-> IF r[c] > r[b] THEN r[c] - 1 ELSE r[c]]
<1>0. Linked(bs, hd, tl, r) /\ Offsets(bs, hd, tl, off, q) /\ Filled(bs, off, q)
  BY DEF Layout
<1>1. /\ bs \in [Block -> Elem \cup {Null}] /\ r \in [Block -> Int]
      /\ hd \in Used(bs) /\ tl \in Used(bs) /\ b \in Block /\ bs[b] \in Elem /\ r[b] \in Int
  <2>1. b \in Block /\ bs[b] \in Elem /\ r[b] \in Int
    BY <1>0, LinkedBlock
  <2> QED BY <2>1, <1>0 DEF Linked
<1>2. /\ tl # b => nx \in Used(bs) /\ bs[nx].listprev = b /\ r[nx] = r[b] + 1 /\ nx # b
      /\ tl = b => nx = Hdr
      /\ hd # b => pv \in Used(bs) /\ bs[pv].listnext = b /\ r[pv] = r[b] - 1 /\ pv # b
      /\ hd = b => pv = Hdr
      /\ hd # b /\ tl # b => pv # nx
  <2>1. NextLink(bs, tl, r, b) /\ PrevLink(bs, hd, r, b)
    BY <1>0, LinkedBlock
  <2>2. tl # b => nx \in Used(bs) /\ bs[nx].listprev = b /\ r[nx] = r[b] + 1
    BY <2>1 DEF NextLink
  <2>3. hd # b => pv \in Used(bs) /\ bs[pv].listnext = b /\ r[pv] = r[b] - 1
    BY <2>1 DEF PrevLink
  <2>4. (tl = b => nx = Hdr) /\ (hd = b => pv = Hdr)
    BY <2>1 DEF NextLink, PrevLink
  <2> QED BY <2>2, <2>3, <2>4, <1>1
<1>3. nx \in Block \cup {Hdr} /\ pv \in Block \cup {Hdr}
  BY <1>1, ElemFields
<1>4. /\ bs2 \in [Block -> Elem \cup {Null}]
      /\ Used(bs2) = Used(bs) \ {b}
      /\ \A c \in Used(bs) \ {b} :
           /\ SameData(bs[c], bs2[c])
           /\ bs2[c].listnext = IF hd # b /\ c = pv THEN nx ELSE bs[c].listnext
           /\ bs2[c].listprev = IF tl # b /\ c = nx THEN pv ELSE bs[c].listprev
  <2>1. bs[b].listnext \in Block \cup {Hdr} /\ bs[b].listprev \in Block \cup {Hdr}
    BY <1>3
  <2>2. Neighbours(bs, hd, tl, b)
    BY <1>2 DEF Neighbours
  <2>3. AfterCut(bs, hd, tl, b, bs[b].listnext, bs[b].listprev, bs2)
    BY <2>1, <2>2, <1>1, CutBlocks
  <2> QED BY <2>3 DEF AfterCut
<1>5. /\ r2 \in [Block -> Int]
      /\ \A c \in Used(bs) \ {b} : /\ r[c] > r[b] => r2[c] = r[c] - 1
                                   /\ r[c] < r[b] => r2[c] = r[c]
                                   /\ r[c] \in Int /\ r[c] # r[b] /\ c # Hdr
                                   /\ r[hd] <= r[c] /\ r[c] <= r[tl]
                                   /\ NextLink(bs, tl, r, c) /\ PrevLink(bs, hd, r, c)
      /\ r[hd] \in Int /\ r[tl] \in Int /\ r[hd] <= r[b] /\ r[b] <= r[tl]
  <2>1. r2 \in [Block -> Int]
    BY <1>1
  <2>2. \A c \in Used(bs) : /\ c \in Block /\ c # Hdr /\ r[c] \in Int /\ r[hd] <= r[c] /\ r[c] <= r[tl]
                            /\ NextLink(bs, tl, r, c) /\ PrevLink(bs, hd, r, c)
    BY <1>0, LinkedBlock
  <2>3. \A c \in Used(bs) \ {b} : r[c] # r[b]
    BY <1>0 DEF Linked
  <2> QED BY <2>1, <2>2, <2>3, <1>1
<1> HIDE DEF pv, nx, r2
<1>6. Linked(bs2, hd2, tl2, r2)
  <2>1. hd2 \in Used(bs) \ {b} /\ tl2 \in Used(bs) \ {b}
    BY <1>1, <1>2
  <2>2. ASSUME NEW c \in Used(bs) \ {b} PROVE NextLink(bs2, tl2, r2, c)
    <3>1. CASE c = tl
      <4>1. bs[c].listnext = Hdr
        BY <3>1, <1>5 DEF NextLink
      <4>2. hd # b => c # pv
        BY <4>1, <1>1, <1>2, ListAssumption
      <4>3. bs2[c].listnext = Hdr /\ c = tl2
        BY <4>1, <4>2, <3>1, <1>4
      <4> QED BY <4>3 DEF NextLink
    <3>2. CASE c # tl /\ bs[c].listnext = b
      <4>1. hd # b /\ c = pv
        <5>1. bs[b].listprev = c /\ r[b] = r[c] + 1
          BY <3>2, <1>5 DEF NextLink
        <5>2. hd # b
          BY <5>1, <1>5
        <5> QED BY <5>1, <5>2 DEF pv
      <4>2. bs2[c].listnext = nx
        BY <4>1, <1>4
      <4>3. CASE tl = b
        BY <4>1, <4>2, <4>3, <1>2 DEF NextLink
      <4>4. CASE tl # b
        <5>1. nx \in Used(bs) \ {b} /\ r[nx] = r[b] + 1 /\ r[c] = r[b] - 1
          BY <4>1, <4>4, <1>2
        <5>2. bs2[nx].listprev = c
          BY <5>1, <4>1, <4>4, <1>4
        <5>3. r2[nx] = r2[c] + 1
          BY <5>1, <1>1, <1>5
        <5> QED BY <3>2, <4>2, <4>4, <5>1, <5>2, <5>3, <1>4 DEF NextLink
      <4> QED BY <4>3, <4>4
    <3>3. CASE c # tl /\ bs[c].listnext # b
      <4>1. PICK e \in Used(bs) \ {b} : bs[c].listnext = e /\ bs[e].listprev = c /\ r[e] = r[c] + 1
        BY <3>3, <1>5 DEF NextLink
      <4>2. bs2[c].listnext = e
        BY <4>1, <3>3, <1>2, <1>4
      <4>3. bs2[e].listprev = c
        BY <4>1, <1>2, <1>4
      <4>4. r2[e] = r2[c] + 1
        BY <4>1, <1>1, <1>5
      <4>5. c # tl2
        <5>1. tl = b => bs[tl2].listnext = b
          BY <1>2
        <5> QED BY <5>1, <3>3
      <4> QED BY <4>1, <4>2, <4>3, <4>4, <4>5, <1>4 DEF NextLink
    <3> QED BY <3>1, <3>2, <3>3
  <2>3. ASSUME NEW c \in Used(bs) \ {b} PROVE PrevLink(bs2, hd2, r2, c)
    <3>1. CASE c = hd
      <4>1. bs[c].listprev = Hdr
        BY <3>1, <1>5 DEF PrevLink
      <4>2. tl # b => c # nx
        BY <4>1, <1>1, <1>2, ListAssumption
      <4>3. bs2[c].listprev = Hdr /\ c = hd2
        BY <4>1, <4>2, <3>1, <1>4
      <4> QED BY <4>3 DEF PrevLink
    <3>2. CASE c # hd /\ bs[c].listprev = b
      <4>1. tl # b /\ c = nx
        <5>1. bs[b].listnext = c /\ r[b] = r[c] - 1
          BY <3>2, <1>5 DEF PrevLink
        <5>2. tl # b
          BY <5>1, <1>5
        <5> QED BY <5>1, <5>2 DEF nx
      <4>2. bs2[c].listprev = pv
        BY <4>1, <1>4
      <4>3. CASE hd = b
        BY <4>1, <4>2, <4>3, <1>2 DEF PrevLink
      <4>4. CASE hd # b
        <5>1. pv \in Used(bs) \ {b} /\ r[pv] = r[b] - 1 /\ r[c] = r[b] + 1
          BY <4>1, <4>4, <1>2
        <5>2. bs2[pv].listnext = c
          BY <5>1, <4>1, <4>4, <1>4
        <5>3. r2[pv] = r2[c] - 1
          BY <5>1, <1>1, <1>5
        <5> QED BY <3>2, <4>2, <4>4, <5>1, <5>2, <5>3, <1>4 DEF PrevLink
      <4> QED BY <4>3, <4>4
    <3>3. CASE c # hd /\ bs[c].listprev # b
      <4>1. PICK e \in Used(bs) \ {b} : bs[c].listprev = e /\ bs[e].listnext = c /\ r[e] = r[c] - 1
        BY <3>3, <1>5 DEF PrevLink
      <4>2. bs2[c].listprev = e
        BY <4>1, <3>3, <1>2, <1>4
      <4>3. bs2[e].listnext = c
        BY <4>1, <1>2, <1>4
      <4>4. r2[e] = r2[c] - 1
        BY <4>1, <1>1, <1>5
      <4>5. c # hd2
        <5>1. hd = b => bs[hd2].listprev = b
          BY <1>2
        <5> QED BY <5>1, <3>3
      <4> QED BY <4>1, <4>2, <4>3, <4>4, <4>5, <1>4 DEF PrevLink
    <3> QED BY <3>1, <3>2, <3>3
  <2>4. ASSUME NEW c \in Used(bs) \ {b} PROVE r2[hd2] <= r2[c] /\ r2[c] <= r2[tl2]
    <3>1. r2[hd2] <= r2[c]
      <4>1. CASE hd = b
        <5>1. hd2 = nx /\ tl # b
          BY <4>1
        <5>2. r2[hd2] = r[b] /\ r[c] > r[b]
          BY <5>1, <4>1, <2>1, <1>1, <1>2, <1>5
        <5> QED BY <5>2, <1>1, <1>5
      <4>2. CASE hd # b
        BY <4>2, <2>1, <1>1, <1>5
      <4> QED BY <4>1, <4>2
    <3>2. r2[c] <= r2[tl2]
      <4>1. CASE tl = b
        <5>1. tl2 = pv /\ hd # b
          BY <4>1
        <5>2. r2[tl2] = r[b] - 1 /\ r[c] < r[b]
          BY <5>1, <4>1, <2>1, <1>1, <1>2, <1>5
        <5> QED BY <5>2, <1>1, <1>5
      <4>2. CASE tl # b
        BY <4>2, <2>1, <1>1, <1>5
      <4> QED BY <4>1, <4>2
    <3> QED BY <3>1, <3>2
  <2>5. ASSUME NEW c \in Used(bs) \ {b}, NEW e \in Used(bs) \ {b}, r2[c] = r2[e] PROVE c = e
    <3>1. r[c] # r[e] => FALSE
      <4>1. CASE r[c] > r[b] <=> r[e] > r[b]
        BY <4>1, <2>5, <1>1, <1>5
      <4>2. CASE r[c] > r[b] /\ r[e] < r[b]
        BY <4>2, <2>5, <1>1, <1>5
      <4>3. CASE r[c] < r[b] /\ r[e] > r[b]
        BY <4>3, <2>5, <1>1, <1>5
      <4> QED BY <4>1, <4>2, <4>3, <1>1, <1>5
    <3> QED BY <3>1, <1>0 DEF Linked
  <2> QED BY <2>1, <2>2, <2>3, <2>4, <2>5, <1>4, <1>5 DEF Linked
<1>7. \A c \in Used(bs) \ {b} : bs2[c].nused = bs[c].nused
  BY <1>4 DEF SameData
<1>8. Offsets(bs2, hd2, tl2, off, q)
  <2>1. off[hd2] = 0
    <3>1. CASE hd = b
      <4>1. off[b] = 0 /\ off[nx] = off[b] + bs[b].nused
        BY <3>1, <1>0 DEF Offsets, nx
      <4> QED BY <3>1, <4>1
    <3>2. CASE hd # b
      BY <3>2, <1>0 DEF Offsets
    <3> QED BY <3>1, <3>2
  <2>2. hd # b => off[b] = off[pv] + bs[pv].nused
    <3> SUFFICES ASSUME hd # b PROVE off[b] = off[pv] + bs[pv].nused
      OBVIOUS
    <3>1. pv \in Used(bs) \ {tl} /\ bs[pv].listnext = b
      BY <1>1, <1>2, <1>5
    <3> QED BY <3>1, <1>0 DEF Offsets
  <2>3. off[b] \in Int /\ off[b] + bs[b].nused = off[b]
    BY <1>0, <1>1 DEF Offsets
  <2>4. off[tl2] + bs2[tl2].nused = Len(q)
    <3>1. CASE tl = b
      <4>1. off[b] + bs[b].nused = Len(q)
        BY <3>1, <1>0 DEF Offsets
      <4> QED BY <3>1, <4>1, <2>2, <2>3, <1>2, <1>7
    <3>2. CASE tl # b
      BY <3>2, <1>0, <1>1, <1>7 DEF Offsets
    <3> QED BY <3>1, <3>2
  <2>5. ASSUME NEW c \in Used(bs) \ {b}, c # tl2 PROVE off[bs2[c].listnext] = off[c] + bs2[c].nused
    <3>1. CASE hd # b /\ c = pv
      <4>1. tl # b /\ bs2[c].listnext = nx
        BY <3>1, <2>5, <1>4
      <4>2. off[nx] = off[b] + bs[b].nused
        BY <4>1, <1>0 DEF Offsets, nx
      <4> QED BY <3>1, <4>1, <4>2, <2>2, <2>3, <1>7
    <3>2. CASE ~(hd # b /\ c = pv)
      <4>1. c # tl
        BY <2>5
      <4>2. off[bs[c].listnext] = off[c] + bs[c].nused
        BY <4>1, <1>0 DEF Offsets
      <4> QED BY <3>2, <4>2, <1>4, <1>7
    <3> QED BY <3>1, <3>2
  <2> QED BY <2>1, <2>4, <2>5, <1>0, <1>4 DEF Offsets
<1>9. Filled(bs2, off, q)
  BY <1>0, <1>1, <1>4, SameContents
<1>10. Layout(bs2, hd2, tl2, q, r2, off)
  BY <1>6, <1>8, <1>9 DEF Layout
<1> QED BY <1>4, <1>10 DEF nx, pv

\* Another block takes the place of b.
Doubled(bs, b, b2, bs0) == bs0 = [bs EXCEPT ![b2] = bs[b]]

LEMMA Renamed ==
  ASSUME NEW bs, NEW hd, NEW tl, NEW q, NEW r, NEW off, Layout(bs, hd, tl, q, r, off),
         NEW b \in Used(bs), NEW b2 \in Block, bs[b2] = Null, NEW bs0, NEW bs2,
         Doubled(bs, b, b2, bs0), Cut(bs0, hd, tl, b, b2, b2, bs2)
  PROVE  /\ \E r2, off2 : Layout(bs2, IF hd = b THEN b2 ELSE hd, IF tl = b THEN b2 ELSE tl,
                                 q, r2, off2)
         /\ Used(bs2) = (Used(bs) \ {b}) \cup {b2}
         /\ SameData(bs[b], bs2[b2])
         /\ \A c \in Used(bs) \ {b} : SameData(bs[c], bs2[c])
<1> SUFFICES ASSUME bs0 = [bs EXCEPT ![b2] = bs[b]]
             PROVE  /\ \E r2, off2 : Layout(bs2, IF hd = b THEN b2 ELSE hd,
                                            IF tl = b THEN b2 ELSE tl, q, r2, off2)
                    /\ Used(bs2) = (Used(bs) \ {b}) \cup {b2}
                    /\ SameData(bs[b], bs2[b2])
                    /\ \A c \in Used(bs) \ {b} : SameData(bs[c], bs2[c])
  BY DEF Doubled
<1> DEFINE pv == bs[b].listprev
           nx == bs[b].listnext
           hd2 == IF hd = b THEN b2 ELSE hd
           tl2 == IF tl = b THEN b2 ELSE tl
           r2 == [r EXCEPT ![b2] = r[b]]
           off2 == [off EXCEPT ![b2] = off[b]]
           U == Used(bs) \ {b}
<1>0. Linked(bs, hd, tl, r) /\ Offsets(bs, hd, tl, off, q) /\ Filled(bs, off, q)
  BY DEF Layout
<1>1. /\ bs \in [Block -> Elem \cup {Null}] /\ r \in [Block -> Int] /\ off \in [Block -> Int]
      /\ hd \in Used(bs) /\ tl \in Used(bs) /\ b \in Block /\ bs[b] \in Elem /\ bs[b] # Null
      /\ b2 \notin Used(bs) /\ b2 # b /\ b2 # Hdr /\ b # Hdr
  <2>1. b \in Block /\ bs[b] \in Elem
    BY <1>0, LinkedBlock
  <2>2. bs[b] # Null /\ b2 \notin Used(bs)
    BY DEF Used
  <2>3. b2 # Hdr /\ b # Hdr
    BY <2>1, ListAssumption
  <2> QED BY <2>1, <2>2, <2>3, <1>0 DEF Linked, Offsets
<1>2. /\ tl # b => nx \in U /\ bs[nx].listprev = b /\ r[nx] = r[b] + 1
      /\ tl = b => nx = Hdr
      /\ hd # b => pv \in U /\ bs[pv].listnext = b /\ r[pv] = r[b] - 1
      /\ hd = b => pv = Hdr
      /\ hd # b /\ tl # b => pv # nx
  <2>0. r[b] \in Int
    BY <1>1
  <2>1. NextLink(bs, tl, r, b) /\ PrevLink(bs, hd, r, b)
    BY <1>0, LinkedBlock
  <2>2. tl # b => nx \in Used(bs) /\ bs[nx].listprev = b /\ r[nx] = r[b] + 1
    BY <2>1 DEF NextLink
  <2>3. hd # b => pv \in Used(bs) /\ bs[pv].listnext = b /\ r[pv] = r[b] - 1
    BY <2>1 DEF PrevLink
  <2>4. (tl = b => nx = Hdr) /\ (hd = b => pv = Hdr)
    BY <2>1 DEF NextLink, PrevLink
  <2> QED BY <2>0, <2>2, <2>3, <2>4
<1>3. /\ \A c \in Block : c # b2 => bs0[c] = bs[c]
      /\ bs0[b2] = bs[b] /\ bs0[b] = bs[b]
      /\ bs0 \in [Block -> Elem \cup {Null}] /\ Used(bs0) = Used(bs) \cup {b2}
  <2>1. \A c \in Block : bs0[c] = IF c = b2 THEN bs[b] ELSE bs[c]
    BY <1>1
  <2>2. bs0 \in [Block -> Elem \cup {Null}]
    BY <1>1
  <2> QED BY <2>1, <2>2, <1>1 DEF Used
<1>4. AfterCut(bs0, hd, tl, b, b2, b2, bs2)
  <2>1. Neighbours(bs0, hd, tl, b)
    BY <1>2, <1>3 DEF Neighbours
  <2> QED BY <2>1, <1>1, <1>3, CutBlocks
<1> HIDE DEF pv, nx, U
<1>5. /\ bs2 \in [Block -> Elem \cup {Null}] /\ Used(bs2) = U \cup {b2}
      /\ \A c \in U : c \in Block /\ c # b /\ c # b2 /\ c # Hdr /\ bs0[c] = bs[c] /\ c \in Used(bs)
  <2>1. \A c \in U : c \in Block /\ c # b /\ c # b2 /\ c # Hdr /\ c \in Used(bs)
    BY <1>1, ListAssumption DEF U, Used
  <2>2. bs2 \in [Block -> Elem \cup {Null}] /\ Used(bs2) = (Used(bs) \cup {b2}) \ {b}
    BY <1>3, <1>4 DEF AfterCut
  <2> QED BY <2>1, <2>2, <1>1, <1>3 DEF U
<1>6. /\ SameData(bs[b], bs2[b2]) /\ bs2[b2].listnext = nx /\ bs2[b2].listprev = pv
      /\ \A c \in U : /\ SameData(bs[c], bs2[c])
                      /\ bs2[c].listnext = IF bs[c].listnext = b THEN b2 ELSE bs[c].listnext
                      /\ bs2[c].listprev = IF bs[c].listprev = b THEN b2 ELSE bs[c].listprev
  <2>1. b2 \in Used(bs0) \ {b} /\ \A c \in U : c \in Used(bs0) \ {b}
    BY <1>1, <1>3, <1>5
  <2>2. /\ hd # b => b2 # bs0[b].listprev
        /\ tl # b => b2 # bs0[b].listnext
    BY <1>2, <1>3, <1>5 DEF pv, nx
  <2>3. SameData(bs[b], bs2[b2]) /\ bs2[b2].listnext = nx /\ bs2[b2].listprev = pv
    <3>1. SameData(bs0[b2], bs2[b2])
      BY <2>1, <1>4 DEF AfterCut
    <3>2. bs2[b2].listnext = bs0[b2].listnext /\ bs2[b2].listprev = bs0[b2].listprev
      BY <2>1, <2>2, <1>4 DEF AfterCut
    <3> QED BY <3>1, <3>2, <1>3 DEF pv, nx
  <2>4. ASSUME NEW c \in U
        PROVE  /\ SameData(bs[c], bs2[c])
               /\ bs2[c].listnext = IF bs[c].listnext = b THEN b2 ELSE bs[c].listnext
               /\ bs2[c].listprev = IF bs[c].listprev = b THEN b2 ELSE bs[c].listprev
    <3>1. /\ SameData(bs0[c], bs2[c])
          /\ bs2[c].listnext = IF hd # b /\ c = bs0[b].listprev THEN b2 ELSE bs0[c].listnext
          /\ bs2[c].listprev = IF tl # b /\ c = bs0[b].listnext THEN b2 ELSE bs0[c].listprev
      BY <2>1, <1>4 DEF AfterCut
    <3>2. /\ bs0[c] = bs[c] /\ bs0[b].listprev = pv /\ bs0[b].listnext = nx
      BY <1>3, <1>5 DEF pv, nx
    <3>3. (hd # b /\ c = pv) <=> bs[c].listnext = b
      <4>1. NextLink(bs, tl, r, c)
        BY <1>0, <1>5, LinkedBlock
      <4>2. bs[c].listnext = b => c = pv /\ c \in Block /\ b # Hdr
        BY <4>1, <1>1, <1>5 DEF NextLink, pv
      <4>3. hd = b => pv = Hdr
        BY <1>2
      <4> QED BY <4>2, <4>3, <1>2, <1>5
    <3>4. (tl # b /\ c = nx) <=> bs[c].listprev = b
      <4>1. PrevLink(bs, hd, r, c)
        BY <1>0, <1>5, LinkedBlock
      <4>2. bs[c].listprev = b => c = nx /\ c \in Block /\ b # Hdr
        BY <4>1, <1>1, <1>5 DEF PrevLink, nx
      <4>3. tl = b => nx = Hdr
        BY <1>2
      <4> QED BY <4>2, <4>3, <1>2, <1>5
    <3> QED BY <3>1, <3>2, <3>3, <3>4
  <2> QED BY <2>3, <2>4
<1>7. /\ r2 \in [Block -> Int] /\ r2[b2] = r[b] /\ off2 \in [Block -> Int] /\ off2[b2] = off[b]
      /\ \A c \in U : r2[c] = r[c] /\ off2[c] = off[c]
      /\ r[b] \in Int /\ off[b] \in Int
  BY <1>1, <1>5
<1> HIDE DEF r2, off2
<1>8. /\ \A c \in Used(bs) : /\ NextLink(bs, tl, r, c) /\ PrevLink(bs, hd, r, c)
                             /\ r[c] \in Int /\ r[hd] <= r[c] /\ r[c] <= r[tl]
                             /\ c = b \/ c \in U
      /\ r2[hd2] = r[hd] /\ r2[tl2] = r[tl] /\ hd2 \in Used(bs2) /\ tl2 \in Used(bs2)
      /\ off2[hd2] = off[hd] /\ off2[tl2] = off[tl]
      /\ bs2[tl2].nused = bs[tl].nused
  <2>1. \A c \in Used(bs) : c = b \/ c \in U
    BY DEF U
  <2>2. \A c \in Used(bs) : /\ NextLink(bs, tl, r, c) /\ PrevLink(bs, hd, r, c)
                            /\ r[c] \in Int /\ r[hd] <= r[c] /\ r[c] <= r[tl]
    BY <1>0, LinkedBlock
  <2>3. (hd = b \/ hd \in U) /\ (tl = b \/ tl \in U)
    BY <2>1, <1>1
  <2> QED BY <2>1, <2>2, <2>3, <1>5, <1>6, <1>7 DEF SameData
<1>9. ASSUME NEW c \in U PROVE NextLink(bs2, tl2, r2, c) /\ PrevLink(bs2, hd2, r2, c)
  <2>1. NextLink(bs2, tl2, r2, c)
    <3>1. NextLink(bs, tl, r, c)
      BY <1>5, <1>8
    <3>2. CASE c = tl
      BY <3>1, <3>2, <1>1, <1>5, <1>6 DEF NextLink
    <3>3. CASE c # tl
      <4>1. PICK e \in Used(bs) : bs[c].listnext = e /\ bs[e].listprev = c /\ r[e] = r[c] + 1
        BY <3>1, <3>3 DEF NextLink
      <4>2. c # tl2
        BY <3>3, <1>5
      <4>3. CASE e = b
        <5>1. bs2[c].listnext = b2 /\ bs2[b2].listprev = c
          BY <4>1, <4>3, <1>6 DEF pv
        <5> QED BY <4>1, <4>2, <4>3, <5>1, <1>5, <1>7 DEF NextLink
      <4>4. CASE e # b
        <5>1. e \in U /\ bs2[c].listnext = e
          BY <4>1, <4>4, <1>6 DEF U
        <5>2. bs2[e].listprev = c
          BY <4>1, <5>1, <1>5, <1>6
        <5> QED BY <4>1, <4>2, <5>1, <5>2, <1>5, <1>7 DEF NextLink
      <4> QED BY <4>3, <4>4
    <3> QED BY <3>2, <3>3
  <2>2. PrevLink(bs2, hd2, r2, c)
    <3>1. PrevLink(bs, hd, r, c)
      BY <1>5, <1>8
    <3>2. CASE c = hd
      BY <3>1, <3>2, <1>1, <1>5, <1>6 DEF PrevLink
    <3>3. CASE c # hd
      <4>1. PICK e \in Used(bs) : bs[c].listprev = e /\ bs[e].listnext = c /\ r[e] = r[c] - 1
        BY <3>1, <3>3 DEF PrevLink
      <4>2. c # hd2
        BY <3>3, <1>5
      <4>3. CASE e = b
        <5>1. bs2[c].listprev = b2 /\ bs2[b2].listnext = c
          BY <4>1, <4>3, <1>6 DEF nx
        <5> QED BY <4>1, <4>2, <4>3, <5>1, <1>5, <1>7 DEF PrevLink
      <4>4. CASE e # b
        <5>1. e \in U /\ bs2[c].listprev = e
          BY <4>1, <4>4, <1>6 DEF U
        <5>2. bs2[e].listnext = c
          BY <4>1, <5>1, <1>5, <1>6
        <5> QED BY <4>1, <4>2, <5>1, <5>2, <1>5, <1>7 DEF PrevLink
      <4> QED BY <4>3, <4>4
    <3> QED BY <3>2, <3>3
  <2> QED BY <2>1, <2>2
<1>10. NextLink(bs2, tl2, r2, b2) /\ PrevLink(bs2, hd2, r2, b2)
  <2>1. NextLink(bs2, tl2, r2, b2)
    <3>1. CASE tl = b
      BY <3>1, <1>2, <1>6 DEF NextLink
    <3>2. CASE tl # b
      <4>1. nx \in U /\ bs2[nx].listprev = b2 /\ r2[nx] = r2[b2] + 1
        BY <3>2, <1>2, <1>6, <1>7
      <4> QED BY <3>2, <4>1, <1>1, <1>5, <1>6 DEF NextLink
    <3> QED BY <3>1, <3>2
  <2>2. PrevLink(bs2, hd2, r2, b2)
    <3>1. CASE hd = b
      BY <3>1, <1>2, <1>6 DEF PrevLink
    <3>2. CASE hd # b
      <4>1. pv \in U /\ bs2[pv].listnext = b2 /\ r2[pv] = r2[b2] - 1
        BY <3>2, <1>2, <1>6, <1>7
      <4> QED BY <3>2, <4>1, <1>1, <1>5, <1>6 DEF PrevLink
    <3> QED BY <3>1, <3>2
  <2> QED BY <2>1, <2>2
<1>11. Linked(bs2, hd2, tl2, r2)
  <2>1. ASSUME NEW c \in Used(bs2)
        PROVE  NextLink(bs2, tl2, r2, c) /\ PrevLink(bs2, hd2, r2, c)
               /\ r2[hd2] <= r2[c] /\ r2[c] <= r2[tl2]
    <3>1. CASE c = b2
      BY <3>1, <1>7, <1>8, <1>10
    <3>2. CASE c \in U
      BY <3>2, <1>5, <1>7, <1>8, <1>9
    <3> QED BY <3>1, <3>2, <1>5
  <2>2. \A c, e \in Used(bs2) : r2[c] = r2[e] => c = e
    <3>1. \A c, e \in Used(bs) : r[c] = r[e] => c = e
      BY <1>0 DEF Linked
    <3>2. \A c \in U : r2[c] = r[c] /\ r[c] # r[b]
      BY <3>1, <1>5, <1>7
    <3> QED BY <3>1, <3>2, <1>5, <1>7
  <2> QED BY <2>1, <2>2, <1>5, <1>7, <1>8 DEF Linked
<1>12. bs2[b2].nused = bs[b].nused /\ \A c \in U : bs2[c].nused = bs[c].nused
  BY <1>6 DEF SameData
<1>13. Offsets(bs2, hd2, tl2, off2, q)
  <2>1. off2[hd2] = 0 /\ off2[tl2] + bs2[tl2].nused = Len(q)
    BY <1>0, <1>8 DEF Offsets
  <2>2. ASSUME NEW c \in Used(bs) \ {tl}
        PROVE  /\ bs[c].listnext \in Used(bs)
               /\ off[bs[c].listnext] = off[c] + bs[c].nused
    BY <1>0, LinkedBlock DEF Offsets, NextLink
  <2>3. ASSUME NEW c \in Used(bs2) \ {tl2} PROVE off2[bs2[c].listnext] = off2[c] + bs2[c].nused
    <3>1. CASE c = b2
      <4>1. tl # b /\ nx \in U
        BY <2>3, <3>1, <1>2
      <4>2. off[nx] = off[b] + bs[b].nused
        BY <2>2, <4>1 DEF nx
      <4> QED BY <3>1, <4>1, <4>2, <1>6, <1>7, <1>12
    <3>2. CASE c \in U
      <4>1. c \in Used(bs) \ {tl}
        BY <2>3, <3>2, <1>5
      <4> DEFINE e == bs[c].listnext
      <4>2. e \in Used(bs) /\ off[e] = off[c] + bs[c].nused
        BY <2>2, <4>1
      <4>3. bs2[c].listnext = IF e = b THEN b2 ELSE e
        BY <3>2, <1>6
      <4> HIDE DEF e
      <4>4. CASE e = b
        BY <3>2, <4>2, <4>3, <4>4, <1>7, <1>12
      <4>5. CASE e # b
        BY <3>2, <4>2, <4>3, <4>5, <1>7, <1>8, <1>12
      <4> QED BY <4>4, <4>5
    <3> QED BY <3>1, <3>2, <1>5
  <2> QED BY <2>1, <2>3, <1>0, <1>7 DEF Offsets
<1>14. Filled(bs2, off2, q)
  <2> SUFFICES ASSUME NEW c \in Used(bs2)
               PROVE  \A p \in 0 .. bs2[c].nused - 1 :
                        q[off2[c] + p + 1] = bs2[c].lslots[Slot(bs2[c], p)]
    BY DEF Filled
  <2>1. \A e \in Used(bs) : /\ bs[e] \in Elem
                            /\ \A p \in 0 .. bs[e].nused - 1 :
                                 q[off[e] + p + 1] = bs[e].lslots[Slot(bs[e], p)]
    BY <1>0, LinkedBlock DEF Filled
  <2>2. CASE c = b2
    <3>1. SameData(bs[b], bs2[c]) /\ off2[c] = off[b]
      BY <2>2, <1>6, <1>7
    <3> QED BY <2>1, <3>1, SameFilled
  <2>3. CASE c \in U
    <3>1. SameData(bs[c], bs2[c]) /\ off2[c] = off[c] /\ c \in Used(bs)
      BY <2>3, <1>5, <1>6, <1>7
    <3> QED BY <2>1, <3>1, SameFilled
  <2> QED BY <2>2, <2>3, <1>5
<1>15. Layout(bs2, hd2, tl2, q, r2, off2)
  BY <1>11, <1>13, <1>14 DEF Layout
<1> QED BY <1>5, <1>6, <1>15 DEF U

\* A list of one block.
LEMMA Single ==
  ASSUME NEW b \in Block, NEW le \in Elem, le.listnext = Hdr, le.listprev = Hdr,
         NEW bs2, bs2 = [c \in Block |-> IF c # b THEN Null ELSE le],
         NEW q \in Seq(Val), Len(q) = le.nused, Len(q) <= MaxSize,
         \A p \in 0 .. le.nused - 1 : q[p + 1] = le.lslots[Slot(le, p)]
  PROVE  (\E r, off : Layout(bs2, b, b, q, r, off)) /\ Used(bs2) = {b}
<1> DEFINE r == [c \in Block |-> 0]
           off == [c \in Block |-> 0]
<1>1. /\ bs2 \in [Block -> Elem \cup {Null}] /\ bs2[b] = le /\ le # Null
      /\ \A c \in Block : c # b => bs2[c] = Null
  BY ElemFields
<1>2. Used(bs2) = {b}
  BY <1>1 DEF Used
<1>3. r \in [Block -> Int] /\ off \in [Block -> Int] /\ r[b] = 0 /\ off[b] = 0
  OBVIOUS
<1> HIDE DEF r, off
<1>4. Linked(bs2, b, b, r)
  <2>1. NextLink(bs2, b, r, b) /\ PrevLink(bs2, b, r, b)
    BY <1>1 DEF NextLink, PrevLink
  <2>2. 0 <= 0
    OBVIOUS
  <2>3. \A c \in Used(bs2) : NextLink(bs2, b, r, c) /\ PrevLink(bs2, b, r, c)
                             /\ r[b] <= r[c] /\ r[c] <= r[b]
    BY <2>1, <2>2, <1>2, <1>3
  <2>4. b \in Used(bs2) /\ \A c, e \in Used(bs2) : c = e
    BY <1>2
  <2> QED BY <2>3, <2>4, <1>1, <1>3 DEF Linked
<1>5. Offsets(bs2, b, b, off, q)
  BY <1>1, <1>2, <1>3 DEF Offsets
<1>6. Filled(bs2, off, q)
  <2>1. \A p \in 0 .. le.nused - 1 : off[b] + p + 1 = p + 1
    BY <1>3
  <2> QED BY <2>1, <1>1, <1>2, <1>3 DEF Filled
<1> QED BY <1>2, <1>4, <1>5, <1>6 DEF Layout

----------------------------------------------------------------------------
(* What is read through the links *)

LEMMA InductionToHead ==
  ASSUME NEW bs, NEW hd, NEW tl, NEW r, Linked(bs, hd, tl, r), NEW S,
         \A b \in Used(bs) : b = tl \/ bs[b].listnext \in S => b \in S
  PROVE  Used(bs) \subseteq S
<1> DEFINE T == {d \in Nat : \A b \in Used(bs) : r[tl] = r[b] + d => b \in S}
<1>1. /\ tl \in Used(bs)
      /\ \A b \in Used(bs) : r[b] \in Int /\ r[tl] \in Int /\ r[b] <= r[tl] /\ NextLink(bs, tl, r, b)
  <2>1. tl \in Used(bs)
    BY DEF Linked
  <2> QED BY <2>1, LinkedBlock
<1>2. 0 \in T
  <2> SUFFICES ASSUME NEW b \in Used(bs), r[tl] = r[b] + 0 PROVE b \in S
    OBVIOUS
  <2>1. r[b] = r[tl]
    BY <1>1
  <2> QED BY <2>1, <1>1 DEF Linked
<1>3. ASSUME NEW d \in Nat, d \in T PROVE d + 1 \in T
  <2> SUFFICES ASSUME NEW b \in Used(bs), r[tl] = r[b] + (d + 1) PROVE b \in S
    OBVIOUS
  <2>1. b # tl
    BY <1>1
  <2>2. bs[b].listnext \in Used(bs) /\ r[bs[b].listnext] = r[b] + 1
    BY <2>1, <1>1 DEF NextLink
  <2>3. r[tl] = r[bs[b].listnext] + d
    BY <2>2, <1>1
  <2> QED BY <1>3, <2>2, <2>3
<1>4. \A d \in Nat : d \in T
  <2> HIDE DEF T
  <2> QED BY <1>2, <1>3, NatInductionSet
<1> SUFFICES ASSUME NEW b \in Used(bs) PROVE b \in S
  OBVIOUS
<1>5. r[tl] - r[b] \in Nat /\ r[tl] = r[b] + (r[tl] - r[b])
  BY <1>1
<1> QED BY <1>4, <1>5

LEMMA InductionToTail ==
  ASSUME NEW bs, NEW hd, NEW tl, NEW r, Linked(bs, hd, tl, r), NEW S,
         \A b \in Used(bs) : b = hd \/ bs[b].listprev \in S => b \in S
  PROVE  Used(bs) \subseteq S
<1> DEFINE T == {d \in Nat : \A b \in Used(bs) : r[b] = r[hd] + d => b \in S}
<1>1. /\ hd \in Used(bs)
      /\ \A b \in Used(bs) : r[b] \in Int /\ r[hd] \in Int /\ r[hd] <= r[b] /\ PrevLink(bs, hd, r, b)
  <2>1. hd \in Used(bs)
    BY DEF Linked
  <2> QED BY <2>1, LinkedBlock
<1>2. 0 \in T
  <2> SUFFICES ASSUME NEW b \in Used(bs), r[b] = r[hd] + 0 PROVE b \in S
    OBVIOUS
  <2>1. r[b] = r[hd]
    BY <1>1
  <2> QED BY <2>1, <1>1 DEF Linked
<1>3. ASSUME NEW d \in Nat, d \in T PROVE d + 1 \in T
  <2> SUFFICES ASSUME NEW b \in Used(bs), r[b] = r[hd] + (d + 1) PROVE b \in S
    OBVIOUS
  <2>1. b # hd
    BY <1>1
  <2>2. bs[b].listprev \in Used(bs) /\ r[bs[b].listprev] = r[b] - 1
    BY <2>1, <1>1 DEF PrevLink
  <2>3. r[bs[b].listprev] = r[hd] + d
    BY <2>2, <1>1
  <2> QED BY <1>3, <2>2, <2>3
<1>4. \A d \in Nat : d \in T
  <2> HIDE DEF T
  <2> QED BY <1>2, <1>3, NatInductionSet
<1> SUFFICES ASSUME NEW b \in Used(bs) PROVE b \in S
  OBVIOUS
<1>5. r[b] - r[hd] \in Nat /\ r[b] = r[hd] + (r[b] - r[hd])
  BY <1>1
<1> QED BY <1>4, <1>5

\* The block of the element after the first k, and its notional index there.
Stands(bs, off, k, b, p) ==
  b \in Used(bs) /\ p \in Nat /\ p < bs[b].nused /\ off[b] + p = k

Where(bs, off, k) == CHOOSE x \in Used(bs) \X Nat : Stands(bs, off, k, x[1], x[2])

LEMMA WhereUnique ==
  ASSUME NEW bs, NEW hd, NEW tl, NEW q, NEW r, NEW off, Layout(bs, hd, tl, q, r, off),
         NEW k, NEW b, NEW p, Stands(bs, off, k, b, p)
  PROVE  Where(bs, off, k) = <<b, p>> /\ k \in 0 .. Len(q) - 1
<1>1. Linked(bs, hd, tl, r) /\ Offsets(bs, hd, tl, off, q)
  BY DEF Layout
<1>2. \A c \in Used(bs) : /\ off[c] \in Nat /\ bs[c].nused \in Nat /\ Len(q) \in Nat
                          /\ off[c] + bs[c].nused <= Len(q)
  BY <1>1, Bounds
<1>3. k \in 0 .. Len(q) - 1
  BY <1>2 DEF Stands
<1>4. ASSUME NEW x \in Used(bs) \X Nat, Stands(bs, off, k, x[1], x[2]) PROVE x = <<b, p>>
  <2> DEFINE c == x[1]
             s == x[2]
  <2>1. c \in Used(bs) /\ s \in Nat /\ s < bs[c].nused /\ off[c] + s = k /\ x = <<c, s>>
    BY <1>4 DEF Stands
  <2>2. b \in Used(bs) /\ p \in Nat /\ p < bs[b].nused /\ off[b] + p = k
    BY DEF Stands
  <2> HIDE DEF c, s
  <2>3. off[b] <= k /\ k < off[b] + bs[b].nused /\ off[c] <= k /\ k < off[c] + bs[c].nused
    BY <2>1, <2>2, <1>2
  <2>4. c = b
    BY <2>1, <2>2, <2>3, <1>1, <1>3, ElementAt
  <2> QED BY <2>1, <2>2, <2>4, <1>2
<1>5. <<b, p>> \in Used(bs) \X Nat
  BY DEF Stands
<1> QED BY <1>3, <1>4, <1>5 DEF Where

LEMMA WhereIs ==
  ASSUME NEW bs, NEW hd, NEW tl, NEW q, NEW r, NEW off, Layout(bs, hd, tl, q, r, off),
         NEW k \in 0 .. Len(q) - 1
  PROVE  /\ \E b, p : Stands(bs, off, k, b, p) /\ Where(bs, off, k) = <<b, p>>
<1>1. Linked(bs, hd, tl, r) /\ Offsets(bs, hd, tl, off, q)
  BY DEF Layout
<1>2. PICK b \in Used(bs) : off[b] <= k /\ k < off[b] + bs[b].nused
  BY <1>1, ElementAt
<1>3. off[b] \in Nat /\ bs[b].nused \in Nat /\ Len(q) \in Nat
  BY <1>1, Bounds
<1>4. Stands(bs, off, k, b, k - off[b])
  BY <1>2, <1>3 DEF Stands
<1> QED BY <1>4, WhereUnique

\* What stands there is the element.
LEMMA StandsFilled ==
  ASSUME NEW bs, NEW hd, NEW tl, NEW q, NEW r, NEW off, Layout(bs, hd, tl, q, r, off),
         NEW k, NEW b, NEW p, Stands(bs, off, k, b, p)
  PROVE  bs[b].lslots[Slot(bs[b], p)] = q[k + 1]
<1>1. Linked(bs, hd, tl, r) /\ Offsets(bs, hd, tl, off, q)
  BY DEF Layout
<1>2. b \in Used(bs) /\ off[b] \in Nat /\ bs[b].nused \in Nat /\ p \in 0 .. bs[b].nused - 1
      /\ off[b] + p = k
  BY <1>1, Bounds DEF Stands
<1>3. q[off[b] + p + 1] = bs[b].lslots[Slot(bs[b], p)]
  BY <1>2 DEF Layout, Filled
<1> QED BY <1>2, <1>3

----------------------------------------------------------------------------
(* get_lelem_for_index *)

\* The list of the state, and its length, are those of a layout.
LaidOut(q, r, off) == Layout(blk, listhead, listtail, q, r, off)

LEMMA InUseUsed == InUse = Used(blk)
BY DEF InUse, Unused, Used

LEMMA LaidOutBlock ==
  ASSUME NEW q, NEW r, NEW off, LaidOut(q, r, off), NEW b \in Used(blk)
  PROVE  /\ b \in Block /\ b # Hdr /\ blk[b] \in Elem
         /\ off[b] \in Nat /\ blk[b].nused \in Nat /\ Len(q) \in Nat
         /\ off[b] + blk[b].nused <= Len(q) /\ Len(q) <= MaxSize /\ MaxSize \in Nat
         /\ b = listtail => blk[b].listnext = Hdr /\ off[b] + blk[b].nused = Len(q)
         /\ b # listtail => /\ blk[b].listnext \in Used(blk) /\ blk[b].listnext # Hdr
                            /\ off[blk[b].listnext] = off[b] + blk[b].nused
         /\ b = listhead => blk[b].listprev = Hdr /\ off[b] = 0
         /\ b # listhead => /\ blk[b].listprev \in Used(blk) /\ blk[b].listprev # Hdr
                            /\ off[b] = off[blk[b].listprev] + blk[blk[b].listprev].nused
<1>1. Linked(blk, listhead, listtail, r) /\ Offsets(blk, listhead, listtail, off, q)
  BY DEF LaidOut, Layout
<1>2. /\ b \in Block /\ b # Hdr /\ blk[b] \in Elem
      /\ NextLink(blk, listtail, r, b) /\ PrevLink(blk, listhead, r, b)
  BY <1>1, LinkedBlock
<1>3. /\ off[b] \in Nat /\ blk[b].nused \in Nat /\ Len(q) \in Nat
      /\ off[b] + blk[b].nused <= Len(q) /\ Len(q) <= MaxSize /\ MaxSize \in Nat
  BY <1>1, Bounds, ListAssumption DEF Offsets
<1>4. b = listtail => blk[b].listnext = Hdr /\ off[b] + blk[b].nused = Len(q)
  BY <1>1, <1>2 DEF Offsets, NextLink
<1>5. b # listtail => /\ blk[b].listnext \in Used(blk) /\ blk[b].listnext # Hdr
                      /\ off[blk[b].listnext] = off[b] + blk[b].nused
  BY <1>1, <1>2, ListAssumption DEF Offsets, NextLink, Used
<1>6. b = listhead => blk[b].listprev = Hdr /\ off[b] = 0
  BY <1>1, <1>2 DEF Offsets, PrevLink
<1>7. b # listhead => /\ blk[b].listprev \in Used(blk) /\ blk[b].listprev # Hdr
                      /\ off[b] = off[blk[b].listprev] + blk[blk[b].listprev].nused
  <2> SUFFICES ASSUME b # listhead
               PROVE  /\ blk[b].listprev \in Used(blk) /\ blk[b].listprev # Hdr
                      /\ off[b] = off[blk[b].listprev] + blk[blk[b].listprev].nused
    OBVIOUS
  <2>1. PICK p \in Used(blk) : blk[b].listprev = p /\ blk[p].listnext = b /\ r[p] = r[b] - 1
    BY <1>2 DEF PrevLink
  <2>2. p # Hdr /\ p # listtail
    <3>1. p # Hdr /\ NextLink(blk, listtail, r, p)
      BY <1>1, LinkedBlock
    <3> QED BY <3>1, <2>1, <1>2 DEF NextLink
  <2> QED BY <2>1, <2>2, <1>1 DEF Offsets
<1> QED BY <1>2, <1>3, <1>4, <1>5, <1>6, <1>7

LEMMA ForwardsFinds ==
  ASSUME NEW q, NEW r, NEW off, LaidOut(q, r, off),
         NEW b \in Used(blk), NEW index \in 0 .. MaxSize, off[b] + index < Len(q)
  PROVE  Forwards[b][index] = Where(blk, off, off[b] + index)
<1> DEFINE Up(u, le, i) == IF i < blk[le].nused THEN <<le, i>>
                           ELSE IF blk[le].listnext = Hdr THEN Null
                           ELSE u[blk[le].listnext][i - blk[le].nused]
           W == [le \in InUse |-> [i \in 0 .. MaxSize |->
                   IF i < blk[le].nused THEN <<le, i>>
                   ELSE IF off[le] + i < Len(q) THEN Where(blk, off, off[le] + i) ELSE Null]]
           F == CHOOSE u : u = [le \in InUse |-> [i \in 0 .. MaxSize |-> Up(u, le, i)]]
<1>1. ASSUME NEW le \in Used(blk), NEW i \in 0 .. MaxSize, i < blk[le].nused, off[le] + i < Len(q)
      PROVE  Where(blk, off, off[le] + i) = <<le, i>>
  <2>1. off[le] \in Nat /\ i \in Nat
    BY LaidOutBlock
  <2> QED BY <1>1, <2>1, WhereUnique DEF Stands, LaidOut
<1>2. ASSUME NEW le \in InUse, NEW i \in 0 .. MaxSize PROVE W[le][i] = Up(W, le, i)
  <2>1. le \in Used(blk)
    BY InUseUsed
  <2>2. W[le][i] = IF i < blk[le].nused THEN <<le, i>>
                   ELSE IF off[le] + i < Len(q) THEN Where(blk, off, off[le] + i) ELSE Null
    OBVIOUS
  <2>3. CASE i < blk[le].nused
    BY <2>2, <2>3
  <2>4. CASE ~(i < blk[le].nused) /\ le = listtail
    BY <2>1, <2>2, <2>4, LaidOutBlock
  <2>5. CASE ~(i < blk[le].nused) /\ le # listtail
    <3>1. PICK e \in Used(blk) : blk[le].listnext = e /\ e # Hdr /\ off[e] = off[le] + blk[le].nused
      BY <2>1, <2>5, LaidOutBlock
    <3> DEFINE j == i - blk[le].nused
    <3>2. j \in 0 .. MaxSize /\ off[e] + j = off[le] + i /\ e \in InUse /\ off[e] \in Nat
          /\ blk[e].nused \in Nat /\ off[e] + blk[e].nused <= Len(q) /\ Len(q) \in Nat
      <4>1. /\ blk[e].nused \in Nat /\ off[e] + blk[e].nused <= Len(q) /\ Len(q) \in Nat
            /\ off[e] \in Nat
        BY LaidOutBlock
      <4>2. blk[le].nused \in Nat /\ off[le] \in Nat /\ MaxSize \in Nat
        BY <2>1, LaidOutBlock
      <4>3. j \in 0 .. MaxSize
        BY <2>5, <4>2
      <4>4. off[e] + j = off[le] + i
        BY <3>1, <4>2
      <4> QED BY <4>1, <4>3, <4>4, InUseUsed
    <3> HIDE DEF j
    <3>3. W[e][j] = IF j < blk[e].nused THEN <<e, j>>
                    ELSE IF off[e] + j < Len(q) THEN Where(blk, off, off[e] + j) ELSE Null
      BY <3>2
    <3>4. j < blk[e].nused => off[e] + j < Len(q) /\ Where(blk, off, off[e] + j) = <<e, j>>
      BY <3>2, <1>1
    <3>5. Up(W, le, i) = W[e][j]
      BY <2>5, <3>1 DEF j
    <3> HIDE DEF W, Up
    <3> QED BY <2>2, <2>5, <3>2, <3>3, <3>4, <3>5
  <2> QED BY <2>3, <2>4, <2>5
<1>3. W = [le \in InUse |-> [i \in 0 .. MaxSize |-> Up(W, le, i)]]
  <2>1. W = [le \in InUse |-> [i \in 0 .. MaxSize |-> W[le][i]]]
    OBVIOUS
  <2> HIDE DEF Up, W
  <2> QED BY <2>1, <1>2
<1>4. F = [le \in InUse |-> [i \in 0 .. MaxSize |-> Up(F, le, i)]]
  <2> HIDE DEF Up, W
  <2> QED BY <1>3, Zenon
<1>5. \A le \in InUse, i \in 0 .. MaxSize : F[le][i] = Up(F, le, i)
  <2> SUFFICES ASSUME NEW le \in InUse, NEW i \in 0 .. MaxSize PROVE F[le][i] = Up(F, le, i)
    BY Zenon
  <2> HIDE DEF Up, F
  <2>1. F[le] = [j \in 0 .. MaxSize |-> Up(F, le, j)]
    BY <1>4
  <2> QED BY <2>1
<1> HIDE DEF F, W
<1> DEFINE S == {le \in Used(blk) : \A i \in 0 .. MaxSize : F[le][i] = W[le][i]}
<1>6. ASSUME NEW le \in Used(blk), le = listtail \/ blk[le].listnext \in S PROVE le \in S
  <2> SUFFICES ASSUME NEW i \in 0 .. MaxSize PROVE F[le][i] = W[le][i]
    OBVIOUS
  <2>1. le \in InUse /\ F[le][i] = Up(F, le, i) /\ W[le][i] = Up(W, le, i)
    BY <1>2, <1>5, InUseUsed
  <2>2. CASE i < blk[le].nused \/ le = listtail
    BY <2>1, <2>2, LaidOutBlock
  <2>3. CASE ~(i < blk[le].nused) /\ blk[le].listnext \in S
    <3>1. i - blk[le].nused \in 0 .. MaxSize
      BY <2>3, LaidOutBlock
    <3> QED BY <2>1, <2>3, <3>1
  <2> QED BY <1>6, <2>2, <2>3
<1>7. b \in S
  <2>1. Linked(blk, listhead, listtail, r)
    BY DEF LaidOut, Layout
  <2> HIDE DEF S
  <2> QED BY <1>6, <2>1, InductionToHead
<1>8. F[b][index] = W[b][index] /\ b \in InUse
  BY <1>7, InUseUsed
<1>9. W[b][index] = Where(blk, off, off[b] + index)
  BY <1>1, <1>8 DEF W
<1>10. Forwards = F
  BY DEF Forwards, F
<1> QED BY <1>8, <1>9, <1>10

LEMMA BackwardsFinds ==
  ASSUME NEW q, NEW r, NEW off, LaidOut(q, r, off), NEW index \in 0 .. Len(q) - 1
  PROVE  Backwards[listtail][Len(q)][index] = Where(blk, off, index)
<1> DEFINE At(le, n, i) == off[le] + blk[le].nused - n + i
           Up(u, le, n, i) == IF i >= n - blk[le].nused THEN <<le, blk[le].nused - n + i>>
                              ELSE IF blk[le].listprev = Hdr THEN Null
                              ELSE u[blk[le].listprev][n - blk[le].nused][i]
           W == [le \in InUse |-> [n \in 0 .. MaxSize |-> [i \in 0 .. MaxSize |->
                   IF i >= n - blk[le].nused THEN <<le, blk[le].nused - n + i>>
                   ELSE IF At(le, n, i) < 0 THEN Null ELSE Where(blk, off, At(le, n, i))]]]
           F == CHOOSE u : u = [le \in InUse |-> [n \in 0 .. MaxSize |-> [i \in 0 .. MaxSize |->
                                  Up(u, le, n, i)]]]
<1>1. ASSUME NEW le \in Used(blk), NEW p \in Int, 0 <= p, p < blk[le].nused
      PROVE  Where(blk, off, off[le] + p) = <<le, p>>
  BY <1>1, WhereUnique DEF Stands, LaidOut
<1>2. ASSUME NEW le \in InUse, NEW n \in 0 .. MaxSize, NEW i \in 0 .. MaxSize
      PROVE  W[le][n][i] = Up(W, le, n, i)
  <2>1. le \in Used(blk) /\ off[le] \in Nat /\ blk[le].nused \in Nat /\ MaxSize \in Nat
    BY InUseUsed, LaidOutBlock
  <2>2. W[le][n][i] = IF i >= n - blk[le].nused THEN <<le, blk[le].nused - n + i>>
                      ELSE IF At(le, n, i) < 0 THEN Null ELSE Where(blk, off, At(le, n, i))
    OBVIOUS
  <2>3. CASE i >= n - blk[le].nused
    BY <2>2, <2>3
  <2>4. CASE ~(i >= n - blk[le].nused) /\ le = listhead
    <3>1. At(le, n, i) < 0 /\ blk[le].listprev = Hdr
      <4>1. blk[le].listprev = Hdr /\ off[le] = 0
        BY <2>1, <2>4, LaidOutBlock
      <4>2. off[le] + blk[le].nused - n + i < 0
        BY <2>1, <2>4, <4>1
      <4> QED BY <4>1, <4>2
    <3> QED BY <2>2, <2>4, <3>1
  <2>5. CASE ~(i >= n - blk[le].nused) /\ le # listhead
    <3>1. PICK e \in Used(blk) : blk[le].listprev = e /\ e # Hdr /\ off[le] = off[e] + blk[e].nused
      BY <2>1, <2>5, LaidOutBlock
    <3> DEFINE m == n - blk[le].nused
               k == At(le, n, i)
    <3>0. i < n - blk[le].nused /\ i \in Nat /\ n \in Nat /\ n <= MaxSize
      BY <2>1, <2>5
    <3>2. m \in 0 .. MaxSize /\ m = n - blk[le].nused
      BY <2>1, <3>0
    <3>3. e \in InUse /\ off[e] \in Nat /\ blk[e].nused \in Nat
      BY <3>1, LaidOutBlock, InUseUsed
    <3>a. PICK ol, oe, ul, ue \in Nat :
               ol = off[le] /\ oe = off[e] /\ ul = blk[le].nused /\ ue = blk[e].nused
      BY <2>1, <3>3
    <3>b. ol = oe + ue /\ i < n - ul /\ i \in Nat /\ n \in Nat
      BY <3>0, <3>1, <3>a
    <3>c. /\ ol + ul - n + i \in Int
          /\ ol + ul - n + i = oe + ue - (n - ul) + i
          /\ ol + ul - n + i < ol
          /\ ue - (n - ul) + i = (ol + ul - n + i) - oe
      <4> HIDE DEF Up, W, F, At
      <4> QED BY <3>b
    <3>4. k \in Int /\ k = At(e, m, i) /\ k < off[le]
      BY <3>a, <3>c
    <3>5. blk[e].nused - m + i = k - off[e]
      BY <3>a, <3>c
    <3> HIDE DEF m, k
    <3>6. W[e][m][i] = IF i >= m - blk[e].nused THEN <<e, blk[e].nused - m + i>>
                       ELSE IF At(e, m, i) < 0 THEN Null ELSE Where(blk, off, At(e, m, i))
      BY <3>2, <3>3
    <3>7. Up(W, le, n, i) = W[e][m][i]
      BY <2>5, <3>1, <3>2
    <3>8. W[le][n][i] = IF k < 0 THEN Null ELSE Where(blk, off, k)
      BY <2>2, <2>5 DEF k
    <3> HIDE DEF W, Up, At
    <3>9. CASE i >= m - blk[e].nused
      <4>1. blk[e].nused - m + i \in Int /\ 0 <= blk[e].nused - m + i
            /\ blk[e].nused - m + i < blk[e].nused /\ off[e] + (blk[e].nused - m + i) = k
            /\ 0 <= k
        <5>1. m \in Int /\ i \in Int /\ off[e] \in Nat /\ blk[e].nused \in Nat
          BY <3>2, <3>3
        <5>2. PICK x \in Int : x = blk[e].nused - m + i
          BY <5>1
        <5>3. x >= 0
          BY <3>9, <5>1, <5>2
        <5>4. x = k - off[e] /\ k < off[e] + blk[e].nused /\ k \in Int
          BY <3>1, <3>4, <3>5, <5>2
        <5>5. x < blk[e].nused /\ off[e] + x = k /\ 0 <= k
          BY <5>1, <5>3, <5>4
        <5> QED BY <5>2, <5>3, <5>5
      <4>2. Where(blk, off, k) = <<e, blk[e].nused - m + i>>
        BY <4>1, <1>1
      <4> QED BY <4>1, <4>2, <3>4, <3>6, <3>7, <3>8, <3>9
    <3>10. CASE ~(i >= m - blk[e].nused)
      BY <3>4, <3>6, <3>7, <3>8, <3>10
    <3> QED BY <3>9, <3>10
  <2> QED BY <2>3, <2>4, <2>5
<1>3. W = [le \in InUse |-> [n \in 0 .. MaxSize |-> [i \in 0 .. MaxSize |-> Up(W, le, n, i)]]]
  <2>1. W = [le \in InUse |-> [n \in 0 .. MaxSize |-> [i \in 0 .. MaxSize |-> W[le][n][i]]]]
    OBVIOUS
  <2> HIDE DEF Up, W
  <2> QED BY <2>1, <1>2
<1>4. F = [le \in InUse |-> [n \in 0 .. MaxSize |-> [i \in 0 .. MaxSize |-> Up(F, le, n, i)]]]
  <2> HIDE DEF Up, W
  <2> QED BY <1>3
<1>5. \A le \in InUse, n \in 0 .. MaxSize, i \in 0 .. MaxSize : F[le][n][i] = Up(F, le, n, i)
  <2> SUFFICES ASSUME NEW le \in InUse, NEW n \in 0 .. MaxSize, NEW i \in 0 .. MaxSize
               PROVE  F[le][n][i] = Up(F, le, n, i)
    BY Zenon
  <2> HIDE DEF Up, F
  <2>1. F[le] = [m \in 0 .. MaxSize |-> [j \in 0 .. MaxSize |-> Up(F, le, m, j)]]
    BY <1>4
  <2>2. F[le][n] = [j \in 0 .. MaxSize |-> Up(F, le, n, j)]
    BY <2>1
  <2> QED BY <2>2
<1> HIDE DEF F, W, At
<1> DEFINE S == {le \in Used(blk) : \A n, i \in 0 .. MaxSize : F[le][n][i] = W[le][n][i]}
<1>6. ASSUME NEW le \in Used(blk), le = listhead \/ blk[le].listprev \in S PROVE le \in S
  <2> SUFFICES ASSUME NEW n \in 0 .. MaxSize, NEW i \in 0 .. MaxSize
               PROVE  F[le][n][i] = W[le][n][i]
    OBVIOUS
  <2>1. F[le][n][i] = Up(F, le, n, i) /\ W[le][n][i] = Up(W, le, n, i)
    BY <1>2, <1>5, InUseUsed
  <2>2. CASE i >= n - blk[le].nused \/ le = listhead
    BY <2>1, <2>2, LaidOutBlock
  <2>3. CASE ~(i >= n - blk[le].nused) /\ blk[le].listprev \in S
    <3>1. n - blk[le].nused \in 0 .. MaxSize
      BY <2>3, LaidOutBlock
    <3> QED BY <2>1, <2>3, <3>1
  <2> QED BY <1>6, <2>2, <2>3
<1>7. Linked(blk, listhead, listtail, r) /\ listtail \in Used(blk)
  BY DEF LaidOut, Layout, Linked
<1>8. listtail \in S
  <2> HIDE DEF S
  <2> QED BY <1>6, <1>7, InductionToTail
<1>9. /\ listtail \in InUse /\ Len(q) \in 0 .. MaxSize /\ index \in 0 .. MaxSize
      /\ off[listtail] \in Nat /\ blk[listtail].nused \in Nat /\ Len(q) \in Nat
      /\ off[listtail] + blk[listtail].nused = Len(q)
  BY <1>7, LaidOutBlock, InUseUsed
<1>10. W[listtail][Len(q)][index] =
         IF index >= Len(q) - blk[listtail].nused THEN <<listtail, blk[listtail].nused - Len(q) + index>>
         ELSE IF At(listtail, Len(q), index) < 0 THEN Null ELSE Where(blk, off, At(listtail, Len(q), index))
  BY <1>9 DEF W
<1>11. At(listtail, Len(q), index) = index
  BY <1>9 DEF At
<1>12. W[listtail][Len(q)][index] = Where(blk, off, index)
  <2>1. CASE index >= Len(q) - blk[listtail].nused
    <3> DEFINE p == blk[listtail].nused - Len(q) + index
    <3>1. p \in Int /\ 0 <= p /\ p < blk[listtail].nused /\ off[listtail] + p = index
      <4>1. index \in Nat /\ index < Len(q)
        BY <1>9
      <4>2. PICK o, u, n \in Nat : o = off[listtail] /\ u = blk[listtail].nused /\ n = Len(q)
        BY <1>9
      <4>3. o + u = n /\ index < n /\ index >= n - u
        BY <1>9, <2>1, <4>1, <4>2
      <4>4. u - n + index \in Int /\ 0 <= u - n + index /\ u - n + index < u
            /\ o + (u - n + index) = index
        BY <4>1, <4>3
      <4> QED BY <4>2, <4>4
    <3>2. Where(blk, off, index) = <<listtail, p>>
      <4> HIDE DEF p
      <4> QED BY <3>1, <1>1, <1>7
    <3> QED BY <2>1, <3>2, <1>10
  <2>2. CASE ~(index >= Len(q) - blk[listtail].nused)
    BY <2>2, <1>10, <1>11
  <2> QED BY <2>1, <2>2
<1>13. Backwards = F
  BY DEF Backwards, F
<1> QED BY <1>8, <1>9, <1>12, <1>13, Zenon

\* The search finds the block and the place of an element, from either end.
LEMMA LelemFinds ==
  ASSUME NEW q, NEW r, NEW off, LaidOut(q, r, off), size = Len(q), NEW i \in Int
  PROVE  LelemForIndex(i) = IF i \in 1 .. size THEN Where(blk, off, i - 1) ELSE Null
<1>1. Linked(blk, listhead, listtail, r) /\ listhead \in Used(blk)
  BY DEF LaidOut, Layout, Linked
<1>2. off[listhead] = 0 /\ Len(q) \in Nat /\ Len(q) <= MaxSize /\ MaxSize \in Nat
  BY <1>1, LaidOutBlock
<1>3. CASE i \in 1 .. size
  <2>1. i - 1 \in 0 .. MaxSize /\ 0 + (i - 1) = i - 1 /\ i - 1 < Len(q) /\ i - 1 \in 0 .. Len(q) - 1
        /\ ~(i - 1 < 0 \/ i - 1 >= size)
    BY <1>2, <1>3
  <2> DEFINE k == i - 1
  <2>2. k \in 0 .. MaxSize /\ off[listhead] + k = k /\ k < Len(q) /\ k \in 0 .. Len(q) - 1
        /\ ~(k < 0 \/ k >= size)
    BY <1>2, <2>1
  <2>3. LelemForIndex(i) = IF k < size \div 2 THEN Forwards[listhead][k]
                           ELSE Backwards[listtail][size][k]
    <3> HIDE DEF k
    <3>1. i - 1 = k
      BY DEF k
    <3> QED BY <2>2, <3>1 DEF LelemForIndex
  <2> HIDE DEF k
  <2>4. Forwards[listhead][k] = Where(blk, off, k)
    BY <1>1, <2>2, ForwardsFinds
  <2>5. Backwards[listtail][size][k] = Where(blk, off, k)
    BY <2>2, BackwardsFinds
  <2>6. LelemForIndex(i) = Where(blk, off, k)
    BY <2>3, <2>4, <2>5
  <2> QED BY <1>3, <2>6 DEF k
<1>4. CASE i \notin 1 .. size
  <2>1. i - 1 < 0 \/ i - 1 >= size
    BY <1>2, <1>4
  <2> QED BY <1>4, <2>1 DEF LelemForIndex
<1> QED BY <1>3, <1>4

\* What the search gives for an index of the list.
LEMMA LelemAt ==
  ASSUME NEW q, NEW r, NEW off, LaidOut(q, r, off), size = Len(q), NEW i \in 1 .. size
  PROVE  \E b, p : /\ LelemForIndex(i) = <<b, p>> /\ Stands(blk, off, i - 1, b, p)
                   /\ Element(i) = q[i] /\ blk[b].lslots[Slot(blk[b], p)] = q[i]
<1>1. i \in Int /\ i - 1 \in 0 .. Len(q) - 1 /\ i - 1 + 1 = i
  <2>1. Len(q) \in Nat
    BY DEF LaidOut, Layout, Offsets
  <2> QED BY <2>1
<1>2. LelemForIndex(i) = Where(blk, off, i - 1)
  BY <1>1, LelemFinds
<1>3. PICK b, p : Stands(blk, off, i - 1, b, p) /\ Where(blk, off, i - 1) = <<b, p>>
  BY <1>1, WhereIs DEF LaidOut
<1>4. blk[b].lslots[Slot(blk[b], p)] = q[i]
  <2>1. blk[b].lslots[Slot(blk[b], p)] = q[i - 1 + 1]
    BY <1>3, StandsFilled DEF LaidOut
  <2> QED BY <1>1, <2>1
<1>5. Element(i) = q[i]
  BY <1>2, <1>3, <1>4 DEF Element
<1> QED BY <1>2, <1>3, <1>4, <1>5

\* Sequences are functions.
LEMMA SeqIs ==
  ASSUME NEW n \in Nat, NEW f, f = [k \in 1 .. n |-> f[k]], \A k \in 1 .. n : f[k] \in Val
  PROVE  f \in Seq(Val) /\ Len(f) = n
<1>1. f \in [1 .. n -> Val]
  OBVIOUS
<1> QED BY <1>1

LEMMA SeqSame ==
  ASSUME NEW s \in Seq(Val), NEW t \in Seq(Val), Len(s) = Len(t), \A k \in 1 .. Len(s) : s[k] = t[k]
  PROVE  s = t
<1>1. s = [k \in 1 .. Len(s) |-> s[k]] /\ t = [k \in 1 .. Len(t) |-> t[k]]
  OBVIOUS
<1> QED BY <1>1

\* From a block on, the list holds what follows the block's place in the sequence.
LEMMA RestIs ==
  ASSUME NEW q, NEW r, NEW off, LaidOut(q, r, off), NEW b \in Used(blk)
  PROVE  Rest[b] = [k \in 1 .. Len(q) - off[b] |-> q[off[b] + k]]
<1> DEFINE Own(le) == [p \in 1 .. blk[le].nused |-> blk[le].lslots[Slot(blk[le], p - 1)]]
           Up(u, le) == Own(le) \o IF blk[le].listnext = Hdr THEN <<>> ELSE u[blk[le].listnext]
           W == [le \in InUse |-> [k \in 1 .. Len(q) - off[le] |-> q[off[le] + k]]]
           F == CHOOSE u : u = [le \in InUse |-> Up(u, le)]
<1>0. q \in Seq(Val) /\ Filled(blk, off, q)
  BY DEF LaidOut, Layout, Offsets
<1>1. ASSUME NEW le \in InUse PROVE W[le] = Up(W, le)
  <2>1. le \in Used(blk) /\ blk[le].nused \in Nat /\ off[le] \in Nat /\ Len(q) \in Nat
        /\ off[le] + blk[le].nused <= Len(q)
    BY InUseUsed, LaidOutBlock
  <2> DEFINE n == blk[le].nused
             o == off[le]
             l == Len(q)
  <2>2. n \in Nat /\ o \in Nat /\ l \in Nat /\ o + n <= l
    BY <2>1
  <2>3. Own(le) = [p \in 1 .. n |-> q[o + p]]
    <3>1. ASSUME NEW p \in 1 .. n PROVE blk[le].lslots[Slot(blk[le], p - 1)] = q[o + p]
      <4>1. p - 1 \in 0 .. blk[le].nused - 1 /\ o + (p - 1) + 1 = o + p
        BY <2>2
      <4>2. q[off[le] + (p - 1) + 1] = blk[le].lslots[Slot(blk[le], p - 1)]
        BY <1>0, <2>1, <4>1 DEF Filled
      <4> QED BY <4>1, <4>2
    <3> QED BY <3>1
  <2>4. W[le] = [k \in 1 .. l - o |-> q[o + k]]
    OBVIOUS
  <2> HIDE DEF W, Own, n, o, l
  <2>5. \A k \in 1 .. l : q[k] \in Val
    BY <1>0 DEF l
  <2>6. CASE le = listtail
    <3>1. blk[le].listnext = Hdr /\ l = o + n
      BY <2>1, <2>6, LaidOutBlock DEF l, o, n
    <3>2. l - o = n
      BY <2>2, <3>1
    <3>3. Own(le) \in Seq(Val)
      BY <2>2, <2>3, <2>5, <3>1
    <3>4. Up(W, le) = Own(le)
      BY <3>1, <3>3
    <3> QED BY <2>3, <2>4, <3>2, <3>4
  <2>7. CASE le # listtail
    <3>1. PICK e \in Used(blk) : blk[le].listnext = e /\ e # Hdr /\ off[e] = o + n
      BY <2>1, <2>7, LaidOutBlock DEF o, n
    <3>2. e \in InUse /\ Up(W, le) = Own(le) \o W[e]
      BY <3>1, InUseUsed
    <3>3. W[e] = [k \in 1 .. l - (o + n) |-> q[o + n + k]]
      BY <3>1, <3>2 DEF W, l
    <3>4. l - (o + n) \in Nat /\ l - o = n + (l - (o + n)) /\ l - o \in Nat
      BY <2>2
    <3>5. Own(le) \in Seq(Val) /\ Len(Own(le)) = n
      BY <2>2, <2>3, <2>5
    <3>6. W[e] \in Seq(Val) /\ Len(W[e]) = l - (o + n)
      <4>1. \A k \in 1 .. l - (o + n) : W[e][k] = q[o + n + k] /\ o + n + k \in 1 .. l
        BY <2>2, <3>3, <3>4
      <4>2. W[e] = [k \in 1 .. l - (o + n) |-> W[e][k]]
        BY <3>3
      <4> QED BY <4>1, <4>2, <2>5, <3>4, SeqIs
    <3>7. /\ Own(le) \o W[e] \in Seq(Val) /\ Len(Own(le) \o W[e]) = l - o
          /\ \A k \in 1 .. l - o : (Own(le) \o W[e])[k] = IF k <= n THEN Own(le)[k] ELSE W[e][k - n]
      BY <2>2, <3>4, <3>5, <3>6
    <3>8. \A k \in 1 .. l - o : (Own(le) \o W[e])[k] = q[o + k]
      <4> SUFFICES ASSUME NEW k \in 1 .. l - o PROVE (Own(le) \o W[e])[k] = q[o + k]
        OBVIOUS
      <4>1. CASE k <= n
        BY <2>2, <2>3, <3>4, <3>7, <4>1
      <4>2. CASE ~(k <= n)
        <5>1. k - n \in 1 .. l - (o + n) /\ o + n + (k - n) = o + k
          BY <2>2, <3>4, <4>2
        <5>2. W[e][k - n] = q[o + n + (k - n)]
          BY <3>3, <5>1
        <5> QED BY <3>7, <4>2, <5>1, <5>2
      <4> QED BY <4>1, <4>2
    <3>9. W[le] \in Seq(Val) /\ Len(W[le]) = l - o /\ \A k \in 1 .. l - o : W[le][k] = q[o + k]
      BY <2>2, <2>4, <2>5, <3>4
    <3>10. Own(le) \o W[e] = W[le]
      <4>1. PICK u, w : u = Own(le) \o W[e] /\ w = W[le]
        OBVIOUS
      <4>2. /\ u \in Seq(Val) /\ w \in Seq(Val) /\ Len(u) = Len(w)
            /\ \A k \in 1 .. Len(u) : u[k] = w[k]
        BY <3>7, <3>8, <3>9, <4>1
      <4>3. u = w
        BY <4>2, SeqSame
      <4> QED BY <4>1, <4>3
    <3> QED BY <3>2, <3>10
  <2> QED BY <2>6, <2>7
<1>2. W = [le \in InUse |-> Up(W, le)]
  <2>1. W = [le \in InUse |-> W[le]]
    OBVIOUS
  <2> HIDE DEF Up, W
  <2> QED BY <2>1, <1>1
<1>3. F = [le \in InUse |-> Up(F, le)]
  <2> HIDE DEF Up, W
  <2> QED BY <1>2
<1>4. \A le \in InUse : F[le] = Up(F, le)
  <2> HIDE DEF Up, F
  <2> QED BY <1>3
<1> HIDE DEF F, W, Own
<1> DEFINE S == {le \in Used(blk) : F[le] = W[le]}
<1>5. ASSUME NEW le \in Used(blk), le = listtail \/ blk[le].listnext \in S PROVE le \in S
  <2>1. F[le] = Up(F, le) /\ W[le] = Up(W, le)
    BY <1>1, <1>4, InUseUsed
  <2>2. le = listtail => blk[le].listnext = Hdr
    BY LaidOutBlock
  <2> QED BY <1>5, <2>1, <2>2
<1>6. b \in S
  <2>1. Linked(blk, listhead, listtail, r)
    BY DEF LaidOut, Layout
  <2> HIDE DEF S
  <2> QED BY <1>5, <2>1, InductionToHead
<1>7. Rest = F
  BY DEF Rest, F, Own
<1>8. W[b] = [k \in 1 .. Len(q) - off[b] |-> q[off[b] + k]]
  BY InUseUsed DEF W
<1> QED BY <1>6, <1>7, <1>8

LEMMA ContentsIs == \A q, r, off : LaidOut(q, r, off) => Contents = q
<1> SUFFICES ASSUME NEW q, NEW r, NEW off, LaidOut(q, r, off) PROVE Contents = q
  OBVIOUS
<1>1. listhead \in Used(blk)
  BY DEF LaidOut, Layout, Linked
<1>2. off[listhead] = 0 /\ Len(q) \in Nat /\ q \in Seq(Val)
  BY <1>1, LaidOutBlock DEF LaidOut, Layout, Offsets
<1>3. Rest[listhead] = [k \in 1 .. Len(q) |-> q[k]]
  <2>1. Rest[listhead] = [k \in 1 .. Len(q) - 0 |-> q[0 + k]]
    <3>1. Rest[listhead] = [k \in 1 .. Len(q) - off[listhead] |-> q[off[listhead] + k]]
      <4>1. PICK b \in Used(blk) : b = listhead
        BY <1>1
      <4>2. Rest[b] = [k \in 1 .. Len(q) - off[b] |-> q[off[b] + k]]
        BY RestIs
      <4> QED BY <4>1, <4>2
    <3> QED BY <1>2, <3>1
  <2> QED BY <1>2, <2>1
<1>4. q = [k \in 1 .. Len(q) |-> q[k]]
  BY <1>2
<1> QED BY <1>3, <1>4 DEF Contents

\* The block with elements after or before a block is the next one or the previous one,
\* since only the first and the last may be empty.
LEMMA NextUsedIs ==
  ASSUME NEW q, NEW r, NEW off, LaidOut(q, r, off), Inner(blk, listhead, listtail),
         NEW b \in Used(blk)
  PROVE  /\ NextUsed[b] = Null => off[b] + blk[b].nused = Len(q)
         /\ NextUsed[b] # Null => /\ NextUsed[b] \in Used(blk) /\ blk[NextUsed[b]].nused > 0
                                  /\ off[NextUsed[b]] = off[b] + blk[b].nused
<1> DEFINE Up(u, le) == LET n == blk[le].listnext IN
                        IF n = Hdr THEN Null ELSE IF blk[n].nused > 0 THEN n ELSE u[n]
           W == [le \in InUse |-> LET n == blk[le].listnext IN
                   IF n = Hdr THEN Null ELSE IF blk[n].nused > 0 THEN n ELSE Null]
           F == CHOOSE u : u = [le \in InUse |-> Up(u, le)]
<1>1. ASSUME NEW le \in Used(blk), le # listtail, ~(blk[blk[le].listnext].nused > 0)
      PROVE  blk[le].listnext = listtail
  <2>1. Linked(blk, listhead, listtail, r)
    BY DEF LaidOut, Layout
  <2>2. PICK e \in Used(blk) : e = blk[le].listnext /\ e # Hdr
    BY <1>1, LaidOutBlock
  <2>3. r[e] = r[le] + 1 /\ r[listhead] <= r[le] /\ r[le] \in Int /\ r[listhead] \in Int
    BY <1>1, <2>1, <2>2, LinkedBlock DEF NextLink
  <2>4. e # listhead
    BY <2>3
  <2> QED BY <1>1, <2>2, <2>4 DEF Inner
<1>2. blk[listtail].listnext = Hdr /\ listtail \in InUse
  <2>1. listtail \in Used(blk)
    BY DEF LaidOut, Layout, Linked
  <2> QED BY <2>1, LaidOutBlock, InUseUsed
<1>3. ASSUME NEW le \in InUse PROVE W[le] = Up(W, le)
  <2>1. le \in Used(blk)
    BY InUseUsed
  <2>2. CASE le = listtail
    BY <1>2, <2>2
  <2>3. CASE le # listtail /\ blk[blk[le].listnext].nused > 0
    BY <2>3
  <2>4. CASE le # listtail /\ ~(blk[blk[le].listnext].nused > 0)
    <3>1. blk[le].listnext = listtail
      BY <1>1, <2>1, <2>4
    <3> QED BY <1>2, <2>4, <3>1
  <2> QED BY <2>2, <2>3, <2>4
<1>4. W = [le \in InUse |-> Up(W, le)]
  <2>1. W = [le \in InUse |-> W[le]]
    OBVIOUS
  <2> HIDE DEF Up, W
  <2> QED BY <2>1, <1>3
<1>5. F = [le \in InUse |-> Up(F, le)]
  <2> HIDE DEF Up, W
  <2> QED BY <1>4
<1>6. \A le \in InUse : F[le] = Up(F, le)
  <2> HIDE DEF Up, F
  <2> QED BY <1>5
<1>7. NextUsed = F
  BY DEF NextUsed, F
<1> HIDE DEF F, W
<1>8. F[listtail] = Null
  BY <1>2, <1>6
<1>9. b \in InUse /\ F[b] = Up(F, b)
  BY <1>6, InUseUsed
<1>10. CASE b = listtail
  <2>1. off[b] + blk[b].nused = Len(q)
    BY <1>10, LaidOutBlock
  <2> QED BY <1>7, <1>8, <1>10, <2>1
<1>11. CASE b # listtail
  <2>1. PICK e \in Used(blk) : blk[b].listnext = e /\ e # Hdr /\ off[e] = off[b] + blk[b].nused
    BY <1>11, LaidOutBlock
  <2>2. e # Null /\ off[e] \in Nat /\ off[b] \in Nat /\ blk[b].nused \in Nat /\ blk[e].nused \in Nat
    BY LaidOutBlock, ListAssumption
  <2>3. CASE blk[e].nused > 0
    BY <1>7, <1>9, <2>1, <2>2, <2>3
  <2>4. CASE ~(blk[e].nused > 0)
    <3>1. e = listtail /\ blk[e].nused = 0
      BY <1>1, <1>11, <2>1, <2>2, <2>4
    <3>2. F[b] = Null
      BY <1>8, <1>9, <2>1, <2>4, <3>1
    <3>3. off[e] + blk[e].nused = Len(q)
      BY <3>1, LaidOutBlock
    <3> QED BY <1>7, <2>1, <2>2, <3>1, <3>2, <3>3
  <2> QED BY <2>3, <2>4
<1> QED BY <1>10, <1>11

LEMMA PrevUsedIs ==
  ASSUME NEW q, NEW r, NEW off, LaidOut(q, r, off), Inner(blk, listhead, listtail),
         NEW b \in Used(blk)
  PROVE  /\ PrevUsed[b] = Null => off[b] = 0
         /\ PrevUsed[b] # Null => /\ PrevUsed[b] \in Used(blk) /\ blk[PrevUsed[b]].nused > 0
                                  /\ off[b] = off[PrevUsed[b]] + blk[PrevUsed[b]].nused
<1> DEFINE Up(u, le) == LET p == blk[le].listprev IN
                        IF p = Hdr THEN Null ELSE IF blk[p].nused > 0 THEN p ELSE u[p]
           W == [le \in InUse |-> LET p == blk[le].listprev IN
                   IF p = Hdr THEN Null ELSE IF blk[p].nused > 0 THEN p ELSE Null]
           F == CHOOSE u : u = [le \in InUse |-> Up(u, le)]
<1>1. ASSUME NEW le \in Used(blk), le # listhead, ~(blk[blk[le].listprev].nused > 0)
      PROVE  blk[le].listprev = listhead
  <2>1. Linked(blk, listhead, listtail, r)
    BY DEF LaidOut, Layout
  <2>2. PICK e \in Used(blk) : e = blk[le].listprev /\ e # Hdr
    BY <1>1, LaidOutBlock
  <2>3. r[e] = r[le] - 1 /\ r[le] <= r[listtail] /\ r[le] \in Int /\ r[listtail] \in Int
    BY <1>1, <2>1, <2>2, LinkedBlock DEF PrevLink
  <2>4. e # listtail
    BY <2>3
  <2> QED BY <1>1, <2>2, <2>4 DEF Inner
<1>2. blk[listhead].listprev = Hdr /\ listhead \in InUse
  <2>1. listhead \in Used(blk)
    BY DEF LaidOut, Layout, Linked
  <2> QED BY <2>1, LaidOutBlock, InUseUsed
<1>3. ASSUME NEW le \in InUse PROVE W[le] = Up(W, le)
  <2>1. le \in Used(blk)
    BY InUseUsed
  <2>2. CASE le = listhead
    BY <1>2, <2>2
  <2>3. CASE le # listhead /\ blk[blk[le].listprev].nused > 0
    BY <2>3
  <2>4. CASE le # listhead /\ ~(blk[blk[le].listprev].nused > 0)
    <3>1. blk[le].listprev = listhead
      BY <1>1, <2>1, <2>4
    <3> QED BY <1>2, <2>4, <3>1
  <2> QED BY <2>2, <2>3, <2>4
<1>4. W = [le \in InUse |-> Up(W, le)]
  <2>1. W = [le \in InUse |-> W[le]]
    OBVIOUS
  <2> HIDE DEF Up, W
  <2> QED BY <2>1, <1>3
<1>5. F = [le \in InUse |-> Up(F, le)]
  <2> HIDE DEF Up, W
  <2> QED BY <1>4
<1>6. \A le \in InUse : F[le] = Up(F, le)
  <2> HIDE DEF Up, F
  <2> QED BY <1>5
<1>7. PrevUsed = F
  BY DEF PrevUsed, F
<1> HIDE DEF F, W
<1>8. F[listhead] = Null
  BY <1>2, <1>6
<1>9. b \in InUse /\ F[b] = Up(F, b)
  BY <1>6, InUseUsed
<1>10. CASE b = listhead
  <2>1. off[b] = 0
    BY <1>10, LaidOutBlock
  <2> QED BY <1>7, <1>8, <1>10, <2>1
<1>11. CASE b # listhead
  <2>1. PICK e \in Used(blk) : blk[b].listprev = e /\ e # Hdr /\ off[b] = off[e] + blk[e].nused
    BY <1>11, LaidOutBlock
  <2>2. e # Null /\ off[e] \in Nat /\ off[b] \in Nat /\ blk[e].nused \in Nat
    BY LaidOutBlock, ListAssumption
  <2>3. CASE blk[e].nused > 0
    BY <1>7, <1>9, <2>1, <2>2, <2>3
  <2>4. CASE ~(blk[e].nused > 0)
    <3>1. e = listhead /\ blk[e].nused = 0
      BY <1>1, <1>11, <2>1, <2>2, <2>4
    <3>2. F[b] = Null
      BY <1>8, <1>9, <2>1, <2>4, <3>1
    <3>3. off[e] = 0
      BY <3>1, LaidOutBlock
    <3> QED BY <1>7, <2>1, <2>2, <3>1, <3>2, <3>3
  <2> QED BY <2>3, <2>4
<1> QED BY <1>10, <1>11

\* What is copied from an element on.
LEMMA SlotsAre ==
  ASSUME NEW q, NEW r, NEW off, LaidOut(q, r, off), Inner(blk, listhead, listtail),
         NEW b, NEW pos, NEW k, Stands(blk, off, k, b, pos),
         NEW n \in Nat, k + n <= Len(q)
  PROVE  Slots[n][b][pos] = [j \in 1 .. n |-> q[k + j]]
<1> DEFINE X(le, p) == blk[le].lslots[Slot(blk[le], p)]
           Up(u, m, le, p) ==
             IF m = 0 THEN <<>>
             ELSE <<X(le, p)>> \o
                  IF p + 1 < blk[le].nused THEN u[m - 1][le][p + 1]
                  ELSE IF NextUsed[le] = Null THEN <<>> ELSE u[m - 1][NextUsed[le]][0]
           Vals == Seq({X(le, p) : le \in InUse, p \in 0 .. MaxSize})
           V == [InUse -> [0 .. MaxSize -> Vals]]
           a == [le \in InUse |-> [p \in 0 .. MaxSize |-> <<>>]]
           G(u) == [le \in InUse |-> [p \in 0 .. MaxSize |->
                   <<X(le, p)>> \o
                   IF p + 1 < blk[le].nused THEN u[le][p + 1]
                   ELSE IF NextUsed[le] = Null THEN <<>> ELSE u[NextUsed[le]][0]]]
           g == [x \in (1 .. MaxSize) \X V |-> G(x[2])]
           F == CHOOSE u : u = [m \in 0 .. MaxSize |-> [le \in InUse |-> [p \in 0 .. MaxSize |->
                                  Up(u, m, le, p)]]]
<1>0. /\ InUse = Used(blk) /\ MaxSize \in Nat /\ Len(q) \in Nat /\ Len(q) <= MaxSize
      /\ q \in Seq(Val)
  BY InUseUsed, ListAssumption DEF LaidOut, Layout, Offsets
<1>1. ASSUME NEW le \in InUse PROVE /\ blk[le].nused \in 0 .. MaxSize /\ off[le] \in Nat
                                    /\ NextUsed[le] # Null => NextUsed[le] \in InUse
  BY <1>0, LaidOutBlock, NextUsedIs
<1>2. ASSUME NEW u \in V, NEW le \in InUse, NEW p \in 0 .. MaxSize
      PROVE  <<X(le, p)>> \o (IF p + 1 < blk[le].nused THEN u[le][p + 1]
                              ELSE IF NextUsed[le] = Null THEN <<>> ELSE u[NextUsed[le]][0]) \in Vals
  <2>1. X(le, p) \in {X(e, s) : e \in InUse, s \in 0 .. MaxSize}
    OBVIOUS
  <2>2. p + 1 < blk[le].nused => u[le][p + 1] \in Vals
    <3>1. p + 1 < blk[le].nused => p + 1 \in 0 .. MaxSize
      BY <1>0, <1>1
    <3> HIDE DEF Vals
    <3> QED BY <3>1
  <2>3. NextUsed[le] # Null => u[NextUsed[le]][0] \in Vals
    <3> HIDE DEF Vals
    <3> QED BY <1>0, <1>1
  <2> DEFINE Xs == {X(e, s) : e \in InUse, s \in 0 .. MaxSize}
             t == IF p + 1 < blk[le].nused THEN u[le][p + 1]
                  ELSE IF NextUsed[le] = Null THEN <<>> ELSE u[NextUsed[le]][0]
  <2>4. t \in Seq(Xs) /\ X(le, p) \in Xs
    BY <2>1, <2>2, <2>3
  <2> HIDE DEF t, Xs, X
  <2>5. <<X(le, p)>> \o t \in Seq(Xs)
    BY <2>4
  <2> QED BY <2>5 DEF t, Xs
<1>3. g \in [(1 .. MaxSize) \X V -> V] /\ a \in V
  <2>1. ASSUME NEW x \in (1 .. MaxSize) \X V PROVE G(x[2]) \in V
    <3>1. x[2] \in V
      OBVIOUS
    <3> HIDE DEF Vals, X
    <3> QED BY <1>2, <3>1
  <2>2. a \in V
    <3>1. <<>> \in Vals
      OBVIOUS
    <3> HIDE DEF Vals
    <3> QED BY <3>1
  <2> HIDE DEF G, V, a
  <2> QED BY <2>1, <2>2
<1>4. PICK W : Recurs(W, V, a, MaxSize, g)
  <2> HIDE DEF V, g, a
  <2> QED BY <1>0, <1>3, RecursionExists
<1>5. W = [m \in 0 .. MaxSize |-> [le \in InUse |-> [p \in 0 .. MaxSize |-> Up(W, m, le, p)]]]
  <2>1. W = [m \in 0 .. MaxSize |-> W[m]]
    BY <1>4 DEF Recurs
  <2>2. ASSUME NEW m \in 0 .. MaxSize
        PROVE  W[m] = [le \in InUse |-> [p \in 0 .. MaxSize |-> Up(W, m, le, p)]]
    <3>1. CASE m = 0
      BY <1>4, <3>1 DEF Recurs
    <3>2. CASE m # 0
      <4>1. m \in 1 .. MaxSize /\ m - 1 \in 0 .. MaxSize
        BY <1>0, <3>2
      <4>2. W[m] = g[<<m, W[m - 1]>>] /\ W[m - 1] \in V
        <5> HIDE DEF V, g, a
        <5> QED BY <1>4, <4>1 DEF Recurs
      <4>3. <<m, W[m - 1]>> \in (1 .. MaxSize) \X V
        <5> HIDE DEF V
        <5> QED BY <4>1, <4>2
      <4>4. g[<<m, W[m - 1]>>] = [le \in InUse |-> [p \in 0 .. MaxSize |->
              <<X(le, p)>> \o
                IF p + 1 < blk[le].nused THEN W[m - 1][le][p + 1]
                ELSE IF NextUsed[le] = Null THEN <<>> ELSE W[m - 1][NextUsed[le]][0]]]
        <5> HIDE DEF V, X
        <5> QED BY <4>3
      <4> HIDE DEF g, X
      <4> QED BY <3>2, <4>2, <4>4
    <3> QED BY <3>1, <3>2
  <2> HIDE DEF Up
  <2> QED BY <2>1, <2>2
<1>6. F = [m \in 0 .. MaxSize |-> [le \in InUse |-> [p \in 0 .. MaxSize |-> Up(F, m, le, p)]]]
  <2> HIDE DEF Up
  <2> QED BY <1>5
<1>7. \A m \in 0 .. MaxSize, le \in InUse, p \in 0 .. MaxSize : F[m][le][p] = Up(F, m, le, p)
  <2> SUFFICES ASSUME NEW m \in 0 .. MaxSize, NEW le \in InUse, NEW p \in 0 .. MaxSize
               PROVE  F[m][le][p] = Up(F, m, le, p)
    BY Zenon
  <2> HIDE DEF Up, F
  <2>1. F[m] = [e \in InUse |-> [s \in 0 .. MaxSize |-> Up(F, m, e, s)]]
    BY <1>6
  <2>2. F[m][le] = [s \in 0 .. MaxSize |-> Up(F, m, le, s)]
    BY <2>1
  <2> QED BY <2>2, Zenon
<1>8. Slots = F
  BY DEF Slots, F
<1> HIDE DEF F, V, g, a, Vals
<1> DEFINE Right(m, le, p, o) == F[m][le][p] = [j \in 1 .. m |-> q[o + j]]
           S == {m \in Nat : \A le \in InUse : \A p, o \in 0 .. MaxSize :
                   Stands(blk, off, o, le, p) /\ o + m <= Len(q) => Right(m, le, p, o)}
<1>9. 0 \in S
  <2> SUFFICES ASSUME NEW le \in InUse, NEW p \in 0 .. MaxSize, NEW o \in 0 .. MaxSize
               PROVE  Right(0, le, p, o)
    OBVIOUS
  <2>1. F[0][le][p] = <<>>
    <3>1. F[0][le][p] = Up(F, 0, le, p)
      <4> HIDE DEF Up
      <4> QED BY <1>0, <1>7
    <3> QED BY <3>1
  <2> QED BY <2>1
<1>10. ASSUME NEW m \in Nat, m \in S PROVE m + 1 \in S
  <2>0. m + 1 \in Nat
    OBVIOUS
  <2> HIDE DEF Right
  <2> SUFFICES ASSUME NEW le \in InUse, NEW p \in 0 .. MaxSize, NEW o \in 0 .. MaxSize,
                      Stands(blk, off, o, le, p), o + (m + 1) <= Len(q)
               PROVE  Right(m + 1, le, p, o)
    BY <2>0, Zenon
  <2> USE DEF Right
  <2>1. /\ le \in Used(blk) /\ p \in Nat /\ p < blk[le].nused /\ off[le] + p = o
        /\ blk[le].nused \in Nat /\ off[le] \in Nat /\ blk[le].nused <= MaxSize
    BY <1>1 DEF Stands
  <2>2. m + 1 \in 0 .. MaxSize /\ m + 1 - 1 = m /\ m + 1 # 0
    BY <1>0
  <2>3. X(le, p) = q[o + 1]
    BY StandsFilled DEF LaidOut
  <2> DEFINE t == IF p + 1 < blk[le].nused THEN F[m][le][p + 1]
                  ELSE IF NextUsed[le] = Null THEN <<>> ELSE F[m][NextUsed[le]][0]
  <2>4. F[m + 1][le][p] = <<X(le, p)>> \o t
    <3> HIDE DEF X
    <3>1. F[m + 1][le][p] = Up(F, m + 1, le, p)
      BY <1>7, <2>2
    <3> DEFINE t1 == IF p + 1 < blk[le].nused THEN F[m + 1 - 1][le][p + 1]
                     ELSE IF NextUsed[le] = Null THEN <<>> ELSE F[m + 1 - 1][NextUsed[le]][0]
    <3>2. Up(F, m + 1, le, p) = <<X(le, p)>> \o t1
      <4>1. m + 1 # 0
        BY <2>2
      <4>2. Up(F, m + 1, le, p) = IF m + 1 = 0 THEN <<>> ELSE <<X(le, p)>> \o t1
        OBVIOUS
      <4> HIDE DEF Up, X, t1, t
      <4> QED BY <4>1, <4>2
    <3>3. t1 = t
      BY <2>2
    <3> HIDE DEF t, t1, Up
    <3> QED BY <3>1, <3>2, <3>3
  <2>s. ASSUME NEW e \in InUse, NEW s \in 0 .. MaxSize, NEW o2 \in 0 .. MaxSize,
               Stands(blk, off, o2, e, s), o2 + m <= Len(q)
        PROVE  F[m][e][s] = [j \in 1 .. m |-> q[o2 + j]]
    BY <1>10, <2>s
  <2>5. t = [j \in 1 .. m |-> q[o + 1 + j]]
    <3>1. CASE p + 1 < blk[le].nused
      <4>1. p + 1 \in 0 .. MaxSize /\ o + 1 \in 0 .. MaxSize /\ o + 1 + m <= Len(q)
            /\ Stands(blk, off, o + 1, le, p + 1)
        BY <1>0, <2>1, <3>1 DEF Stands
      <4>2. F[m][le][p + 1] = [j \in 1 .. m |-> q[o + 1 + j]]
        BY <2>s, <4>1
      <4> QED BY <3>1, <4>2
    <3>2. CASE ~(p + 1 < blk[le].nused) /\ NextUsed[le] = Null
      <4>1. off[le] + blk[le].nused = Len(q)
        BY <2>1, <3>2, NextUsedIs
      <4>2. m = 0
        BY <1>0, <2>1, <3>2, <4>1
      <4> QED BY <3>2, <4>2
    <3>3. CASE ~(p + 1 < blk[le].nused) /\ NextUsed[le] # Null
      <4>1. PICK e \in Used(blk) : NextUsed[le] = e /\ blk[e].nused > 0
                                   /\ off[e] = off[le] + blk[le].nused
        BY <2>1, <3>3, NextUsedIs
      <4>2. off[e] = o + 1 /\ off[e] \in Nat /\ blk[e].nused \in Nat
        BY <1>0, <1>1, <2>1, <3>3, <4>1
      <4>3. 0 \in 0 .. MaxSize /\ o + 1 \in 0 .. MaxSize /\ o + 1 + m <= Len(q)
            /\ Stands(blk, off, o + 1, e, 0) /\ e \in InUse
        BY <1>0, <2>1, <4>1, <4>2 DEF Stands
      <4>4. F[m][e][0] = [j \in 1 .. m |-> q[o + 1 + j]]
        <5>1. PICK o2 \in 0 .. MaxSize : o2 = o + 1
          BY <4>3
        <5>2. F[m][e][0] = [j \in 1 .. m |-> q[o2 + j]]
          BY <2>s, <4>3, <5>1
        <5> QED BY <5>1, <5>2
      <4> QED BY <3>3, <4>1, <4>4
    <3> QED BY <3>1, <3>2, <3>3
  <2> HIDE DEF t, X
  <2>6. <<q[o + 1]>> \o t = [j \in 1 .. m + 1 |-> q[o + j]]
    <3>1. \A j \in 1 .. m + 1 : o + j \in 1 .. Len(q)
      BY <1>0, <2>2
    <3>2. \A j \in 1 .. m + 1 : q[o + j] \in Val
      BY <1>0, <3>1
    <3>3. \A j \in 1 .. m : t[j] = q[o + 1 + j] /\ t[j] \in Val
      <4> SUFFICES ASSUME NEW j \in 1 .. m PROVE t[j] = q[o + 1 + j] /\ t[j] \in Val
        OBVIOUS
      <4>1. j + 1 \in 1 .. m + 1 /\ o + (j + 1) = o + 1 + j
        OBVIOUS
      <4> QED BY <2>5, <3>2, <4>1
    <3>4. t \in Seq(Val) /\ Len(t) = m
      <4>1. t = [j \in 1 .. m |-> t[j]]
        BY <2>5
      <4> QED BY <3>3, <4>1, SeqIs
    <3> DEFINE s == [j \in 1 .. m + 1 |-> q[o + j]]
    <3>5. s \in Seq(Val) /\ Len(s) = m + 1
      <4>1. s = [j \in 1 .. m + 1 |-> s[j]] /\ \A j \in 1 .. m + 1 : s[j] \in Val
        BY <3>2
      <4> HIDE DEF s
      <4> QED BY <4>1, SeqIs
    <3>6. q[o + 1] \in Val
      BY <3>2
    <3>7. <<q[o + 1]>> \o t \in Seq(Val) /\ Len(<<q[o + 1]>> \o t) = m + 1
      BY <3>4, <3>6
    <3>8. \A j \in 1 .. m + 1 : (<<q[o + 1]>> \o t)[j] = s[j]
      <4> SUFFICES ASSUME NEW j \in 1 .. m + 1 PROVE (<<q[o + 1]>> \o t)[j] = s[j]
        OBVIOUS
      <4>1. (<<q[o + 1]>> \o t)[j] = IF j = 1 THEN q[o + 1] ELSE t[j - 1]
        BY <3>4, <3>6
      <4>2. CASE j = 1
        BY <4>1, <4>2
      <4>3. CASE j # 1
        <5>1. j - 1 \in 1 .. m /\ o + 1 + (j - 1) = o + j
          BY <4>3
        <5> QED BY <3>3, <4>1, <4>3, <5>1
      <4> QED BY <4>2, <4>3
    <3> HIDE DEF s
    <3>9. <<q[o + 1]>> \o t = s
      BY <3>5, <3>7, <3>8, SeqSame
    <3> QED BY <3>9 DEF s
  <2> QED BY <2>3, <2>4, <2>6
<1>11. n \in S
  <2> HIDE DEF S
  <2> QED BY <1>9, <1>10, NatInductionSet
<1>12. b \in InUse /\ pos \in 0 .. MaxSize /\ k \in 0 .. MaxSize
  <2>1. b \in InUse /\ pos \in Nat /\ pos < blk[b].nused /\ off[b] + pos = k
    BY <1>0 DEF Stands
  <2>2. blk[b].nused \in Nat /\ off[b] \in Nat /\ off[b] + blk[b].nused <= Len(q)
    BY <1>0, <2>1, LaidOutBlock
  <2> QED BY <1>0, <2>1, <2>2
<1> QED BY <1>8, <1>11, <1>12

LEMMA Copied ==
  ASSUME NEW q, NEW r, NEW off, LaidOut(q, r, off), Inner(blk, listhead, listtail), size = Len(q),
         NEW i \in 1 .. size + 1, NEW n \in 0 .. size + 1 - i
  PROVE  /\ cpslots(i, n) = [j \in 1 .. n |-> q[i - 1 + j]]
         /\ cpslots(i, n) \in Seq(Val) /\ Len(cpslots(i, n)) = n
         /\ cpslots(i, n) = SubSeq(q, i, i + n - 1)
<1> DEFINE s == [j \in 1 .. n |-> q[i - 1 + j]]
<1>1. q \in Seq(Val) /\ Len(q) \in Nat
  BY DEF LaidOut, Layout, Offsets
<1>2. cpslots(i, n) = s
  <2>1. CASE i = size + 1
    <3>1. n = 0 /\ i \in Int /\ i \notin 1 .. size
      BY <1>1, <2>1
    <3>2. LelemForIndex(i) = Null
      BY <3>1, LelemFinds
    <3> QED BY <3>1, <3>2 DEF cpslots
  <2>2. CASE i # size + 1
    <3>1. i \in 1 .. size /\ i - 1 + n <= Len(q) /\ n \in Nat
      BY <1>1, <2>2
    <3>2. PICK b, p : LelemForIndex(i) = <<b, p>> /\ Stands(blk, off, i - 1, b, p)
      BY <3>1, LelemAt
    <3>3. Slots[n][b][p] = s
      BY <3>1, <3>2, SlotsAre
    <3>4. <<b, p>> \in Block \X Nat
      BY <3>2 DEF Stands, Used
    <3>5. <<b, p>> # Null
      BY <3>4, ListAssumption
    <3> HIDE DEF s
    <3> QED BY <3>2, <3>3, <3>5 DEF cpslots
  <2> QED BY <2>1, <2>2
<1>3. \A j \in 1 .. n : i - 1 + j \in 1 .. Len(q) /\ q[i - 1 + j] \in Val
  <2>1. \A j \in 1 .. n : i - 1 + j \in 1 .. Len(q)
    BY <1>1
  <2> QED BY <1>1, <2>1
<1>4. s \in Seq(Val) /\ Len(s) = n
  <2>1. s = [j \in 1 .. n |-> s[j]] /\ \A j \in 1 .. n : s[j] \in Val
    BY <1>3
  <2> HIDE DEF s
  <2> QED BY <2>1, SeqIs
<1>5. s = SubSeq(q, i, i + n - 1)
  <2> DEFINE t == SubSeq(q, i, i + n - 1)
  <2>1. i + n - 1 - i + 1 = n /\ i >= 1 /\ i + n - 1 <= Len(q)
    BY <1>1
  <2>2. t \in Seq(Val) /\ Len(t) = n
    BY <1>1, <2>1
  <2>3. \A j \in 1 .. n : t[j] = s[j]
    <3>1. ASSUME NEW j \in 1 .. n PROVE t[j] = q[i + j - 1] /\ i + j - 1 = i - 1 + j
      BY <1>1, <2>1
    <3> HIDE DEF t
    <3> QED BY <3>1
  <2> HIDE DEF s, t
  <2>4. s = t
    BY <1>4, <2>2, <2>3, SeqSame
  <2> QED BY <2>4 DEF t
<1> QED BY <1>2, <1>4, <1>5

----------------------------------------------------------------------------
(* One block *)

\* Block le with v before its elements.
Pushed(le, v, le2) ==
  le2 = [nslots |-> le.nslots, first |-> BeforeFirst(le), nused |-> le.nused + 1,
                lslots |-> [le.lslots EXCEPT ![BeforeFirst(le)] = v],
                listprev |-> le.listprev, listnext |-> le.listnext]

LEMMA PushBlock ==
  ASSUME NEW le \in Elem, le.nused < le.nslots, NEW v \in Val, NEW le2, Pushed(le, v, le2)
  PROVE  /\ le2 \in Elem /\ le2.lslots[Slot(le2, 0)] = v
         /\ \A p \in 0 .. le.nused - 1 : le2.lslots[Slot(le2, p + 1)] = le.lslots[Slot(le, p)]
<1> SUFFICES ASSUME NEW i,
                    i = BeforeFirst(le),
                    le2 = [nslots |-> le.nslots, first |-> i, nused |-> le.nused + 1,
                lslots |-> [le.lslots EXCEPT ![i] = v],
                listprev |-> le.listprev, listnext |-> le.listnext]
             PROVE  /\ le2 \in Elem /\ le2.lslots[Slot(le2, 0)] = v
           /\ \A p \in 0 .. le.nused - 1 : le2.lslots[Slot(le2, p + 1)] = le.lslots[Slot(le, p)]
  BY DEF Pushed
<1>1. /\ le.nslots \in 1 .. MaxSlots /\ MaxSlots \in Nat /\ le.first \in 0 .. le.nslots - 1
      /\ le.nused \in 0 .. le.nslots /\ le.lslots \in [0 .. le.nslots - 1 -> Val \cup {Null}]
      /\ le.listprev \in Block \cup {Hdr} /\ le.listnext \in Block \cup {Hdr}
  BY ElemFields
<1>2. i \in 0 .. le.nslots - 1 /\ i = Slot(le, le.nslots - 1)
  BY BeforeFirstSlot
<1>3. /\ [le.lslots EXCEPT ![i] = v] \in [0 .. le.nslots - 1 -> Val \cup {Null}]
      /\ le.nused + 1 \in 0 .. le.nslots
  <2>1. le.nused + 1 \in 0 .. le.nslots
    BY <1>1
  <2> QED BY <1>1, <2>1
<1>4. le2 \in Elem
  BY <1>1, <1>2, <1>3, ElemMade
<1>5. Slot(le2, 0) = i
  BY <1>1, <1>2 DEF Slot
<1>6. le2.lslots[i] = v
  BY <1>1, <1>2
<1>7. ASSUME NEW p \in 0 .. le.nused - 1
      PROVE  le2.lslots[Slot(le2, p + 1)] = le.lslots[Slot(le, p)]
  <2>1. p \in 0 .. le.nslots - 1 /\ le.nslots - 1 \in 0 .. le.nslots - 1 /\ p # le.nslots - 1
    BY <1>1
  <2>2. Slot(le, p) # i /\ Slot(le, p) \in 0 .. le.nslots - 1
    BY <1>2, <2>1, SlotsDiffer, SlotRing
  <2>3. Slot(le2, p + 1) = Slot(le, p)
    <3>1. i = IF le.first = 0 THEN le.nslots - 1 ELSE le.first - 1
      BY DEF BeforeFirst
    <3>2. Slot(le2, p + 1) = IF i + (p + 1) >= le.nslots THEN i + (p + 1) - le.nslots ELSE i + (p + 1)
      BY DEF Slot
    <3>3. Slot(le, p) = IF le.first + p >= le.nslots THEN le.first + p - le.nslots ELSE le.first + p
      BY DEF Slot
    <3>4. PICK n, f \in Nat : n = le.nslots /\ f = le.first
      BY <1>1
    <3>5. f < n /\ p \in Nat /\ p + 1 < n
      BY <1>1, <3>4
    <3>6. i = IF f = 0 THEN n - 1 ELSE f - 1
      BY <3>1, <3>4
    <3>7. (IF i + (p + 1) >= n THEN i + (p + 1) - n ELSE i + (p + 1))
            = (IF f + p >= n THEN f + p - n ELSE f + p)
      BY <3>5, <3>6
    <3> QED BY <3>2, <3>3, <3>4, <3>7
  <2>4. le2.lslots = [le.lslots EXCEPT ![i] = v]
    OBVIOUS
  <2> QED BY <1>1, <2>2, <2>3, <2>4
<1> QED BY <1>4, <1>5, <1>6, <1>7

\* Block le with v after its elements.
PutAfter(le, v, le2) ==
  le2 = [nslots |-> le.nslots, first |-> le.first, nused |-> le.nused + 1,
                lslots |-> [le.lslots EXCEPT ![Slot(le, le.nused)] = v],
                listprev |-> le.listprev, listnext |-> le.listnext]

LEMMA PutBlock ==
  ASSUME NEW le \in Elem, le.nused < le.nslots, NEW v \in Val, NEW le2, PutAfter(le, v, le2)
  PROVE  /\ le2 \in Elem /\ le2.lslots[Slot(le2, le.nused)] = v
         /\ \A p \in 0 .. le.nused - 1 : le2.lslots[Slot(le2, p)] = le.lslots[Slot(le, p)]
<1> SUFFICES ASSUME NEW i,
                    i = Slot(le, le.nused),
                    le2 = [nslots |-> le.nslots, first |-> le.first, nused |-> le.nused + 1,
                lslots |-> [le.lslots EXCEPT ![i] = v],
                listprev |-> le.listprev, listnext |-> le.listnext]
             PROVE  /\ le2 \in Elem /\ le2.lslots[Slot(le2, le.nused)] = v
           /\ \A p \in 0 .. le.nused - 1 : le2.lslots[Slot(le2, p)] = le.lslots[Slot(le, p)]
  BY DEF PutAfter
<1>1. /\ le.nslots \in 1 .. MaxSlots /\ MaxSlots \in Nat /\ le.first \in 0 .. le.nslots - 1
      /\ le.nused \in 0 .. le.nslots /\ le.lslots \in [0 .. le.nslots - 1 -> Val \cup {Null}]
      /\ le.listprev \in Block \cup {Hdr} /\ le.listnext \in Block \cup {Hdr}
  BY ElemFields
<1>2. le.nused \in 0 .. le.nslots - 1 /\ i \in 0 .. le.nslots - 1
  BY <1>1, SlotRing
<1>3. /\ [le.lslots EXCEPT ![i] = v] \in [0 .. le.nslots - 1 -> Val \cup {Null}]
      /\ le.nused + 1 \in 0 .. le.nslots
  <2>1. le.nused + 1 \in 0 .. le.nslots
    BY <1>1
  <2> QED BY <1>1, <2>1
<1>4. le2 \in Elem
  BY <1>1, <1>2, <1>3, ElemMade
<1>5. \A p : Slot(le2, p) = Slot(le, p)
  BY DEF Slot
<1>6. le2.lslots[i] = v
  BY <1>1, <1>2
<1>7. ASSUME NEW p \in 0 .. le.nused - 1 PROVE le2.lslots[Slot(le, p)] = le.lslots[Slot(le, p)]
  <2>1. p \in 0 .. le.nslots - 1 /\ p # le.nused
    BY <1>1
  <2>2. Slot(le, p) # i /\ Slot(le, p) \in 0 .. le.nslots - 1
    BY <1>2, <2>1, SlotsDiffer, SlotRing
  <2>3. le2.lslots = [le.lslots EXCEPT ![i] = v]
    OBVIOUS
  <2> QED BY <1>1, <2>2, <2>3
<1> QED BY <1>4, <1>5, <1>6, <1>7

\* Block le without its first element.
Got(le, le2) ==
  le2 = [nslots |-> le.nslots, first |-> IF le.first + 1 >= le.nslots THEN 0 ELSE le.first + 1,
                nused |-> le.nused - 1,
                lslots |-> [le.lslots EXCEPT ![le.first] = Null],
                listprev |-> le.listprev, listnext |-> le.listnext]

LEMMA GetBlock ==
  ASSUME NEW le \in Elem, le.nused > 0, NEW le2, Got(le, le2)
  PROVE  /\ le2 \in Elem /\ Slot(le, 0) = le.first
         /\ \A p \in 0 .. le.nused - 2 : le2.lslots[Slot(le2, p)] = le.lslots[Slot(le, p + 1)]
<1> SUFFICES ASSUME NEW i,
                    i = le.first,
                    le2 = [nslots |-> le.nslots, first |-> IF i + 1 >= le.nslots THEN 0 ELSE i + 1, nused |-> le.nused - 1,
                lslots |-> [le.lslots EXCEPT ![i] = Null],
                listprev |-> le.listprev, listnext |-> le.listnext]
             PROVE  /\ le2 \in Elem /\ Slot(le, 0) = le.first
           /\ \A p \in 0 .. le.nused - 2 : le2.lslots[Slot(le2, p)] = le.lslots[Slot(le, p + 1)]
  BY DEF Got
<1>1. /\ le.nslots \in 1 .. MaxSlots /\ MaxSlots \in Nat /\ le.first \in 0 .. le.nslots - 1
      /\ le.nused \in 0 .. le.nslots /\ le.lslots \in [0 .. le.nslots - 1 -> Val \cup {Null}]
      /\ le.listprev \in Block \cup {Hdr} /\ le.listnext \in Block \cup {Hdr}
  BY ElemFields
<1>2. i \in 0 .. le.nslots - 1 /\ i = Slot(le, 0) /\ 0 \in 0 .. le.nslots - 1
  BY <1>1 DEF Slot
<1>3. /\ [le.lslots EXCEPT ![i] = Null] \in [0 .. le.nslots - 1 -> Val \cup {Null}]
      /\ (IF i + 1 >= le.nslots THEN 0 ELSE i + 1) \in 0 .. le.nslots - 1
      /\ le.nused - 1 \in 0 .. le.nslots
  BY <1>1, <1>2
<1>4. le2 \in Elem
  BY <1>1, <1>3, ElemMade
<1>7. ASSUME NEW p \in 0 .. le.nused - 2
      PROVE  le2.lslots[Slot(le2, p)] = le.lslots[Slot(le, p + 1)]
  <2>1. p + 1 \in 0 .. le.nslots - 1 /\ p + 1 # 0
    BY <1>1
  <2>2. Slot(le, p + 1) # i /\ Slot(le, p + 1) \in 0 .. le.nslots - 1
    BY <1>2, <2>1, SlotsDiffer, SlotRing
  <2>3. Slot(le2, p) = Slot(le, p + 1)
    <3>1. le2.first = IF i + 1 >= le.nslots THEN 0 ELSE i + 1
      OBVIOUS
    <3>2. Slot(le2, p) = IF le2.first + p >= le.nslots THEN le2.first + p - le.nslots ELSE le2.first + p
      BY DEF Slot
    <3>3. Slot(le, p + 1) = IF i + (p + 1) >= le.nslots THEN i + (p + 1) - le.nslots ELSE i + (p + 1)
      BY DEF Slot
    <3>4. PICK n, f \in Nat : n = le.nslots /\ f = IF i + 1 >= n THEN 0 ELSE i + 1
      BY <1>1
    <3>5. i < n /\ i \in Nat /\ p \in Nat /\ p + 1 < n
      BY <1>1, <3>4
    <3>6. (IF f + p >= n THEN f + p - n ELSE f + p)
            = (IF i + (p + 1) >= n THEN i + (p + 1) - n ELSE i + (p + 1))
      BY <3>4, <3>5
    <3> QED BY <3>1, <3>2, <3>3, <3>4, <3>6
  <2>4. le2.lslots = [le.lslots EXCEPT ![i] = Null]
    OBVIOUS
  <2> QED BY <1>1, <2>2, <2>3, <2>4
<1> QED BY <1>2, <1>4, <1>7

\* Block le without its last element.
Pulled(le, le2) ==
  le2 = [nslots |-> le.nslots, first |-> le.first, nused |-> le.nused - 1,
                lslots |-> [le.lslots EXCEPT ![Slot(le, le.nused - 1)] = Null],
                listprev |-> le.listprev, listnext |-> le.listnext]

LEMMA PullBlock ==
  ASSUME NEW le \in Elem, le.nused > 0, NEW le2, Pulled(le, le2)
  PROVE  /\ le2 \in Elem
         /\ \A p \in 0 .. le.nused - 2 : le2.lslots[Slot(le2, p)] = le.lslots[Slot(le, p)]
<1> SUFFICES ASSUME NEW i,
                    i = Slot(le, le.nused - 1),
                    le2 = [nslots |-> le.nslots, first |-> le.first, nused |-> le.nused - 1,
                lslots |-> [le.lslots EXCEPT ![i] = Null],
                listprev |-> le.listprev, listnext |-> le.listnext]
             PROVE  /\ le2 \in Elem
           /\ \A p \in 0 .. le.nused - 2 : le2.lslots[Slot(le2, p)] = le.lslots[Slot(le, p)]
  BY DEF Pulled
<1>1. /\ le.nslots \in 1 .. MaxSlots /\ MaxSlots \in Nat /\ le.first \in 0 .. le.nslots - 1
      /\ le.nused \in 0 .. le.nslots /\ le.lslots \in [0 .. le.nslots - 1 -> Val \cup {Null}]
      /\ le.listprev \in Block \cup {Hdr} /\ le.listnext \in Block \cup {Hdr}
  BY ElemFields
<1>2. le.nused - 1 \in 0 .. le.nslots - 1 /\ i \in 0 .. le.nslots - 1
  BY <1>1, SlotRing
<1>3. /\ [le.lslots EXCEPT ![i] = Null] \in [0 .. le.nslots - 1 -> Val \cup {Null}]
      /\ le.nused - 1 \in 0 .. le.nslots
  BY <1>1, <1>2
<1>4. le2 \in Elem
  BY <1>1, <1>3, ElemMade
<1>5. \A p : Slot(le2, p) = Slot(le, p)
  BY DEF Slot
<1>7. ASSUME NEW p \in 0 .. le.nused - 2 PROVE le2.lslots[Slot(le, p)] = le.lslots[Slot(le, p)]
  <2>1. p \in 0 .. le.nslots - 1 /\ p # le.nused - 1
    BY <1>1
  <2>2. Slot(le, p) # i /\ Slot(le, p) \in 0 .. le.nslots - 1
    BY <1>2, <2>1, SlotsDiffer, SlotRing
  <2>3. le2.lslots = [le.lslots EXCEPT ![i] = Null]
    OBVIOUS
  <2> QED BY <1>1, <2>2, <2>3
<1> QED BY <1>4, <1>5, <1>7

\* The ring started one slot earlier.
LEMMA EarlierRing ==
  ASSUME NEW le \in Elem, NEW le2, le2.first = BeforeFirst(le), le2.nslots = le.nslots,
         NEW p \in 0 .. le.nslots - 2
  PROVE  Slot(le2, p + 1) = Slot(le, p)
<1>1. PICK n, f \in Nat : n = le.nslots /\ f = le.first /\ f < n
  BY ElemFields
<1>2. p \in Nat /\ p + 1 < n
  BY <1>1
<1>3. le2.first = IF f = 0 THEN n - 1 ELSE f - 1
  BY <1>1 DEF BeforeFirst
<1>4. PICK i \in Nat : i = le2.first
  BY <1>1, <1>3
<1>5. (IF i + (p + 1) >= n THEN i + (p + 1) - n ELSE i + (p + 1))
        = (IF f + p >= n THEN f + p - n ELSE f + p)
  BY <1>1, <1>2, <1>3, <1>4
<1> QED BY <1>1, <1>4, <1>5 DEF Slot

\* A block with v at notional index pos, before what was there.
Inserted(le, pos, v, le2) ==
  /\ le2 \in Elem /\ le2.nused = le.nused + 1
  /\ \A p \in 0 .. le.nused :
       le2.lslots[Slot(le2, p)] = IF p < pos THEN le.lslots[Slot(le, p)]
                                  ELSE IF p = pos THEN v ELSE le.lslots[Slot(le, p - 1)]

\* The elements before it moved one slot back, in a block with room ...
MovedBack(le, pos, v, le2) ==
  \E first, ls :
    /\ first = BeforeFirst(le)
    /\ ls = [k \in DOMAIN le.lslots |->
               LET p == IF k >= first THEN k - first ELSE k - first + le.nslots
               IN IF p < pos THEN le.lslots[Slot(le, p)]
                  ELSE IF p = pos THEN v ELSE le.lslots[k]]
    /\ le2 = [nslots |-> le.nslots, first |-> first, nused |-> le.nused + 1,
              lslots |-> ls, listprev |-> le.listprev, listnext |-> le.listnext]

LEMMA InsertBlock ==
  ASSUME NEW le \in Elem, le.nused < le.nslots, NEW v \in Val, NEW pos \in Nat, pos < le.nused,
         NEW le2, MovedBack(le, pos, v, le2)
  PROVE  Inserted(le, pos, v, le2)
<1> SUFFICES ASSUME
         NEW first, first = BeforeFirst(le),
         NEW ls, ls = [k \in DOMAIN le.lslots |->
                         LET p == IF k >= first THEN k - first ELSE k - first + le.nslots
                         IN IF p < pos THEN le.lslots[Slot(le, p)]
                            ELSE IF p = pos THEN v ELSE le.lslots[k]],
         le2 = [nslots |-> le.nslots, first |-> first, nused |-> le.nused + 1,
                lslots |-> ls, listprev |-> le.listprev, listnext |-> le.listnext]
             PROVE  Inserted(le, pos, v, le2)
  BY DEF MovedBack
<1>1. /\ le.nslots \in 1 .. MaxSlots /\ MaxSlots \in Nat /\ le.first \in 0 .. le.nslots - 1
      /\ le.nused \in 0 .. le.nslots /\ le.lslots \in [0 .. le.nslots - 1 -> Val \cup {Null}]
      /\ le.listprev \in Block \cup {Hdr} /\ le.listnext \in Block \cup {Hdr}
  BY ElemFields
<1>2. first \in 0 .. le.nslots - 1
  BY BeforeFirstSlot
<1> DEFINE P(k) == IF k >= first THEN k - first ELSE k - first + le.nslots
           At(k) == IF P(k) < pos THEN le.lslots[Slot(le, P(k))]
                    ELSE IF P(k) = pos THEN v ELSE le.lslots[k]
<1>3. ls = [k \in 0 .. le.nslots - 1 |-> At(k)]
  BY <1>1
<1>4. \A k \in 0 .. le.nslots - 1 : P(k) \in 0 .. le.nslots - 1
  BY <1>1, <1>2
<1>5. \A k \in 0 .. le.nslots - 1 : At(k) \in Val \cup {Null}
  <2> SUFFICES ASSUME NEW k \in 0 .. le.nslots - 1 PROVE At(k) \in Val \cup {Null}
    OBVIOUS
  <2>1. Slot(le, P(k)) \in 0 .. le.nslots - 1
    BY <1>4, SlotRing
  <2> HIDE DEF P
  <2> QED BY <1>1, <2>1
<1>6. ls \in [0 .. le.nslots - 1 -> Val \cup {Null}]
  <2> HIDE DEF At
  <2> QED BY <1>3, <1>5
<1>7. le2 \in Elem
  <2>1. le.nused + 1 \in 0 .. le.nslots
    BY <1>1
  <2> QED BY <1>1, <1>2, <1>6, <2>1, ElemMade
<1>8. ASSUME NEW p \in 0 .. le.nused
      PROVE  le2.lslots[Slot(le2, p)] = IF p < pos THEN le.lslots[Slot(le, p)]
                                  ELSE IF p = pos THEN v ELSE le.lslots[Slot(le, p - 1)]
  <2>1. p \in 0 .. le.nslots - 1
    BY <1>1
  <2>2. le2.nslots = le.nslots /\ le2.first = first /\ le2.lslots = ls
    OBVIOUS
  <2> DEFINE k == Slot(le2, p)
  <2>3. k \in 0 .. le.nslots - 1 /\ p = P(k)
    BY <1>7, <2>1, <2>2, SlotRing
  <2>4. ~(p < pos) /\ p # pos => k = Slot(le, p - 1)
    <3> SUFFICES ASSUME ~(p < pos), p # pos PROVE k = Slot(le, p - 1)
      OBVIOUS
    <3>1. p - 1 \in 0 .. le.nslots - 2 /\ p - 1 + 1 = p
      BY <1>1
    <3> QED BY <2>2, <3>1, EarlierRing
  <2> HIDE DEF k, P
  <2>5. ls[k] = At(k)
    <3> HIDE DEF At
    <3> QED BY <1>3, <2>3, Zenon
  <2>6. le2.lslots[Slot(le2, p)] = At(k)
    <3> HIDE DEF At
    <3> QED BY <2>2, <2>5, Zenon DEF k
  <2>7. At(k) = IF p < pos THEN le.lslots[Slot(le, p)]
                ELSE IF p = pos THEN v ELSE le.lslots[k]
    BY <2>3
  <2> HIDE DEF At
  <2> QED BY <2>4, <2>6, <2>7, Zenon
<1> QED BY <1>7, <1>8 DEF Inserted

\* ... or a new block of n slots.
Regrown(le, n, pos, v, le2) ==
  \E ls :
    /\ ls = [k \in 0 .. n - 1 |->
               IF k > le.nused THEN Null ELSE IF k = pos THEN v
               ELSE le.lslots[Slot(le, IF k < pos THEN k ELSE k - 1)]]
    /\ le2 = [nslots |-> n, first |-> 0, nused |-> le.nused + 1,
              lslots |-> ls, listprev |-> le.listprev, listnext |-> le.listnext]

LEMMA InsertNewBlock ==
  ASSUME NEW le \in Elem, NEW v \in Val, NEW pos \in Nat, pos < le.nused,
         NEW n \in 1 .. MaxSlots, le.nused < n, NEW le2, Regrown(le, n, pos, v, le2)
  PROVE  Inserted(le, pos, v, le2)
<1> SUFFICES ASSUME
         NEW ls, ls = [k \in 0 .. n - 1 |->
                         IF k > le.nused THEN Null ELSE IF k = pos THEN v
                         ELSE le.lslots[Slot(le, IF k < pos THEN k ELSE k - 1)]],
         le2 = [nslots |-> n, first |-> 0, nused |-> le.nused + 1,
                lslots |-> ls, listprev |-> le.listprev, listnext |-> le.listnext]
             PROVE  Inserted(le, pos, v, le2)
  BY DEF Regrown
<1>1. /\ le.nslots \in 1 .. MaxSlots /\ MaxSlots \in Nat /\ le.first \in 0 .. le.nslots - 1
      /\ le.nused \in 0 .. le.nslots /\ le.lslots \in [0 .. le.nslots - 1 -> Val \cup {Null}]
      /\ le.listprev \in Block \cup {Hdr} /\ le.listnext \in Block \cup {Hdr}
  BY ElemFields
<1>2. ASSUME NEW k \in 0 .. n - 1
      PROVE  ls[k] \in Val \cup {Null} /\ ls[k] = IF k > le.nused THEN Null ELSE IF k = pos THEN v
                         ELSE le.lslots[Slot(le, IF k < pos THEN k ELSE k - 1)]
  <2> DEFINE p == IF k < pos THEN k ELSE k - 1
  <2>1. ls[k] = IF k > le.nused THEN Null ELSE IF k = pos THEN v ELSE le.lslots[Slot(le, p)]
    OBVIOUS
  <2>2. CASE k > le.nused \/ k = pos
    BY <2>1, <2>2
  <2>3. CASE ~(k > le.nused \/ k = pos)
    <3>1. p \in 0 .. le.nslots - 1
      BY <1>1, <2>3
    <3> HIDE DEF p
    <3>2. Slot(le, p) \in 0 .. le.nslots - 1
      BY <3>1, SlotRing
    <3>3. le.lslots[Slot(le, p)] \in Val \cup {Null}
      BY <1>1, <3>2
    <3> QED BY <2>1, <2>3, <3>3 DEF p
  <2> QED BY <2>2, <2>3
<1>3. ls \in [0 .. n - 1 -> Val \cup {Null}]
  BY <1>2
<1>4. le2 \in Elem
  <2>1. le.nused + 1 \in 0 .. n /\ 0 \in 0 .. n - 1
    BY <1>1
  <2> QED BY <1>1, <1>3, <2>1, ElemMade
<1>5. ASSUME NEW p \in 0 .. le.nused
      PROVE  le2.lslots[Slot(le2, p)] = IF p < pos THEN le.lslots[Slot(le, p)]
                                  ELSE IF p = pos THEN v ELSE le.lslots[Slot(le, p - 1)]
  <2>1. p \in 0 .. n - 1 /\ ~(p > le.nused)
    BY <1>1
  <2>2. Slot(le2, p) = p /\ le2.lslots = ls
    BY <2>1 DEF Slot
  <2>3. ls[p] = IF p = pos THEN v ELSE le.lslots[Slot(le, IF p < pos THEN p ELSE p - 1)]
    BY <1>2, <2>1
  <2>4. CASE p < pos
    <3>1. p # pos /\ (IF p < pos THEN p ELSE p - 1) = p
      BY <1>1, <2>1, <2>4
    <3> QED BY <2>2, <2>3, <2>4, <3>1
  <2>5. CASE ~(p < pos)
    BY <1>1, <2>1, <2>2, <2>3, <2>5, Zenon
  <2> QED BY <2>4, <2>5
<1> QED BY <1>4, <1>5 DEF Inserted

\* The elements after notional index pos moved one slot down.
MovedDown(le, pos, le2) ==
  \E ls :
    /\ ls = [k \in DOMAIN le.lslots |->
               LET p == IF k >= le.first THEN k - le.first ELSE k - le.first + le.nslots
               IN IF p < pos \/ p >= le.nused THEN le.lslots[k]
                  ELSE IF p = le.nused - 1 THEN Null ELSE le.lslots[Slot(le, p + 1)]]
    /\ le2 = [nslots |-> le.nslots, first |-> le.first, nused |-> le.nused - 1,
              lslots |-> ls, listprev |-> le.listprev, listnext |-> le.listnext]

LEMMA DelBlock ==
  ASSUME NEW le \in Elem, NEW pos \in Nat, pos < le.nused, NEW le2, MovedDown(le, pos, le2)
  PROVE  /\ le2 \in Elem
         /\ \A p \in 0 .. le.nused - 2 :
              le2.lslots[Slot(le2, p)] = IF p < pos THEN le.lslots[Slot(le, p)]
                                         ELSE le.lslots[Slot(le, p + 1)]
<1> SUFFICES ASSUME
         NEW ls, ls = [k \in DOMAIN le.lslots |->
           LET p == IF k >= le.first THEN k - le.first ELSE k - le.first + le.nslots
           IN IF p < pos \/ p >= le.nused THEN le.lslots[k]
              ELSE IF p = le.nused - 1 THEN Null ELSE le.lslots[Slot(le, p + 1)]],
         le2 = [nslots |-> le.nslots, first |-> le.first, nused |-> le.nused - 1,
                lslots |-> ls, listprev |-> le.listprev, listnext |-> le.listnext]
             PROVE  /\ le2 \in Elem
                    /\ \A p \in 0 .. le.nused - 2 :
                         le2.lslots[Slot(le2, p)] = IF p < pos THEN le.lslots[Slot(le, p)]
                                                    ELSE le.lslots[Slot(le, p + 1)]
  BY Zenon DEF MovedDown
<1>1. /\ le.nslots \in 1 .. MaxSlots /\ MaxSlots \in Nat /\ le.first \in 0 .. le.nslots - 1
      /\ le.nused \in 0 .. le.nslots /\ le.lslots \in [0 .. le.nslots - 1 -> Val \cup {Null}]
      /\ le.listprev \in Block \cup {Hdr} /\ le.listnext \in Block \cup {Hdr}
  BY ElemFields
<1> DEFINE P(k) == IF k >= le.first THEN k - le.first ELSE k - le.first + le.nslots
           At(k) == IF P(k) < pos \/ P(k) >= le.nused THEN le.lslots[k]
                    ELSE IF P(k) = le.nused - 1 THEN Null ELSE le.lslots[Slot(le, P(k) + 1)]
<1>2. ls = [k \in 0 .. le.nslots - 1 |-> At(k)]
  BY <1>1
<1>3. \A k \in 0 .. le.nslots - 1 : P(k) \in 0 .. le.nslots - 1
  BY <1>1
<1>4. \A k \in 0 .. le.nslots - 1 : At(k) \in Val \cup {Null}
  <2> SUFFICES ASSUME NEW k \in 0 .. le.nslots - 1 PROVE At(k) \in Val \cup {Null}
    OBVIOUS
  <2> HIDE DEF P
  <2>1. CASE P(k) < pos \/ P(k) >= le.nused \/ P(k) = le.nused - 1
    BY <1>1, <2>1
  <2>2. CASE ~(P(k) < pos \/ P(k) >= le.nused \/ P(k) = le.nused - 1)
    <3>3. PICK m, n, u \in Nat : m = P(k) /\ n = le.nslots /\ u = le.nused
      BY <1>1, <1>3
    <3>4. m < u /\ m # u - 1 /\ u <= n
      BY <1>1, <2>2, <3>3
    <3>1. P(k) + 1 \in 0 .. le.nslots - 1
      BY <3>3, <3>4
    <3>2. Slot(le, P(k) + 1) \in 0 .. le.nslots - 1
      BY <3>1, SlotRing
    <3> QED BY <1>1, <2>2, <3>2
  <2> QED BY <2>1, <2>2
<1>5. ls \in [0 .. le.nslots - 1 -> Val \cup {Null}]
  <2> HIDE DEF At
  <2> QED BY <1>2, <1>4
<1>6. le2 \in Elem
  <2>1. le.nused - 1 \in 0 .. le.nslots
    BY <1>1
  <2> QED BY <1>1, <1>5, <2>1, ElemMade
<1>7. ASSUME NEW p \in 0 .. le.nused - 2
      PROVE  le2.lslots[Slot(le2, p)] = IF p < pos THEN le.lslots[Slot(le, p)]
                                         ELSE le.lslots[Slot(le, p + 1)]
  <2>1. p \in 0 .. le.nslots - 1 /\ p < le.nused - 1
    BY <1>1
  <2>2. Slot(le2, p) = Slot(le, p) /\ le2.lslots = ls
    BY DEF Slot
  <2> DEFINE k == Slot(le, p)
  <2>3. k \in 0 .. le.nslots - 1 /\ p = P(k)
    BY <2>1, SlotRing
  <2> HIDE DEF k, P
  <2>4. ls[k] = At(k)
    <3> HIDE DEF At
    <3> QED BY <1>2, <2>3
  <2>5. At(k) = IF p < pos THEN le.lslots[k] ELSE le.lslots[Slot(le, p + 1)]
    <3>1. ~(p >= le.nused) /\ p # le.nused - 1
      BY <1>1, <2>1
    <3> QED BY <2>3, <3>1
  <2> HIDE DEF At
  <2> QED BY <2>2, <2>4, <2>5, Zenon DEF k
<1> QED BY <1>6, <1>7, Zenon

\* Block le with v as the element of notional index pos.
Assigned(le, pos, v, le2) ==
  le2 = [nslots |-> le.nslots, first |-> le.first, nused |-> le.nused,
                lslots |-> [le.lslots EXCEPT ![Slot(le, pos)] = v],
                listprev |-> le.listprev, listnext |-> le.listnext]

LEMMA AssignBlock ==
  ASSUME NEW le \in Elem, NEW v \in Val, NEW pos \in Nat, pos < le.nused,
         NEW le2, Assigned(le, pos, v, le2)
  PROVE  /\ le2 \in Elem
         /\ \A p \in 0 .. le.nused - 1 :
              le2.lslots[Slot(le2, p)] = IF p = pos THEN v ELSE le.lslots[Slot(le, p)]
<1> SUFFICES ASSUME le2 = [nslots |-> le.nslots, first |-> le.first, nused |-> le.nused,
                lslots |-> [le.lslots EXCEPT ![Slot(le, pos)] = v],
                listprev |-> le.listprev, listnext |-> le.listnext]
             PROVE  /\ le2 \in Elem
           /\ \A p \in 0 .. le.nused - 1 :
                le2.lslots[Slot(le2, p)] = IF p = pos THEN v ELSE le.lslots[Slot(le, p)]
  BY DEF Assigned
<1>1. /\ le.nslots \in 1 .. MaxSlots /\ MaxSlots \in Nat /\ le.first \in 0 .. le.nslots - 1
      /\ le.nused \in 0 .. le.nslots /\ le.lslots \in [0 .. le.nslots - 1 -> Val \cup {Null}]
      /\ le.listprev \in Block \cup {Hdr} /\ le.listnext \in Block \cup {Hdr}
  BY ElemFields
<1>2. pos \in 0 .. le.nslots - 1
  BY <1>1
<1>3. [le.lslots EXCEPT ![Slot(le, pos)] = v] \in [0 .. le.nslots - 1 -> Val \cup {Null}]
  BY <1>1
<1>4. le2 \in Elem
  BY <1>1, <1>3, ElemMade
<1>5. ASSUME NEW p \in 0 .. le.nused - 1
      PROVE  le2.lslots[Slot(le2, p)] = IF p = pos THEN v ELSE le.lslots[Slot(le, p)]
  <2>1. p \in 0 .. le.nslots - 1
    BY <1>1
  <2>2. Slot(le2, p) = Slot(le, p) /\ le2.lslots = [le.lslots EXCEPT ![Slot(le, pos)] = v]
    BY DEF Slot
  <2>3. Slot(le, p) \in 0 .. le.nslots - 1 /\ (Slot(le, p) = Slot(le, pos) => p = pos)
    BY <1>2, <2>1, SlotRing, SlotsDiffer
  <2> QED BY <1>1, <2>2, <2>3
<1> QED BY <1>4, <1>5

\* A block emptied, the only one that is left.
Cleared(le, le2) ==
  \E ls :
    /\ ls = [k \in DOMAIN le.lslots |->
               IF \E p \in 0 .. le.nused - 1 : Slot(le, p) = k THEN Null ELSE le.lslots[k]]
    /\ le2 = [le EXCEPT !.lslots = ls, !.nused = 0, !.listnext = Hdr]

LEMMA ClearBlock ==
  ASSUME NEW le \in Elem, le.listprev = Hdr, NEW le2, Cleared(le, le2)
  PROVE  le2 \in Elem /\ le2.nused = 0 /\ le2.listprev = Hdr /\ le2.listnext = Hdr
<1>1. /\ le.nslots \in 1 .. MaxSlots /\ MaxSlots \in Nat /\ le.first \in 0 .. le.nslots - 1
      /\ le.nused \in 0 .. le.nslots /\ le.lslots \in [0 .. le.nslots - 1 -> Val \cup {Null}]
      /\ le.listprev \in Block \cup {Hdr} /\ le.listnext \in Block \cup {Hdr}
  BY ElemFields
<1>2. PICK ls :
        /\ ls = [k \in DOMAIN le.lslots |->
                   IF \E p \in 0 .. le.nused - 1 : Slot(le, p) = k THEN Null ELSE le.lslots[k]]
        /\ le2 = [le EXCEPT !.lslots = ls, !.nused = 0, !.listnext = Hdr]
  BY Zenon DEF Cleared
<1>5. ls \in [0 .. le.nslots - 1 -> Val \cup {Null}]
  BY <1>1, <1>2
<1>3. le2 = [nslots |-> le.nslots, first |-> le.first, nused |-> 0,
             lslots |-> ls, listprev |-> le.listprev, listnext |-> Hdr]
  <2>1. PICK n, f, u, ls0, p, x : le = [nslots |-> n, first |-> f, nused |-> u,
                                        lslots |-> ls0, listprev |-> p, listnext |-> x]
    BY ElemFields
  <2>2. [le EXCEPT !.lslots = ls, !.nused = 0, !.listnext = Hdr]
          = [nslots |-> n, first |-> f, nused |-> 0,
             lslots |-> ls, listprev |-> p, listnext |-> Hdr]
    <3> DEFINE e1 == [le EXCEPT !.lslots = ls]
               e2 == [e1 EXCEPT !.nused = 0]
               e3 == [e2 EXCEPT !.listnext = Hdr]
    <3>1. [le EXCEPT !.lslots = ls, !.nused = 0, !.listnext = Hdr] = e3
      OBVIOUS
    <3>2. e1 = [nslots |-> n, first |-> f, nused |-> u, lslots |-> ls, listprev |-> p, listnext |-> x]
      BY <2>1
    <3> HIDE DEF e1
    <3>3. e2 = [nslots |-> n, first |-> f, nused |-> 0, lslots |-> ls, listprev |-> p, listnext |-> x]
      BY <3>2
    <3> HIDE DEF e2
    <3>4. e3 = [nslots |-> n, first |-> f, nused |-> 0, lslots |-> ls, listprev |-> p, listnext |-> Hdr]
      BY <3>3
    <3> HIDE DEF e3
    <3> QED BY <3>1, <3>4
  <2>3. le.nslots = n /\ le.first = f /\ le.listprev = p
    BY <2>1
  <2> QED BY <1>2, <2>2, <2>3
<1>4. le2 \in Elem
  <2>1. PICK nused \in 0 .. le.nslots, next \in Block \cup {Hdr} : nused = 0 /\ next = Hdr
    BY <1>1
  <2>2. [nslots |-> le.nslots, first |-> le.first, nused |-> nused,
         lslots |-> ls, listprev |-> le.listprev, listnext |-> next] \in Elem
    BY <1>1, <1>5, ElemMade
  <2> QED BY <1>3, <2>1, <2>2
<1> QED BY <1>3, <1>4

----------------------------------------------------------------------------
(* One block of the list, and the sequence *)

\* Block le holds what q has after its first a elements.
Holds(q, a, le) ==
  /\ q \in Seq(Val) /\ Len(q) \in 0 .. MaxSize /\ MaxSize \in Nat
  /\ le \in Elem /\ le.nused \in Nat /\ a \in Nat /\ a + le.nused <= Len(q)
  /\ \A p \in 0 .. le.nused - 1 : q[a + p + 1] = le.lslots[Slot(le, p)]

LEMMA Joined ==
  ASSUME NEW x \in Seq(Val), NEW y \in Seq(Val), NEW m \in Nat, NEW n \in Nat, m = Len(x), n = Len(y)
  PROVE  /\ x \o y \in Seq(Val) /\ Len(x \o y) = m + n
         /\ \A k \in 1 .. m + n : (x \o y)[k] = IF k <= m THEN x[k] ELSE y[k - m]
OBVIOUS

LEMMA BlockHolds ==
  ASSUME NEW bs, NEW hd, NEW tl, NEW q, NEW r, NEW off, Layout(bs, hd, tl, q, r, off),
         NEW b \in Used(bs)
  PROVE  Holds(q, off[b], bs[b])
<1>1. Linked(bs, hd, tl, r) /\ Offsets(bs, hd, tl, off, q)
  BY DEF Layout
<1>2. /\ off[b] \in Nat /\ bs[b].nused \in Nat /\ Len(q) \in Nat
      /\ off[b] + bs[b].nused <= Len(q) /\ bs[b] \in Elem
  BY <1>1, Bounds, LinkedBlock
<1>3. q \in Seq(Val) /\ Len(q) \in 0 .. MaxSize /\ MaxSize \in Nat
  BY <1>1, <1>2, ListAssumption DEF Offsets
<1> QED BY <1>2, <1>3 DEF Holds, Layout, Filled

LEMMA SplicePush ==
  ASSUME NEW q, NEW le, Holds(q, 0, le), Len(q) < MaxSize, NEW v \in Val,
         NEW le2, le2.nused = le.nused + 1, le2.lslots[Slot(le2, 0)] = v,
         \A p \in 0 .. le.nused - 1 : le2.lslots[Slot(le2, p + 1)] = le.lslots[Slot(le, p)]
  PROVE  Spliced(q, 0, le, le2, <<v>> \o q)
<1> DEFINE s == <<v>> \o q
<1>1. /\ q \in Seq(Val) /\ Len(q) \in Nat /\ MaxSize \in Nat /\ le.nused \in Nat
      /\ 0 + le.nused <= Len(q)
  BY DEF Holds
<1>2. s \in Seq(Val) /\ Len(s) = Len(q) + 1 /\ s[1] = v /\ \A k \in 1 .. Len(q) : s[k + 1] = q[k]
  BY <1>1
<1> HIDE DEF s
<1>3. PICK u, l \in Nat : u = le.nused /\ l = Len(q) /\ le2.nused = u + 1 /\ u <= l
  BY <1>1
<1>4. \A k \in 0 + u + 1 .. l : s[k + (u + 1 - u)] = q[k]
  <2> SUFFICES ASSUME NEW k \in 0 + u + 1 .. l PROVE s[k + (u + 1 - u)] = q[k]
    OBVIOUS
  <2>1. k \in 1 .. Len(q) /\ k + (u + 1 - u) = k + 1
    BY <1>3
  <2> QED BY <1>2, <2>1
<1>5. \A p \in 0 .. le2.nused - 1 : s[0 + p + 1] = le2.lslots[Slot(le2, p)]
  <2> SUFFICES ASSUME NEW p \in 0 .. u + 1 - 1 PROVE s[0 + p + 1] = le2.lslots[Slot(le2, p)]
    BY <1>3
  <2>1. CASE p = 0
    BY <1>2, <2>1
  <2>2. CASE p # 0
    <3>1. /\ p - 1 \in 0 .. le.nused - 1 /\ p - 1 + 1 = p /\ p \in 1 .. Len(q) /\ 0 + p + 1 = p + 1
          /\ 0 + (p - 1) + 1 = p
      BY <1>3, <2>2
    <3>2. q[0 + (p - 1) + 1] = le.lslots[Slot(le, p - 1)]
      BY <3>1 DEF Holds
    <3>3. le2.lslots[Slot(le2, p - 1 + 1)] = le.lslots[Slot(le, p - 1)]
      BY <3>1
    <3> QED BY <1>2, <3>1, <3>2, <3>3
  <2> QED BY <2>1, <2>2
<1>6. Len(s) = Len(q) + le2.nused - le.nused /\ Len(s) <= MaxSize
  BY <1>1, <1>2, <1>3
<1>7. \A k \in 1 .. 0 : s[k] = q[k]
  OBVIOUS
<1>8. \A k \in 0 + le.nused + 1 .. Len(q) : s[k + (le2.nused - le.nused)] = q[k]
  BY <1>3, <1>4
<1>9. Spliced(q, 0, le, le2, s)
  BY <1>2, <1>5, <1>6, <1>7, <1>8 DEF Spliced
<1> QED BY <1>9 DEF s

LEMMA SplicePut ==
  ASSUME NEW q, NEW a, NEW le, Holds(q, a, le), a + le.nused = Len(q), Len(q) < MaxSize, NEW v \in Val,
         NEW le2, le2.nused = le.nused + 1, le2.lslots[Slot(le2, le.nused)] = v,
         \A p \in 0 .. le.nused - 1 : le2.lslots[Slot(le2, p)] = le.lslots[Slot(le, p)]
  PROVE  Spliced(q, a, le, le2, Append(q, v))
<1> DEFINE s == Append(q, v)
<1>1. /\ q \in Seq(Val) /\ Len(q) \in Nat /\ MaxSize \in Nat /\ le.nused \in Nat /\ a \in Nat
  BY DEF Holds
<1>2. /\ s \in Seq(Val) /\ Len(s) = Len(q) + 1 /\ s[Len(q) + 1] = v
      /\ \A k \in 1 .. Len(q) : s[k] = q[k]
  BY <1>1
<1> HIDE DEF s
<1>3. PICK u, l \in Nat : u = le.nused /\ l = Len(q) /\ le2.nused = u + 1 /\ a + u = l
  BY <1>1
<1>4. \A k \in a + le.nused + 1 .. Len(q) : s[k + (le2.nused - le.nused)] = q[k]
  <2>1. a + u + 1 .. l = {}
    BY <1>1, <1>3
  <2> QED BY <1>3, <2>1
<1>5. \A p \in 0 .. le2.nused - 1 : s[a + p + 1] = le2.lslots[Slot(le2, p)]
  <2> SUFFICES ASSUME NEW p \in 0 .. u + 1 - 1 PROVE s[a + p + 1] = le2.lslots[Slot(le2, p)]
    BY <1>3
  <2>1. CASE p = u
    <3>1. a + p + 1 = Len(q) + 1
      BY <1>1, <1>3, <2>1
    <3> QED BY <1>2, <1>3, <2>1, <3>1
  <2>2. CASE p # u
    <3>1. p \in 0 .. le.nused - 1 /\ a + p + 1 \in 1 .. Len(q)
      BY <1>1, <1>3, <2>2
    <3>2. q[a + p + 1] = le.lslots[Slot(le, p)]
      BY <3>1 DEF Holds
    <3> QED BY <1>2, <3>1, <3>2
  <2> QED BY <2>1, <2>2
<1>6. Len(s) = Len(q) + le2.nused - le.nused /\ Len(s) <= MaxSize
  BY <1>1, <1>2, <1>3
<1>7. \A k \in 1 .. a : s[k] = q[k]
  <2>1. \A k \in 1 .. a : k \in 1 .. Len(q)
    BY <1>1, <1>3
  <2> QED BY <1>2, <2>1
<1>9. Spliced(q, a, le, le2, s)
  BY <1>2, <1>4, <1>5, <1>6, <1>7 DEF Spliced
<1> QED BY <1>9 DEF s

LEMMA SpliceGet ==
  ASSUME NEW q, NEW le, Holds(q, 0, le), le.nused > 0,
         NEW le2, le2.nused = le.nused - 1,
         \A p \in 0 .. le.nused - 2 : le2.lslots[Slot(le2, p)] = le.lslots[Slot(le, p + 1)]
  PROVE  Spliced(q, 0, le, le2, Tail(q))
<1> DEFINE s == Tail(q)
<1>1. /\ q \in Seq(Val) /\ Len(q) \in Nat /\ MaxSize \in Nat /\ le.nused \in Nat
      /\ 0 + le.nused <= Len(q) /\ Len(q) <= MaxSize
  BY DEF Holds
<1>2. s \in Seq(Val) /\ Len(s) = Len(q) - 1 /\ \A k \in 1 .. Len(q) - 1 : s[k] = q[k + 1]
  <2>1. q # <<>>
    BY <1>1
  <2> QED BY <1>1, <2>1
<1> HIDE DEF s
<1>3. PICK u, l \in Nat : u = le.nused /\ l = Len(q) /\ le2.nused = u - 1 /\ u <= l /\ u > 0
  BY <1>1
<1>4. \A k \in 0 + le.nused + 1 .. Len(q) : s[k + (le2.nused - le.nused)] = q[k]
  <2> SUFFICES ASSUME NEW k \in 0 + u + 1 .. l PROVE s[k + (u - 1 - u)] = q[k]
    BY <1>3
  <2>1. k - 1 \in 1 .. Len(q) - 1 /\ k + (u - 1 - u) = k - 1 /\ k - 1 + 1 = k
    BY <1>3
  <2>2. s[k - 1] = q[k - 1 + 1]
    BY <1>2, <2>1
  <2> QED BY <2>1, <2>2
<1>5. \A p \in 0 .. le2.nused - 1 : s[0 + p + 1] = le2.lslots[Slot(le2, p)]
  <2> SUFFICES ASSUME NEW p \in 0 .. u - 1 - 1 PROVE s[0 + p + 1] = le2.lslots[Slot(le2, p)]
    BY <1>3
  <2>1. /\ p + 1 \in 1 .. Len(q) - 1 /\ 0 + p + 1 = p + 1 /\ p + 1 \in 0 .. le.nused - 1
        /\ 0 + (p + 1) + 1 = p + 1 + 1 /\ p \in 0 .. le.nused - 2
    BY <1>3
  <2>2. q[0 + (p + 1) + 1] = le.lslots[Slot(le, p + 1)]
    BY <2>1 DEF Holds
  <2>3. s[p + 1] = q[p + 1 + 1]
    BY <1>2, <2>1
  <2> QED BY <2>1, <2>2, <2>3
<1>6. Len(s) = Len(q) + le2.nused - le.nused /\ Len(s) <= MaxSize
  BY <1>1, <1>2, <1>3
<1>7. \A k \in 1 .. 0 : s[k] = q[k]
  OBVIOUS
<1>9. Spliced(q, 0, le, le2, s)
  BY <1>2, <1>4, <1>5, <1>6, <1>7 DEF Spliced
<1> QED BY <1>9 DEF s

LEMMA SplicePull ==
  ASSUME NEW q, NEW a, NEW le, Holds(q, a, le), a + le.nused = Len(q), le.nused > 0,
         NEW le2, le2.nused = le.nused - 1,
         \A p \in 0 .. le.nused - 2 : le2.lslots[Slot(le2, p)] = le.lslots[Slot(le, p)]
  PROVE  Spliced(q, a, le, le2, SubSeq(q, 1, Len(q) - 1))
<1> DEFINE s == SubSeq(q, 1, Len(q) - 1)
<1>1. /\ q \in Seq(Val) /\ Len(q) \in Nat /\ MaxSize \in Nat /\ le.nused \in Nat /\ a \in Nat
      /\ Len(q) <= MaxSize
  BY DEF Holds
<1>3. PICK u, l \in Nat : u = le.nused /\ l = Len(q) /\ le2.nused = u - 1 /\ a + u = l /\ u > 0
  BY <1>1
<1>2. s \in Seq(Val) /\ Len(s) = l - 1 /\ \A k \in 1 .. l - 1 : s[k] = q[k]
  BY <1>1, <1>3
<1> HIDE DEF s
<1>4. \A k \in a + le.nused + 1 .. Len(q) : s[k + (le2.nused - le.nused)] = q[k]
  <2>1. a + u + 1 .. l = {}
    BY <1>1, <1>3
  <2> QED BY <1>3, <2>1
<1>5. \A p \in 0 .. le2.nused - 1 : s[a + p + 1] = le2.lslots[Slot(le2, p)]
  <2> SUFFICES ASSUME NEW p \in 0 .. u - 1 - 1 PROVE s[a + p + 1] = le2.lslots[Slot(le2, p)]
    BY <1>3
  <2>1. p \in 0 .. le.nused - 1 /\ p \in 0 .. le.nused - 2 /\ a + p + 1 \in 1 .. l - 1
    BY <1>1, <1>3
  <2>2. q[a + p + 1] = le.lslots[Slot(le, p)]
    BY <2>1 DEF Holds
  <2> QED BY <1>2, <2>1, <2>2
<1>6. Len(s) = Len(q) + le2.nused - le.nused /\ Len(s) <= MaxSize
  BY <1>1, <1>2, <1>3
<1>7. \A k \in 1 .. a : s[k] = q[k]
  <2>1. \A k \in 1 .. a : k \in 1 .. l - 1
    BY <1>1, <1>3
  <2> QED BY <1>2, <2>1
<1>9. Spliced(q, a, le, le2, s)
  BY <1>2, <1>4, <1>5, <1>6, <1>7 DEF Spliced
<1> QED BY <1>9 DEF s

LEMMA InsertAtIs ==
  ASSUME NEW q \in Seq(Val), NEW i \in 1 .. Len(q), NEW v \in Val
  PROVE  /\ InsertAt(q, i, v) \in Seq(Val) /\ Len(InsertAt(q, i, v)) = Len(q) + 1
         /\ \A k \in 1 .. Len(q) + 1 :
              InsertAt(q, i, v)[k] = IF k < i THEN q[k] ELSE IF k = i THEN v ELSE q[k - 1]
<1> DEFINE s == InsertAt(q, i, v)
<1>0. PICK l \in Nat : l = Len(q)
  OBVIOUS
<1>1. i \in Nat /\ 1 <= i /\ i <= l /\ l = Len(q)
  BY <1>0
<1>2. s = SubSeq(q, 1, i - 1) \o <<v>> \o SubSeq(q, i, l)
  BY <1>1 DEF InsertAt
<1> DEFINE x == SubSeq(q, 1, i - 1)
           y == SubSeq(q, i, l)
<1>3. x \in Seq(Val) /\ Len(x) = i - 1 /\ \A k \in 1 .. i - 1 : x[k] = q[k]
  BY <1>1
<1>4. y \in Seq(Val) /\ Len(y) = l - i + 1 /\ \A k \in 1 .. l - i + 1 : y[k] = q[i + k - 1]
  BY <1>1
<1> HIDE DEF x, y
<1>5. s = x \o <<v>> \o y
  BY <1>2 DEF x, y
<1> DEFINE z == x \o <<v>>
<1>6. z \in Seq(Val) /\ Len(z) = i /\ \A k \in 1 .. i : z[k] = IF k < i THEN q[k] ELSE v
  BY <1>1, <1>3
<1> HIDE DEF z
<1>7. s = z \o y
  BY <1>5 DEF z
<1> HIDE DEF s
<1>8. s \in Seq(Val) /\ Len(s) = i + (l - i + 1)
      /\ \A k \in 1 .. i + (l - i + 1) : s[k] = IF k <= i THEN z[k] ELSE y[k - i]
  <2>1. i \in Nat /\ l - i + 1 \in Nat
    BY <1>1
  <2>2. PICK m, n \in Nat : m = i /\ n = l - i + 1 /\ m = Len(z) /\ n = Len(y)
    BY <1>4, <1>6, <2>1
  <2>a. z \in Seq(Val) /\ y \in Seq(Val)
    BY <1>4, <1>6
  <2>b. m = Len(z) /\ n = Len(y)
    BY <2>2
  <2>3. z \o y \in Seq(Val) /\ Len(z \o y) = m + n
        /\ \A k \in 1 .. m + n : (z \o y)[k] = IF k <= m THEN z[k] ELSE y[k - m]
    BY <2>a, <2>b, Joined
  <2> QED BY <1>7, <2>2, <2>3
<1>9. i + (l - i + 1) = l + 1
  BY <1>1
<1>10. ASSUME NEW k \in 1 .. l + 1
       PROVE s[k] = IF k < i THEN q[k] ELSE IF k = i THEN v ELSE q[k - 1]
  <2>1. CASE k <= i
    <3>1. s[k] = z[k] /\ k \in 1 .. i
      BY <1>1, <1>8, <1>9, <2>1
    <3>2. z[k] = IF k < i THEN q[k] ELSE v
      BY <1>6, <3>1
    <3> QED BY <1>1, <2>1, <3>1, <3>2
  <2>2. CASE ~(k <= i)
    <3>1. k - i \in 1 .. l - i + 1 /\ i + (k - i) - 1 = k - 1 /\ ~(k < i) /\ k # i
      BY <1>1, <2>2
    <3>2. s[k] = y[k - i]
      BY <1>8, <1>9, <2>2
    <3>3. y[k - i] = q[i + (k - i) - 1]
      BY <1>4, <3>1
    <3> QED BY <3>1, <3>2, <3>3
  <2> QED BY <2>1, <2>2
<1>11. s \in Seq(Val) /\ Len(s) = l + 1
  BY <1>8, <1>9
<1> QED BY <1>0, <1>10, <1>11 DEF s

LEMMA SpliceInsert ==
  ASSUME NEW q, NEW a, NEW le, Holds(q, a, le), Len(q) < MaxSize, NEW v \in Val,
         NEW pos \in Nat, pos < le.nused, NEW i \in Int, a + pos = i - 1, NEW le2, Inserted(le, pos, v, le2)
  PROVE  Spliced(q, a, le, le2, InsertAt(q, i, v))
<1> DEFINE s == InsertAt(q, i, v)
<1>1. /\ q \in Seq(Val) /\ Len(q) \in Nat /\ MaxSize \in Nat /\ le.nused \in Nat /\ a \in Nat
      /\ Len(q) <= MaxSize /\ a + le.nused <= Len(q) /\ le2.nused = le.nused + 1
  BY DEF Holds, Inserted
<1>3. PICK u, l \in Nat : u = le.nused /\ l = Len(q) /\ le2.nused = u + 1 /\ a + u <= l /\ pos < u
  BY <1>1
<1>2. /\ s \in Seq(Val) /\ Len(s) = l + 1 /\ i \in 1 .. l
      /\ \A k \in 1 .. l + 1 : s[k] = IF k < i THEN q[k] ELSE IF k = i THEN v ELSE q[k - 1]
  <2>1. i \in 1 .. l
    BY <1>1, <1>3
  <2>2. q \in Seq(Val) /\ l = Len(q)
    BY <1>1, <1>3
  <2>3. i \in 1 .. Len(q)
    BY <2>1, <2>2
  <2>4. /\ s \in Seq(Val) /\ Len(s) = Len(q) + 1
        /\ \A k \in 1 .. Len(q) + 1 : s[k] = IF k < i THEN q[k] ELSE IF k = i THEN v ELSE q[k - 1]
    BY <2>2, <2>3, InsertAtIs
  <2> HIDE DEF s
  <2> QED BY <2>1, <2>2, <2>4
<1> HIDE DEF s
<1>4. \A k \in a + le.nused + 1 .. Len(q) : s[k + (le2.nused - le.nused)] = q[k]
  <2> SUFFICES ASSUME NEW k \in a + u + 1 .. l PROVE s[k + (u + 1 - u)] = q[k]
    BY <1>3
  <2>1. k + (u + 1 - u) = k + 1 /\ k + 1 \in 1 .. l + 1 /\ ~(k + 1 < i) /\ k + 1 # i /\ k + 1 - 1 = k
    BY <1>1, <1>3
  <2>2. s[k + 1] = q[k + 1 - 1]
    BY <1>2, <2>1
  <2> QED BY <2>1, <2>2
<1>5. \A p \in 0 .. le2.nused - 1 : s[a + p + 1] = le2.lslots[Slot(le2, p)]
  <2> SUFFICES ASSUME NEW p \in 0 .. u + 1 - 1 PROVE s[a + p + 1] = le2.lslots[Slot(le2, p)]
    BY <1>3
  <2>0. le2.lslots[Slot(le2, p)] = IF p < pos THEN le.lslots[Slot(le, p)]
                                   ELSE IF p = pos THEN v ELSE le.lslots[Slot(le, p - 1)]
    BY <1>3 DEF Inserted
  <2>1. a + p + 1 \in 1 .. l + 1
    BY <1>1, <1>3
  <2>2. CASE p < pos
    <3>1. p \in 0 .. le.nused - 1 /\ a + p + 1 < i
      BY <1>1, <1>3, <2>2
    <3>2. q[a + p + 1] = le.lslots[Slot(le, p)]
      BY <3>1 DEF Holds
    <3> QED BY <1>2, <2>0, <2>1, <2>2, <3>1, <3>2
  <2>3. CASE p = pos
    <3>1. a + p + 1 = i /\ ~(a + p + 1 < i) /\ ~(p < pos)
      BY <1>1, <1>3, <2>3
    <3> QED BY <1>2, <2>0, <2>1, <2>3, <3>1
  <2>4. CASE ~(p < pos) /\ p # pos
    <3>1. p - 1 \in 0 .. le.nused - 1 /\ ~(a + p + 1 < i) /\ a + p + 1 # i
          /\ a + p + 1 - 1 = a + (p - 1) + 1
      BY <1>1, <1>3, <2>4
    <3>2. q[a + (p - 1) + 1] = le.lslots[Slot(le, p - 1)]
      BY <3>1 DEF Holds
    <3>3. s[a + p + 1] = q[a + p + 1 - 1]
      <4> DEFINE t == a + p + 1
      <4>1. t \in 1 .. l + 1 /\ ~(t < i) /\ t # i
        BY <2>1, <3>1
      <4> HIDE DEF t
      <4>2. s[t] = q[t - 1]
        BY <1>2, <4>1
      <4>3. a + p + 1 = t
        BY DEF t
      <4>4. a + p + 1 - 1 = t - 1
        BY <1>1, <1>3, <4>3
      <4> QED BY <4>2, <4>3, <4>4
    <3> QED BY <2>0, <2>4, <3>1, <3>2, <3>3
  <2> QED BY <2>2, <2>3, <2>4
<1>6. Len(s) = Len(q) + le2.nused - le.nused /\ Len(s) <= MaxSize
  <2>1. l + (u + 1) - u = l + 1 /\ l + 1 <= MaxSize
    BY <1>1, <1>3
  <2> QED BY <1>2, <1>3, <2>1
<1>7. \A k \in 1 .. a : s[k] = q[k]
  <2>1. \A k \in 1 .. a : k \in 1 .. l + 1 /\ k < i
    BY <1>1, <1>3
  <2> QED BY <1>2, <2>1
<1>9. Spliced(q, a, le, le2, s)
  BY <1>2, <1>4, <1>5, <1>6, <1>7 DEF Spliced
<1> QED BY <1>9 DEF s

LEMMA RemoveAtIs ==
  ASSUME NEW q \in Seq(Val), NEW i \in 1 .. Len(q)
  PROVE  /\ RemoveAt(q, i) \in Seq(Val) /\ Len(RemoveAt(q, i)) = Len(q) - 1
         /\ \A k \in 1 .. Len(q) - 1 : RemoveAt(q, i)[k] = IF k < i THEN q[k] ELSE q[k + 1]
<1> DEFINE s == RemoveAt(q, i)
<1>0. PICK l \in Nat : l = Len(q)
  OBVIOUS
<1>1. i \in Nat /\ 1 <= i /\ i <= l /\ l = Len(q)
  BY <1>0
<1>2. s = SubSeq(q, 1, i - 1) \o SubSeq(q, i + 1, l)
  BY <1>1 DEF RemoveAt
<1> DEFINE pre == SubSeq(q, 1, i - 1)
           post == SubSeq(q, i + 1, l)
<1>3. pre \in Seq(Val) /\ Len(pre) = i - 1 /\ \A k \in 1 .. i - 1 : pre[k] = q[k]
  BY <1>1
<1>4. post \in Seq(Val) /\ Len(post) = l - i /\ \A k \in 1 .. l - i : post[k] = q[i + k]
  <2>1. Len(post) = l - i
    BY <1>1
  <2>2. ASSUME NEW k \in 1 .. l - i PROVE post[k] = q[i + k]
    <3>1. post[k] = q[i + 1 + k - 1] /\ i + 1 + k - 1 = i + k
      BY <1>1
    <3> QED BY <3>1
  <2>3. post \in Seq(Val)
    BY <1>1
  <2> QED BY <2>1, <2>2, <2>3
<1> HIDE DEF pre, post
<1>5. s = pre \o post
  BY <1>2 DEF pre, post
<1> HIDE DEF s
<1>8. s \in Seq(Val) /\ Len(s) = i - 1 + (l - i)
      /\ \A k \in 1 .. i - 1 + (l - i) : s[k] = IF k <= i - 1 THEN pre[k] ELSE post[k - (i - 1)]
  <2>1. i - 1 \in Nat /\ l - i \in Nat
    BY <1>1
  <2>2. PICK m, n \in Nat : m = i - 1 /\ n = l - i /\ m = Len(pre) /\ n = Len(post)
    BY <1>3, <1>4, <2>1
  <2>a. pre \in Seq(Val) /\ post \in Seq(Val)
    BY <1>3, <1>4
  <2>b. m = Len(pre) /\ n = Len(post)
    BY <2>2
  <2>3. pre \o post \in Seq(Val) /\ Len(pre \o post) = m + n
        /\ \A k \in 1 .. m + n : (pre \o post)[k] = IF k <= m THEN pre[k] ELSE post[k - m]
    BY <2>a, <2>b, Joined
  <2> QED BY <1>5, <2>2, <2>3
<1>9. i - 1 + (l - i) = l - 1
  BY <1>1
<1>10. ASSUME NEW k \in 1 .. l - 1 PROVE s[k] = IF k < i THEN q[k] ELSE q[k + 1]
  <2>1. CASE k <= i - 1
    <3>1. s[k] = pre[k] /\ k \in 1 .. i - 1 /\ k < i
      BY <1>1, <1>8, <1>9, <2>1
    <3> QED BY <1>3, <3>1
  <2>2. CASE ~(k <= i - 1)
    <3>1. k - (i - 1) \in 1 .. l - i /\ i + (k - (i - 1)) = k + 1 /\ ~(k < i)
      BY <1>1, <2>2
    <3>2. s[k] = post[k - (i - 1)]
      BY <1>8, <1>9, <2>2
    <3>3. post[k - (i - 1)] = q[i + (k - (i - 1))]
      BY <1>4, <3>1
    <3> QED BY <3>1, <3>2, <3>3
  <2> QED BY <2>1, <2>2
<1>11. s \in Seq(Val) /\ Len(s) = l - 1
  BY <1>8, <1>9
<1> QED BY <1>0, <1>10, <1>11 DEF s

LEMMA SpliceDel ==
  ASSUME NEW q, NEW a, NEW le, Holds(q, a, le),
         NEW pos \in Nat, pos < le.nused, NEW i \in Int, a + pos = i - 1,
         NEW le2, le2.nused = le.nused - 1,
         \A p \in 0 .. le.nused - 2 :
              le2.lslots[Slot(le2, p)] = IF p < pos THEN le.lslots[Slot(le, p)]
                                         ELSE le.lslots[Slot(le, p + 1)]
  PROVE  Spliced(q, a, le, le2, RemoveAt(q, i))
<1> DEFINE s == RemoveAt(q, i)
<1>1. /\ q \in Seq(Val) /\ Len(q) \in Nat /\ MaxSize \in Nat /\ le.nused \in Nat /\ a \in Nat
      /\ Len(q) <= MaxSize /\ a + le.nused <= Len(q)
  BY DEF Holds
<1>3. PICK u, l \in Nat : u = le.nused /\ l = Len(q) /\ le2.nused = u - 1 /\ a + u <= l /\ pos < u
  BY <1>1
<1>2. /\ s \in Seq(Val) /\ Len(s) = l - 1 /\ i \in 1 .. l
      /\ \A k \in 1 .. l - 1 : s[k] = IF k < i THEN q[k] ELSE q[k + 1]
  <2>1. i \in 1 .. l
    BY <1>1, <1>3
  <2>2. q \in Seq(Val) /\ l = Len(q)
    BY <1>1, <1>3
  <2>3. i \in 1 .. Len(q)
    BY <2>1, <2>2
  <2>4. /\ s \in Seq(Val) /\ Len(s) = Len(q) - 1
        /\ \A k \in 1 .. Len(q) - 1 : s[k] = IF k < i THEN q[k] ELSE q[k + 1]
    BY <2>2, <2>3, RemoveAtIs
  <2> HIDE DEF s
  <2> QED BY <2>1, <2>2, <2>4
<1> HIDE DEF s
<1>4. \A k \in a + le.nused + 1 .. Len(q) : s[k + (le2.nused - le.nused)] = q[k]
  <2> SUFFICES ASSUME NEW k \in a + u + 1 .. l PROVE s[k + (u - 1 - u)] = q[k]
    BY <1>3
  <2>1. k + (u - 1 - u) = k - 1 /\ k - 1 \in 1 .. l - 1 /\ ~(k - 1 < i) /\ k - 1 + 1 = k
    BY <1>1, <1>3
  <2>2. s[k - 1] = q[k - 1 + 1]
    BY <1>2, <2>1
  <2> QED BY <2>1, <2>2
<1>5. \A p \in 0 .. le2.nused - 1 : s[a + p + 1] = le2.lslots[Slot(le2, p)]
  <2> SUFFICES ASSUME NEW p \in 0 .. u - 1 - 1 PROVE s[a + p + 1] = le2.lslots[Slot(le2, p)]
    BY <1>3
  <2>0. le2.lslots[Slot(le2, p)] = IF p < pos THEN le.lslots[Slot(le, p)]
                                   ELSE le.lslots[Slot(le, p + 1)]
    <3>1. p \in 0 .. le.nused - 2
      BY <1>3
    <3> QED BY <3>1
  <2>1. a + p + 1 \in 1 .. l - 1
    BY <1>1, <1>3
  <2>2. CASE p < pos
    <3>1. p \in 0 .. le.nused - 1 /\ a + p + 1 < i
      BY <1>1, <1>3, <2>2
    <3>2. q[a + p + 1] = le.lslots[Slot(le, p)]
      BY <3>1 DEF Holds
    <3> QED BY <1>2, <2>0, <2>1, <2>2, <3>1, <3>2
  <2>4. CASE ~(p < pos)
    <3>1. p + 1 \in 0 .. le.nused - 1 /\ ~(a + p + 1 < i) /\ a + p + 1 + 1 = a + (p + 1) + 1
      BY <1>1, <1>3, <2>4
    <3>2. q[a + (p + 1) + 1] = le.lslots[Slot(le, p + 1)]
      BY <3>1 DEF Holds
    <3>3. s[a + p + 1] = q[a + p + 1 + 1]
      BY <1>2, <2>1, <3>1
    <3> QED BY <2>0, <2>4, <3>1, <3>2, <3>3
  <2> QED BY <2>2, <2>4
<1>6. Len(s) = Len(q) + le2.nused - le.nused /\ Len(s) <= MaxSize
  <2>1. l + (u - 1) - u = l - 1 /\ l - 1 <= MaxSize
    BY <1>1, <1>3
  <2> QED BY <1>2, <1>3, <2>1
<1>7. \A k \in 1 .. a : s[k] = q[k]
  <2>1. \A k \in 1 .. a : k \in 1 .. l - 1 /\ k < i
    BY <1>1, <1>3
  <2> QED BY <1>2, <2>1
<1>9. Spliced(q, a, le, le2, s)
  BY <1>2, <1>4, <1>5, <1>6, <1>7 DEF Spliced
<1> QED BY <1>9 DEF s

LEMMA SpliceAssign ==
  ASSUME NEW q, NEW a, NEW le, Holds(q, a, le), NEW v \in Val,
         NEW pos \in Nat, pos < le.nused, NEW i \in Int, a + pos = i - 1,
         NEW le2, le2.nused = le.nused,
         \A p \in 0 .. le.nused - 1 :
              le2.lslots[Slot(le2, p)] = IF p = pos THEN v ELSE le.lslots[Slot(le, p)]
  PROVE  Spliced(q, a, le, le2, ReplaceAt(q, i, v))
<1> DEFINE s == ReplaceAt(q, i, v)
<1>1. /\ q \in Seq(Val) /\ Len(q) \in Nat /\ MaxSize \in Nat /\ le.nused \in Nat /\ a \in Nat
      /\ Len(q) <= MaxSize /\ a + le.nused <= Len(q)
  BY DEF Holds
<1>3. PICK u, l \in Nat : u = le.nused /\ l = Len(q) /\ le2.nused = u /\ a + u <= l /\ pos < u
  BY <1>1
<1>2. /\ s \in Seq(Val) /\ Len(s) = l /\ i \in 1 .. l
      /\ \A k \in 1 .. l : s[k] = IF k = i THEN v ELSE q[k]
  <2>1. i \in 1 .. l
    BY <1>1, <1>3
  <2>2. s = [q EXCEPT ![i] = v]
    BY DEF ReplaceAt
  <2> HIDE DEF s
  <2> QED BY <1>1, <1>3, <2>1, <2>2
<1> HIDE DEF s
<1>4. \A k \in a + le.nused + 1 .. Len(q) : s[k + (le2.nused - le.nused)] = q[k]
  <2> SUFFICES ASSUME NEW k \in a + u + 1 .. l PROVE s[k + (u - u)] = q[k]
    BY <1>3
  <2>1. k + (u - u) = k /\ k \in 1 .. l /\ k # i
    BY <1>1, <1>3
  <2> QED BY <1>2, <2>1
<1>5. \A p \in 0 .. le2.nused - 1 : s[a + p + 1] = le2.lslots[Slot(le2, p)]
  <2> SUFFICES ASSUME NEW p \in 0 .. u - 1 PROVE s[a + p + 1] = le2.lslots[Slot(le2, p)]
    BY <1>3
  <2>1. a + p + 1 \in 1 .. l /\ p \in 0 .. le.nused - 1 /\ (p = pos <=> a + p + 1 = i)
    BY <1>1, <1>3
  <2>2. q[a + p + 1] = le.lslots[Slot(le, p)]
    BY <2>1 DEF Holds
  <2> QED BY <1>2, <2>1, <2>2
<1>6. Len(s) = Len(q) + le2.nused - le.nused /\ Len(s) <= MaxSize
  BY <1>1, <1>2, <1>3
<1>7. \A k \in 1 .. a : s[k] = q[k]
  <2>1. \A k \in 1 .. a : k \in 1 .. l /\ k # i
    BY <1>1, <1>3
  <2> QED BY <1>2, <2>1
<1>9. Spliced(q, a, le, le2, s)
  BY <1>2, <1>4, <1>5, <1>6, <1>7 DEF Spliced
<1> QED BY <1>9 DEF s

----------------------------------------------------------------------------
(* The operations *)

\* The blocks hold q.
Shape(bs, hd, tl, q) == (\E r, off : Layout(bs, hd, tl, q, r, off)) /\ Inner(bs, hd, tl)

\* The list is q.
ListIs(q) == Shape(blk, listhead, listtail, q) /\ size = Len(q)

LEMMA ShapeBlocks ==
  ASSUME NEW bs, NEW hd, NEW tl, NEW q, Shape(bs, hd, tl, q)
  PROVE  /\ bs \in [Block -> Elem \cup {Null}] /\ hd \in Used(bs) /\ tl \in Used(bs)
         /\ Used(bs) \subseteq Block /\ \A b \in Used(bs) : bs[b] \in Elem
         /\ q \in Seq(Val) /\ Len(q) \in 0 .. MaxSize /\ MaxSize \in Nat
<1>1. PICK r, off : Layout(bs, hd, tl, q, r, off)
  BY DEF Shape
<1>2. Linked(bs, hd, tl, r) /\ hd \in Used(bs) /\ tl \in Used(bs) /\ bs \in [Block -> Elem \cup {Null}]
  BY <1>1 DEF Layout, Linked
<1>3. Holds(q, off[hd], bs[hd])
  BY <1>1, <1>2, BlockHolds
<1>4. q \in Seq(Val) /\ Len(q) \in 0 .. MaxSize /\ MaxSize \in Nat
  BY <1>3 DEF Holds
<1> QED BY <1>2, <1>4, LinkedBlock DEF Used

\* One block changes, and stays in use with elements unless it is the first or the last.
LEMMA ShapeOne ==
  ASSUME NEW bs, NEW hd, NEW tl, NEW q, NEW r, NEW off, Layout(bs, hd, tl, q, r, off),
         Inner(bs, hd, tl), NEW b \in Used(bs), NEW le2 \in Elem, NEW bs2, Altered(bs, b, le2, bs2),
         NEW q2, Spliced(q, off[b], bs[b], le2, q2), le2.nused > 0 \/ b \in {hd, tl}
  PROVE  Shape(bs2, hd, tl, q2)
<1>1. PICK off2 : Layout(bs2, hd, tl, q2, r, off2)
  BY OneBlock
<1>2. bs \in [Block -> Elem \cup {Null}] /\ b \in Block
  BY DEF Layout, Linked, Used
<1>3. bs2 = [bs EXCEPT ![b] = le2]
  BY DEF Altered
<1>4. Inner(bs2, hd, tl)
  <2> SUFFICES ASSUME NEW c \in Used(bs2) \ {hd, tl} PROVE bs2[c].nused > 0
    BY DEF Inner
  <2>1. CASE c = b
    BY <1>2, <1>3, <2>1
  <2>2. CASE c # b
    <3>1. c \in Used(bs) /\ bs2[c] = bs[c]
      BY <1>2, <1>3, <2>2 DEF Used
    <3> QED BY <3>1 DEF Inner
  <2> QED BY <2>1, <2>2
<1> QED BY <1>1, <1>4 DEF Shape

Stored(le, i, first, v, le2) ==
  le2 = [nslots |-> le.nslots, first |-> first, nused |-> le.nused + 1,
         lslots |-> [le.lslots EXCEPT ![i] = v],
         listprev |-> le.listprev, listnext |-> le.listnext]

LEMMA StoredRecord ==
  ASSUME NEW le \in Elem, NEW i, NEW first, NEW v
  PROVE  Stored(le, i, first, v, [le EXCEPT !.lslots[i] = v, !.first = first, !.nused = @ + 1])
<1>1. PICK n, f, u, ls, p, x : le = [nslots |-> n, first |-> f, nused |-> u,
                                     lslots |-> ls, listprev |-> p, listnext |-> x]
  BY ElemFields
<1> DEFINE e1 == [le EXCEPT !.lslots[i] = v]
           e2 == [e1 EXCEPT !.first = first]
           e3 == [e2 EXCEPT !.nused = @ + 1]
<1>2. [le EXCEPT !.lslots[i] = v, !.first = first, !.nused = @ + 1] = e3
  OBVIOUS
<1>3. e1 = [nslots |-> n, first |-> f, nused |-> u,
            lslots |-> [ls EXCEPT ![i] = v], listprev |-> p, listnext |-> x]
  BY <1>1
<1> HIDE DEF e1
<1>4. e2 = [nslots |-> n, first |-> first, nused |-> u,
            lslots |-> [ls EXCEPT ![i] = v], listprev |-> p, listnext |-> x]
  BY <1>3
<1> HIDE DEF e2
<1>5. e3 = [nslots |-> n, first |-> first, nused |-> u + 1,
            lslots |-> [ls EXCEPT ![i] = v], listprev |-> p, listnext |-> x]
  BY <1>4
<1>6. /\ le.nslots = n /\ le.nused = u /\ le.lslots = ls /\ le.listprev = p /\ le.listnext = x
  BY <1>1
<1> HIDE DEF e3
<1> QED BY <1>2, <1>5, <1>6 DEF Stored

\* What an element stored in a block makes of the blocks.
LEMMA StoreIs ==
  ASSUME NEW bs \in [Block -> Elem \cup {Null}], NEW b \in Used(bs), NEW i, NEW first, NEW v,
         Store(bs, b, i, first, v)
  PROVE  \E le2 : Stored(bs[b], i, first, v, le2) /\ Altered(bs, b, le2, blk')
<1>1. b \in Block /\ bs[b] \in Elem
  BY DEF Used
<1>2. PICK le2 : le2 = [bs[b] EXCEPT !.lslots[i] = v, !.first = first, !.nused = @ + 1]
  OBVIOUS
<1>3. Stored(bs[b], i, first, v, le2)
  BY <1>1, <1>2, StoredRecord, Zenon
<1>4. [bs EXCEPT ![b].lslots[i] = v, ![b].first = first, ![b].nused = @ + 1]
        = [bs EXCEPT ![b] = [bs[b] EXCEPT !.lslots[i] = v, !.first = first, !.nused = @ + 1]]
  BY <1>1
<1>5. blk' = [bs EXCEPT ![b] = le2]
  BY <1>2, <1>4 DEF Store
<1>6. le2.listnext = bs[b].listnext /\ le2.listprev = bs[b].listprev
  BY <1>3 DEF Stored
<1> QED BY <1>3, <1>5, <1>6 DEF Altered

LEMMA PushOnto ==
  ASSUME NEW bs, NEW hd, NEW tl, NEW q, NEW r, NEW off, Layout(bs, hd, tl, q, r, off),
         Inner(bs, hd, tl), bs[hd].nused < bs[hd].nslots, Len(q) < MaxSize, NEW v \in Val,
         Store(bs, hd, BeforeFirst(bs[hd]), BeforeFirst(bs[hd]), v)
  PROVE  Shape(blk', hd, tl, <<v>> \o q)
<1>1. bs \in [Block -> Elem \cup {Null}] /\ hd \in Used(bs) /\ bs[hd] \in Elem /\ off[hd] = 0
  BY DEF Layout, Linked, Offsets, Used
<1>2. PICK le2 : /\ Stored(bs[hd], BeforeFirst(bs[hd]), BeforeFirst(bs[hd]), v, le2)
                 /\ Altered(bs, hd, le2, blk')
  BY <1>1, StoreIs
<1>3. Pushed(bs[hd], v, le2) /\ le2.nused = bs[hd].nused + 1
  BY <1>2 DEF Stored, Pushed
<1>4. /\ le2 \in Elem /\ le2.lslots[Slot(le2, 0)] = v
      /\ \A p \in 0 .. bs[hd].nused - 1 : le2.lslots[Slot(le2, p + 1)] = bs[hd].lslots[Slot(bs[hd], p)]
  BY <1>1, <1>3, PushBlock
<1>5. Holds(q, off[hd], bs[hd])
  BY <1>1, BlockHolds
<1>6. Spliced(q, off[hd], bs[hd], le2, <<v>> \o q)
  BY <1>1, <1>3, <1>4, <1>5, SplicePush
<1> QED BY <1>1, <1>2, <1>4, <1>6, ShapeOne

LEMMA PutOnto ==
  ASSUME NEW bs, NEW hd, NEW tl, NEW q, NEW r, NEW off, Layout(bs, hd, tl, q, r, off),
         Inner(bs, hd, tl), bs[tl].nused < bs[tl].nslots, Len(q) < MaxSize, NEW v \in Val,
         Store(bs, tl, Slot(bs[tl], bs[tl].nused), bs[tl].first, v)
  PROVE  Shape(blk', hd, tl, Append(q, v))
<1>1. /\ bs \in [Block -> Elem \cup {Null}] /\ tl \in Used(bs) /\ bs[tl] \in Elem
      /\ off[tl] + bs[tl].nused = Len(q)
  BY DEF Layout, Linked, Offsets, Used
<1>2. PICK le2 : /\ Stored(bs[tl], Slot(bs[tl], bs[tl].nused), bs[tl].first, v, le2)
                 /\ Altered(bs, tl, le2, blk')
  BY <1>1, StoreIs
<1>3. PutAfter(bs[tl], v, le2) /\ le2.nused = bs[tl].nused + 1
  BY <1>2 DEF Stored, PutAfter
<1>4. /\ le2 \in Elem /\ le2.lslots[Slot(le2, bs[tl].nused)] = v
      /\ \A p \in 0 .. bs[tl].nused - 1 : le2.lslots[Slot(le2, p)] = bs[tl].lslots[Slot(bs[tl], p)]
  BY <1>1, <1>3, PutBlock
<1>5. Holds(q, off[tl], bs[tl])
  BY <1>1, BlockHolds
<1>6. Spliced(q, off[tl], bs[tl], le2, Append(q, v))
  BY <1>1, <1>3, <1>4, <1>5, SplicePut
<1> QED BY <1>1, <1>2, <1>4, <1>6, ShapeOne

LEMMA TriesFit ==
  ASSUME size \in 0 .. MaxSize, NEW n \in Tries
  PROVE  n \in 1 .. MaxSlots
<1>1. n \in Nat /\ n >= MinListSlots /\ MinListSlots \in Nat \ {0} /\ MaxSize \in Nat
  BY ListAssumption DEF Tries
<1>2. PICK i \in Nat : i <= MaxSlots /\ n \in {i, i \div 4, i \div 16}
  <2>1. size \div 2 \in Nat /\ size \div 2 <= size
    OBVIOUS
  <2> QED BY <1>1, <2>1 DEF Tries, MaxSlots
<1>3. i \div 4 <= i /\ i \div 16 <= i
  BY <1>2
<1> QED BY <1>1, <1>2, <1>3 DEF MaxSlots

LEMMA PushIs ==
  ASSUME NEW q, ListIs(q), NEW v \in Val, list_push(v)
  PROVE  Shape(blk', listhead', listtail', <<v>> \o q) /\ size' = Len(<<v>> \o q)
<1>1. /\ blk \in [Block -> Elem \cup {Null}] /\ listhead \in Used(blk) /\ blk[listhead] \in Elem
      /\ q \in Seq(Val) /\ Len(q) \in 0 .. MaxSize /\ MaxSize \in Nat /\ size = Len(q)
  BY ShapeBlocks DEF ListIs
<1>2. size < MaxSize /\ listtail' = listtail /\ size' = size + 1
  BY DEF list_push, Change
<1>3. size' = Len(<<v>> \o q)
  BY <1>1, <1>2
<1>4. PICK r, off : Layout(blk, listhead, listtail, q, r, off)
  BY DEF ListIs, Shape
<1>5. Inner(blk, listhead, listtail)
  BY DEF ListIs, Shape
<1>6. CASE blk[listhead].nused < blk[listhead].nslots
  <2>1. /\ Store(blk, listhead, BeforeFirst(blk[listhead]), BeforeFirst(blk[listhead]), v)
        /\ listhead' = listhead
    BY <1>6 DEF list_push
  <2> QED BY <1>1, <1>2, <1>3, <1>4, <1>5, <1>6, <2>1, PushOnto
<1>7. CASE ~(blk[listhead].nused < blk[listhead].nslots)
  <2>1. PICK b, n, bs :
          /\ b \in Unused /\ n \in Tries
          /\ bs = [blk EXCEPT ![b] = NewBlock(n, Hdr, listhead), ![listhead].listprev = b]
          /\ Store(bs, b, BeforeFirst(bs[b]), BeforeFirst(bs[b]), v)
          /\ listhead' = b
    BY <1>7 DEF list_push
  <2>2. n \in 1 .. MaxSlots
    BY <1>1, <2>1, TriesFit
  <2>3. b \in Block /\ blk[b] = Null /\ listhead \in Block
    BY <1>1, <2>1 DEF Unused, Used
  <2>4. PICK le : le = NewBlock(n, Hdr, listhead)
    OBVIOUS
  <2>5. /\ le \in Elem /\ le.nslots = n /\ le.nused = 0 /\ le.listprev = Hdr /\ le.listnext = listhead
    BY <2>2, <2>3, <2>4, NewBlockElem
  <2>6. AddedFront(blk, listhead, b, le, bs)
    BY <2>1, <2>3, <2>4, <2>5 DEF AddedFront
  <2>7. /\ \E r2, off2 : Layout(bs, b, listtail, q, r2, off2) /\ off2[b] = 0
        /\ Used(bs) = Used(blk) \cup {b} /\ bs[b] = le
        /\ \A c \in Used(blk) : bs[c].nused = blk[c].nused
    BY <1>4, <2>6, AddFront
  <2>8. PICK r2, off2 : Layout(bs, b, listtail, q, r2, off2)
    BY <2>7
  <2>9. blk[listhead].nused > 0
    BY <1>1, <1>7, ElemFields
  <2>10. Inner(bs, b, listtail)
    BY <1>5, <2>7, <2>9 DEF Inner
  <2>11. bs[b].nused < bs[b].nslots
    BY <2>2, <2>5, <2>7
  <2> QED BY <1>1, <1>2, <1>3, <2>1, <2>8, <2>10, <2>11, PushOnto
<1> QED BY <1>6, <1>7

LEMMA PutIs ==
  ASSUME NEW q, ListIs(q), NEW v \in Val, list_put(v)
  PROVE  Shape(blk', listhead', listtail', Append(q, v)) /\ size' = Len(Append(q, v))
<1>1. /\ blk \in [Block -> Elem \cup {Null}] /\ listtail \in Used(blk) /\ blk[listtail] \in Elem
      /\ q \in Seq(Val) /\ Len(q) \in 0 .. MaxSize /\ MaxSize \in Nat /\ size = Len(q)
  BY ShapeBlocks DEF ListIs
<1>2. size < MaxSize /\ listhead' = listhead /\ size' = size + 1
  BY DEF list_put, Change
<1>3. size' = Len(Append(q, v))
  BY <1>1, <1>2
<1>4. PICK r, off : Layout(blk, listhead, listtail, q, r, off)
  BY DEF ListIs, Shape
<1>5. Inner(blk, listhead, listtail)
  BY DEF ListIs, Shape
<1>6. CASE blk[listtail].nused < blk[listtail].nslots
  <2>1. /\ Store(blk, listtail, Slot(blk[listtail], blk[listtail].nused), blk[listtail].first, v)
        /\ listtail' = listtail
    BY <1>6 DEF list_put
  <2> QED BY <1>1, <1>2, <1>3, <1>4, <1>5, <1>6, <2>1, PutOnto
<1>7. CASE ~(blk[listtail].nused < blk[listtail].nslots)
  <2>1. PICK b, n, bs :
          /\ b \in Unused /\ n \in Tries
          /\ bs = [blk EXCEPT ![b] = NewBlock(n, listtail, Hdr), ![listtail].listnext = b]
          /\ Store(bs, b, Slot(bs[b], bs[b].nused), bs[b].first, v)
          /\ listtail' = b
    BY <1>7 DEF list_put
  <2>2. n \in 1 .. MaxSlots
    BY <1>1, <2>1, TriesFit
  <2>3. b \in Block /\ blk[b] = Null /\ listtail \in Block
    BY <1>1, <2>1 DEF Unused, Used
  <2>4. PICK le : le = NewBlock(n, listtail, Hdr)
    OBVIOUS
  <2>5. /\ le \in Elem /\ le.nslots = n /\ le.nused = 0 /\ le.listnext = Hdr /\ le.listprev = listtail
    BY <2>2, <2>3, <2>4, NewBlockElem
  <2>6. AddedBack(blk, listtail, b, le, bs)
    BY <2>1, <2>3, <2>4, <2>5 DEF AddedBack
  <2>7. /\ \E r2, off2 : Layout(bs, listhead, b, q, r2, off2) /\ off2[b] = Len(q)
        /\ Used(bs) = Used(blk) \cup {b} /\ bs[b] = le
        /\ \A c \in Used(blk) : bs[c].nused = blk[c].nused
    BY <1>4, <2>6, AddBack
  <2>8. PICK r2, off2 : Layout(bs, listhead, b, q, r2, off2)
    BY <2>7
  <2>9. blk[listtail].nused > 0
    BY <1>1, <1>7, ElemFields
  <2>10. Inner(bs, listhead, b)
    BY <1>5, <2>7, <2>9 DEF Inner
  <2>11. bs[b].nused < bs[b].nslots
    BY <2>2, <2>5, <2>7
  <2> QED BY <1>1, <1>2, <1>3, <2>1, <2>8, <2>10, <2>11, PutOnto
<1> QED BY <1>6, <1>7

\* What an element taken out of a block makes of the blocks.
Taken(le, i, first, le2) ==
  le2 = [nslots |-> le.nslots, first |-> first, nused |-> le.nused - 1,
         lslots |-> [le.lslots EXCEPT ![i] = Null],
         listprev |-> le.listprev, listnext |-> le.listnext]

LEMMA TakenRecord ==
  ASSUME NEW le \in Elem, NEW i, NEW first
  PROVE  /\ Taken(le, i, first, [le EXCEPT !.lslots[i] = Null, !.nused = @ - 1, !.first = first])
         /\ Taken(le, i, le.first, [le EXCEPT !.lslots[i] = Null, !.nused = @ - 1])
<1>1. PICK n, f, u, ls, p, x : le = [nslots |-> n, first |-> f, nused |-> u,
                                     lslots |-> ls, listprev |-> p, listnext |-> x]
  BY ElemFields
<1> DEFINE e1 == [le EXCEPT !.lslots[i] = Null]
           e2 == [e1 EXCEPT !.nused = @ - 1]
           e3 == [e2 EXCEPT !.first = first]
<1>2. /\ [le EXCEPT !.lslots[i] = Null, !.nused = @ - 1, !.first = first] = e3
      /\ [le EXCEPT !.lslots[i] = Null, !.nused = @ - 1] = e2
  OBVIOUS
<1>3. e1 = [nslots |-> n, first |-> f, nused |-> u,
            lslots |-> [ls EXCEPT ![i] = Null], listprev |-> p, listnext |-> x]
  BY <1>1
<1> HIDE DEF e1
<1>4. e2 = [nslots |-> n, first |-> f, nused |-> u - 1,
            lslots |-> [ls EXCEPT ![i] = Null], listprev |-> p, listnext |-> x]
  BY <1>3
<1> HIDE DEF e2
<1>5. e3 = [nslots |-> n, first |-> first, nused |-> u - 1,
            lslots |-> [ls EXCEPT ![i] = Null], listprev |-> p, listnext |-> x]
  BY <1>4
<1>6. /\ le.nslots = n /\ le.first = f /\ le.nused = u /\ le.lslots = ls
      /\ le.listprev = p /\ le.listnext = x
  BY <1>1
<1> HIDE DEF e3
<1> QED BY <1>2, <1>4, <1>5, <1>6 DEF Taken

GotFrom(bs, hd, bs2) ==
  bs2 = [bs EXCEPT ![hd].lslots[bs[hd].first] = Null, ![hd].nused = @ - 1,
                   ![hd].first = IF bs[hd].first + 1 >= bs[hd].nslots THEN 0
                                 ELSE bs[hd].first + 1]

LEMMA GetFrom ==
  ASSUME NEW bs, NEW hd, NEW tl, NEW q, NEW r, NEW off, Layout(bs, hd, tl, q, r, off),
         Inner(bs, hd, tl), bs[hd].nused > 0, NEW bs2, GotFrom(bs, hd, bs2)
  PROVE  /\ Shape(bs2, hd, tl, Tail(q)) /\ q # <<>>
         /\ bs[hd].lslots[bs[hd].first] = Head(q)
<1>1. /\ bs \in [Block -> Elem \cup {Null}] /\ hd \in Used(bs) /\ hd \in Block
      /\ bs[hd] \in Elem /\ off[hd] = 0
  BY DEF Layout, Linked, Offsets, Used
<1>2. PICK f : f = IF bs[hd].first + 1 >= bs[hd].nslots THEN 0 ELSE bs[hd].first + 1
  OBVIOUS
<1>3. PICK le2 : le2 = [bs[hd] EXCEPT !.lslots[bs[hd].first] = Null, !.nused = @ - 1, !.first = f]
  OBVIOUS
<1>4. Taken(bs[hd], bs[hd].first, f, le2)
  BY <1>1, <1>3, TakenRecord, Zenon
<1>5. Got(bs[hd], le2) /\ le2.nused = bs[hd].nused - 1
  BY <1>2, <1>4 DEF Got, Taken
<1>6. Altered(bs, hd, le2, bs2)
  <2>1. [bs EXCEPT ![hd].lslots[bs[hd].first] = Null, ![hd].nused = @ - 1, ![hd].first = f]
          = [bs EXCEPT ![hd] = [bs[hd] EXCEPT !.lslots[bs[hd].first] = Null, !.nused = @ - 1,
                                              !.first = f]]
    BY <1>1
  <2>2. bs2 = [bs EXCEPT ![hd] = le2]
    BY <1>2, <1>3, <2>1 DEF GotFrom
  <2>3. le2.listprev = bs[hd].listprev /\ le2.listnext = bs[hd].listnext
    BY <1>4 DEF Taken
  <2> QED BY <2>2, <2>3 DEF Altered
<1>7. /\ le2 \in Elem /\ Slot(bs[hd], 0) = bs[hd].first
      /\ \A p \in 0 .. bs[hd].nused - 2 : le2.lslots[Slot(le2, p)] = bs[hd].lslots[Slot(bs[hd], p + 1)]
  BY <1>1, <1>5, GetBlock
<1>8. Holds(q, off[hd], bs[hd])
  BY <1>1, BlockHolds
<1>9. Spliced(q, off[hd], bs[hd], le2, Tail(q))
  BY <1>1, <1>5, <1>7, <1>8, SpliceGet
<1>10. Shape(bs2, hd, tl, Tail(q))
  BY <1>1, <1>6, <1>7, <1>9, ShapeOne
<1>11. /\ 0 \in 0 .. bs[hd].nused - 1 /\ q[off[hd] + 0 + 1] = bs[hd].lslots[Slot(bs[hd], 0)]
       /\ Len(q) > 0 /\ q \in Seq(Val)
  BY <1>1, <1>8 DEF Holds
<1> QED BY <1>1, <1>7, <1>10, <1>11

PulledFrom(bs, tl, bs2) ==
  bs2 = [bs EXCEPT ![tl].lslots[Slot(bs[tl], bs[tl].nused - 1)] = Null, ![tl].nused = @ - 1]

LEMMA PullFrom ==
  ASSUME NEW bs, NEW hd, NEW tl, NEW q, NEW r, NEW off, Layout(bs, hd, tl, q, r, off),
         Inner(bs, hd, tl), bs[tl].nused > 0, NEW bs2, PulledFrom(bs, tl, bs2)
  PROVE  /\ Shape(bs2, hd, tl, SubSeq(q, 1, Len(q) - 1)) /\ q # <<>>
         /\ bs[tl].lslots[Slot(bs[tl], bs[tl].nused - 1)] = q[Len(q)]
<1> DEFINE i == Slot(bs[tl], bs[tl].nused - 1)
<1>1. /\ bs \in [Block -> Elem \cup {Null}] /\ tl \in Used(bs) /\ tl \in Block
      /\ bs[tl] \in Elem /\ off[tl] + bs[tl].nused = Len(q)
  BY DEF Layout, Linked, Offsets, Used
<1>3. PICK le2 : le2 = [bs[tl] EXCEPT !.lslots[i] = Null, !.nused = @ - 1]
  OBVIOUS
<1>4. Taken(bs[tl], i, bs[tl].first, le2)
  BY <1>1, <1>3, TakenRecord, Zenon
<1>5. Pulled(bs[tl], le2) /\ le2.nused = bs[tl].nused - 1
  BY <1>4 DEF Pulled, Taken
<1>6. Altered(bs, tl, le2, bs2)
  <2>1. [bs EXCEPT ![tl].lslots[i] = Null, ![tl].nused = @ - 1]
          = [bs EXCEPT ![tl] = [bs[tl] EXCEPT !.lslots[i] = Null, !.nused = @ - 1]]
    BY <1>1
  <2>2. bs2 = [bs EXCEPT ![tl] = le2]
    BY <1>3, <2>1 DEF PulledFrom
  <2>3. le2.listprev = bs[tl].listprev /\ le2.listnext = bs[tl].listnext
    BY <1>4 DEF Taken
  <2> QED BY <2>2, <2>3 DEF Altered
<1>7. /\ le2 \in Elem
      /\ \A p \in 0 .. bs[tl].nused - 2 : le2.lslots[Slot(le2, p)] = bs[tl].lslots[Slot(bs[tl], p)]
  BY <1>1, <1>5, PullBlock
<1>8. Holds(q, off[tl], bs[tl])
  BY <1>1, BlockHolds
<1>9. Spliced(q, off[tl], bs[tl], le2, SubSeq(q, 1, Len(q) - 1))
  BY <1>1, <1>5, <1>7, <1>8, SplicePull
<1>10. Shape(bs2, hd, tl, SubSeq(q, 1, Len(q) - 1))
  BY <1>1, <1>6, <1>7, <1>9, ShapeOne
<1>11. /\ off[tl] \in Nat /\ bs[tl].nused \in Nat /\ Len(q) \in Nat /\ q \in Seq(Val)
       /\ \A p \in 0 .. bs[tl].nused - 1 : q[off[tl] + p + 1] = bs[tl].lslots[Slot(bs[tl], p)]
  BY <1>8 DEF Holds
<1>15. bs[tl].nused - 1 \in 0 .. bs[tl].nused - 1
  BY <1>11
<1>12. PICK p \in 0 .. bs[tl].nused - 1 : p = bs[tl].nused - 1
  BY <1>15
<1>13. off[tl] + p + 1 = Len(q) /\ Len(q) > 0
  BY <1>1, <1>11, <1>12
<1>14. q[off[tl] + p + 1] = bs[tl].lslots[i]
  BY <1>11, <1>12
<1> QED BY <1>10, <1>11, <1>13, <1>14

\* An empty block at either end is dropped; the next one is then not empty.
DroppedFront(bs, hd, bs2) ==
  bs2 = [bs EXCEPT ![hd] = Null, ![bs[hd].listnext].listprev = Hdr]

LEMMA DropFront ==
  ASSUME NEW bs, NEW hd, NEW tl, NEW q, NEW r, NEW off, Layout(bs, hd, tl, q, r, off),
         Inner(bs, hd, tl), bs[hd].nused = 0, Len(q) > 0, NEW bs2, DroppedFront(bs, hd, bs2)
  PROVE  /\ bs[hd].listnext # hd /\ SameData(bs[bs[hd].listnext], bs2[bs[hd].listnext])
         /\ \E r2 : Layout(bs2, bs[hd].listnext, tl, q, r2, off)
         /\ Inner(bs2, bs[hd].listnext, tl) /\ bs2[bs[hd].listnext].nused > 0
<1>1. /\ Linked(bs, hd, tl, r) /\ bs \in [Block -> Elem \cup {Null}] /\ hd \in Used(bs) /\ tl \in Used(bs)
      /\ Len(q) \in Nat /\ off[hd] = 0 /\ off[tl] + bs[tl].nused = Len(q)
      /\ hd # tl => off[bs[hd].listnext] = off[hd] + bs[hd].nused
  <2>1. q \in Seq(Val)
    BY DEF Layout, Offsets
  <2>2. Len(q) \in Nat
    BY <2>1
  <2> QED BY <2>2 DEF Layout, Linked, Offsets
<1>2. hd # tl
  BY <1>1
<1>3. PICK b : b = bs[hd].listnext
  OBVIOUS
<1>4. b \in Used(bs) /\ r[b] = r[hd] + 1 /\ r[hd] \in Int /\ hd \in Block /\ bs[hd].listprev = Hdr
  BY <1>1, <1>2, <1>3, LinkedBlock DEF NextLink, PrevLink
<1>5. b # hd /\ b \in Block /\ bs[b] \in Elem
  BY <1>1, <1>4 DEF Used
<1>6. Cut(bs, hd, tl, hd, bs[hd].listnext, bs[hd].listprev, bs2)
  <2>1. PICK e : e = [bs[b] EXCEPT !.listprev = Hdr]
    OBVIOUS
  <2>2. [bs EXCEPT ![b].listprev = Hdr] = [bs EXCEPT ![b] = e]
    BY <1>5, <2>1
  <2>3. bs2 = [bs EXCEPT ![hd] = Null, ![b] = e]
    <3>1. [bs EXCEPT ![hd] = Null, ![b].listprev = Hdr]
            = [bs EXCEPT ![hd] = Null, ![b] = [bs[b] EXCEPT !.listprev = Hdr]]
      BY <1>1, <1>4, <1>5
    <3> QED BY <1>3, <2>1, <3>1 DEF DroppedFront
  <2>4. [[bs EXCEPT ![b] = e] EXCEPT ![hd] = Null] = [bs EXCEPT ![hd] = Null, ![b] = e]
    BY <1>1, <1>4, <1>5
  <2>5. bs2 = [[bs EXCEPT ![bs[hd].listnext].listprev = bs[hd].listprev] EXCEPT ![hd] = Null]
    BY <1>3, <1>4, <2>2, <2>3, <2>4
  <2> QED BY <1>2, <2>5 DEF Cut
<1>7. /\ \E r2 : Layout(bs2, b, tl, q, r2, off)
      /\ Used(bs2) = Used(bs) \ {hd}
      /\ \A c \in Used(bs) \ {hd} : SameData(bs[c], bs2[c])
  <2>1. ~(hd = hd /\ tl = hd)
    BY <1>2
  <2>2. /\ \E r2 : Layout(bs2, IF hd = hd THEN bs[hd].listnext ELSE hd,
                           IF tl = hd THEN bs[hd].listprev ELSE tl, q, r2, off)
        /\ Used(bs2) = Used(bs) \ {hd}
        /\ \A c \in Used(bs) \ {hd} : SameData(bs[c], bs2[c])
    BY <1>1, <1>6, <2>1, DropBlock
  <2>3. /\ (IF hd = hd THEN bs[hd].listnext ELSE hd) = bs[hd].listnext
        /\ (IF tl = hd THEN bs[hd].listprev ELSE tl) = tl
    BY <1>2
  <2> QED BY <1>3, <2>2, <2>3
<1>8. \A c \in Used(bs2) : c \in Used(bs) \ {hd} /\ bs2[c].nused = bs[c].nused
  BY <1>7 DEF SameData
<1>9. Inner(bs2, b, tl)
  BY <1>8 DEF Inner
<1>10. bs[b].nused > 0
  <2>1. CASE b = tl
    <3>1. bs[b].nused \in Nat
      BY <1>5, ElemFields
    <3> QED BY <1>1, <1>2, <1>3, <2>1, <3>1
  <2>2. CASE b # tl
    BY <1>4, <1>5, <2>2 DEF Inner
  <2> QED BY <2>1, <2>2
<1>11. bs2[b].nused > 0
  BY <1>4, <1>5, <1>7, <1>10 DEF SameData
<1> QED BY <1>3, <1>4, <1>5, <1>7, <1>9, <1>11

DroppedBack(bs, tl, bs2) ==
  bs2 = [bs EXCEPT ![tl] = Null, ![bs[tl].listprev].listnext = Hdr]

LEMMA DropBack ==
  ASSUME NEW bs, NEW hd, NEW tl, NEW q, NEW r, NEW off, Layout(bs, hd, tl, q, r, off),
         Inner(bs, hd, tl), bs[tl].nused = 0, Len(q) > 0, NEW bs2, DroppedBack(bs, tl, bs2)
  PROVE  /\ bs[tl].listprev # tl /\ SameData(bs[bs[tl].listprev], bs2[bs[tl].listprev])
         /\ \E r2 : Layout(bs2, hd, bs[tl].listprev, q, r2, off)
         /\ Inner(bs2, hd, bs[tl].listprev) /\ bs2[bs[tl].listprev].nused > 0
<1>1. /\ Linked(bs, hd, tl, r) /\ bs \in [Block -> Elem \cup {Null}] /\ hd \in Used(bs) /\ tl \in Used(bs)
      /\ Len(q) \in Nat /\ off[hd] = 0 /\ off[tl] + bs[tl].nused = Len(q)
      /\ \A c \in Used(bs) \ {tl} : off[bs[c].listnext] = off[c] + bs[c].nused
  <2>1. q \in Seq(Val)
    BY DEF Layout, Offsets
  <2>2. Len(q) \in Nat
    BY <2>1
  <2> QED BY <2>2 DEF Layout, Linked, Offsets
<1>2. hd # tl
  BY <1>1
<1>3. PICK b : b = bs[tl].listprev
  OBVIOUS
<1>4. b \in Used(bs) /\ r[b] = r[tl] - 1 /\ r[tl] \in Int /\ tl \in Block /\ bs[tl].listnext = Hdr
      /\ bs[b].listnext = tl
  BY <1>1, <1>2, <1>3, LinkedBlock DEF NextLink, PrevLink
<1>5. b # tl /\ b \in Block /\ bs[b] \in Elem
  BY <1>1, <1>4 DEF Used
<1>6. Cut(bs, hd, tl, tl, bs[tl].listnext, bs[tl].listprev, bs2)
  <2>1. PICK e : e = [bs[b] EXCEPT !.listnext = Hdr]
    OBVIOUS
  <2>2. [bs EXCEPT ![b].listnext = Hdr] = [bs EXCEPT ![b] = e]
    BY <1>5, <2>1
  <2>3. bs2 = [bs EXCEPT ![tl] = Null, ![b] = e]
    <3>1. [bs EXCEPT ![tl] = Null, ![b].listnext = Hdr]
            = [bs EXCEPT ![tl] = Null, ![b] = [bs[b] EXCEPT !.listnext = Hdr]]
      BY <1>1, <1>4, <1>5
    <3> QED BY <1>3, <2>1, <3>1 DEF DroppedBack
  <2>4. [[bs EXCEPT ![b] = e] EXCEPT ![tl] = Null] = [bs EXCEPT ![tl] = Null, ![b] = e]
    BY <1>1, <1>4, <1>5
  <2>5. bs2 = [[bs EXCEPT ![bs[tl].listprev].listnext = bs[tl].listnext] EXCEPT ![tl] = Null]
    BY <1>3, <1>4, <2>2, <2>3, <2>4
  <2> QED BY <1>2, <2>5 DEF Cut
<1>7. /\ \E r2 : Layout(bs2, hd, b, q, r2, off)
      /\ Used(bs2) = Used(bs) \ {tl}
      /\ \A c \in Used(bs) \ {tl} : SameData(bs[c], bs2[c])
  <2>1. ~(hd = tl /\ tl = tl)
    BY <1>2
  <2>2. /\ \E r2 : Layout(bs2, IF hd = tl THEN bs[tl].listnext ELSE hd,
                           IF tl = tl THEN bs[tl].listprev ELSE tl, q, r2, off)
        /\ Used(bs2) = Used(bs) \ {tl}
        /\ \A c \in Used(bs) \ {tl} : SameData(bs[c], bs2[c])
    BY <1>1, <1>6, <2>1, DropBlock
  <2>3. /\ (IF hd = tl THEN bs[tl].listnext ELSE hd) = hd
        /\ (IF tl = tl THEN bs[tl].listprev ELSE tl) = bs[tl].listprev
    BY <1>2
  <2> QED BY <1>3, <2>2, <2>3
<1>8. \A c \in Used(bs2) : c \in Used(bs) \ {tl} /\ bs2[c].nused = bs[c].nused
  BY <1>7 DEF SameData
<1>9. Inner(bs2, hd, b)
  BY <1>8 DEF Inner
<1>10. bs[b].nused > 0
  <2>1. CASE b = hd
    <3>1. bs[b].nused \in Nat /\ off[tl] \in Int
      BY <1>5, ElemFields DEF Layout, Offsets, Linked, Used
    <3> QED BY <1>1, <1>2, <1>4, <2>1, <3>1
  <2>2. CASE b # hd
    BY <1>4, <1>5, <2>2 DEF Inner
  <2> QED BY <2>1, <2>2
<1>11. bs2[b].nused > 0
  BY <1>4, <1>5, <1>7, <1>10 DEF SameData
<1> QED BY <1>3, <1>4, <1>5, <1>7, <1>9, <1>11

LEMMA GetIs ==
  ASSUME NEW q, ListIs(q), list_get
  PROVE  /\ Shape(blk', listhead', listtail', Tail(q)) /\ size' = Len(Tail(q))
         /\ q # <<>> /\ out' = Head(q)
<1>1. /\ blk \in [Block -> Elem \cup {Null}] /\ listhead \in Used(blk) /\ blk[listhead] \in Elem
      /\ q \in Seq(Val) /\ Len(q) \in Nat /\ size = Len(q)
  <2>1. Shape(blk, listhead, listtail, q) /\ size = Len(q)
    BY DEF ListIs
  <2>2. /\ blk \in [Block -> Elem \cup {Null}] /\ listhead \in Used(blk) /\ blk[listhead] \in Elem
        /\ q \in Seq(Val)
    BY <2>1, ShapeBlocks, Zenon
  <2> QED BY <2>1, <2>2
<1>2. size > 0 /\ listtail' = listtail /\ size' = size - 1
  BY Zenon DEF list_get, Change
<1>3. size' = Len(Tail(q))
  BY <1>1, <1>2
<1>4. PICK r, off : Layout(blk, listhead, listtail, q, r, off)
  BY DEF ListIs, Shape
<1>5. Inner(blk, listhead, listtail)
  BY DEF ListIs, Shape
<1>6. CASE blk[listhead].nused > 0
  <2>1. /\ GotFrom(blk, listhead, blk') /\ listhead' = listhead
        /\ out' = blk[listhead].lslots[blk[listhead].first]
    <3>1. blk[listhead].nused # 0
      BY <1>1, <1>6, ElemFields
    <3> QED BY <3>1 DEF list_get, GotFrom
  <2> QED BY <1>2, <1>3, <1>4, <1>5, <1>6, <2>1, GetFrom
<1>7. CASE ~(blk[listhead].nused > 0)
  <2>1. blk[listhead].nused = 0
    BY <1>1, <1>7, ElemFields
  <2>2. PICK b : b = blk[listhead].listnext
    OBVIOUS
  <2>3. PICK bs : DroppedFront(blk, listhead, bs)
    BY DEF DroppedFront
  <2>4. /\ b # listhead /\ SameData(blk[b], bs[b])
        /\ \E r2 : Layout(bs, b, listtail, q, r2, off)
        /\ Inner(bs, b, listtail) /\ bs[b].nused > 0
    BY <1>1, <1>2, <1>4, <1>5, <2>1, <2>2, <2>3, DropFront
  <2>5. bs[b].first = blk[b].first /\ bs[b].nslots = blk[b].nslots /\ bs[b].lslots = blk[b].lslots
    BY <2>4 DEF SameData
  <2>6. bs = [blk EXCEPT ![listhead] = Null, ![b].listprev = Hdr]
    BY <2>2, <2>3, Zenon DEF DroppedFront
  <2>7. /\ GotFrom(bs, b, blk') /\ listhead' = b
        /\ out' = bs[b].lslots[bs[b].first]
    BY <2>1, <2>2, <2>4, <2>5, <2>6, Zenon DEF list_get, GotFrom
  <2> QED BY <1>2, <1>3, <2>4, <2>7, GetFrom
<1> QED BY <1>6, <1>7

LEMMA PullIs ==
  ASSUME NEW q, ListIs(q), list_pull
  PROVE  /\ Shape(blk', listhead', listtail', SubSeq(q, 1, Len(q) - 1))
         /\ size' = Len(SubSeq(q, 1, Len(q) - 1)) /\ q # <<>> /\ out' = q[Len(q)]
<1>1. /\ blk \in [Block -> Elem \cup {Null}] /\ listtail \in Used(blk) /\ blk[listtail] \in Elem
      /\ q \in Seq(Val) /\ Len(q) \in Nat /\ size = Len(q)
  <2>1. Shape(blk, listhead, listtail, q) /\ size = Len(q)
    BY DEF ListIs
  <2>2. /\ blk \in [Block -> Elem \cup {Null}] /\ listtail \in Used(blk) /\ blk[listtail] \in Elem
        /\ q \in Seq(Val)
    BY <2>1, ShapeBlocks, Zenon
  <2> QED BY <2>1, <2>2
<1>2. size > 0 /\ listhead' = listhead /\ size' = size - 1
  BY DEF list_pull, Change
<1>3. size' = Len(SubSeq(q, 1, Len(q) - 1))
  BY <1>1, <1>2
<1>4. PICK r, off : Layout(blk, listhead, listtail, q, r, off)
  BY DEF ListIs, Shape
<1>5. Inner(blk, listhead, listtail)
  BY DEF ListIs, Shape
<1>6. CASE blk[listtail].nused > 0
  <2>1. /\ PulledFrom(blk, listtail, blk') /\ listtail' = listtail
        /\ out' = blk[listtail].lslots[Slot(blk[listtail], blk[listtail].nused - 1)]
    <3>1. blk[listtail].nused # 0
      BY <1>1, <1>6, ElemFields
    <3> QED BY <3>1 DEF list_pull, PulledFrom
  <2> QED BY <1>2, <1>3, <1>4, <1>5, <1>6, <2>1, PullFrom
<1>7. CASE ~(blk[listtail].nused > 0)
  <2>1. blk[listtail].nused = 0
    BY <1>1, <1>7, ElemFields
  <2>2. PICK b : b = blk[listtail].listprev
    OBVIOUS
  <2>3. PICK bs : DroppedBack(blk, listtail, bs)
    BY DEF DroppedBack
  <2>4. /\ b # listtail /\ SameData(blk[b], bs[b])
        /\ \E r2 : Layout(bs, listhead, b, q, r2, off)
        /\ Inner(bs, listhead, b) /\ bs[b].nused > 0
    BY <1>1, <1>2, <1>4, <1>5, <2>1, <2>2, <2>3, DropBack
  <2>5. /\ bs[b].nused = blk[b].nused /\ bs[b].lslots = blk[b].lslots
        /\ Slot(bs[b], blk[b].nused - 1) = Slot(blk[b], blk[b].nused - 1)
    BY <2>4, SameRing DEF SameData
  <2>6. bs = [blk EXCEPT ![listtail] = Null, ![b].listnext = Hdr]
    BY <2>2, <2>3, Zenon DEF DroppedBack
  <2>7. /\ PulledFrom(bs, b, blk') /\ listtail' = b
        /\ out' = bs[b].lslots[Slot(bs[b], bs[b].nused - 1)]
    BY <2>1, <2>2, <2>4, <2>5, <2>6, Zenon DEF list_pull, PulledFrom
  <2> QED BY <1>2, <1>3, <2>4, <2>7, PullFrom
<1> QED BY <1>6, <1>7

LEMMA AssignedRecord ==
  ASSUME NEW le \in Elem, NEW pos, NEW v
  PROVE  Assigned(le, pos, v, [le EXCEPT !.lslots[Slot(le, pos)] = v])
<1>1. PICK n, f, u, ls, p, x : le = [nslots |-> n, first |-> f, nused |-> u,
                                     lslots |-> ls, listprev |-> p, listnext |-> x]
  BY ElemFields
<1>2. PICK i : i = Slot(le, pos)
  OBVIOUS
<1>3. [le EXCEPT !.lslots[i] = v] = [nslots |-> n, first |-> f, nused |-> u,
                                     lslots |-> [ls EXCEPT ![i] = v], listprev |-> p, listnext |-> x]
  BY <1>1
<1>4. /\ le.nslots = n /\ le.first = f /\ le.nused = u /\ le.lslots = ls
      /\ le.listprev = p /\ le.listnext = x
  BY <1>1
<1> QED BY <1>2, <1>3, <1>4 DEF Assigned

\* An assignment leaves every element where it is.
LEMMA AssignIs ==
  ASSUME NEW q, NEW r, NEW off, LaidOut(q, r, off), Inner(blk, listhead, listtail), size = Len(q),
         NEW i \in 1 .. size, NEW v \in Val, Assign(i, v)
  PROVE  /\ Layout(blk', listhead', listtail', ReplaceAt(q, i, v), r, off)
         /\ Inner(blk', listhead', listtail') /\ size' = Len(ReplaceAt(q, i, v))
         /\ \A k, c, p : Stands(blk, off, k, c, p) => Stands(blk', off, k, c, p)
<1>1. PICK b, pos : LelemForIndex(i) = <<b, pos>> /\ Stands(blk, off, i - 1, b, pos)
  BY LelemAt
<1>2. /\ b \in Used(blk) /\ pos \in Nat /\ pos < blk[b].nused /\ off[b] + pos = i - 1
  BY <1>1 DEF Stands
<1>3. blk \in [Block -> Elem \cup {Null}] /\ b \in Block /\ blk[b] \in Elem
  BY <1>2 DEF LaidOut, Layout, Linked, Used
<1>4. PICK le2 : le2 = [blk[b] EXCEPT !.lslots[Slot(blk[b], pos)] = v]
  OBVIOUS
<1>5. Assigned(blk[b], pos, v, le2)
  BY <1>3, <1>4, AssignedRecord
<1>6. /\ le2.nused = blk[b].nused
      /\ le2.listnext = blk[b].listnext /\ le2.listprev = blk[b].listprev
  BY <1>5 DEF Assigned
<1>7. blk' = [blk EXCEPT ![b] = le2] /\ listhead' = listhead /\ listtail' = listtail /\ size' = size
  <2>1. [blk EXCEPT ![b].lslots[Slot(blk[b], pos)] = v]
          = [blk EXCEPT ![b] = [blk[b] EXCEPT !.lslots[Slot(blk[b], pos)] = v]]
    BY <1>3
  <2> QED BY <1>1, <1>4, <2>1 DEF Assign
<1>8. /\ le2 \in Elem
      /\ \A p \in 0 .. blk[b].nused - 1 :
           le2.lslots[Slot(le2, p)] = IF p = pos THEN v ELSE blk[b].lslots[Slot(blk[b], p)]
  BY <1>2, <1>3, <1>5, AssignBlock
<1>9. Holds(q, off[b], blk[b])
  BY <1>2, BlockHolds DEF LaidOut
<1>10. Spliced(q, off[b], blk[b], le2, ReplaceAt(q, i, v))
  BY <1>2, <1>6, <1>8, <1>9, SpliceAssign
<1>11. Altered(blk, b, le2, blk')
  BY <1>6, <1>7 DEF Altered
<1>12. PICK off2 : /\ Layout(blk', listhead, listtail, ReplaceAt(q, i, v), r, off2)
                   /\ le2.nused = blk[b].nused => off2 = off
  BY <1>2, <1>8, <1>10, <1>11, OneBlock DEF LaidOut
<1>13. \A c \in Block : /\ c \in Used(blk') <=> c \in Used(blk)
                        /\ c \in Used(blk) => blk'[c].nused = blk[c].nused
  <2> SUFFICES ASSUME NEW c \in Block
               PROVE  /\ c \in Used(blk') <=> c \in Used(blk)
                      /\ c \in Used(blk) => blk'[c].nused = blk[c].nused
    OBVIOUS
  <2>1. CASE c = b
    <3>1. blk'[c] = le2 /\ blk'[c] # Null /\ c \in Used(blk)
      BY <1>2, <1>3, <1>7, <1>8, <2>1, ElemFields
    <3> QED BY <1>6, <2>1, <3>1 DEF Used
  <2>2. CASE c # b
    BY <1>3, <1>7, <2>2 DEF Used
  <2> QED BY <2>1, <2>2
<1>14. Inner(blk', listhead', listtail')
  BY <1>7, <1>13 DEF Inner, Used
<1>15. \A k, c, p : Stands(blk, off, k, c, p) => Stands(blk', off, k, c, p)
  BY <1>13 DEF Stands, Used
<1>16. size' = Len(ReplaceAt(q, i, v))
  BY <1>6, <1>7, <1>9, <1>10 DEF Spliced, Holds
<1>17. Layout(blk', listhead', listtail', ReplaceAt(q, i, v), r, off)
  BY <1>6, <1>7, <1>12
<1> QED BY <1>14, <1>15, <1>16, <1>17

\* A single block, with the elements of s.
LEMMA NewListIs ==
  ASSUME NEW s \in Seq(Val), NEW nslots \in 1 .. MaxSlots, Len(s) <= nslots, Len(s) <= MaxSize,
         NewList(s, nslots)
  PROVE  Shape(blk', listhead', listtail', s) /\ size' = Len(s)
<1>1. PICK b \in Unused :
        /\ blk' = [c \in Block |-> IF c # b THEN Null ELSE
                    [NewBlock(nslots, Hdr, Hdr) EXCEPT
                       !.nused = Len(s),
                       !.lslots = [i \in DOMAIN @ |-> IF i < Len(s) THEN s[i + 1] ELSE Null]]]
        /\ listhead' = b /\ listtail' = b
  BY Zenon DEF NewList
<1>2. b \in Block
  BY DEF Unused
<1>3. PICK ls : ls = [i \in 0 .. nslots - 1 |-> IF i < Len(s) THEN s[i + 1] ELSE Null]
  OBVIOUS
<1>4. PICK le : le = [nslots |-> nslots, first |-> 0, nused |-> Len(s), lslots |-> ls,
                      listprev |-> Hdr, listnext |-> Hdr]
  OBVIOUS
<1>5. [NewBlock(nslots, Hdr, Hdr) EXCEPT
         !.nused = Len(s),
         !.lslots = [i \in DOMAIN @ |-> IF i < Len(s) THEN s[i + 1] ELSE Null]] = le
  <2>1. PICK z : z = [i \in 0 .. nslots - 1 |-> Null]
    OBVIOUS
  <2>2. DOMAIN z = 0 .. nslots - 1
    BY <2>1
  <2>3. NewBlock(nslots, Hdr, Hdr) = [nslots |-> nslots, first |-> 0, nused |-> 0, lslots |-> z,
                                      listprev |-> Hdr, listnext |-> Hdr]
    BY <2>1 DEF NewBlock
  <2>4. PICK e : e = [nslots |-> nslots, first |-> 0, nused |-> 0, lslots |-> z,
                      listprev |-> Hdr, listnext |-> Hdr]
    OBVIOUS
  <2>5. [[e EXCEPT !.nused = Len(s)] EXCEPT
           !.lslots = [i \in DOMAIN @ |-> IF i < Len(s) THEN s[i + 1] ELSE Null]]
          = [nslots |-> nslots, first |-> 0, nused |-> Len(s),
             lslots |-> [i \in DOMAIN z |-> IF i < Len(s) THEN s[i + 1] ELSE Null],
             listprev |-> Hdr, listnext |-> Hdr]
    <3>1. PICK e2 : e2 = [e EXCEPT !.nused = Len(s)]
      OBVIOUS
    <3>2. e2 = [nslots |-> nslots, first |-> 0, nused |-> Len(s), lslots |-> z,
                listprev |-> Hdr, listnext |-> Hdr]
      BY <2>4, <3>1
    <3>3. [e2 EXCEPT !.lslots = [i \in DOMAIN @ |-> IF i < Len(s) THEN s[i + 1] ELSE Null]]
            = [nslots |-> nslots, first |-> 0, nused |-> Len(s),
               lslots |-> [i \in DOMAIN z |-> IF i < Len(s) THEN s[i + 1] ELSE Null],
               listprev |-> Hdr, listnext |-> Hdr]
      BY <3>2
    <3> QED BY <3>1, <3>3
  <2>6. [e EXCEPT !.nused = Len(s),
                  !.lslots = [i \in DOMAIN @ |-> IF i < Len(s) THEN s[i + 1] ELSE Null]]
          = [[e EXCEPT !.nused = Len(s)] EXCEPT
               !.lslots = [i \in DOMAIN @ |-> IF i < Len(s) THEN s[i + 1] ELSE Null]]
    OBVIOUS
  <2>7. [i \in DOMAIN z |-> IF i < Len(s) THEN s[i + 1] ELSE Null] = ls
    BY <1>3, <2>2
  <2> QED BY <1>4, <2>3, <2>4, <2>5, <2>6, <2>7
<1>6. Len(s) \in Nat /\ MaxSlots \in Nat /\ \A k \in 1 .. Len(s) : s[k] \in Val
  BY ListAssumption DEF MaxSlots
<1>7. ls \in [0 .. nslots - 1 -> Val \cup {Null}]
  <2> SUFFICES ASSUME NEW i \in 0 .. nslots - 1
               PROVE  (IF i < Len(s) THEN s[i + 1] ELSE Null) \in Val \cup {Null}
    BY <1>3
  <2> QED BY <1>6
<1>8. le \in Elem
  <2>1. 0 \in 0 .. nslots - 1 /\ Len(s) \in 0 .. nslots
    BY <1>6
  <2> QED BY <1>4, <1>7, <2>1, ElemMade
<1>9. le.listnext = Hdr /\ le.listprev = Hdr /\ le.nused = Len(s)
  BY <1>4
<1>10. \A p \in 0 .. le.nused - 1 : s[p + 1] = le.lslots[Slot(le, p)]
  <2> SUFFICES ASSUME NEW p \in 0 .. Len(s) - 1 PROVE s[p + 1] = le.lslots[Slot(le, p)]
    BY <1>9
  <2>1. le.first = 0 /\ le.nslots = nslots /\ le.lslots = ls
    BY <1>4
  <2>2. Slot(le, p) = p
    BY <1>6, <2>1 DEF Slot
  <2>3. p \in 0 .. nslots - 1 /\ p < Len(s)
    BY <1>6
  <2> QED BY <1>3, <2>1, <2>2, <2>3
<1>11. blk' = [c \in Block |-> IF c # b THEN Null ELSE le]
  BY <1>1, <1>5, Zenon
<1>12. (\E r, off : Layout(blk', b, b, s, r, off)) /\ Used(blk') = {b}
  BY <1>2, <1>8, <1>9, <1>10, <1>11, Single
<1>13. Inner(blk', b, b)
  BY <1>12 DEF Inner
<1>14. size' = Len(s)
  BY Zenon DEF NewList
<1> QED BY <1>1, <1>12, <1>13, <1>14, Zenon DEF Shape

\* What moving elements makes of a block's record.
Moved(le, first, nused, ls, le2) ==
  le2 = [nslots |-> le.nslots, first |-> first, nused |-> nused, lslots |-> ls,
         listprev |-> le.listprev, listnext |-> le.listnext]

LEMMA MovedRecord ==
  ASSUME NEW le \in Elem, NEW first, NEW ls
  PROVE  /\ Moved(le, first, le.nused + 1, ls,
                  [le EXCEPT !.first = first, !.nused = @ + 1, !.lslots = ls])
         /\ Moved(le, le.first, le.nused - 1, ls, [le EXCEPT !.lslots = ls, !.nused = @ - 1])
<1>1. PICK n, f, u, ls0, p, x : le = [nslots |-> n, first |-> f, nused |-> u,
                                      lslots |-> ls0, listprev |-> p, listnext |-> x]
  BY ElemFields
<1> DEFINE e1 == [le EXCEPT !.first = first]
           e2 == [e1 EXCEPT !.nused = @ + 1]
           e3 == [e2 EXCEPT !.lslots = ls]
           d1 == [le EXCEPT !.lslots = ls]
           d2 == [d1 EXCEPT !.nused = @ - 1]
<1>2. /\ [le EXCEPT !.first = first, !.nused = @ + 1, !.lslots = ls] = e3
      /\ [le EXCEPT !.lslots = ls, !.nused = @ - 1] = d2
  OBVIOUS
<1>3. /\ e1 = [nslots |-> n, first |-> first, nused |-> u,
               lslots |-> ls0, listprev |-> p, listnext |-> x]
      /\ d1 = [nslots |-> n, first |-> f, nused |-> u,
               lslots |-> ls, listprev |-> p, listnext |-> x]
  BY <1>1
<1> HIDE DEF e1, d1
<1>4. /\ e2 = [nslots |-> n, first |-> first, nused |-> u + 1,
               lslots |-> ls0, listprev |-> p, listnext |-> x]
      /\ d2 = [nslots |-> n, first |-> f, nused |-> u - 1,
               lslots |-> ls, listprev |-> p, listnext |-> x]
  BY <1>3
<1> HIDE DEF e2, d2
<1>5. e3 = [nslots |-> n, first |-> first, nused |-> u + 1,
            lslots |-> ls, listprev |-> p, listnext |-> x]
  BY <1>4
<1>6. le.nslots = n /\ le.first = f /\ le.nused = u /\ le.listprev = p /\ le.listnext = x
  BY <1>1
<1> HIDE DEF e3
<1> QED BY <1>2, <1>4, <1>5, <1>6 DEF Moved

\* Where b is cut out, what it held does not matter.
Agree(f, g, b) ==
  /\ f = [c \in Block |-> f[c]] /\ g = [c \in Block |-> g[c]]
  /\ \A c \in Block : c # b => f[c] = g[c]

LEMMA AgreeOn ==
  ASSUME NEW f, NEW g, NEW b \in Block, Agree(f, g, b), NEW x \in Block, x # b, NEW n
  PROVE  /\ Agree([f EXCEPT ![x].listnext = n], [g EXCEPT ![x].listnext = n], b)
         /\ Agree([f EXCEPT ![x].listprev = n], [g EXCEPT ![x].listprev = n], b)
         /\ [f EXCEPT ![b] = Null] = [g EXCEPT ![b] = Null]
BY DEF Agree

LEMMA CutSame ==
  ASSUME NEW bs, NEW bs0, NEW b \in Block, Agree(bs, bs0, b), NEW hd, NEW tl,
         bs[b].listprev = bs0[b].listprev, bs[b].listnext = bs0[b].listnext,
         hd # b => bs[b].listprev \in Block /\ bs[b].listprev # b,
         tl # b => bs[b].listnext \in Block /\ bs[b].listnext # b,
         NEW next, NEW prev, NEW bs2, Cut(bs, hd, tl, b, next, prev, bs2)
  PROVE  Cut(bs0, hd, tl, b, next, prev, bs2)
<1>1. PICK x, y : x = bs[b].listprev /\ y = bs[b].listnext
  OBVIOUS
<1> DEFINE f1 == IF hd = b THEN bs ELSE [bs EXCEPT ![x].listnext = next]
           g1 == IF hd = b THEN bs0 ELSE [bs0 EXCEPT ![x].listnext = next]
           f2 == IF tl = b THEN f1 ELSE [f1 EXCEPT ![y].listprev = prev]
           g2 == IF tl = b THEN g1 ELSE [g1 EXCEPT ![y].listprev = prev]
<1>2. Agree(f1, g1, b)
  BY <1>1, AgreeOn
<1> HIDE DEF f1, g1
<1>3. Agree(f2, g2, b)
  BY <1>1, <1>2, AgreeOn
<1> HIDE DEF f2, g2
<1>4. [f2 EXCEPT ![b] = Null] = [g2 EXCEPT ![b] = Null]
  BY <1>3 DEF Agree
<1>5. bs2 = [f2 EXCEPT ![b] = Null]
  BY <1>1 DEF Cut, f2, f1
<1>6. bs2 = [g2 EXCEPT ![b] = Null]
  BY <1>4, <1>5
<1> QED BY <1>1, <1>6 DEF Cut, g2, g1

LEMMA DelIs ==
  ASSUME NEW q, ListIs(q), NEW i \in 1 .. size, list_del(i)
  PROVE  Shape(blk', listhead', listtail', RemoveAt(q, i)) /\ size' = Len(RemoveAt(q, i))
<1>1. PICK r, off : LaidOut(q, r, off)
  BY DEF ListIs, Shape, LaidOut
<1>2. /\ Layout(blk, listhead, listtail, q, r, off) /\ Linked(blk, listhead, listtail, r)
      /\ Inner(blk, listhead, listtail) /\ size = Len(q) /\ blk \in [Block -> Elem \cup {Null}]
  BY <1>1 DEF ListIs, Shape, LaidOut, Layout, Linked
<1>3. PICK b, pos : LelemForIndex(i) = <<b, pos>> /\ Stands(blk, off, i - 1, b, pos)
  BY <1>1, <1>2, LelemAt
<1>4. /\ b \in Used(blk) /\ pos \in Nat /\ pos < blk[b].nused /\ off[b] + pos = i - 1
      /\ b \in Block /\ blk[b] \in Elem
  BY <1>2, <1>3 DEF Stands, Used
<1>5. PICK ls :
        ls = [k \in DOMAIN blk[b].lslots |->
               LET p == IF k >= blk[b].first THEN k - blk[b].first
                        ELSE k - blk[b].first + blk[b].nslots
               IN IF p < pos \/ p >= blk[b].nused THEN blk[b].lslots[k]
                  ELSE IF p = blk[b].nused - 1 THEN Null ELSE blk[b].lslots[Slot(blk[b], p + 1)]]
  OBVIOUS
<1>6. PICK le2 : le2 = [blk[b] EXCEPT !.lslots = ls, !.nused = @ - 1]
  OBVIOUS
<1>7. le2 = [nslots |-> blk[b].nslots, first |-> blk[b].first, nused |-> blk[b].nused - 1,
             lslots |-> ls, listprev |-> blk[b].listprev, listnext |-> blk[b].listnext]
  <2>1. Moved(blk[b], blk[b].first, blk[b].nused - 1, ls, le2)
    BY <1>4, <1>6, MovedRecord, Zenon
  <2> QED BY <2>1 DEF Moved
<1>8. MovedDown(blk[b], pos, le2)
  BY <1>5, <1>7 DEF MovedDown
<1>9. PICK bs : bs = [blk EXCEPT ![b] = le2]
  OBVIOUS
<1>10. [blk EXCEPT ![b].lslots = ls, ![b].nused = @ - 1] = bs
  <2>1. [blk EXCEPT ![b].lslots = ls, ![b].nused = @ - 1]
          = [blk EXCEPT ![b] = [blk[b] EXCEPT !.lslots = ls, !.nused = @ - 1]]
    BY <1>2, <1>4
  <2> QED BY <1>6, <1>9, <2>1
<1>11. IF blk[b].nused = 1 /\ ~(listhead = b /\ listtail = b)
       THEN Unlink(bs, b, blk[b].listnext, blk[b].listprev)
       ELSE blk' = bs /\ listhead' = listhead /\ listtail' = listtail
  <2> DEFINE L == [k \in DOMAIN blk[b].lslots |->
                    LET p == IF k >= blk[b].first THEN k - blk[b].first
                             ELSE k - blk[b].first + blk[b].nslots
                    IN IF p < pos \/ p >= blk[b].nused THEN blk[b].lslots[k]
                       ELSE IF p = blk[b].nused - 1 THEN Null
                       ELSE blk[b].lslots[Slot(blk[b], p + 1)]]
             B == [blk EXCEPT ![b].lslots = L, ![b].nused = @ - 1]
  <2>1. LelemForIndex(i)[1] = b /\ LelemForIndex(i)[2] = pos
    BY <1>3
  <2>2. IF blk[b].nused = 1 /\ ~(listhead = b /\ listtail = b)
        THEN Unlink(B, b, blk[b].listnext, blk[b].listprev)
        ELSE blk' = B /\ listhead' = listhead /\ listtail' = listtail
    BY <2>1 DEF list_del
  <2>3. L = ls
    BY <1>5
  <2> HIDE DEF L
  <2>4. B = bs
    BY <1>10, <2>3
  <2> HIDE DEF B
  <2> QED BY <2>2, <2>4
<1>12. /\ le2 \in Elem
       /\ \A p \in 0 .. blk[b].nused - 2 :
            le2.lslots[Slot(le2, p)] = IF p < pos THEN blk[b].lslots[Slot(blk[b], p)]
                                       ELSE blk[b].lslots[Slot(blk[b], p + 1)]
  BY <1>4, <1>8, DelBlock
<1>13. /\ le2.nused = blk[b].nused - 1
       /\ le2.listprev = blk[b].listprev /\ le2.listnext = blk[b].listnext
  BY <1>7
<1>14. Holds(q, off[b], blk[b])
  BY <1>2, <1>4, BlockHolds
<1>15. Spliced(q, off[b], blk[b], le2, RemoveAt(q, i))
  BY <1>4, <1>12, <1>13, <1>14, SpliceDel
<1>16. Altered(blk, b, le2, bs)
  BY <1>9, <1>13 DEF Altered
<1>17. size' = Len(RemoveAt(q, i))
  <2>1. size' = size - 1
    BY Zenon DEF list_del, Change
  <2>2. Len(RemoveAt(q, i)) = Len(q) + le2.nused - blk[b].nused
    BY <1>15 DEF Spliced
  <2>3. blk[b].nused \in Nat /\ Len(q) \in Nat
    BY <1>14 DEF Holds
  <2> QED BY <1>2, <1>13, <2>1, <2>2, <2>3
<1>18. CASE ~(blk[b].nused = 1 /\ ~(listhead = b /\ listtail = b))
  <2>1. le2.nused > 0 \/ b \in {listhead, listtail}
    BY <1>4, <1>13, <1>14, <1>18 DEF Holds
  <2>2. Shape(bs, listhead, listtail, RemoveAt(q, i))
    BY <1>2, <1>4, <1>12, <1>15, <1>16, <2>1, ShapeOne
  <2> QED BY <1>11, <1>17, <1>18, <2>2
<1>19. CASE blk[b].nused = 1 /\ ~(listhead = b /\ listtail = b)
  <2>1. Unlink(bs, b, blk[b].listnext, blk[b].listprev)
    BY <1>11, <1>19
  <2>2. /\ bs[b] = le2 /\ bs[b].listprev = blk[b].listprev /\ bs[b].listnext = blk[b].listnext
        /\ bs[b].nused = 0 /\ b \in Used(bs)
    BY <1>2, <1>4, <1>9, <1>12, <1>13, <1>19, ElemFields DEF Used
  <2>3. Cut(bs, listhead, listtail, b, bs[b].listnext, bs[b].listprev, blk')
    BY <2>1, <2>2 DEF Unlink, Cut
  <2>4. PICK off2 : Layout(bs, listhead, listtail, RemoveAt(q, i), r, off2)
    BY <1>2, <1>4, <1>12, <1>15, <1>16, OneBlock, Zenon
  <2>5. /\ \E r2 : Layout(blk', IF listhead = b THEN bs[b].listnext ELSE listhead,
                          IF listtail = b THEN bs[b].listprev ELSE listtail,
                          RemoveAt(q, i), r2, off2)
        /\ Used(blk') = Used(bs) \ {b}
        /\ \A c \in Used(bs) \ {b} : SameData(bs[c], blk'[c])
    BY <1>19, <2>2, <2>3, <2>4, DropBlock
  <2>6. /\ listhead' = IF listhead = b THEN bs[b].listnext ELSE listhead
        /\ listtail' = IF listtail = b THEN bs[b].listprev ELSE listtail
    BY <2>1, <2>2 DEF Unlink
  <2>7. \E r2, off3 : Layout(blk', listhead', listtail', RemoveAt(q, i), r2, off3)
    BY <2>5, <2>6
  <2>8. Inner(blk', listhead', listtail')
    <3> SUFFICES ASSUME NEW c \in Used(blk') \ {listhead', listtail'} PROVE blk'[c].nused > 0
      BY DEF Inner
    <3>1. c \in Used(bs) \ {b} /\ SameData(bs[c], blk'[c])
      BY <2>5
    <3>2. c \in Used(blk) /\ bs[c] = blk[c]
      BY <1>2, <1>9, <3>1 DEF Used
    <3>3. c \notin {listhead, listtail}
      BY <2>6, <3>1
    <3> QED BY <1>2, <3>1, <3>2, <3>3 DEF Inner, SameData
  <2> QED BY <1>17, <2>7, <2>8 DEF Shape
<1> QED BY <1>18, <1>19

LEMMA ClearIs ==
  ASSUME NEW q, ListIs(q), list_clear
  PROVE  Shape(blk', listhead', listtail', <<>>) /\ size' = 0
<1>1. PICK r, off : Layout(blk, listhead, listtail, q, r, off)
  BY DEF ListIs, Shape
<1>2. Linked(blk, listhead, listtail, r) /\ listhead \in Used(blk)
  BY <1>1 DEF Layout, Linked
<1>3. listhead \in Block /\ blk[listhead] \in Elem /\ blk[listhead].listprev = Hdr
  BY <1>2, LinkedBlock DEF PrevLink
<1>4. PICK ls :
        ls = [k \in DOMAIN blk[listhead].lslots |->
               IF \E p \in 0 .. blk[listhead].nused - 1 : Slot(blk[listhead], p) = k
               THEN Null ELSE blk[listhead].lslots[k]]
  OBVIOUS
<1>5. PICK le2 : le2 = [blk[listhead] EXCEPT !.lslots = ls, !.nused = 0, !.listnext = Hdr]
  OBVIOUS
<1>6. Cleared(blk[listhead], le2)
  BY <1>4, <1>5, Zenon DEF Cleared
<1>7. le2 \in Elem /\ le2.nused = 0 /\ le2.listprev = Hdr /\ le2.listnext = Hdr
  BY <1>3, <1>6, ClearBlock
<1>8. blk' = [c \in Block |-> IF c = listhead THEN le2 ELSE Null]
  BY <1>4, <1>5, Zenon DEF list_clear
<1>9. PICK b \in Block : b = listhead
  BY <1>3
<1>10. blk' = [c \in Block |-> IF c # b THEN Null ELSE le2]
  BY <1>8, <1>9
<1>11. <<>> \in Seq(Val) /\ Len(<<>>) = le2.nused /\ Len(<<>>) <= MaxSize
  BY <1>7, ListAssumption
<1>12. \A p \in 0 .. le2.nused - 1 : <<>>[p + 1] = le2.lslots[Slot(le2, p)]
  BY <1>7
<1>13. (\E r2, off2 : Layout(blk', b, b, <<>>, r2, off2)) /\ Used(blk') = {b}
  BY <1>7, <1>10, <1>11, <1>12, Single
<1>14. listhead' = b /\ listtail' = b /\ size' = 0
  BY <1>9, Zenon DEF list_clear, Change
<1>15. Inner(blk', b, b)
  BY <1>13 DEF Inner
<1> QED BY <1>13, <1>14, <1>15 DEF Shape

LEMMA InsertIs ==
  ASSUME NEW q, ListIs(q), NEW i \in 1 .. size, NEW v \in Val, list_insert(i, v)
  PROVE  Shape(blk', listhead', listtail', InsertAt(q, i, v)) /\ size' = Len(InsertAt(q, i, v))
<1>1. PICK r, off : LaidOut(q, r, off)
  BY DEF ListIs, Shape, LaidOut
<1>2. /\ Layout(blk, listhead, listtail, q, r, off) /\ Linked(blk, listhead, listtail, r)
      /\ Inner(blk, listhead, listtail) /\ size = Len(q) /\ blk \in [Block -> Elem \cup {Null}]
  BY <1>1 DEF ListIs, Shape, LaidOut, Layout, Linked
<1>3. PICK b, pos : LelemForIndex(i) = <<b, pos>> /\ Stands(blk, off, i - 1, b, pos)
  BY <1>1, <1>2, LelemAt
<1>4. /\ b \in Used(blk) /\ pos \in Nat /\ pos < blk[b].nused /\ off[b] + pos = i - 1
      /\ b \in Block /\ blk[b] \in Elem /\ blk[b] # Null
  BY <1>2, <1>3 DEF Stands, Used
<1>5. LelemForIndex(i)[1] = b /\ LelemForIndex(i)[2] = pos
  BY <1>3
<1>6. Holds(q, off[b], blk[b])
  BY <1>2, <1>4, BlockHolds, Zenon
<1>7. size < MaxSize /\ size' = size + 1
  BY Zenon DEF list_insert, Change
<1>8. \A le2 : Inserted(blk[b], pos, v, le2)
                 => /\ le2 \in Elem /\ le2.nused > 0 /\ le2.nused = blk[b].nused + 1
                    /\ Spliced(q, off[b], blk[b], le2, InsertAt(q, i, v))
  <2> SUFFICES ASSUME NEW le2, Inserted(blk[b], pos, v, le2)
               PROVE  /\ le2 \in Elem /\ le2.nused > 0 /\ le2.nused = blk[b].nused + 1
                      /\ Spliced(q, off[b], blk[b], le2, InsertAt(q, i, v))
    OBVIOUS
  <2>1. le2 \in Elem /\ le2.nused = blk[b].nused + 1 /\ blk[b].nused \in Nat
    BY <1>6 DEF Inserted, Holds
  <2>2. Spliced(q, off[b], blk[b], le2, InsertAt(q, i, v))
    BY <1>2, <1>4, <1>6, <1>7, SpliceInsert
  <2> QED BY <2>1, <2>2
<1>9. size' = Len(InsertAt(q, i, v))
  <2>1. q \in Seq(Val)
    BY <1>6 DEF Holds
  <2> QED BY <1>2, <1>7, <2>1, InsertAtIs
<1>10. CASE blk[b].nused < blk[b].nslots
  <2>1. PICK first, ls :
          /\ first = BeforeFirst(blk[b])
          /\ ls = [k \in DOMAIN blk[b].lslots |->
                    LET p == IF k >= first THEN k - first ELSE k - first + blk[b].nslots
                    IN IF p < pos THEN blk[b].lslots[Slot(blk[b], p)]
                       ELSE IF p = pos THEN v ELSE blk[b].lslots[k]]
    OBVIOUS
  <2>2. PICK le2 : le2 = [blk[b] EXCEPT !.first = first, !.nused = @ + 1, !.lslots = ls]
    OBVIOUS
  <2>3. le2 = [nslots |-> blk[b].nslots, first |-> first, nused |-> blk[b].nused + 1,
               lslots |-> ls, listprev |-> blk[b].listprev, listnext |-> blk[b].listnext]
    <3>1. Moved(blk[b], first, blk[b].nused + 1, ls, le2)
      BY <1>4, <2>2, MovedRecord, Zenon
    <3> QED BY <3>1 DEF Moved
  <2>4. MovedBack(blk[b], pos, v, le2)
    BY <2>1, <2>3 DEF MovedBack
  <2>5. Inserted(blk[b], pos, v, le2)
    BY <1>4, <1>10, <2>4, InsertBlock
  <2>6. blk' = [blk EXCEPT ![b] = le2] /\ listhead' = listhead /\ listtail' = listtail
    <3> DEFINE L == [k \in DOMAIN blk[b].lslots |->
                      LET p == IF k >= BeforeFirst(blk[b]) THEN k - BeforeFirst(blk[b])
                               ELSE k - BeforeFirst(blk[b]) + blk[b].nslots
                      IN IF p < pos THEN blk[b].lslots[Slot(blk[b], p)]
                         ELSE IF p = pos THEN v ELSE blk[b].lslots[k]]
    <3>1. /\ blk' = [blk EXCEPT ![b].first = BeforeFirst(blk[b]), ![b].nused = @ + 1, ![b].lslots = L]
          /\ listhead' = listhead /\ listtail' = listtail
      BY <1>5, <1>10 DEF list_insert
    <3>2. L = ls
      BY <2>1
    <3> HIDE DEF L
    <3>3. [blk EXCEPT ![b].first = first, ![b].nused = @ + 1, ![b].lslots = ls]
            = [blk EXCEPT ![b] = [blk[b] EXCEPT !.first = first, !.nused = @ + 1, !.lslots = ls]]
      BY <1>2, <1>4
    <3> QED BY <2>1, <2>2, <3>1, <3>2, <3>3
  <2>7. le2.listprev = blk[b].listprev /\ le2.listnext = blk[b].listnext
    BY <2>3
  <2>8. Altered(blk, b, le2, blk')
    BY <2>6, <2>7 DEF Altered
  <2>9. Shape(blk', listhead, listtail, InsertAt(q, i, v))
    BY <1>2, <1>4, <1>8, <2>5, <2>8, ShapeOne
  <2> QED BY <1>9, <2>6, <2>9
<1>11. CASE ~(blk[b].nused < blk[b].nslots)
  <2>1. PICK n : n = Minimum(blk[b].nslots + MinListSlots, 2 * blk[b].nslots)
    OBVIOUS
  <2>2. n \in 1 .. MaxSlots /\ blk[b].nused < n
    <3>1. PICK m, u \in Nat : m = blk[b].nslots /\ u = blk[b].nused /\ u = m /\ m > 0
      BY <1>4, <1>11, ElemFields
    <3>2. u < MaxSize /\ MaxSize \in Nat /\ MinListSlots \in Nat \ {0}
      BY <1>2, <1>6, <1>7, <3>1, ListAssumption DEF Holds
    <3> QED BY <2>1, <3>1, <3>2 DEF Minimum, MaxSlots
  <2>3. PICK ls :
          ls = [k \in 0 .. n - 1 |->
                 IF k > blk[b].nused THEN Null ELSE IF k = pos THEN v
                 ELSE blk[b].lslots[Slot(blk[b], IF k < pos THEN k ELSE k - 1)]]
    OBVIOUS
  <2>4. PICK le2 : le2 = [nslots |-> n, first |-> 0, nused |-> blk[b].nused + 1, lslots |-> ls,
                          listprev |-> blk[b].listprev, listnext |-> blk[b].listnext]
    OBVIOUS
  <2>5. [NewBlock(n, blk[b].listprev, blk[b].listnext) EXCEPT
           !.nused = blk[b].nused + 1, !.lslots = ls] = le2
    <3>1. PICK z, p, x, u : /\ z = [j \in 0 .. n - 1 |-> Null] /\ p = blk[b].listprev
                            /\ x = blk[b].listnext /\ u = blk[b].nused + 1
      OBVIOUS
    <3>2. PICK e : e = [nslots |-> n, first |-> 0, nused |-> 0, lslots |-> z,
                        listprev |-> p, listnext |-> x]
      OBVIOUS
    <3>3. NewBlock(n, p, x) = e
      BY <3>1, <3>2 DEF NewBlock
    <3>4. PICK e1 : e1 = [e EXCEPT !.nused = u]
      OBVIOUS
    <3>5. e1 = [nslots |-> n, first |-> 0, nused |-> u, lslots |-> z,
                listprev |-> p, listnext |-> x]
      BY <3>2, <3>4
    <3>6. [e1 EXCEPT !.lslots = ls] = [nslots |-> n, first |-> 0, nused |-> u, lslots |-> ls,
                                       listprev |-> p, listnext |-> x]
      BY <3>5
    <3>7. [e EXCEPT !.nused = u, !.lslots = ls] = [[e EXCEPT !.nused = u] EXCEPT !.lslots = ls]
      OBVIOUS
    <3> QED BY <2>4, <3>1, <3>3, <3>4, <3>6, <3>7
  <2>6. Regrown(blk[b], n, pos, v, le2)
    BY <2>3, <2>4 DEF Regrown
  <2>7. Inserted(blk[b], pos, v, le2)
    BY <1>4, <2>2, <2>6, InsertNewBlock
  <2>8. PICK b2 \in Unused : Unlink([blk EXCEPT ![b2] = le2], b, b2, b2)
    <3> DEFINE N == Minimum(blk[b].nslots + MinListSlots, 2 * blk[b].nslots)
               L == [k \in 0 .. N - 1 |->
                      IF k > blk[b].nused THEN Null ELSE IF k = pos THEN v
                      ELSE blk[b].lslots[Slot(blk[b], IF k < pos THEN k ELSE k - 1)]]
               E == [NewBlock(N, blk[b].listprev, blk[b].listnext) EXCEPT
                       !.nused = blk[b].nused + 1, !.lslots = L]
    <3>1. \E b2 \in Unused : Unlink([blk EXCEPT ![b2] = E], b, b2, b2)
      BY <1>5, <1>11, Zenon DEF list_insert
    <3>2. N = n
      BY <2>1
    <3> HIDE DEF N
    <3>3. L = ls
      BY <2>3, <3>2
    <3> HIDE DEF L
    <3>4. E = le2
      BY <2>5, <3>2, <3>3
    <3> HIDE DEF E
    <3> QED BY <3>1, <3>4
  <2>9. b2 \in Block /\ blk[b2] = Null /\ b2 # b
    BY <1>4 DEF Unused
  <2>10. /\ le2.listprev = blk[b].listprev /\ le2.listnext = blk[b].listnext
    BY <2>4
  <2>11. PICK bsA, bsU, bs0 : /\ bsA = [blk EXCEPT ![b] = le2] /\ bsU = [blk EXCEPT ![b2] = le2]
                              /\ bs0 = [bsA EXCEPT ![b2] = bsA[b]] /\ Doubled(bsA, b, b2, bs0)
    BY DEF Doubled
  <2>12. Altered(blk, b, le2, bsA)
    BY <2>10, <2>11 DEF Altered
  <2>13. PICK off2 : Layout(bsA, listhead, listtail, InsertAt(q, i, v), r, off2)
    BY <1>2, <1>4, <1>8, <2>7, <2>12, OneBlock
  <2>14. /\ bsA[b] = le2 /\ bsA[b2] = Null /\ b \in Used(bsA) /\ bsU[b] = blk[b] /\ bs0[b] = le2
    BY <1>2, <1>4, <1>8, <2>7, <2>9, <2>11, ElemFields DEF Used
  <2>15. Agree(bsU, bs0, b)
    BY <1>2, <1>4, <2>9, <2>11, <2>14 DEF Agree
  <2>16. /\ listhead # b => bsU[b].listprev \in Block /\ bsU[b].listprev # b
         /\ listtail # b => bsU[b].listnext \in Block /\ bsU[b].listnext # b
    <3>1. NextLink(blk, listtail, r, b) /\ PrevLink(blk, listhead, r, b) /\ r[b] \in Int
      BY <1>2, <1>4, LinkedBlock
    <3>2. listhead # b => bsU[b].listprev \in Block /\ bsU[b].listprev # b
      BY <2>14, <3>1 DEF PrevLink, Used
    <3>3. listtail # b => bsU[b].listnext \in Block /\ bsU[b].listnext # b
      BY <2>14, <3>1 DEF NextLink, Used
    <3> QED BY <3>2, <3>3
  <2>17. Cut(bsU, listhead, listtail, b, b2, b2, blk')
    BY <2>8, <2>11, <2>14 DEF Unlink, Cut
  <2>18. Cut(bs0, listhead, listtail, b, b2, b2, blk')
    <3>1. bsU[b].listprev = bs0[b].listprev /\ bsU[b].listnext = bs0[b].listnext
      BY <2>10, <2>14
    <3> QED BY <1>4, <2>15, <2>16, <2>17, <3>1, CutSame
  <2>19. /\ \E r2, off3 : Layout(blk', IF listhead = b THEN b2 ELSE listhead,
                                 IF listtail = b THEN b2 ELSE listtail, InsertAt(q, i, v), r2, off3)
         /\ Used(blk') = (Used(bsA) \ {b}) \cup {b2}
         /\ SameData(bsA[b], blk'[b2])
         /\ \A c \in Used(bsA) \ {b} : SameData(bsA[c], blk'[c])
    <3>1. Doubled(bsA, b, b2, bs0) /\ bsA[b2] = Null
      BY <2>11, <2>14
    <3>2. b \in Used(bsA) /\ b2 \in Block
      BY <2>9, <2>14
    <3> QED BY <2>13, <2>18, <3>1, <3>2, Renamed
  <2>20. /\ listhead' = IF listhead = b THEN b2 ELSE listhead
         /\ listtail' = IF listtail = b THEN b2 ELSE listtail
    BY <2>8 DEF Unlink
  <2>21. Inner(blk', listhead', listtail')
    <3> SUFFICES ASSUME NEW c \in Used(blk') \ {listhead', listtail'} PROVE blk'[c].nused > 0
      BY DEF Inner
    <3>1. CASE c = b2
      BY <1>8, <2>7, <2>14, <2>19, <3>1 DEF SameData
    <3>2. CASE c # b2
      <4>1. c \in Used(bsA) \ {b} /\ SameData(bsA[c], blk'[c])
        BY <2>19, <3>2
      <4>2. c \in Used(blk) /\ bsA[c] = blk[c]
        BY <1>2, <2>11, <4>1 DEF Used
      <4>3. c \notin {listhead, listtail}
        BY <2>20, <4>1
      <4> QED BY <1>2, <4>1, <4>2, <4>3 DEF Inner, SameData
    <3> QED BY <3>1, <3>2
  <2>22. \E r2, off3 : Layout(blk', listhead', listtail', InsertAt(q, i, v), r2, off3)
    BY <2>19, <2>20
  <2> QED BY <1>9, <2>21, <2>22 DEF Shape
<1> QED BY <1>10, <1>11

----------------------------------------------------------------------------
(* The generator *)

LEMMA LgFields ==
  ASSUME NEW g \in LgState
  PROVE  /\ g.way \in {"next", "prev"} /\ g.le \in Block \cup {Null} /\ g.blockpos \in 0 .. MaxSize
         /\ g.listsize \in 1 .. MaxSize /\ g.listindex \in 1 .. g.listsize /\ MaxSize \in Nat
         /\ g # Null
         /\ g = [way |-> g.way, le |-> g.le, blockpos |-> g.blockpos,
                 listindex |-> g.listindex, listsize |-> g.listsize]
BY ListAssumption DEF LgState

LEMMA LgMade ==
  ASSUME NEW way \in {"next", "prev"}, NEW le \in Block \cup {Null}, NEW pos \in 0 .. MaxSize,
         NEW n \in 1 .. MaxSize, NEW i \in 1 .. n
  PROVE  [way |-> way, le |-> le, blockpos |-> pos, listindex |-> i, listsize |-> n] \in LgState
BY DEF LgState

\* Where the generator stands, when it saw the last change of the structure.
Seen(off) ==
  gen # Null /\ ~changed =>
    gen.listsize = size /\ Stands(blk, off, gen.listindex - 1, gen.le, gen.blockpos)

GenTypes ==
  /\ changed \in BOOLEAN /\ gen \in LgState \cup {Null} /\ out \in Val \cup {Null}
  /\ gen = Null => ~changed

\* The list is laid out as q.
Holding(q) ==
  /\ \E r, off : LaidOut(q, r, off) /\ Seen(off)
  /\ Inner(blk, listhead, listtail) /\ size = Len(q)
  /\ GenTypes

IInv == \E q : Holding(q)

\* A step that changes the structure: the generator has yet to see it.
LEMMA ChangeIs ==
  ASSUME GenTypes, NEW n, Change(n), out' \in Val \cup {Null}
  PROVE  /\ GenTypes' /\ (gen' # Null => changed') /\ size' = n
         /\ (gen = Null <=> gen' = Null)
         /\ gen # Null => /\ gen'.way = gen.way /\ gen'.listindex = gen.listindex
                          /\ gen'.listsize = gen.listsize
<1>1. size' = n /\ changed' = (gen # Null)
  BY DEF Change
<1>2. CASE gen = Null
  BY <1>1, <1>2 DEF Change, GenTypes
<1>3. CASE gen # Null
  <2>1. PICK g \in LgState : g = gen
    BY <1>3 DEF GenTypes
  <2>2. PICK w, l, p, i, s : g = [way |-> w, le |-> l, blockpos |-> p, listindex |-> i, listsize |-> s]
    BY LgFields
  <2>3. gen' = [g EXCEPT !.le = Null, !.blockpos = 0]
    BY <1>3, <2>1 DEF Change
  <2>4. [g EXCEPT !.le = Null, !.blockpos = 0] = [[g EXCEPT !.le = Null] EXCEPT !.blockpos = 0]
    OBVIOUS
  <2>5. PICK g1 : g1 = [g EXCEPT !.le = Null]
    OBVIOUS
  <2>6. g1 = [way |-> w, le |-> Null, blockpos |-> p, listindex |-> i, listsize |-> s]
    BY <2>2, <2>5
  <2>7. [g1 EXCEPT !.blockpos = 0] = [way |-> w, le |-> Null, blockpos |-> 0, listindex |-> i, listsize |-> s]
    BY <2>6
  <2>8. gen' = [way |-> w, le |-> Null, blockpos |-> 0, listindex |-> i, listsize |-> s]
    BY <2>3, <2>4, <2>5, <2>7
  <2>9. w = g.way /\ i = g.listindex /\ s = g.listsize
    BY <2>2
  <2>10. w \in {"next", "prev"} /\ s \in 1 .. MaxSize /\ i \in 1 .. s /\ 0 \in 0 .. MaxSize
    BY <2>9, LgFields
  <2>11. gen' \in LgState
    BY <2>8, <2>10, LgMade
  <2>12. gen' # Null
    BY <2>11, LgFields
  <2>13. gen'.way = gen.way /\ gen'.listindex = gen.listindex /\ gen'.listsize = gen.listsize
    BY <2>1, <2>8, <2>9
  <2> QED BY <1>1, <1>3, <2>11, <2>12, <2>13 DEF GenTypes
<1> QED BY <1>2, <1>3

\* After such a step, the shape is enough.
LEMMA ChangeHolds ==
  ASSUME GenTypes, NEW n, Change(n), out' \in Val \cup {Null}, NEW q2,
         Shape(blk', listhead', listtail', q2), n = Len(q2)
  PROVE  Holding(q2)'
<1>1. GenTypes' /\ (gen' # Null => changed') /\ size' = n
  BY ChangeIs
<1>2. PICK r, off : Layout(blk', listhead', listtail', q2, r, off)
  BY DEF Shape
<1>3. LaidOut(q2, r, off)' /\ Seen(off)'
  BY <1>1, <1>2 DEF LaidOut, Seen
<1> QED BY <1>1, <1>3 DEF Holding, Shape

\* A generator that stands at element i, or has ended.
LEMMA StandIs ==
  ASSUME NEW q, NEW r, NEW off, LaidOut(q, r, off), size = Len(q), Unmoved,
         NEW way \in {"next", "prev"}, NEW le, NEW pos, NEW i \in Int,
         Stands(blk, off, i - 1, le, pos), NEW sz, sz = size, Stand(way, le, pos, i, sz)
  PROVE  /\ GenTypes' /\ Seen(off)' /\ i \in 1 .. Len(q) /\ out' = q[i] /\ gen' # Null
         /\ gen'.way = way /\ gen'.listindex = i /\ gen'.listsize = Len(q)
<1>1. /\ gen' = [way |-> way, le |-> le, blockpos |-> pos, listindex |-> i, listsize |-> size]
      /\ out' = blk[le].lslots[Slot(blk[le], pos)] /\ changed' = FALSE
  BY DEF Stand
<1>2. i - 1 \in 0 .. Len(q) - 1
  BY WhereUnique DEF LaidOut
<1>3. out' = q[i - 1 + 1]
  BY <1>1, StandsFilled DEF LaidOut
<1>4. /\ le \in Used(blk) /\ pos \in Nat /\ pos < blk[le].nused /\ off[le] + pos = i - 1
      /\ le \in Block
  BY DEF Stands, Used
<1>5. /\ off[le] \in Nat /\ blk[le].nused \in Nat /\ Len(q) \in Nat
      /\ off[le] + blk[le].nused <= Len(q) /\ Len(q) <= MaxSize /\ MaxSize \in Nat
  BY <1>4, LaidOutBlock
<1>6. i \in 1 .. Len(q) /\ Len(q) \in 1 .. MaxSize /\ pos \in 0 .. MaxSize
  BY <1>2, <1>4, <1>5
<1>7. gen' \in LgState
  BY <1>1, <1>4, <1>6, LgMade
<1>8. gen' # Null
  BY <1>7, LgFields
<1>9. /\ gen'.way = way /\ gen'.le = le /\ gen'.blockpos = pos /\ gen'.listindex = i
      /\ gen'.listsize = Len(q)
  BY <1>1
<1>10. q \in Seq(Val)
  BY DEF LaidOut, Layout, Offsets
<1>11. out' = q[i] /\ q[i] \in Val
  BY <1>3, <1>6, <1>10
<1>12. Seen(off)'
  BY <1>9 DEF Seen, Unmoved
<1>13. GenTypes'
  BY <1>1, <1>7, <1>8, <1>11 DEF GenTypes
<1> QED BY <1>6, <1>8, <1>9, <1>11, <1>12, <1>13

LEMMA EndedIs ==
  ASSUME Ended PROVE GenTypes' /\ gen' = Null /\ out' = Null /\ \A off : Seen(off)'
BY DEF Ended, GenTypes, Seen

LEMMA LginitIs ==
  ASSUME NEW q, NEW r, NEW off, LaidOut(q, r, off), size = Len(q), Unmoved,
         NEW way \in {"next", "prev"}, NEW i \in Int, lginit(way, i)
  PROVE  /\ GenTypes' /\ Seen(off)'
         /\ IF i \in 1 .. Len(q)
            THEN /\ out' = q[i] /\ gen' # Null
                 /\ gen'.way = way /\ gen'.listindex = i /\ gen'.listsize = Len(q)
            ELSE gen' = Null /\ out' = Null
<1>1. LelemForIndex(i) = IF i \in 1 .. size THEN Where(blk, off, i - 1) ELSE Null
  BY LelemFinds
<1>2. CASE i \in 1 .. size
  <2>1. PICK b, p : LelemForIndex(i) = <<b, p>> /\ Stands(blk, off, i - 1, b, p)
    BY <1>2, LelemAt
  <2>2. LelemForIndex(i) # Null
    BY <2>1, ListAssumption DEF Stands, Used
  <2>3. Stand(way, b, p, i, size)
    BY <2>1, <2>2 DEF lginit
  <2> QED BY <1>2, <2>1, <2>3, StandIs
<1>3. CASE i \notin 1 .. size
  <2>1. Ended
    BY <1>1, <1>3 DEF lginit
  <2> QED BY <1>3, <2>1, EndedIs
<1> QED BY <1>2, <1>3

\* Where the generator goes from element i of sz.
Onward(q, i) ==
  IF i \in 1 .. Len(q)
  THEN /\ out' = q[i] /\ gen' # Null
       /\ gen'.way = gen.way /\ gen'.listindex = i /\ gen'.listsize = Len(q)
  ELSE gen' = Null /\ out' = Null

LEMMA GenNow ==
  ASSUME NEW q, NEW r, NEW off, LaidOut(q, r, off), size = Len(q), GenTypes, Seen(off), gen # Null
  PROVE  /\ gen.listindex \in Int /\ gen.listsize \in Int /\ gen.way \in {"next", "prev"}
         /\ ~changed => /\ gen.listindex \in 1 .. Len(q) /\ gen.listsize = size
                        /\ gen.blockpos \in Nat
                        /\ gen.le \in Used(blk) /\ gen.blockpos < blk[gen.le].nused
                        /\ off[gen.le] + gen.blockpos = gen.listindex - 1
                        /\ off[gen.le] \in Nat /\ blk[gen.le].nused \in Nat /\ Len(q) \in Nat
<1>1. gen \in LgState
  BY DEF GenTypes
<1>2. /\ gen.listindex \in Int /\ gen.listsize \in Int /\ gen.way \in {"next", "prev"}
      /\ gen.listindex \in 1 .. gen.listsize
  BY <1>1, LgFields
<1>3. ASSUME ~changed
      PROVE  /\ gen.listindex \in 1 .. Len(q) /\ gen.listsize = size
             /\ gen.blockpos \in Nat
             /\ gen.le \in Used(blk) /\ gen.blockpos < blk[gen.le].nused
             /\ off[gen.le] + gen.blockpos = gen.listindex - 1
             /\ off[gen.le] \in Nat /\ blk[gen.le].nused \in Nat /\ Len(q) \in Nat
  <2>1. gen.listsize = size /\ Stands(blk, off, gen.listindex - 1, gen.le, gen.blockpos)
    BY <1>3 DEF Seen
  <2>2. /\ gen.blockpos \in Nat /\ gen.le \in Used(blk) /\ gen.blockpos < blk[gen.le].nused
        /\ off[gen.le] + gen.blockpos = gen.listindex - 1
    BY <2>1 DEF Stands
  <2>3. off[gen.le] \in Nat /\ blk[gen.le].nused \in Nat /\ Len(q) \in Nat
    BY <2>2, LaidOutBlock
  <2> QED BY <1>2, <2>1, <2>2, <2>3
<1> QED BY <1>2, <1>3

LEMMA LgnextIs ==
  ASSUME NEW q, NEW r, NEW off, LaidOut(q, r, off), Inner(blk, listhead, listtail), size = Len(q),
         Unmoved, GenTypes, Seen(off), gen # Null, gen.way = "next", lgnext
  PROVE  GenTypes' /\ Seen(off)' /\ Onward(q, gen.listindex + 1)
<1> DEFINE i == gen.listindex + 1
<1>1. i \in Int /\ i - 1 = gen.listindex
  BY GenNow
<1>2. CASE changed
  <2>1. lginit("next", i)
    BY <1>2 DEF lgnext
  <2> HIDE DEF i
  <2>2. /\ GenTypes' /\ Seen(off)'
        /\ IF i \in 1 .. Len(q)
           THEN /\ out' = q[i] /\ gen' # Null
                /\ gen'.way = "next" /\ gen'.listindex = i /\ gen'.listsize = Len(q)
           ELSE gen' = Null /\ out' = Null
    BY <1>1, <2>1, LginitIs
  <2> QED BY <2>2 DEF Onward, i
<1>3. CASE ~changed
  <2>1. /\ gen.listindex \in 1 .. Len(q) /\ gen.listsize = size /\ gen.blockpos \in Nat
        /\ gen.le \in Used(blk) /\ gen.blockpos < blk[gen.le].nused
        /\ off[gen.le] + gen.blockpos = gen.listindex - 1
        /\ off[gen.le] \in Nat /\ blk[gen.le].nused \in Nat /\ Len(q) \in Nat
    BY <1>3, GenNow
  <2>2. \A le, pos : Stands(blk, off, i - 1, le, pos) /\ Stand("next", le, pos, i, gen.listsize)
                       => GenTypes' /\ Seen(off)' /\ Onward(q, i)
    <3> SUFFICES ASSUME NEW le, NEW pos, Stands(blk, off, i - 1, le, pos),
                        Stand("next", le, pos, i, gen.listsize)
                 PROVE  GenTypes' /\ Seen(off)' /\ Onward(q, i)
      OBVIOUS
    <3> HIDE DEF i
    <3>1. /\ GenTypes' /\ Seen(off)' /\ i \in 1 .. Len(q) /\ out' = q[i] /\ gen' # Null
          /\ gen'.way = "next" /\ gen'.listindex = i /\ gen'.listsize = Len(q)
      BY <1>1, <2>1, StandIs
    <3> QED BY <3>1 DEF Onward
  <2>3. CASE gen.blockpos + 1 < blk[gen.le].nused
    <3>1. Stand("next", gen.le, gen.blockpos + 1, i, gen.listsize)
      BY <1>3, <2>3 DEF lgnext
    <3>2. Stands(blk, off, i - 1, gen.le, gen.blockpos + 1)
      <4> HIDE DEF i
      <4>1. off[gen.le] \in Nat /\ gen.blockpos \in Nat /\ gen.listindex \in Int
        BY <2>1
      <4>2. off[gen.le] + gen.blockpos = gen.listindex - 1
        BY <2>1
      <4>3. gen.blockpos + 1 \in Nat /\ off[gen.le] + (gen.blockpos + 1) = gen.listindex
        BY <4>1, <4>2
      <4> QED BY <1>1, <2>1, <2>3, <4>3 DEF Stands
    <3> QED BY <2>2, <3>1, <3>2
  <2>4. CASE ~(gen.blockpos + 1 < blk[gen.le].nused)
    <3>1. off[gen.le] + blk[gen.le].nused = gen.listindex
      BY <2>1, <2>4
    <3>2. /\ NextUsed[gen.le] = Null => off[gen.le] + blk[gen.le].nused = Len(q)
          /\ NextUsed[gen.le] # Null => /\ NextUsed[gen.le] \in Used(blk) /\ blk[NextUsed[gen.le]].nused > 0
                                        /\ off[NextUsed[gen.le]] = off[gen.le] + blk[gen.le].nused
      BY <2>1, NextUsedIs
    <3>3. CASE NextUsed[gen.le] = Null
      <4>1. Ended
        BY <1>3, <2>4, <3>3 DEF lgnext
      <4>2. i \notin 1 .. Len(q)
        BY <2>1, <3>1, <3>2, <3>3
      <4> QED BY <4>1, <4>2, EndedIs DEF Onward
    <3>4. CASE NextUsed[gen.le] # Null
      <4>1. Stand("next", NextUsed[gen.le], 0, i, gen.listsize)
        BY <1>3, <2>4, <3>4 DEF lgnext
      <4>2. Stands(blk, off, i - 1, NextUsed[gen.le], 0)
        <5>1. off[NextUsed[gen.le]] = gen.listindex
          BY <3>1, <3>2, <3>4
        <5>2. i - 1 = gen.listindex
          BY <2>1
        <5> QED BY <2>1, <3>2, <3>4, <5>1, <5>2 DEF Stands
      <4> QED BY <2>2, <4>1, <4>2
    <3> QED BY <3>3, <3>4
  <2> QED BY <2>3, <2>4
<1> QED BY <1>2, <1>3

LEMMA LgprevIs ==
  ASSUME NEW q, NEW r, NEW off, LaidOut(q, r, off), Inner(blk, listhead, listtail), size = Len(q),
         Unmoved, GenTypes, Seen(off), gen # Null, gen.way = "prev", lgprev
  PROVE  GenTypes' /\ Seen(off)' /\ Onward(q, gen.listindex - 1 + Len(q) - gen.listsize)
<1> DEFINE i == gen.listindex - 1 + Len(q) - gen.listsize
<1>0. Len(q) \in Nat
  BY DEF LaidOut, Layout, Offsets
<1>1. i \in Int /\ i = gen.listindex - 1 + size - gen.listsize
  BY <1>0, GenNow
<1>2. CASE changed
  <2>1. lginit("prev", i)
    BY <1>1, <1>2 DEF lgprev
  <2> HIDE DEF i
  <2>2. /\ GenTypes' /\ Seen(off)'
        /\ IF i \in 1 .. Len(q)
           THEN /\ out' = q[i] /\ gen' # Null
                /\ gen'.way = "prev" /\ gen'.listindex = i /\ gen'.listsize = Len(q)
           ELSE gen' = Null /\ out' = Null
    BY <1>1, <2>1, LginitIs
  <2> QED BY <2>2 DEF Onward, i
<1>3. CASE ~changed
  <2>1. /\ gen.listindex \in 1 .. Len(q) /\ gen.listsize = size /\ gen.blockpos \in Nat
        /\ gen.le \in Used(blk) /\ gen.blockpos < blk[gen.le].nused
        /\ off[gen.le] + gen.blockpos = gen.listindex - 1
        /\ off[gen.le] \in Nat /\ blk[gen.le].nused \in Nat /\ Len(q) \in Nat
    BY <1>3, GenNow
  <2>5. i = gen.listindex - 1 /\ gen.listindex \in Int
    BY <2>1
  <2>2. \A le, pos : Stands(blk, off, i - 1, le, pos) /\ Stand("prev", le, pos, i, gen.listsize)
                       => GenTypes' /\ Seen(off)' /\ Onward(q, i)
    <3> SUFFICES ASSUME NEW le, NEW pos, Stands(blk, off, i - 1, le, pos),
                        Stand("prev", le, pos, i, gen.listsize)
                 PROVE  GenTypes' /\ Seen(off)' /\ Onward(q, i)
      OBVIOUS
    <3> HIDE DEF i
    <3>1. /\ GenTypes' /\ Seen(off)' /\ i \in 1 .. Len(q) /\ out' = q[i] /\ gen' # Null
          /\ gen'.way = "prev" /\ gen'.listindex = i /\ gen'.listsize = Len(q)
      BY <1>1, <2>1, StandIs
    <3> QED BY <3>1 DEF Onward
  <2> HIDE DEF i
  <2>3. CASE gen.blockpos - 1 >= 0
    <3>1. Stand("prev", gen.le, gen.blockpos - 1, i, gen.listsize)
      BY <1>3, <2>3, <2>5 DEF lgprev
    <3>2. Stands(blk, off, i - 1, gen.le, gen.blockpos - 1)
      BY <2>1, <2>3, <2>5 DEF Stands
    <3> QED BY <2>2, <3>1, <3>2 DEF i
  <2>4. CASE ~(gen.blockpos - 1 >= 0)
    <3>1. gen.blockpos = 0 /\ off[gen.le] = i
      BY <2>1, <2>4, <2>5
    <3>2. /\ PrevUsed[gen.le] = Null => off[gen.le] = 0
          /\ PrevUsed[gen.le] # Null =>
               /\ PrevUsed[gen.le] \in Used(blk) /\ blk[PrevUsed[gen.le]].nused > 0
               /\ off[gen.le] = off[PrevUsed[gen.le]] + blk[PrevUsed[gen.le]].nused
      BY <2>1, PrevUsedIs
    <3>3. CASE PrevUsed[gen.le] = Null
      <4>1. Ended
        BY <1>3, <2>4, <3>3 DEF lgprev
      <4>2. i \notin 1 .. Len(q)
        BY <2>1, <3>1, <3>2, <3>3
      <4> QED BY <4>1, <4>2, EndedIs DEF Onward, i
    <3>4. CASE PrevUsed[gen.le] # Null
      <4> DEFINE p == PrevUsed[gen.le]
      <4>1. Stand("prev", p, blk[p].nused - 1, i, gen.listsize)
        BY <1>3, <2>4, <2>5, <3>4 DEF lgprev
      <4>2. p \in Used(blk) /\ blk[p].nused > 0 /\ off[gen.le] = off[p] + blk[p].nused
        BY <3>2, <3>4
      <4> HIDE DEF p
      <4>3. off[p] \in Nat /\ blk[p].nused \in Nat
        BY <4>2, LaidOutBlock
      <4>4. Stands(blk, off, i - 1, p, blk[p].nused - 1)
        BY <3>1, <4>2, <4>3 DEF Stands
      <4> QED BY <2>2, <4>1, <4>4 DEF i
    <3> QED BY <3>3, <3>4
  <2> QED BY <2>3, <2>4
<1> QED BY <1>2, <1>3

----------------------------------------------------------------------------
(* Each step does to the list what it does to a sequence *)

\* The generator remembers what it did.
Kept == /\ gen' = Null <=> gen = Null
        /\ gen # Null => /\ gen'.way = gen.way /\ gen'.listindex = gen.listindex
                         /\ gen'.listsize = gen.listsize

\* The generator goes to element i, or ends.
Goes(q, way, i) ==
  IF i \in 1 .. Len(q)
  THEN /\ out' = q[i] /\ gen' # Null
       /\ gen'.way = way /\ gen'.listindex = i /\ gen'.listsize = Len(q)
  ELSE gen' = Null /\ out' = Null

\* What a step from contents q to q2 may be.
Changes(q, q2) ==
  Kept /\
    \/ out' = Null /\ \E v \in Val : q2 = Append(q, v) \/ q2 = <<v>> \o q
    \/ q # <<>> /\ q2 = Tail(q) /\ out' = Head(q)
    \/ q # <<>> /\ q2 = SubSeq(q, 1, Len(q) - 1) /\ out' = q[Len(q)]
    \/ q2 = <<>> /\ out' = Null
    \/ out' = Null /\ \E i \in 1 .. Len(q) :
         q2 = RemoveAt(q, i) \/ \E v \in Val : q2 = InsertAt(q, i, v) \/ q2 = ReplaceAt(q, i, v)

Copies(q, q2) ==
  /\ gen = Null /\ gen' = Null /\ out' = Null
  /\ \/ \E i \in 1 .. Len(q) + 1 : \E n \in 0 .. Len(q) + 1 - i : q2 = SubSeq(q, i, i + n - 1)
     \/ \E s \in {q, <<>>} \cup {<<v>> : v \in Val} : q2 = q \o s

Generates(q) ==
  \/ gen = Null /\ (Goes(q, "next", 1) \/ Goes(q, "prev", Len(q)))
  \/ gen # Null /\ gen.way = "next" /\ gen.listindex \in Int /\ Goes(q, "next", gen.listindex + 1)
  \/ /\ gen # Null /\ gen.way = "prev" /\ gen.listindex \in Int /\ gen.listsize \in Int
     /\ Goes(q, "prev", gen.listindex - 1 + Len(q) - gen.listsize)

Becomes(q, q2) ==
  Holding(q2)' /\ (Changes(q, q2) \/ Copies(q, q2) \/ (q2 = q /\ Generates(q)))

LEMMA HoldingIs ==
  ASSUME NEW q, Holding(q)
  PROVE  /\ ListIs(q) /\ size = Len(q) /\ GenTypes /\ q \in Seq(Val) /\ Len(q) \in Nat
         /\ Len(q) <= MaxSize /\ MaxSize \in Nat
<1>1. ListIs(q) /\ size = Len(q) /\ GenTypes
  BY DEF Holding, ListIs, Shape, LaidOut
<1>2. Shape(blk, listhead, listtail, q)
  BY <1>1 DEF ListIs
<1> QED BY <1>1, <1>2, ShapeBlocks

LEMMA KeptIs ==
  ASSUME GenTypes, NEW n, Change(n), out' \in Val \cup {Null} PROVE Kept
BY ChangeIs DEF Kept

LEMMA EndStep ==
  ASSUME NEW q, Holding(q), NEW v \in Val, list_push(v) \/ list_put(v)
  PROVE  \E q2 : Becomes(q, q2)
<1>1. /\ ListIs(q) /\ size = Len(q) /\ GenTypes /\ q \in Seq(Val) /\ Len(q) \in Nat
  BY HoldingIs
<1>2. Change(size + 1) /\ out' = Null /\ size' = size + 1
  BY DEF list_push, list_put, Change
<1>3. PICK q2 : /\ Shape(blk', listhead', listtail', q2) /\ size' = Len(q2)
                /\ q2 = Append(q, v) \/ q2 = <<v>> \o q
  BY <1>1, PushIs, PutIs
<1>4. Kept
  BY <1>1, <1>2, KeptIs
<1>5. Holding(q2)'
  BY <1>1, <1>2, <1>3, ChangeHolds
<1>6. Changes(q, q2)
  BY <1>2, <1>3, <1>4 DEF Changes
<1> QED BY <1>5, <1>6 DEF Becomes

LEMMA TakeStep ==
  ASSUME NEW q, Holding(q), list_get \/ list_pull
  PROVE  \E q2 : Becomes(q, q2)
<1>1. /\ ListIs(q) /\ size = Len(q) /\ GenTypes /\ q \in Seq(Val) /\ Len(q) \in Nat
  BY HoldingIs, Zenon
<1>2. Change(size - 1) /\ size' = size - 1
  BY Zenon DEF list_get, list_pull, Change
<1>3. PICK q2 : /\ Shape(blk', listhead', listtail', q2) /\ size' = Len(q2) /\ q # <<>>
                /\ \/ q2 = Tail(q) /\ out' = Head(q)
                   \/ q2 = SubSeq(q, 1, Len(q) - 1) /\ out' = q[Len(q)]
  BY <1>1, GetIs, PullIs
<1>4. out' \in Val
  BY <1>1, <1>3
<1>5. Kept
  BY <1>1, <1>2, <1>4, KeptIs
<1>6. Holding(q2)'
  BY <1>1, <1>2, <1>3, <1>4, ChangeHolds
<1>7. Changes(q, q2)
  BY <1>3, <1>5 DEF Changes
<1> QED BY <1>6, <1>7 DEF Becomes

LEMMA ClearStep ==
  ASSUME NEW q, Holding(q), list_clear
  PROVE  \E q2 : Becomes(q, q2)
<1>1. /\ ListIs(q) /\ GenTypes
  BY HoldingIs
<1>2. Change(0) /\ out' = Null
  BY Zenon DEF list_clear
<1>3. Shape(blk', listhead', listtail', <<>>)
  BY <1>1, ClearIs
<1>4. Kept
  BY <1>1, <1>2, KeptIs
<1>5. Len(<<>>) = 0
  OBVIOUS
<1>6. Holding(<<>>)'
  BY <1>1, <1>2, <1>3, <1>5, ChangeHolds
<1>7. Changes(q, <<>>)
  BY <1>2, <1>4 DEF Changes
<1> QED BY <1>6, <1>7 DEF Becomes

LEMMA InsertStep ==
  ASSUME NEW q, Holding(q), NEW i \in Index, NEW v \in Val, list_insert(i, v)
  PROVE  \E q2 : Becomes(q, q2)
<1>1. /\ ListIs(q) /\ size = Len(q) /\ GenTypes /\ i \in 1 .. size
  BY HoldingIs, Zenon DEF Index
<1>2. Change(size + 1) /\ out' = Null /\ size' = size + 1
  BY Zenon DEF list_insert, Change
<1>3. Shape(blk', listhead', listtail', InsertAt(q, i, v)) /\ size' = Len(InsertAt(q, i, v))
  BY <1>1, InsertIs
<1>4. Kept
  BY <1>1, <1>2, KeptIs
<1>5. Holding(InsertAt(q, i, v))'
  BY <1>1, <1>2, <1>3, ChangeHolds
<1>6. Changes(q, InsertAt(q, i, v))
  BY <1>1, <1>2, <1>4 DEF Changes
<1> QED BY <1>5, <1>6 DEF Becomes

LEMMA DelStep ==
  ASSUME NEW q, Holding(q), NEW i \in Index, list_del(i)
  PROVE  \E q2 : Becomes(q, q2)
<1>1. /\ ListIs(q) /\ size = Len(q) /\ GenTypes /\ i \in 1 .. size
  BY HoldingIs, Zenon DEF Index
<1>2. Change(size - 1) /\ out' = Null /\ size' = size - 1
  BY Zenon DEF list_del, Change
<1>3. Shape(blk', listhead', listtail', RemoveAt(q, i)) /\ size' = Len(RemoveAt(q, i))
  BY <1>1, DelIs
<1>4. Kept
  BY <1>1, <1>2, KeptIs
<1>5. Holding(RemoveAt(q, i))'
  BY <1>1, <1>2, <1>3, ChangeHolds
<1>6. Changes(q, RemoveAt(q, i))
  BY <1>1, <1>2, <1>4 DEF Changes
<1> QED BY <1>5, <1>6 DEF Becomes

LEMMA AssignStep ==
  ASSUME NEW q, Holding(q), NEW i \in Index, NEW v \in Val, Assign(i, v)
  PROVE  \E q2 : Becomes(q, q2)
<1>1. /\ size = Len(q) /\ GenTypes /\ i \in 1 .. size /\ Inner(blk, listhead, listtail)
  BY HoldingIs DEF Index, Holding
<1>2. PICK r, off : LaidOut(q, r, off) /\ Seen(off)
  BY DEF Holding
<1>3. PICK q2 : q2 = ReplaceAt(q, i, v)
  OBVIOUS
<1>4. /\ Layout(blk', listhead', listtail', q2, r, off)
      /\ Inner(blk', listhead', listtail') /\ size' = Len(q2)
      /\ \A k, c, p : Stands(blk, off, k, c, p) => Stands(blk', off, k, c, p)
  BY <1>1, <1>2, <1>3, AssignIs
<1>5. gen' = gen /\ changed' = changed /\ size' = size /\ out' = Null
  BY DEF Assign
<1>6. Seen(off)'
  BY <1>2, <1>4, <1>5 DEF Seen
<1>7. GenTypes'
  BY <1>1, <1>5 DEF GenTypes
<1>8. Holding(q2)'
  BY <1>4, <1>6, <1>7 DEF Holding, LaidOut
<1>9. Kept
  BY <1>5 DEF Kept
<1>10. Changes(q, q2)
  BY <1>1, <1>3, <1>5, <1>9 DEF Changes
<1> QED BY <1>8, <1>10 DEF Becomes

LEMMA NewListHolds ==
  ASSUME NEW q, Holding(q), NEW s \in Seq(Val), NEW nslots \in 1 .. MaxSlots, Len(s) <= nslots,
         Len(s) <= MaxSize, NewList(s, nslots)
  PROVE  Holding(s)' /\ gen = Null /\ gen' = Null /\ out' = Null
<1>1. gen = Null /\ gen' = Null /\ out' = Null /\ changed' = changed
  BY Zenon DEF NewList
<1>2. Shape(blk', listhead', listtail', s) /\ size' = Len(s)
  BY NewListIs
<1>3. GenTypes'
  BY <1>1 DEF Holding, GenTypes
<1>4. \A off : Seen(off)'
  BY <1>1 DEF Seen
<1> QED BY <1>1, <1>2, <1>3, <1>4 DEF Holding, Shape, LaidOut

LEMMA SectionStep ==
  ASSUME NEW q, Holding(q), NEW i \in 1 .. size + 1, NEW n \in 0 .. size + 1 - i, cplist(i, n)
  PROVE  \E q2 : Becomes(q, q2)
<1>1. /\ size = Len(q) /\ Len(q) \in Nat /\ Len(q) <= MaxSize /\ MaxSize \in Nat
      /\ Inner(blk, listhead, listtail)
  BY HoldingIs DEF Holding
<1>2. PICK r, off : LaidOut(q, r, off)
  BY DEF Holding
<1>3. /\ cpslots(i, n) \in Seq(Val) /\ Len(cpslots(i, n)) = n
      /\ cpslots(i, n) = SubSeq(q, i, i + n - 1)
  BY <1>1, <1>2, Copied
<1>4. PICK s : s = cpslots(i, n)
  OBVIOUS
<1>5. PICK nslots : nslots = IF n = 0 THEN MinListSlots ELSE n
  OBVIOUS
<1>6. NewList(s, nslots)
  BY <1>4, <1>5 DEF cplist
<1>7. n \in Nat /\ n <= MaxSize
  BY <1>1
<1>8. nslots \in 1 .. MaxSlots /\ n <= nslots
  BY <1>5, <1>7, ListAssumption DEF MaxSlots
<1>9. s \in Seq(Val) /\ Len(s) = n
  BY <1>3, <1>4
<1>10. Holding(s)' /\ gen = Null /\ gen' = Null /\ out' = Null
  BY <1>6, <1>7, <1>8, <1>9, NewListHolds
<1>11. Copies(q, s)
  BY <1>1, <1>3, <1>4, <1>10 DEF Copies
<1> QED BY <1>10, <1>11 DEF Becomes

LEMMA ConcatStep ==
  ASSUME ~EmptyConcat, NEW q, Holding(q),
         NEW y \in {cpslots(1, size), <<>>} \cup {<<v>> : v \in Val}, lconcat(y)
  PROVE  \E q2 : Becomes(q, q2)
<1>1. /\ size = Len(q) /\ Len(q) \in Nat /\ Len(q) <= MaxSize /\ MaxSize \in Nat
      /\ Inner(blk, listhead, listtail) /\ q \in Seq(Val)
  BY HoldingIs DEF Holding
<1>2. PICK r, off : LaidOut(q, r, off)
  BY DEF Holding
<1>3. 1 \in 1 .. size + 1 /\ size \in 0 .. size + 1 - 1
  BY <1>1
<1>4. cpslots(1, size) = SubSeq(q, 1, 1 + size - 1)
  BY <1>1, <1>2, <1>3, Copied
<1>5. cpslots(1, size) = q
  <2>1. 1 + size - 1 = Len(q)
    BY <1>1
  <2>2. SubSeq(q, 1, Len(q)) = q
    BY <1>1
  <2> QED BY <1>4, <2>1, <2>2
<1>6. y \in {q, <<>>} \cup {<<v>> : v \in Val} /\ y \in Seq(Val)
  <2>1. y \in {q, <<>>} \cup {<<v>> : v \in Val}
    BY <1>5, Zenon
  <2>2. CASE y = q
    BY <1>1, <2>1, <2>2
  <2>4. CASE y = <<>>
    <3>1. <<>> \in Seq(Val)
      OBVIOUS
    <3>2. y \in Seq(Val)
      BY <2>4, <3>1
    <3> QED BY <2>1, <3>2
  <2>3. CASE y \in {<<v>> : v \in Val}
    <3>2. \A v \in Val : <<v>> \in Seq(Val)
      OBVIOUS
    <3>3. PICK v \in Val : y = <<v>>
      BY <2>3, Zenon
    <3>1. y \in Seq(Val)
      BY <3>2, <3>3, Zenon
    <3> QED BY <2>1, <3>1
  <2> QED BY <2>1, <2>2, <2>3, <2>4
<1>7. PICK s : s = q \o y
  OBVIOUS
<1>8. Len(s) <= MaxSize /\ s # <<>> /\ NewList(s, Len(s))
  BY <1>5, <1>7 DEF lconcat
<1>9. s \in Seq(Val) /\ Len(s) \in Nat /\ Len(s) > 0
  BY <1>1, <1>6, <1>7, <1>8
<1>10. Len(s) \in 1 .. MaxSlots /\ Len(s) <= Len(s)
  BY <1>1, <1>8, <1>9, ListAssumption DEF MaxSlots
<1>11. Holding(s)' /\ gen = Null /\ gen' = Null /\ out' = Null
  BY <1>8, <1>9, <1>10, NewListHolds
<1>12. Copies(q, s)
  BY <1>6, <1>7, <1>11 DEF Copies
<1> QED BY <1>11, <1>12 DEF Becomes

LEMMA GeneratorStep ==
  ASSUME NEW q, Holding(q), lgfirst \/ lglast \/ GenStep
  PROVE  \E q2 : Becomes(q, q2)
<1>1. /\ size = Len(q) /\ Len(q) \in Nat /\ GenTypes /\ Inner(blk, listhead, listtail) /\ Unmoved
  BY HoldingIs DEF Holding, lgfirst, lglast, GenStep
<1>2. PICK r, off : LaidOut(q, r, off) /\ Seen(off)
  BY DEF Holding
<1>3. GenTypes' /\ Seen(off)' /\ Generates(q)
  <2>1. \A way \in {"next", "prev"}, i \in Int :
          lginit(way, i) => GenTypes' /\ Seen(off)' /\ Goes(q, way, i)
    <3> SUFFICES ASSUME NEW way \in {"next", "prev"}, NEW i \in Int, lginit(way, i)
                 PROVE  GenTypes' /\ Seen(off)' /\ Goes(q, way, i)
      OBVIOUS
    <3> QED BY <1>1, <1>2, LginitIs DEF Goes
  <2>2. CASE lgfirst
    <3>1. gen = Null /\ lginit("next", 1) /\ 1 \in Int
      BY <2>2 DEF lgfirst
    <3> QED BY <2>1, <3>1 DEF Generates
  <2>3. CASE lglast
    <3>1. gen = Null /\ lginit("prev", Len(q)) /\ Len(q) \in Int
      BY <1>1, <2>3 DEF lglast
    <3> QED BY <2>1, <3>1 DEF Generates
  <2>4. CASE GenStep
    <3>1. gen # Null /\ IF gen.way = "next" THEN lgnext ELSE lgprev
      BY <2>4 DEF GenStep
    <3>2. gen.listindex \in Int /\ gen.listsize \in Int /\ gen.way \in {"next", "prev"}
      BY <1>1, <1>2, <3>1, GenNow
    <3>3. CASE gen.way = "next"
      <4>1. GenTypes' /\ Seen(off)' /\ Onward(q, gen.listindex + 1)
        BY <1>1, <1>2, <3>1, <3>3, LgnextIs
      <4>2. Goes(q, "next", gen.listindex + 1)
        BY <3>3, <4>1 DEF Goes, Onward
      <4> QED BY <3>1, <3>2, <3>3, <4>1, <4>2 DEF Generates
    <3>4. CASE gen.way = "prev"
      <4>1. lgprev
        BY <3>1, <3>4
      <4>2. GenTypes' /\ Seen(off)' /\ Onward(q, gen.listindex - 1 + Len(q) - gen.listsize)
        BY <1>1, <1>2, <3>1, <3>4, <4>1, LgprevIs
      <4>3. Goes(q, "prev", gen.listindex - 1 + Len(q) - gen.listsize)
        BY <3>4, <4>2 DEF Goes, Onward
      <4> QED BY <3>1, <3>2, <3>4, <4>2, <4>3 DEF Generates
    <3> QED BY <3>2, <3>3, <3>4
  <2> QED BY <2>2, <2>3, <2>4
<1>4. LaidOut(q, r, off)' /\ Inner(blk, listhead, listtail)' /\ size' = Len(q)
  BY <1>1, <1>2 DEF LaidOut, Unmoved
<1>5. Holding(q)'
  BY <1>3, <1>4 DEF Holding
<1> QED BY <1>3, <1>5 DEF Becomes

LEMMA StepIs ==
  ASSUME ~EmptyConcat, NEW q, Holding(q), Next
  PROVE  \E q2 : Becomes(q, q2)
<1>1. CASE \E v \in Val : list_push(v) \/ list_put(v)
  BY <1>1, EndStep
<1>2. CASE list_get \/ list_pull
  BY <1>2, TakeStep
<1>3. CASE list_clear
  BY <1>3, ClearStep
<1>4. CASE \E i \in Index : list_del(i)
  BY <1>4, DelStep
<1>5. CASE \E i \in Index, v \in Val : list_insert(i, v)
  BY <1>5, InsertStep
<1>6. CASE \E i \in Index, v \in Val : Assign(i, v)
  BY <1>6, AssignStep
<1>7. CASE \E i \in 1 .. size + 1 : \E n \in 0 .. size + 1 - i : cplist(i, n)
  BY <1>7, SectionStep
<1>8. CASE \E y \in {cpslots(1, size), <<>>} \cup {<<v>> : v \in Val} : lconcat(y)
  BY <1>8, ConcatStep
<1>9. CASE lgfirst \/ lglast \/ GenStep
  BY <1>9, GeneratorStep
<1> QED BY <1>1, <1>2, <1>3, <1>4, <1>5, <1>6, <1>7, <1>8, <1>9 DEF Next

LEMMA StutterHolds ==
  ASSUME NEW q, Holding(q), UNCHANGED vars PROVE Holding(q)'
<1>1. /\ blk' = blk /\ listhead' = listhead /\ listtail' = listtail /\ size' = size
      /\ changed' = changed /\ gen' = gen /\ out' = out
  BY DEF vars, listVars
<1>2. PICK r, off : LaidOut(q, r, off) /\ Seen(off)
  BY DEF Holding
<1>3. LaidOut(q, r, off)' /\ Seen(off)'
  BY <1>1, <1>2 DEF LaidOut, Seen
<1>4. GenTypes' /\ Inner(blk, listhead, listtail)' /\ size' = Len(q)
  BY <1>1 DEF Holding, GenTypes
<1> QED BY <1>3, <1>4 DEF Holding

LEMMA InitHolds ==
  ASSUME Init PROVE \E q : Holding(q)
<1>10. PICK n \in 1 .. MinListSlots + 1 : \E full \in BOOLEAN : \E s \in [0 .. n - 1 -> Val] :
       \E h \in Block :
        /\ blk = [c \in Block |-> IF c # h THEN Null ELSE
                    IF full THEN [NewBlock(n, Hdr, Hdr) EXCEPT !.nused = n, !.lslots = s]
                    ELSE NewBlock(n, Hdr, Hdr)]
        /\ size = IF full THEN n ELSE 0
        /\ listhead = h /\ listtail = h
  BY Zenon DEF Init
<1>1. PICK full \in BOOLEAN, s \in [0 .. n - 1 -> Val], h \in Block :
        /\ blk = [c \in Block |-> IF c # h THEN Null ELSE
                    IF full THEN [NewBlock(n, Hdr, Hdr) EXCEPT !.nused = n, !.lslots = s]
                    ELSE NewBlock(n, Hdr, Hdr)]
        /\ size = IF full THEN n ELSE 0
        /\ listhead = h /\ listtail = h
  BY <1>10, Zenon
<1>2. changed = FALSE /\ gen = Null /\ out = Null
  BY DEF Init
<1>3. /\ MinListSlots \in Nat \ {0} /\ MaxSize \in Nat /\ MinListSlots < MaxSize
      /\ n \in 1 .. MaxSlots /\ n <= MaxSize /\ n \in Nat /\ MaxSlots \in Nat
  <2>1. MinListSlots \in Nat \ {0} /\ MaxSize \in Nat /\ MinListSlots < MaxSize
    BY ListAssumption
  <2> QED BY <2>1 DEF MaxSlots
<1>4. Hdr \in Block \cup {Hdr} /\ NewBlock(n, Hdr, Hdr) \in Elem
  BY <1>3, NewBlockElem
<1>5. PICK q, le : /\ le \in Elem /\ le.listnext = Hdr /\ le.listprev = Hdr
                   /\ blk = [c \in Block |-> IF c # h THEN Null ELSE le]
                   /\ q \in Seq(Val) /\ Len(q) = le.nused /\ Len(q) = size /\ Len(q) <= MaxSize
                   /\ \A p \in 0 .. le.nused - 1 : q[p + 1] = le.lslots[Slot(le, p)]
  <2>1. CASE full
    <3>1. PICK e, le : /\ e = NewBlock(n, Hdr, Hdr)
                       /\ le = [nslots |-> n, first |-> 0, nused |-> n, lslots |-> s,
                                listprev |-> Hdr, listnext |-> Hdr]
      OBVIOUS
    <3>2. [e EXCEPT !.nused = n, !.lslots = s] = le
      <4>1. PICK z : z = [i \in 0 .. n - 1 |-> Null]
        OBVIOUS
      <4>2. e = [nslots |-> n, first |-> 0, nused |-> 0, lslots |-> z,
                 listprev |-> Hdr, listnext |-> Hdr]
        BY <3>1, <4>1 DEF NewBlock
      <4>3. PICK e1 : e1 = [e EXCEPT !.nused = n]
        OBVIOUS
      <4>4. e1 = [nslots |-> n, first |-> 0, nused |-> n, lslots |-> z,
                  listprev |-> Hdr, listnext |-> Hdr]
        BY <4>2, <4>3
      <4>5. [e1 EXCEPT !.lslots = s] = [nslots |-> n, first |-> 0, nused |-> n, lslots |-> s,
                                        listprev |-> Hdr, listnext |-> Hdr]
        BY <4>4
      <4>6. [e EXCEPT !.nused = n, !.lslots = s] = [[e EXCEPT !.nused = n] EXCEPT !.lslots = s]
        OBVIOUS
      <4> QED BY <3>1, <4>3, <4>5, <4>6
    <3>3. blk = [c \in Block |-> IF c # h THEN Null ELSE le] /\ size = n
      BY <1>1, <2>1, <3>1, <3>2
    <3>4. s \in [0 .. n - 1 -> Val \cup {Null}] /\ 0 \in 0 .. n - 1 /\ n \in 0 .. n
      BY <1>3
    <3>5. le \in Elem
      BY <1>3, <3>1, <3>4, ElemMade
    <3>6. /\ le.listnext = Hdr /\ le.listprev = Hdr /\ le.nused = n /\ le.lslots = s
          /\ le.first = 0 /\ le.nslots = n
      BY <3>1
    <3>7. PICK q : q = [k \in 1 .. n |-> s[k - 1]]
      OBVIOUS
    <3>8. \A k \in 1 .. n : k - 1 \in 0 .. n - 1 /\ q[k] = s[k - 1] /\ q[k] \in Val
      BY <1>3, <3>7
    <3>9. q \in Seq(Val) /\ Len(q) = n
      <4>1. q = [k \in 1 .. n |-> q[k]]
        BY <3>7
      <4> QED BY <1>3, <3>8, <4>1, SeqIs
    <3>10. \A p \in 0 .. n - 1 : q[p + 1] = s[Slot(le, p)]
      <4> SUFFICES ASSUME NEW p \in 0 .. n - 1 PROVE q[p + 1] = s[Slot(le, p)]
        OBVIOUS
      <4>1. Slot(le, p) = p
        BY <1>3, <3>6 DEF Slot
      <4>2. p + 1 \in 1 .. n /\ p + 1 - 1 = p
        BY <1>3
      <4> QED BY <3>8, <4>1, <4>2
    <3>11. \A p \in 0 .. le.nused - 1 : q[p + 1] = le.lslots[Slot(le, p)]
      BY <3>6, <3>10
    <3> QED BY <1>3, <3>3, <3>5, <3>6, <3>9, <3>11
  <2>2. CASE ~full
    <3>1. PICK le : le = NewBlock(n, Hdr, Hdr)
      OBVIOUS
    <3>2. le \in Elem /\ le.listnext = Hdr /\ le.listprev = Hdr /\ le.nused = 0
      <4>1. n \in 1 .. MaxSlots /\ Hdr \in Block \cup {Hdr}
        BY <1>3
      <4>2. /\ NewBlock(n, Hdr, Hdr) \in Elem /\ NewBlock(n, Hdr, Hdr).nused = 0
            /\ NewBlock(n, Hdr, Hdr).listnext = Hdr /\ NewBlock(n, Hdr, Hdr).listprev = Hdr
        <5>1. PICK h2 \in Block \cup {Hdr} : h2 = Hdr
          BY <4>1
        <5>2. /\ NewBlock(n, h2, h2) \in Elem /\ NewBlock(n, h2, h2).nused = 0
              /\ NewBlock(n, h2, h2).listnext = h2 /\ NewBlock(n, h2, h2).listprev = h2
          BY <4>1, NewBlockElem
        <5> QED BY <5>1, <5>2
      <4> QED BY <3>1, <4>2
    <3>3. blk = [c \in Block |-> IF c # h THEN Null ELSE le] /\ size = 0
      BY <1>1, <2>2, <3>1
    <3>4. <<>> \in Seq(Val) /\ Len(<<>>) = le.nused /\ Len(<<>>) = size /\ Len(<<>>) <= MaxSize
      BY <1>3, <3>2, <3>3
    <3>5. \A p \in 0 .. le.nused - 1 : <<>>[p + 1] = le.lslots[Slot(le, p)]
      BY <3>2
    <3> QED BY <3>2, <3>3, <3>4, <3>5, Zenon
  <2> QED BY <2>1, <2>2
<1>6. (\E r, off : Layout(blk, h, h, q, r, off)) /\ Used(blk) = {h}
  BY <1>5, Single
<1>7. Inner(blk, listhead, listtail)
  BY <1>1, <1>6 DEF Inner
<1>8. GenTypes /\ \A off : Seen(off)
  BY <1>2 DEF GenTypes, Seen
<1>9. PICK r, off : LaidOut(q, r, off)
  BY <1>1, <1>6 DEF LaidOut
<1> QED BY <1>5, <1>7, <1>8, <1>9 DEF Holding

----------------------------------------------------------------------------
(* What the invariant says of a state *)

LEMMA HoldingTypes == ASSUME NEW q, Holding(q) PROVE TypeOK
<1>1. /\ size = Len(q) /\ Len(q) \in Nat /\ Len(q) <= MaxSize /\ MaxSize \in Nat /\ GenTypes
  BY HoldingIs
<1>2. PICK r, off : LaidOut(q, r, off)
  BY DEF Holding
<1>3. blk \in [Block -> Elem \cup {Null}] /\ listhead \in InUse /\ listtail \in InUse
  BY <1>2, InUseUsed DEF LaidOut, Layout, Linked
<1>4. ASSUME NEW b \in InUse PROVE {blk[b].listnext, blk[b].listprev} \subseteq InUse \cup {Hdr}
  <2>1. b \in Used(blk)
    BY InUseUsed
  <2>2. blk[b].listnext \in Used(blk) \cup {Hdr}
    BY <1>2, <2>1, LaidOutBlock
  <2>3. blk[b].listprev \in Used(blk) \cup {Hdr}
    BY <1>2, <2>1, LaidOutBlock
  <2> QED BY <2>2, <2>3, InUseUsed
<1>5. size \in 0 .. MaxSize
  BY <1>1
<1> QED BY <1>1, <1>3, <1>4, <1>5 DEF TypeOK, GenTypes

LEMMA HoldingIndexed == ASSUME NEW q, Holding(q) PROVE Indexed
<1>1. size = Len(q) /\ Len(q) \in Nat /\ q \in Seq(Val)
  BY HoldingIs
<1>2. PICK r, off : LaidOut(q, r, off)
  BY DEF Holding
<1>3. Contents = q
  BY <1>2, ContentsIs
<1>4. \A i \in 1 .. size : Element(i) = q[i]
  BY <1>1, <1>2, LelemAt
<1>5. q = [i \in 1 .. Len(q) |-> q[i]]
  BY <1>1
<1>6. Contents = [i \in Index |-> Element(i)]
  BY <1>1, <1>3, <1>4, <1>5 DEF Index
<1>7. 0 \in Int /\ size + 1 \in Int /\ 0 \notin 1 .. size /\ size + 1 \notin 1 .. size
  BY <1>1
<1>8. LelemForIndex(0) = Null
  BY <1>1, <1>2, <1>7, LelemFinds
<1>9. LelemForIndex(size + 1) = Null
  BY <1>1, <1>2, <1>7, LelemFinds
<1> QED BY <1>6, <1>8, <1>9 DEF Indexed

LEMMA HoldingAgrees == ASSUME NEW q, Holding(q) PROVE GeneratorAgrees
<1> SUFFICES ASSUME gen # Null, ~changed
             PROVE  LelemForIndex(gen.listindex) = <<gen.le, gen.blockpos>>
  BY DEF GeneratorAgrees
<1>1. size = Len(q) /\ GenTypes
  BY HoldingIs
<1>2. PICK r, off : LaidOut(q, r, off) /\ Seen(off)
  BY DEF Holding
<1>3. gen.listindex \in Int /\ gen.listindex \in 1 .. size
  BY <1>1, <1>2, GenNow
<1>4. Stands(blk, off, gen.listindex - 1, gen.le, gen.blockpos)
  BY <1>2 DEF Seen
<1>5. Where(blk, off, gen.listindex - 1) = <<gen.le, gen.blockpos>>
  BY <1>2, <1>4, WhereUnique DEF LaidOut
<1> QED BY <1>1, <1>2, <1>3, <1>5, LelemFinds

\* There is a block of every rank, and each but the first follows as many elements as
\* there are blocks between.
LEMMA RanksAre ==
  ASSUME NEW q, NEW r, NEW off, LaidOut(q, r, off), Inner(blk, listhead, listtail)
  PROVE  \A d \in 0 .. r[listtail] - r[listhead] : \E b \in Used(blk) :
           r[b] = r[listhead] + d /\ off[b] >= d - 1
<1> DEFINE N == r[listtail] - r[listhead]
           S == {d \in Nat : d <= N =>
                   \E b \in Used(blk) : r[b] = r[listhead] + d /\ off[b] >= d - 1}
<1>1. Linked(blk, listhead, listtail, r) /\ Offsets(blk, listhead, listtail, off, q)
  BY DEF LaidOut, Layout
<1>2. listhead \in Used(blk) /\ listtail \in Used(blk) /\ r[listhead] \in Int /\ r[listtail] \in Int
      /\ off[listhead] = 0
  <2>1. listhead \in Used(blk) /\ listtail \in Used(blk) /\ off[listhead] = 0
    BY <1>1 DEF Linked, Offsets
  <2> QED BY <1>1, <2>1, LinkedBlock
<1>3. 0 \in S
  BY <1>2
<1>4. ASSUME NEW d \in Nat, d \in S PROVE d + 1 \in S
  <2> SUFFICES ASSUME d + 1 <= N
               PROVE  \E b \in Used(blk) : r[b] = r[listhead] + (d + 1) /\ off[b] >= d + 1 - 1
    OBVIOUS
  <2>1. PICK b \in Used(blk) : r[b] = r[listhead] + d /\ off[b] >= d - 1
    BY <1>2, <1>4
  <2>2. b # listtail
    BY <1>2, <2>1
  <2>3. PICK e \in Used(blk) : blk[b].listnext = e /\ r[e] = r[b] + 1 /\ off[e] = off[b] + blk[b].nused
    <3>1. NextLink(blk, listtail, r, b)
      BY <1>1, LinkedBlock
    <3> QED BY <2>2, <3>1, LaidOutBlock DEF NextLink
  <2>4. off[b] \in Nat /\ blk[b].nused \in Nat
    BY LaidOutBlock
  <2>5. off[e] >= d
    <3>1. CASE b = listhead
      BY <1>2, <2>1, <2>3, <2>4, <3>1
    <3>2. CASE b # listhead
      <4>1. blk[b].nused > 0
        BY <2>2, <3>2 DEF Inner
      <4> QED BY <2>1, <2>3, <2>4, <4>1
    <3> QED BY <3>1, <3>2
  <2>6. r[e] = r[listhead] + (d + 1)
    BY <1>2, <2>1, <2>3
  <2> QED BY <2>5, <2>6
<1>5. \A d \in Nat : d \in S
  <2> HIDE DEF S
  <2> QED BY <1>3, <1>4, NatInductionSet
<1> QED BY <1>2, <1>5

LEMMA HoldingChained == ASSUME NEW q, Holding(q) PROVE Chained
<1>1. size = Len(q) /\ Len(q) \in Nat /\ Inner(blk, listhead, listtail)
  BY HoldingIs DEF Holding
<1>2. PICK r, off : LaidOut(q, r, off)
  BY DEF Holding
<1>3. Linked(blk, listhead, listtail, r)
  BY <1>2 DEF LaidOut, Layout
<1>4. /\ listhead \in Used(blk) /\ listtail \in Used(blk)
      /\ r[listhead] \in Int /\ r[listtail] \in Int
      /\ \A b \in Used(blk) : r[b] \in Int /\ r[listhead] <= r[b] /\ r[b] <= r[listtail]
      /\ \A b, c \in Used(blk) : r[b] = r[c] => b = c
  <2>1. /\ listhead \in Used(blk) /\ listtail \in Used(blk)
        /\ \A b, c \in Used(blk) : r[b] = r[c] => b = c
    BY <1>3 DEF Linked
  <2>2. \A b \in Used(blk) : /\ r[b] \in Int /\ r[listhead] <= r[b] /\ r[b] <= r[listtail]
                             /\ r[listhead] \in Int /\ r[listtail] \in Int
    BY <1>3, LinkedBlock
  <2> QED BY <2>1, <2>2
<1>5. PICK n : n = r[listtail] - r[listhead] + 1
  OBVIOUS
<1>6. n \in Nat /\ n >= 1
  BY <1>4, <1>5
<1>7. \A k \in 1 .. n : \E b \in Used(blk) : r[b] = r[listhead] + k - 1 /\ off[b] >= k - 2
  <2> SUFFICES ASSUME NEW k \in 1 .. n
               PROVE  \E b \in Used(blk) : r[b] = r[listhead] + k - 1 /\ off[b] >= k - 2
    OBVIOUS
  <2>1. k - 1 \in 0 .. r[listtail] - r[listhead]
    BY <1>4, <1>5
  <2>2. PICK b \in Used(blk) : r[b] = r[listhead] + (k - 1) /\ off[b] >= k - 1 - 1
    BY <1>1, <1>2, <2>1, RanksAre
  <2>3. off[b] \in Nat
    BY <1>2, LaidOutBlock
  <2> QED BY <1>4, <2>2, <2>3
<1>8. PICK chain : chain = [k \in 1 .. n |->
                     CHOOSE b \in Used(blk) : r[b] = r[listhead] + k - 1 /\ off[b] >= k - 2]
  OBVIOUS
<1>9. \A k \in 1 .. n : /\ chain[k] \in Used(blk) /\ r[chain[k]] = r[listhead] + k - 1
                        /\ off[chain[k]] >= k - 2
  BY <1>7, <1>8
<1>10. chain \in [1 .. n -> InUse] /\ chain \in Seq(InUse) /\ Len(chain) = n /\ DOMAIN chain = 1 .. n
  <2>1. chain \in [1 .. n -> InUse]
    BY <1>8, <1>9, InUseUsed
  <2> QED BY <1>6, <2>1
<1>11. \A b \in Used(blk) : \A k \in 1 .. n : r[b] = r[listhead] + k - 1 => chain[k] = b
  BY <1>4, <1>9
<1>12. chain[1] = listhead /\ chain[n] = listtail
  <2>1. 1 \in 1 .. n /\ n \in 1 .. n /\ r[listhead] = r[listhead] + 1 - 1
        /\ r[listtail] = r[listhead] + n - 1
    BY <1>4, <1>5, <1>6
  <2> QED BY <1>4, <1>11, <2>1
<1>13. n <= size + 2
  <2>1. n \in 1 .. n /\ off[listtail] >= n - 2
    BY <1>6, <1>9, <1>12
  <2>2. off[listtail] \in Nat /\ blk[listtail].nused \in Nat /\ off[listtail] + blk[listtail].nused = Len(q)
    BY <1>2, <1>4, LaidOutBlock
  <2> QED BY <1>1, <1>6, <2>1, <2>2
<1>14. chain \in SeqOf(InUse, size + 2)
  <2>1. n \in 0 .. size + 2
    BY <1>1, <1>6, <1>13
  <2> QED BY <1>10, <2>1 DEF SeqOf
<1>15. ToSet(chain) = InUse
  <2>1. ASSUME NEW b \in InUse PROVE \E k \in 1 .. n : chain[k] = b
    <3>1. b \in Used(blk) /\ r[b] \in Int /\ r[listhead] <= r[b] /\ r[b] <= r[listtail]
      BY <1>4, InUseUsed
    <3>2. PICK k : k = r[b] - r[listhead] + 1
      OBVIOUS
    <3>3. k \in 1 .. n /\ r[b] = r[listhead] + k - 1
      BY <1>4, <1>5, <3>1, <3>2
    <3> QED BY <1>11, <3>1, <3>3
  <2> QED BY <1>10, <2>1 DEF ToSet
<1>16. Head(chain) = listhead /\ Last(chain) = listtail
  <2>1. Head(chain) = chain[1]
    BY <1>6, <1>10
  <2>2. Last(chain) = chain[n]
    BY <1>10 DEF Last
  <2> QED BY <1>12, <2>1, <2>2
<1>17. ASSUME NEW k \in 1 .. n
       PROVE  /\ blk[chain[k]].listnext = IF k = n THEN Hdr ELSE chain[k + 1]
              /\ blk[chain[k]].listprev = IF k = 1 THEN Hdr ELSE chain[k - 1]
              /\ k \notin {1, n} => blk[chain[k]].nused > 0
  <2>1. PICK b \in Used(blk) : b = chain[k] /\ r[b] = r[listhead] + k - 1
    BY <1>9
  <2>2. /\ NextLink(blk, listtail, r, b) /\ PrevLink(blk, listhead, r, b) /\ r[b] \in Int
    BY <1>3, LinkedBlock
  <2>3. b = listtail <=> k = n
    BY <1>4, <1>5, <1>6, <1>12, <2>1
  <2>4. b = listhead <=> k = 1
    BY <1>4, <1>5, <1>6, <1>12, <2>1
  <2>5. blk[b].listnext = IF k = n THEN Hdr ELSE chain[k + 1]
    <3>1. CASE k = n
      BY <2>2, <2>3, <3>1 DEF NextLink
    <3>2. CASE k # n
      <4>1. PICK c \in Used(blk) : blk[b].listnext = c /\ r[c] = r[b] + 1
        BY <2>2, <2>3, <3>2 DEF NextLink
      <4>2. k + 1 \in 1 .. n /\ r[c] = r[listhead] + (k + 1) - 1
        BY <1>4, <1>6, <2>1, <3>2, <4>1
      <4> QED BY <1>11, <3>2, <4>1, <4>2
    <3> QED BY <3>1, <3>2
  <2>6. blk[b].listprev = IF k = 1 THEN Hdr ELSE chain[k - 1]
    <3>1. CASE k = 1
      BY <2>2, <2>4, <3>1 DEF PrevLink
    <3>2. CASE k # 1
      <4>1. PICK c \in Used(blk) : blk[b].listprev = c /\ r[c] = r[b] - 1
        BY <2>2, <2>4, <3>2 DEF PrevLink
      <4>2. k - 1 \in 1 .. n /\ r[c] = r[listhead] + (k - 1) - 1
        BY <1>4, <1>6, <2>1, <3>2, <4>1
      <4> QED BY <1>11, <3>2, <4>1, <4>2
    <3> QED BY <3>1, <3>2
  <2>7. k \notin {1, n} => blk[b].nused > 0
    BY <1>1, <2>3, <2>4 DEF Inner
  <2> QED BY <2>1, <2>5, <2>6, <2>7
<1>18. \A k \in DOMAIN chain :
         /\ blk[chain[k]].listnext = IF k = Len(chain) THEN Hdr ELSE chain[k + 1]
         /\ blk[chain[k]].listprev = IF k = 1 THEN Hdr ELSE chain[k - 1]
         /\ k \notin {1, Len(chain)} => blk[chain[k]].nused > 0
  BY <1>10, <1>17
<1> HIDE <1>8
<1> QED BY <1>14, <1>15, <1>16, <1>18 DEF Chained

\* get and pull find an element in the first block or the one next to it.
LEMMA HoldingFound == ASSUME NEW q, Holding(q) PROVE FoundAtEnds
<1>1. size = Len(q) /\ Len(q) \in Nat /\ Inner(blk, listhead, listtail)
  BY HoldingIs DEF Holding
<1>2. PICK r, off : LaidOut(q, r, off)
  BY DEF Holding
<1>3. listhead \in Used(blk) /\ listtail \in Used(blk)
  BY <1>2 DEF LaidOut, Layout, Linked
<1>4. /\ blk[listhead].nused \in Nat /\ off[listhead] = 0
      /\ blk[listtail].nused \in Nat /\ off[listtail] \in Nat
      /\ off[listtail] + blk[listtail].nused = Len(q)
  BY <1>2, <1>3, LaidOutBlock
<1>5. ASSUME size > 0, ~(blk[listhead].nused > 0)
      PROVE  blk[listhead].listnext # Hdr /\ blk[blk[listhead].listnext].nused > 0
  <2>1. listhead # listtail /\ blk[listhead].nused = 0
    BY <1>1, <1>4, <1>5
  <2>2. PICK e \in Used(blk) : /\ blk[listhead].listnext = e /\ e # Hdr
                               /\ off[e] = off[listhead] + blk[listhead].nused
    <3>1. /\ blk[listhead].listnext \in Used(blk) /\ blk[listhead].listnext # Hdr
          /\ off[blk[listhead].listnext] = off[listhead] + blk[listhead].nused
      <4>1. PICK b \in Used(blk) : b = listhead
        BY <1>3
      <4>2. /\ blk[b].listnext \in Used(blk) /\ blk[b].listnext # Hdr
            /\ off[blk[b].listnext] = off[b] + blk[b].nused
        BY <1>2, <2>1, <4>1, LaidOutBlock
      <4> QED BY <4>1, <4>2
    <3> QED BY <3>1
  <2>3. e # listhead
    <3>1. PICK c : c = listhead
      OBVIOUS
    <3>2. NextLink(blk, listtail, r, listhead) /\ r[listhead] \in Int
      BY <1>2, <1>3, LinkedBlock DEF LaidOut, Layout
    <3>3. r[e] = r[listhead] + 1
      BY <2>1, <2>2, <3>2 DEF NextLink
    <3> QED BY <3>2, <3>3
  <2>4. CASE e = listtail
    BY <1>1, <1>4, <1>5, <2>1, <2>2, <2>4
  <2>5. CASE e # listtail
    BY <1>1, <2>2, <2>3, <2>5 DEF Inner
  <2> QED BY <2>2, <2>4, <2>5
<1>6. ASSUME size > 0, ~(blk[listtail].nused > 0)
      PROVE  blk[listtail].listprev # Hdr /\ blk[blk[listtail].listprev].nused > 0
  <2>1. listhead # listtail /\ blk[listtail].nused = 0
    BY <1>1, <1>4, <1>6
  <2>2. PICK e \in Used(blk) : /\ blk[listtail].listprev = e /\ e # Hdr
                               /\ off[listtail] = off[e] + blk[e].nused
    BY <1>2, <1>3, <2>1, LaidOutBlock
  <2>3. e # listtail
    <3>1. PrevLink(blk, listhead, r, listtail) /\ r[listtail] \in Int
      BY <1>2, <1>3, LinkedBlock DEF LaidOut, Layout
    <3>2. r[e] = r[listtail] - 1
      BY <2>1, <2>2, <3>1 DEF PrevLink
    <3> QED BY <3>1, <3>2
  <2>4. CASE e = listhead
    BY <1>1, <1>4, <1>6, <2>1, <2>2, <2>4
  <2>5. CASE e # listhead
    BY <1>1, <2>2, <2>3, <2>5 DEF Inner
  <2> QED BY <2>2, <2>4, <2>5
<1> QED BY <1>5, <1>6 DEF FoundAtEnds

----------------------------------------------------------------------------
(* Theorems *)

\* The inductive invariant: the blocks are laid out as some sequence, and a generator that
\* saw the last change of the structure (its changecount is the list's) stands, in its
\* block, at the element of its index.
THEOREM Invariant == ~EmptyConcat => (Spec => []IInv)
<1> SUFFICES ASSUME ~EmptyConcat PROVE Spec => []IInv
  OBVIOUS
<1>1. Init => IInv
  BY InitHolds DEF IInv
<1>2. IInv /\ [Next]_vars => IInv'
  <2> SUFFICES ASSUME NEW q, Holding(q), [Next]_vars PROVE IInv'
    BY DEF IInv
  <2>1. CASE Next
    <3>1. PICK q2 : Becomes(q, q2)
      BY <2>1, StepIs
    <3> QED BY <3>1 DEF Becomes, IInv
  <2>2. CASE UNCHANGED vars
    BY <2>2, StutterHolds DEF IInv
  <2> QED BY <2>1, <2>2
<1> QED BY <1>1, <1>2, PTL DEF Spec

\* The variables keep their types: among them that a link of a block in use leads to a
\* block in use or to the header, never to a block that was dropped, and that size, first
\* and nused stay within their bounds.
THEOREM TypesTheorem == ~EmptyConcat => (Spec => []TypeOK)
<1>1. IInv => TypeOK
  BY HoldingTypes DEF IInv
<1> QED BY <1>1, Invariant, PTL

\* Whatever is put, pulled, inserted and deleted, the blocks in use are one chain, linked
\* both ways; only its ends may be empty, so it has at most two blocks more than elements.
THEOREM ChainedTheorem == ~EmptyConcat => (Spec => []Chained)
<1>1. IInv => Chained
  BY HoldingChained DEF IInv
<1> QED BY <1>1, Invariant, PTL

\* get_lelem_for_index finds the element of every index, whether it counts from the
\* first block or from the last, and none for the indices next to the list.
THEOREM IndexedTheorem == ~EmptyConcat => (Spec => []Indexed)
<1>1. IInv => Indexed
  BY HoldingIndexed DEF IInv
<1> QED BY <1>1, Invariant, PTL

\* A generator that goes on without looking (lgnext and lgprev when changecount is as it
\* was) is where a search for its index would bring it.
THEOREM AgreesTheorem == ~EmptyConcat => (Spec => []GeneratorAgrees)
<1>1. IInv => GeneratorAgrees
  BY HoldingAgrees DEF IInv
<1> QED BY <1>1, Invariant, PTL

\* What the comments of list_get and list_pull say, as long as no two empty lists are
\* concatenated: either end holds an element, or the block next to it does.
THEOREM FoundTheorem == ~EmptyConcat => (Spec => []FoundAtEnds)
<1>1. IInv => FoundAtEnds
  BY HoldingFound DEF IInv
<1> QED BY <1>1, Invariant, PTL

----------------------------------------------------------------------------
(* The abstract list *)

PlaceOf(g) ==
  IF g = Null THEN Null
  ELSE [way |-> g.way, at |-> IF g.way = "next" THEN g.listindex ELSE g.listsize - g.listindex]

LEMMA KeptPlace == ASSUME Kept PROVE PlaceOf(gen') = PlaceOf(gen)
<1>1. CASE gen = Null
  BY <1>1 DEF Kept, PlaceOf
<1>2. CASE gen # Null
  <2>1. /\ gen' # Null /\ gen'.way = gen.way /\ gen'.listindex = gen.listindex
        /\ gen'.listsize = gen.listsize
    BY <1>2 DEF Kept
  <2> QED BY <1>2, <2>1 DEF PlaceOf
<1> QED BY <1>1, <1>2

LEMMA ChangesRefines ==
  ASSUME NEW q, NEW q2, q \in Seq(Val), Changes(q, q2), Contents = q, Contents' = q2
  PROVE  List!Next
<1>1. PlaceOf(gen') = PlaceOf(gen)
  BY KeptPlace DEF Changes
<1>2. CASE out' = Null /\ \E v \in Val : q2 = Append(q, v) \/ q2 = <<v>> \o q
  BY <1>1, <1>2 DEF PlaceOf, List!Next, List!Put, List!Push
<1>3. CASE q # <<>> /\ q2 = Tail(q) /\ out' = Head(q)
  BY <1>1, <1>3 DEF PlaceOf, List!Next, List!Get
<1>4. CASE q # <<>> /\ q2 = SubSeq(q, 1, Len(q) - 1) /\ out' = q[Len(q)]
  BY <1>1, <1>4 DEF PlaceOf, List!Next, List!Pull, List!Front, List!Last, Front, Last
<1>5. CASE q2 = <<>> /\ out' = Null
  BY <1>1, <1>5 DEF PlaceOf, List!Next, List!Clear
<1>6. CASE out' = Null /\ \E i \in 1 .. Len(q) :
             q2 = RemoveAt(q, i) \/ \E v \in Val : q2 = InsertAt(q, i, v) \/ q2 = ReplaceAt(q, i, v)
  <2>1. PICK i \in 1 .. Len(q) :
             q2 = RemoveAt(q, i) \/ \E v \in Val : q2 = InsertAt(q, i, v) \/ q2 = ReplaceAt(q, i, v)
    BY <1>6
  <2>2. i \in DOMAIN Contents
    BY <2>1
  <2>3. CASE q2 = RemoveAt(q, i)
    <3>1. List!Del(i)
      BY <1>1, <1>6, <2>3 DEF PlaceOf, List!Del, RemoveAt, List!RemoveAt
    <3> QED BY <2>2, <3>1 DEF List!Next
  <2>4. CASE \E v \in Val : q2 = InsertAt(q, i, v)
    <3>1. \E v \in Val : List!Insert(i, v)
      BY <1>1, <1>6, <2>4 DEF PlaceOf, List!Insert, InsertAt, List!InsertAt
    <3> QED BY <2>2, <3>1 DEF List!Next
  <2>5. CASE \E v \in Val : q2 = ReplaceAt(q, i, v)
    <3>1. \E v \in Val : List!Assign(i, v)
      BY <1>1, <1>6, <2>5 DEF PlaceOf, List!Assign, ReplaceAt, List!ReplaceAt
    <3> QED BY <2>2, <3>1 DEF List!Next
  <2> QED BY <2>1, <2>3, <2>4, <2>5
<1> QED BY <1>2, <1>3, <1>4, <1>5, <1>6 DEF Changes

LEMMA CopiesRefines ==
  ASSUME NEW q, NEW q2, q \in Seq(Val), Copies(q, q2), Contents = q, Contents' = q2
  PROVE  List!Next
<1>1. gen = Null /\ gen' = Null /\ out' = Null
  BY DEF Copies
<1>2. CASE \E i \in 1 .. Len(q) + 1 : \E n \in 0 .. Len(q) + 1 - i : q2 = SubSeq(q, i, i + n - 1)
  <2>1. \E i \in 1 .. Len(q) + 1 : \E n \in 0 .. Len(q) + 1 - i : List!Section(i, n)
    BY <1>1, <1>2 DEF List!Section
  <2> QED BY <2>1 DEF List!Next
<1>3. CASE \E s \in {q, <<>>} \cup {<<v>> : v \in Val} : q2 = q \o s
  <2>1. PICK s \in {q, <<>>} \cup {<<v>> : v \in Val} : q2 = q \o s
    BY <1>3
  <2>2. List!Concat(s)
    BY <1>1, <2>1 DEF List!Concat
  <2>3. s \in {Contents, <<>>} \cup {<<v>> : v \in Val}
    BY <2>1, Zenon
  <2> QED BY <2>2, <2>3 DEF List!Next
<1> QED BY <1>2, <1>3 DEF Copies

\* Where the generator goes is where its place says.
LEMMA GoesTo ==
  ASSUME NEW q, q \in Seq(Val), NEW way \in {"next", "prev"}, NEW i \in Int, Goes(q, way, i),
         Contents = q, Contents' = q
  PROVE  List!Go([way |-> way, at |-> IF way = "next" THEN i ELSE Len(q) - i])
<1> DEFINE p == [way |-> way, at |-> IF way = "next" THEN i ELSE Len(q) - i]
<1>1. Len(q) \in Nat /\ DOMAIN q = 1 .. Len(q)
  OBVIOUS
<1>2. List!At(p) = i
  <2>1. CASE way = "next"
    BY <2>1 DEF List!At
  <2>2. CASE way # "next"
    <3>1. List!At(p) = Len(q) - (Len(q) - i)
      BY <2>2 DEF List!At
    <3> QED BY <1>1, <3>1
  <2> QED BY <2>1, <2>2
<1>3. CASE i \in 1 .. Len(q)
  <2>1. /\ out' = q[i] /\ gen' # Null
        /\ gen'.way = way /\ gen'.listindex = i /\ gen'.listsize = Len(q)
    BY <1>3 DEF Goes
  <2>2. PlaceOf(gen') = p
    BY <2>1 DEF PlaceOf
  <2> HIDE DEF p
  <2>3. List!Go(p)
    BY <1>1, <1>2, <1>3, <2>1, <2>2 DEF List!Go, PlaceOf
  <2> QED BY <2>3 DEF p
<1>4. CASE i \notin 1 .. Len(q)
  <2>1. gen' = Null /\ out' = Null
    BY <1>4 DEF Goes
  <2> HIDE DEF p
  <2>2. List!Go(p)
    BY <1>1, <1>2, <1>4, <2>1 DEF List!Go
  <2> QED BY <2>2 DEF p
<1> QED BY <1>3, <1>4

LEMMA GeneratesRefines ==
  ASSUME NEW q, q \in Seq(Val), Generates(q), Contents = q, Contents' = q
  PROVE  List!Next
<1>1. Len(q) \in Nat
  OBVIOUS
<1>2. CASE gen = Null /\ Goes(q, "next", 1)
  <2>1. List!Go([way |-> "next", at |-> 1])
    <3>1. List!Go([way |-> "next", at |-> IF "next" = "next" THEN 1 ELSE Len(q) - 1])
      BY <1>2, GoesTo
    <3> QED BY <3>1
  <2> QED BY <1>2, <2>1 DEF List!Begin, List!Next
<1>3. CASE gen = Null /\ Goes(q, "prev", Len(q))
  <2>1. List!Go([way |-> "prev", at |-> 0])
    <3>1. List!Go([way |-> "prev", at |-> IF "prev" = "next" THEN Len(q) ELSE Len(q) - Len(q)])
      BY <1>1, <1>3, GoesTo
    <3>2. (IF "prev" = "next" THEN Len(q) ELSE Len(q) - Len(q)) = 0
      BY <1>1
    <3> QED BY <3>1, <3>2
  <2> QED BY <1>3, <2>1 DEF List!Begin, List!Next
<1>4. CASE gen # Null /\ gen.way = "next" /\ gen.listindex \in Int
           /\ Goes(q, "next", gen.listindex + 1)
  <2>1. List!Go([way |-> "next", at |-> gen.listindex + 1])
    <3>1. PICK i \in Int : i = gen.listindex + 1
      BY <1>4
    <3>2. List!Go([way |-> "next", at |-> IF "next" = "next" THEN i ELSE Len(q) - i])
      BY <1>4, <3>1, GoesTo
    <3> QED BY <3>1, <3>2
  <2>2. PlaceOf(gen) = [way |-> "next", at |-> gen.listindex]
    BY <1>4 DEF PlaceOf
  <2>3. [PlaceOf(gen) EXCEPT !.at = @ + 1] = [way |-> "next", at |-> gen.listindex + 1]
    BY <2>2
  <2>4. PlaceOf(gen) # Null
    <3>1. [way |-> "next", at |-> gen.listindex] \in Place
      BY <1>4 DEF Place
    <3> QED BY <2>2, <3>1, ListAssumption
  <2> QED BY <1>4, <2>1, <2>3, <2>4 DEF List!Step, List!Next, PlaceOf
<1>5. CASE /\ gen # Null /\ gen.way = "prev" /\ gen.listindex \in Int /\ gen.listsize \in Int
           /\ Goes(q, "prev", gen.listindex - 1 + Len(q) - gen.listsize)
  <2>1. List!Go([way |-> "prev", at |-> gen.listsize - gen.listindex + 1])
    <3>1. PICK i \in Int : i = gen.listindex - 1 + Len(q) - gen.listsize
      BY <1>1, <1>5
    <3>2. List!Go([way |-> "prev", at |-> IF "prev" = "next" THEN i ELSE Len(q) - i])
      BY <1>5, <3>1, GoesTo
    <3>3. (IF "prev" = "next" THEN i ELSE Len(q) - i) = gen.listsize - gen.listindex + 1
      BY <1>1, <1>5, <3>1
    <3> QED BY <3>2, <3>3
  <2>2. PlaceOf(gen) = [way |-> "prev", at |-> gen.listsize - gen.listindex]
    BY <1>5 DEF PlaceOf
  <2>3. [PlaceOf(gen) EXCEPT !.at = @ + 1] = [way |-> "prev", at |-> gen.listsize - gen.listindex + 1]
    BY <2>2
  <2>4. PlaceOf(gen) # Null
    <3>1. [way |-> "prev", at |-> gen.listsize - gen.listindex] \in Place
      BY <1>5 DEF Place
    <3> QED BY <2>2, <3>1, ListAssumption
  <2> QED BY <1>5, <2>1, <2>3, <2>4 DEF List!Step, List!Next, PlaceOf
<1> QED BY <1>2, <1>3, <1>4, <1>5 DEF Generates

LEMMA InitRefines == ASSUME Init, NEW q, Holding(q) PROVE List!Init
<1>1. PICK r, off : LaidOut(q, r, off)
  BY DEF Holding
<1>2. Contents = q /\ q \in Seq(Val)
  BY <1>1, ContentsIs, HoldingIs
<1> QED BY <1>2 DEF Init, List!Init

\* The list is a sequence, and its generator a place in it that survives every change:
\* each operation does to the elements, found through the blocks and rings, what its name
\* says of a sequence.
THEOREM Refinement == ~EmptyConcat => (Spec => IsList)
<1> SUFFICES ASSUME ~EmptyConcat PROVE Spec => IsList
  OBVIOUS
<1>1. Init => List!Init
  BY InitHolds, InitRefines
<1>2. \A q, r, off : LaidOut(q, r, off) => Contents = q
  BY ContentsIs
<1>3. IInv /\ [Next]_vars /\ (\A q, r, off : LaidOut(q, r, off) => Contents = q)'
        => [List!Next]_(List!absVars)
  <2> SUFFICES ASSUME NEW q, Holding(q), [Next]_vars,
                      (\A q1, r1, off1 : LaidOut(q1, r1, off1) => Contents = q1)'
               PROVE  [List!Next]_(List!absVars)
    BY DEF IInv
  <2>1. \A q2 : Holding(q2)' => Contents' = q2
    <3> SUFFICES ASSUME NEW q2, Holding(q2)' PROVE Contents' = q2
      OBVIOUS
    <3>1. PICK r2, off2 : LaidOut(q2, r2, off2)'
      BY DEF Holding
    <3> QED BY <3>1
  <2>2. Contents = q /\ q \in Seq(Val)
    <3>1. PICK r, off : LaidOut(q, r, off)
      BY DEF Holding
    <3> QED BY <3>1, ContentsIs, HoldingIs
  <2>3. CASE Next
    <3>1. PICK q2 : Becomes(q, q2)
      BY <2>3, StepIs
    <3>2. Contents' = q2
      BY <2>1, <3>1 DEF Becomes
    <3>3. CASE Changes(q, q2)
      BY <2>2, <3>2, <3>3, ChangesRefines
    <3>4. CASE Copies(q, q2)
      BY <2>2, <3>2, <3>4, CopiesRefines
    <3>5. CASE q2 = q /\ Generates(q)
      BY <2>2, <3>2, <3>5, GeneratesRefines
    <3> QED BY <3>1, <3>3, <3>4, <3>5 DEF Becomes
  <2>4. CASE UNCHANGED vars
    <3>1. Contents' = q
      BY <2>1, <2>4, StutterHolds
    <3>2. gen' = gen /\ out' = out
      BY <2>4 DEF vars
    <3> QED BY <2>2, <3>1, <3>2 DEF List!absVars
  <2> QED BY <2>3, <2>4
<1> QED BY <1>1, <1>2, <1>3, Invariant, PTL DEF Spec, List!Spec, IsList

==============================================================================
