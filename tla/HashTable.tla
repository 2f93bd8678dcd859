------------------------------ MODULE HashTable ------------------------------
(***************************************************************************)
(* The hash structure behind sets and tables (base/oix/rstruct.r and       *)
(* cstruct.r), together with a generator over it that is suspended between *)
(* elements while the program goes on inserting and deleting.              *)
(*                                                                         *)
(* The slots live in segments: segment 0 has HSlots of them and each later *)
(* segment as many as all before it, so that growing adds one segment and  *)
(* moves half of each chain there.  A chain is kept in order of hash       *)
(* number.  Keys and values are not modelled: an element is the block that *)
(* one insertion of an absent key allocates, with the hash number of its   *)
(* key.                                                                    *)
(***************************************************************************)
EXTENDS Integers, SequencesExt

CONSTANTS
  HSlots, HSegs, MinHLoad, MaxHLoad,   \* as in base/h/config.h
  Hash,      \* the hash numbers that occur
  MaxElem,   \* bound: how many elements are ever inserted
  End        \* what ends a chain: the pointer back to the header

\* The powers of 2.
Pow2[k \in Nat] == IF k = 0 THEN 1 ELSE 2 * Pow2[k - 1]

\* HSlots is a power of 2, and not 1: sgmask marks a segment that was there
\* from the start by 0, which is also the mask of a single slot.
ASSUME ParameterAssumption ==
  /\ HSlots \in {Pow2[k] : k \in 1 .. 10} /\ HSegs \in Nat \ {0}
  /\ MinHLoad \in Nat /\ MaxHLoad \in Nat
  /\ MaxElem \in Nat /\ Hash \subseteq Nat
  /\ End \notin 1 .. MaxElem

Elem == 1 .. MaxElem

VARIABLES
  hdir,      \* segment -> slot -> chain; DOMAIN hdir is the segments in use
  mask,
  size,
  alloc,     \* how many element blocks were allocated
  hashnum,   \* of each allocated element
  live,      \* the elements inserted and not deleted since
  clink,     \* the link a deleted element was left with
  on,        \* a generator is suspended
  gen,       \* its struct hgstate, and ep, the element it last generated
  yielded,   \* the elements it generated
  stable     \* the elements in the structure ever since it started

tableVars == <<hdir, mask, size, alloc, hashnum, live, clink>>
genVars   == <<on, gen, yielded, stable>>
vars      == <<tableVars, genVars>>

----------------------------------------------------------------------------
(* Addressing *)

\* How many slots there are in segments 0 to top, and in segment s.
Slots(top) == HSlots * Pow2[top]
segsize(s) == IF s = 0 THEN HSlots ELSE Slots(s - 1)

\* The bits of n that are set in a mask, which is one less than a power of 2.
And(n, m) == n % (m + 1)

\* The table log2h: 0, and one more than the logarithm of n for n > 0.
log2h(n) == CHOOSE k \in 0 .. HSegs : n < Pow2[k] /\ (k > 0 => Pow2[k - 1] <= n)

\* hchain: the segment, and the slot in it, of hash number hn.
SegNum(hn)  == log2h(And(hn, mask) \div HSlots)
SegSlot(hn) == And(hn, segsize(SegNum(hn)) - 1)
hchain(hn)  == hdir[SegNum(hn)][SegSlot(hn)]

\* The slots of all segments, in order, are numbered from 0.
Before(s)   == IF s = 0 THEN 0 ELSE segsize(s)
SegOf(g)    == CHOOSE s \in 0 .. HSegs - 1 : Before(s) <= g /\ g < Before(s) + segsize(s)
SlotOf(g)   == g - Before(SegOf(g))
Chain(dir, g) == dir[SegOf(g)][SlotOf(g)]

\* The least of a set of indices; 0 if there is none.
First(I) == IF I = {} THEN 0 ELSE CHOOSE i \in I : \A j \in I : i <= j

\* The first element of a chain whose hash number is above hn, if any.
FirstAbove(chain, hn) == First({i \in DOMAIN chain : hashnum[chain[i]] > hn})

\* What is left of a chain when all but the elements in keep are unlinked.
Kept(chain, keep) ==
  LET upto[i \in 0 .. Len(chain)] ==
        IF i = 0 THEN <<>>
        ELSE IF chain[i] \in keep THEN Append(upto[i - 1], chain[i]) ELSE upto[i - 1]
  IN upto[Len(chain)]

\* memb: e is found in the chain of its hash number before the search
\* meets a greater one.
memb(e) ==
  LET chain == hchain(hashnum[e]) IN
  \E i \in DOMAIN chain :
    chain[i] = e /\ \A j \in 1 .. i : hashnum[chain[j]] <= hashnum[e]

----------------------------------------------------------------------------
(* Growing and shrinking *)

\* Mistake: the last segment there can be is not the last one added.
TooCrowdedUnbounded(sz, m, dir) == sz > MaxHLoad * (m + 1)

TooCrowded(sz, m, dir) == sz > MaxHLoad * (m + 1) /\ HSegs - 1 \notin DOMAIN dir
TooSparse(sz, m, dir)  == 1 \in DOMAIN dir /\ sz < MinHLoad * (m + 1)

\* Bit newslots of a hash number, where newslots is a power of 2.
Moves(h, newslots) == (h \div newslots) % 2 = 1

\* hgrow: every chain is split between its slot and the new segment's slot
\* of the same number.
Grown(dir, hash) ==
  LET top      == Cardinality(DOMAIN dir)
      newslots == mask + 1
  IN [s \in 0 .. top |->
        IF s = top
        THEN [k \in 0 .. newslots - 1 |->
                Kept(Chain(dir, k), {e \in Elem : Moves(hash[e], newslots)})]
        ELSE [j \in 0 .. segsize(s) - 1 |->
                Kept(dir[s][j], {e \in Elem : ~Moves(hash[e], newslots)})]]

\* Mistake: one chain is hung to the end of the other.
MergeUnordered(low, upp) == low \o upp

\* The merge in hshrink: on equal hash numbers the upper slot goes first.
Merge(low, upp) ==
  LET m[i \in 1 .. Len(low) + 1] == [j \in 1 .. Len(upp) + 1 |->
        IF i > Len(low) THEN SubSeq(upp, j, Len(upp))
        ELSE IF j > Len(upp) THEN SubSeq(low, i, Len(low))
        ELSE IF hashnum[low[i]] < hashnum[upp[j]]
             THEN <<low[i]>> \o m[i + 1][j] ELSE <<upp[j]>> \o m[i][j + 1]]
  IN m[1][1]

\* One round of hshrink: the top segment is merged into the others.
Merged(dir) ==
  LET top == Cardinality(DOMAIN dir) - 1
  IN [s \in 0 .. top - 1 |->
        [j \in 0 .. segsize(s) - 1 |->
           Merge(dir[s][j], dir[top][Before(s) + j])]]

\* hshrink: rounds until the structure, with segments 0 to top, is not too sparse.
Rounds ==
  LET after[k \in 0 .. HSegs - 1] == IF k = 0 THEN hdir ELSE Merged(after[k - 1])
  IN after
SparseAfter(k) ==
  TooSparse(size, Slots(Cardinality(DOMAIN hdir) - 1 - k) - 1, Rounds[k])

----------------------------------------------------------------------------
(* The generator *)

Successor(e) ==
  IF e \notin live THEN clink[e]
  ELSE LET chain == hchain(hashnum[e])
           i == First({k \in DOMAIN chain : chain[k] = e})
       IN IF i < Len(chain) THEN chain[i + 1] ELSE End

\* The element of a chain at index i, where 0 is past its end.
ElemAt(chain, i) == IF i = 0 THEN End ELSE chain[i]

\* Mistake: a new slot is begun at its start, whatever its elements' old one.
EnterAnew(g, sgmask, sghash) ==
  LET chain == Chain(hdir, g) IN ElemAt(chain, IF chain = <<>> THEN 0 ELSE 1)

\* What hgnext takes from slot g: nothing when the slot this chain was split
\* from had been done by then, and only what comes after the hash number in
\* process when it was being done.
Enter(g, sgmask, sghash) ==
  LET segnum == SegOf(g)
      noted  == {i \in 1 .. segnum : \A k \in i .. segnum : sgmask[k] # 0}
      d(i)   == And(SlotOf(g), sgmask[i]) - And(sghash[i], sgmask[i])
      chain  == Chain(hdir, g)
  IN IF \E i \in noted : d(i) < 0 THEN End
     ELSE ElemAt(chain, First({k \in DOMAIN chain :
                  \A i \in noted : d(i) = 0 => hashnum[chain[k]] > sghash[i]}))

\* The position and element where hgnext stops when it leaves slot g: the
\* first slot after g that gives one.
Search(g, sgmask, sghash) ==
  LET hits == {h \in g + 1 .. mask : Enter(h, sgmask, sghash) # End} IN
  IF hits = {} THEN <<mask + 1, End>>
  ELSE LET h == CHOOSE x \in hits : \A y \in hits : x <= y
       IN <<h, Enter(h, sgmask, sghash)>>

\* Mistake: a split between two calls goes unnoticed.
SplitUnseen == FALSE

\* hgnext found the structure split since the last call, and the next
\* element does not share the hash number of the last one.
SplitSeen ==
  /\ mask # gen.tmask
  /\ Successor(gen.ep) = End \/ hashnum[Successor(gen.ep)] # hashnum[gen.ep]

\* The state, and the element, that hgnext leaves.
HgNext ==
  LET hn     == hashnum[gen.ep]
      new(i) == Slots(i - 1) > gen.tmask
      sgmask == IF SplitSeen
                THEN [i \in 1 .. HSegs - 1 |-> IF new(i) THEN gen.tmask ELSE gen.sgmask[i]]
                ELSE gen.sgmask
      sghash == IF SplitSeen
                THEN [i \in 1 .. HSegs - 1 |-> IF new(i) THEN hn ELSE gen.sghash[i]]
                ELSE gen.sghash
      chain  == Chain(hdir, gen.slot)
      ep     == IF SplitSeen THEN ElemAt(chain, FirstAbove(chain, hn))
                ELSE Successor(gen.ep)
      stop   == IF ep = End THEN Search(gen.slot, sgmask, sghash)
                ELSE <<gen.slot, ep>>
  IN [slot |-> stop[1], ep |-> stop[2], sgmask |-> sgmask, sghash |-> sghash,
      tmask |-> IF SplitSeen THEN mask ELSE gen.tmask]

NoHistory == [i \in 1 .. HSegs - 1 |-> 0]

\* The state and element that hgfirst leaves.
HgFirst ==
  LET stop == Search(-1, NoHistory, NoHistory)
  IN [slot |-> stop[1], ep |-> stop[2], sgmask |-> NoHistory,
      sghash |-> NoHistory, tmask |-> mask]

----------------------------------------------------------------------------
NoGen == [slot |-> 0, ep |-> End, sgmask |-> NoHistory, sghash |-> NoHistory,
          tmask |-> 0]

\* hmake with a size hint: an empty structure of any number of segments.
Init ==
  /\ \E top \in 0 .. HSegs - 1 :
       /\ hdir = [s \in 0 .. top |-> [j \in 0 .. segsize(s) - 1 |-> <<>>]]
       /\ mask = Slots(top) - 1
  /\ size = 0 /\ alloc = 0
  /\ hashnum = [e \in Elem |-> 0]
  /\ live = {}
  /\ clink = [e \in Elem |-> End]
  /\ on = FALSE /\ gen = NoGen /\ yielded = {} /\ stable = {}

\* set_insert, table_insert of an absent key.  When the new segment cannot
\* be allocated hgrow returns and the chains stay as they are.
Insert(hn) ==
  LET e     == alloc + 1
      chain == hchain(hn)
      pos   == FirstAbove(chain, hn)
      hash  == [hashnum EXCEPT ![e] = hn]
      dir   == [hdir EXCEPT ![SegNum(hn)][SegSlot(hn)] =
                  InsertAt(chain, IF pos = 0 THEN Len(chain) + 1 ELSE pos, e)]
      crowded == TooCrowded(size + 1, mask, dir)
  IN /\ alloc < MaxElem
     /\ alloc' = e
     /\ hashnum' = hash
     /\ size' = size + 1
     /\ live' = live \cup {e}
     /\ \/ crowded /\ hdir' = Grown(dir, hash) /\ mask' = 2 * mask + 1
        \/ hdir' = dir /\ UNCHANGED mask
     /\ UNCHANGED <<clink, genVars>>

\* set_del, table_del of a key that is there.  The links of deleted elements
\* matter to a suspended generator only and are kept while there is one.
Delete(e) ==
  /\ memb(e)
  /\ hdir' = [hdir EXCEPT ![SegNum(hashnum[e])][SegSlot(hashnum[e])] = Kept(@, Elem \ {e})]
  /\ size' = size - 1
  /\ live' = live \ {e}
  /\ clink' = [clink EXCEPT ![e] = IF on THEN Successor(e) ELSE End]
  /\ stable' = stable \ {e}
  /\ UNCHANGED <<mask, alloc, hashnum, on, gen, yielded>>

\* set_clear, table_clear: the chains are cut off, their elements keep links.
Clear ==
  /\ live # {}
  /\ hdir' = [s \in DOMAIN hdir |-> [j \in DOMAIN hdir[s] |-> <<>>]]
  /\ size' = 0
  /\ live' = {}
  /\ clink' = [e \in Elem |-> IF on /\ e \in live THEN Successor(e) ELSE clink[e]]
  /\ stable' = {}
  /\ UNCHANGED <<mask, alloc, hashnum, on, gen, yielded>>

\* cphash: the program goes on with a copy, which may have fewer segments.
\* The copies of the elements keep their names; no generator is on the copy.
Copy ==
  /\ ~on
  /\ \E k \in 0 .. Cardinality(DOMAIN hdir) - 1 :
       /\ ~SparseAfter(k) /\ \A j \in 0 .. k - 1 : SparseAfter(j)
       /\ hdir' = Rounds[k] /\ mask' = Slots(Cardinality(DOMAIN hdir) - 1 - k) - 1
  /\ UNCHANGED <<size, alloc, hashnum, live, clink, genVars>>

\* The generator stands at g.ep, or has come to the end and is gone.
Took(g, before, present) ==
  /\ on' = (g.ep # End)
  /\ gen' = IF g.ep # End THEN g ELSE NoGen
  /\ yielded' = IF g.ep # End THEN before \cup {g.ep} ELSE {}
  /\ stable' = IF g.ep # End THEN present ELSE {}
  /\ clink' = IF g.ep # End THEN clink ELSE [e \in Elem |-> End]
  /\ UNCHANGED <<hdir, mask, size, alloc, hashnum, live>>

GenFirst == ~on /\ \E g \in {HgFirst} : Took(g, {}, live)
GenNext  == on /\ \E g \in {HgNext} : Took(g, yielded, stable)

Next ==
  \/ \E hn \in Hash : Insert(hn)
  \/ \E e \in Elem : Delete(e)
  \/ Clear \/ Copy \/ GenFirst \/ GenNext

Spec == Init /\ [][Next]_vars

----------------------------------------------------------------------------
(* Properties *)

\* The types of the variables, and the segments that mask accounts for.
TypeOK ==
  /\ \E top \in 0 .. HSegs - 1 :
       /\ DOMAIN hdir = 0 .. top /\ mask = Slots(top) - 1
       /\ \A s \in 0 .. top : hdir[s] \in [0 .. segsize(s) - 1 -> Seq(1 .. alloc)]
  /\ size \in 0 .. MaxElem /\ alloc \in 0 .. MaxElem
  /\ hashnum \in [Elem -> Hash \cup {0}]
  /\ live \subseteq 1 .. alloc /\ yielded \subseteq 1 .. alloc
  /\ stable \subseteq live
  /\ clink \in [Elem -> Elem \cup {End}]
  /\ on \in BOOLEAN
  /\ gen.ep \in Elem \cup {End} /\ gen.slot \in 0 .. mask

\* Lookup finds exactly the elements inserted and not deleted, whatever
\* splits and merges their chains went through; and size, which counts them,
\* counts the links of all chains, so no element hangs in two places.
LookupExact ==
  /\ \A e \in 1 .. alloc : memb(e) <=> e \in live
  /\ size = Cardinality(live)
  /\ size = Cardinality({x \in (0 .. mask) \X (1 .. MaxElem) :
                           x[2] \in DOMAIN Chain(hdir, x[1])})

\* "We carefully generate each element exactly once, even if the hash chains
\* are split between calls": when the generator comes to its end, it has
\* generated every element that was there from its start to now,
GeneratesAll ==
  [][/\ on /\ ~on' => stable \subseteq yielded
     /\ GenFirst /\ ~on' => live = {}]_vars

\* and it generates no element, a deleted one included, twice.
GeneratesOnce == [][on /\ gen' # gen /\ on' => gen'.ep \notin yielded]_vars
==============================================================================
