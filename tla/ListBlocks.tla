----------------------------- MODULE ListBlocks -----------------------------
(***************************************************************************)
(* Lists as the run-time system keeps them (base/oix/cstruct.r, rstruct.r  *)
(* and alclstb in ralc.r): a header, and a doubly linked chain of element  *)
(* blocks, each a ring of slots of which nused from first on are in use.   *)
(* A generator (struct lgstate) is suspended between elements while the    *)
(* list changes under it.                                                  *)
(***************************************************************************)
EXTENDS Integers, SequencesExt

CONSTANTS
  Val,            \* the values stored
  Null,           \* &null
  Hdr,            \* the list header, which ends the chain at both ends
  MinListSlots,   \* as in base/h/rmacros.h
  MaxSize,        \* bound of the size of the list
  Block,          \* the element blocks there are memory for
  EmptyConcat     \* two empty lists may be concatenated

\* An element block of the list; no list gets one of more slots.
MaxSlots == MaxSize + MinListSlots
Elem == UNION {[nslots : {n}, first : 0 .. n - 1, nused : 0 .. n,
                lslots : [0 .. n - 1 -> Val \cup {Null}],
                listprev : Block \cup {Hdr}, listnext : Block \cup {Hdr}] : n \in 1 .. MaxSlots}

\* A generator, at an element of a list of listsize elements.
LgState == UNION {[way : {"next", "prev"}, le : Block \cup {Null}, blockpos : 0 .. MaxSize,
                   listindex : 1 .. n, listsize : {n}] : n \in 1 .. MaxSize}

\* What a program sees of it: from which end, and how far from there.
Place == [way : {"next", "prev"}, at : Int]

\* A list can be made within the bound, and the null value is none of the others.
ASSUME ListAssumption ==
  /\ MinListSlots \in Nat \ {0} /\ MaxSize \in Nat /\ MinListSlots < MaxSize /\ Block # {}
  /\ Null \notin Val \cup Block \cup Elem \cup LgState \cup (Block \X Nat) \cup Place
  /\ Hdr \notin Block /\ EmptyConcat \in BOOLEAN

VARIABLES
  blk,        \* the element blocks; Null one that is not in use
  listhead, listtail, size,
  changed,    \* changecount differs from the generator's
  gen,        \* the generator: lgstate, its block le and its direction, or Null
  out         \* what the last step gave: get, pull or the generator

listVars == <<blk, listhead, listtail, size, changed>>
vars == <<listVars, gen, out>>

Minimum(a, b) == IF a <= b THEN a ELSE b

\* alclstb
NewBlock(nslots, prev, next) ==
  [nslots |-> nslots, first |-> 0, nused |-> 0,
   lslots |-> [i \in 0 .. nslots - 1 |-> Null],
   listprev |-> prev, listnext |-> next]

Unused == {b \in Block : blk[b] = Null}
InUse  == Block \ Unused

\* The slot of notional index pos of a block.
Slot(le, pos) ==
  IF le.first + pos >= le.nslots THEN le.first + pos - le.nslots ELSE le.first + pos

\* Mistake: the ring does not close.
BeforeFirstOpen(le) == le.first - 1

\* The slot before the first one in use.
BeforeFirst(le) == IF le.first = 0 THEN le.nslots - 1 ELSE le.first - 1

----------------------------------------------------------------------------
(* get_lelem_for_index: the block of element index and the notional index  *)
(* there, searched from the nearer end; Null outside the list.             *)

Forwards[le \in InUse] == [index \in 0 .. MaxSize |->
  IF index < blk[le].nused THEN <<le, index>>
  ELSE IF blk[le].listnext = Hdr THEN Null
  ELSE Forwards[blk[le].listnext][index - blk[le].nused]]

Backwards[le \in InUse] == [n \in 0 .. MaxSize |-> [index \in 0 .. MaxSize |->
  IF index >= n - blk[le].nused THEN <<le, blk[le].nused - n + index>>
  ELSE IF blk[le].listprev = Hdr THEN Null
  ELSE Backwards[blk[le].listprev][n - blk[le].nused][index]]]

\* Mistake: from the end, the index is counted from 1.
LelemMiscounted(index) ==
  IF index - 1 < 0 \/ index - 1 >= size THEN Null
  ELSE IF index - 1 < size \div 2 THEN Forwards[listhead][index - 1]
  ELSE Backwards[listtail][size - 1][index - 1]

LelemForIndex(index) ==
  IF index - 1 < 0 \/ index - 1 >= size THEN Null
  ELSE IF index - 1 < size \div 2 THEN Forwards[listhead][index - 1]
  ELSE Backwards[listtail][size][index - 1]

\* get_element
Element(i) ==
  LET at == LelemForIndex(i) IN blk[at[1]].lslots[Slot(blk[at[1]], at[2])]

\* The next block that holds an element.
NextUsed[le \in InUse] ==
  LET n == blk[le].listnext IN
  IF n = Hdr THEN Null ELSE IF blk[n].nused > 0 THEN n ELSE NextUsed[n]

\* cpslots: the next n elements from notional index pos of block le on.
Slots[n \in 0 .. MaxSize] == [le \in InUse |-> [pos \in 0 .. MaxSize |->
  IF n = 0 THEN <<>>
  ELSE <<blk[le].lslots[Slot(blk[le], pos)]>> \o
       IF pos + 1 < blk[le].nused THEN Slots[n - 1][le][pos + 1]
       ELSE IF NextUsed[le] = Null THEN <<>> ELSE Slots[n - 1][NextUsed[le]][0]]]

cpslots(index, n) ==
  LET at == LelemForIndex(index)
  IN IF at = Null THEN <<>> ELSE Slots[n][at[1]][at[2]]

----------------------------------------------------------------------------
Init ==
  /\ \E n \in 1 .. MinListSlots + 1 : \E full \in BOOLEAN :
     \E s \in [0 .. n - 1 -> Val] :
     \E h \in Block :
       LET b == NewBlock(n, Hdr, Hdr) IN
       /\ blk = [c \in Block |-> IF c # h THEN Null ELSE
                   IF full THEN [b EXCEPT !.nused = n, !.lslots = s] ELSE b]
       /\ size = IF full THEN n ELSE 0
       /\ listhead = h /\ listtail = h
  /\ changed = FALSE
  /\ gen = Null /\ out = Null

\* Mistake: changecount stays.
ChangeUncounted(n) == size' = n /\ UNCHANGED <<changed, gen>>

\* What every change of the structure ends with: the new size, and
\* ++changecount.  The generator's block and position are stale from then on;
\* it will not look at them, and they are not kept.
Change(n) ==
  /\ size' = n
  /\ changed' = (gen # Null)
  /\ gen' = IF gen = Null THEN Null ELSE [gen EXCEPT !.le = Null, !.blockpos = 0]

\* The sizes push and put try for a new block, in turn, when memory is short.
Tries == LET i == IF size \div 2 < MinListSlots THEN MinListSlots ELSE size \div 2
         IN {i, i \div 4, i \div 16} \cap {n \in Nat : n >= MinListSlots}

\* Put v into slot i of block b, which grows by one from first on.
Store(bs, b, i, first, v) ==
  blk' = [bs EXCEPT ![b].lslots[i] = v, ![b].first = first, ![b].nused = @ + 1]

list_push(v) ==
  LET into(bs, b) ==
        LET i == BeforeFirst(bs[b]) IN Store(bs, b, i, i, v)
  IN /\ size < MaxSize
     /\ IF blk[listhead].nused < blk[listhead].nslots
        THEN into(blk, listhead) /\ UNCHANGED listhead
        ELSE \E b \in Unused, n \in Tries :
               /\ into([blk EXCEPT ![b] = NewBlock(n, Hdr, listhead),
                                   ![listhead].listprev = b], b)
               /\ listhead' = b
     /\ out' = Null /\ UNCHANGED listtail
     /\ Change(size + 1)

list_put(v) ==
  LET into(bs, b) == Store(bs, b, Slot(bs[b], bs[b].nused), bs[b].first, v)
  IN /\ size < MaxSize
     /\ IF blk[listtail].nused < blk[listtail].nslots
        THEN into(blk, listtail) /\ UNCHANGED listtail
        ELSE \E b \in Unused, n \in Tries :
               /\ into([blk EXCEPT ![b] = NewBlock(n, listtail, Hdr),
                                   ![listtail].listnext = b], b)
               /\ listtail' = b
     /\ out' = Null /\ UNCHANGED listhead
     /\ Change(size + 1)

\* An empty first block is dropped before the element is taken.
list_get ==
  LET b  == IF blk[listhead].nused = 0 THEN blk[listhead].listnext ELSE listhead
      i  == blk[b].first
      bs == IF b = listhead THEN blk
            ELSE [blk EXCEPT ![listhead] = Null, ![b].listprev = Hdr]
  IN /\ size > 0
     /\ out' = blk[b].lslots[i]
     /\ blk' = [bs EXCEPT ![b].lslots[i] = Null, ![b].nused = @ - 1,
                          ![b].first = IF i + 1 >= blk[b].nslots THEN 0 ELSE i + 1]
     /\ listhead' = b /\ UNCHANGED listtail
     /\ Change(size - 1)

\* An empty last block is dropped before the element is taken.
list_pull ==
  LET b  == IF blk[listtail].nused = 0 THEN blk[listtail].listprev ELSE listtail
      i  == Slot(blk[b], blk[b].nused - 1)
      bs == IF b = listtail THEN blk
            ELSE [blk EXCEPT ![listtail] = Null, ![b].listnext = Hdr]
  IN /\ size > 0
     /\ out' = blk[b].lslots[i]
     /\ blk' = [bs EXCEPT ![b].lslots[i] = Null, ![b].nused = @ - 1]
     /\ listtail' = b /\ UNCHANGED listhead
     /\ Change(size - 1)

\* Mistake: the links back still lead to b.
UnlinkForwards(bs, b, next, prev) ==
  /\ blk' = IF listhead = b THEN bs ELSE [bs EXCEPT ![blk[b].listprev].listnext = next]
  /\ listhead' = IF listhead = b THEN next ELSE listhead
  /\ listtail' = IF listtail = b THEN prev ELSE listtail

\* Block b leaves the chain of bs; its neighbours, or the header, are linked
\* to next and prev instead.
Unlink(bs, b, next, prev) ==
  LET bs1 == IF listhead = b THEN bs
             ELSE [bs EXCEPT ![blk[b].listprev].listnext = next]
      bs2 == IF listtail = b THEN bs1
             ELSE [bs1 EXCEPT ![blk[b].listnext].listprev = prev]
  IN /\ blk' = [bs2 EXCEPT ![b] = Null]
     /\ listhead' = IF listhead = b THEN next ELSE listhead
     /\ listtail' = IF listtail = b THEN prev ELSE listtail

\* Into a block with room, the elements before pos move one slot back; a
\* full block is replaced by a larger one.
list_insert(index, v) ==
  LET at == LelemForIndex(index)
      b  == at[1]
      le == blk[b]
      pos == at[2]
      first == BeforeFirst(le)
      moved == [k \in DOMAIN le.lslots |->
        LET p == IF k >= first THEN k - first ELSE k - first + le.nslots
        IN IF p < pos THEN le.lslots[Slot(le, p)] ELSE IF p = pos THEN v ELSE le.lslots[k]]
      nslots == Minimum(le.nslots + MinListSlots, 2 * le.nslots)
  IN /\ size < MaxSize
     /\ IF le.nused < le.nslots
        THEN /\ blk' = [blk EXCEPT ![b].first = first, ![b].nused = @ + 1, ![b].lslots = moved]
             /\ UNCHANGED <<listhead, listtail>>
        ELSE LET lslots == [k \in 0 .. nslots - 1 |->
                   IF k > le.nused THEN Null ELSE IF k = pos THEN v
                   ELSE le.lslots[Slot(le, IF k < pos THEN k ELSE k - 1)]]
                 le2 == [NewBlock(nslots, le.listprev, le.listnext) EXCEPT
                           !.nused = le.nused + 1, !.lslots = lslots]
             IN \E b2 \in Unused : Unlink([blk EXCEPT ![b2] = le2], b, b2, b2)
     /\ out' = Null
     /\ Change(size + 1)

\* The elements after pos move one slot down; a block left empty is unlinked,
\* unless it is the only one.
list_del(index) ==
  LET at == LelemForIndex(index)
      b  == at[1]
      le == blk[b]
      pos == at[2]
      lslots == [k \in DOMAIN le.lslots |->
        LET p == IF k >= le.first THEN k - le.first ELSE k - le.first + le.nslots
        IN IF p < pos \/ p >= le.nused THEN le.lslots[k]
           ELSE IF p = le.nused - 1 THEN Null ELSE le.lslots[Slot(le, p + 1)]]
      bs == [blk EXCEPT ![b].lslots = lslots, ![b].nused = @ - 1]
  IN /\ IF le.nused = 1 /\ ~(listhead = b /\ listtail = b)
        THEN Unlink(bs, b, le.listnext, le.listprev)
        ELSE blk' = bs /\ UNCHANGED <<listhead, listtail>>
     /\ out' = Null
     /\ Change(size - 1)

\* The first block is emptied and kept.
list_clear ==
  LET le == blk[listhead]
      lslots == [k \in DOMAIN le.lslots |->
        IF \E p \in 0 .. le.nused - 1 : Slot(le, p) = k THEN Null ELSE le.lslots[k]]
      le2 == [le EXCEPT !.lslots = lslots, !.nused = 0, !.listnext = Hdr]
  IN /\ blk' = [c \in Block |-> IF c = listhead THEN le2 ELSE Null]
     /\ listtail' = listhead /\ UNCHANGED listhead
     /\ out' = Null
     /\ Change(0)

Index == 1 .. size

\* alclist: the program goes on with a new list, of the elements of s. No generator
\* is on it.
NewList(s, nslots) ==
  /\ gen = Null
  /\ \E b \in Unused :
       /\ blk' = [c \in Block |-> IF c # b THEN Null ELSE
                   [NewBlock(nslots, Hdr, Hdr) EXCEPT
                      !.nused = Len(s),
                      !.lslots = [i \in DOMAIN @ |-> IF i < Len(s) THEN s[i + 1] ELSE Null]]]
       /\ listhead' = b /\ listtail' = b
  /\ size' = Len(s)
  /\ out' = Null
  /\ UNCHANGED <<changed, gen>>

\* A section of the list; copy() and sort() take all of it.
cplist(i, n) == NewList(cpslots(i, n), IF n = 0 THEN MinListSlots ELSE n)

\* The list ||| y, where y is the list itself, or another one.
lconcat(y) ==
  LET s == cpslots(1, size) \o y
  IN /\ Len(s) <= MaxSize
     /\ s = <<>> => EmptyConcat
     /\ NewList(s, Len(s))

\* Assigning to the variable get_element() gives: not a change of structure.
Assign(i, v) ==
  LET at == LelemForIndex(i) IN
  /\ blk' = [blk EXCEPT ![at[1]].lslots[Slot(blk[at[1]], at[2])] = v]
  /\ out' = Null
  /\ UNCHANGED <<listhead, listtail, size, changed, gen>>

----------------------------------------------------------------------------
(* The generator *)

\* It ends, or stands at notional index pos of block le and element i.
Ended == gen' = Null /\ out' = Null /\ changed' = FALSE

Stand(way, le, pos, i, sz) ==
  /\ gen' = [way |-> way, le |-> le, blockpos |-> pos, listindex |-> i, listsize |-> sz]
  /\ out' = blk[le].lslots[Slot(blk[le], pos)]
  /\ changed' = FALSE

lginit(way, i) ==
  LET at == LelemForIndex(i) IN
  IF at = Null THEN Ended ELSE Stand(way, at[1], at[2], i, size)

PrevUsed[le \in InUse] ==
  LET p == blk[le].listprev IN
  IF p = Hdr THEN Null ELSE IF blk[p].nused > 0 THEN p ELSE PrevUsed[p]

lgnext ==
  LET i == gen.listindex + 1 IN
  IF changed THEN lginit("next", i)
  ELSE IF gen.blockpos + 1 < blk[gen.le].nused
       THEN Stand("next", gen.le, gen.blockpos + 1, i, gen.listsize)
       ELSE IF NextUsed[gen.le] = Null THEN Ended
       ELSE Stand("next", NextUsed[gen.le], 0, i, gen.listsize)

\* Mistake: a backward generator goes on by index, not from the end.
lgprevByIndex ==
  LET i == gen.listindex - 1 IN
  IF changed THEN lginit("prev", i)
  ELSE IF gen.blockpos - 1 >= 0
       THEN Stand("prev", gen.le, gen.blockpos - 1, i, gen.listsize)
       ELSE LET p == PrevUsed[gen.le] IN
            IF p = Null THEN Ended ELSE Stand("prev", p, blk[p].nused - 1, i, gen.listsize)

lgprev ==
  LET i == gen.listindex - 1 IN
  IF changed THEN lginit("prev", i + size - gen.listsize)
  ELSE IF gen.blockpos - 1 >= 0
       THEN Stand("prev", gen.le, gen.blockpos - 1, i, gen.listsize)
       ELSE LET p == PrevUsed[gen.le] IN
            IF p = Null THEN Ended ELSE Stand("prev", p, blk[p].nused - 1, i, gen.listsize)

Unmoved == UNCHANGED <<blk, listhead, listtail, size>>

lgfirst == gen = Null /\ lginit("next", 1) /\ Unmoved
lglast  == gen = Null /\ lginit("prev", size) /\ Unmoved
GenStep ==
  /\ gen # Null
  /\ IF gen.way = "next" THEN lgnext ELSE lgprev
  /\ Unmoved

Next ==
  \/ \E v \in Val : list_push(v) \/ list_put(v)
  \/ list_get \/ list_pull \/ list_clear
  \/ \E i \in Index : list_del(i)
  \/ \E i \in Index, v \in Val : list_insert(i, v) \/ Assign(i, v)
  \/ \E i \in 1 .. size + 1 : \E n \in 0 .. size + 1 - i : cplist(i, n)
  \/ \E y \in {cpslots(1, size), <<>>} \cup {<<v>> : v \in Val} : lconcat(y)
  \/ lgfirst \/ lglast \/ GenStep

Spec == Init /\ [][Next]_vars

----------------------------------------------------------------------------
(* Properties *)

\* The types of the variables; a block in use has room for what it holds.
TypeOK ==
  /\ blk \in [Block -> Elem \cup {Null}]
  /\ \A b \in InUse : {blk[b].listnext, blk[b].listprev} \subseteq InUse \cup {Hdr}
  /\ listhead \in InUse /\ listtail \in InUse
  /\ size \in 0 .. MaxSize /\ changed \in BOOLEAN
  /\ out \in Val \cup {Null}
  /\ gen \in LgState \cup {Null}

\* The elements from block le on.
Rest[le \in InUse] ==
  [p \in 1 .. blk[le].nused |-> blk[le].lslots[Slot(blk[le], p - 1)]]
    \o IF blk[le].listnext = Hdr THEN <<>> ELSE Rest[blk[le].listnext]
Contents == Rest[listhead]

\* The blocks in use are one chain, linked both ways from header to header; only its
\* first and its last block may be empty, which is why get and pull need to look no
\* further than the block next to an empty one, and why there are at most two more
\* blocks than elements.
Chained ==
  \E chain \in SeqOf(InUse, size + 2) :
    /\ ToSet(chain) = InUse
    /\ Head(chain) = listhead /\ Last(chain) = listtail
    /\ \A k \in DOMAIN chain :
         /\ blk[chain[k]].listnext = IF k = Len(chain) THEN Hdr ELSE chain[k + 1]
         /\ blk[chain[k]].listprev = IF k = 1 THEN Hdr ELSE chain[k - 1]
         /\ k \notin {1, Len(chain)} => blk[chain[k]].nused > 0

\* The comments of list_get and list_pull: at either end, the first element is in
\* the first block or, when that has no elements in use, in the one next to it.
FoundAtEnds ==
  size > 0 =>
    /\ blk[listhead].nused > 0
         \/ (blk[listhead].listnext # Hdr /\ blk[blk[listhead].listnext].nused > 0)
    /\ blk[listtail].nused > 0
         \/ (blk[listtail].listprev # Hdr /\ blk[blk[listtail].listprev].nused > 0)

\* Every index finds its element, from whichever end it is looked for.
Indexed ==
  /\ Contents = [i \in Index |-> Element(i)]
  /\ \A i \in {0, size + 1} : LelemForIndex(i) = Null

\* A generator that sees no change of the structure stands where a search
\* for its index would bring it.
GeneratorAgrees ==
  gen # Null /\ ~changed => LelemForIndex(gen.listindex) = <<gen.le, gen.blockpos>>

\* Each operation does to the contents what it does to a sequence, and a
\* generator goes on from its index, or from its distance to the end,
\* whatever was done to the list since it last gave an element.
List == INSTANCE AbsList WITH
  seq <- Contents,
  place <- IF gen = Null THEN Null
           ELSE [way |-> gen.way,
                 at |-> IF gen.way = "next" THEN gen.listindex
                        ELSE gen.listsize - gen.listindex]
IsList == List!Spec
==============================================================================
