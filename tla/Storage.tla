------------------------------ MODULE Storage ------------------------------
(***************************************************************************)
(* Allocation and garbage collection (base/oix/ralc.r, rmemmgt.r), word by *)
(* word.  Blocks and strings live in regions; a region without room is     *)
(* left for another, collected, or joined by a new one.  collect() marks   *)
(* from the roots: a pointer to a block of the collected region is put in  *)
(* a chain that starts at the block's title, where the block's type was;   *)
(* the type is at the end of the chain.  adjust() walks the region, gives  *)
(* every pointer in a chain the address the block will have, and compact() *)
(* moves the blocks.  Blocks of other regions stay, with a mark while the  *)
(* collection lasts.  Strings are moved together first.                    *)
(*                                                                         *)
(* A word of memory has an address; a descriptor is one cell here, its     *)
(* dword in field d and its vword in v.  The blocks are objects with one   *)
(* field (for every block whose size is in it and that ends in             *)
(* descriptors), method pointers (for blocks with pointers), weak          *)
(* references and co-expressions.  Co-expressions have frames, which are   *)
(* allocated and freed by themselves, and frames share their variables.    *)
(***************************************************************************)
EXTENDS Naturals, Integers, Sequences, FiniteSets, SequencesExt

CONSTANTS
  BlockSize, StringSize,      \* of the first regions
  MaxRegions,                 \* regions that malloc() can ever give, of a kind
  MinAbrSize, memcushion, memgrowth,
  Frames, FrameVars,          \* what small_alloc() can give
  Id,                         \* identities of blocks
  Allocations, Operations     \* bounds on a run: blocks and strings allocated, and steps

ASSUME StorageAssumption ==
  /\ BlockSize \in Nat /\ StringSize \in Nat /\ MaxRegions \in 1 .. 9
  /\ MinAbrSize \in Nat /\ memcushion \in 0 .. 100 /\ memgrowth \in 0 .. 100
  /\ Frames \subseteq 1 .. 9 /\ FrameVars \subseteq 1 .. 9 /\ 1 \in Frames \cap FrameVars

VARIABLES
  h,          \* memory: words, characters, regions, frames
  seen,       \* what a program can see of it (a function of h)
  done        \* [allocations, operations] since the start, for the bounds

vars == <<h, seen, done>>

----------------------------------------------------------------------------
(* Words, types and the tables of rmemmgt.r.                               *)


T_Object == 1
T_Methp == 2
T_Coexpr == 3
T_Weakref == 4
MaxType == 4
F_Mark == 5     \* added to a type

\* Size of each type of block (0: it is in the block's second word), where its pointers
\* and descriptors begin (0: it has none) and how many there are (0: to the end).
bsizes == <<0, 3, 4, 4>>
firstp == <<0, 2, 0, 0>>
ptrno  == <<-1, 1, -1, -1>>
firstd == <<3, 0, 0, 0>>
descno == <<0, -1, -1, -1>>

\* Where things are in blocks.
IdAt == <<2, 1, 1, 1>>
activator == 2
sp == 3
chain == 2
val == 3

\* Values of dword, when it is not the length of a string.
D_Null == -1
F_Ptr == -2
D_Word == -3

Cell(d, v) == [d |-> d, v |-> v]
nulldesc == Cell(D_Null, 0)
Word(v) == Cell(D_Word, v)
Qual(c) == c.d >= 0
Pointer(c) == c.d = F_Ptr

\* Addresses outside regions: a global, K_main, K_current, k_current, the argument of a
\* C function, and the variables of frames.
Global == 10
K_main == 11
K_current == 12
k_current == 13
Arg == 14
VarCell(v) == 20 + v

CFrame == 10      \* the frame of the C function, next to Frames
CString == 1      \* address of the string constant "ab" of the program
Constant == <<"a", "b">>

Base(kind, i) == IF kind = "blk" THEN 100 * i ELSE 1000 * i
Later(kind, size) == UNION {Base(kind, i) .. Base(kind, i) + size - 1 : i \in 1 .. MaxRegions}

Biggest(n, m) == IF n < m THEN m ELSE n
InRange(r, p, more) == r.base <= p /\ p < r.free + more

curblock(s) == s.region.blk[s.cur.blk]
curstring(s) == s.region.str[s.cur.str]
InOthers(s, b) == \E i \in DOMAIN s.region.blk \ {s.cur.blk} : InRange(s.region.blk[i], b, 0)

BlkType(m, b) == m[b].v
TypeOf(m, b) == IF BlkType(m, b) > MaxType THEN BlkType(m, b) - F_Mark ELSE BlkType(m, b)
BlkSize(m, b) == IF bsizes[TypeOf(m, b)] # 0 THEN bsizes[TypeOf(m, b)] ELSE m[b + 1].v

\* The blocks from address p on, in order.
BlocksFrom(m, r) ==
  LET at[p \in r.base .. r.free] == IF p >= r.free THEN <<>> ELSE <<p>> \o at[p + BlkSize(m, p)]
  IN at[r.base]

----------------------------------------------------------------------------
(* Frames.                                                                 *)

NoFrame == [type |-> "free", fvars |-> 0, parent_sp |-> 0]

StackFrom(s, f) ==
  LET from[g \in Frames \cup {CFrame, 0}] == IF g = 0 THEN <<>> ELSE <<g>> \o from[s.frame[g].parent_sp]
  IN from[f]

FreeOf(s) == {f \in Frames : s.frame[f].type = "free"}
FreeVars(s) == {v \in FrameVars : s.refcnt[v] = 0}
Least(S) == CHOOSE i \in S : \A j \in S : i <= j

\* A frame with variables fvars, or its own.
alc_p_frame(s, f, fvars, parent) ==
  LET v == IF fvars # 0 THEN fvars ELSE Least(FreeVars(s))
  IN [s EXCEPT !.frame[f] = [type |-> "P", fvars |-> v, parent_sp |-> parent],
               !.refcnt[v] = @ + 1,
               !.mem[VarCell(v)] = IF fvars # 0 THEN @ ELSE nulldesc]

free_frame(s, f) ==
  LET v == s.frame[f].fvars
  IN IF v = 0 THEN [s EXCEPT !.frame[f] = NoFrame]
     ELSE [s EXCEPT !.frame[f] = NoFrame, !.refcnt[v] = @ - 1,
                    !.mem[VarCell(v)] = IF s.refcnt[v] = 1 THEN nulldesc ELSE @]

free_stack(s, c) == FoldLeft(free_frame, s, StackFrom(s, s.mem[c + sp].v))

----------------------------------------------------------------------------
(* The mark phase.  g is the memory with the pointers still to be looked   *)
(* at (stk), the strings found (qual), the weak references found and the   *)
(* frame variables seen.                                                   *)

stk_add(g, p) == [g EXCEPT !.stk = Append(@, p)]

postqual(g, c) ==
  IF InRange(curstring(g.s), g.s.mem[c].v, 1) THEN [g EXCEPT !.qual = Append(@, c)] ELSE g

PostDescrip(g, c) ==
  IF Qual(g.s.mem[c]) THEN postqual(g, c)
  ELSE IF Pointer(g.s.mem[c]) THEN stk_add(g, c) ELSE g

\* Puts pointer p in the chain of the block it points to.
Thread(m, p) == LET b == m[p].v IN [m EXCEPT ![p].v = m[b].v, ![b].v = p]

\* Variables shared by frames are posted once; collected, which seen is compared with,
\* is another at each collection.
SweepVars(g, v) ==
  IF v = 0 \/ v \in g.seen THEN g ELSE PostDescrip([g EXCEPT !.seen = @ \cup {v}], VarCell(v))

sweep_stack(g, f) ==
  FoldLeft(LAMBDA x, k : IF x.s.frame[k].type = "C" THEN PostDescrip(x, Arg)
                         ELSE SweepVars(x, x.s.frame[k].fvars),
           g, StackFrom(g.s, f))

\* The cells of block b from offset first on, number of them or to its end.
Cells(b, size, first, number) ==
  IF first = 0 THEN <<>>
  ELSE [i \in 1 .. (IF number > 0 THEN number ELSE size - first) |-> b + first + i - 1]

ScanBlock(g, b, type0, size) ==
  CASE type0 = T_Coexpr ->
         sweep_stack(IF g.s.mem[b + activator].v # 0 THEN stk_add(g, b + activator) ELSE g,
                     g.s.mem[b + sp].v)
    [] type0 = T_Weakref ->
         IF g.s.mem[b + val] = nulldesc THEN g
         ELSE [g EXCEPT !.s.mem[b + chain] = Word(g.weakrefs), !.weakrefs = b]
    [] OTHER ->
         LET pointers == SelectSeq(Cells(b, size, firstp[type0], ptrno[type0]),
                                   LAMBDA p : g.s.mem[p].v # 0)
         IN FoldLeft(PostDescrip, [g EXCEPT !.stk = @ \o pointers],
                     Cells(b, size, firstd[type0], descno[type0]))

markptr(g0) ==
  LET p == Last(g0.stk)
      g == [g0 EXCEPT !.stk = Front(@)]
      m == g.s.mem
      b == m[p].v
      type0 == BlkType(m, b)
      threaded == [g EXCEPT !.s.mem = Thread(m, p)]
  IN IF InRange(curblock(g.s), b, 0)
     THEN IF type0 > MaxType THEN threaded ELSE ScanBlock(threaded, b, type0, BlkSize(m, b))
     ELSE IF InOthers(g.s, b) /\ type0 <= MaxType
     THEN ScanBlock([g EXCEPT !.s.mem[b].v = type0 + F_Mark], b, type0, BlkSize(m, b))
     ELSE g

RECURSIVE stk_markptrs(_)
stk_markptrs(g) == IF g.stk = <<>> THEN g ELSE stk_markptrs(markptr(g))

\* Mistake: the pointer to a marked block stays out of the block's chain.
do_weakref_Unthreaded(g) ==
  LET t == g.weakrefs
      marked == BlkType(g.s.mem, g.s.mem[t + val].v) > MaxType
  IN [g EXCEPT !.weakrefs = g.s.mem[t + chain].v,
               !.s.mem = [@ EXCEPT ![t + chain] = Word(0), ![t + val] = IF marked THEN @ ELSE nulldesc]]

\* A weak reference to a marked block is a pointer as any other; the rest are cleared.
do_weakref(g) ==
  LET t == g.weakrefs
      b == g.s.mem[t + val].v
      resolved == IF BlkType(g.s.mem, b) <= MaxType THEN [g.s.mem EXCEPT ![t + val] = nulldesc]
                  ELSE IF InRange(curblock(g.s), b, 0) THEN Thread(g.s.mem, t + val)
                  ELSE g.s.mem
  IN [g EXCEPT !.weakrefs = g.s.mem[t + chain].v,
               !.s.mem = [resolved EXCEPT ![t + chain] = Word(0)]]

RECURSIVE do_weakrefs(_)
do_weakrefs(g) == IF g.weakrefs = 0 THEN g ELSE do_weakrefs(do_weakref(g))

Marked(s) ==
  LET g == [s |-> s, stk |-> <<>>, qual |-> <<>>, weakrefs |-> 0, seen |-> {}]
      program == [PostDescrip(g, Global) EXCEPT !.stk = @ \o <<K_main, K_current, k_current>>]
  IN do_weakrefs(stk_markptrs(program))

----------------------------------------------------------------------------
(* Strings: those in use are moved together, in the order they are in.     *)

\* Characters of a clump, or words of a block, are moved.
memmove(m, dest, source, size) ==
  [p \in dest .. dest + size - 1 |-> m[p - dest + source]] @@ m

\* Looks at one qualifier; clumps are what overlaps or adjoins.
SweepString(w, c) ==
  LET loc == w.mem[c].v
      size == w.cend - w.source
      n == IF loc <= w.cend THEN w
           ELSE [w EXCEPT !.chars = memmove(@, w.dest, w.source, size),
                          !.dest = @ + size, !.source = loc, !.cend = loc]
  IN [n EXCEPT !.cend = Biggest(@, loc + w.mem[c].d), !.mem[c].v = loc + n.dest - n.source]

\* Nobody looks beyond free; what is there is not told apart.
Blank(m, r, nothing) == [p \in r.free .. r.end - 1 |-> nothing] @@ m

scollect(s, qual) ==
  LET list == SortSeq(qual, LAMBDA c, e : s.mem[c].v < s.mem[e].v)
      r == curstring(s)
      first == s.mem[list[1]].v
      w == FoldLeft(SweepString,
                    [mem |-> s.mem, chars |-> s.chars, dest |-> r.base, source |-> first, cend |-> first],
                    list)
      size == w.cend - w.source
      free == IF qual = <<>> THEN r.base ELSE w.dest + size
      swept == IF qual = <<>> THEN s
               ELSE [s EXCEPT !.mem = w.mem, !.chars = memmove(w.chars, w.dest, w.source, size)]
  IN [swept EXCEPT !.region.str[s.cur.str].free = free, !.chars = Blank(@, [r EXCEPT !.free = free], "-")]

----------------------------------------------------------------------------
(* Blocks.                                                                 *)

\* The pointers in the chain that begins at next are set to dest; the type is at its end.
RECURSIVE Unchain(_, _, _, _)
Unchain(m, source, next, dest) ==
  IF next <= MaxType THEN [m EXCEPT ![source].v = next + F_Mark]
  ELSE Unchain([m EXCEPT ![next].v = dest], source, m[next].v, dest)

RECURSIVE AdjustFrom(_, _, _, _)
AdjustFrom(m, source, dest, free) ==
  LET marked == BlkType(m, source) > MaxType
      n == IF marked THEN Unchain(m, source, BlkType(m, source), dest) ELSE m
      size == BlkSize(n, source)
  IN IF source >= free THEN m
     ELSE AdjustFrom(n, source + size, IF marked THEN dest + size ELSE dest, free)

adjust(s) ==
  LET r == curblock(s) IN [s EXCEPT !.mem = AdjustFrom(@, r.base, r.base, r.free)]

RECURSIVE CompactFrom(_, _, _)
CompactFrom(s, source, dest) ==
  LET marked == BlkType(s.mem, source) > MaxType
      size == BlkSize(s.mem, source)
      r == curblock(s)
  IN IF source >= r.free
     THEN [s EXCEPT !.region.blk[s.cur.blk].free = dest,
                    !.mem = Blank(@, [r EXCEPT !.free = dest], Word(0))]
     ELSE IF marked
     THEN CompactFrom([s EXCEPT !.mem = memmove([@ EXCEPT ![source].v = TypeOf(s.mem, source)],
                                                dest, source, size)],
                      source + size, dest + size)
     ELSE CompactFrom(IF BlkType(s.mem, source) = T_Coexpr THEN free_stack(s, source) ELSE s,
                      source + size, dest)

compact(s) == CompactFrom(s, curblock(s).base, curblock(s).base)

\* In another region: marks are removed, and stacks of co-expressions without one freed.
UnmarkBlock(s, b) ==
  IF BlkType(s.mem, b) # T_Coexpr THEN [s EXCEPT !.mem[b].v = TypeOf(s.mem, b)]
  ELSE [free_stack(s, b) EXCEPT !.mem[b + sp] = Word(0)]

unmark_region(s, i) == FoldLeft(UnmarkBlock, s, BlocksFrom(s.mem, s.region.blk[i]))

collect(s) ==
  LET g == Marked(s)
  IN FoldLeft(unmark_region, compact(adjust(scollect(g.s, g.qual))),
              SetToSeq(DOMAIN s.region.blk \ {s.cur.blk}))

----------------------------------------------------------------------------
(* Regions.                                                                *)

Room(s, kind, i) == s.region[kind][i].end - s.region[kind][i].free
Switch(s, kind, i) == [s EXCEPT !.cur[kind] = i]

Newest(s, kind) == Len(s.region[kind])
\* From the newest region to the oldest.
NewestFirst(s, kind) == [k \in 1 .. Newest(s, kind) |-> Newest(s, kind) + 1 - k]

\* The newest region with room, or 0.
WithRoom(s, kind, n) ==
  LET have == {i \in DOMAIN s.region[kind] : Room(s, kind, i) >= n}
  IN IF have = {} THEN 0 ELSE CHOOSE i \in have : \A j \in have : j <= i

\* Collects the regions whose size is as Fits says, until one has n free.
CollectUntil(s, kind, n, Fits(_)) ==
  FoldLeft(LAMBDA w, i : IF w.ok \/ ~Fits(s.region[kind][i].end - s.region[kind][i].base) THEN w
                         ELSE LET c == collect(Switch(w.s, kind, i))
                              IN [ok |-> Room(c, kind, i) >= n, s |-> c],
           [ok |-> FALSE, s |-> s], NewestFirst(s, kind))

\* The sizes newregion() asks malloc() for, one after the other.
Tried(nbytes, stdsize) ==
  LET least == Biggest(MinAbrSize, nbytes)
      from[n \in 0 .. stdsize] ==
        {n} \cup (LET less == ((n + nbytes) \div 2) - 1
                  IN IF less >= least /\ less < n THEN from[less] ELSE {})
  IN from[stdsize]

WithRegion(s, kind, size) ==
  LET i == Newest(s, kind) + 1
      b == Base(kind, i)
  IN [s EXCEPT !.region[kind] = Append(@, [base |-> b, free |-> b, end |-> b + size]), !.cur[kind] = i]

\* What may come of asking for n more: malloc() gives one of the sizes, or nothing.
reserve(s, kind, n) ==
  LET size == s.region[kind][Newest(s, kind)].end - s.region[kind][Newest(s, kind)].base
      want == Biggest(n, (size * memcushion) \div 100)
      newsize == Biggest(Biggest(n, (size * memgrowth) \div 100), MinAbrSize)
      w == CollectUntil(s, kind, want, LAMBDA z : z >= want)
      last == CollectUntil(w.s, kind, n, LAMBDA z : z < want /\ z >= n)
  IN IF Room(s, kind, s.cur[kind]) >= n THEN {[ok |-> TRUE, s |-> s]}
     ELSE IF WithRoom(s, kind, n) # 0 THEN {[ok |-> TRUE, s |-> Switch(s, kind, WithRoom(s, kind, n))]}
     ELSE IF w.ok THEN {w}
     ELSE (IF Newest(s, kind) = MaxRegions THEN {}
           ELSE {[ok |-> TRUE, s |-> WithRegion(w.s, kind, z)] : z \in Tried(n, newsize)})
          \cup {IF WithRoom(w.s, kind, n) # 0
                THEN [ok |-> TRUE, s |-> Switch(w.s, kind, WithRoom(w.s, kind, n))] ELSE last}

----------------------------------------------------------------------------
(* What of this a program can see.                                         *)

Current(s) == s.mem[K_current].v
IdOf(s, b) == s.mem[b + IdAt[TypeOf(s.mem, b)]].v

Seen(s) ==
  LET content(c) == IF Qual(c) THEN <<"str", [i \in 1 .. c.d |-> s.chars[c.v + i - 1]]>>
                    ELSE IF Pointer(c) THEN <<"obj", IdOf(s, c.v)>> ELSE <<"null">>
      stack(b) == [k \in DOMAIN StackFrom(s, s.mem[b + sp].v) |->
                     s.frame[StackFrom(s, s.mem[b + sp].v)[k]].fvars]
      next(b) ==
        CASE TypeOf(s.mem, b) = T_Coexpr ->
               {VarCell(stack(b)[k]) : k \in DOMAIN stack(b)}
                 \cup (IF s.mem[b + activator].v = 0 THEN {} ELSE {b + activator})
          [] TypeOf(s.mem, b) = T_Methp -> {b + firstp[T_Methp]}
          [] OTHER -> {b + 3}
      targets(cells) == {s.mem[c].v : c \in {e \in cells : ~Qual(s.mem[e]) /\ s.mem[e] # nulldesc}}
      from[n \in 0 .. Cardinality(Id)] ==
        IF n = 0 THEN targets({Global, K_main, K_current})
        ELSE LET S == from[n - 1] IN S \cup targets(UNION {next(b) : b \in S})
      blocks == from[Cardinality(Id)]
      at(i) == CHOOSE b \in blocks : IdOf(s, b) = i
      object(b) ==
        LET type == TypeOf(s.mem, b)
        IN [kind |-> <<"object", "methp", "coexpr", "weakref">>[type],
            val |-> IF type = T_Coexpr THEN <<"null">> ELSE IF type = T_Methp THEN <<"obj", IdOf(s, s.mem[b + 2].v)>>
                    ELSE content(s.mem[b + 3]),
            activator |-> IF type # T_Coexpr \/ s.mem[b + activator].v = 0 THEN 0
                          ELSE IdOf(s, s.mem[b + activator].v),
            stack |-> IF type = T_Coexpr THEN stack(b) ELSE <<>>]
      used == UNION {Range(stack(b)) : b \in {c \in blocks : TypeOf(s.mem, c) = T_Coexpr}}
  IN [global |-> content(s.mem[Global]),
      current |-> IdOf(s, Current(s)),
      objs |-> [i \in {IdOf(s, b) : b \in blocks} |-> object(at(i))],
      vars |-> [v \in FrameVars |-> IF v \in used THEN content(s.mem[VarCell(v)]) ELSE <<"null">>],
      kept |-> {v \in FrameVars : s.refcnt[v] # 0},
      frames |-> Cardinality({f \in Frames : s.frame[f].type # "free"})]

----------------------------------------------------------------------------
(* What a program does.  Every operation is one step: the run-time system  *)
(* has one thread, and a collection happens inside an allocation.          *)

ProcFrame(s) == LET f == s.mem[Current(s) + sp].v IN IF f = CFrame THEN s.frame[f].parent_sp ELSE f
Locals(s) == s.frame[ProcFrame(s)].fvars

Places == {"global", "local"}
Place(s, x) == IF x = "global" THEN Global ELSE VarCell(Locals(s))
Value(s, x) == s.mem[Place(s, x)]
Store(s, x, c) == [s EXCEPT !.mem[Place(s, x)] = c]

BlockOf(s, c) == IF Pointer(c) THEN TypeOf(s.mem, c.v) ELSE 0
AllBlocks(s) == UNION {Range(BlocksFrom(s.mem, s.region.blk[i])) : i \in DOMAIN s.region.blk}

\* Serial numbers are told apart only from those of blocks still there.
NewId(s) == Least(Id \ {IdOf(s, b) : b \in AllBlocks(s)})

\* n words at the end of the block region, after reserve().
AlcBlk(s, n) ==
  {[ok |-> r.ok, b |-> curblock(r.s).free, id |-> Word(NewId(r.s)),
    s |-> IF r.ok THEN [r.s EXCEPT !.region.blk[r.s.cur.blk].free = @ + n] ELSE r.s] :
     r \in reserve(s, "blk", n)}

Write(s, b, cells) ==
  [s EXCEPT !.mem = [p \in b .. b + Len(cells) - 1 |-> cells[p - b + 1]] @@ @]

\* A C function is called with argument c, and returns.
Enter(s, c) ==
  LET at == Current(s) + sp
  IN [s EXCEPT !.frame[CFrame] = [type |-> "C", fvars |-> 0, parent_sp |-> s.mem[at].v],
               !.mem[at] = Word(CFrame), !.mem[Arg] = c]
Leave(s) ==
  [s EXCEPT !.mem[Current(s) + sp] = Word(s.frame[CFrame].parent_sp),
            !.frame[CFrame] = NoFrame, !.mem[Arg] = nulldesc]

Block(r, type) ==
  LET arg == r.s.mem[Arg]
  IN CASE type = T_Object -> <<Word(T_Object), Word(4), r.id, arg>>
       [] type = T_Methp -> <<Word(T_Methp), r.id, Word(arg.v)>>
       [] type = T_Weakref -> <<Word(T_Weakref), r.id, Word(0), arg>>
       [] type = T_Coexpr -> <<Word(T_Coexpr), r.id, Word(0), Word(0)>>

Becomes(s) ==
  /\ h' = s /\ seen' = Seen(s)
  /\ done.operations < Operations /\ done' = [done EXCEPT !.operations = @ + 1]
Allocates(s) ==
  /\ h' = s /\ seen' = Seen(s)
  /\ done.operations < Operations
  /\ done' = [allocations |-> done.allocations + 1, operations |-> done.operations + 1]
MayAllocate == done.allocations < Allocations /\ done.operations < Operations

SizeOf(type) == IF bsizes[type] # 0 THEN bsizes[type] ELSE 4

\* global := a new block made from the value of y
Make(y, type) ==
  /\ MayAllocate
  /\ type = T_Methp => BlockOf(h, Value(h, y)) = T_Object
  /\ type = T_Weakref => BlockOf(h, Value(h, y)) \in {T_Object, T_Methp, T_Coexpr}
  /\ \E r \in AlcBlk(Enter(h, Value(h, y)), SizeOf(type)) :
       LET made == Write(r.s, r.b, Block(r, type))
       IN Allocates(IF r.ok THEN Store(Leave(made), "global", Cell(F_Ptr, r.b)) ELSE Leave(r.s))

\* Co-expressions are looked at for stacks that can be freed, once in a while.
check_stack_usage(s) == {s, collect(s)}

\* A co-expression with a frame of its own, that has variables fvars or its own.
AlcCoexpr(s, fvars(_), copied(_, _)) ==
  UNION {{LET b == r.b
              f == Least(FreeOf(r.s))
              w == Write(r.s, b, Block(r, T_Coexpr))
              e == [alc_p_frame(w, f, fvars(w), 0) EXCEPT !.mem[b + sp] = Word(f)]
          IN IF r.ok THEN Store(Leave(copied(e, b)), "global", Cell(F_Ptr, b)) ELSE Leave(r.s) :
            r \in AlcBlk(c, SizeOf(T_Coexpr))} : c \in check_stack_usage(s)}

\* global := create ...
Create ==
  /\ MayAllocate /\ FreeOf(h) # {}
  /\ \E s \in AlcCoexpr(Enter(h, nulldesc), Locals, LAMBDA e, b : e) : Allocates(s)

BaseVars(s, c) == s.frame[Last(StackFrom(s, s.mem[c + sp].v))].fvars

\* global := cocopy(y)
Cocopy(y) ==
  /\ MayAllocate /\ FreeOf(h) # {} /\ FreeVars(h) # {}
  /\ BlockOf(h, Value(h, y)) = T_Coexpr /\ Value(h, y).v # h.mem[K_main].v
  /\ \E s \in AlcCoexpr(Enter(h, Value(h, y)), LAMBDA s : 0,
                        LAMBDA e, b : [e EXCEPT !.mem[VarCell(BaseVars(e, b))] =
                                                  e.mem[VarCell(BaseVars(e, e.mem[Arg].v))]]) :
       Allocates(s)

\* A string replaced by a copy of it; the string is tended while reserve() runs.
Dup(x) ==
  /\ MayAllocate /\ Qual(Value(h, x))
  /\ \E r \in reserve(Enter(h, Value(h, x)), "str", Value(h, x).d) :
       LET n == r.s.mem[Arg].d
           free == curstring(r.s).free
           copied == [r.s EXCEPT !.chars = memmove(@, free, r.s.mem[Arg].v, n),
                                 !.region.str[r.s.cur.str].free = @ + n]
       IN Allocates(IF r.ok THEN Store(Leave(copied), x, Cell(n, free)) ELSE Leave(r.s))

\* x := y, x := &null and global := "ab"
Assign(x, y) == x # y /\ Value(h, x) # Value(h, y) /\ Becomes(Store(h, x, Value(h, y)))
Clear(x) == Value(h, x) # nulldesc /\ Becomes(Store(h, x, nulldesc))
Literal == Becomes(Store(h, "global", Cell(Len(Constant), CString)))

\* global := global[i:j]
Section ==
  LET c == h.mem[Global]
  IN /\ Qual(c)
     /\ \E i \in 1 .. c.d + 1 : \E j \in i .. c.d + 1 :
          j - i < c.d /\ Becomes(Store(h, "global", Cell(j - i, c.v + i - 1)))

\* global.field := y
SetField(y) ==
  /\ BlockOf(h, h.mem[Global]) = T_Object
  /\ Becomes([h EXCEPT !.mem[h.mem[Global].v + firstd[T_Object]] = Value(h, y)])

\* global := global.field, its object, or weakrefval(global)
GetField ==
  LET b == h.mem[Global].v
      type == BlockOf(h, h.mem[Global])
      from == CASE type = T_Object -> h.mem[b + firstd[T_Object]]
                [] type = T_Methp -> Cell(F_Ptr, h.mem[b + firstp[T_Methp]].v)
                [] type = T_Weakref -> h.mem[b + val]
  IN /\ type \in {T_Object, T_Methp, T_Weakref}
     /\ type = T_Weakref => from # nulldesc
     /\ Becomes(Store(h, "global", from))

SwitchTo(s, c) == [s EXCEPT !.mem[K_current] = Word(c), !.mem[k_current] = Word(c)]

\* @global, and the return from it
Activate ==
  LET c == h.mem[Global].v
  IN /\ BlockOf(h, h.mem[Global]) = T_Coexpr
     /\ Becomes([SwitchTo(h, c) EXCEPT !.mem[c + activator] = Word(Current(h))])
Coret ==
  /\ Current(h) # h.mem[K_main].v
  /\ Becomes(SwitchTo(h, h.mem[Current(h) + activator].v))

\* A procedure is called, and returns.
Call ==
  /\ FreeOf(h) # {} /\ FreeVars(h) # {}
  /\ Becomes([alc_p_frame(h, Least(FreeOf(h)), 0, ProcFrame(h)) EXCEPT
                !.mem[Current(h) + sp] = Word(Least(FreeOf(h)))])
Return ==
  /\ h.frame[ProcFrame(h)].parent_sp # 0
  /\ Becomes(free_frame([h EXCEPT !.mem[Current(h) + sp] = Word(h.frame[ProcFrame(h)].parent_sp)],
                        ProcFrame(h)))

\* collect()
Collect == Becomes(collect(h))

----------------------------------------------------------------------------

\* The main co-expression is the first block.
InitialMemory ==
  LET main == Base("blk", 1)
      block == <<Word(T_Coexpr), Word(Least(Id)), Word(main), Word(1)>>
  IN [i \in main .. main + 3 |-> block[i - main + 1]]
       @@ [p \in {K_main, K_current, k_current} |-> Word(main)]
       @@ [p \in {Global, Arg} \cup {VarCell(v) : v \in FrameVars} |-> nulldesc]
       @@ [p \in Later("blk", Biggest(BlockSize, 4)) |-> Word(0)]

Region(kind, size, used) ==
  <<[base |-> Base(kind, 1), free |-> Base(kind, 1) + used, end |-> Base(kind, 1) + size]>>

Init ==
  /\ h = [mem |-> InitialMemory,
          chars |-> [p \in CString .. CString + Len(Constant) - 1 |-> Constant[p - CString + 1]]
                      @@ [p \in Later("str", Biggest(StringSize, 2)) |-> "-"],
          region |-> [blk |-> Region("blk", BlockSize, 4), str |-> Region("str", StringSize, 0)],
          cur |-> [blk |-> 1, str |-> 1],
          frame |-> 1 :> [type |-> "P", fvars |-> 1, parent_sp |-> 0]
                      @@ [f \in Frames \cup {CFrame} |-> NoFrame],
          refcnt |-> 1 :> 1 @@ [v \in FrameVars |-> 0]]
  /\ seen = Seen(h) /\ done = [allocations |-> 0, operations |-> 0]

Next ==
  \/ \E y \in Places, type \in {T_Object, T_Methp, T_Weakref} : Make(y, type)
  \/ \E y \in Places : Cocopy(y) \/ SetField(y)
  \/ \E x, y \in Places : Assign(x, y)
  \/ \E x \in Places : Dup(x) \/ Clear(x)
  \/ Create \/ Literal \/ Section \/ GetField \/ Activate \/ Coret \/ Call \/ Return \/ Collect

Spec == Init /\ [][Next]_vars

Heap == INSTANCE AbsHeap WITH a <- seen, Main <- Least(Id), Fvars <- FrameVars, Chars <- Constant

\* Whatever is allocated, moved and collected, in whichever region: a program finds in every
\* variable and object what was put there; weak references are cleared, and stacks of
\* co-expressions freed, just when a collection finds that nothing else leads to them.
ImplementsHeap == Heap!Spec
=============================================================================
