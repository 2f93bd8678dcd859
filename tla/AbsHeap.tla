------------------------------- MODULE AbsHeap -------------------------------
(***************************************************************************)
(* What storage promises a program: values and objects that stay what they *)
(* are until they are changed, however often memory is moved around below  *)
(* them.  A collection is seen in two ways only: a weak reference to what  *)
(* nothing else leads to becomes null, and the stacks of co-expressions    *)
(* that nothing leads to are given back.                                   *)
(***************************************************************************)
EXTENDS Naturals, Sequences, FiniteSets

CONSTANTS
  Id,       \* what objects are told apart by
  Main,     \* the main co-expression
  Fvars,    \* sets of local variables
  Chars     \* the characters of the string constant

VARIABLE a  \* global, current: roots; objs: by identity; vars: values of locals;
            \* kept: locals not given back; frames: the number of frames not given back

Null == <<"null">>
Str(s) == <<"str", s>>
Obj(i) == <<"obj", i>>
IsObj(v) == v[1] = "obj"
IdsIn(v) == IF IsObj(v) THEN {v[2]} ELSE {}

Object(k, v) == [kind |-> k, val |-> v, activator |-> 0, stack |-> <<>>]
Coexpr(s) == [kind |-> "coexpr", val |-> Null, activator |-> 0, stack |-> s]

----------------------------------------------------------------------------

Places == {"global", "local"}

Top(b) == b.objs[b.current].stack[1]
Get(b, x) == IF x = "global" THEN b.global ELSE b.vars[Top(b)]
Put(b, x, v) ==
  IF x = "global" THEN [b EXCEPT !.global = v] ELSE [b EXCEPT !.vars[Top(b)] = v]

\* What leads on from object i; weak references count where weak is TRUE.
Successors(b, i, weak) ==
  LET o == b.objs[i]
  IN (IF o.kind = "weakref" /\ ~weak THEN {} ELSE IdsIn(o.val))
       \cup ({o.activator} \ {0}) \cup UNION {IdsIn(b.vars[v]) : v \in {o.stack[k] : k \in DOMAIN o.stack}}

Reached(b, weak) ==
  LET from[n \in 0 .. Cardinality(Id)] ==
        IF n = 0 THEN {Main, b.current} \cup IdsIn(b.global)
        ELSE LET S == from[n - 1] IN S \cup UNION {Successors(b, i, weak) : i \in S}
  IN from[Cardinality(Id)]

StackVars(b, ids) == UNION {{b.objs[i].stack[k] : k \in DOMAIN b.objs[i].stack} : i \in ids}

\* Only what a program can still get at is told of.
Tidy(b) ==
  LET ids == Reached(b, TRUE)
  IN [b EXCEPT !.objs = [i \in ids |-> b.objs[i]],
               !.vars = [v \in Fvars |-> IF v \in StackVars(b, ids) THEN b.vars[v] ELSE Null]]

Depths(b, ids) ==
  Cardinality(UNION {{<<i, k>> : k \in DOMAIN b.objs[i].stack} : i \in ids})

Collected(b) ==
  LET live == Reached(b, FALSE)
      cleared(i) == b.objs[i].kind = "weakref" /\ IdsIn(b.objs[i].val) \cap live = {}
  IN Tidy([b EXCEPT !.objs = [i \in live |-> IF cleared(i) THEN Object("weakref", Null) ELSE b.objs[i]],
                    !.kept = StackVars(b, live),
                    !.frames = Depths(b, live)])

----------------------------------------------------------------------------

Init ==
  \E v \in Fvars :
    a = [global |-> Null, current |-> Main, kept |-> {v}, frames |-> 1,
         vars |-> [w \in Fvars |-> Null],
         objs |-> [i \in {Main} |-> [Coexpr(<<v>>) EXCEPT !.activator = Main]]]

\* Each operation, on b, gives the state after it; a collection may come before it.
Assigned(b) == {Put(b, x, v) : x \in Places, v \in {Null, Str(Chars)} \cup {Get(b, y) : y \in Places}}

Sections(b) ==
  UNION {LET s == Get(b, y)[2]
         IN {Put(b, x, Str(SubSeq(s, i, j - 1))) :
               x \in Places, i \in 1 .. Len(s) + 1, j \in 1 .. Len(s) + 1} :
           y \in {z \in Places : Get(b, z)[1] = "str"}}

Fresh(b) == Id \ DOMAIN b.objs
WithNew(b, x, i, o) == Put([b EXCEPT !.objs = [j \in DOMAIN @ \cup {i} |-> IF j = i THEN o ELSE b.objs[j]]], x, Obj(i))

KindOf(b, v) == IF IsObj(v) THEN b.objs[v[2]].kind ELSE "none"

Made(b) ==
  UNION {{WithNew(b, x, i, Object(k, Get(b, y))) :
            i \in Fresh(b), k \in {"object"} \cup (IF KindOf(b, Get(b, y)) = "object" THEN {"methp"} ELSE {})
                                    \cup (IF IsObj(Get(b, y)) /\ KindOf(b, Get(b, y)) # "weakref" THEN {"weakref"} ELSE {})} :
           x \in Places, y \in Places}

\* create, and cocopy with locals of its own.
Created(b) == {[WithNew(b, x, i, Coexpr(<<Top(b)>>)) EXCEPT !.frames = @ + 1] : x \in Places, i \in Fresh(b)}
Copied(b) ==
  UNION {LET o == b.objs[Get(b, y)[2]]
             from == o.stack[Len(o.stack)]
         IN {[WithNew(b, x, i, Coexpr(<<v>>)) EXCEPT
                !.frames = @ + 1, !.kept = @ \cup {v}, !.vars[v] = b.vars[from]] :
               x \in Places, i \in Fresh(b), v \in Fvars \ b.kept} :
           y \in {z \in Places : KindOf(b, Get(b, z)) = "coexpr" /\ Get(b, z) # Obj(Main)}}

FieldSet(b) ==
  {[b EXCEPT !.objs[Get(b, x)[2]].val = Get(b, y)] :
     x \in {z \in Places : KindOf(b, Get(b, z)) = "object"}, y \in Places}
FieldGot(b) ==
  {Put(b, x, b.objs[Get(b, y)[2]].val) :
     x \in Places,
     y \in {z \in Places : LET k == KindOf(b, Get(b, z))
                          IN k \in {"object", "methp", "weakref"}
                             /\ (k = "weakref" => b.objs[Get(b, z)[2]].val # Null)}}

Activated(b) ==
  {[b EXCEPT !.current = c, !.objs[c].activator = b.current] :
     c \in {Get(b, x)[2] : x \in {z \in Places : KindOf(b, Get(b, z)) = "coexpr"}}}
Returned(b) ==
  LET c == b.current
  IN IF c = Main THEN {}
     ELSE {[b EXCEPT !.current = b.objs[c].activator]}

Called(b) ==
  {[b EXCEPT !.objs[b.current].stack = <<v>> \o @, !.vars[v] = Null,
             !.kept = @ \cup {v}, !.frames = @ + 1] : v \in Fvars \ b.kept}
\* The locals are given back unless a frame still has them.
Left(b) ==
  IF Len(b.objs[b.current].stack) = 1 THEN {}
  ELSE LET p == [b EXCEPT !.objs[b.current].stack = Tail(@), !.frames = @ - 1]
           v == Top(b)
       IN {p} \cup (IF v \in StackVars(p, DOMAIN p.objs) THEN {} ELSE {[p EXCEPT !.kept = @ \ {v}]})

Steps(b) ==
  {b} \cup Assigned(b) \cup Sections(b) \cup Made(b) \cup Created(b) \cup Copied(b)
    \cup FieldSet(b) \cup FieldGot(b) \cup Activated(b) \cup Returned(b) \cup Called(b) \cup Left(b)

\* n may come after b: what is out of reach is forgotten.
After(b, n) ==
  \E c \in Steps(b) : /\ <<c.global, c.current, c.frames, c.kept>> = <<n.global, n.current, n.frames, n.kept>>
                      /\ n = Tidy(c)

Next == \E b \in {a, Collected(a)} : After(b, a')

Spec == Init /\ [][Next]_a
=============================================================================
