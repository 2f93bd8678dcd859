----------------------------- MODULE Inheritance -----------------------------
(***************************************************************************)
(* How the linker resolves classes (oit/resolve.c): the order in which a   *)
(* class implements its superclasses, and which field each inherits.       *)
(*                                                                         *)
(* A program is a record of functions on its classes: supers (sequences of *)
(* superclasses), flags and package of a class, field (the one field whose *)
(* name is looked at, or None), inits (the set of classes with an init     *)
(* method).  Fields of different names do not meet in merge().             *)
(***************************************************************************)
EXTENDS Integers, FiniteSets, SequencesExt

CONSTANTS
  Class,
  None,     \* no class, no field
  Failed    \* ends the order of a class whose order cannot be computed

ASSUME ClassAssumption == None \notin Class /\ Failed \notin Class \cup {None}

Classes(p) == DOMAIN p.supers

----------------------------------------------------------------------------
(* The order: linearize_c3 *)

\* tail_search
InTail(lists, h) ==
  \E k \in DOMAIN lists : lists[k] # <<>> /\ h \in ToSet(Tail(lists[k]))

\* check_head_del
Without(lists, h) ==
  [k \in DOMAIN lists |->
     IF lists[k] # <<>> /\ Head(lists[k]) = h THEN Tail(lists[k]) ELSE lists[k]]

\* Mistake: the first head is taken wherever else it still stands.
EagerCandidates(lists) == {k \in DOMAIN lists : lists[k] # <<>>}

\* merge1_c3: the lists whose head may come next.
Candidates(lists) ==
  {k \in DOMAIN lists : lists[k] # <<>> /\ ~InTail(lists, Head(lists[k]))}

\* The head of the first of them.
Chosen(lists) ==
  Head(lists[CHOOSE k \in Candidates(lists) : \A j \in Candidates(lists) : k <= j])

\* merge_c3
Merge[lists \in Seq(Seq(Class \cup {Failed}))] ==
  IF \A k \in DOMAIN lists : lists[k] = <<>> THEN <<>>
  ELSE IF Candidates(lists) = {} THEN <<Failed>>
  ELSE <<Chosen(lists)>> \o Merge[Without(lists, Chosen(lists))]

\* linearize_c3: path are the classes whose superclasses are being ordered,
\* those with the seen flag.
Linearize(supers) ==
  LET lin[path \in SUBSET DOMAIN supers] ==
        [c \in DOMAIN supers |->
           IF c \in path THEN <<c, Failed>>
           ELSE <<c>> \o Merge[Append([k \in DOMAIN supers[c] |-> lin[path \cup {c}][supers[c][k]]],
                                      supers[c])]]
  IN lin[{}]

----------------------------------------------------------------------------
(* The fields: merge *)

Instance(f) == f.method /\ ~f.static

\* Package 1 is lang.
OtherPackage(p, c, d) == p.package[c] # 1 /\ p.package[d] # p.package[c]

\* Class c may not be derived from d.
MayNotDerive(p, c, d) ==
  c # d /\ ("final" \in p.flags[d] \/ ("protected" \in p.flags[d] /\ OtherPackage(p, c, d)))

\* The first class of the order that has the field: its field is c's.
Definer(p, order, c) ==
  LET has == {k \in DOMAIN order[c] : p.field[order[c][k]] # None}
  IN IF has = {} THEN None ELSE order[c][CHOOSE k \in has : \A j \in has : k <= j]

\* The field of class d, in c's order before class e, cannot stand for the field of e.
Clash(p, d, e) ==
  LET old == p.field[d]
      new == p.field[e]
  IN \/ ~(old.static /\ new.static) /\ ~(Instance(old) /\ Instance(new))
     \/ "final" \in new.flags
     \/ Instance(new) /\ "package" \in new.flags /\ OtherPackage(p, e, d)
     \/ Instance(new) /\ "private" \in new.flags
     \/ Instance(new) /\ "override" \notin old.flags

\* merge, for the classes of the order of c in turn, and check_overrides.
FieldErrors(p, order, c) ==
  LET d == Definer(p, order, c)
      others == {e \in ToSet(order[c]) \ {d} : p.field[e] # None}
  IN /\ d # None
     /\ \/ \E e \in others : Clash(p, d, e)
        \/ "abstract" \in p.field[d].flags /\ "abstract" \notin p.flags[c]
        \/ "override" \in p.field[d].flags /\ \A e \in others : ~Instance(p.field[e])

\* compute_inheritance: nothing of class c is an error.
Resolves(p, order, c) ==
  /\ Failed \notin ToSet(order[c])
  /\ \A d \in ToSet(order[c]) : ~MayNotDerive(p, c, d)
  /\ ~FieldErrors(p, order, c)

----------------------------------------------------------------------------
(* What resolution promises *)

\* The classes within n steps above c.
Above(p) ==
  LET above[n \in 0 .. Cardinality(Class)] ==
        [c \in Classes(p) |->
           IF n = 0 THEN {c} ELSE {c} \cup UNION {above[n - 1][d] : d \in ToSet(p.supers[c])}]
  IN above[Cardinality(Class)]

Position(s, x) == CHOOSE i \in DOMAIN s : s[i] = x
Keeps(s, t) == \A i, j \in DOMAIN t : i < j => Position(s, t[i]) < Position(s, t[j])

\* A class has an order if and only if its superclasses have, it is not above itself, and
\* some sequence of it and the classes above it, each once, keeps the orders of its
\* superclasses and that in which it names them; and its order is such a sequence.
\* (linearize_c3, which takes one class after another and never goes back.)
OrderExact(p, order) ==
  LET above == Above(p) IN
  \A c \in Classes(p) :
    LET supers == ToSet(p.supers[c])
        keep == {s \in SetToSeqs(above[c]) :
                   Head(s) = c /\ Keeps(s, p.supers[c]) /\ \A d \in supers : Keeps(s, order[d])}
    IN IF \E d \in supers : c \in above[d] \/ Failed \in ToSet(order[d])
       THEN Failed \in ToSet(order[c])
       ELSE IF keep = {} THEN Failed \in ToSet(order[c]) ELSE order[c] \in keep

\* In a program that links, the field a class gets is overridden by none between them;
\* it stands for all those above of its name: they are static or instance methods
\* together, none is final or private, nor of another package if it is a package's;
\* it says so (override) if there are any and only if its own class has one above; and a
\* class of which objects are made has no abstract method.  (merge compares only
\* the field that comes first with each later one.)
FieldsSound(p, order) ==
  LET above == Above(p) IN
  \A c \in Classes(p) :
    LET d == Definer(p, order, c)
        mine == p.field[d]
        defs == {e \in above[c] \ {d} : p.field[e] # None}
    IN /\ d = None => defs = {}
       /\ d # None =>
            /\ \A e \in defs : d \notin above[e]
            /\ "abstract" \in mine.flags => "abstract" \in p.flags[c]
            /\ "override" \in mine.flags =>
                 \E e \in above[d] \ {d} : p.field[e] # None /\ Instance(p.field[e])
            /\ \A e \in defs :
                 LET f == p.field[e] IN
                 /\ f.static = mine.static /\ (f.method = mine.method \/ f.static)
                 /\ Instance(f) => /\ {"final", "private"} \cap f.flags = {}
                                   /\ "override" \in mine.flags
                                   /\ "package" \in f.flags => ~OtherPackage(p, e, d)
==============================================================================
