----------------------------- MODULE MCClassInit -----------------------------
(* Small class hierarchies: any order, any fields, any use while initializing. *)
EXTENDS ClassInit, TLC

\* The sequences of at most two distinct members of S.
AtMostTwo(S) == {<<>>} \cup {<<a>> : a \in S} \cup {s \in S \X S : s[1] # s[2]}

\* Hierarchies of n classes in which a class names only those before it.
Layered[n \in 0 .. 5] ==
  IF n = 0 THEN {<<>>}
  ELSE {Append(h, s) : h \in Layered[n - 1], s \in AtMostTwo(1 .. n - 1)}

\* A class that names three, or one twice, or a hierarchy in which one is above itself.
Odd == {Append(h, s) : h \in Layered[3], s \in [1 .. 3 -> 1 .. 3] \cup {<<1, 1>>}}
         \cup {[h EXCEPT ![1] = <<d>>] : h \in Layered[4], d \in 1 .. 4}

Plain(h, field, inits, uses) ==
  [supers |-> h, field |-> field, inits |-> inits, uses |-> uses,
   flags |-> [c \in DOMAIN h |-> {}], package |-> [c \in DOMAIN h |-> 2]]

Variable == [static |-> FALSE, method |-> FALSE, flags |-> {}]
StaticVariable == [Variable EXCEPT !.static = TRUE]
Method(f) == [static |-> FALSE, method |-> TRUE, flags |-> f]
StaticMethod == [static |-> TRUE, method |-> TRUE, flags |-> {}]

\* The orders of five classes.
Orders == {Plain(h, [c \in DOMAIN h |-> None], {}, 0) : h \in Layered[5] \cup Odd}

\* Three classes, each derived from the one before it, or the last from both others.
Three == {<< <<>>, <<1>>, <<2>> >>, << <<>>, <<>>, <<1, 2>> >>}

\* Fields of every kind in them, and one class in another package or in lang.
Fields ==
  LET kinds == {None, Variable, StaticVariable, StaticMethod} \cup
               {Method(f) : f \in {{}, {"override"}, {"final"}, {"final", "override"}, {"private"},
                                   {"package"}, {"abstract"}}}
  IN {[Plain(h, f, {}, 0) EXCEPT !.package = p] :
        h \in Three, f \in [1 .. 3 -> kinds],
        p \in {<<2, 2, 2>>, <<3, 2, 2>>, <<2, 3, 2>>, <<1, 2, 2>>}}

\* One class with a flag, in another package or not.
Flags ==
  {[Plain(h, f, {}, 0) EXCEPT !.flags[c] = {k}, !.package[1] = p] :
     h \in Three, f \in [1 .. 3 -> {None, Method({"abstract"})}],
     c \in 1 .. 3, k \in {"final", "protected", "abstract"}, p \in {2, 3}}

\* Two classes derived from one, and one from both.
Diamonds ==
  {Plain(<< <<>>, <<1>>, <<1>>, <<2, 3>> >>, f, {}, 0) :
     f \in [1 .. 4 -> {None, StaticMethod} \cup
                      {Method(f) : f \in {{}, {"override"}, {"final", "override"}, {"abstract"}}}]}

\* Programs that use classes.
Users == {Plain(h, f, i, 3) : h \in Layered[3], f \in [1 .. 3 -> {None, StaticMethod, Method({})}],
                              i \in SUBSET (1 .. 3)}

MCProgram == Orders \cup Fields \cup Flags \cup Diamonds \cup Users
==============================================================================
