------------------------------- MODULE IconOps -------------------------------
(***************************************************************************)
(* The values, variables and primitive operations of Object Icon that the  *)
(* compiled code (IrMachine) and the reference semantics (IconEval) share: *)
(* what one operator, once its operands are there, does to the world.      *)
(*                                                                         *)
(* A value is a tagged tuple: an integer, a string (a sequence of digits   *)
(* and, for a minus sign, -1), a cset of digits, a list, a procedure, null;*)
(* or a variable: a named one, a substring of a named one (a trapped       *)
(* variable), &pos or &subject.                                            *)
(*                                                                         *)
(* The world is what operations change: the named variables, the subjects  *)
(* and positions of the scans in progress (the current one last), and the  *)
(* log of what other code could observe.                                   *)
(***************************************************************************)
EXTENDS Integers, Sequences, SequencesExt, FiniteSets

Null == <<"null">>
Num(k) == <<"int", k>>
Str(q) == <<"str", q>>
Lst(q) == <<"list", q>>
Proc(p) == <<"proc", p>>
Ref(x) == <<"ref", x>>
Cset(S) == <<"cset", S>>
Sub(x, i, len) == <<"sub", x, i, len>>
PosVar == <<"kpos">>
SubjectVar == <<"ksubj">>

\* The procedures programs call; any other name is a variable.
Procedures == {"gen", "write", "bump", "none"}

Scan(w) == Last(w.scan)

\* oix/rmacros deref: the value a variable has now.
DerefIn(v, w) ==
  CASE v[1] = "ref"   -> w.store[v[2]]
    [] v[1] = "sub"   -> Str(SubSeq(w.store[v[2]][2], v[3], v[3] + v[4] - 1))
    [] v[1] = "kpos"  -> Num(Scan(w).pos)
    [] v[1] = "ksubj" -> Str(Scan(w).subj)
    [] OTHER          -> v

\* Conversions (runtime cnv): what is converted to a number is a string of
\* digits, with or without a sign before it.
RECURSIVE Digits(_)
Digits(k) == IF k < 0 THEN <<-1>> \o Digits(-k)
             ELSE IF k < 10 THEN <<k>> ELSE Digits(k \div 10) \o <<k % 10>>

RECURSIVE NumberOf(_)
NumberOf(q) == IF q = <<>> THEN 0
               ELSE IF q[1] = -1 THEN -NumberOf(Tail(q))
               ELSE 10 * NumberOf(Front(q)) + Last(q)

Ascending(C) == [i \in 1..Cardinality(C) |-> CHOOSE c \in C : Cardinality({d \in C : d < c}) = i - 1]

Chars(v) == CASE v[1] = "int" -> Digits(v[2])
              [] v[1] = "cset" -> Ascending(v[2])
              [] OTHER -> v[2]
Numeric(v) == IF v[1] = "int" THEN v[2] ELSE NumberOf(Chars(v))
CharSet(v) == IF v[1] = "cset" THEN v[2] ELSE ToSet(Chars(v))

\* memcmp: the order of strings.
Precedes(q, r) ==
  /\ q # r
  /\ \E i \in 0..Len(q) : /\ i <= Len(r)
                           /\ SubSeq(q, 1, i) = SubSeq(r, 1, i)
                           /\ (i < Len(q) => i < Len(r) /\ q[i + 1] < r[i + 1])

\* mod3, div3: the remainder has the sign of the dividend.
Magnitude(k) == IF k < 0 THEN -k ELSE k
Mod3(a, b) == LET r == Magnitude(a) % Magnitude(b) IN IF a < 0 THEN -r ELSE r
Div3(a, b) == LET d == a - Mod3(a, b) IN IF b > 0 THEN d \div b ELSE (-d) \div (-b)

\* cvpos, cvpos_item, cvslice: positions in a string of this length; those that
\* are not positive count from its end. 0 is failure.
CvPos[i \in Int, len \in Nat] ==
  IF i \in -len..(len + 1) THEN (IF i > 0 THEN i ELSE len + i + 1) ELSE 0
CvPosItem[i \in Int, len \in Nat] == IF i = 0 \/ i = len + 1 THEN 0 ELSE CvPos[i, len]
CvSlice[i \in Int, j \in Int, len \in Nat] ==
  LET p == CvPos[i, len]
      q == CvPos[j, len]
  IN [ok |-> p > 0 /\ q > 0, from |-> IF p > q THEN q ELSE p, to |-> IF p > q THEN p ELSE q]

Logged(w, event) == [w EXCEPT !.log = Append(@, event)]

Rescanned(w, subj, pos) ==
  [w EXCEPT !.scan[Len(w.scan)] = [subj |-> subj, pos |-> pos]]

\* GeneralAsgn: assignment to a variable, which fails only for a &pos outside
\* the subject. Assigning &subject sets &pos to 1. What programs assign to a
\* substring is as long as the substring is.
Assign(x, y, w) ==
  LET val == DerefIn(y, w) IN
  CASE x[1] = "ref" -> [ok |-> TRUE, w |-> [w EXCEPT !.store[x[2]] = val]]
    [] x[1] = "sub" /\ Len(Chars(val)) = x[4] ->
         [ok |-> TRUE, w |-> [w EXCEPT !.store[x[2]] =
             Str(SubSeq(@[2], 1, x[3] - 1) \o Chars(val) \o SubSeq(@[2], x[3] + x[4], Len(@[2])))]]
    [] x[1] = "ksubj" -> [ok |-> TRUE, w |-> Rescanned(w, Chars(val), 1)]
    [] x[1] = "kpos" ->
         LET pos == CvPos[Numeric(val), Len(Scan(w).subj)]
         IN [ok |-> pos > 0, w |-> IF pos > 0 THEN Rescanned(w, Scan(w).subj, pos) ELSE w]

\* Swapping assigns the one and then the other; the second may fail, and then
\* the first has been done. A substring is not swapped with itself.
Exchange(x, y, w) ==
  LET dx == DerefIn(x, w)
      dy == DerefIn(y, w)
      first == Assign(x, dy, w)
  IN IF x[1] = "sub" /\ x = y THEN [ok |-> FALSE, w |-> w]
     ELSE IF first.ok THEN Assign(y, dx, first.w) ELSE first

\* oix/oarith.r, oset.r: the operations on two integers, and on two csets.
Calculated(op, x, y) ==
  CASE op = "Plus" -> x + y [] op = "Minus" -> x - y [] op = "Mult" -> x * y
    [] op = "Div" -> Div3(x, y) [] op = "Mod" -> Mod3(x, y)
Combined(op, C, D) ==
  CASE op = "Union" -> C \cup D [] op = "Inter" -> C \cap D [] op = "Diff" -> C \ D

\* Operations that always give one result (binary and unary "monogenic").
Mono(op, args, w) ==
  LET a == DerefIn(args[1], w)
      b == DerefIn(args[2], w)
  IN CASE op \in {"Plus", "Minus", "Mult", "Div", "Mod"} ->
            [v |-> Num(Calculated(op, Numeric(a), Numeric(b))), w |-> w]
       [] op \in {"Union", "Inter", "Diff"} ->
            [v |-> Cset(Combined(op, CharSet(a), CharSet(b))), w |-> w]
       [] op = "Cat"   -> [v |-> Str(Chars(a) \o Chars(b)), w |-> w]
       [] op = "Neg"   -> [v |-> Num(-Numeric(a)), w |-> w]
       [] op = "Number" -> [v |-> Num(Numeric(a)), w |-> w]
       [] op = "Value" -> [v |-> a, w |-> w]
       [] op = "Size"  -> [v |-> Num(Len(Chars(a))), w |-> w]
       [] op = "Asgn1" -> [v |-> args[1], w |-> Assign(args[1], args[2], w).w]
       [] op = "Swap1" -> [v |-> args[1], w |-> Exchange(args[1], args[2], w).w]

\* oix/ocomp.r: a comparison that succeeds gives its right operand, converted.
NumericTest(op, x, y) ==
  CASE op = "Numlt" -> x < y [] op = "Numle" -> x <= y [] op = "Numeq" -> x = y
    [] op = "Numge" -> x >= y [] op = "Numgt" -> x > y [] op = "Numne" -> x # y
StringTest(op, q, r) ==
  CASE op = "Lexlt" -> Precedes(q, r) [] op = "Lexle" -> ~Precedes(r, q)
    [] op = "Lexge" -> ~Precedes(q, r) [] op = "Lexgt" -> Precedes(r, q)
    [] op = "Lexeq" -> q = r [] op = "Lexne" -> q # r

\* Operations that give one result or fail. Subscripting a variable, or taking a
\* section of it, gives a trapped variable, unless only the value is wanted (rval).
Cond(op, args, rval, w) ==
  LET a == DerefIn(args[1], w)
      b == DerefIn(args[2], w)
      done(ok, v, w1) == [ok |-> ok, v |-> v, w |-> w1]
      part(ok, i, len) ==
        done(ok, IF ~ok THEN Null
                 ELSE IF args[1][1] = "ref" /\ a[1] = "str" /\ ~rval THEN Sub(args[1][2], i, len)
                 ELSE Str(SubSeq(Chars(a), i, i + len - 1)), w)
  IN CASE op \in {"Numlt", "Numle", "Numeq", "Numge", "Numgt", "Numne"} ->
            done(NumericTest(op, Numeric(a), Numeric(b)), Num(Numeric(b)), w)
       [] op \in {"Lexlt", "Lexle", "Lexeq", "Lexge", "Lexgt", "Lexne"} ->
            done(StringTest(op, Chars(a), Chars(b)), Str(Chars(b)), w)
       [] op = "Eqv"   -> done(a = b, b, w)
       [] op = "Neqv"  -> done(a # b, b, w)
       [] op = "Nonnull" -> done(a # Null, args[1], w)
       [] op = "IsNull"  -> done(a = Null, args[1], w)
       [] op = "Asgn" -> LET r == Assign(args[1], args[2], w) IN done(r.ok, args[1], r.w)
       [] op = "Swap" -> LET r == Exchange(args[1], args[2], w) IN done(r.ok, args[1], r.w)
       [] op = "Subsc" -> LET i == CvPosItem[Numeric(b), Len(Chars(a))] IN part(i > 0, i, 1)
       [] op = "Sect" ->
            LET s == CvSlice[Numeric(b), Numeric(DerefIn(args[3], w)), Len(Chars(a))]
            IN part(s.ok, s.from, s.to - s.from)

\* &pos and &subject are variables; &digits and &no are values.
KeyValue(op) ==
  CASE op = "KPos" -> PosVar [] op = "KSubject" -> SubjectVar
    [] op = "KDigits" -> Cset(0..9) [] op = "KNo" -> Null

\* The generators: an operation that gives results one by one. A generator in
\* progress is its operation, its operands, how many results it has given, and
\* what it has saved to undo its effect.
\*
\* oix/interp.r do_opclo, push_frame_for_proc: the operands are dereferenced
\* when the generator is made, except those an operation may assign to.
NewGenerator(op, args, w) ==
  LET deref(i) ==
        \/ op \in {"Toby", "Tabmat", "Invoke"}
        \/ op = "Rasgn" /\ i = 2
        \/ op = "Bang" /\ DerefIn(args[i], w)[1] # "str"
  IN [op |-> op, n |-> 0, saved |-> <<>>,
      args |-> [i \in DOMAIN args |-> IF deref(i) THEN DerefIn(args[i], w) ELSE args[i]]]

\* One step suspends a result, returns the last one, or fails.
GenStep(g, rval, w) ==
  LET x == g.args[1]
      i == g.n + 1
      susp(v, saved, w1) ==
        [r |-> "susp", v |-> v, g |-> [g EXCEPT !.n = i, !.saved = saved], w |-> w1]
      last(v, w1) == [r |-> "ret", v |-> v, g |-> g, w |-> w1]
      fail(w1) == [r |-> "fail", v |-> Null, g |-> g, w |-> w1]
  IN CASE g.op = "Toby" ->
            LET v == Numeric(x) + g.n * Numeric(g.args[3])
            IN IF v <= Numeric(g.args[2]) THEN susp(Num(v), <<>>, w) ELSE fail(w)
       [] g.op = "Bang" ->
            LET q == IF x[1] = "list" THEN x[2] ELSE Chars(DerefIn(x, w))
            IN CASE i > Len(q) -> fail(w)
                 [] x[1] = "list" -> susp(q[i], <<>>, w)
                 [] x[1] = "ref" /\ ~rval -> susp(Sub(x[2], i, 1), <<>>, w)
                 [] OTHER -> susp(Str(<<q[i]>>), <<>>, w)
       [] g.op = "Tabmat" ->
            LET q == Chars(x)
                from == Scan(w).pos
                to == from + Len(q)
            IN CASE i > 1 -> fail(Rescanned(w, Scan(w).subj, g.saved))
                 [] to <= Len(Scan(w).subj) + 1 /\ SubSeq(Scan(w).subj, from, to - 1) = q
                      -> susp(Str(q), from, Rescanned(w, Scan(w).subj, to))
                 [] OTHER -> fail(w)
       [] g.op = "Rasgn" ->
            LET r == Assign(x, g.args[2], w)
            IN IF i > 1 THEN fail(Assign(x, g.saved, w).w)
               ELSE IF r.ok THEN susp(x, DerefIn(x, w), r.w) ELSE fail(w)
       [] g.op = "Rswap" ->
            LET y == g.args[2]
                r == Exchange(x, y, w)
            IN IF i > 1 THEN fail(Assign(y, g.saved[2], Assign(x, g.saved[1], w).w).w)
               ELSE IF r.ok THEN susp(x, <<DerefIn(x, w), DerefIn(y, w)>>, r.w) ELSE fail(r.w)
       [] g.op = "Invoke" ->
            LET p == x[2]
            IN CASE p = "gen" -> IF i <= 2 THEN susp(Num(i), <<>>, Logged(w, <<"gen", i>>))
                                 ELSE fail(Logged(w, <<"gen", 0>>))
                 [] p = "write" -> last(Last(g.args), Logged(w, <<"write", Last(g.args)>>))
                 [] p = "bump" -> last(Ref("s"), [w EXCEPT !.store["s"] = Str(<<7, 8>>)])
                 [] OTHER -> fail(w)
=============================================================================
