------------------------------- MODULE IconEval -------------------------------
(***************************************************************************)
(* What an expression of Object Icon means: goal-directed evaluation, with *)
(* no compiler, slots, labels, marks or frames. It is what the generated   *)
(* code of IrGen, IrOpt and IrMachine is compared with.                    *)
(*                                                                         *)
(* Eval(n, w, k) evaluates n in the world w and hands each result, with    *)
(* the world as it then is, to the continuation k (Give). When k has no    *)
(* use for the result, Give comes back with "fail" and the next result is  *)
(* tried; so the outcome "fail" of Eval says that there are no (more)      *)
(* results. Any other outcome ends the evaluation: "ok", the end of a      *)
(* bounded expression; a break or a next on its way to its loop; a limit   *)
(* that has been reached; the return from the procedure.                   *)
(*                                                                         *)
(* A result may be a variable, which is looked up only when its value is   *)
(* used. A continuation is a sequence of frames, the innermost first.      *)
(***************************************************************************)
EXTENDS IrGen, TLC

Outcome(s, w) == [s |-> s, w |-> w, v |-> Null, to |-> <<>>, expr |-> <<>>]
Failed(w) == Outcome("fail", w)

\* Programs refer to the loop a break or next belongs to: the source's parser
\* nests them, here they are bound to the place of the loop. A next among the
\* operands a generating loop resumes does not leave it: it fails.
RECURSIVE Bound(_, _)
Bound(n, loops) ==
  LET loop == Last(loops)
      inside(i) == IF n.op \in Loops
                   THEN Append(loops, [at |-> n.at,
                                       fails |-> i = 1 /\ n.op \notin {"While", "Whiledo", "Repeat"}])
                   ELSE IF n.op = "Breakexpr" THEN Front(loops) ELSE loops
  IN [n EXCEPT !.val = IF n.op \in {"Break", "Breakexpr", "Next"} THEN loop ELSE n.val,
               !.kids = [i \in DOMAIN n.kids |-> Bound(n.kids[i], inside(i))]]

\* Leaving scans: those begun since the world had d of them are over.
Leaving(w, d) == [w EXCEPT !.scan = SubSeq(@, 1, d)]

Cell(w, at, c) == [w EXCEPT !.cells = (at :> c) @@ @]

\* What the caller sees of a suspend, and does: its own scan is then one on.
Suspended(v, w) ==
  LET w1 == Logged(w, <<"suspend", DerefIn(v, Leaving(w, 1)), w.scan[1]>>)
  IN [w1 EXCEPT !.scan[1].pos = @ + 1]

Returned(v, w) == LET w1 == Leaving(w, 1)
                  IN Logged(w1, <<"return", DerefIn(v, w1), w1.scan[1]>>)
FailedProc(w) == LET w1 == Leaving(w, 1) IN Logged(w1, <<"fail", Null, w1.scan[1]>>)

\* A continuation frame: what is to be done with the result, for node n, with
\* the operands vs before it.
Frame(do, n, vs) == [do |-> do, n |-> n, vs |-> vs]

RECURSIVE Give(_, _, _)

\* Each of these is a frame that needs no result to go on.
Eval(n, w, k) == Give(<<Frame("eval", n, <<>>)>> \o k, Null, w)
Results(g, w, k) == Give(<<Frame("results", g, <<>>)>> \o k, Null, w)
Looping(n, w) == Give(<<Frame("again", n, <<>>)>>, Null, w)
Clause(n, i, v, w, k) == Give(<<Frame("clause", n, <<i, v>>)>> \o k, Null, w)
Alternatives(n, i, w, k) == Give(<<Frame("alternative", n, <<i>>)>> \o k, Null, w)
Statements(n, i, w, k) == Give(<<Frame("statement", n, <<i>>)>> \o k, Null, w)

\* A bounded expression: its first result, if any.
Once(n, w) == Eval(n, w, <<Frame("stop", n, <<>>)>>)

\* The result r of an operation that may fail.
Given(r, k) == Give(<<Frame("given", r, <<>>)>> \o k, Null, Null)

\* The results of a generator in progress: its next one, and those after it.
NextResult(g, w, k) == Give(<<Frame("step", GenStep(g, FALSE, w), <<>>)>> \o k, Null, Null)

Stepped(step, k) ==
  LET o == Give(k, step.v, step.w)
  IN IF step.r = "fail" THEN Failed(step.w)
     ELSE IF step.r = "susp" /\ o.s = "fail" THEN Results(step.g, o.w, k) ELSE o

\* An operation that gives one result, or may fail.
Operation(op, vs, w, k) == Give(<<Frame("operation", op, vs)>> \o k, Null, w)

Operated(op, vs, w, k) ==
  LET given(r) == Give(k, r.v, r.w)
  IN IF op \in Arithmetic \cup Monadic THEN given(Mono(op, vs, w))
     ELSE Given(Cond(op, vs, FALSE, w), k)

\* An operation, all of whose operands vs are there.
Operate(n, vs, w, k) ==
  CASE n.op \in {"Subsc", "Sect", "Nonnull", "IsNull", "Asgn", "Swap"}
                   \cup Arithmetic \cup Monadic \cup Comparison -> Operation(n.op, vs, w, k)
    [] n.op \in {"Sectp", "Sectm"} ->
         Operation(IF n.op = "Sectp" THEN "Plus" ELSE "Minus", <<vs[2], vs[3]>>, w,
                   <<Frame("section", n, <<vs[1], vs[2]>>)>> \o k)
    [] n.op = "Aug" -> Operation(n.val, vs, w, <<Frame("assign", n, <<vs[1]>>)>> \o k)
    [] n.op = "To" -> Results(NewGenerator("Toby", Append(vs, Num(1)), w), w, k)
    [] n.op \in {"Toby", "Bang", "Tabmat", "Rasgn", "Rswap", "Invoke"} ->
         Results(NewGenerator(n.op, vs, w), w, k)
    [] n.op = "Apply" ->
         Results(NewGenerator("Invoke", <<vs[1]>> \o DerefIn(vs[2], w)[2], w), w, k)
    [] n.op = "Augapply" ->
         Results(NewGenerator("Invoke", <<vs[1]>> \o DerefIn(vs[2], w)[2], w), w,
                 <<Frame("assign", n, <<vs[1]>>)>> \o k)
    [] n.op = "List" -> Give(k, Lst([i \in DOMAIN vs |-> DerefIn(vs[i], w)]), w)
    [] n.op \in {"Conj", "Mutual"} -> Give(k, Last(vs), w)
    [] n.op = "Select" -> IF n.val \in DOMAIN vs THEN Give(k, vs[n.val], w) ELSE Failed(w)

\* One round of a loop after another. What a round leaves behind is not resumed.
Round(n, w) ==
  LET over(o) == o.s \in {"ok", "fail"} \/ (o.s = "next" /\ o.to = n.at)
      again(o) == IF over(o) THEN Looping(n, Leaving(o.w, Len(w.scan))) ELSE o
      done(e) == CASE n.op # "Repeat" /\ e.s = "fail" -> e
                   [] n.op = "Whiledo" /\ e.s = "ok" -> again(Once(n.kids[2], e.w))
                   [] OTHER -> again(e)
  IN done(Once(n.kids[1], w))

\* A loop ends when it fails or by a break, whose expression is its value.
Loop(n, w, k) ==
  LET out(o) == Leaving(o.w, Len(w.scan))
      value(o) == IF o.expr = <<>> THEN Give(k, Null, out(o)) ELSE Eval(o.expr[1], out(o), k)
      over(o) == IF o.s = "break" /\ o.to = n.at THEN value(o) ELSE o
  IN over(IF n.op \in {"While", "Whiledo", "Repeat"} THEN Looping(n, w)
          ELSE Eval(n.kids[1], w, <<Frame("round", n, <<>>)>>))

\* The clauses of a case from the i-th on; v is the value chosen by.
OneClause(n, i, v, w, k) ==
  IF i > Len(n.kids) THEN Failed(w)
  ELSE IF i = Len(n.kids) THEN Eval(n.kids[i], w, k)
  ELSE LET o == Eval(n.kids[i], w, <<Frame("equal", n, <<v>>)>>)
       IN CASE o.s = "ok" -> Eval(n.kids[i + 1], o.w, k)
            [] o.s = "fail" -> Clause(n, i + 2, v, o.w, k)
            [] OTHER -> o

OneAlternative(n, i, w, k) ==
  LET o == Eval(n.kids[i], w, k)
  IN IF o.s = "fail" /\ i < Len(n.kids) THEN Alternatives(n, i + 1, o.w, k) ELSE o

OneStatement(n, i, w, k) ==
  IF i = Len(n.kids) THEN Eval(n.kids[i], w, k)
  ELSE LET o == Once(n.kids[i], w)
       IN IF o.s \in {"ok", "fail"} THEN Statements(n, i + 1, o.w, k) ELSE o

Evaluate(n, w, k) ==
  CASE n.op = "Const" -> Give(k, n.val, w)
    [] n.op = "Local" -> Give(k, Ref(n.val), w)
    [] n.op = "Global" -> Give(k, IF n.val \in Procedures THEN Proc(n.val) ELSE Ref(n.val), w)
    [] n.op \in {"Null", "Empty"} -> Give(k, Null, w)
    [] n.op = "KFail" -> Failed(w)
    [] n.op \in Keywords -> Give(k, KeyValue(n.op), w)
    [] n.op \in {"Scan", "Augscan"} -> Eval(n.kids[1], w, <<Frame("scan", n, <<>>)>> \o k)
    [] n.op = "Alt" -> Alternatives(n, 1, w, k)
    [] n.op = "Slist" -> Statements(n, 1, w, k)
    [] n.op \in {"If", "Ifelse"} ->
         LET o == Once(n.kids[1], w)
         IN CASE o.s = "ok" -> Eval(n.kids[2], o.w, k)
              [] o.s = "fail" /\ n.op = "Ifelse" -> Eval(n.kids[3], o.w, k)
              [] OTHER -> o
    [] n.op \in {"Case", "Casedef"} ->
         LET o == Once(n.kids[1], w)
         IN IF o.s = "ok" THEN Clause(n, 2, o.v, o.w, k) ELSE o
    [] n.op = "Not" ->
         LET o == Once(n.kids[1], w)
         IN CASE o.s = "ok" -> Failed(o.w)
              [] o.s = "fail" -> Give(k, Null, o.w)
              [] OTHER -> o
    [] n.op = "Rptalt" ->
         LET o == Eval(n.kids[1], Cell(w, n.at, 0), <<Frame("note", n, <<>>)>> \o k)
         IN IF o.s = "fail" /\ o.w.cells[n.at] = 1 THEN Eval(n, o.w, k) ELSE o
    [] n.op = "Limit" -> Eval(n.kids[1], w, <<Frame("limit", n, <<>>)>> \o k)
    [] n.op \in Loops -> Loop(n, w, k)
    [] n.op = "Break" -> [Outcome("break", w) EXCEPT !.to = n.val.at]
    [] n.op = "Breakexpr" -> [Outcome("break", w) EXCEPT !.to = n.val.at, !.expr = n.kids]
    [] n.op = "Next" -> IF n.val.fails THEN Failed(w)
                        ELSE [Outcome("next", w) EXCEPT !.to = n.val.at]
    [] n.op = "Suspend" -> Failed(Suspended(Null, w))
    [] n.op = "Return" -> Outcome("return", Returned(Null, w))
    [] n.op = "Fail" -> Outcome("return", FailedProc(w))
    [] n.op \in {"Returnexpr", "Succeedexpr"} ->
         LET o == Once(n.kids[1], w)
         IN CASE o.s = "ok" -> Outcome("return", Returned(IF n.op = "Returnexpr" THEN o.v ELSE Null, o.w))
              [] o.s = "fail" -> Outcome("return", FailedProc(o.w))
              [] OTHER -> o
    [] OTHER -> Eval(n.kids[1], w, <<Frame("operand", n, <<>>)>> \o k)

\* The result v handed to the innermost frame of k.
Give(k, v, w) ==
  LET f == Head(k)
      n == f.n
      rest == Tail(k)
      inner == Last(w.scan)
  IN CASE f.do = "eval" -> Evaluate(n, w, rest)
       [] f.do = "results" -> NextResult(n, w, rest)
       [] f.do = "again" -> Round(n, w)
       [] f.do = "clause" -> OneClause(n, f.vs[1], f.vs[2], w, rest)
       [] f.do = "alternative" -> OneAlternative(n, f.vs[1], w, rest)
       [] f.do = "statement" -> OneStatement(n, f.vs[1], w, rest)
       [] f.do = "stop" -> [Outcome("ok", w) EXCEPT !.v = v]
       [] f.do = "operand" ->
            LET vs == Append(f.vs, v)
            IN IF Len(vs) < Len(n.kids)
               THEN Eval(n.kids[Len(vs) + 1], w, <<[f EXCEPT !.vs = vs]>> \o rest)
               ELSE Operate(n, vs, w, rest)
       [] f.do = "operation" -> Operated(n, f.vs, w, rest)
       [] f.do = "section" -> Operation("Sect", Append(f.vs, v), w, rest)
       [] f.do = "given" -> IF n.ok THEN Give(rest, n.v, n.w) ELSE Failed(n.w)
       [] f.do = "step" -> Stepped(n, rest)
       [] f.do = "assign" -> Operation("Asgn", <<f.vs[1], v>>, w, rest)
       [] f.do = "equal" -> IF DerefIn(f.vs[1], w) = DerefIn(v, w) THEN Outcome("ok", w)
                            ELSE Failed(w)
       [] f.do = "scan" ->
            LET begun == [w EXCEPT !.scan = Append(@, [subj |-> Chars(DerefIn(v, w)), pos |-> 1])]
                assign == IF n.op = "Augscan" THEN <<Frame("assign", n, <<v>>)>> ELSE <<>>
                o == Eval(n.kids[2], begun, assign \o <<Frame("unscan", n, <<>>)>> \o rest)
            IN IF o.s = "fail" THEN Failed(Leaving(o.w, Len(w.scan))) ELSE o
       [] f.do = "unscan" ->
            LET o == Give(rest, v, Leaving(w, Len(w.scan) - 1))
            IN IF o.s = "fail" THEN Failed([o.w EXCEPT !.scan = Append(@, inner)]) ELSE o
       [] f.do = "note" -> Give(rest, v, Cell(w, n.at, 1))
       [] f.do = "limit" ->
            LET o == Eval(n.kids[2], Cell(w, n.at, 0),
                          <<Frame("count", n, <<DerefIn(v, w)>>)>> \o rest)
            IN IF Numeric(DerefIn(v, w)) <= 0 THEN Failed(w)
               ELSE IF o.s = "limit" /\ o.to = n.at THEN Failed(o.w) ELSE o
       [] f.do = "count" ->
            LET o == Give(rest, v, Cell(w, n.at, w.cells[n.at] + 1))
            IN IF o.s = "fail" /\ o.w.cells[n.at] = Numeric(f.vs[1])
               THEN [Outcome("limit", o.w) EXCEPT !.to = n.at] ELSE o
       [] f.do = "round" ->
            LET w1 == IF n.op \in {"Suspendexpr", "Suspenddo"} THEN Suspended(v, w) ELSE w
                o == Once(n.kids[2], w1)
            IN IF n.op \notin {"Everydo", "Suspenddo"} THEN Failed(w1)
               ELSE IF o.s = "ok" \/ (o.s = "next" /\ o.to = n.at)
                    THEN Failed(Leaving(o.w, Len(w.scan)))
                    ELSE o

\* A procedure with this body, called and resumed until it has returned or failed.
Meaning(body, w) ==
  LET o == Once(Bound(body, <<>>), w)
  IN IF o.s = "return" THEN o.w ELSE FailedProc(o.w)
===============================================================================
