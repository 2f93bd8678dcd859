-------------------------------- MODULE IrGen --------------------------------
(***************************************************************************)
(* The code generator of the translator (oit/ir.c): from the tree of an    *)
(* expression to chunks of intermediate code.                              *)
(*                                                                         *)
(* Every expression gets four chunks: start, resume, success and failure.  *)
(* Its parent jumps to start, or to resume for the next result; the child  *)
(* jumps to success or failure, which the parent writes. A value, a label  *)
(* to come back to, a position on the frame stack to cut back to and a     *)
(* generator in progress each live in a numbered slot of the procedure     *)
(* frame. Slots are handed out from counters (struct ir_stack) that are    *)
(* copied at a branch and joined again by maximum, so that expressions     *)
(* never alive together share slots. Whether they really are never alive   *)
(* together is the question IrMachine asks.                                *)
(*                                                                         *)
(* The source numbers chunks; here a chunk is named by the place of its    *)
(* expression in the tree and its role. A slot carries, besides its number,*)
(* the allocation it comes from, which the code never looks at.            *)
(***************************************************************************)
EXTENDS IconOps, FiniteSets

(***************************************************************************)
(* Trees. A node's "at" is its place: the path of child numbers from the   *)
(* root. The source's binary tree of alternations, which it compiles all   *)
(* in one go, is one node here, and so is n(e1, ..., en) with a number n.  *)
(***************************************************************************)
Node(op, val, kids) == [op |-> op, val |-> val, kids |-> kids, at |-> <<>>]

Loops == {"Every", "Everydo", "Suspendexpr", "Suspenddo", "While", "Whiledo", "Repeat"}

RECURSIVE Placed(_, _)
Placed(n, at) ==
  [n EXCEPT !.at = at,
            !.kids = [i \in DOMAIN n.kids |-> Placed(n.kids[i], Append(at, i))]]

Arithmetic == {"Plus", "Minus", "Mult", "Div", "Mod", "Cat", "Union", "Inter", "Diff"}
Monadic == {"Value", "Size", "Neg", "Number"}
NumericComparison == {"Numlt", "Numle", "Numeq", "Numge", "Numgt", "Numne"}
StringComparison == {"Lexlt", "Lexle", "Lexeq", "Lexge", "Lexgt", "Lexne"}
Comparison == NumericComparison \cup StringComparison \cup {"Eqv", "Neqv"}
Sections == {"Sect", "Sectp", "Sectm"}
Keywords == {"KFail", "KPos", "KSubject", "KDigits", "KNo"}
LastKid(n) == n.kids[Len(n.kids)]

\* use_tcase, which constant folding sets on a case.
UseTCase(n) == n.val = 1

L(n, role) == <<n.at, role>>
Extra == "extra"

(***************************************************************************)
(* Operands and instructions.                                              *)
(***************************************************************************)
NoVar == <<"none">>
KNull == <<"null">>
Word(k) == <<"const", Num(k)>>

Blank == [i |-> "None", op |-> "", dst |-> NoVar, args |-> <<>>, rval |-> FALSE,
          lab |-> <<>>, tl |-> <<>>, mk |-> <<>>, clo |-> <<>>, tci |-> <<>>]

Goto(l) == [Blank EXCEPT !.i = "Goto", !.lab = l]
IGoto(tl) == [Blank EXCEPT !.i = "IGoto", !.tl = tl]
Mark(mk) == [Blank EXCEPT !.i = "Mark", !.mk = mk]
Unmark(mk) == [Blank EXCEPT !.i = "Unmark", !.mk = mk]
MoveLabel(tl, l) == [Blank EXCEPT !.i = "MoveLabel", !.tl = tl, !.lab = l]
Resume(clo) == [Blank EXCEPT !.i = "Resume", !.clo = clo]
Limit(t) == [Blank EXCEPT !.i = "Limit", !.args = <<t>>]
Suspend(v) == [Blank EXCEPT !.i = "Suspend", !.args = <<v>>]
Return(v) == [Blank EXCEPT !.i = "Return", !.args = <<v>>]
FailProc == [Blank EXCEPT !.i = "Fail"]
SysErr == [Blank EXCEPT !.i = "SysErr"]

\* A move or a dereference with no destination is no instruction at all.
Move(dst, src) ==
  IF dst = NoVar THEN Blank ELSE [Blank EXCEPT !.i = "Move", !.dst = dst, !.args = <<src>>]
Deref(dst, src) ==
  IF dst = NoVar THEN Blank ELSE [Blank EXCEPT !.i = "Deref", !.dst = dst, !.args = <<src>>]

KeyOp(dst, op) == [Blank EXCEPT !.i = "KeyOp", !.dst = dst, !.op = op]
MakeList(dst, args) == [Blank EXCEPT !.i = "MakeList", !.dst = dst, !.args = args]
MgOp(dst, op, args, rval) ==
  [Blank EXCEPT !.i = "MgOp", !.dst = dst, !.op = op, !.args = args, !.rval = rval]
Op(dst, op, args, rval, fail) ==
  [Blank EXCEPT !.i = "Op", !.dst = dst, !.op = op, !.args = args, !.rval = rval, !.lab = fail]
OpClo(clo, dst, op, args, rval, fail) ==
  [Blank EXCEPT !.i = "OpClo", !.clo = clo, !.dst = dst, !.op = op, !.args = args,
                !.rval = rval, !.lab = fail]

ScanSave(v, scan) == [Blank EXCEPT !.i = "ScanSave", !.args = <<v, scan[1], scan[2]>>]
ScanSwap(scan) == [Blank EXCEPT !.i = "ScanSwap", !.args = scan]
ScanRestore(scan) == [Blank EXCEPT !.i = "ScanRestore", !.args = scan]

\* The table of a case is named by the place of the case.
EnterInit(l) == [Blank EXCEPT !.i = "EnterInit", !.lab = l]
TCaseInit(tci, def) == [Blank EXCEPT !.i = "TCaseInit", !.tci = tci, !.lab = def]
TCaseInsert(tci, v, entry) ==
  [Blank EXCEPT !.i = "TCaseInsert", !.tci = tci, !.args = <<v>>, !.lab = entry]
TCaseChoose(tci, v) == [Blank EXCEPT !.i = "TCaseChoose", !.tci = tci, !.args = <<v>>]

OptIns(cond, ins) == IF cond THEN ins ELSE Blank
Chunk(l, instrs) == <<l, SelectSeq(instrs, LAMBDA ins : ins.i # "None")>>
Jump(from, to) == Chunk(from, <<Goto(to)>>)
When(cond, chunks) == IF cond THEN chunks ELSE {}

(***************************************************************************)
(* The slots in use: struct ir_stack, branch_stack (a copy, so nothing     *)
(* here) and union_stack.                                                  *)
(***************************************************************************)
NoSlots == [clo |-> 0, tmp |-> 0, lab |-> 0, mark |-> 0]

\* Mistake: only the slots of the whole are counted, none of the branches'.
Union_Outer(s, ts) == s

Union(s, ts) ==
  LET all == {s} \cup ts
  IN [clo |-> Max({t.clo : t \in all}), tmp |-> Max({t.tmp : t \in all}),
      lab |-> Max({t.lab : t \in all}), mark |-> Max({t.mark : t \in all})]

Tmp(st, id) == <<"Tmp", st.tmp, id>>
TmpLoc(st, id) == <<st.lab, id>>
MarkOf(st, id) == <<st.mark, id>>
Clo(st, id) == <<st.clo, id>>

\* Where the value of an operand is to be found: constants, locals and globals
\* are operands themselves, anything else is put in a temporary.
SelfVar(n) ==
  CASE n.op = "Const" -> <<"const", n.val>>
    [] n.op \in {"Local", "Global"} -> <<n.op, n.val>>
    [] n.op \in {"Null", "Empty"} -> KNull
    [] OTHER -> NoVar

GetVar(n, st) ==
  IF SelfVar(n) # NoVar THEN [v |-> SelfVar(n), st |-> st]
  ELSE [v |-> Tmp(st, L(n, "value")), st |-> [st EXCEPT !.tmp = @ + 1]]

GetVars(kids, st) ==
  LET tmps(i) == Cardinality({j \in 1..i : SelfVar(kids[j]) = NoVar})
      upTo(i) == [st EXCEPT !.tmp = @ + tmps(i)]
  IN [vs |-> [i \in DOMAIN kids |-> GetVar(kids[i], upTo(i - 1)).v], st |-> upTo(Len(kids))]

IsAssignableVar(n) ==
  n.op = "Local" \/ (n.op = "Global" /\ n.val \notin Procedures)

(***************************************************************************)
(* What an expression can do, as far as its parent needs to know.          *)
(***************************************************************************)
\* no_change: evaluating n (or resuming it) assigns to no variable.
RECURSIVE NoChange(_)
NoChange(n) ==
  /\ n.op \in {"Const", "Local", "Global", "Null", "Empty",
               "Conj", "Mutual", "List", "Slist", "Bang", "Nonnull", "IsNull", "Tabmat",
               "Not", "Limit", "If", "Ifelse", "Scan", "Alt", "Subsc", "To", "Toby"}
              \cup Keywords \cup Monadic \cup Arithmetic \cup Comparison \cup Sections
  /\ \A i \in DOMAIN n.kids : NoChange(n.kids[i])

\* asgn_may_fail: the variable n gives may be &pos or, for a swap, a substring.
RECURSIVE AsgnMayFail(_, _)
AsgnMayFail(n, swap) ==
  CASE n.op \in {"Empty", "Local", "Global", "Const", "Null"} \cup (Keywords \ {"KPos"}) -> FALSE
    [] n.op \in {"Bang", "Subsc"} \cup Sections -> swap
    [] n.op \in {"Nonnull", "IsNull", "Alt"} -> \E i \in DOMAIN n.kids : AsgnMayFail(n.kids[i], swap)
    [] OTHER -> TRUE

\* last_invoke_arg_rval: the callee is known, and dereferences its arguments.
LastInvokeArgRval(n) == n.kids[1].op = "Global" /\ n.kids[1].val \in Procedures

\* Whether the parent only wants the value of child i: an operand may be reduced
\* to its value early when nothing evaluated after it can change it.
KidRval(n, i, rval) ==
  LET laterNoChange == \A j \in (i + 1)..Len(n.kids) : NoChange(n.kids[j])
  IN CASE n.op \in Arithmetic \cup Comparison \cup {"To", "Toby", "List", "Apply"} -> laterNoChange
       [] n.op = "Invoke" -> LastInvokeArgRval(n) /\ laterNoChange
       [] n.op \in {"Subsc"} \cup Sections -> i > 1 /\ laterNoChange
       [] n.op \in {"Asgn", "Rasgn", "Aug", "Augapply"} -> i = 2
       [] n.op \in {"Swap", "Rswap"} -> FALSE
       [] n.op \in {"Tabmat"} \cup Monadic -> TRUE
       [] n.op \in {"Nonnull", "IsNull", "Bang"} -> rval
       [] n.op \in {"Conj", "Mutual"} -> i < Len(n.kids) \/ rval
       [] n.op = "Select" -> i # n.val \/ (rval /\ laterNoChange)

(***************************************************************************)
(* ir_traverse. The result of traversing n: its chunks, the slots then in  *)
(* use, whether it may leave frames on the stack (uses_stack), and how     *)
(* breaks and nexts in it leave the loops around it, which each loop reads *)
(* for its has_break, has_next and its own slots.                          *)
(*                                                                         *)
(* env is what the globals scan_stack and loop_stack hold: the scans n is  *)
(* in (the two temporaries of each, outermost first), and the loops.       *)
(***************************************************************************)
Result(chunks, infos, st, stk) ==
  [code |-> chunks \cup UNION {infos[i].code : i \in DOMAIN infos},
   ex |-> UNION {infos[i].ex : i \in DOMAIN infos},
   st |-> st, stk |-> stk]

AnyStk(infos) == \E i \in DOMAIN infos : infos[i].stk

Kid(n, target, bounded, rval) == [n |-> n, target |-> target, bounded |-> bounded, rval |-> rval]

RECURSIVE Traverse(_, _, _, _, _, _)

\* Children that share the slots: each takes up where the one before it left off.
RECURSIVE InTurn(_, _, _)
InTurn(kids, st, env) ==
  IF kids = <<>> THEN [infos |-> <<>>, st |-> st]
  ELSE LET k == Head(kids)
           first == Traverse(k.n, st, k.target, k.bounded, k.rval, env)
           rest == InTurn(Tail(kids), first.st, env)
       IN [infos |-> <<first>> \o rest.infos, st |-> rest.st]

\* Children of which one at most is ever alive: each starts from a copy.
Branches(kids, st, env) ==
  [i \in DOMAIN kids |->
     Traverse(kids[i].n, st, kids[i].target, kids[i].bounded, kids[i].rval, env)]

\* A constant, a variable or &null: moved to the target unless it is the target.
Leaf(n, st, target, bounded) ==
  LET self == SelfVar(n)
      wrong == target # NoVar /\ target[1] = self[1] /\ target # self
  IN Result(
       {Chunk(L(n, "start"), <<IF wrong THEN [Blank EXCEPT !.i = "Quit"]
                               ELSE IF target = self THEN Blank ELSE Move(target, self),
                               Goto(L(n, "success"))>>)}
         \cup When(~bounded, {Jump(L(n, "resume"), L(n, "failure"))}),
       <<>>, st, FALSE)

Keyword(n, st, target, bounded) ==
  Result(
    IF n.op = "KFail"
    THEN {Jump(L(n, "start"), L(n, "failure"))}
           \cup When(~bounded, {Chunk(L(n, "resume"), <<SysErr>>)})
    ELSE {Chunk(L(n, "start"), <<KeyOp(target, n.op), Goto(L(n, "success"))>>)}
           \cup When(~bounded, {Jump(L(n, "resume"), L(n, "failure"))}),
    <<>>, st, FALSE)

\* Assignment of the value of an operand or temporary to the variable a child
\* gave; when it may fail, the next result of the right side is tried.
Assignment(n, lv, v, target, rval, fail) ==
  IF AsgnMayFail(n.kids[1], FALSE) THEN Op(target, "Asgn", <<lv, v>>, rval, fail)
  ELSE MgOp(target, "Asgn1", <<lv, v>>, rval)

(***************************************************************************)
(* An operation whose operands are evaluated one after another: when one   *)
(* fails, the one before it is resumed; when the last has succeeded, the   *)
(* operation is done; to resume the whole, the last operand is resumed, or *)
(* the operation itself if it is a generator.                              *)
(***************************************************************************)
Generators == {"To", "Toby", "Bang", "Tabmat", "Rasgn", "Rswap", "Invoke", "Apply", "Augapply"}

\* The last operand need not be resumable when the whole is not, and the
\* operation cannot fail.
\* Mistake: a comparison is taken to be an operation that cannot fail.
LastBounded_Comparison(n, bounded) ==
  bounded /\ n.op \in Arithmetic \cup Comparison \cup Monadic \cup {"Conj", "Mutual", "Select"}

LastBounded(n, bounded) ==
  /\ bounded
  /\ \/ n.op \in Arithmetic \cup Monadic \cup {"Conj", "Mutual", "Select"}
     \/ n.op = "Asgn" /\ ~AsgnMayFail(n.kids[1], FALSE)
     \/ n.op = "Aug" /\ n.val \in Arithmetic /\ ~AsgnMayFail(n.kids[1], FALSE)
     \/ n.op = "Swap" /\ ~AsgnMayFail(n.kids[1], TRUE) /\ ~AsgnMayFail(n.kids[2], TRUE)

KidTarget(n, i, vs, target) ==
  CASE n.op \in {"Conj", "Mutual"} -> IF i = Len(n.kids) THEN target ELSE NoVar
    [] n.op = "Select" -> IF i = n.val THEN target ELSE NoVar
    [] OTHER -> vs[i]

\* What is done once the operands are there.
Finish(n, vs, tmp, clo, target, rval) ==
  LET fail == L(LastKid(n), "resume")
      swapMayFail == AsgnMayFail(n.kids[1], TRUE) \/ AsgnMayFail(n.kids[2], TRUE)
  IN CASE n.op = "Value" /\ target # NoVar -> <<Deref(target, vs[1])>>
       [] n.op \in Arithmetic \cup Monadic -> <<MgOp(target, n.op, vs, rval)>>
       [] n.op \in Comparison \cup {"Subsc", "Sect", "Nonnull", "IsNull"} ->
            <<Op(target, n.op, vs, rval, fail)>>
       [] n.op \in {"Sectp", "Sectm"} ->
            <<MgOp(tmp, IF n.op = "Sectp" THEN "Plus" ELSE "Minus", <<vs[2], vs[3]>>, TRUE),
              Op(target, "Sect", <<vs[1], vs[2], tmp>>, rval, fail)>>
       [] n.op = "To" -> <<OpClo(clo, target, "Toby", Append(vs, Word(1)), rval, fail)>>
       [] n.op \in {"Toby", "Bang", "Tabmat", "Rasgn", "Rswap"} ->
            <<OpClo(clo, target, n.op, vs, rval, fail)>>
       [] n.op \in {"Invoke", "Apply"} ->
            <<[OpClo(clo, target, "Invoke", vs, rval, fail) EXCEPT !.i = n.op]>>
       [] n.op = "List" -> <<MakeList(target, vs)>>
       [] n.op = "Asgn" -> <<Assignment(n, vs[1], vs[2], target, rval, fail)>>
       [] n.op = "Swap" -> IF swapMayFail THEN <<Op(target, "Swap", vs, rval, fail)>>
                           ELSE <<MgOp(target, "Swap1", vs, rval)>>
       [] n.op = "Aug" -> <<IF n.val \in Arithmetic THEN MgOp(tmp, n.val, vs, TRUE)
                            ELSE Op(tmp, n.val, vs, TRUE, fail),
                            Assignment(n, vs[1], tmp, target, rval, fail)>>
       [] n.op \in {"Conj", "Mutual", "Select"} -> <<>>

Strict(n, st, target, bounded, rval, env) ==
  LET m == Len(n.kids)
      gen == n.op \in Generators
      closureFirst == gen /\ n.op \notin {"To", "Toby"}
      st1 == IF closureFirst THEN [st EXCEPT !.clo = @ + 1] ELSE st
      g == IF n.op \in {"Conj", "Mutual", "Select"} THEN [vs |-> <<>>, st |-> st1]
           ELSE GetVars(n.kids, st1)
      tmp == Tmp(g.st, L(n, Extra))
      st2 == IF n.op \in {"Sectp", "Sectm", "Aug"} THEN [g.st EXCEPT !.tmp = @ + 1] ELSE g.st
      r == InTurn([i \in 1..m |-> Kid(n.kids[i], KidTarget(n, i, g.vs, target),
                                      i = m /\ LastBounded(n, bounded), KidRval(n, i, rval))],
                  st2, env)
      clo == Clo(IF closureFirst THEN st ELSE r.st, L(n, "closure"))
      st3 == IF gen /\ ~closureFirst THEN [r.st EXCEPT !.clo = @ + 1] ELSE r.st
      noneSelected == n.op = "Select" /\ n.val \notin 1..m
  IN Result(
       {Jump(L(n, "start"), L(n.kids[1], "start")),
        Jump(L(n.kids[1], "failure"), L(n, "failure")),
        IF noneSelected THEN Jump(L(n.kids[m], "success"), L(n.kids[m], "resume"))
        ELSE Chunk(L(n.kids[m], "success"),
                   Finish(n, g.vs, tmp, clo, target, rval) \o <<Goto(L(n, "success"))>>)}
         \cup {Jump(L(n.kids[i], "success"), L(n.kids[i + 1], "start")) : i \in 1..(m - 1)}
         \cup {Jump(L(n.kids[i + 1], "failure"), L(n.kids[i], "resume")) : i \in 1..(m - 1)}
         \cup When(~bounded \/ n.op = "List",
                   {IF gen THEN Chunk(L(n, "resume"), <<Resume(clo), Goto(L(n, "success"))>>)
                    ELSE Jump(L(n, "resume"), L(n.kids[m], "resume"))}),
       r.infos, st3, gen \/ AnyStk(r.infos))

(***************************************************************************)
(* v := e and v op:= e where v is a variable by name: it is not evaluated, *)
(* and the value goes straight to it.                                      *)
(***************************************************************************)
PutsValue == {"Const"} \cup Monadic \cup Arithmetic \cup Comparison

AssignToVariable(n, st, target, bounded, rval, env) ==
  LET lv == SelfVar(n.kids[1])
      right == n.kids[2]
      direct == n.op = "Asgn" /\ right.op \in PutsValue
      g == IF direct THEN [v |-> lv, st |-> st] ELSE GetVar(right, st)
      mayFail == n.op = "Aug" /\ n.val \notin Arithmetic
      e == Traverse(right, g.st, g.v, bounded /\ ~mayFail, TRUE, env)
      assign == IF direct THEN Blank
                ELSE IF n.op = "Asgn" THEN Deref(lv, g.v)
                ELSE IF mayFail THEN Op(lv, n.val, <<lv, g.v>>, TRUE, L(right, "resume"))
                ELSE MgOp(lv, n.val, <<lv, g.v>>, TRUE)
  IN Result(
       {Jump(L(n, "start"), L(right, "start")),
        Jump(L(right, "failure"), L(n, "failure")),
        Chunk(L(right, "success"), <<assign, Move(target, lv), Goto(L(n, "success"))>>)}
         \cup When(~bounded, {Jump(L(n, "resume"), L(right, "resume"))}),
       <<e>>, e.st, e.stk)

\* p !:= e: the result of applying p is assigned to p; if that fails, the
\* application is resumed.
AugApply(n, st, target, bounded, rval, env) ==
  LET clo == Clo(st, L(n, "closure"))
      g == GetVars(n.kids, [st EXCEPT !.clo = @ + 1])
      tmp == Tmp(g.st, L(n, Extra))
      av == IsAssignableVar(n.kids[1])
      r == InTurn(<<Kid(n.kids[1], g.vs[1], FALSE, FALSE), Kid(n.kids[2], g.vs[2], FALSE, TRUE)>>,
                  [g.st EXCEPT !.tmp = @ + 1], env)
      right == n.kids[2]
  IN Result(
       {Jump(L(n, "start"), L(n.kids[1], "start")),
        Jump(L(n.kids[1], "success"), L(right, "start")),
        Jump(L(n.kids[1], "failure"), L(n, "failure")),
        Jump(L(right, "failure"), L(n.kids[1], "resume")),
        Chunk(L(right, "success"),
              <<[OpClo(clo, tmp, "Invoke", g.vs, TRUE, L(right, "resume")) EXCEPT !.i = "Apply"],
                Goto(L(n, Extra))>>),
        Chunk(L(n, Extra),
              (IF av THEN <<Deref(g.vs[1], tmp), Move(target, g.vs[1])>>
               ELSE <<Assignment(n, g.vs[1], tmp, target, rval, L(n, "resume"))>>)
                \o <<Goto(L(n, "success"))>>)}
         \cup When(~bounded \/ (~av /\ AsgnMayFail(n.kids[1], FALSE)),
                   {Chunk(L(n, "resume"), <<Resume(clo), Goto(L(n, Extra))>>)}),
       r.infos, r.st, TRUE)

(***************************************************************************)
(* Control structures.                                                     *)
(***************************************************************************)
\* s ? e and s ?:= e. The scan outside is kept in two temporaries, exchanged
\* with the current one whenever control leaves or re-enters the body.
Scanning(n, st, target, bounded, rval, env) ==
  LET aug == n.op = "Augscan"
      scan == <<Tmp(st, L(n, "subject")),
                Tmp([st EXCEPT !.tmp = @ + 1], L(n, "pos"))>>
      g == GetVar(n.kids[1], [st EXCEPT !.tmp = @ + 2])
      rv == Tmp(g.st, L(n, Extra))
      av == IsAssignableVar(n.kids[1])
      af == AsgnMayFail(n.kids[1], FALSE)
      expr == Traverse(n.kids[1], IF aug THEN [g.st EXCEPT !.tmp = @ + 1] ELSE g.st,
                       g.v, FALSE, ~aug, env)
      body == Traverse(n.kids[2], expr.st, IF aug THEN rv ELSE target,
                       bounded /\ (aug => av \/ ~af), rval,
                       [env EXCEPT !.scans = Append(@, scan)])
      assign == IF ~aug THEN <<>>
                ELSE IF av THEN <<Deref(g.v, rv), Move(target, g.v)>>
                ELSE <<Assignment(n, g.v, rv, target, rval, L(n.kids[2], "resume"))>>
  IN Result(
       {Jump(L(n, "start"), L(n.kids[1], "start")),
        Chunk(L(n.kids[1], "success"), <<ScanSave(g.v, scan), Goto(L(n.kids[2], "start"))>>),
        Jump(L(n.kids[1], "failure"), L(n, "failure")),
        Chunk(L(n.kids[2], "failure"), <<ScanRestore(scan), Goto(L(n.kids[1], "resume"))>>),
        Chunk(L(n.kids[2], "success"),
              assign \o <<IF bounded THEN ScanRestore(scan) ELSE ScanSwap(scan),
                          Goto(L(n, "success"))>>)}
         \cup When(~bounded, {Chunk(L(n, "resume"),
                                    <<ScanSwap(scan), Goto(L(n.kids[2], "resume"))>>)}),
       <<expr, body>>, body.st, expr.stk \/ body.stk)

\* A sequence of statements: all but the last are bounded, each cut back to one
\* mark if it may leave frames, and it does not matter whether they succeed.
Slist(n, st, target, bounded, rval, env) ==
  LET m == Len(n.kids)
      list_st == [st EXCEPT !.mark = @ + 1]
      mk == MarkOf(st, L(n, "mark"))
      stmts == Branches([i \in 1..(m - 1) |-> Kid(n.kids[i], NoVar, TRUE, TRUE)], list_st, env)
      final == Traverse(n.kids[m], st, target, bounded, rval, env)
  IN Result(
       {Chunk(L(n, "start"), <<OptIns(AnyStk(stmts), Mark(mk)), Goto(L(n.kids[1], "start"))>>),
        Jump(L(n.kids[m], "success"), L(n, "success")),
        Jump(L(n.kids[m], "failure"), L(n, "failure"))}
         \cup {Chunk(L(n.kids[i], "success"),
                     <<OptIns(stmts[i].stk, Unmark(mk)), Goto(L(n.kids[i + 1], "start"))>>)
               : i \in 1..(m - 1)}
         \cup {Jump(L(n.kids[i], "failure"), L(n.kids[i + 1], "start")) : i \in 1..(m - 1)}
         \cup When(~bounded, {Jump(L(n, "resume"), L(n.kids[m], "resume"))}),
       Append(stmts, final), final.st, final.stk)

\* e1 | e2 | ...: a label slot holds where to resume.
Alternation(n, st, target, bounded, rval, env) ==
  LET m == Len(n.kids)
      tl == TmpLoc(st, L(n, "label"))
      r == Branches([i \in 1..m |-> Kid(n.kids[i], target, bounded, rval)],
                    [st EXCEPT !.lab = @ + 1], env)
      try(i) == <<OptIns(~bounded, MoveLabel(tl, L(n.kids[i], "resume"))),
                  Goto(L(n.kids[i], "start"))>>
  IN Result(
       {Chunk(L(n, "start"), try(1)), Jump(L(n.kids[m], "failure"), L(n, "failure"))}
         \cup {Jump(L(n.kids[i], "success"), L(n, "success")) : i \in 1..m}
         \cup {Chunk(L(n.kids[i], "failure"), try(i + 1)) : i \in 1..(m - 1)}
         \cup When(~bounded, {Chunk(L(n, "resume"), <<IGoto(tl)>>)}),
       r, Union([st EXCEPT !.lab = @ + 1], {r[i].st : i \in 1..m}), AnyStk(r))

\* if e1 then e2 [else e3]. With an else, a label slot holds which to resume.
Conditional(n, st, target, bounded, rval, env) ==
  LET two == n.op = "Ifelse"
      tl == TmpLoc(st, L(n, "label"))
      st1 == IF two THEN [st EXCEPT !.lab = @ + 1] ELSE st
      mk == MarkOf(st1, L(n, "mark"))
      expr == Traverse(n.kids[1], [st1 EXCEPT !.mark = @ + 1], NoVar, TRUE, TRUE, env)
      arms == Branches([i \in 1..(Len(n.kids) - 1) |-> Kid(n.kids[i + 1], target, bounded, rval)],
                       st1, env)
      choose(i) == <<OptIns(two /\ ~bounded, MoveLabel(tl, L(n.kids[i], "resume"))),
                     Goto(L(n.kids[i], "start"))>>
  IN Result(
       {Chunk(L(n, "start"), <<OptIns(expr.stk, Mark(mk)), Goto(L(n.kids[1], "start"))>>),
        Chunk(L(n.kids[1], "success"), <<OptIns(expr.stk, Unmark(mk))>> \o choose(2)),
        IF two THEN Chunk(L(n.kids[1], "failure"), choose(3))
        ELSE Jump(L(n.kids[1], "failure"), L(n, "failure"))}
         \cup {Jump(L(n.kids[i], "success"), L(n, "success")) : i \in 2..Len(n.kids)}
         \cup {Jump(L(n.kids[i], "failure"), L(n, "failure")) : i \in 2..Len(n.kids)}
         \cup When(~bounded, {IF two THEN Chunk(L(n, "resume"), <<IGoto(tl)>>)
                              ELSE Jump(L(n, "resume"), L(n.kids[2], "resume"))}),
       <<expr>> \o arms, Union(st1, {arms[i].st : i \in DOMAIN arms}), AnyStk(arms))

\* case e of { s1 : c1; ... default : d }; the children are e, s1, c1, ..., d.
\* One mark serves the expression and every selector.
Case(n, st, target, bounded, rval, env) ==
  LET def == n.op = "Casedef"
      m == (Len(n.kids) - (IF def THEN 2 ELSE 1)) \div 2
      sel(i) == n.kids[2 * i]
      clause(i) == IF i <= m THEN n.kids[2 * i + 1] ELSE LastKid(n)
      clauses == 1..(IF def THEN m + 1 ELSE m)
      tl == TmpLoc(st, L(n, "label"))
      st1 == [st EXCEPT !.lab = @ + 1]
      mk == MarkOf(st1, L(n, "mark"))
      e == GetVar(n.kids[1], [st1 EXCEPT !.mark = @ + 1])
      expr == Traverse(n.kids[1], e.st, e.v, TRUE, TRUE, env)
      var == [i \in 1..m |-> GetVar(sel(i), e.st)]
      sels == [i \in 1..m |-> Traverse(sel(i), var[i].st, var[i].v, FALSE, TRUE, env)]
      arms == [i \in clauses |-> Traverse(clause(i), st1, target, bounded, rval, env)]
      enter(i) == <<OptIns(~bounded, MoveLabel(tl, L(clause(i), "resume"))),
                    Goto(L(clause(i), "start"))>>
  IN Result(
       {Chunk(L(n, "start"), <<OptIns(expr.stk \/ AnyStk(sels), Mark(mk)),
                               Goto(L(n.kids[1], "start"))>>),
        Jump(L(n.kids[1], "failure"), L(n, "failure")),
        Chunk(L(n.kids[1], "success"),
              <<OptIns(expr.stk, Unmark(mk))>> \o
              IF m = 0 THEN enter(1) ELSE <<Goto(L(sel(1), "start"))>>)}
         \cup {Chunk(L(sel(i), "success"),
                     <<Op(NoVar, "Eqv", <<e.v, var[i].v>>, TRUE, L(sel(i), "resume")),
                       OptIns(sels[i].stk, Unmark(mk))>> \o enter(i)) : i \in 1..m}
         \cup {IF i < m THEN Jump(L(sel(i), "failure"), L(sel(i + 1), "start"))
               ELSE IF def THEN Chunk(L(sel(i), "failure"), enter(m + 1))
               ELSE Jump(L(sel(i), "failure"), L(n, "failure")) : i \in 1..m}
         \cup {Jump(L(clause(i), "success"), L(n, "success")) : i \in clauses}
         \cup {Jump(L(clause(i), "failure"), L(n, "failure")) : i \in clauses}
         \cup When(~bounded, {Chunk(L(n, "resume"), <<IGoto(tl)>>)}),
       <<expr>> \o sels \o arms, Union(st1, {arms[i].st : i \in clauses}), AnyStk(arms))

\* The same when the selectors give the same values whenever they are evaluated:
\* on the first entry all their results are put in a table, with where to go,
\* and from then on the value of e is only looked up there.
TableCase(n, st, target, bounded, rval, env) ==
  LET def == n.op = "Casedef"
      m == (Len(n.kids) - (IF def THEN 2 ELSE 1)) \div 2
      sel(i) == n.kids[2 * i]
      clause(i) == IF i <= m THEN n.kids[2 * i + 1] ELSE LastKid(n)
      clauses == 1..(IF def THEN m + 1 ELSE m)
      tl == TmpLoc(st, L(n, "label"))
      st1 == [st EXCEPT !.lab = @ + 1]
      e == GetVar(n.kids[1], st1)
      mk == MarkOf(e.st, L(n, "mark"))
      expr == Traverse(n.kids[1], [e.st EXCEPT !.mark = @ + 1], e.v, TRUE, TRUE, env)
      var == [i \in 1..m |-> GetVar(sel(i), e.st)]
      sels == [i \in 1..m |-> Traverse(sel(i), var[i].st, var[i].v, FALSE, TRUE, env)]
      arms == [i \in clauses |-> Traverse(clause(i), st1, target, bounded, rval, env)]
      enter(i) == <<OptIns(~bounded, MoveLabel(tl, L(clause(i), "resume"))),
                    Goto(L(clause(i), "start"))>>
      entry(i) == IF bounded THEN L(clause(i), "start") ELSE L(clause(i), "enter")
      choose == L(n, Extra)
  IN Result(
       {Chunk(L(n, "start"), <<OptIns(expr.stk, Mark(mk)), Goto(L(n.kids[1], "start"))>>),
        Jump(L(n.kids[1], "failure"), L(n, "failure")),
        Chunk(L(n.kids[1], "success"),
              <<OptIns(expr.stk, Unmark(mk))>> \o
              IF m = 0 THEN enter(1)
              ELSE <<EnterInit(choose),
                     TCaseInit(n.at, IF def THEN entry(m + 1) ELSE L(n, "failure")),
                     Goto(L(sel(1), "start"))>>)}
         \cup {Chunk(L(sel(i), "success"), <<TCaseInsert(n.at, var[i].v, entry(i)),
                                             Goto(L(sel(i), "resume"))>>) : i \in 1..m}
         \cup {Jump(L(sel(i), "failure"), IF i < m THEN L(sel(i + 1), "start") ELSE choose)
                : i \in 1..m}
         \cup When(m > 0, {Chunk(choose, <<TCaseChoose(n.at, e.v)>>)})
         \cup When(m > 0 /\ ~bounded, {Chunk(entry(i), enter(i)) : i \in clauses})
         \cup {Jump(L(clause(i), "success"), L(n, "success")) : i \in clauses}
         \cup {Jump(L(clause(i), "failure"), L(n, "failure")) : i \in clauses}
         \cup When(~bounded, {Chunk(L(n, "resume"), <<IGoto(tl)>>)}),
       <<expr>> \o sels \o arms, Union(st1, {arms[i].st : i \in clauses}), AnyStk(arms))

\* |e: e again and again, until it fails without having given a result.
RepeatedAlternation(n, st, target, bounded, rval, env) ==
  LET tl == TmpLoc(st, L(n, "label"))
      k == n.kids[1]
      e == Traverse(k, IF bounded THEN st ELSE [st EXCEPT !.lab = @ + 1],
                    target, bounded, rval, env)
      again(l) == OptIns(~bounded, MoveLabel(tl, l))
  IN Result(
       {Chunk(L(n, "start"), <<again(L(n, "failure")), Goto(L(k, "start"))>>),
        Chunk(L(k, "success"), <<again(L(n, "start")), Goto(L(n, "success"))>>),
        IF bounded THEN Jump(L(k, "failure"), L(n, "failure"))
        ELSE Chunk(L(k, "failure"), <<IGoto(tl)>>)}
         \cup When(~bounded, {Jump(L(n, "resume"), L(k, "resume"))}),
       <<e>>, e.st, e.stk)

Not(n, st, target, bounded, env) ==
  LET mk == MarkOf(st, L(n, "mark"))
      k == n.kids[1]
      e == Traverse(k, [st EXCEPT !.mark = @ + 1], target, TRUE, TRUE, env)
  IN Result(
       {Chunk(L(n, "start"), <<OptIns(e.stk, Mark(mk)), Goto(L(k, "start"))>>),
        Chunk(L(k, "success"), <<OptIns(e.stk, Unmark(mk)), Goto(L(n, "failure"))>>),
        Chunk(L(k, "failure"), <<Move(target, KNull), Goto(L(n, "success"))>>)}
         \cup When(~bounded, {Jump(L(n, "resume"), L(n, "failure"))}),
       <<e>>, st, FALSE)

\* e \ 1, for which e is treated as bounded.
LimitOne(n, st, target, bounded, rval, env) ==
  LET mk == MarkOf(st, L(n, "mark"))
      k == n.kids[2]
      e == Traverse(k, [st EXCEPT !.mark = @ + 1], target, TRUE, rval, env)
  IN Result(
       {Chunk(L(n, "start"), <<OptIns(e.stk, Mark(mk)), Goto(L(k, "start"))>>),
        Chunk(L(k, "success"), <<OptIns(e.stk, Unmark(mk)), Goto(L(n, "success"))>>),
        Jump(L(k, "failure"), L(n, "failure"))}
         \cup When(~bounded, {Jump(L(n, "resume"), L(n, "failure"))}),
       <<e>>, e.st, FALSE)

\* e \ limit: a temporary counts down the results; the children are limit, e.
Limitation(n, st, target, bounded, rval, env) ==
  LET t == Tmp(st, L(n, "limit"))
      mk == MarkOf(st, L(n, "mark"))
      lim == n.kids[1]
      k == n.kids[2]
      r == InTurn(<<Kid(lim, t, FALSE, TRUE), Kid(k, target, bounded, rval)>>,
                  [st EXCEPT !.tmp = @ + 1, !.mark = @ + 1], env)
      stk == r.infos[2].stk
  IN Result(
       {Jump(L(n, "start"), L(lim, "start")),
        Jump(L(k, "failure"), L(lim, "resume")),
        Jump(L(lim, "failure"), L(n, "failure")),
        Jump(L(k, "success"), L(n, "success")),
        Chunk(L(lim, "success"),
              <<Limit(t), Op(NoVar, "Numgt", <<t, Word(0)>>, TRUE, L(lim, "resume")),
                OptIns(~bounded /\ stk, Mark(mk)), Goto(L(k, "start"))>>)}
         \cup When(~bounded,
                {Chunk(L(n, "resume"),
                       <<Op(NoVar, "Numgt", <<t, Word(1)>>, TRUE, L(n, Extra)),
                         MgOp(t, "Minus", <<t, Word(1)>>, TRUE), Goto(L(k, "resume"))>>),
                 Chunk(L(n, Extra), <<OptIns(stk, Unmark(mk)), Goto(L(lim, "resume"))>>)}),
       r.infos, r.st, AnyStk(r.infos))

(***************************************************************************)
(* Loops. A loop's value comes from its breaks; a loop that may be resumed *)
(* keeps in a label slot where to go on in the expression of the break it  *)
(* left by. Its own children run on a copy of the slots, which are free    *)
(* again once the loop has ended, and so does the expression of a break,   *)
(* except that what it uses stays in use.                                  *)
(***************************************************************************)
\* init_loop: the loop as a break or a next inside it sees it.
LoopOf(n, st, target, bounded, rval, env) ==
  [at |-> n.at, tl |-> TmpLoc(st, L(n, "label")), mk |-> MarkOf(st, L(n, "mark")),
   st |-> [st EXCEPT !.lab = @ + 1, !.mark = @ + 1], target |-> target, bounded |-> bounded,
   rval |-> rval, depth |-> Len(env.scans), nextFails |-> FALSE]

LeavesBy(infos, loop, kind) ==
  \E i \in DOMAIN infos : \E x \in infos[i].ex : x.loop = loop.at /\ x.kind = kind

\* What the loop n gives: the slots and frames of its breaks' expressions.
LoopResult(n, chunks, infos, st, loop, bounded) ==
  LET ex == UNION {infos[i].ex : i \in DOMAIN infos}
      breaks == {x \in ex : x.loop = loop.at /\ x.kind = "break"}
      after == [st EXCEPT !.lab = @ + 1]
  IN [code |-> chunks \cup UNION {infos[i].code : i \in DOMAIN infos}
                 \cup When(~bounded, {Chunk(L(n, "resume"), <<IGoto(loop.tl)>>)}),
      ex |-> {x \in ex : x.loop # loop.at},
      st |-> Union(after, {x.st : x \in breaks}),
      stk |-> \E x \in breaks : x.stk]

\* every e [do body] and suspend e [do body]: e is resumed for each result, and
\* the body is bounded. A next in e is no more than a failure.
GeneratorLoop(n, st, target, bounded, rval, env) ==
  LET loop == LoopOf(n, st, target, bounded, rval, env)
      within(fails) == [env EXCEPT !.loops = Append(@, [loop EXCEPT !.nextFails = fails])]
      suspends == n.op \in {"Suspendexpr", "Suspenddo"}
      do == n.op \in {"Everydo", "Suspenddo"}
      e == n.kids[1]
      body == n.kids[2]
      v == IF suspends THEN GetVar(e, loop.st) ELSE [v |-> NoVar, st |-> loop.st]
      body_mk == MarkOf(v.st, L(n, Extra))
      st1 == IF do THEN [v.st EXCEPT !.mark = @ + 1] ELSE v.st
      expr == Traverse(e, st1, v.v, FALSE, ~suspends, within(TRUE))
      infos == IF do THEN <<expr, Traverse(body, expr.st, NoVar, TRUE, TRUE, within(FALSE))>>
               ELSE <<expr>>
      swap == OptIns(env.scans # <<>>, ScanSwap(Head(env.scans)))
      hasNext == LeavesBy(infos, loop, "next")
      deliver == IF suspends THEN <<swap, Suspend(v.v), swap>> ELSE <<>>
      then == IF do THEN <<OptIns(infos[2].stk \/ hasNext, Mark(body_mk)), Goto(L(body, "start"))>>
              ELSE <<Goto(L(e, "resume"))>>
  IN LoopResult(n,
       {Chunk(L(n, "start"), <<OptIns(LeavesBy(infos, loop, "break"), Mark(loop.mk)),
                               Goto(L(e, "start"))>>),
        Chunk(L(e, "success"), deliver \o then),
        Jump(L(e, "failure"), L(n, "failure"))}
         \cup When(do, {Chunk(L(body, "success"), <<OptIns(infos[2].stk, Unmark(body_mk)),
                                                    Goto(L(e, "resume"))>>),
                        Jump(L(body, "failure"), L(e, "resume"))})
         \cup When(hasNext, {Chunk(L(n, "next"), <<Unmark(body_mk), Goto(L(e, "resume"))>>)}),
       infos, st, loop, bounded)

\* while e [do body] and repeat e: bounded children, cut back to the loop's mark.
ConditionLoop(n, st, target, bounded, rval, env) ==
  LET loop == LoopOf(n, st, target, bounded, rval, env)
      infos == Branches([i \in DOMAIN n.kids |-> Kid(n.kids[i], NoVar, TRUE, TRUE)],
                        loop.st, [env EXCEPT !.loops = Append(@, loop)])
      first == L(n.kids[1], "start")
      hasNext == LeavesBy(infos, loop, "next")
      needMark == LeavesBy(infos, loop, "break") \/ hasNext \/ AnyStk(infos)
      do == n.op = "Whiledo"
  IN LoopResult(n,
       {Chunk(L(n, "start"), <<OptIns(needMark, Mark(loop.mk)), Goto(first)>>),
        Chunk(L(n.kids[1], "success"),
              <<OptIns(infos[1].stk, Unmark(loop.mk)),
                Goto(IF do THEN L(n.kids[2], "start") ELSE first)>>),
        Jump(L(n.kids[1], "failure"), IF n.op = "Repeat" THEN first ELSE L(n, "failure"))}
         \cup When(do, {Chunk(L(n.kids[2], "success"), <<OptIns(infos[2].stk, Unmark(loop.mk)),
                                                         Goto(first)>>),
                        Jump(L(n.kids[2], "failure"), first)})
         \cup When(hasNext, {Chunk(L(n, "next"), <<Unmark(loop.mk), Goto(first)>>)}),
       infos, st, loop, bounded)

\* Leaving a loop from within scans begun inside it restores the outermost of them.
\* Mistake: the innermost of them is restored.
LeaveScans_Innermost(loop, env) ==
  OptIns(Len(env.scans) > loop.depth, ScanRestore(Last(env.scans)))

LeaveScans(loop, env) ==
  OptIns(Len(env.scans) > loop.depth, ScanRestore(env.scans[loop.depth + 1]))

Stuck(n, bounded) == When(~bounded, {Chunk(L(n, "resume"), <<SysErr>>)})

\* break [e]: e is evaluated as the loop's value, outside the loop and its scans.
Break(n, st, bounded, env) ==
  LET loop == Last(env.loops)
      outside == [scans |-> SubSeq(env.scans, 1, loop.depth), loops |-> Front(env.loops)]
      leave(resume) == <<Unmark(loop.mk), LeaveScans(loop, env),
                         OptIns(~loop.bounded, MoveLabel(loop.tl, resume))>>
      e == n.kids[1]
      expr == Traverse(e, loop.st, loop.target, bounded /\ loop.bounded, loop.rval, outside)
      out(x, stk) == {[loop |-> loop.at, kind |-> "break", st |-> x, stk |-> stk]}
  IN IF n.op = "Break"
     THEN [Result({Chunk(L(n, "start"), leave(<<loop.at, "failure">>) \o
                           <<Move(loop.target, KNull), Goto(<<loop.at, "success">>)>>)}
                    \cup Stuck(n, bounded), <<>>, st, FALSE)
           EXCEPT !.ex = out(NoSlots, FALSE)]
     ELSE [Result({Chunk(L(n, "start"), leave(L(e, "resume")) \o <<Goto(L(e, "start"))>>),
                   Jump(L(e, "success"), <<loop.at, "success">>),
                   Jump(L(e, "failure"), <<loop.at, "failure">>)}
                    \cup Stuck(n, bounded), <<expr>>, st, FALSE)
           EXCEPT !.ex = @ \cup out(expr.st, expr.stk)]

Next_(n, st, bounded, env) ==
  LET loop == Last(env.loops)
  IN IF loop.nextFails
     THEN Result({Jump(L(n, "start"), L(n, "failure"))} \cup Stuck(n, bounded), <<>>, st, FALSE)
     ELSE [Result({Chunk(L(n, "start"), <<LeaveScans(loop, env), Goto(<<loop.at, "next">>)>>)}
                    \cup Stuck(n, bounded), <<>>, st, FALSE)
           EXCEPT !.ex = {[loop |-> loop.at, kind |-> "next", st |-> NoSlots, stk |-> FALSE]}]

\* suspend without an expression: goes on at failure when resumed. (Its resume
\* chunk, which is never executed, takes the chunk failure for a label slot.)
SuspendNull(n, st, bounded, env) ==
  LET swap == OptIns(env.scans # <<>>, ScanSwap(Head(env.scans)))
  IN Result({Chunk(L(n, "start"), <<swap, Suspend(KNull), swap, Goto(L(n, "failure"))>>)}
              \cup When(~bounded, {Chunk(L(n, "resume"), <<IGoto(<<-1, L(n, "failure")>>)>>)}),
            <<>>, st, FALSE)

\* return, return e, succeed e and fail: the outermost scan is restored first.
Leave(n, st, bounded, env) ==
  LET restore == OptIns(env.scans # <<>>, ScanRestore(Head(env.scans)))
      by(ins) == <<restore, ins>>
      e == n.kids[1]
      v == IF n.op = "Returnexpr" THEN GetVar(e, st) ELSE [v |-> NoVar, st |-> st]
      expr == Traverse(e, v.st, v.v, TRUE, FALSE, env)
  IN CASE n.op = "Return" ->
            Result({Chunk(L(n, "start"), by(Return(KNull)))} \cup Stuck(n, bounded),
                   <<>>, st, FALSE)
       [] n.op = "Fail" ->
            Result({Chunk(L(n, "start"), by(FailProc))} \cup Stuck(n, bounded), <<>>, st, FALSE)
       [] OTHER ->
            Result({Jump(L(n, "start"), L(e, "start")),
                    Chunk(L(e, "success"), by(Return(IF n.op = "Returnexpr" THEN v.v ELSE KNull))),
                    Chunk(L(e, "failure"), by(FailProc))} \cup Stuck(n, bounded),
                   <<expr>>, st, FALSE)

Traverse(n, st, target, bounded, rval, env) ==
  CASE n.op \in {"Const", "Local", "Global", "Null", "Empty"} -> Leaf(n, st, target, bounded)
    [] n.op \in Keywords -> Keyword(n, st, target, bounded)
    [] n.op \in {"Scan", "Augscan"} -> Scanning(n, st, target, bounded, rval, env)
    [] n.op \in {"Asgn", "Aug"} /\ IsAssignableVar(n.kids[1]) ->
         AssignToVariable(n, st, target, bounded, rval, env)
    [] n.op = "Augapply" -> AugApply(n, st, target, bounded, rval, env)
    [] n.op = "Slist" -> Slist(n, st, target, bounded, rval, env)
    [] n.op = "Alt" -> Alternation(n, st, target, bounded, rval, env)
    [] n.op \in {"If", "Ifelse"} -> Conditional(n, st, target, bounded, rval, env)
    [] n.op \in {"Case", "Casedef"} /\ UseTCase(n) -> TableCase(n, st, target, bounded, rval, env)
    [] n.op \in {"Case", "Casedef"} -> Case(n, st, target, bounded, rval, env)
    [] n.op = "Rptalt" -> RepeatedAlternation(n, st, target, bounded, rval, env)
    [] n.op = "Not" -> Not(n, st, target, bounded, env)
    [] n.op = "Limit" ->
         IF n.kids[1].op = "Const" /\ n.kids[1].val = Num(1)
         THEN LimitOne(n, st, target, bounded, rval, env)
         ELSE Limitation(n, st, target, bounded, rval, env)
    [] n.op \in {"Every", "Everydo", "Suspendexpr", "Suspenddo"} ->
         GeneratorLoop(n, st, target, bounded, rval, env)
    [] n.op \in {"While", "Whiledo", "Repeat"} ->
         ConditionLoop(n, st, target, bounded, rval, env)
    [] n.op \in {"Break", "Breakexpr"} -> Break(n, st, bounded, env)
    [] n.op = "Next" -> Next_(n, st, bounded, env)
    [] n.op = "Suspend" -> SuspendNull(n, st, bounded, env)
    [] n.op \in {"Return", "Returnexpr", "Succeedexpr", "Fail"} -> Leave(n, st, bounded, env)
    [] OTHER -> Strict(n, st, target, bounded, rval, env)

\* generate_ir: the body is a bounded expression; whether it succeeds or fails,
\* the procedure then fails.
Entry == <<<<>>, "entry">>
End == <<<<>>, "end">>

CodeOf(chunks) == [l \in {c[1] : c \in chunks} |-> (CHOOSE c \in chunks : c[1] = l)[2]]

Generate(body) ==
  CodeOf(Traverse(body, NoSlots, NoVar, TRUE, TRUE, [scans |-> <<>>, loops |-> <<>>]).code
           \cup {Jump(Entry, L(body, "start")), Jump(L(body, "success"), End),
                 Jump(L(body, "failure"), End), Chunk(End, <<FailProc>>)})
=============================================================================
