-------------------------------- MODULE IrFold --------------------------------
(***************************************************************************)
(* Constant folding (oit/optimize.c): the tree of an expression with every *)
(* operation on literals replaced by its result, an operation one of whose *)
(* literal operands is &fail replaced by &fail, and control structures     *)
(* with a literal condition by what is left of them. It is done before     *)
(* IrGen generates code. It also decides which cases become tables.        *)
(*                                                                         *)
(* Children are folded first, and a node only looks at what they have      *)
(* become. A failure is passed on only when nothing is evaluated before it *)
(* but literals, so that no effect is lost.                                *)
(***************************************************************************)
EXTENDS IrGen

CONSTANT MaxWord   \* integers outside -MaxWord-1..MaxWord are left to run time

(***************************************************************************)
(* Literals: struct literal, get_literal, replace_node.                    *)
(***************************************************************************)
IsLiteral(n) == n.op \in {"Const", "Null", "KFail"}
LiteralValue(n) == IF n.op = "Null" THEN Null ELSE n.val
IsFail(n) == n.op = "KFail"

KFail == Node("KFail", 0, <<>>)
KNullNode == Node("Null", 0, <<>>)
Literal(v) == Node("Const", v, <<>>)

\* cnv_string, cnv_cset.
IsText(v) == v # Null

\* cnv_eint, cnv_int, numeric_via_string.
InWord(k) == k \in (-MaxWord - 1)..MaxWord
IsNumeral(q) == LET digits == IF q # <<>> /\ q[1] = -1 THEN Tail(q) ELSE q
                IN digits # <<>> /\ \A i \in DOMAIN digits : digits[i] >= 0
IsInteger(v) == v[1] = "int" \/ (IsText(v) /\ IsNumeral(Chars(v)) /\ InWord(NumberOf(Chars(v))))

\* Mistake: a failing operand is passed on whatever is evaluated before it.
FailsAt_Anywhere(kids) == \E i \in DOMAIN kids : IsFail(kids[i])

\* The operands are looked at in order, up to the first that is not a literal.
FailsAt(kids) ==
  \E i \in DOMAIN kids : IsFail(kids[i]) /\ \A j \in 1..(i - 1) : IsLiteral(kids[j])

(***************************************************************************)
(* Operations on two or three literals.                                    *)
(***************************************************************************)
\* The orders of the operands with which each comparison succeeds: -1 for less,
\* 0 for equal, 1 for greater.
Orders ==
  [Numlt |-> {-1}, Numle |-> {-1, 0}, Numeq |-> {0}, Numge |-> {0, 1}, Numgt |-> {1},
   Numne |-> {-1, 1},
   Lexlt |-> {-1}, Lexle |-> {-1, 0}, Lexeq |-> {0}, Lexge |-> {0, 1}, Lexgt |-> {1},
   Lexne |-> {-1, 1}]

Order(x, y) == IF x < y THEN -1 ELSE IF x = y THEN 0 ELSE 1

\* lexcmp: the first characters that differ, else the lengths, decide.
LexCmp(q, r) ==
  LET min == IF Len(q) < Len(r) THEN Len(q) ELSE Len(r)
      differ == {i \in 1..min : q[i] # r[i]}
      first == CHOOSE i \in differ : \A j \in differ : i <= j
  IN IF differ = {} THEN Order(Len(q), Len(r)) ELSE Order(q[first], r[first])

Compared(op, order, v) == IF order \in Orders[op] THEN Literal(v) ELSE KFail

\* fold_plus, ... fold_mod: not folded when div3 or mod3 has no result, or when it
\* is not a word.
FoldArithmetic(n, x, y) ==
  LET k == CASE n.op = "Plus" -> x + y [] n.op = "Minus" -> x - y [] n.op = "Mult" -> x * y
             [] n.op = "Div" -> Div3(x, y) [] n.op = "Mod" -> Mod3(x, y)
  IN IF n.op \in {"Div", "Mod"} /\ y = 0 THEN n ELSE IF InWord(k) THEN Literal(Num(k)) ELSE n

\* fold_subsc: one character of what is converted to a string.
FoldSubsc(n, a, b) ==
  LET i == CvPosItem[Numeric(b), Len(Chars(a))]
  IN IF ~IsInteger(b) \/ ~IsText(a) THEN n
     ELSE IF i = 0 THEN KFail ELSE Literal(Str(<<Chars(a)[i]>>))

FoldBinary(n, a, b) ==
  CASE n.op \in {"Plus", "Minus", "Mult", "Div", "Mod"} ->
         IF IsInteger(a) /\ IsInteger(b) THEN FoldArithmetic(n, Numeric(a), Numeric(b)) ELSE n
    [] n.op \in NumericComparison ->
         IF IsInteger(a) /\ IsInteger(b)
         THEN Compared(n.op, Order(Numeric(a), Numeric(b)), Num(Numeric(b))) ELSE n
    [] n.op \in StringComparison ->
         IF IsText(a) /\ IsText(b)
         THEN Compared(n.op, LexCmp(Chars(a), Chars(b)), Str(Chars(b))) ELSE n
    [] n.op = "Eqv" -> IF a = b THEN n.kids[2] ELSE KFail
    [] n.op = "Neqv" -> IF a = b THEN KFail ELSE n.kids[2]
    [] n.op = "Subsc" -> FoldSubsc(n, a, b)
    [] n.op = "To" -> n
    [] ~IsText(a) \/ ~IsText(b) -> n
    [] n.op = "Cat" -> Literal(Str(Chars(a) \o Chars(b)))
    [] n.op = "Union" -> Literal(Cset(CharSet(a) \cup CharSet(b)))
    [] n.op = "Inter" -> Literal(Cset(CharSet(a) \cap CharSet(b)))
    [] n.op = "Diff" -> Literal(Cset(CharSet(a) \ CharSet(b)))

\* fold_sect: x[i:j], x[i+:j] and x[i-:j].
FoldSect(n, a, b, c) ==
  LET i == Numeric(b)
      j == CASE n.op = "Sect" -> Numeric(c) [] n.op = "Sectp" -> i + Numeric(c)
             [] n.op = "Sectm" -> i - Numeric(c)
      s == CvSlice[i, j, Len(Chars(a))]
  IN IF ~IsInteger(b) \/ ~IsInteger(c) \/ ~IsText(a) THEN n
     ELSE IF s.ok THEN Literal(Str(SubSeq(Chars(a), s.from, s.to - 1))) ELSE KFail

\* fold_neg, fold_number, fold_size, fold_value.
FoldMonadic(n, a) ==
  CASE n.op = "Neg" -> IF IsInteger(a) /\ InWord(-Numeric(a)) THEN Literal(Num(-Numeric(a))) ELSE n
    [] n.op = "Number" -> IF IsInteger(a) THEN Literal(Num(Numeric(a))) ELSE n
    [] n.op = "Size" -> IF IsText(a) THEN Literal(Num(Len(Chars(a)))) ELSE n
    [] n.op = "Value" -> n.kids[1]

FoldOperation(n) ==
  LET v(i) == LiteralValue(n.kids[i])
      m == Len(n.kids)
  IN IF FailsAt(n.kids) THEN KFail
     ELSE IF \E i \in DOMAIN n.kids : ~IsLiteral(n.kids[i]) THEN n
     ELSE CASE n.op \in Monadic -> FoldMonadic(n, v(1))
            [] n.op \in Sections -> FoldSect(n, v(1), v(2), v(3))
            [] n.op \in {"Toby", "List", "Mutual", "Select", "Invoke", "Apply"} -> n
            [] OTHER -> FoldBinary(n, v(1), v(2))

(***************************************************************************)
(* Control structures.                                                     *)
(***************************************************************************)
\* fold_simple1, fold_simple2: only a first operand that fails is of use.
FirstOnly == {"Every", "Suspendexpr", "While", "Bang", "Tabmat", "Rptalt",
              "Everydo", "Suspenddo", "Whiledo", "Scan"}

\* fold_limit: a limit of nothing fails; a literal gives no second result.
FoldLimit(n) ==
  LET lim == n.kids[1]
      k == Numeric(LiteralValue(lim))
  IN CASE ~IsLiteral(lim) -> n
       [] IsFail(lim) -> KFail
       [] ~IsInteger(LiteralValue(lim)) -> n
       [] k = 0 -> KFail
       [] k > 0 /\ IsLiteral(n.kids[2]) -> n.kids[2]
       [] OTHER -> n

\* fold_if, fold_ifelse, fold_not, fold_null, fold_nonnull. The condition is c.
FoldTest(n) ==
  LET c == n.kids[1]
  IN CASE ~IsLiteral(c) -> n
       [] n.op = "If" -> IF IsFail(c) THEN KFail ELSE n.kids[2]
       [] n.op = "Ifelse" -> IF IsFail(c) THEN n.kids[3] ELSE n.kids[2]
       [] n.op = "Not" -> IF IsFail(c) THEN KNullNode ELSE KFail
       [] n.op = "IsNull" -> IF c.op = "Null" THEN c ELSE KFail
       [] n.op = "Nonnull" -> IF c.op = "Null" THEN KFail ELSE c

\* fold_alt: e | more, where more may itself be an alternation.
FoldAlt(e, more) ==
  IF IsFail(e) THEN more
  ELSE IF IsLiteral(e) /\ IsFail(more) THEN e
  ELSE Node("Alt", 0, <<e>> \o (IF more.op = "Alt" THEN more.kids ELSE <<more>>))

RECURSIVE FoldAlts(_)
FoldAlts(kids) ==
  IF Len(kids) = 1 THEN kids[1] ELSE FoldAlt(kids[1], FoldAlts(Tail(kids)))

\* fold_conj
FoldConj(n) ==
  IF FailsAt(n.kids) THEN KFail
  ELSE IF \A i \in DOMAIN n.kids : IsLiteral(n.kids[i]) THEN LastKid(n) ELSE n

\* is_repeatable: the expression always gives the same results and has no effect.
RECURSIVE Repeatable(_)
Repeatable(n) ==
  \/ n.op \in {"Const", "Null", "Empty", "KFail"}
  \/ n.op = "Global" /\ n.val \in Procedures
  \/ /\ n.op \in {"Mutual", "Slist", "List", "Tabmat", "Not", "Nonnull", "IsNull", "Bang",
                  "To", "Toby", "Limit", "If", "Ifelse", "Conj", "Scan", "Alt", "Subsc"}
                 \cup Monadic \cup Arithmetic \cup Comparison \cup Sections
     /\ \A i \in DOMAIN n.kids : Repeatable(n.kids[i])

\* fold_case: the clause of a selector that fails is not needed.
FoldCase(n) ==
  LET last == IF n.op = "Casedef" THEN Len(n.kids) - 1 ELSE Len(n.kids)
      isSelector(i) == i \in 2..last /\ i % 2 = 0
      use_tcase == \A i \in DOMAIN n.kids : isSelector(i) => Repeatable(n.kids[i])
      kid(i) == IF i > 2 /\ isSelector(i - 1) /\ IsFail(n.kids[i - 1]) THEN KFail ELSE n.kids[i]
  IN IF IsFail(n.kids[1]) THEN KFail
     ELSE [n EXCEPT !.val = IF use_tcase THEN 1 ELSE 0, !.kids = [i \in DOMAIN @ |-> kid(i)]]

\* fold_return: there is nothing to return.
FoldReturn(n) == IF IsFail(n.kids[1]) THEN Node("Fail", 0, <<>>) ELSE n

(***************************************************************************)
(* fold_consts, which visits a node after its children.                    *)
(***************************************************************************)
FoldNode(n) ==
  CASE n.op \in FirstOnly -> IF IsFail(n.kids[1]) THEN KFail ELSE n
    [] n.op = "Limit" -> FoldLimit(n)
    [] n.op \in {"If", "Ifelse", "Not", "IsNull", "Nonnull"} -> FoldTest(n)
    [] n.op = "Alt" -> FoldAlts(n.kids)
    [] n.op = "Conj" -> FoldConj(n)
    [] n.op \in {"Case", "Casedef"} -> FoldCase(n)
    [] n.op \in {"Returnexpr", "Succeedexpr"} -> FoldReturn(n)
    [] n.op = "KNo" -> KNullNode
    [] n.op = "KDigits" -> Literal(Cset(0..9))
    [] n.op \in {"Subsc", "To", "Toby", "List", "Mutual", "Select", "Invoke", "Apply"}
                  \cup Monadic \cup Arithmetic \cup Comparison \cup Sections -> FoldOperation(n)
    [] OTHER -> n

RECURSIVE Fold(_)
Fold(n) == FoldNode([n EXCEPT !.kids = [i \in DOMAIN @ |-> Fold(@[i])]])
=============================================================================
