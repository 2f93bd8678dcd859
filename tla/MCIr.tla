-------------------------------- MODULE MCIr --------------------------------
(***************************************************************************)
(* Programs for IrMachine: every filler put in every middle, and that in   *)
(* one or two of the statements; operations on literals; and cases.        *)
(***************************************************************************)
EXTENDS IrMachine

K(k) == Node("Const", Num(k), <<>>)
X == Node("Local", "x", <<>>)
Y == Node("Local", "y", <<>>)
I == Node("Local", "i", <<>>)
Q == Node("Local", "q", <<>>)
S == Node("Global", "s", <<>>)
N(op, kids) == Node(op, 0, kids)
Aug(op, x, e) == Node("Aug", op, <<x, e>>)
Call(p, args) == N("Invoke", <<Node("Global", p, <<>>)>> \o args)
Gen == Call("gen", <<>>)
Write(e) == Call("write", <<e>>)
Text(q) == Node("Const", Str(q), <<>>)
\* The place in a middle or a statement where another expression goes.
H == N("Hole", <<>>)
OneTwo == N("Alt", <<K(1), K(2)>>)
Bare == N("Suspend", <<>>)

\* if (i -:= 1) < 1 then break
CountDown == N("If", <<N("Numlt", <<Aug("Minus", I, K(1)), K(1)>>), N("Break", <<>>)>>)

RECURSIVE Fill(_, _)
Fill(c, e) ==
  IF c.op = "Hole" THEN e ELSE [c EXCEPT !.kids = [i \in DOMAIN @ |-> Fill(@[i], e)]]

Fillers == <<
  K(1), X, S, Gen, OneTwo,
  N("Alt", <<Gen, K(3), X>>),
  N("Asgn", <<X, Gen>>),
  N("Bang", <<S>>),
  N("Subsc", <<S, OneTwo>>),
  N("Asgn", <<N("Bang", <<S>>), Gen>>),
  N("Swap", <<X, Y>>),
  N("Rasgn", <<X, Gen>>),
  N("Rswap", <<X, Y>>),
  Aug("Plus", X, OneTwo),
  Aug("Numlt", Y, N("Alt", <<K(2), K(3), K(4)>>)),
  N("To", <<K(1), OneTwo>>),
  N("Numlt", <<OneTwo, Gen>>),
  N("Scan", <<S, N("Alt", <<N("Tabmat", <<Text(<<1>>)>>), N("KPos", <<>>)>>)>>),
  N("Conj", <<N("Asgn", <<N("KPos", <<>>), N("Alt", <<K(9), K(2)>>)>>), N("KSubject", <<>>)>>),
  N("Breakexpr", <<Gen>>),
  N("Conj", <<OneTwo, N("Break", <<>>)>>),
  N("Ifelse", <<N("Numgt", <<X, K(2)>>), N("Next", <<>>), Gen>>),
  N("Returnexpr", <<Gen>>),
  N("Suspendexpr", <<N("Alt", <<X, Gen>>)>>),
  N("Slist", <<N("Suspend", <<>>), Gen>>),
  N("KFail", <<>>),
  Call("bump", <<>>),
  N("Asgn", <<S, Text(<<5, 6>>)>>),
  N("Apply", <<Node("Global", "write", <<>>), N("List", <<X, Gen>>)>>),
  N("Slist", <<N("Asgn", <<Q, Node("Global", "gen", <<>>)>>), N("Augapply", <<Q, N("List", <<X>>)>>)>>),
  N("Augscan", <<S, N("Alt", <<N("Tabmat", <<Text(<<1, 2>>)>>), Text(<<1, 8>>)>>)>>),
  N("Augscan", <<N("Subsc", <<S, OneTwo>>), N("Plus", <<N("KPos", <<>>), OneTwo>>)>>),
  Aug("Lexne", N("Subsc", <<S, K(2)>>), OneTwo),
  N("Sectp", <<S, K(1), OneTwo>>),
  N("Swap", <<N("Subsc", <<S, OneTwo>>), N("Bang", <<S>>)>>),
  N("Value", <<N("Bang", <<S>>)>>)
>>

Middles == <<
  H,
  N("Plus", <<H, OneTwo>>),
  N("Plus", <<X, H>>),
  N("Numlt", <<OneTwo, H>>),
  N("Cat", <<N("Subsc", <<S, K(1)>>), H>>),
  N("Bang", <<N("List", <<N("Nonnull", <<N("Bang", <<S>>)>>), H>>)>>),
  N("To", <<K(1), N("Size", <<H>>)>>),
  N("Alt", <<H, Gen>>),
  N("Alt", <<Gen, H, K(4)>>),
  N("Conj", <<H, Gen>>),
  N("Conj", <<Gen, H>>),
  N("Conj", <<N("Not", <<H>>), K(5)>>),
  N("If", <<H, Gen>>),
  N("Ifelse", <<N("Numgt", <<Gen, K(1)>>), H, OneTwo>>),
  N("Ifelse", <<H, OneTwo, Gen>>),
  N("Slist", <<Gen, H>>),
  N("Slist", <<H, Gen>>),
  N("Case", <<H, OneTwo, Gen, K(3), OneTwo>>),
  N("Casedef", <<K(2), H, Gen, H>>),
  N("Limit", <<OneTwo, H>>),
  N("Limit", <<K(1), H>>),
  N("Limit", <<K(3), N("Rptalt", <<H>>)>>),
  N("Asgn", <<Y, H>>),
  N("Rasgn", <<Y, H>>),
  N("Asgn", <<N("Subsc", <<S, K(2)>>), N("Limit", <<K(1), N("Size", <<H>>)>>)>>),
  N("Subsc", <<Call("bump", <<>>), N("Slist", <<H, OneTwo>>)>>),
  N("Scan", <<S, H>>),
  N("Scan", <<Text(<<1, 2>>), N("Conj", <<N("Tabmat", <<Text(<<1>>)>>), N("Scan", <<N("Alt", <<S, K(21)>>), H>>)>>)>>),
  N("Every", <<H>>),
  N("Everydo", <<OneTwo, H>>),
  N("Suspenddo", <<H, Gen>>),
  N("Conj", <<K(6), N("Repeat", <<N("Slist", <<CountDown, H, N("Breakexpr", <<Gen>>)>>)>>)>>),
  N("Repeat", <<N("Scan", <<S, N("Breakexpr", <<N("Alt", <<H, K(7)>>)>>)>>)>>),
  N("Whiledo", <<N("Numgt", <<Aug("Minus", I, K(1)), K(0)>>), H>>),
  Node("Select", 1, <<H, Gen>>),
  Node("Select", 2, <<Gen, N("Subsc", <<S, K(1)>>), H>>),
  N("Bang", <<N("List", <<H, Gen>>)>>)
>>

Statements_ == <<
  N("Every", <<Write(H)>>),
  N("Everydo", <<Gen, Write(H)>>),
  N("Slist", <<N("Whiledo", <<N("Numgt", <<Aug("Minus", I, K(1)), K(0)>>), N("Suspendexpr", <<H>>)>>), Write(X)>>),
  N("Every", <<N("Conj", <<N("Scan", <<Text(<<2, 1>>), H>>), Write(N("KPos", <<>>))>>)>>),
  N("Slist", <<N("Everydo", <<OneTwo, N("List", <<H, Gen>>)>>), N("Returnexpr", <<N("Asgn", <<X, Gen>>)>>)>>)
>>

Within(s, e) == Fill(Statements_[(s % Len(Statements_)) + 1], e)

\* Half of the pairs of a middle and a filler, each in one of the statements.
ShallowCount == (Len(Fillers) \div 2) * Len(Middles)
Shallow(p) ==
  LET half == Len(Fillers) \div 2
      middle == (p - 1) \div half + 1
      filler == 2 * ((p - 1) % half) + 1 + (middle % 2)
  IN Within(middle + filler \div 2, Fill(Middles[middle], Fillers[filler]))

\* Each middle in four others, with a filler.
DeepCount == 4 * Len(Middles)
Deep(p) ==
  LET outer == (p - 1) \div 4 + 1
      inner == ((outer + 7 * p) % Len(Middles)) + 1
      filler == ((3 * outer + p) % Len(Fillers)) + 1
  IN Within(p, Fill(Middles[outer], Fill(Middles[inner], Fillers[filler])))

(***************************************************************************)
(* Programs with literals, for constant folding.                           *)
(***************************************************************************)
CsetOf(C) == Node("Const", Cset(C), <<>>)
KNo == N("KNo", <<>>)
Minus(k) == N("Neg", <<K(k)>>)
Op2(op, e, f) == N(op, <<e, f>>)
Writes(es) == N("Slist", [i \in DOMAIN es |-> Write(es[i])])
WriteAll(e) == N("Every", <<Write(e)>>)

\* Operands around every boundary: signs, equality, a numeral, the largest word.
NumberPairs == <<
  <<K(3), K(2)>>, <<Minus(3), K(2)>>, <<K(3), Minus(2)>>, <<Minus(3), Minus(2)>>,
  <<Text(<<1, 2>>), K(12)>>, <<K(99), K(1)>>, <<Minus(99), K(2)>>, <<K(5), Text(<<-1, 5>>)>>
>>
TextPairs == <<
  <<Text(<<1, 2>>), Text(<<2>>)>>, <<Text(<<1>>), Text(<<1, 2>>)>>, <<K(12), Text(<<1, 2>>)>>,
  <<Minus(1), K(0)>>, <<Text(<<>>), K(0)>>, <<CsetOf({1, 3}), Text(<<1, 3, 2>>)>>
>>
CsetPairs == <<
  <<CsetOf({1, 3}), K(34)>>, <<N("KDigits", <<>>), CsetOf({5})>>, <<Text(<<2, 2>>), K(22)>>
>>
AnyPairs == <<
  <<K(1), Text(<<1>>)>>, <<N("Null", <<>>), KNo>>, <<KNo, K(0)>>, <<K(7), Op2("Plus", K(3), K(4))>>
>>
Positions == <<
  <<Text(<<1, 2, 3>>), K(1)>>, <<Text(<<1, 2, 3>>), K(0)>>, <<Text(<<1, 2, 3>>), Minus(1)>>,
  <<Text(<<1, 2, 3>>), K(4)>>, <<K(123), Minus(3)>>, <<Text(<<1, 2, 3>>), Minus(4)>>
>>
Ranges == <<
  <<K(0), K(2)>>, <<K(2), K(0)>>, <<K(1), K(9)>>, <<K(3), Minus(2)>>, <<K(4), K(4)>>, <<Minus(3), K(2)>>
>>

OperandsOf(op) ==
  CASE op \in {"Plus", "Minus", "Mult", "Div", "Mod"} \cup NumericComparison -> NumberPairs
    [] op \in {"Union", "Inter", "Diff"} -> CsetPairs
    [] op \in {"Eqv", "Neqv"} -> AnyPairs
    [] op = "Subsc" -> Positions
    [] op \in Sections -> [i \in DOMAIN Ranges |-> <<Text(<<1, 2, 3>>)>> \o Ranges[i]]
    [] op \in StringComparison \cup {"Cat"} -> TextPairs

Folded2 == <<
  "Plus", "Minus", "Mult", "Div", "Mod", "Cat", "Union", "Inter", "Diff", "Eqv", "Neqv",
  "Numlt", "Numle", "Numeq", "Numge", "Numgt", "Numne",
  "Lexlt", "Lexle", "Lexeq", "Lexge", "Lexgt", "Lexne", "Subsc", "Sect", "Sectp", "Sectm"
>>
LiteralPrograms == [i \in DOMAIN Folded2 |->
  Writes([j \in DOMAIN OperandsOf(Folded2[i]) |-> N(Folded2[i], OperandsOf(Folded2[i])[j])])]

OneLiteral == <<
  Writes(<<N("Neg", <<Text(<<9, 9>>)>>), N("Neg", <<N("Neg", <<K(7)>>)>>), N("Number", <<Text(<<-1, 4>>)>>),
           N("Size", <<K(123)>>), N("Size", <<CsetOf({4, 5})>>), N("Value", <<K(8)>>),
           N("Size", <<N("KDigits", <<>>)>>), N("Neg", <<Op2("Minus", Minus(99), K(1))>>)>>),
  Writes(<<Op2("Plus", Op2("Mult", K(9), K(9)), Op2("Minus", K(20), K(1))),
           Op2("Numlt", K(1), Op2("Numlt", K(2), K(3))), Op2("Numlt", K(1), Op2("Numgt", K(2), K(3))),
           Op2("Plus", X, Op2("Plus", K(2), K(3))), N("Mutual", <<K(1), K(2)>>)>>),
  Writes(<<N("Ifelse", <<N("KFail", <<>>), Op2("Plus", N("Null", <<>>), K(1)), K(3)>>),
           N("If", <<N("Not", <<Op2("Numgt", K(1), K(2))>>), K(4)>>), N("Nonnull", <<KNo>>),
           N("IsNull", <<KNo>>), N("IsNull", <<K(1)>>), N("Nonnull", <<K(1)>>)>>)
>>

\* Control structures and operations one of whose operands fails, before or after
\* something that has an effect. A limit that never succeeds is given nothing
\* that generates: that is for LimitPrograms.
KF == N("KFail", <<>>)
Failing == <<
  N("Limit", <<K(0), Gen>>), N("Limit", <<K(2), K(7)>>), N("Limit", <<Text(<<0>>), Gen>>),
  N("Limit", <<KF, X>>), N("Limit", <<Gen, KF>>), N("Limit", <<K(1), Gen>>),
  N("Alt", <<KF, Gen>>), N("Alt", <<Gen, KF>>), N("Alt", <<K(1), KF, K(2)>>), N("Alt", <<K(1), KF>>),
  N("Alt", <<Gen, KF, K(2), KF>>), N("Alt", <<KF, KF>>),
  N("Conj", <<KF, Gen>>), N("Conj", <<Gen, KF>>), N("Conj", <<K(1), KF, Gen>>), N("Conj", <<K(1), K(2)>>),
  N("Conj", <<X, KF>>), N("Mutual", <<Gen, KF>>), N("Mutual", <<K(1), KF>>),
  N("Not", <<KF>>), N("Not", <<N("Conj", <<Gen, KF>>)>>), N("Not", <<K(1)>>),
  N("If", <<KF, Gen>>), N("If", <<K(0), Gen>>), N("If", <<Gen, KF>>),
  N("Ifelse", <<KF, K(1), Gen>>), N("Ifelse", <<N("IsNull", <<KNo>>), Gen, K(2)>>),
  N("IsNull", <<KF>>), N("Nonnull", <<KF>>), N("Every", <<KF>>), N("Everydo", <<KF, Gen>>),
  N("Everydo", <<Gen, KF>>), N("While", <<KF>>), N("Whiledo", <<KF, Gen>>),
  N("Bang", <<KF>>), N("Tabmat", <<KF>>), N("Rptalt", <<KF>>), N("Suspendexpr", <<KF>>),
  N("Scan", <<KF, Gen>>), N("Scan", <<Gen, KF>>), N("Returnexpr", <<KF>>),
  N("Returnexpr", <<N("Conj", <<Gen, KF>>)>>), N("Succeedexpr", <<KF>>),
  N("To", <<KF, Gen>>), N("To", <<Gen, KF>>), N("Toby", <<K(1), KF, Gen>>), N("Toby", <<K(1), K(5), K(2)>>),
  N("List", <<Gen, KF>>), N("List", <<K(1), KF>>), Node("Select", 1, <<K(1), KF>>),
  Node("Select", 2, <<Gen, KF>>), Call("write", <<KF>>), Call("write", <<Gen, KF>>),
  N("Apply", <<Node("Global", "write", <<>>), KF>>), Op2("Plus", Gen, KF), Op2("Plus", K(1), KF),
  Op2("Plus", KF, Gen), Op2("Subsc", S, KF), Op2("Subsc", Text(<<1>>), KF), Op2("Cat", X, KF),
  N("Sect", <<Text(<<1>>), K(1), KF>>), N("Sect", <<Text(<<1>>), Gen, KF>>),
  N("Slist", <<Gen, KF>>), N("Case", <<KF, K(1), Gen>>), N("Case", <<Gen, KF, K(1), K(1), K(2)>>),
  N("Augapply", <<Q, KF>>), N("Asgn", <<X, KF>>), Aug("Plus", X, KF)
>>

FailingStatements == <<
  WriteAll(H),
  WriteAll(N("Ifelse", <<H, K(8), K(9)>>)),
  N("Slist", <<Write(H), WriteAll(N("List", <<Gen, N("Alt", <<H, K(4)>>)>>))>>)
>>
FailingPrograms == [i \in 1..(Len(Failing) * Len(FailingStatements)) |->
  Fill(FailingStatements[(i % Len(FailingStatements)) + 1], Failing[((i - 1) \div Len(FailingStatements)) + 1])]

(***************************************************************************)
(* Cases, each chosen from again and again.                                *)
(***************************************************************************)
Among(k) == N("To", <<K(1), K(k)>>)
Chosen(kids) == N("Case", <<I>> \o kids)
ChosenOr(kids) == N("Casedef", <<I>> \o kids)
Cases == <<
  Chosen(<<K(1), Gen, K(2), K(7), K(1), K(8)>>),
  ChosenOr(<<KF, K(5), K(2), Gen, Gen>>),
  N("Casedef", <<I, Gen>>),
  Chosen(<<Among(2), Gen, N("Bang", <<K(1234)>>), K(7), Among(4), K(8)>>),
  ChosenOr(<<N("Limit", <<K(2), Among(4)>>), K(6), N("Conj", <<K(9), Op2("Plus", K(1), Among(3))>>), Gen, OneTwo>>),
  Chosen(<<N("Size", <<N("Scan", <<Text(<<1, 2>>), N("Tabmat", <<Text(<<1>>)>>)>>)>>), Gen,
           N("Not", <<K(1)>>), K(5), N("Ifelse", <<Op2("Numlt", K(1), K(2)), K(3), K(4)>>), OneTwo>>),
  Chosen(<<X, N("Asgn", <<X, Y>>), Y, N("Asgn", <<Y, K(4)>>)>>),
  Chosen(<<K(1), ChosenOr(<<K(2), K(5), N("Asgn", <<X, I>>)>>), Among(3), Write(K(5))>>),
  N("Casedef", <<Gen, K(1), OneTwo, K(2), K(9), I>>),
  N("Casedef", <<Op2("Plus", I, N("Plus", <<X, K(0)>>)), K(4), Op2("Plus", Gen, X), Among(9), Gen, K(0)>>),
  N("Case", <<Q, N("Alt", <<Node("Global", "gen", <<>>), Node("Global", "write", <<>>)>>), K(3),
              N("Null", <<>>), OneTwo>>),
  Chosen(<<N("Conj", <<N("Asgn", <<X, K(9)>>), K(2)>>), K(4), Gen, X>>),
  Chosen(<<N("Subsc", <<Text(<<3, 4>>), K(1)>>), K(1), Op2("Plus", N("Subsc", <<Text(<<3, 4>>), K(1)>>), K(0)), Gen>>)
>>
ChoosingStatements == <<
  N("Everydo", <<N("Asgn", <<I, Among(4)>>), WriteAll(H)>>),
  N("Everydo", <<N("Asgn", <<I, Among(3)>>), Write(Op2("Plus", X, H))>>),
  N("Slist", <<N("Everydo", <<Op2("Plus", Aug("Minus", I, K(1)), OneTwo), N("Suspendexpr", <<H>>)>>),
               N("Everydo", <<Among(3), H>>), Write(X)>>)
>>
CasePrograms == [i \in 1..(Len(Cases) * Len(ChoosingStatements)) |->
  Fill(ChoosingStatements[(i % Len(ChoosingStatements)) + 1], Cases[((i - 1) \div Len(ChoosingStatements)) + 1])]

(***************************************************************************)
(* Selections that select none of their operands: all of these are         *)
(* resumed, and nothing comes of it. Bounded, only with a list at the end. *)
(***************************************************************************)
NoneOf(kids) == Node("Select", Len(kids) + 1, kids)
Selections == <<
  NoneOf(<<Gen, OneTwo>>), Node("Select", 0, <<Gen, Write(X)>>),
  NoneOf(<<Gen, N("Asgn", <<X, OneTwo>>), Call("bump", <<>>)>>),
  N("Alt", <<NoneOf(<<OneTwo, Gen>>), K(4)>>),
  NoneOf(<<Gen, NoneOf(<<OneTwo, Write(K(5))>>)>>)
>>
SelectingPrograms ==
  [i \in DOMAIN Selections |-> N("Slist", <<WriteAll(Selections[i]), Write(X)>>)]
  \o <<N("Slist", <<NoneOf(<<Gen, N("List", <<OneTwo, Gen>>)>>), Write(X)>>),
       WriteAll(N("Ifelse", <<NoneOf(<<OneTwo, N("List", <<Gen>>)>>), K(8), K(9)>>))>>

\* A bare suspend that is not bounded, but that no label says to resume.
SuspendingPrograms == <<
  WriteAll(N("Conj", <<Gen, N("If", <<X, Bare>>)>>)),
  WriteAll(N("Scan", <<S, N("Plus", <<OneTwo, Bare>>)>>)),
  WriteAll(N("List", <<N("Slist", <<Gen, Bare>>), OneTwo>>))
>>

(***************************************************************************)
(* Programs the parser accepts and the translator does not make sense of.  *)
(***************************************************************************)
\* 3(write(1), write(2)) as a statement and as a condition.
SelectionPrograms == <<
  N("Slist", <<NoneOf(<<Write(K(1)), Write(K(2))>>), Write(X)>>),
  Write(N("Ifelse", <<NoneOf(<<Gen, Write(X)>>), K(8), K(9)>>))
>>

\* Limits of a generator by a count that always fails, to be resumed.
LimitPrograms == <<
  WriteAll(N("Alt", <<N("Limit", <<N("Conj", <<Gen, KF>>), Gen>>), K(4)>>)),
  WriteAll(N("Alt", <<N("Limit", <<KF, Gen>>), Gen>>))
>>

\* write(if x then suspend else 1); a bare suspend in a case and in an alternation.
SuspendPrograms == <<
  Write(N("Ifelse", <<X, Bare, K(1)>>)),
  WriteAll(N("Casedef", <<X, K(3), Bare, OneTwo>>)),
  WriteAll(N("Alt", <<Bare, Gen>>))
>>

SoundPrograms ==
  [p \in 1..(ShallowCount + DeepCount) |->
     IF p <= ShallowCount THEN Shallow(p) ELSE Deep(p - ShallowCount)]
  \o LiteralPrograms \o OneLiteral \o FailingPrograms \o CasePrograms
  \o SelectingPrograms \o SuspendingPrograms
RefusedPrograms == SelectionPrograms \o LimitPrograms

MCPrograms == SoundPrograms \o RefusedPrograms \o SuspendPrograms

MCRefused == {Len(SoundPrograms) + i : i \in DOMAIN RefusedPrograms}
MCMisnumbered == {Len(SoundPrograms) + Len(RefusedPrograms) + i : i \in DOMAIN SuspendPrograms}

MCStore == [x |-> Num(3), y |-> Num(1), i |-> Num(3), q |-> Null, s |-> Str(<<1, 2>>)]
=============================================================================
