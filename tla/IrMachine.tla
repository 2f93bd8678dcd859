------------------------------ MODULE IrMachine ------------------------------
(***************************************************************************)
(* The interpreter (oix/interp.r, oix/invoke.r) running the intermediate   *)
(* code of one procedure, as generated, or optimised, on a stack of        *)
(* generator frames. One action is one instruction.                        *)
(*                                                                         *)
(* A slot of the procedure frame (tmp, lab, mark, clo) holds what was      *)
(* written to it last and, for the properties only, which allocation of    *)
(* the slot wrote it. An instruction that would read what another          *)
(* allocation wrote, or that needs a frame no longer on the stack, is not  *)
(* taken: in the source it would use a wrong value or freed memory. The    *)
(* properties say that no program comes to such an instruction.            *)
(***************************************************************************)
EXTENDS IrOpt, IrFold, IconEval

CONSTANTS Programs,    \* a sequence of procedure bodies (trees of Node)
          Store,       \* the values the variables start with
          MaxSteps,    \* instructions in a run, which no program should come near
          Refused,     \* the programs, by number, at which the translator stops
          Misnumbered  \* those left with a chunk number for a label slot

Modes == {"generated", "optimized", "adjacent", "folded"}

World == [store |-> Store, scan |-> <<[subj |-> <<1, 2, 3>>, pos |-> 1]>>, log |-> <<>>,
          cells |-> <<>>]

\* The tree of program p, as it is and folded, and its code in one of the modes.
\* What the code generator makes is always optimised: if that fails there is no code.
Body(p) == Placed(Programs[p], <<>>)
FoldedBody(p) == Placed(Fold(Programs[p]), <<>>)
Compiled(p, m) ==
  LET body == IF m = "folded" THEN FoldedBody(p) ELSE Body(p)
  IN IF m = "generated" THEN [code |-> Generate(body), quit |-> Optimize(Generate(body), FALSE).quit]
     ELSE Optimize(Generate(body), m # "optimized")

VARIABLES prog,      \* the program that runs, and in which form
          mode,
          code,      \* its chunks
          pc,        \* the next instruction: its chunk and place there
          tables,    \* the tables of cases entered so far, by the place of the case
          slots,     \* curr_pf: tmp, lab, mark, clo
          stack,     \* the frames below k_current->sp, the newest last
          serial,    \* frames pushed so far: each has its own number
          w,         \* the world
          status,    \* "run", "done", or "refused" by the translator
          steps,     \* instructions executed
          meant      \* for the properties: the world the program should end in
vars == <<prog, mode, code, pc, tables, slots, stack, serial, w, status, steps, meant>>

Ins == code[pc[1]][pc[2]]

(***************************************************************************)
(* Slots and operands.                                                     *)
(***************************************************************************)
Holds(kind, no, id) == no \in DOMAIN slots[kind] /\ slots[kind][no].id = id

\* The temporaries, labels, marks and closures an instruction reads.
ReadsTmp(ins) ==
  {ins.args[k] : k \in DOMAIN ins.args}
    \ (IF ins.i = "ScanSave" THEN {ins.args[2], ins.args[3]} ELSE {})

Stale(ins) ==
  \/ \E v \in ReadsTmp(ins) : IsTmp(v) /\ ~Holds("tmp", v[2], v[3])
  \/ ins.i = "IGoto" /\ ~Holds("lab", ins.tl[1], ins.tl[2])
  \/ ins.i = "Unmark" /\ ~Holds("mark", ins.mk[1], ins.mk[2])
  \/ ins.i = "Resume" /\ ~Holds("clo", ins.clo[1], ins.clo[2])

Value(v) ==
  CASE v[1] = "Tmp" -> slots.tmp[v[2]].v
    [] v[1] = "const" -> v[2]
    [] v[1] = "null" -> Null
    [] v[1] = "Global" /\ v[2] \in Procedures -> Proc(v[2])
    [] OTHER -> Ref(v[2])

Operands == [k \in DOMAIN Ins.args |-> Value(Ins.args[k])]

PutSlot(kind, no, id, v) ==
  [slots EXCEPT ![kind] = (no :> [id |-> id, v |-> v]) @@ @]

\* The slots and world after v has been put where dst says.
PutTo(dst, v, sl, w1) ==
  CASE dst[1] = "Tmp" -> [sl |-> [sl EXCEPT !.tmp = (dst[2] :> [id |-> dst[3], v |-> v]) @@ @],
                          w |-> w1]
    [] dst[1] \in {"Local", "Global"} -> [sl |-> sl, w |-> [w1 EXCEPT !.store[dst[2]] = v]]
    [] OTHER -> [sl |-> sl, w |-> w1]

(***************************************************************************)
(* The stack. A frame is the generator in it, where its results go, and    *)
(* where to go on when it fails.                                           *)
(***************************************************************************)
OnStack(ser) == \E i \in DOMAIN stack : stack[i].ser = ser
Depth(ser) == CHOOSE i \in DOMAIN stack : stack[i].ser = ser
NoFrame == 0
Top == IF stack = <<>> THEN NoFrame ELSE Last(stack).ser

Next1 == <<pc[1], pc[2] + 1>>
To(l) == <<l, 1>>

\* Mistake: pop_to takes the frame away that it should leave on top.
PopTo_Inclusive(s, i) == SubSeq(s, 1, i - 1)

\* pop_to: the i-th frame becomes the newest.
PopTo(s, i) == SubSeq(s, 1, i)

\* The generator of frame f, the i-th of stack s, gives a result or fails.
\* Frames it left above it go when it returns, it goes with them when it fails.
RunFrame(f, s, i, sl) ==
  \E step \in {GenStep(f.g, f.rval, w)} :
    LET put == PutTo(f.dst, step.v, sl, step.w)
        now(done) == [s EXCEPT ![i] = [f EXCEPT !.g = step.g, !.done = done]]
    IN IF step.r = "fail"
       THEN /\ stack' = PopTo(s, i - 1)
            /\ pc' = To(f.fail)
            /\ slots' = sl
            /\ w' = step.w
       ELSE /\ stack' = IF step.r = "ret" THEN PopTo(now(TRUE), i) ELSE now(FALSE)
            /\ pc' = Next1
            /\ slots' = put.sl
            /\ w' = put.w

(***************************************************************************)
(* The instructions.                                                       *)
(***************************************************************************)
At_(i) == status = "run" /\ steps < MaxSteps /\ Ins.i = i /\ ~Stale(Ins)
Closure == slots.clo[Ins.clo[1]].v
Marked == slots.mark[Ins.mk[1]].v
Counted == steps' = steps + 1 /\ UNCHANGED <<prog, mode, meant>>
Same == Counted /\ UNCHANGED <<code, tables>>

DoGoto == At_("Goto") /\ pc' = To(Ins.lab) /\ Same /\ UNCHANGED <<slots, stack, serial, w, status>>

DoIGoto ==
  /\ At_("IGoto")
  /\ pc' = To(slots.lab[Ins.tl[1]].v)
  /\ Same /\ UNCHANGED <<slots, stack, serial, w, status>>

DoMoveLabel ==
  /\ At_("MoveLabel")
  /\ slots' = PutSlot("lab", Ins.tl[1], Ins.tl[2], Ins.lab)
  /\ pc' = Next1
  /\ Same /\ UNCHANGED <<stack, serial, w, status>>

DoMark ==
  /\ At_("Mark")
  /\ slots' = PutSlot("mark", Ins.mk[1], Ins.mk[2], Top)
  /\ pc' = Next1
  /\ Same /\ UNCHANGED <<stack, serial, w, status>>

\* pop_to: it is a fatal error for the frame not to be there.
DoUnmark ==
  /\ At_("Unmark")
  /\ Marked = NoFrame \/ OnStack(Marked)
  /\ stack' = IF Marked = NoFrame THEN <<>> ELSE PopTo(stack, Depth(Marked))
  /\ pc' = Next1
  /\ Same /\ UNCHANGED <<slots, serial, w, status>>

\* Move copies a variable as it is; Deref looks it up.
DoMove ==
  /\ At_("Move") \/ At_("Deref")
  /\ LET v == Operands[1]
         put == PutTo(Ins.dst, IF Ins.i = "Deref" THEN DerefIn(v, w) ELSE v, slots, w)
     IN slots' = put.sl /\ w' = put.w
  /\ pc' = Next1
  /\ Same /\ UNCHANGED <<stack, serial, status>>

\* Operations that always succeed.
DoMgOp ==
  /\ At_("MgOp") \/ At_("KeyOp") \/ At_("MakeList")
  /\ \E r \in {CASE Ins.i = "MgOp" -> Mono(Ins.op, Operands, w)
                [] Ins.i = "KeyOp" -> [v |-> KeyValue(Ins.op), w |-> w]
                [] OTHER -> [v |-> Lst([k \in DOMAIN Operands |-> DerefIn(Operands[k], w)]),
                             w |-> w]} :
       LET put == PutTo(Ins.dst, r.v, slots, r.w) IN slots' = put.sl /\ w' = put.w
  /\ pc' = Next1
  /\ Same /\ UNCHANGED <<stack, serial, status>>

DoOp ==
  /\ At_("Op")
  /\ \E r \in {Cond(Ins.op, Operands, Ins.rval, w)} :
       LET put == PutTo(Ins.dst, r.v, slots, r.w)
       IN IF r.ok THEN slots' = put.sl /\ w' = put.w /\ pc' = Next1
          ELSE w' = r.w /\ pc' = To(Ins.lab) /\ UNCHANGED slots
  /\ Same /\ UNCHANGED <<stack, serial, status>>

\* do_opclo, invoke_proc, do_applyf: a new frame is pushed, remembered in the
\* closure slot, and run.
DoOpClo ==
  /\ At_("OpClo") \/ At_("Invoke") \/ At_("Apply")
  /\ LET op == IF Ins.i = "OpClo" THEN Ins.op ELSE "Invoke"
         args == IF Ins.i = "Apply" THEN <<Operands[1]>> \o DerefIn(Operands[2], w)[2] ELSE Operands
         f == [ser |-> serial + 1, g |-> NewGenerator(op, args, w), dst |-> Ins.dst,
               fail |-> Ins.lab, rval |-> Ins.rval, done |-> FALSE]
     IN RunFrame(f, Append(stack, f), Len(stack) + 1,
                 PutSlot("clo", Ins.clo[1], Ins.clo[2], f.ser))
  /\ serial' = serial + 1
  /\ Same /\ UNCHANGED status

\* Op_Resume: a frame that has returned is only disposed of.
DoResume ==
  /\ At_("Resume")
  /\ OnStack(Closure)
  /\ LET i == Depth(Closure)
     IN IF stack[i].done
        THEN /\ stack' = PopTo(stack, i - 1)
             /\ pc' = To(stack[i].fail)
             /\ UNCHANGED <<slots, w>>
        ELSE RunFrame(stack[i], stack, i, slots)
  /\ Same /\ UNCHANGED <<serial, status>>

\* Op_EnterInit: does nothing the first time, and is a jump from then on.
DoEnterInit ==
  /\ At_("EnterInit")
  /\ code' = [code EXCEPT ![pc[1]][pc[2]] = Goto(Ins.lab)]
  /\ pc' = Next1
  /\ Counted /\ UNCHANGED <<tables, slots, stack, serial, w, status>>

\* do_tcaseinit, do_tcaseinsert: a selector that is there already keeps its entry.
DoTCaseInit ==
  /\ At_("TCaseInit")
  /\ tables' = (Ins.tci :> [def |-> Ins.lab, entries |-> <<>>]) @@ tables
  /\ pc' = Next1
  /\ Counted /\ UNCHANGED <<code, slots, stack, serial, w, status>>

Entries(tci, v) == {i \in DOMAIN tables[tci].entries : tables[tci].entries[i].v = v}

DoTCaseInsert ==
  /\ At_("TCaseInsert")
  /\ LET v == DerefIn(Operands[1], w)
     IN tables' = IF Entries(Ins.tci, v) # {} THEN tables
                  ELSE [tables EXCEPT ![Ins.tci].entries = Append(@, [v |-> v, entry |-> Ins.lab])]
  /\ pc' = Next1
  /\ Counted /\ UNCHANGED <<code, slots, stack, serial, w, status>>

DoTCaseChoose ==
  /\ At_("TCaseChoose")
  /\ LET found == Entries(Ins.tci, DerefIn(Operands[1], w))
         table == tables[Ins.tci]
     IN pc' = To(IF found = {} THEN table.def
                 ELSE table.entries[CHOOSE i \in found : TRUE].entry)
  /\ Same /\ UNCHANGED <<slots, stack, serial, w, status>>

\* do_limit: the limit is looked up once.
DoLimit ==
  /\ At_("Limit")
  /\ slots' = PutTo(Ins.args[1], DerefIn(Operands[1], w), slots, w).sl
  /\ pc' = Next1
  /\ Same /\ UNCHANGED <<stack, serial, w, status>>

\* Op_ScanSave, Op_ScanSwap, Op_ScanRestore: the current scan and the one kept
\* in two temporaries.
DoScan ==
  /\ At_("ScanSave") \/ At_("ScanSwap") \/ At_("ScanRestore")
  /\ LET n == Len(Ins.args)
         kept == SubSeq(Ins.args, n - 1, n)
         save == PutTo(kept[2], Num(Scan(w).pos),
                       PutTo(kept[1], Str(Scan(w).subj), slots, w).sl, w).sl
     IN /\ slots' = IF Ins.i = "ScanRestore" THEN slots ELSE save
        /\ w' = IF Ins.i = "ScanSave" THEN Rescanned(w, Chars(DerefIn(Operands[1], w)), 1)
                ELSE Rescanned(w, Value(kept[1])[2], Value(kept[2])[2])
  /\ pc' = Next1
  /\ Same /\ UNCHANGED <<stack, serial, status>>

\* Op_Suspend, and the caller that resumes the procedure.
DoSuspend ==
  /\ At_("Suspend")
  /\ w' = Suspended(Operands[1], w)
  /\ pc' = Next1
  /\ Same /\ UNCHANGED <<slots, stack, serial, status>>

\* Op_Return and Op_Fail.
DoReturn ==
  /\ At_("Return") \/ At_("Fail")
  /\ w' = IF Ins.i = "Return" THEN Returned(Operands[1], w) ELSE FailedProc(w)
  /\ status' = "done"
  /\ stack' = <<>>
  /\ Same /\ UNCHANGED <<pc, slots, serial>>

Init ==
  /\ prog \in DOMAIN Programs
  /\ meant = Meaning(Body(prog), World)
  /\ mode \in Modes
  /\ mode = "folded" => Fold(Programs[prog]) # Programs[prog]
  /\ \E c \in {Compiled(prog, mode)} :
       code = c.code /\ status = IF c.quit THEN "refused" ELSE "run"
  /\ pc = To(Entry)
  /\ tables = <<>>
  /\ slots = [kind \in {"tmp", "lab", "mark", "clo"} |-> <<>>]
  /\ stack = <<>>
  /\ serial = 0
  /\ w = World
  /\ steps = 0

Next ==
  \/ DoGoto \/ DoIGoto \/ DoMoveLabel \/ DoMark \/ DoUnmark \/ DoMove \/ DoMgOp \/ DoOp
  \/ DoOpClo \/ DoResume \/ DoLimit \/ DoScan \/ DoSuspend \/ DoReturn
  \/ DoEnterInit \/ DoTCaseInit \/ DoTCaseInsert \/ DoTCaseChoose

Spec == Init /\ [][Next]_vars

(***************************************************************************)
(* Properties.                                                             *)
(***************************************************************************)
\* Whatever the compiled procedure does that can be observed (what it writes and
\* gives its caller, the scanning environment the caller then has, the order of
\* its calls), it does in the order the expression means, no more, and by the
\* end no less; it leaves the variables as the expression would; and it comes to
\* an end (the programs are ones that should).
AgreesWithIcon ==
  /\ IsPrefix(w.log, meant.log)
  /\ status = "done" => w.log = meant.log /\ w.store = meant.store
  /\ steps < MaxSteps

\* Constant folding cannot be observed: a folded program does what the program
\* written would have done, in the same order, and nothing of it is lost with an
\* operand that is known to fail (optimize.c fold_consts).
FoldingKeepsMeaning ==
  mode = "folded" /\ steps = 0 =>
    [Meaning(FoldedBody(prog), World) EXCEPT !.cells = meant.cells] = meant

\* No instruction reads a temporary, label, mark or closure slot that has been
\* overwritten by, or never written for, the expression the instruction is for:
\* expressions share slots (ir.c branch_stack, union_stack) only when they are
\* never alive together.
NoStaleSlot == status = "run" => ~Stale(Ins)

\* A generator is resumed, and the stack cut back, only to a frame that is still
\* on the stack: resuming any other would run freed memory (interp.r pop_to,
\* Op_Resume).
NoLostFrame ==
  status = "run" /\ ~Stale(Ins) =>
    /\ Ins.i = "Resume" => OnStack(Closure)
    /\ Ins.i = "Unmark" => Marked = NoFrame \/ OnStack(Marked)

\* Each label slot an IGoto in the optimised code names is one make_tmploc has handed
\* out, so that renumber_lab finds it in its table, but for the programs in
\* Misnumbered: there a bare suspend, whose resume chunk names its failure chunk
\* instead, is in a branch of |, if ... else or case that may be resumed, so that a
\* label keeps the chunk in the code. Nothing comes to execute it.
LabelSlotsExist ==
  /\ mode # "generated" /\ steps = 0 => (StraySlots(code) # {} <=> prog \in Misnumbered)
  /\ status = "run" /\ Ins.i = "IGoto" => Ins.tl[1] >= 0

\* The translator makes sound code of every program but those in Refused and
\* Misnumbered, and control never comes to a "system error" in it. Its optimiser
\* holds each label reached to have a chunk (optimize_goto_chain) and each unmark to
\* have a mark (mark_check). That is not so, and the translator stops at a program
\* its parser accepts, where a bounded selection selects none of its operands and
\* the last is not a list, and where the count of a limit over a generator never
\* succeeds, but the limit may be resumed by way of a label. The programs in Refused
\* are such, the others are not.
TranslatorAccepts ==
  /\ status = "refused" => prog \in Refused
  /\ prog \in Refused /\ mode # "folded" => status = "refused"
  /\ LabelSlotsExist
  /\ status = "run" => Ins.i \notin {"SysErr", "Quit"}
=============================================================================
