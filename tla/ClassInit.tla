------------------------------ MODULE ClassInit ------------------------------
(***************************************************************************)
(* Classes at run time (oix/invoke.r and the code of invokeiasm.in): a     *)
(* class is initialized when it is first used, its superclasses before it. *)
(* Initialization is made of frames on the stack of the co-expression that *)
(* used the class; the init methods are code of the program, which may use *)
(* any class in turn, or leave for another co-expression and not come      *)
(* back.                                                                   *)
(***************************************************************************)
EXTENDS Inheritance

CONSTANTS
  Program,   \* the programs, as in Inheritance, with uses: how many times their
             \* code uses a class
  Coexpr     \* the co-expressions

ASSUME ProgramAssumption ==
  /\ IsFiniteSet(Class)
  /\ \A p \in Program :
       /\ Classes(p) \subseteq Class
       /\ \A c \in Classes(p) : p.supers[c] \in Seq(Classes(p))
       /\ \A c \in Classes(p) :
            p.field[c] # None => p.field[c].static \in BOOLEAN /\ p.field[c].method \in BOOLEAN
       /\ p.inits \subseteq Classes(p)
       /\ p.uses \in Nat

VARIABLES
  prog, order,
  phase,     \* "source", "rejected" by the linker, or "run"
  left,      \* uses of a class that are left
  init_state,
  stack,     \* the frames of each co-expression, the newest last
  current,
  begun      \* how often the init method of each class was invoked

vars == <<prog, order, phase, left, init_state, stack, current, begun>>

\* Code of the program: a method of class, or the main program's; using is the
\* class whose use waits for its initialization.
Code(class) == [kind |-> "code", class |-> class, using |-> None]

\* ensure_class_initialized_impl: i is the next superclass to look at; one more
\* than there are, the init method is next, and two more, it is over.
Ensure(class) == [kind |-> "ensure", class |-> class, i |-> 1]

Init ==
  /\ prog \in Program
  /\ order = [c \in Classes(prog) |-> <<>>]
  /\ phase = "source"
  /\ left = prog.uses
  /\ init_state = [c \in Classes(prog) |-> "Uninitialized"]
  /\ stack = [e \in Coexpr |-> <<Code(None)>>]
  /\ current \in Coexpr
  /\ begun = [c \in Classes(prog) |-> 0]

\* The linker.
compute_inheritance ==
  /\ phase = "source"
  /\ order' = Linearize(prog.supers)
  /\ phase' = IF \A c \in Classes(prog) : Resolves(prog, order', c) THEN "run" ELSE "rejected"
  /\ UNCHANGED <<prog, left, init_state, stack, current, begun>>

----------------------------------------------------------------------------
Frames == stack[current]
Top == Last(Frames)
Running(kind) == phase = "run" /\ Top.kind = kind

Unchanged == UNCHANGED <<prog, order, phase>>

\* The frames with s in place of the newest one.
Replaced(s) == stack' = [stack EXCEPT ![current] = Front(@) \o s]

\* check_if_uninitialized and set_class_state, which the new frame begins with.
Mark(c) == init_state' = [init_state EXCEPT ![c] = "Initializing"]

\* f is the newest frame; ensure_class_initialized() of class c adds one.
ensure_class_initialized(f, c) ==
  IF init_state[c] = "Uninitialized" THEN Replaced(<<f, Ensure(c)>>) /\ Mark(c)
  ELSE Replaced(<<f>>) /\ UNCHANGED init_state

\* The code that a use of class c leads to: its static method, or the constructor
\* new() of an object.
CodeOf(c) ==
  LET d == Definer(prog, order, c)
  IN IF d # None /\ prog.field[d].method THEN <<Code(d)>> ELSE <<>>

\* A use of class c: class_access, class_invokef or construct_object.  An
\* initialization comes before it; then the instruction is repeated, or the
\* constructor goes on.  No object is made of an abstract class.
Use(c) ==
  /\ Running("code")
  /\ "abstract" \in prog.flags[c] => \A f \in ToSet(CodeOf(c)) : prog.field[f.class].static
  /\ Top.using = IF Top.using = None THEN None ELSE c
  /\ Top.using = None => left > 0
  /\ left' = IF Top.using = None THEN left - 1 ELSE left
  /\ IF init_state[c] = "Uninitialized"
     THEN ensure_class_initialized([Top EXCEPT !.using = c], c)
     ELSE /\ Replaced(<<[Top EXCEPT !.using = None]>> \o CodeOf(c))
          /\ UNCHANGED init_state
  /\ UNCHANGED <<current, begun>> /\ Unchanged

\* for_class_supers
for_class_supers ==
  /\ Running("ensure")
  /\ Top.i <= Len(prog.supers[Top.class])
  /\ ensure_class_initialized([Top EXCEPT !.i = @ + 1], prog.supers[Top.class][Top.i])
  /\ UNCHANGED <<left, current, begun>> /\ Unchanged

\* The class whose init method is c's init_field: the first in c's order.
InitField(c) ==
  LET k == {j \in DOMAIN order[c] : order[c][j] \in prog.inits}
  IN IF k = {} THEN None ELSE order[c][CHOOSE j \in k : \A i \in k : j <= i]

\* Mistake: an inherited init method is invoked again.
InitInherited(c) == InitField(c) # None

\* Only an init method of its own.
InitOwn(c) == InitField(c) = c

invoke_class_init ==
  LET c == Top.class IN
  /\ Running("ensure")
  /\ Top.i = Len(prog.supers[c]) + 1
  /\ Replaced(<<[Top EXCEPT !.i = @ + 1]>> \o IF InitOwn(c) THEN <<Code(InitField(c))>> ELSE <<>>)
  /\ begun' = IF InitOwn(c) THEN [begun EXCEPT ![InitField(c)] = @ + 1] ELSE begun
  /\ UNCHANGED <<left, init_state, current>> /\ Unchanged

\* The init method returned, suspended or failed.
set_class_state ==
  /\ Running("ensure")
  /\ Top.i = Len(prog.supers[Top.class]) + 2
  /\ init_state' = [init_state EXCEPT ![Top.class] = "Initialized"]
  /\ Replaced(<<>>)
  /\ UNCHANGED <<left, current, begun>> /\ Unchanged

Return ==
  /\ Running("code") /\ Top.using = None /\ Len(Frames) > 1
  /\ Replaced(<<>>)
  /\ UNCHANGED <<left, init_state, current, begun>> /\ Unchanged

\* Code activates another co-expression.
Activate(e) ==
  /\ Running("code") /\ Top.using = None /\ e # current
  /\ current' = e
  /\ UNCHANGED <<left, init_state, stack, begun>> /\ Unchanged

Next ==
  \/ compute_inheritance
  \/ \E c \in Classes(prog) : Use(c)
  \/ for_class_supers \/ invoke_class_init \/ set_class_state
  \/ Return
  \/ \E e \in Coexpr : Activate(e)

Spec == Init /\ [][Next]_vars

----------------------------------------------------------------------------
(* Properties *)

\* What the linker accepts and how it resolves it: see OrderExact and FieldsSound.
ResolvedSoundly ==
  /\ phase # "source" => OrderExact(prog, order)
  /\ phase = "run" => FieldsSound(prog, order)

\* Where the frames of class c of a kind are.
FramesOf(kind, c) ==
  UNION {{<<e, k>> : k \in {i \in DOMAIN stack[e] : stack[e][i].kind = kind
                                                 /\ stack[e][i].class = c}} : e \in Coexpr}

\* However classes use each other while they are initialized, and from whatever
\* co-expressions: no init method is invoked twice; a class is Initializing as long as
\* one frame initializes it; one that is Initialized had its init method invoked, and
\* its superclasses are not left Uninitialized; and code runs in an Uninitialized class
\* only by way of a class derived from it that is itself Initializing.
InitializedOnce ==
  phase = "run" =>
    \A c \in Classes(prog) :
      /\ begun[c] <= 1
      /\ Cardinality(FramesOf("ensure", c)) = IF init_state[c] = "Initializing" THEN 1 ELSE 0
      /\ init_state[c] = "Initialized" =>
           /\ c \in prog.inits => begun[c] = 1
           /\ \A d \in ToSet(prog.supers[c]) : init_state[d] # "Uninitialized"
      /\ init_state[c] = "Uninitialized" /\ FramesOf("code", c) # {} =>
           \E d \in Classes(prog) :
             init_state[d] = "Initializing" /\ c \in ToSet(Tail(order[d]))
==============================================================================
