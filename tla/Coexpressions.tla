---------------------------- MODULE Coexpressions ----------------------------
(***************************************************************************)
(* Co-expressions (oix/interp.r, oix/omisc.r, oix/errmsg.r): blocks that   *)
(* keep where an expression is, and that transfer control and values among *)
(* themselves. Exactly one runs. Leaving off, each notes                   *)
(*   - where it goes on when a value is transmitted to it (at),            *)
(*   - where it goes on when failure is (label, failure_label),            *)
(*   - where a transmitted value is to be put (tvalloc), a slot of the     *)
(*     procedure frame that waits for it,                                  *)
(* and remembers in activator whom to give its results to.                 *)
(*                                                                         *)
(* The programs are any that create, copy, activate and leave              *)
(* co-expressions, call procedures in them and make errors, in any order.  *)
(***************************************************************************)
EXTENDS Integers, Sequences, SequencesExt

CONSTANTS MaxCoexprs,   \* co-expressions in a run, &main and loaded ones included
          MaxDepth,     \* procedure frames of a co-expression
          MaxScopes,    \* sets of local variables made in a run
          Loads         \* programs loaded (lang.Prog.load) and not yet run

ASSUME LimitsAssumption ==
  /\ MaxCoexprs \in Nat /\ MaxDepth \in Nat \ {0} /\ MaxScopes \in Nat \ {0}
  /\ Loads \in Nat /\ Loads < MaxCoexprs

None == 0
Main == 1
Coexprs == 1..MaxCoexprs
Loaded == 2..(Loads + 1)

\* The values that are transmitted: one that is no variable, or a local variable,
\* named by the set of locals it belongs to.
Plain == 0

NoLabel == "no label"
NoSlot == [depth |-> 0, scope |-> 0]
Nothing == [slot |-> NoSlot, v |-> Plain]

VARIABLES count,      \* co-expressions made so far: 1..count
          current,    \* k_current
          activator,
          at,         \* ipc of curr_pf
          label,      \* failure_label
          tvalloc,
          frames,     \* fvars of the user procedures in progress, the newest last
          scopes,     \* sets of locals made so far
          handler,    \* &handler
          status,     \* "run", "done", "fatal" (error exit) or "crash" (undefined behaviour)
          \* For the properties:
          result,     \* the value put in a slot by the last step, and the slot
          erred,      \* the co-expressions that have caused an error
          orderly     \* the program has so far only activated with @, and not
                      \* one that was waiting for a result itself
control == <<current, at, label, tvalloc, status>>
vars == <<count, activator, frames, scopes, handler, result, erred, orderly, control>>

Created == 1..count
HasUserFrame(c) == frames[c] # <<>>
Scope(c) == Last(frames[c])
Slot(c) == [depth |-> Len(frames[c]), scope |-> Scope(c)]
InUse(c, slot) == slot.depth \in DOMAIN frames[c] /\ frames[c][slot.depth] = slot.scope

\* A co-expression can do as its program says, unless it has no more results or has
\* caused an error.
Running == status = "run" /\ at[current] \notin {"ended", "error"}

\* The co-expressions that get control when the current one and each in turn
\* return to their activators.
Chain ==
  LET up[k \in 0..MaxCoexprs] ==
        IF k = 0 THEN current ELSE IF up[k - 1] = None THEN None ELSE activator[up[k - 1]]
  IN {up[k] : k \in 0..MaxCoexprs} \ {None}

(***************************************************************************)
(* Changing over.                                                          *)
(***************************************************************************)
Crash == status' = "crash" /\ result' = Nothing /\ UNCHANGED <<current, at, label, tvalloc>>
Fatal == status' = "fatal" /\ result' = Nothing /\ UNCHANGED <<current, at, label, tvalloc>>

\* Mistake: local variables are transmitted as they are.
Transmitted_AsIs(v, t) == v

\* retderef: what t gets when v is transmitted to it; the local variables of
\* another procedure than t is in are dereferenced.
Transmitted(v, t) == IF Scope(t) # Scope(current) THEN Plain ELSE v

\* Mistake: the one that goes on keeps its failure label.
Labels_Kept(t, failing) == [label EXCEPT ![current] = failing]

\* The failure labels when the current co-expression leaves off and t goes on.
Labels(t, failing) == [label EXCEPT ![current] = failing, ![t] = NoLabel]

\* switch_to: the current co-expression leaves off, to wait for a value in slot,
\* and t goes on with v.
SwitchTo(t, v, slot, failing, resuming) ==
  LET slots == [tvalloc EXCEPT ![current] = slot]
  IN /\ current' = t
     /\ at' = [at EXCEPT ![current] = resuming]
     /\ label' = Labels(t, failing)
     /\ tvalloc' = slots
     /\ result' = IF slots[t] = NoSlot THEN Nothing ELSE [slot |-> slots[t], v |-> v]
     /\ status' = IF slots[t] # NoSlot /\ ~InUse(t, slots[t]) THEN "crash" ELSE status

\* fail_to: likewise, but t goes on at its failure label.
FailTo(t, slot, failing, resuming) ==
  LET labels == [label EXCEPT ![current] = failing]
  IN IF labels[t] = NoLabel THEN Crash
     ELSE /\ current' = t
          /\ at' = [at EXCEPT ![current] = resuming, ![t] = labels[t]]
          /\ label' = Labels(t, failing)
          /\ tvalloc' = [tvalloc EXCEPT ![current] = slot]
          /\ result' = Nothing
          /\ UNCHANGED status

\* Mistake: one that is activated again goes on as after any other activation.
CoactHandler_Resumable ==
  IF handler = None \/ activator[handler] = None THEN Fatal
  ELSE FailTo(handler, NoSlot, "failed", "result")

\* err_msg, activate_handler, coact_handler: an error of the current co-expression,
\* which goes on, if it ever does, to the fatal error 139.
CoactHandler ==
  IF handler = None \/ activator[handler] = None THEN Fatal
  ELSE FailTo(handler, NoSlot, "error", "error")

Error ==
  /\ CoactHandler
  /\ erred' = erred \cup {current}
  /\ orderly' = FALSE
  /\ UNCHANGED activator

(***************************************************************************)
(* The operations.                                                         *)
(***************************************************************************)
New(scope, n) ==
  /\ count < MaxCoexprs
  /\ count' = count + 1
  /\ activator' = [activator EXCEPT ![count + 1] = None]
  /\ at' = [at EXCEPT ![count + 1] = "start"]
  /\ label' = [label EXCEPT ![count + 1] = "start"]
  /\ tvalloc' = [tvalloc EXCEPT ![count + 1] = NoSlot]
  /\ frames' = [frames EXCEPT ![count + 1] = <<scope>>]
  /\ scopes' = n
  /\ result' = Nothing
  /\ UNCHANGED <<current, handler, status, erred, orderly>>

\* create e, which shares the locals of the procedure it is in.
Create == Running /\ New(Scope(current), scopes)

\* ^x and cocopy(x): from the start, with the same locals or a copy of them.
Refresh(x) == Running /\ x \in Created \ ({Main} \cup Loaded) /\ New(frames[x][1], scopes)
Cocopy(x) ==
  /\ Running
  /\ x \in Created \ ({Main} \cup Loaded)
  /\ scopes < MaxScopes
  /\ New(scopes + 1, scopes + 1)

\* Mistake: the first activator is kept.
NewActivator_Once(t) == [activator EXCEPT ![t] = IF @ = None THEN current ELSE @]

\* v @ t
NewActivator(t) == [activator EXCEPT ![t] = current]

Activate(t) ==
  /\ Running
  /\ t \in Created
  /\ UNCHANGED <<count, frames, scopes, handler>>
  /\ IF ~HasUserFrame(t) THEN Error
     ELSE /\ \E v \in {Plain, Scope(current)} :
               SwitchTo(t, Transmitted(v, t), Slot(current), "failed", "result")
          /\ activator' = NewActivator(t)
          /\ orderly' = (orderly /\ t \notin Chain)
          /\ UNCHANGED erred

\* Mistake: an activator that is given is taken as it is.
Refused_GivenUntested(t, a) == ~HasUserFrame(t) \/ (a = None /\ activator[t] = None)

\* The tests of coact and cofail: t must be able to run, and have an activator,
\* its own or a, that has one itself.
Refused(t, a) ==
  \/ ~HasUserFrame(t)
  \/ activator[IF a = None THEN t ELSE a] = None

\* The target of coact and cofail, &source when none is given.
Targets == Created \cup {activator[current]}

\* coact(v, t, a) and cofail(t, a): activate or transmit failure, with t's
\* activator made a unless that is null.
Coact(t, a) ==
  /\ Running
  /\ t \in Targets /\ a \in Created \cup {None}
  /\ UNCHANGED <<count, frames, scopes, handler>>
  /\ IF Refused(t, a) THEN Error
     ELSE /\ \E v \in {Plain, Scope(current)} :
               SwitchTo(t, Transmitted(v, t), Slot(current), "failed", "result")
          /\ activator' = IF a = None THEN activator ELSE [activator EXCEPT ![t] = a]
          /\ orderly' = FALSE
          /\ UNCHANGED erred

Cofail(t, a) ==
  /\ Running
  /\ t \in Targets /\ a \in Created \cup {None}
  /\ UNCHANGED <<count, frames, scopes, handler>>
  /\ IF Refused(t, a) \/ label[t] = NoLabel THEN Error
     ELSE /\ FailTo(t, Slot(current), "failed", "result")
          /\ activator' = IF a = None THEN activator ELSE [activator EXCEPT ![t] = a]
          /\ orderly' = FALSE
          /\ UNCHANGED erred

\* Mistake: the slot of the last activation is kept.
CoretSlot_Kept == tvalloc[current]

\* What is transmitted to a co-expression waiting to be asked for another result is
\* discarded.
CoretSlot == NoSlot

\* do_coret: the expression of the co-expression has a result.
Coret ==
  /\ Running /\ current # Main /\ Len(frames[current]) = 1
  /\ LET a == activator[current]
     IN IF a = None \/ ~HasUserFrame(a) THEN Crash
        ELSE \E v \in {Plain, Scope(current)} :
               SwitchTo(a, Transmitted(v, a), CoretSlot, "resume", "resume")
  /\ UNCHANGED <<count, activator, frames, scopes, handler, erred, orderly>>

\* do_cofail: it has no more, however often it is asked.
CofailEnd ==
  /\ status = "run" /\ current # Main
  /\ at[current] = "ended" \/ (Running /\ Len(frames[current]) = 1)
  /\ IF activator[current] = None THEN Crash
     ELSE FailTo(activator[current], NoSlot, "ended", "ended")
  /\ UNCHANGED <<count, activator, frames, scopes, handler, erred, orderly>>

Call ==
  /\ Running
  /\ Len(frames[current]) < MaxDepth /\ scopes < MaxScopes
  /\ frames' = [frames EXCEPT ![current] = Append(@, scopes + 1)]
  /\ scopes' = scopes + 1
  /\ result' = Nothing
  /\ UNCHANGED <<count, activator, handler, erred, orderly, control>>

Return ==
  /\ Running
  /\ Len(frames[current]) > 1
  /\ frames' = [frames EXCEPT ![current] = Front(@)]
  /\ result' = Nothing
  /\ UNCHANGED <<count, activator, scopes, handler, erred, orderly, control>>

SetHandler(h) ==
  /\ Running
  /\ h \in Created \cup {None}
  /\ handler' = h
  /\ result' = Nothing
  /\ UNCHANGED <<count, activator, frames, scopes, erred, orderly, control>>

RunError == Running /\ Error /\ UNCHANGED <<count, frames, scopes, handler>>

\* fatalerr_139: one that has caused an error has been activated.
Fatal139 ==
  /\ status = "run" /\ at[current] = "error"
  /\ Fatal
  /\ UNCHANGED <<count, activator, frames, scopes, handler, erred, orderly>>

\* handle_prog_exit, Op_Exit: the main procedure has returned.
Exit ==
  /\ Running /\ current = Main /\ Len(frames[Main]) = 1
  /\ status' = "done"
  /\ result' = Nothing
  /\ UNCHANGED <<count, current, activator, at, label, tvalloc, frames, scopes, handler, erred,
                 orderly>>

Init ==
  /\ count = 1 + Loads
  /\ current = Main
  /\ activator = [c \in Coexprs |-> IF c \in {Main} \cup Loaded THEN c ELSE None]
  /\ at = [c \in Coexprs |-> "start"]
  /\ label = [c \in Coexprs |-> NoLabel]
  /\ tvalloc = [c \in Coexprs |-> NoSlot]
  /\ frames = [c \in Coexprs |-> IF c = Main THEN <<1>> ELSE <<>>]
  /\ scopes = 1
  /\ handler = None
  /\ status = "run"
  /\ result = Nothing
  /\ erred = {}
  /\ orderly = TRUE

Next ==
  \/ Create
  \/ \E x \in Coexprs : Refresh(x) \/ Cocopy(x) \/ Activate(x)
  \/ \E t \in Coexprs, a \in Coexprs \cup {None} : Coact(t, a) \/ Cofail(t, a)
  \/ Coret \/ CofailEnd
  \/ Call \/ Return
  \/ \E h \in Coexprs \cup {None} : SetHandler(h)
  \/ RunError \/ Fatal139 \/ Exit

Spec == Init /\ [][Next]_vars

(***************************************************************************)
(* Properties.                                                             *)
(***************************************************************************)
Places == {"start", "result", "failed", "resume", "ended", "error"}
Slots == [depth : 0..MaxDepth, scope : 0..MaxScopes]

\* Types; and a co-expression that can run has a failure label unless it runs
\* (cofail relies on this to tell, error 135).
TypeOK ==
  /\ count \in Coexprs
  /\ current \in Created
  /\ activator \in [Coexprs -> Created \cup {None}]
  /\ at \in [Coexprs -> Places]
  /\ label \in [Coexprs -> Places \cup {NoLabel}]
  /\ tvalloc \in [Coexprs -> Slots]
  /\ frames \in [Coexprs -> Seq(1..MaxScopes)]
  /\ scopes \in 1..MaxScopes
  /\ handler \in Created \cup {None}
  /\ status \in {"run", "done", "fatal", "crash"}
  /\ result \in [slot : Slots, v : 0..MaxScopes]
  /\ erred \subseteq Created
  /\ orderly \in BOOLEAN
  /\ status = "run" =>
       \A c \in Created \ Loaded : label[c] = NoLabel <=> c = current

\* Whoever runs can return or fail to its activator, and that one to its own, and
\* so on: coact and cofail insist that an activator has been activated itself
\* (errors 136 and 137), and nothing undoes it.
ActivatorReady ==
  /\ activator[current] # None
  /\ \A c \in Created : activator[c] # None => activator[activator[c]] # None

\* Control only goes to a co-expression that has a place to go on at, and a
\* transmitted value is only put in a frame that is still in use, and waits for it:
\* any other outcome would be a null pointer or freed memory (interp.r: "As in all
\* activations, the target must have a user pframe").
NeverCrashes == status # "crash"

\* A transmitted variable is one that the procedure that gets it can see, however it
\* came: the locals of others are dereferenced.
ResultInScope == result.v \in {Plain, result.slot.scope}

\* One that has caused an error with a &handler set never goes on with its program:
\* to activate it, fail to it or return to it is a fatal error.
ErrorIsFinal == status = "run" /\ current \in erred => at[current] = "error"

\* As long as programs only use @, on co-expressions that are not waiting for a
\* result, co-expressions nest as generators do: those waiting for a result are
\* exactly the ones control will come back to, ending with &main. (With @ on one that
\* waits, or with coact, &main can be left out for ever.)
Lineage ==
  orderly /\ status = "run" =>
    /\ Main \in Chain
    /\ \A c \in (Created \ Loaded) \ {current} : c \in Chain <=> at[c] = "result"
=============================================================================
