------------------------- MODULE CoexpressionsProofs -------------------------
(***************************************************************************)
(* Proofs about Coexpressions, for every number of co-expressions, frames  *)
(* and sets of locals. An operation that transfers control is SwitchTo or  *)
(* FailTo, which come first; an operation that does not changes only the   *)
(* co-expression that runs, or makes a new one.                            *)
(***************************************************************************)
EXTENDS Coexpressions, Recursion

Labelled == Places \cup {NoLabel}
AnySlot == [depth : Nat, scope : Nat]

Typed ==
  /\ count \in Coexprs
  /\ Loads < count
  /\ current \in Created
  /\ activator \in [Coexprs -> Created \cup {None}]
  /\ at \in [Coexprs -> Places]
  /\ label \in [Coexprs -> Labelled]
  /\ tvalloc \in [Coexprs -> AnySlot]
  /\ frames \in [Coexprs -> Seq(Nat)]
  /\ scopes \in Nat
  /\ handler \in Created \cup {None}
  /\ erred \subseteq Created

\* The strengthening of ErrorIsFinal: one that has caused an error and does not run
\* would go on at the fatal error, whether a value or failure is transmitted to it.
Stopped ==
  status = "run" =>
    \A c \in erred : at[c] = "error" /\ (c # current => label[c] = "error")

\* Where failure can be transmitted to, and in the current one, there is a user frame.
Framed ==
  status = "run" =>
    /\ HasUserFrame(current)
    /\ \A c \in Created : label[c] # NoLabel \/ c \notin Loaded => HasUserFrame(c)

IInv == Typed /\ ActivatorReady /\ Stopped /\ Framed

(***************************************************************************)
(* Transfers.                                                              *)
(***************************************************************************)
LEMMA CreatedCoexprs == ASSUME Typed PROVE Created \subseteq Coexprs
BY LimitsAssumption DEF Typed, Created, Coexprs

LEMMA SwitchToTyped ==
  ASSUME Typed, NEW t \in Created, NEW v, NEW slot \in AnySlot,
         NEW failing \in Places, NEW resuming \in Places,
         SwitchTo(t, v, slot, failing, resuming)
  PROVE  /\ current' = t
         /\ at' \in [Coexprs -> Places]
         /\ label' \in [Coexprs -> Labelled]
         /\ tvalloc' \in [Coexprs -> AnySlot]
BY CreatedCoexprs DEF Typed, SwitchTo, Labels, Labelled

LEMMA FailToTyped ==
  ASSUME Typed, NEW t \in Created, NEW slot \in AnySlot,
         NEW failing \in Places, NEW resuming \in Places,
         FailTo(t, slot, failing, resuming)
  PROVE  /\ current' \in {current, t}
         /\ at' \in [Coexprs -> Places]
         /\ label' \in [Coexprs -> Labelled]
         /\ tvalloc' \in [Coexprs -> AnySlot]
<1>1. CASE FailTo(t, slot, failing, resuming) /\ Crash
  BY <1>1 DEF Typed, Crash
<1>2. CASE /\ [label EXCEPT ![current] = failing][t] # NoLabel
           /\ current' = t
           /\ at' = [at EXCEPT ![current] = resuming, ![t] = [label EXCEPT ![current] = failing][t]]
           /\ label' = Labels(t, failing)
           /\ tvalloc' = [tvalloc EXCEPT ![current] = slot]
  <2>1. current \in Coexprs /\ t \in Coexprs
    BY CreatedCoexprs DEF Typed
  <2>2. [label EXCEPT ![current] = failing] \in [Coexprs -> Labelled]
    BY <2>1 DEF Typed, Labelled
  <2>3. [label EXCEPT ![current] = failing][t] \in Places
    BY <1>2, <2>1, <2>2 DEF Labelled
  <2>4. at' \in [Coexprs -> Places]
    BY <1>2, <2>1, <2>3 DEF Typed
  <2>5. label' \in [Coexprs -> Labelled]
    BY <1>2, <2>1 DEF Typed, Labels, Labelled
  <2>6. tvalloc' \in [Coexprs -> AnySlot]
    BY <1>2, <2>1 DEF Typed
  <2> QED BY <1>2, <2>4, <2>5, <2>6
<1> QED BY <1>1, <1>2 DEF FailTo

\* One that may run its program has caused no error, so that leaving it off leaves
\* the others stopped.
LEMMA SwitchToStopped ==
  ASSUME Typed, Stopped, status = "run", current \notin erred,
         NEW t \in Created, NEW v, NEW slot \in AnySlot,
         NEW failing \in Places, NEW resuming \in Places,
         SwitchTo(t, v, slot, failing, resuming), UNCHANGED erred
  PROVE  Stopped'
BY CreatedCoexprs DEF Typed, Stopped, SwitchTo, Labels

LEMMA FailToStopped ==
  ASSUME Typed, Stopped, status = "run", current \notin erred,
         NEW t \in Created, NEW slot \in AnySlot,
         NEW failing \in Places, NEW resuming \in Places,
         FailTo(t, slot, failing, resuming), UNCHANGED erred
  PROVE  Stopped'
BY CreatedCoexprs DEF Typed, Stopped, FailTo, Crash, Labels

LEMMA SwitchToFramed ==
  ASSUME Typed, Framed, status = "run",
         NEW t \in Created, HasUserFrame(t), NEW v, NEW slot \in AnySlot,
         NEW failing \in Places, NEW resuming \in Places,
         SwitchTo(t, v, slot, failing, resuming), UNCHANGED <<count, frames>>
  PROVE  Framed'
BY CreatedCoexprs DEF Typed, Framed, SwitchTo, Labels, HasUserFrame, Created

LEMMA FailToFramed ==
  ASSUME Typed, Framed, status = "run",
         NEW t \in Created, NEW slot \in AnySlot,
         NEW failing \in Places, NEW resuming \in Places,
         FailTo(t, slot, failing, resuming), UNCHANGED <<count, frames>>
  PROVE  Framed'
BY CreatedCoexprs DEF Typed, Framed, FailTo, Crash, Labels, HasUserFrame, Created

LEMMA RunningNotErred == ASSUME Stopped, Running PROVE current \notin erred
BY DEF Stopped, Running

LEMMA SlotType == ASSUME Typed, HasUserFrame(current)
                  PROVE  Slot(current) \in AnySlot
BY CreatedCoexprs DEF Typed, HasUserFrame, Slot, Scope, Last, AnySlot

LEMMA NoSlotType == NoSlot \in AnySlot
BY DEF NoSlot, AnySlot

\* An error leaves everything as the invariant wants it.
LEMMA ErrorPreserves ==
  ASSUME IInv, status = "run", Error, UNCHANGED <<count, frames, scopes, handler>>
  PROVE  IInv'
<1>1. CASE handler = None \/ activator[handler] = None
  BY <1>1 DEF IInv, Typed, ActivatorReady, Stopped, Framed, Error, CoactHandler, Fatal, Created
<1>2. CASE ~(handler = None \/ activator[handler] = None)
  <2>1. handler \in Created /\ FailTo(handler, NoSlot, "error", "error")
    BY <1>2 DEF IInv, Typed, Error, CoactHandler
  <2>2. Typed'
    BY <2>1, FailToTyped, NoSlotType DEF IInv, Typed, Error, Created, Places
  <2>3. ActivatorReady'
    <3>1. current' = current \/ (current' = handler /\ activator[handler] # None)
      BY <1>2, <2>1 DEF FailTo, Crash
    <3> QED BY <3>1 DEF IInv, ActivatorReady, Error, Created
  <2>4. Stopped'
    BY <2>1, CreatedCoexprs DEF IInv, Typed, Stopped, FailTo, Crash, Labels, Error
  <2>5. Framed'
    BY <2>1, FailToFramed, NoSlotType DEF IInv, Places
  <2> QED BY <2>2, <2>3, <2>4, <2>5 DEF IInv
<1> QED BY <1>1, <1>2

(***************************************************************************)
(* The operations.                                                         *)
(***************************************************************************)
LEMMA NewPreserves ==
  ASSUME IInv, Running, NEW scope \in Nat, NEW n \in Nat, New(scope, n)
  PROVE  IInv'
<1>1. count \in Nat /\ count + 1 \in Coexprs /\ count' = count + 1
  BY LimitsAssumption DEF IInv, Typed, New, Coexprs
<1>2. Created' = Created \cup {count + 1} /\ count + 1 \notin Created
  BY <1>1 DEF Created
<1>3. Typed'
  <2>1. activator' \in [Coexprs -> Created' \cup {None}]
    BY <1>1, <1>2 DEF IInv, Typed, New
  <2>2. at' \in [Coexprs -> Places] /\ label' \in [Coexprs -> Labelled]
    BY DEF IInv, Typed, New, Places, Labelled
  <2>3. tvalloc' \in [Coexprs -> AnySlot]
    BY NoSlotType DEF IInv, Typed, New
  <2>5. frames' \in [Coexprs -> Seq(Nat)]
    <3>1. <<scope>> \in Seq(Nat)
      OBVIOUS
    <3> QED BY <3>1 DEF IInv, Typed, New
  <2>4. Loads < count'
    BY <1>1, LimitsAssumption DEF IInv, Typed
  <2> QED BY <1>1, <1>2, <2>1, <2>2, <2>3, <2>4, <2>5 DEF IInv, Typed, New
<1>4. ActivatorReady'
  <2>1. \A c \in Created : activator'[c] = activator[c]
    BY <1>2, CreatedCoexprs DEF IInv, Typed, New
  <2>2. activator'[count + 1] = None
    BY <1>1 DEF IInv, Typed, New
  <2>3. \A c \in Created : activator[c] \in Created \cup {None}
    BY CreatedCoexprs DEF IInv, Typed
  <2>4. current \in Created /\ current' = current
    BY DEF IInv, Typed, New
  <2> QED BY <1>2, <2>1, <2>2, <2>3, <2>4 DEF IInv, ActivatorReady
<1>5. Stopped'
  BY <1>2, CreatedCoexprs DEF IInv, Typed, Stopped, New
<1>6. Framed'
  BY <1>1, <1>2, CreatedCoexprs DEF IInv, Typed, Framed, New, HasUserFrame, Running
<1> QED BY <1>3, <1>4, <1>5, <1>6 DEF IInv

\* Whoever can be a base frame's locals is a number.
LEMMA ScopeType == ASSUME Typed, NEW c \in Created, HasUserFrame(c)
                   PROVE  Scope(c) \in Nat /\ frames[c][1] \in Nat
BY CreatedCoexprs DEF Typed, HasUserFrame, Scope, Last

\* A transfer to t, whose activator stays what it is or becomes a.
LEMMA ActivatorKept ==
  ASSUME Typed, ActivatorReady, NEW t \in Created, activator[t] # None,
         count' = count, activator' = activator, current' \in {current, t}
  PROVE  ActivatorReady'
BY DEF ActivatorReady, Created

LEMMA ActivatorGiven ==
  ASSUME Typed, ActivatorReady, NEW t \in Created, NEW a \in Created, activator[a] # None,
         count' = count, activator' = [activator EXCEPT ![t] = a], current' \in {current, t}
  PROVE  ActivatorReady'
<1>1. \A c \in Created : activator'[c] = IF c = t THEN a ELSE activator[c]
  BY CreatedCoexprs DEF Typed
<1>2. a # None /\ Created' = Created /\ current \in Created
  BY DEF Typed, Created, None
<1>3. \A c \in Created : activator[c] \in Created \cup {None}
  BY CreatedCoexprs DEF Typed
<1>4. \A c \in Created : activator[c] # None => activator'[c] # None
  BY <1>1, <1>2
<1> QED BY <1>1, <1>2, <1>3, <1>4 DEF ActivatorReady

\* Leaving the activators alone, or giving t one: all that Coact and Cofail do to them.
LEMMA TargetReady ==
  ASSUME IInv, NEW t \in Targets, NEW a \in Created \cup {None}, ~Refused(t, a)
  PROVE  /\ t \in Created
         /\ HasUserFrame(t)
         /\ a = None => activator[t] # None
         /\ a # None => activator[a] # None
<1>1. t \in Created
  BY CreatedCoexprs DEF IInv, Typed, ActivatorReady, Targets
<1> QED BY <1>1 DEF Refused

\* A step of a co-expression that runs, to t by switch_to or fail_to.
LEMMA SwitchPreserves ==
  ASSUME IInv, status = "run", current \notin erred,
         NEW t \in Created, HasUserFrame(t), NEW v, NEW slot \in AnySlot,
         NEW failing \in Places, NEW resuming \in Places,
         SwitchTo(t, v, slot, failing, resuming),
         UNCHANGED <<count, frames, scopes, handler, erred>>,
         activator' \in [Coexprs -> Created \cup {None}], ActivatorReady'
  PROVE  IInv'
<1>1. Typed'
  BY SwitchToTyped DEF IInv, Typed, Created
<1>2. Stopped' /\ Framed'
  BY SwitchToStopped, SwitchToFramed DEF IInv
<1> QED BY <1>1, <1>2 DEF IInv

LEMMA FailPreserves ==
  ASSUME IInv, status = "run", current \notin erred,
         NEW t \in Created, NEW slot \in AnySlot,
         NEW failing \in Places, NEW resuming \in Places,
         FailTo(t, slot, failing, resuming),
         UNCHANGED <<count, frames, scopes, handler, erred>>,
         activator' \in [Coexprs -> Created \cup {None}], ActivatorReady'
  PROVE  IInv'
<1>1. Typed'
  BY FailToTyped DEF IInv, Typed, Created
<1>2. Stopped' /\ Framed'
  BY FailToStopped, FailToFramed DEF IInv
<1> QED BY <1>1, <1>2 DEF IInv

\* An operation that leaves everything but frames, scopes and the handler alone.
LEMMA QuietPreserves ==
  ASSUME IInv, UNCHANGED <<count, activator, erred, current, at, label, tvalloc>>,
         status' # "run" \/ status' = status, scopes' \in Nat, handler' \in Created \cup {None},
         frames' \in [Coexprs -> Seq(Nat)],
         \A c \in Created : HasUserFrame(c) => HasUserFrame(c)'
  PROVE  IInv'
BY DEF IInv, Typed, ActivatorReady, Stopped, Framed, Created

LEMMA RunnerFacts ==
  ASSUME IInv, Running
  PROVE  /\ status = "run" /\ current \in Created /\ current \notin erred
         /\ HasUserFrame(current) /\ Slot(current) \in AnySlot /\ Scope(current) \in Nat
<1>1. status = "run" /\ current \in Created /\ current \notin erred
  BY RunningNotErred DEF IInv, Typed, Running
<1>2. HasUserFrame(current)
  BY <1>1 DEF IInv, Framed
<1> QED BY <1>1, <1>2, SlotType, ScopeType DEF IInv

\* The three ways to the next state of the activators.
LEMMA KeepActivators ==
  ASSUME IInv, UNCHANGED <<count, activator>>, NEW t \in Created, activator[t] # None,
         current' \in {current, t}
  PROVE  activator' \in [Coexprs -> Created \cup {None}] /\ ActivatorReady'
BY ActivatorKept DEF IInv, Typed

LEMMA GiveActivator ==
  ASSUME IInv, count' = count, NEW t \in Created, NEW a \in Created, activator[a] # None,
         activator' = [activator EXCEPT ![t] = a], current' \in {current, t}
  PROVE  activator' \in [Coexprs -> Created \cup {None}] /\ ActivatorReady'
<1>1. ActivatorReady'
  BY ActivatorGiven DEF IInv
<1> QED BY <1>1, CreatedCoexprs DEF IInv, Typed

LEMMA ActivatePreserves == ASSUME IInv, NEW t, Activate(t) PROVE IInv'
<1>1. CASE ~HasUserFrame(t)
  BY <1>1, ErrorPreserves DEF Activate, Running
<1>2. CASE HasUserFrame(t)
  <2>1. PICK v : SwitchTo(t, Transmitted(v, t), Slot(current), "failed", "result")
    BY <1>2 DEF Activate
  <2>2. t \in Created /\ current' = t /\ activator' = [activator EXCEPT ![t] = current]
    BY <1>2, <2>1 DEF Activate, SwitchTo, NewActivator
  <2>3. activator' \in [Coexprs -> Created \cup {None}] /\ ActivatorReady'
    BY <1>2, <2>2, GiveActivator, RunnerFacts DEF Activate, IInv, ActivatorReady
  <2> QED BY <1>2, <2>1, <2>2, <2>3, SwitchPreserves, RunnerFacts DEF Activate, Places
<1> QED BY <1>1, <1>2

LEMMA CoactPreserves == ASSUME IInv, NEW t, NEW a, Coact(t, a) PROVE IInv'
<1>1. CASE Refused(t, a)
  BY <1>1, ErrorPreserves DEF Coact, Running
<1>2. CASE ~Refused(t, a)
  <2>1. PICK v : SwitchTo(t, Transmitted(v, t), Slot(current), "failed", "result")
    BY <1>2 DEF Coact
  <2>2. /\ t \in Created /\ HasUserFrame(t) /\ current' = t
        /\ a = None => activator[t] # None
        /\ a # None => activator[a] # None
    BY <1>2, <2>1, TargetReady DEF Coact, SwitchTo
  <2>3. activator' \in [Coexprs -> Created \cup {None}] /\ ActivatorReady'
    <3>1. CASE a = None
      BY <1>2, <2>2, <3>1, KeepActivators DEF Coact
    <3>2. CASE a # None
      BY <1>2, <2>2, <3>2, GiveActivator DEF Coact
    <3> QED BY <3>1, <3>2
  <2> QED BY <1>2, <2>1, <2>2, <2>3, SwitchPreserves, RunnerFacts DEF Coact, Places
<1> QED BY <1>1, <1>2

LEMMA FailToNext ==
  ASSUME NEW t, NEW slot, NEW failing, NEW resuming, FailTo(t, slot, failing, resuming)
  PROVE  current' \in {current, t}
BY DEF FailTo, Crash

LEMMA CofailPreserves == ASSUME IInv, NEW t, NEW a, Cofail(t, a) PROVE IInv'
<1>1. CASE Refused(t, a) \/ label[t] = NoLabel
  BY <1>1, ErrorPreserves DEF Cofail, Running
<1>2. CASE ~(Refused(t, a) \/ label[t] = NoLabel)
  <2>1. FailTo(t, Slot(current), "failed", "result")
    BY <1>2 DEF Cofail
  <2>2. /\ t \in Created /\ current' \in {current, t}
        /\ a = None => activator[t] # None
        /\ a # None => activator[a] # None
    BY <1>2, <2>1, TargetReady, FailToNext DEF Cofail
  <2>3. activator' \in [Coexprs -> Created \cup {None}] /\ ActivatorReady'
    <3>1. CASE a = None
      BY <1>2, <2>2, <3>1, KeepActivators DEF Cofail
    <3>2. CASE a # None
      BY <1>2, <2>2, <3>2, GiveActivator DEF Cofail
    <3> QED BY <3>1, <3>2
  <2> QED BY <1>2, <2>1, <2>2, <2>3, FailPreserves, RunnerFacts DEF Cofail, Places
<1> QED BY <1>1, <1>2

\* The activator of the one that runs can take over.
LEMMA SourceReady ==
  ASSUME IInv
  PROVE  /\ activator[current] \in Created
         /\ activator[current] # None
         /\ activator[activator[current]] # None
BY CreatedCoexprs DEF IInv, Typed, ActivatorReady

LEMMA CoretPreserves == ASSUME IInv, Coret PROVE IInv'
<1>1. CASE ~HasUserFrame(activator[current])
  BY <1>1 DEF IInv, Typed, ActivatorReady, Stopped, Framed, Coret, Crash, Created
<1>2. CASE HasUserFrame(activator[current])
  <2>1. PICK v : SwitchTo(activator[current], Transmitted(v, activator[current]), CoretSlot,
                          "resume", "resume")
    BY <1>2, SourceReady DEF Coret
  <2>2. activator' \in [Coexprs -> Created \cup {None}] /\ ActivatorReady'
    BY <2>1, SourceReady, KeepActivators DEF Coret, SwitchTo
  <2> QED BY <1>2, <2>1, <2>2, SourceReady, SwitchPreserves, RunnerFacts, NoSlotType
          DEF Coret, CoretSlot, Places
<1> QED BY <1>1, <1>2

LEMMA CofailEndPreserves == ASSUME IInv, CofailEnd PROVE IInv'
<1>1. FailTo(activator[current], NoSlot, "ended", "ended") /\ status = "run"
  BY SourceReady DEF CofailEnd
<1>2. current \notin erred
  BY DEF IInv, Stopped, CofailEnd, Running
<1>3. activator' \in [Coexprs -> Created \cup {None}] /\ ActivatorReady'
  BY <1>1, SourceReady, KeepActivators, FailToNext DEF CofailEnd
<1> QED BY <1>1, <1>2, <1>3, SourceReady, FailPreserves, NoSlotType DEF CofailEnd, Places

\* Every operation keeps the inductive invariant: whoever can run has a label to fail to,
\* a frame to go on in, and an activator that has one itself.
THEOREM Preservation == IInv /\ [Next]_vars => IInv'
<1> SUFFICES ASSUME IInv, [Next]_vars PROVE IInv'
  OBVIOUS
<1> USE DEF control
<1>1. CASE UNCHANGED vars
  BY <1>1, QuietPreserves DEF vars, IInv, Typed, HasUserFrame
<1>2. CASE Create
  BY <1>2, NewPreserves, RunnerFacts DEF Create, IInv, Typed
<1>3. ASSUME NEW x \in Coexprs, Refresh(x) PROVE IInv'
  <2>1. x \in Created /\ HasUserFrame(x)
    BY <1>3 DEF Refresh, IInv, Framed, Running
  <2> QED BY <1>3, <2>1, ScopeType, NewPreserves DEF Refresh, IInv, Typed
<1>4. ASSUME NEW x \in Coexprs, Cocopy(x) PROVE IInv'
  BY <1>4, NewPreserves DEF Cocopy, IInv, Typed
<1>5. ASSUME NEW t, Activate(t) PROVE IInv'
  BY <1>5, ActivatePreserves
<1>6. ASSUME NEW t, NEW a, Coact(t, a) PROVE IInv'
  BY <1>6, CoactPreserves
<1>7. ASSUME NEW t, NEW a, Cofail(t, a) PROVE IInv'
  BY <1>7, CofailPreserves
<1>8. CASE Coret
  BY <1>8, CoretPreserves
<1>9. CASE CofailEnd
  BY <1>9, CofailEndPreserves
<1>10. CASE Call
  <2>1. current \in Coexprs /\ scopes + 1 \in Nat
    BY <1>10, CreatedCoexprs DEF IInv, Typed
  <2>2. Append(frames[current], scopes + 1) \in Seq(Nat) \ {<<>>}
    <3>1. ASSUME NEW s \in Seq(Nat), NEW n \in Nat PROVE Append(s, n) \in Seq(Nat) \ {<<>>}
      <4>1. Append(s, n) \in Seq(Nat) /\ Len(Append(s, n)) = Len(s) + 1
        OBVIOUS
      <4>2. Append(s, n) # <<>>
        BY <4>1
      <4> QED BY <4>1, <4>2
    <3> QED BY <2>1, <3>1 DEF IInv, Typed
  <2>3. frames' \in [Coexprs -> Seq(Nat)]
    BY <1>10, <2>1, <2>2 DEF IInv, Typed, Call
  <2>4. \A c \in Created : HasUserFrame(c) => HasUserFrame(c)'
    BY <1>10, <2>1, <2>2, CreatedCoexprs DEF IInv, Typed, Call, HasUserFrame
  <2> QED BY <1>10, <2>1, <2>3, <2>4, QuietPreserves DEF IInv, Typed, Call
<1>11. CASE Return
  <2>1. current \in Coexprs
    BY <1>11, CreatedCoexprs DEF IInv, Typed
  <2>2. Front(frames[current]) \in Seq(Nat) \ {<<>>}
    <3>1. ASSUME NEW s \in Seq(Nat), Len(s) > 1 PROVE Front(s) \in Seq(Nat) \ {<<>>}
      <4>1. Front(s) \in Seq(Nat) /\ Len(Front(s)) = Len(s) - 1
        BY <3>1 DEF Front
      <4> QED BY <3>1, <4>1
    <3> QED BY <1>11, <2>1, <3>1 DEF IInv, Typed, Return
  <2>3. frames' \in [Coexprs -> Seq(Nat)]
    BY <1>11, <2>1, <2>2 DEF IInv, Typed, Return
  <2>4. \A c \in Created : HasUserFrame(c) => HasUserFrame(c)'
    BY <1>11, <2>1, <2>2, CreatedCoexprs DEF IInv, Typed, Return, HasUserFrame
  <2> QED BY <1>11, <2>3, <2>4, QuietPreserves DEF IInv, Typed, Return
<1>12. ASSUME NEW h, SetHandler(h) PROVE IInv'
  BY <1>12, QuietPreserves DEF IInv, Typed, SetHandler, HasUserFrame
<1>13. CASE RunError
  BY <1>13, ErrorPreserves DEF RunError, Running
<1>14. CASE Fatal139
  BY <1>14, QuietPreserves DEF IInv, Typed, Fatal139, Fatal, HasUserFrame
<1>15. CASE Exit
  BY <1>15, QuietPreserves DEF IInv, Typed, Exit, HasUserFrame
<1> QED BY <1>1, <1>2, <1>3, <1>4, <1>5, <1>6, <1>7, <1>8, <1>9, <1>10, <1>11, <1>12, <1>13,
           <1>14, <1>15 DEF Next

\* It holds when the main procedure starts, with any number of loaded programs.
THEOREM InitIInv == Init => IInv
BY LimitsAssumption, NoSlotType
   DEF Init, IInv, Typed, ActivatorReady, Stopped, Framed, HasUserFrame, Created, Coexprs, Main,
       None, Loaded, Places, Labelled

\* Whoever runs can always return or fail to its activator, however coact and cofail
\* have rearranged the activators, for any number of co-expressions and loaded programs.
THEOREM ActivatorReadyTheorem == Spec => []ActivatorReady
<1>1. IInv => ActivatorReady
  BY DEF IInv
<1> QED BY <1>1, InitIInv, Preservation, PTL DEF Spec

\* A co-expression that has caused an error never goes on with its program.
THEOREM ErrorIsFinalTheorem == Spec => []ErrorIsFinal
<1>1. IInv => ErrorIsFinal
  BY DEF IInv, Stopped, ErrorIsFinal
<1> QED BY <1>1, InitIInv, Preservation, PTL DEF Spec

(***************************************************************************)
(* Undefined behaviour. Without loaded programs every co-expression that   *)
(* does not run has a failure label, and where it waits for a value it     *)
(* waits in a frame that is still in use.                                  *)
(***************************************************************************)
Waiting(c) == label[c] # NoLabel /\ (tvalloc[c] = NoSlot \/ InUse(c, tvalloc[c]))

Alive ==
  /\ status # "crash"
  /\ status = "run" =>
       /\ \A c \in Created : HasUserFrame(c)
       /\ \A c \in Created : c # current => Waiting(c)

LEMMA SwitchToAlive ==
  ASSUME IInv, Alive, status = "run", NEW t \in Created, NEW v, NEW slot \in AnySlot,
         slot = NoSlot \/ InUse(current, slot),
         NEW failing \in Places, NEW resuming \in Places,
         SwitchTo(t, v, slot, failing, resuming), UNCHANGED <<count, frames>>
  PROVE  Alive'
<1>1. current \in Created /\ Created \subseteq Coexprs /\ Created' = Created
  BY CreatedCoexprs DEF IInv, Typed, Created
<1>2. \A c \in Created : tvalloc'[c] = IF c = current THEN slot ELSE tvalloc[c]
  BY <1>1 DEF IInv, Typed, SwitchTo
<1>3. \A c \in Created : tvalloc'[c] = NoSlot \/ InUse(c, tvalloc'[c])
  BY <1>2 DEF Alive, Waiting
<1>4. status' = "run" /\ current' = t
  BY <1>3 DEF SwitchTo
<1>5. \A c \in Created : c # t => label'[c] # NoLabel
  BY <1>1 DEF IInv, Typed, Alive, Waiting, SwitchTo, Labels, Places, NoLabel
<1>6. \A c \in Created : HasUserFrame(c)'
  BY DEF Alive, HasUserFrame
<1>7. \A c \in Created : InUse(c, tvalloc'[c]) => InUse(c, tvalloc[c])'
  BY DEF InUse
<1> QED BY <1>1, <1>3, <1>4, <1>5, <1>6, <1>7 DEF Alive, Waiting

LEMMA FailToAlive ==
  ASSUME IInv, Alive, status = "run", NEW t \in Created, NEW slot \in AnySlot,
         slot = NoSlot \/ InUse(current, slot),
         NEW failing \in Places, NEW resuming \in Places,
         FailTo(t, slot, failing, resuming), UNCHANGED <<count, frames>>
  PROVE  Alive'
<1>1. current \in Created /\ Created \subseteq Coexprs /\ Created' = Created
  BY CreatedCoexprs DEF IInv, Typed, Created
<1>2. [label EXCEPT ![current] = failing][t] # NoLabel
  BY <1>1 DEF IInv, Typed, Alive, Waiting, Places, NoLabel
<1>3. /\ status' = "run" /\ current' = t
      /\ tvalloc' = [tvalloc EXCEPT ![current] = slot]
      /\ label' = Labels(t, failing)
  BY <1>2 DEF FailTo
<1>4. \A c \in Created : tvalloc'[c] = NoSlot \/ InUse(c, tvalloc'[c])
  BY <1>1, <1>3 DEF IInv, Typed, Alive, Waiting
<1>5. \A c \in Created : c # t => label'[c] # NoLabel
  BY <1>1, <1>3 DEF IInv, Typed, Alive, Waiting, Labels, Places, NoLabel
<1>6. \A c \in Created : HasUserFrame(c)'
  BY DEF Alive, HasUserFrame
<1>7. \A c \in Created : InUse(c, tvalloc'[c]) => InUse(c, tvalloc[c])'
  BY DEF InUse
<1> QED BY <1>1, <1>3, <1>4, <1>5, <1>6, <1>7 DEF Alive, Waiting

LEMMA SlotInUse == ASSUME IInv, Running PROVE InUse(current, Slot(current))
<1>1. frames[current] \in Seq(Nat) /\ frames[current] # <<>>
  BY RunnerFacts, CreatedCoexprs DEF IInv, Typed, HasUserFrame
<1>2. Len(frames[current]) \in DOMAIN frames[current]
  BY <1>1
<1> QED BY <1>2 DEF InUse, Slot, Scope, Last

LEMMA ErrorAlive ==
  ASSUME IInv, Alive, status = "run", Error, UNCHANGED <<count, frames>>
  PROVE  Alive'
<1>1. CASE handler = None \/ activator[handler] = None
  BY <1>1 DEF Error, CoactHandler, Fatal, Alive
<1>2. CASE ~(handler = None \/ activator[handler] = None)
  BY <1>2, FailToAlive, NoSlotType DEF IInv, Typed, Error, CoactHandler, Places
<1> QED BY <1>1, <1>2

LEMMA NewAlive ==
  ASSUME IInv, Alive, NEW scope, NEW n, New(scope, n) PROVE Alive'
<1>1. count \in Nat /\ count + 1 \in Coexprs /\ count' = count + 1
  BY LimitsAssumption DEF IInv, Typed, New, Coexprs
<1>2. Created' = Created \cup {count + 1} /\ count + 1 \notin Created
  BY <1>1 DEF Created
<1>3. \A c \in Created : /\ label'[c] = label[c] /\ tvalloc'[c] = tvalloc[c]
                         /\ frames'[c] = frames[c]
  BY <1>1, <1>2, CreatedCoexprs DEF IInv, Typed, New
<1>4. /\ label'[count + 1] = "start" /\ tvalloc'[count + 1] = NoSlot
      /\ frames'[count + 1] = <<scope>>
  BY <1>1 DEF IInv, Typed, New
<1>5. \A c \in Created : HasUserFrame(c) => HasUserFrame(c)'
  BY <1>3 DEF HasUserFrame
<1>6. \A c \in Created : Waiting(c) => Waiting(c)'
  BY <1>3 DEF Waiting, InUse
<1>7. ASSUME NEW c, c = count + 1 PROVE HasUserFrame(c)' /\ Waiting(c)'
  <2>1. frames'[count + 1] # <<>>
    <3>1. <<scope>> # <<>>
      OBVIOUS
    <3> QED BY <1>4, <3>1
  <2>2. "start" # NoLabel
    BY DEF NoLabel
  <2> QED BY <1>7, <1>4, <2>1, <2>2 DEF HasUserFrame, Waiting
<1> QED BY <1>2, <1>5, <1>6, <1>7 DEF Alive, New

LEMMA NextAlive == IInv /\ Alive /\ [Next]_vars => Alive'
<1> SUFFICES ASSUME IInv, Alive, [Next]_vars PROVE Alive'
  OBVIOUS
<1> USE DEF control
<1>1. CASE UNCHANGED vars
  BY <1>1 DEF vars, Alive, Waiting, InUse, HasUserFrame, Created
<1>2. ASSUME NEW x \in Coexprs, Create \/ Refresh(x) \/ Cocopy(x) PROVE Alive'
  <2>1. PICK scope, n : New(scope, n)
    BY <1>2 DEF Create, Refresh, Cocopy
  <2> QED BY <2>1, NewAlive
<1>3. ASSUME NEW t, Activate(t) PROVE Alive'
  <2>1. CASE HasUserFrame(t)
    <3>1. PICK v : SwitchTo(t, Transmitted(v, t), Slot(current), "failed", "result")
      BY <1>3, <2>1 DEF Activate
    <3> QED BY <1>3, <3>1, SwitchToAlive, RunnerFacts, SlotInUse DEF Activate, Places
  <2> QED BY <1>3, <2>1, ErrorAlive DEF Activate, Running
<1>4. ASSUME NEW t, NEW a, Coact(t, a) PROVE Alive'
  <2>1. CASE ~Refused(t, a)
    <3>1. PICK v : SwitchTo(t, Transmitted(v, t), Slot(current), "failed", "result")
      BY <1>4, <2>1 DEF Coact
    <3>2. t \in Created
      BY <1>4, <2>1, TargetReady DEF Coact
    <3> QED BY <1>4, <3>1, <3>2, SwitchToAlive, RunnerFacts, SlotInUse DEF Coact, Places
  <2> QED BY <1>4, <2>1, ErrorAlive DEF Coact, Running
<1>5. ASSUME NEW t, NEW a, Cofail(t, a) PROVE Alive'
  <2>1. CASE ~(Refused(t, a) \/ label[t] = NoLabel)
    <3>1. FailTo(t, Slot(current), "failed", "result") /\ t \in Created
      BY <1>5, <2>1, TargetReady DEF Cofail
    <3> QED BY <1>5, <3>1, FailToAlive, RunnerFacts, SlotInUse DEF Cofail, Places
  <2> QED BY <1>5, <2>1, ErrorAlive DEF Cofail, Running
<1>6. CASE Coret
  <2>1. PICK v : SwitchTo(activator[current], Transmitted(v, activator[current]), CoretSlot,
                          "resume", "resume")
    BY <1>6, SourceReady DEF Coret, Running, Alive
  <2> QED BY <1>6, <2>1, SwitchToAlive, SourceReady, RunnerFacts, NoSlotType
          DEF Coret, CoretSlot, Places
<1>7. CASE CofailEnd
  <2>1. FailTo(activator[current], NoSlot, "ended", "ended") /\ status = "run"
    BY <1>7, SourceReady DEF CofailEnd
  <2> QED BY <1>7, <2>1, FailToAlive, SourceReady, NoSlotType DEF CofailEnd, Places
<1>8. ASSUME Call \/ Return,
             UNCHANGED <<count, current, label, tvalloc, status>>,
             \A c \in Created : /\ c # current => frames'[c] = frames[c]
                                /\ HasUserFrame(c) => HasUserFrame(c)'
      PROVE  Alive'
  BY <1>8 DEF Alive, Waiting, InUse, Created
<1>9. CASE Call
  <2>1. current \in Coexprs /\ frames[current] \in Seq(Nat) /\ scopes + 1 \in Nat
    BY CreatedCoexprs DEF IInv, Typed
  <2>2. Len(Append(frames[current], scopes + 1)) = Len(frames[current]) + 1
    BY <2>1
  <2>3. Append(frames[current], scopes + 1) # <<>>
    BY <2>1, <2>2
  <2> QED BY <1>9, <2>1, <2>3, <1>8, CreatedCoexprs DEF IInv, Typed, Call, HasUserFrame
<1>10. CASE Return
  <2>1. current \in Coexprs /\ frames[current] \in Seq(Nat)
    BY CreatedCoexprs DEF IInv, Typed
  <2>2. Len(Front(frames[current])) = Len(frames[current]) - 1
    BY <1>10, <2>1 DEF Front, Return
  <2>3. Front(frames[current]) # <<>>
    BY <1>10, <2>1, <2>2 DEF Return
  <2> QED BY <1>10, <2>1, <2>3, <1>8, CreatedCoexprs DEF IInv, Typed, Return, HasUserFrame
<1>11. ASSUME NEW h, SetHandler(h) PROVE Alive'
  BY <1>11 DEF SetHandler, Alive, Waiting, InUse, HasUserFrame, Created
<1>12. CASE RunError
  BY <1>12, ErrorAlive DEF RunError, Running
<1>13. CASE Fatal139 \/ Exit
  BY <1>13 DEF Fatal139, Fatal, Exit, Alive
<1> QED
  <2>1. Main \in Coexprs
    BY LimitsAssumption DEF Main, Coexprs
  <2> QED BY <2>1, <1>1, <1>2, <1>3, <1>4, <1>5, <1>6, <1>7, <1>9, <1>10, <1>11, <1>12, <1>13
          DEF Next

\* With no loaded programs about, no transfer finds a null label, a null activator or
\* a frame that is gone.
THEOREM NeverCrashesTheorem == ASSUME Loads = 0 PROVE Spec => []NeverCrashes
<1>1. Init => Alive
  <2> SUFFICES ASSUME Init PROVE Alive
    OBVIOUS
  <2>1. Created = {Main} /\ Main \in Coexprs /\ current = Main /\ status = "run"
    BY LimitsAssumption DEF Init, Created, Main, Coexprs
  <2>2. HasUserFrame(Main)
    BY <2>1 DEF Init, HasUserFrame
  <2> QED BY <2>1, <2>2 DEF Alive
<1>2. Alive => NeverCrashes
  BY DEF Alive, NeverCrashes
<1> QED BY <1>1, <1>2, InitIInv, Preservation, NextAlive, PTL DEF Spec

(***************************************************************************)
(* Variables transmitted. A slot waited for belongs to the newest procedure *)
(* of its co-expression, whose locals are the ones retderef spares.        *)
(***************************************************************************)
Newest(c, slot) == slot = NoSlot \/ slot.scope = Scope(c)

Scoped ==
  /\ ResultInScope
  /\ status = "run" => \A c \in Created : c # current => Newest(c, tvalloc[c])

LEMMA NothingInScope == ASSUME result' = Nothing PROVE ResultInScope'
BY DEF ResultInScope, Nothing

LEMMA SwitchToScoped ==
  ASSUME IInv, Scoped, status = "run", NEW t \in Created, NEW v \in {Plain, Scope(current)},
         NEW slot \in AnySlot, Newest(current, slot),
         NEW failing \in Places, NEW resuming \in Places,
         SwitchTo(t, Transmitted(v, t), slot, failing, resuming), UNCHANGED <<count, frames>>
  PROVE  Scoped'
<1>1. current \in Created /\ Created \subseteq Coexprs /\ Created' = Created
  BY CreatedCoexprs DEF IInv, Typed, Created
<1>2. \A c \in Created : tvalloc'[c] = IF c = current THEN slot ELSE tvalloc[c]
  BY <1>1 DEF IInv, Typed, SwitchTo
<1>3. \A c \in Created : Newest(c, tvalloc'[c])
  BY <1>2 DEF Scoped
<1>4. Transmitted(v, t) \in {Plain, Scope(t)}
  BY DEF Transmitted
<1>5. ResultInScope'
  <2>1. CASE tvalloc'[t] = NoSlot
    BY <2>1, NothingInScope DEF SwitchTo
  <2>2. CASE tvalloc'[t] # NoSlot
    <3>1. tvalloc'[t].scope = Scope(t)
      BY <1>3, <2>2 DEF Newest
    <3>2. result' = [slot |-> tvalloc'[t], v |-> Transmitted(v, t)]
      BY <2>2 DEF SwitchTo
    <3> QED BY <1>4, <3>1, <3>2 DEF ResultInScope
  <2> QED BY <2>1, <2>2
<1>6. \A c \in Created : Newest(c, tvalloc'[c]) => Newest(c, tvalloc[c])'
  BY DEF Newest, Scope
<1> QED BY <1>1, <1>3, <1>5, <1>6 DEF Scoped

LEMMA FailToScoped ==
  ASSUME IInv, Scoped, status = "run", NEW t \in Created,
         NEW slot \in AnySlot, Newest(current, slot),
         NEW failing \in Places, NEW resuming \in Places,
         FailTo(t, slot, failing, resuming), UNCHANGED <<count, frames>>
  PROVE  Scoped'
<1>1. CASE status' = "crash"
  BY <1>1, NothingInScope DEF FailTo, Crash, Scoped
<1>2. CASE status' # "crash"
  <2>1. tvalloc' = [tvalloc EXCEPT ![current] = slot] /\ result' = Nothing
    BY <1>2 DEF FailTo, Crash
  <2>2. \A c \in Created : Newest(c, tvalloc'[c])
    BY <2>1, CreatedCoexprs DEF Scoped, IInv, Typed
  <2>3. \A c \in Created : Newest(c, tvalloc'[c]) => Newest(c, tvalloc[c])'
    BY DEF Newest, Scope
  <2> QED BY <2>1, <2>2, <2>3, NothingInScope DEF Scoped, Created
<1> QED BY <1>1, <1>2

LEMMA NewestSlot == Newest(current, NoSlot) /\ Newest(current, Slot(current))
BY DEF Newest, Slot

LEMMA ErrorScoped ==
  ASSUME IInv, Scoped, status = "run", Error, UNCHANGED <<count, frames>>
  PROVE  Scoped'
<1>1. CASE handler = None \/ activator[handler] = None
  BY <1>1, NothingInScope DEF Error, CoactHandler, Fatal, Scoped
<1>2. CASE ~(handler = None \/ activator[handler] = None)
  BY <1>2, FailToScoped, NoSlotType, NewestSlot DEF IInv, Typed, Error, CoactHandler, Places
<1> QED BY <1>1, <1>2

LEMMA NewScoped ==
  ASSUME IInv, Scoped, NEW scope, NEW n, New(scope, n) PROVE Scoped'
<1>1. count \in Nat /\ count + 1 \in Coexprs /\ count' = count + 1
  BY LimitsAssumption DEF IInv, Typed, New, Coexprs
<1>2. Created' = Created \cup {count + 1} /\ count + 1 \notin Created
  BY <1>1 DEF Created
<1>3. \A c \in Created : tvalloc'[c] = tvalloc[c] /\ frames'[c] = frames[c]
  BY <1>1, <1>2, CreatedCoexprs DEF IInv, Typed, New
<1>4. tvalloc'[count + 1] = NoSlot
  BY <1>1 DEF IInv, Typed, New
<1>5. \A c \in Created : Newest(c, tvalloc[c]) => Newest(c, tvalloc[c])'
  BY <1>3 DEF Newest, Scope
<1>6. ASSUME NEW c, c = count + 1 PROVE Newest(c, tvalloc[c])'
  BY <1>4, <1>6 DEF Newest
<1> QED BY <1>2, <1>5, <1>6, NothingInScope DEF Scoped, New

LEMMA NextScoped == IInv /\ Scoped /\ [Next]_vars => Scoped'
<1> SUFFICES ASSUME IInv, Scoped, [Next]_vars PROVE Scoped'
  OBVIOUS
<1> USE DEF control
<1>1. CASE UNCHANGED vars
  BY <1>1 DEF vars, Scoped, ResultInScope, Newest, Scope, Created
<1>2. ASSUME NEW x \in Coexprs, Create \/ Refresh(x) \/ Cocopy(x) PROVE Scoped'
  <2>1. PICK scope, n : New(scope, n)
    BY <1>2 DEF Create, Refresh, Cocopy
  <2> QED BY <2>1, NewScoped
<1>3. ASSUME NEW t, Activate(t) PROVE Scoped'
  <2>1. CASE HasUserFrame(t)
    <3>1. PICK v \in {Plain, Scope(current)} :
            SwitchTo(t, Transmitted(v, t), Slot(current), "failed", "result")
      BY <1>3, <2>1 DEF Activate
    <3> QED BY <1>3, <3>1, SwitchToScoped, RunnerFacts, NewestSlot DEF Activate, Places
  <2> QED BY <1>3, <2>1, ErrorScoped DEF Activate, Running
<1>4. ASSUME NEW t, NEW a, Coact(t, a) PROVE Scoped'
  <2>1. CASE ~Refused(t, a)
    <3>1. PICK v \in {Plain, Scope(current)} :
            SwitchTo(t, Transmitted(v, t), Slot(current), "failed", "result")
      BY <1>4, <2>1 DEF Coact
    <3>2. t \in Created
      BY <1>4, <2>1, TargetReady DEF Coact
    <3> QED BY <1>4, <3>1, <3>2, SwitchToScoped, RunnerFacts, NewestSlot DEF Coact, Places
  <2> QED BY <1>4, <2>1, ErrorScoped DEF Coact, Running
<1>5. ASSUME NEW t, NEW a, Cofail(t, a) PROVE Scoped'
  <2>1. CASE ~(Refused(t, a) \/ label[t] = NoLabel)
    <3>1. FailTo(t, Slot(current), "failed", "result") /\ t \in Created
      BY <1>5, <2>1, TargetReady DEF Cofail
    <3> QED BY <1>5, <3>1, FailToScoped, RunnerFacts, NewestSlot DEF Cofail, Places
  <2> QED BY <1>5, <2>1, ErrorScoped DEF Cofail, Running
<1>6. CASE Coret
  <2>1. CASE ~HasUserFrame(activator[current])
    BY <1>6, <2>1, NothingInScope DEF Coret, Crash, Scoped
  <2>2. CASE HasUserFrame(activator[current])
    <3>1. PICK v \in {Plain, Scope(current)} :
            SwitchTo(activator[current], Transmitted(v, activator[current]), CoretSlot,
                     "resume", "resume")
      BY <1>6, <2>2, SourceReady DEF Coret
    <3> QED BY <1>6, <3>1, SwitchToScoped, SourceReady, RunnerFacts, NoSlotType, NewestSlot
            DEF Coret, CoretSlot, Places
  <2> QED BY <2>1, <2>2
<1>7. CASE CofailEnd
  <2>1. FailTo(activator[current], NoSlot, "ended", "ended") /\ status = "run"
    BY <1>7, SourceReady DEF CofailEnd
  <2> QED BY <1>7, <2>1, FailToScoped, SourceReady, NoSlotType, NewestSlot DEF CofailEnd, Places
<1>8. CASE Call \/ Return
  <2>1. \A c \in Created : c # current => frames'[c] = frames[c]
    BY <1>8, CreatedCoexprs DEF Call, Return, IInv, Typed
  <2>2. result' = Nothing /\ UNCHANGED <<count, current, tvalloc, status>>
    BY <1>8 DEF Call, Return
  <2> QED BY <2>1, <2>2, NothingInScope DEF Scoped, Newest, Scope, Created
<1>9. ASSUME NEW h, SetHandler(h) PROVE Scoped'
  BY <1>9, NothingInScope DEF SetHandler, Scoped, Newest, Scope, Created
<1>10. CASE RunError
  BY <1>10, ErrorScoped DEF RunError, Running
<1>11. CASE Fatal139 \/ Exit
  BY <1>11, NothingInScope DEF Fatal139, Fatal, Exit, Scoped
<1> QED
  <2>1. Main \in Coexprs
    BY LimitsAssumption DEF Main, Coexprs
  <2> QED BY <2>1, <1>1, <1>2, <1>3, <1>4, <1>5, <1>6, <1>7, <1>8, <1>9, <1>10, <1>11 DEF Next

\* A procedure is never handed a local variable of another, whichever way control and
\* values travel.
THEOREM ResultInScopeTheorem == Spec => []ResultInScope
<1>1. Init => Scoped
  <2> SUFFICES ASSUME Init PROVE Scoped
    OBVIOUS
  <2>1. \A c \in Created : c \in Coexprs
    BY LimitsAssumption DEF Init, Created, Coexprs
  <2> QED BY <2>1 DEF Init, Scoped, ResultInScope, Nothing, Newest
<1>2. Scoped => ResultInScope
  BY DEF Scoped
<1> QED BY <1>1, <1>2, InitIInv, Preservation, NextScoped, PTL DEF Spec

(***************************************************************************)
(* Types within the bounds, and who has a label.                           *)
(***************************************************************************)

\* Everyone but the one that runs has a place to go on at when it fails.
OthersLabelled ==
  status = "run" => \A c \in Created \ Loaded : label[c] = NoLabel <=> c = current

Bounded ==
  /\ tvalloc \in [Coexprs -> Slots]
  /\ frames \in [Coexprs -> Seq(1..MaxScopes)]
  /\ \A c \in Coexprs : Len(frames[c]) <= MaxDepth
  /\ scopes \in 1..MaxScopes
  /\ status \in {"run", "done", "fatal", "crash"}
  /\ result \in [slot : Slots, v : 0..MaxScopes]
  /\ orderly \in BOOLEAN
  /\ OthersLabelled

LEMMA NothingBounded == NoSlot \in Slots /\ Nothing \in [slot : Slots, v : 0..MaxScopes]
BY LimitsAssumption DEF NoSlot, Nothing, Slots, Plain

LEMMA SlotBounded ==
  ASSUME IInv, Bounded, NEW c \in Created, HasUserFrame(c)
  PROVE  Slot(c) \in Slots /\ Scope(c) \in 1..MaxScopes /\ frames[c][1] \in 1..MaxScopes
<1>1. frames[c] \in Seq(1..MaxScopes) /\ frames[c] # <<>> /\ Len(frames[c]) <= MaxDepth
  BY CreatedCoexprs DEF IInv, Typed, Bounded, HasUserFrame
<1>2. Len(frames[c]) \in 1..MaxDepth /\ frames[c][Len(frames[c])] \in 1..MaxScopes
      /\ frames[c][1] \in 1..MaxScopes
  BY <1>1, LimitsAssumption
<1> QED BY <1>2, LimitsAssumption DEF Slot, Scope, Last, Slots

LEMMA SwitchToBounded ==
  ASSUME IInv, Bounded, status = "run", NEW t \in Created, NEW v \in 0..MaxScopes,
         NEW slot \in Slots, NEW failing \in Places, NEW resuming \in Places,
         SwitchTo(t, v, slot, failing, resuming),
         UNCHANGED <<count, frames, scopes>>, orderly' \in BOOLEAN
  PROVE  Bounded'
<1>1. current \in Coexprs /\ t \in Coexprs /\ current \in Created /\ Created \subseteq Coexprs
  BY CreatedCoexprs DEF IInv, Typed
<1>2. tvalloc' \in [Coexprs -> Slots] /\ tvalloc'[t] \in Slots
  BY <1>1 DEF Bounded, SwitchTo
<1>3. result' \in [slot : Slots, v : 0..MaxScopes]
  BY <1>2, NothingBounded DEF SwitchTo
<1>4. OthersLabelled'
  BY <1>1 DEF Bounded, OthersLabelled, SwitchTo, Labels, IInv, Typed, Labelled, Places, NoLabel,
              Created
<1> QED BY <1>2, <1>3, <1>4 DEF Bounded, SwitchTo

LEMMA FailToBounded ==
  ASSUME IInv, Bounded, status = "run", NEW t \in Created,
         NEW slot \in Slots, NEW failing \in Places, NEW resuming \in Places,
         FailTo(t, slot, failing, resuming),
         UNCHANGED <<count, frames, scopes>>, orderly' \in BOOLEAN
  PROVE  Bounded'
<1>1. current \in Coexprs /\ t \in Coexprs /\ current \in Created /\ Created \subseteq Coexprs
  BY CreatedCoexprs DEF IInv, Typed
<1>2. CASE Crash
  BY <1>2, NothingBounded DEF Crash, Bounded, OthersLabelled
<1>3. CASE /\ current' = t /\ label' = Labels(t, failing) /\ status' = status
           /\ tvalloc' = [tvalloc EXCEPT ![current] = slot] /\ result' = Nothing
  <2>1. tvalloc' \in [Coexprs -> Slots]
    BY <1>1, <1>3 DEF Bounded
  <2>2. OthersLabelled'
    BY <1>1, <1>3 DEF Bounded, OthersLabelled, Labels, IInv, Typed, Labelled, Places, NoLabel,
                      Created
  <2> QED BY <1>3, <2>1, <2>2, NothingBounded DEF Bounded
<1> QED BY <1>2, <1>3 DEF FailTo

LEMMA ErrorBounded ==
  ASSUME IInv, Bounded, status = "run", Error, UNCHANGED <<count, frames, scopes>>
  PROVE  Bounded'
<1>1. orderly' \in BOOLEAN
  BY DEF Error
<1>2. CASE handler = None \/ activator[handler] = None
  BY <1>1, <1>2, NothingBounded DEF Error, CoactHandler, Fatal, Bounded, OthersLabelled
<1>3. CASE ~(handler = None \/ activator[handler] = None)
  BY <1>1, <1>3, FailToBounded, NothingBounded DEF IInv, Typed, Error, CoactHandler, Places
<1> QED BY <1>2, <1>3

LEMMA FramesBounded ==
  ASSUME NEW S, NEW f \in [Coexprs -> Seq(S)], NEW k, NEW g \in Seq(S),
         \A c \in Coexprs : Len(f[c]) <= MaxDepth, Len(g) <= MaxDepth
  PROVE  /\ [f EXCEPT ![k] = g] \in [Coexprs -> Seq(S)]
         /\ \A c \in Coexprs : Len([f EXCEPT ![k] = g][c]) <= MaxDepth
OBVIOUS

LEMMA NewBounded ==
  ASSUME IInv, Bounded, NEW scope \in 1..MaxScopes, NEW n \in 1..MaxScopes, New(scope, n)
  PROVE  Bounded'
<1>1. count \in Nat /\ count + 1 \in Coexprs /\ count' = count + 1
  BY LimitsAssumption DEF IInv, Typed, New, Coexprs
<1>2. Created' = Created \cup {count + 1} /\ current \in Created /\ count + 1 # current
  BY <1>1 DEF Created, IInv, Typed
<1>3. <<scope>> \in Seq(1..MaxScopes) /\ Len(<<scope>>) <= MaxDepth
  BY LimitsAssumption
<1>4. /\ frames' \in [Coexprs -> Seq(1..MaxScopes)]
      /\ \A c \in Coexprs : Len(frames'[c]) <= MaxDepth
  <2>1. frames' = [frames EXCEPT ![count + 1] = <<scope>>]
    BY DEF New
  <2> QED BY <1>3, <2>1, FramesBounded DEF Bounded
<1>5. OthersLabelled'
  BY <1>1, <1>2, CreatedCoexprs DEF IInv, Typed, Bounded, OthersLabelled, New, NoLabel
<1>6. tvalloc' \in [Coexprs -> Slots]
  BY NothingBounded DEF Bounded, New
<1> QED BY <1>4, <1>5, <1>6, NothingBounded DEF Bounded, New

\* What is transmitted is no variable or one of the sender's locals.
LEMMA TransmittedBounded ==
  ASSUME IInv, Bounded, HasUserFrame(current), NEW v \in {Plain, Scope(current)}, NEW t
  PROVE  Transmitted(v, t) \in 0..MaxScopes
<1>1. Scope(current) \in 1..MaxScopes
  BY SlotBounded DEF IInv, Typed
<1> QED BY <1>1, LimitsAssumption DEF Transmitted, Plain

LEMMA NextBounded == IInv /\ Bounded /\ [Next]_vars => Bounded'
<1> SUFFICES ASSUME IInv, Bounded, [Next]_vars PROVE Bounded'
  OBVIOUS
<1> USE DEF control
<1>0. Running => /\ status = "run" /\ current \in Created /\ HasUserFrame(current)
                 /\ Slot(current) \in Slots /\ Scope(current) \in 1..MaxScopes
  BY RunnerFacts, SlotBounded
<1>1. CASE UNCHANGED vars
  BY <1>1 DEF vars, Bounded, OthersLabelled, Created
<1>2. ASSUME NEW x \in Coexprs, Create \/ Refresh(x) \/ Cocopy(x) PROVE Bounded'
  <2>1. CASE Create
    BY <2>1, <1>0, NewBounded DEF Create, Bounded
  <2>2. CASE Refresh(x)
    <3>1. x \in Created /\ HasUserFrame(x)
      BY <2>2 DEF Refresh, IInv, Framed, Running
    <3> QED BY <2>2, <3>1, SlotBounded, NewBounded DEF Refresh, Bounded
  <2>3. CASE Cocopy(x)
    <3>1. scopes + 1 \in 1..MaxScopes
      BY <2>3, LimitsAssumption DEF Cocopy, Bounded
    <3> QED BY <2>3, <3>1, NewBounded DEF Cocopy
  <2> QED BY <1>2, <2>1, <2>2, <2>3
<1>3. ASSUME NEW t, Activate(t) PROVE Bounded'
  <2>1. CASE HasUserFrame(t)
    <3>1. PICK v \in {Plain, Scope(current)} :
            SwitchTo(t, Transmitted(v, t), Slot(current), "failed", "result")
      BY <1>3, <2>1 DEF Activate
    <3>2. orderly' \in BOOLEAN
      BY <1>3, <2>1 DEF Activate
    <3>3. Transmitted(v, t) \in 0..MaxScopes
      BY <1>0, <1>3, TransmittedBounded DEF Activate
    <3> QED BY <1>0, <1>3, <3>1, <3>2, <3>3, SwitchToBounded DEF Activate, Places
  <2> QED BY <1>3, <2>1, ErrorBounded DEF Activate, Running
<1>4. ASSUME NEW t, NEW a, Coact(t, a) PROVE Bounded'
  <2>1. CASE ~Refused(t, a)
    <3>1. PICK v \in {Plain, Scope(current)} :
            SwitchTo(t, Transmitted(v, t), Slot(current), "failed", "result")
      BY <1>4, <2>1 DEF Coact
    <3>2. t \in Created /\ orderly' \in BOOLEAN
      BY <1>4, <2>1, TargetReady DEF Coact
    <3>3. Transmitted(v, t) \in 0..MaxScopes
      BY <1>0, <1>4, TransmittedBounded DEF Coact
    <3> QED BY <1>0, <1>4, <3>1, <3>2, <3>3, SwitchToBounded DEF Coact, Places
  <2> QED BY <1>4, <2>1, ErrorBounded DEF Coact, Running
<1>5. ASSUME NEW t, NEW a, Cofail(t, a) PROVE Bounded'
  <2>1. CASE ~(Refused(t, a) \/ label[t] = NoLabel)
    <3>1. FailTo(t, Slot(current), "failed", "result") /\ t \in Created /\ orderly' \in BOOLEAN
      BY <1>5, <2>1, TargetReady DEF Cofail
    <3> QED BY <1>0, <1>5, <3>1, FailToBounded DEF Cofail, Places
  <2> QED BY <1>5, <2>1, ErrorBounded DEF Cofail, Running
<1>6. CASE Coret
  <2>1. CASE ~HasUserFrame(activator[current])
    BY <1>6, <2>1, NothingBounded DEF Coret, Crash, Bounded, OthersLabelled
  <2>2. CASE HasUserFrame(activator[current])
    <3>1. PICK v \in {Plain, Scope(current)} :
            SwitchTo(activator[current], Transmitted(v, activator[current]), CoretSlot,
                     "resume", "resume")
      BY <1>6, <2>2, SourceReady DEF Coret
    <3>2. Transmitted(v, activator[current]) \in 0..MaxScopes
      BY <1>0, <1>6, TransmittedBounded DEF Coret
    <3>3. orderly' \in BOOLEAN
      BY <1>6 DEF Coret, Bounded
    <3> QED BY <1>0, <1>6, <3>1, <3>2, <3>3, SwitchToBounded, SourceReady, NothingBounded
            DEF Coret, CoretSlot, Places
  <2> QED BY <2>1, <2>2
<1>7. CASE CofailEnd
  <2>1. FailTo(activator[current], NoSlot, "ended", "ended") /\ status = "run"
    BY <1>7, SourceReady DEF CofailEnd
  <2>2. orderly' \in BOOLEAN
    BY <1>7 DEF CofailEnd, Bounded
  <2> QED BY <1>7, <2>1, <2>2, FailToBounded, SourceReady, NothingBounded DEF CofailEnd, Places
<1>8. CASE Call
  <2>1. current \in Coexprs /\ scopes + 1 \in 1..MaxScopes
    BY <1>8, CreatedCoexprs, LimitsAssumption DEF IInv, Typed, Call, Bounded
  <2>2. /\ Append(frames[current], scopes + 1) \in Seq(1..MaxScopes)
        /\ Len(Append(frames[current], scopes + 1)) <= MaxDepth
    <3>1. ASSUME NEW S, NEW s \in Seq(S), NEW n \in S
          PROVE Append(s, n) \in Seq(S) /\ Len(Append(s, n)) = Len(s) + 1 /\ Len(s) \in Nat
      OBVIOUS
    <3>2. frames[current] \in Seq(1..MaxScopes) /\ Len(frames[current]) < MaxDepth
      BY <2>1, <1>8 DEF Bounded, Call
    <3> QED BY <2>1, <3>1, <3>2, LimitsAssumption
  <2>3. /\ frames' \in [Coexprs -> Seq(1..MaxScopes)]
        /\ \A c \in Coexprs : Len(frames'[c]) <= MaxDepth
    BY <1>8, <2>1, <2>2 DEF Bounded, Call
  <2> QED BY <1>8, <2>1, <2>3, NothingBounded DEF Bounded, OthersLabelled, Call, Created
<1>9. CASE Return
  <2>1. current \in Coexprs
    BY <1>9, CreatedCoexprs DEF IInv, Typed
  <2>2. /\ Front(frames[current]) \in Seq(1..MaxScopes)
        /\ Len(Front(frames[current])) <= MaxDepth
    <3>1. ASSUME NEW S, NEW s \in Seq(S), Len(s) > 1
          PROVE  Front(s) \in Seq(S) /\ Len(Front(s)) = Len(s) - 1 /\ Len(s) \in Nat
      BY <3>1 DEF Front
    <3>2. frames[current] \in Seq(1..MaxScopes) /\ Len(frames[current]) <= MaxDepth
          /\ Len(frames[current]) > 1
      BY <2>1, <1>9 DEF Bounded, Return
    <3> QED BY <3>1, <3>2, LimitsAssumption
  <2>3. /\ frames' \in [Coexprs -> Seq(1..MaxScopes)]
        /\ \A c \in Coexprs : Len(frames'[c]) <= MaxDepth
    BY <1>9, <2>1, <2>2 DEF Bounded, Return
  <2> QED BY <1>9, <2>3, NothingBounded DEF Bounded, OthersLabelled, Return, Created
<1>10. ASSUME NEW h, SetHandler(h) PROVE Bounded'
  BY <1>10, NothingBounded DEF SetHandler, Bounded, OthersLabelled, Created
<1>11. CASE RunError
  BY <1>11, ErrorBounded DEF RunError, Running
<1>12. CASE Fatal139 \/ Exit
  BY <1>12, NothingBounded DEF Fatal139, Fatal, Exit, Bounded, OthersLabelled, Created
<1> QED
  <2>1. Main \in Coexprs
    BY LimitsAssumption DEF Main, Coexprs
  <2> QED BY <2>1, <1>1, <1>2, <1>3, <1>4, <1>5, <1>6, <1>7, <1>8, <1>9, <1>10, <1>11, <1>12
          DEF Next

LEMMA InitBounded == Init => Bounded
<1> SUFFICES ASSUME Init PROVE Bounded
  OBVIOUS
<1>1. <<>> \in Seq(1..MaxScopes) /\ <<1>> \in Seq(1..MaxScopes) /\ Len(<<1>>) = 1
  BY LimitsAssumption
<1>2. Created \ Loaded = {Main} /\ current = Main /\ Main \in Coexprs
  BY LimitsAssumption DEF Init, Created, Loaded, Main, Coexprs
<1>3. OthersLabelled
  BY <1>2 DEF Init, OthersLabelled
<1>4. /\ frames \in [Coexprs -> Seq(1..MaxScopes)]
      /\ \A c \in Coexprs : Len(frames[c]) <= MaxDepth
  <2>1. \A c \in Coexprs : frames[c] = IF c = Main THEN <<1>> ELSE <<>>
    BY DEF Init
  <2>2. frames = [c \in Coexprs |-> frames[c]]
    BY DEF Init
  <2>3. \A c \in Coexprs : frames[c] \in Seq(1..MaxScopes) /\ Len(frames[c]) <= MaxDepth
    <3>1. ASSUME NEW c \in Coexprs, c = Main
          PROVE  frames[c] \in Seq(1..MaxScopes) /\ Len(frames[c]) <= MaxDepth
      <4>1. frames[c] = <<1>>
        BY <2>1, <3>1
      <4> QED BY <1>1, <4>1, LimitsAssumption
    <3>2. ASSUME NEW c \in Coexprs, c # Main
          PROVE  frames[c] \in Seq(1..MaxScopes) /\ Len(frames[c]) <= MaxDepth
      <4>1. frames[c] = <<>>
        BY <2>1, <3>2
      <4> QED BY <1>1, <4>1, LimitsAssumption
    <3> QED BY <3>1, <3>2
  <2> QED BY <2>2, <2>3
<1> QED BY <1>3, <1>4, NothingBounded, LimitsAssumption DEF Init, Bounded

\* Frames, slots and values stay what they should be within any bounds; and as long as the
\* program runs, every co-expression but the one that runs (and programs not yet run) has
\* the failure label by which cofail tells whether failure can be transmitted to it.
THEOREM TypesTheorem == Spec => []TypeOK
<1>1. IInv /\ Bounded => TypeOK
  BY DEF IInv, Typed, Bounded, OthersLabelled, TypeOK, Labelled
<1> QED BY <1>1, InitIInv, Preservation, InitBounded, NextBounded, PTL DEF Spec

(***************************************************************************)
(* Nesting. As long as programs only use @, on co-expressions that do not  *)
(* wait, those control will come back to form a path: from the one that    *)
(* runs, each to its activator, to &main.                                  *)
(***************************************************************************)
Path(n, s) ==
  /\ n \in Nat \ {0} /\ s \in [1..n -> Created]
  /\ \A i, j \in 1..n : s[i] = s[j] => i = j
  /\ s[1] = current /\ s[n] = Main
  /\ \A i \in 1..(n - 1) : activator[s[i]] = s[i + 1]
  /\ \A c \in (Created \ Loaded) \ {current} :
       (\E i \in 1..n : s[i] = c) <=> at[c] = "result"

Nested ==
  orderly /\ status = "run" => activator[Main] = Main /\ \E n, s : Path(n, s)

\* Chain, defined by recursion over the number of returns, is what is on the path.
LEMMA ChainIsPath ==
  ASSUME IInv, activator[Main] = Main, NEW n, NEW s, Path(n, s)
  PROVE  Chain = {s[i] : i \in 1..n}
<1> DEFINE Up(u, k) == IF k = 0 THEN current ELSE IF u[k - 1] = None THEN None
                       ELSE activator[u[k - 1]]
           W == [k \in 0..MaxCoexprs |-> IF k < n THEN s[k + 1] ELSE Main]
           U == CHOOSE u : u = [k \in 0..MaxCoexprs |-> Up(u, k)]
<1>1. n \in Nat \ {0} /\ s \in [1..n -> Created]
  BY DEF Path
<1>2. n <= MaxCoexprs
  <2>1. s \in [1..n -> 1..MaxCoexprs]
    BY <1>1, CreatedCoexprs DEF IInv, Typed, Coexprs
  <2> QED BY <1>1, <2>1, DistinctBound, LimitsAssumption DEF Path
<1>3. \A i \in 1..n : s[i] # None
  BY <1>1 DEF Created, None
<1>4. ASSUME NEW k \in 1..MaxCoexprs
      PROVE  /\ W[k - 1] # None
             /\ W[k] = activator[W[k - 1]]
  <2>0. k \in Nat \ {0} /\ k - 1 \in 0..MaxCoexprs /\ k \in 0..MaxCoexprs /\ (k - 1) + 1 = k
    BY LimitsAssumption
  <2>4. W[k] = (IF k < n THEN s[k + 1] ELSE Main) /\ W[k - 1] = IF k - 1 < n THEN s[k] ELSE Main
    BY <2>0
  <2> HIDE DEF W
  <2>1. CASE k < n
    <3>1. k - 1 < n /\ W[k - 1] = s[k] /\ W[k] = s[k + 1] /\ k \in 1..(n - 1)
      BY <1>1, <2>0, <2>4, <2>1
    <3> QED BY <3>1, <1>3 DEF Path
  <2>2. CASE k = n
    <3>1. W[k - 1] = s[n] /\ W[k] = Main /\ n \in 1..n
      BY <1>1, <2>0, <2>4, <2>2
    <3> QED BY <3>1, <1>3 DEF Path
  <2>3. CASE k > n
    <3>1. W[k - 1] = Main /\ W[k] = Main
      BY <1>1, <2>0, <2>4, <2>3
    <3> QED BY <3>1 DEF Main, None
  <2> QED BY <1>1, <2>0, <2>1, <2>2, <2>3
<1>5. W[0] = current
  BY <1>1, LimitsAssumption DEF Path
<1>6. W = [k \in 0..MaxCoexprs |-> Up(W, k)]
  <2>1. ASSUME NEW k \in 0..MaxCoexprs PROVE W[k] = Up(W, k)
    <3>1. CASE k = 0
      BY <3>1, <1>5
    <3>2. CASE k # 0
      <4>1. k \in 1..MaxCoexprs
        BY <3>2, LimitsAssumption
      <4> HIDE DEF W
      <4> QED BY <3>2, <4>1, <1>4
    <3> QED BY <3>1, <3>2
  <2> HIDE DEF Up
  <2> QED BY <2>1
<1>7. U = [k \in 0..MaxCoexprs |-> Up(U, k)]
  <2> HIDE DEF Up, W
  <2> QED BY <1>6
<1>8. \A k \in 0..MaxCoexprs : U[k] = Up(U, k)
  <2> HIDE DEF Up, U
  <2> QED BY <1>7
<1> HIDE DEF U, W
<1>9. \A k \in 0..MaxCoexprs : U[k] = W[k]
  <2> DEFINE S == {k \in Nat : k <= MaxCoexprs => U[k] = W[k]}
  <2>1. 0 \in S
    BY <1>5, <1>8, LimitsAssumption
  <2>2. ASSUME NEW k \in Nat, k \in S PROVE k + 1 \in S
    <3> SUFFICES ASSUME k + 1 <= MaxCoexprs PROVE U[k + 1] = W[k + 1]
      OBVIOUS
    <3>1. k + 1 \in 1..MaxCoexprs /\ k + 1 \in 0..MaxCoexprs /\ (k + 1) - 1 = k /\ k + 1 # 0
          /\ U[k] = W[k]
      BY <2>2, LimitsAssumption
    <3>2. W[k] # None /\ W[k + 1] = activator[W[k]]
      BY <1>4, <3>1
    <3>3. U[k + 1] = Up(U, k + 1)
      BY <1>8, <3>1
    <3> QED BY <3>1, <3>2, <3>3
  <2>3. \A k \in Nat : k \in S
    <3> HIDE DEF S
    <3> QED BY <2>1, <2>2, NatInductionSet
  <2> QED BY <2>3, LimitsAssumption
<1>10. Chain = {U[k] : k \in 0..MaxCoexprs} \ {None}
  BY DEF Chain, U
<1>11. Chain = {W[k] : k \in 0..MaxCoexprs} \ {None}
  BY <1>9, <1>10
<1>12. ASSUME NEW k \in 0..MaxCoexprs PROVE W[k] \in {s[i] : i \in 1..n}
  <2>1. CASE k < n
    <3>1. k + 1 \in 1..n /\ W[k] = s[k + 1]
      BY <1>1, <2>1 DEF W
    <3> QED BY <3>1
  <2>2. CASE ~(k < n)
    <3>1. n \in 1..n /\ W[k] = s[n]
      BY <1>1, <2>2 DEF W, Path
    <3> QED BY <3>1
  <2> QED BY <2>1, <2>2
<1>13. ASSUME NEW i \in 1..n PROVE s[i] \in {W[k] : k \in 0..MaxCoexprs}
  <2>1. i - 1 \in 0..MaxCoexprs /\ W[i - 1] = s[i]
    BY <1>1, <1>2, LimitsAssumption DEF W
  <2> QED BY <2>1
<1> QED BY <1>11, <1>12, <1>13, <1>3

\* A step that leaves the path alone.
LEMMA PathKept ==
  ASSUME IInv, Nested, UNCHANGED <<current>>, Created \subseteq Created',
         Main \in Created, orderly' => orderly, status' = "run" => status = "run",
         \A c \in Created : activator'[c] = activator[c] /\ at'[c] = at[c],
         \A c \in Created' \ Created : at'[c] = "start"
  PROVE  Nested'
<1> SUFFICES ASSUME orderly', status' = "run" PROVE activator'[Main] = Main /\ \E n, s : Path(n, s)'
  BY DEF Nested
<1>1. PICK n, s : Path(n, s)
  BY DEF Nested
<1>2. Path(n, s)'
  <2>1. \A i \in 1..n : s[i] \in Created
    BY <1>1 DEF Path
  <2>2. \A i \in 1..(n - 1) : i \in 1..n
    BY <1>1 DEF Path
  <2>3. s \in [1..n -> Created']
    BY <1>1 DEF Path
  <2>4. \A i \in 1..(n - 1) : activator'[s[i]] = s[i + 1]
    BY <1>1, <2>1, <2>2 DEF Path
  <2>5. ASSUME NEW c \in (Created' \ Loaded) \ {current}
        PROVE  (\E i \in 1..n : s[i] = c) <=> at'[c] = "result"
    BY <1>1, <2>1 DEF Path
  <2> QED BY <1>1, <2>3, <2>4, <2>5 DEF Path
<1> QED BY <1>2 DEF Nested

\* v @ t, of one that is not on the path, puts it before the path.
LEMMA PathLonger ==
  ASSUME IInv, Nested, NEW t \in Created, t # Main, current' = t, count' = count,
         activator' = [activator EXCEPT ![t] = current],
         at' = [at EXCEPT ![current] = "result"],
         orderly' => orderly /\ t \notin Chain, status = "run"
  PROVE  Nested'
<1> SUFFICES ASSUME orderly', status' = "run" PROVE activator'[Main] = Main /\ \E n, s : Path(n, s)'
  BY DEF Nested
<1>1. PICK n, s : Path(n, s)
  BY DEF Nested
<1>2. \A i \in 1..n : s[i] # t
  BY <1>1, ChainIsPath DEF Nested
<1>3. n \in Nat \ {0} /\ s \in [1..n -> Created] /\ 1 \in 1..n
  BY <1>1 DEF Path
<1>4. Main \in Coexprs /\ t \in Coexprs /\ current \in Coexprs /\ current \in Created
      /\ Created' = Created /\ Created \subseteq Coexprs
  BY CreatedCoexprs, LimitsAssumption DEF IInv, Typed, Main, Coexprs, Created
<1>5. activator'[Main] = Main /\ \A c \in Created : c # t => activator'[c] = activator[c]
  BY <1>4 DEF Nested, IInv, Typed
<1> DEFINE w == [i \in 1..(n + 1) |-> IF i = 1 THEN t ELSE s[i - 1]]
<1>6. w[1] = t /\ \A i \in 1..n : w[i + 1] = s[i]
  BY <1>3
<1>7. w \in [1..(n + 1) -> Created]
  BY <1>3
<1>8. ASSUME NEW i \in 1..(n + 1), NEW j \in 1..(n + 1), w[i] = w[j] PROVE i = j
  <2>1. i = 1 \/ i - 1 \in 1..n
    BY <1>3
  <2>2. j = 1 \/ j - 1 \in 1..n
    BY <1>3
  <2> QED BY <1>1, <1>2, <1>8, <2>1, <2>2, <1>3 DEF Path
<1>9. ASSUME NEW i \in 1..n PROVE activator'[w[i]] = w[i + 1]
  <2>1. CASE i = 1
    <3>1. w[i] = t /\ w[i + 1] = current
      BY <2>1, <1>1, <1>6, <1>3 DEF Path
    <3> QED BY <3>1, <1>4 DEF IInv, Typed
  <2>2. CASE i # 1
    <3>1. i - 1 \in 1..(n - 1) /\ i - 1 \in 1..n /\ (i - 1) + 1 = i
      BY <2>2, <1>3
    <3>2. w[i] = s[i - 1] /\ w[i + 1] = s[i]
      BY <1>6, <3>1
    <3>3. activator[s[i - 1]] = s[i] /\ s[i - 1] \in Created /\ s[i - 1] # t
      BY <1>1, <1>2, <1>3, <3>1 DEF Path
    <3> QED BY <1>5, <3>2, <3>3
  <2> QED BY <2>1, <2>2
<1>10. w[n + 1] = Main
  BY <1>1, <1>3, <1>6 DEF Path
<1> HIDE DEF w
<1>11. ASSUME NEW c \in (Created \ Loaded) \ {t}
       PROVE  (\E i \in 1..(n + 1) : w[i] = c) <=> at'[c] = "result"
  <2>1. (\E i \in 1..(n + 1) : w[i] = c) <=> \E i \in 1..n : s[i] = c
    <3>1. ASSUME NEW i \in 1..(n + 1), w[i] = c PROVE \E j \in 1..n : s[j] = c
      <4>1. i - 1 \in 1..n /\ (i - 1) + 1 = i
        BY <3>1, <1>3, <1>6
      <4> QED BY <3>1, <4>1, <1>6
    <3>2. ASSUME NEW i \in 1..n, s[i] = c PROVE \E j \in 1..(n + 1) : w[j] = c
      <4>1. i + 1 \in 1..(n + 1)
        BY <1>3
      <4> QED BY <3>2, <4>1, <1>6
    <3> QED BY <3>1, <3>2
  <2>2. CASE c = current
    BY <2>1, <2>2, <1>1, <1>3, <1>4 DEF Path, IInv, Typed
  <2>3. CASE c # current
    BY <2>1, <2>3, <1>1, <1>4 DEF Path, IInv, Typed
  <2> QED BY <2>2, <2>3
<1>12. n + 1 \in Nat \ {0} /\ (n + 1) - 1 = n
  BY <1>3
<1>13. Path(n + 1, w)'
  BY <1>4, <1>6, <1>7, <1>8, <1>9, <1>10, <1>11, <1>12 DEF Path
<1> QED BY <1>5, <1>13

\* Returning or failing to the activator takes the first off the path.
LEMMA PathShorter ==
  ASSUME IInv, Nested, current # Main, current' = activator[current],
         UNCHANGED <<count, activator>>, orderly' => orderly, status = "run",
         NEW resuming \in Places \ {"result"}, NEW place,
         at' = [at EXCEPT ![current] = resuming]
         \/ at' = [at EXCEPT ![current] = resuming, ![current'] = place]
  PROVE  Nested'
<1> SUFFICES ASSUME orderly', status' = "run" PROVE activator'[Main] = Main /\ \E n, s : Path(n, s)'
  BY DEF Nested
<1>1. PICK n, s : Path(n, s)
  BY DEF Nested
<1>2. n \in Nat \ {0, 1} /\ s \in [1..n -> Created] /\ s[1] = current /\ s[n] = Main
  BY <1>1 DEF Path
<1>3. current \in Created /\ Created' = Created /\ Created \subseteq Coexprs
      /\ activator[current] \in Created
  BY CreatedCoexprs, SourceReady DEF IInv, Typed, Created
<1> DEFINE w == [i \in 1..(n - 1) |-> s[i + 1]]
<1>4. /\ n - 1 \in Nat \ {0} /\ w \in [1..(n - 1) -> Created]
      /\ \A i \in 1..(n - 1) : i + 1 \in 1..n /\ i \in 1..n /\ w[i] = s[i + 1]
      /\ \A i \in 1..((n - 1) - 1) : i + 1 \in 1..(n - 1) /\ i \in 1..(n - 1)
  BY <1>2
<1>5. w[1] = activator[current] /\ w[n - 1] = Main
  <2>1. 1 \in 1..(n - 1) /\ n - 1 \in 1..(n - 1) /\ 1 + 1 = 2 /\ (n - 1) + 1 = n
    BY <1>2
  <2>2. w[1] = s[2] /\ w[n - 1] = s[n] /\ activator[s[1]] = s[2]
    BY <1>1, <1>4, <2>1 DEF Path
  <2> QED BY <1>2, <2>2
<1>6. ASSUME NEW i \in 1..(n - 1), NEW j \in 1..(n - 1), w[i] = w[j] PROVE i = j
  <2>1. i + 1 = j + 1
    BY <1>1, <1>4, <1>6 DEF Path
  <2> QED BY <2>1
<1>7. \A i \in 1..((n - 1) - 1) : activator'[w[i]] = w[i + 1]
  BY <1>1, <1>4 DEF Path
<1> HIDE DEF w
<1>8. ASSUME NEW c \in (Created \ Loaded) \ {current'}
      PROVE  (\E i \in 1..(n - 1) : w[i] = c) <=> at'[c] = "result"
  <2>1. CASE c = current
    <3>1. at'[c] # "result"
      BY <2>1, <1>3 DEF IInv, Typed
    <3>2. \A i \in 1..(n - 1) : w[i] # current
      <4>1. \A i \in 1..(n - 1) : i + 1 # 1 /\ 1 \in 1..n
        BY <1>2
      <4> QED BY <4>1, <1>1, <1>2, <1>4 DEF Path
    <3> QED BY <2>1, <3>1, <3>2
  <2>2. CASE c # current
    <3>1. at'[c] = at[c]
      BY <2>2, <1>3 DEF IInv, Typed
    <3>2. ASSUME NEW i \in 1..n, s[i] = c PROVE \E j \in 1..(n - 1) : w[j] = c
      <4>1. i # 1
        BY <2>2, <3>2, <1>2
      <4>2. i - 1 \in 1..(n - 1) /\ (i - 1) + 1 = i
        BY <4>1, <1>2
      <4> QED BY <3>2, <4>2, <1>4
    <3>3. ASSUME NEW j \in 1..(n - 1), w[j] = c PROVE \E i \in 1..n : s[i] = c
      BY <3>3, <1>4
    <3> QED BY <2>2, <3>1, <3>2, <3>3, <1>1 DEF Path
  <2> QED BY <2>1, <2>2
<1>9. Path(n - 1, w)'
  BY <1>3, <1>4, <1>5, <1>6, <1>7, <1>8 DEF Path
<1>10. activator'[Main] = Main
  BY DEF Nested
<1> QED BY <1>9, <1>10

LEMMA NextNested == IInv /\ Nested /\ [Next]_vars => Nested'
<1> SUFFICES ASSUME IInv, Nested, [Next]_vars PROVE Nested'
  OBVIOUS
<1> USE DEF control
<1>0. Main \in Created /\ Main \in Coexprs /\ Created \subseteq Coexprs
  BY CreatedCoexprs, LimitsAssumption DEF IInv, Typed, Main, Coexprs, Created
<1>1. CASE UNCHANGED vars
  BY <1>0, <1>1, PathKept DEF vars, Created
<1>2. ASSUME NEW scope, NEW n, New(scope, n) PROVE Nested'
  <2>1. count \in Nat /\ count + 1 \in Coexprs /\ count' = count + 1
    BY <1>2, LimitsAssumption DEF IInv, Typed, New, Coexprs
  <2>2. Created' = Created \cup {count + 1} /\ count + 1 \notin Created
    BY <2>1 DEF Created
  <2>3. \A c \in Created : activator'[c] = activator[c] /\ at'[c] = at[c]
    BY <1>2, <2>2, <1>0 DEF IInv, Typed, New
  <2>4. at'[count + 1] = "start"
    BY <1>2, <2>1 DEF IInv, Typed, New
  <2> QED BY <1>0, <1>2, <2>2, <2>3, <2>4, PathKept DEF New
<1>3. ASSUME NEW t, Activate(t) PROVE Nested'
  <2>1. CASE ~orderly'
    BY <2>1 DEF Nested
  <2>2. CASE orderly'
    <3>1. PICK v \in {Plain, Scope(current)} :
            SwitchTo(t, Transmitted(v, t), Slot(current), "failed", "result")
      BY <1>3, <2>2 DEF Activate, Error
    <3>2. activator' = [activator EXCEPT ![t] = current] /\ orderly /\ t \notin Chain
          /\ t \in Created /\ count' = count /\ status = "run"
      BY <1>3, <2>2 DEF Activate, Error, NewActivator, Running
    <3>3. t # Main
      <4>1. PICK n, s : Path(n, s)
        BY <3>2 DEF Nested
      <4>2. Main \in Chain
        <5>1. n \in 1..n /\ s[n] = Main
          BY <4>1 DEF Path
        <5> QED BY <5>1, <3>2, <4>1, ChainIsPath DEF Nested
      <4> QED BY <3>2, <4>2
    <3> QED BY <3>1, <3>2, <3>3, PathLonger DEF SwitchTo
  <2> QED BY <2>1, <2>2
<1>4. ASSUME NEW t, NEW a, Coact(t, a) \/ Cofail(t, a) PROVE Nested'
  BY <1>4 DEF Coact, Cofail, Error, Nested
<1>5. CASE Coret
  <2>1. CASE status' = "crash"
    BY <2>1 DEF Nested
  <2>2. CASE status' # "crash"
    <3>1. PICK v : SwitchTo(activator[current], Transmitted(v, activator[current]), CoretSlot,
                            "resume", "resume")
      BY <1>5, <2>2 DEF Coret, Crash
    <3>2. current # Main /\ UNCHANGED <<count, activator, orderly>> /\ status = "run"
      BY <1>5 DEF Coret, Running
    <3> QED BY <3>1, <3>2, PathShorter DEF SwitchTo, Places
  <2> QED BY <2>1, <2>2
<1>6. CASE CofailEnd
  <2>1. FailTo(activator[current], NoSlot, "ended", "ended") /\ status = "run"
        /\ current # Main /\ UNCHANGED <<count, activator, orderly>>
    BY <1>6, SourceReady DEF CofailEnd
  <2>2. CASE status' = "crash"
    BY <2>2 DEF Nested
  <2>3. CASE status' # "crash"
    <3>1. current' = activator[current]
          /\ \E place : at' = [at EXCEPT ![current] = "ended", ![activator[current]] = place]
      BY <2>1, <2>3 DEF FailTo, Crash
    <3> QED BY <2>1, <3>1, PathShorter DEF Places
  <2> QED BY <2>2, <2>3
<1>7. CASE Call \/ Return
  BY <1>0, <1>7, PathKept DEF Call, Return, Created
<1>8. ASSUME NEW h, SetHandler(h) PROVE Nested'
  BY <1>0, <1>8, PathKept DEF SetHandler, Created
<1>9. CASE RunError
  BY <1>9 DEF RunError, Error, Nested
<1>10. CASE Fatal139 \/ Exit
  BY <1>10 DEF Fatal139, Fatal, Exit, Nested
<1> QED BY <1>0, <1>1, <1>2, <1>3, <1>4, <1>5, <1>6, <1>7, <1>8, <1>9, <1>10
        DEF Next, Create, Refresh, Cocopy

LEMMA InitNested == Init => Nested
<1> SUFFICES ASSUME Init PROVE Nested
  OBVIOUS
<1>1. current = Main /\ Main \in Created /\ Main \in Coexprs /\ Created \ Loaded = {Main}
      /\ Created \subseteq Coexprs
  BY LimitsAssumption DEF Init, Created, Loaded, Main, Coexprs
<1>2. Path(1, [i \in 1..1 |-> Main])
  BY <1>1 DEF Path
<1>3. activator[Main] = Main
  BY <1>1 DEF Init
<1> QED BY <1>2, <1>3 DEF Nested

\* However many co-expressions there are, as long as programs only use @ on ones that
\* do not wait, the co-expressions that wait for a result are exactly those control will
\* come back to, and &main is the last.
THEOREM LineageTheorem == Spec => []Lineage
<1>1. IInv /\ Nested => Lineage
  <2> SUFFICES ASSUME IInv, Nested, orderly, status = "run"
               PROVE  /\ Main \in Chain
                      /\ \A c \in (Created \ Loaded) \ {current} : c \in Chain <=> at[c] = "result"
    BY DEF Lineage
  <2>1. PICK n, s : Path(n, s)
    BY DEF Nested
  <2>2. Chain = {s[i] : i \in 1..n}
    BY <2>1, ChainIsPath DEF Nested
  <2>3. n \in 1..n /\ s[n] = Main
    BY <2>1 DEF Path
  <2> QED BY <2>1, <2>2, <2>3 DEF Path
<1> QED BY <1>1, InitIInv, Preservation, InitNested, NextNested, PTL DEF Spec

=============================================================================
