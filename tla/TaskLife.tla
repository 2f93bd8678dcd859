------------------------------ MODULE TaskLife ------------------------------
(***************************************************************************)
(* What the scheduler promises of tasks, without bags, clocks or polls.    *)
(* A task is dormant, ready, waiting or active.  Only a ready task is ever *)
(* activated; activations form a stack, of which only the top runs; a task *)
(* leaves the top by its own decision; a stopped task is dormant and comes *)
(* back in the condition it was stopped in.                                *)
(***************************************************************************)
CONSTANTS Task, Null, Main

VARIABLES
  status,    \* the condition of each task
  held,      \* the condition a stopped task is to come back in, or Null
  below,     \* what an active task was activated by, or Null
  top        \* the innermost active task, or Main

lifeVars == <<status, held, below, top>>

Init ==
  /\ status = [t \in Task |-> "dormant"]
  /\ held   = [t \in Task |-> Null]
  /\ below  = [t \in Task |-> Null]
  /\ top = Main

Start(t) ==
  /\ status[t] = "dormant"
  /\ status' = [status EXCEPT ![t] = IF held[t] = Null THEN "ready" ELSE held[t]]
  /\ held' = [held EXCEPT ![t] = Null]
  /\ UNCHANGED <<below, top>>

Stop(t) ==
  /\ status[t] \in {"ready", "waiting"}
  /\ held' = [held EXCEPT ![t] = status[t]]
  /\ status' = [status EXCEPT ![t] = "dormant"]
  /\ UNCHANGED <<below, top>>

\* The tasks of S have something to return to.
Wake(S) ==
  /\ \A t \in S : status[t] = "waiting"
  /\ status' = [t \in Task |-> IF t \in S THEN "ready" ELSE status[t]]
  /\ UNCHANGED <<held, below, top>>

Activate(t) ==
  /\ status[t] = "ready"
  /\ status' = [status EXCEPT ![t] = "active"]
  /\ below' = [below EXCEPT ![t] = top]
  /\ top' = t
  /\ UNCHANGED held

\* The top task suspends itself; what it was activated by runs again.
Suspend(cond) ==
  /\ top # Main
  /\ status' = [status EXCEPT ![top] = cond]
  /\ top' = below[top]
  /\ below' = [below EXCEPT ![top] = Null]
  /\ UNCHANGED held

Next ==
  \/ \E t \in Task : Start(t) \/ Stop(t) \/ Activate(t)
  \/ \E S \in SUBSET Task : Wake(S)
  \/ \E cond \in {"dormant", "ready", "waiting"} : Suspend(cond)

Spec == Init /\ [][Next]_lifeVars
=============================================================================
