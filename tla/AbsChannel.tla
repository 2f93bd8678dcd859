----------------------------- MODULE AbsChannel -----------------------------
(***************************************************************************)
(* What ipc.Msg promises: one queue of whole messages.  A message is       *)
(* taken by one process, in the order of sending, and that process gets    *)
(* it as it was sent; an attempt misses only when no message is there.     *)
(* Nothing is promised once a process has ended in the middle of moving a  *)
(* message, and nothing can be put once the queue is shut.                 *)
(***************************************************************************)
EXTENDS Sequences

CONSTANTS Proc, Object, None

VARIABLES
  chan,     \* the messages sent and not taken
  taken,    \* of each process: the message it is taking, or None
  result,   \* of each process: what it last received, or None
  open,
  broken    \* a process ended in the middle of a message

absVars == <<chan, taken, result, open, broken>>

Init ==
  /\ chan = <<>> /\ open = TRUE /\ broken = FALSE
  /\ taken = [p \in Proc |-> None] /\ result = [p \in Proc |-> None]

Put(o) == open /\ chan' = Append(chan, o) /\ UNCHANGED <<taken, result, open, broken>>

Take(p) ==
  /\ taken[p] = None /\ chan # <<>>
  /\ taken' = [taken EXCEPT ![p] = Head(chan)] /\ chan' = Tail(chan)
  /\ result' = [result EXCEPT ![p] = None]
  /\ UNCHANGED <<open, broken>>

Deliver(p) ==
  /\ taken[p] # None
  /\ result' = [result EXCEPT ![p] = taken[p]] /\ taken' = [taken EXCEPT ![p] = None]
  /\ UNCHANGED <<chan, open, broken>>

Miss(p) ==
  /\ chan = <<>> /\ result' = [result EXCEPT ![p] = None]
  /\ UNCHANGED <<chan, taken, open, broken>>

\* A process ends, and what it was taking is lost.
Lose(p) ==
  /\ taken' = [taken EXCEPT ![p] = None] /\ broken' \in {broken, TRUE}
  /\ UNCHANGED <<chan, result, open>>

Shut == open' = FALSE /\ chan' = <<>> /\ UNCHANGED <<taken, result, broken>>

Next ==
  \/ \E o \in Object : Put(o)
  \/ \E p \in Proc : Take(p) \/ Deliver(p) \/ Miss(p) \/ Lose(p)
  \/ Shut
  \/ broken /\ broken'

Spec == Init /\ [][Next]_absVars
=============================================================================
