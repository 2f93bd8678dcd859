--------------------------- MODULE MsgQueueProofs ---------------------------
(***************************************************************************)
(* Theorems about MsgQueue, for any number of processes, objects, sends    *)
(* and signals, and any capacity of the queue.                             *)
(*                                                                         *)
(* The semaphores are a matter of what each process has taken (undo) and   *)
(* where it is (pc) alone.  A step moves one process.  It leaves what is   *)
(* taken as it is, and the process stays on the same side of the semaphore *)
(* or is on its way to its end (Moved); or the process ends (Ended), takes *)
(* a semaphore (Taken) or gives one back (GivenBack).                      *)
(***************************************************************************)
EXTENDS MsgQueue, TLAPS

Label == {"out", "create", "idle", "close", "closed", "cleanup", "failed", "dead",
          "send_wait", "send_head", "send_block", "receive_wait", "receive_head",
          "attempt_wait", "attempt_head", "attempt_fail", "rcv_block"}

\* Where a process must hold "snd", or "rcv", and where it may hold either.
Using == [f \in Sem |-> IF f = "snd" THEN {"send_head", "send_block"}
                        ELSE {"receive_head", "attempt_head", "attempt_fail", "rcv_block"}]
Ending == {"failed", "cleanup"}

\* The inductive invariant.
BType ==
  /\ sem \in [Sem -> {0, 1}] /\ undo \in [Proc -> [Sem -> {0, 1}]]
  /\ pc \in [Proc -> Label]

Free(f)  == sem[f] = 1 => \A p \in Proc : undo[p][f] = 0
Busy(f)  == sem[f] = 0 => \E p \in Proc : undo[p][f] = 1
Alone(f) == \A p, q \in Proc : undo[p][f] = 1 /\ undo[q][f] = 1 => p = q
Users(f) == \A p \in Proc : /\ pc[p] \in Using[f] => undo[p][f] = 1
                            /\ undo[p][f] = 1 => pc[p] \in Using[f] \cup Ending

BInv == BType /\ \A f \in Sem : Free(f) /\ Busy(f) /\ Alone(f) /\ Users(f)

----------------------------------------------------------------------------
\* The invariant says no less than SemaphoresBalanced.
LEMMA BalancedFromInv == BInv => SemaphoresBalanced
<1> SUFFICES ASSUME BInv, NEW f \in Sem
             PROVE  LET held == {p \in Proc : undo[p][f] = 1}
                        user == {p \in Proc : IF f = "snd" THEN Sending(p) ELSE Receiving(p)}
                    IN  /\ sem[f] = IF held = {} THEN 1 ELSE 0
                        /\ \A p, q \in held : p = q
                        /\ user \subseteq held
                        /\ \A p \in held \ user : pc[p] \in {"failed", "cleanup"}
  BY DEF SemaphoresBalanced
<1> DEFINE held == {p \in Proc : undo[p][f] = 1}
           user == {p \in Proc : IF f = "snd" THEN Sending(p) ELSE Receiving(p)}
<1>1. user = {p \in Proc : pc[p] \in Using[f]}
  BY DEF Sem, Using, Sending, Receiving
<1>2. sem[f] = IF held = {} THEN 1 ELSE 0
  BY DEF BInv, BType, Free, Busy
<1>3. \A p, q \in held : p = q
  BY DEF BInv, Alone
<1>4. user \subseteq held /\ \A p \in held \ user : pc[p] \in {"failed", "cleanup"}
  BY <1>1 DEF BInv, Users, Ending
<1> QED BY <1>2, <1>3, <1>4

LEMMA InitBInv == Init => BInv
BY DEF Init, BInv, BType, Free, Busy, Alone, Users, Using, Ending, Sem, Label

\* A move that touches no semaphore.
LEMMA Moved ==
  ASSUME BInv, NEW p \in Proc, NEW l \in Label, Goto(p, l), UNCHANGED <<sem, undo>>,
         \A f \in Sem : l \in Using[f] <=> pc[p] \in Using[f] /\ l \notin Ending,
         pc[p] \in Ending => l \in Ending
  PROVE  BInv'
<1>1. BType'
  BY DEF BInv, BType, Goto
<1>2. \A f \in Sem : Free(f)' /\ Busy(f)' /\ Alone(f)'
  BY DEF BInv, Free, Busy, Alone
<1>3. \A f \in Sem : Users(f)'
  BY DEF BInv, BType, Users, Goto
<1> QED BY <1>1, <1>2, <1>3 DEF BInv

LEMMA Ended ==
  ASSUME BInv, NEW p \in Proc, Die(p)
  PROVE  BInv'
<1> USE DEF BInv, BType
<1>1. pc' = [pc EXCEPT ![p] = "dead"] /\ sem' = [f \in Sem |-> sem[f] + undo[p][f]]
      /\ undo' = [undo EXCEPT ![p] = [f \in Sem |-> 0]]
  BY DEF Die, Leave, Goto
<1>2. \A f \in Sem : sem[f] + undo[p][f] \in {0, 1}
  BY DEF Free
<1>3. BType'
  BY <1>1, <1>2 DEF Label
<1>4. ASSUME NEW f \in Sem PROVE Free(f)' /\ Busy(f)' /\ Alone(f)'
  <2>1. CASE undo[p][f] = 1
    BY <1>1, <2>1 DEF Free, Busy, Alone
  <2>2. CASE undo[p][f] = 0
    BY <1>1, <2>2 DEF Free, Busy, Alone
  <2> QED BY <2>1, <2>2
<1>5. \A f \in Sem : Users(f)'
  BY <1>1 DEF Users, Using, Ending, Sem
<1> QED BY <1>3, <1>4, <1>5

LEMMA Taken ==
  ASSUME BInv, NEW p \in Proc, NEW f \in Sem, NEW l \in Using[f], Wait(p, f, l),
         \A g \in Sem : pc[p] \notin Using[g], pc[p] \notin Ending
  PROVE  BInv'
<1> USE DEF BInv, BType
<1>1. CASE Usable(f)
  <2>1. /\ sem[f] = 1 /\ sem' = [sem EXCEPT ![f] = 0]
        /\ undo' = [undo EXCEPT ![p] = [undo[p] EXCEPT ![f] = 1]]
        /\ pc' = [pc EXCEPT ![p] = l]
    BY <1>1 DEF Wait, Goto, Free
  <2>2. l \in Label /\ l \notin Ending /\ \A g \in Sem \ {f} : l \notin Using[g]
    BY DEF Using, Label, Sem, Ending
  <2>3. BType'
    BY <2>1, <2>2
  <2>4. Free(f)' /\ Busy(f)' /\ Alone(f)' /\ Users(f)'
    BY <2>1, <2>2 DEF Free, Busy, Alone, Users
  <2>5. \A g \in Sem \ {f} : sem'[g] = sem[g] /\ \A q \in Proc : undo'[q][g] = undo[q][g]
    BY <2>1
  <2>6. \A g \in Sem \ {f} : Free(g)' /\ Busy(g)' /\ Alone(g)'
    BY <2>5 DEF Free, Busy, Alone
  <2>7. \A g \in Sem \ {f} : Users(g)'
    BY <2>1, <2>2, <2>5 DEF Users
  <2> QED BY <2>3, <2>4, <2>6, <2>7
<1>2. CASE ~Usable(f)
  <2>1. Goto(p, "failed") /\ UNCHANGED <<sem, undo>>
    BY <1>2 DEF Wait, aborted, Leave, kernelVars
  <2>2. \A g \in Sem : "failed" \notin Using[g]
    BY DEF Using, Sem
  <2> QED BY <2>1, <2>2, Moved DEF Label, Ending
<1> QED BY <1>1, <1>2

LEMMA GivenBack ==
  ASSUME BInv, NEW p \in Proc, NEW f \in Sem, Signal(p, f), pc[p] \in Using[f]
  PROVE  BInv'
<1> USE DEF BInv, BType
<1>0. \A g \in Sem : "failed" \notin Using[g] /\ "idle" \notin Using[g]
  BY DEF Using, Sem
<1>1. CASE Usable(f)
  <2>1. undo[p][f] = 1 /\ sem[f] = 0
    BY DEF Users, Free
  <2>2. /\ sem' = [sem EXCEPT ![f] = 1]
        /\ undo' = [undo EXCEPT ![p] = [undo[p] EXCEPT ![f] = 0]]
        /\ pc' = [pc EXCEPT ![p] = "idle"]
    BY <1>1, <2>1 DEF Signal, SemUp, Goto
  <2>3. BType'
    BY <2>2 DEF Label
  <2>4. Free(f)' /\ Busy(f)' /\ Alone(f)' /\ Users(f)'
    BY <2>1, <2>2, <1>0 DEF Free, Busy, Alone, Users
  <2>5. \A g \in Sem \ {f} : sem'[g] = sem[g] /\ \A q \in Proc : undo'[q][g] = undo[q][g]
    BY <2>2
  <2>6. \A g \in Sem \ {f} : Free(g)' /\ Busy(g)' /\ Alone(g)'
    BY <2>5 DEF Free, Busy, Alone
  <2>7. \A g \in Sem \ {f} : pc[p] \notin Using[g] \cup Ending
    BY DEF Using, Sem, Ending
  <2>8. \A g \in Sem \ {f} : Users(g)'
    BY <2>2, <2>5, <2>7, <1>0 DEF Users
  <2> QED BY <2>3, <2>4, <2>6, <2>8
<1>2. CASE ~Usable(f)
  <2>1. Goto(p, "failed") /\ UNCHANGED <<sem, undo>>
    BY <1>2 DEF Signal, aborted, Leave, kernelVars
  <2> QED BY <2>1, <1>0, Moved DEF Label, Ending
<1> QED BY <1>1, <1>2

LEMMA Aborted ==
  ASSUME BInv, NEW p \in Proc, aborted(p)
  PROVE  BInv'
<1>1. Goto(p, "failed") /\ UNCHANGED <<sem, undo>>
  BY DEF aborted, Leave, kernelVars
<1>2. \A g \in Sem : "failed" \notin Using[g]
  BY DEF Using, Sem
<1> QED BY <1>1, <1>2, Moved DEF Label, Ending

LEMMA Exited ==
  ASSUME BInv, NEW p \in Proc, exit(p)
  PROVE  BInv'
<1>1. CASE CleansUp(p)
  <2>1. Goto(p, "cleanup") /\ UNCHANGED <<sem, undo>>
    BY <1>1 DEF exit, Leave, kernelVars
  <2>2. \A g \in Sem : "cleanup" \notin Using[g]
    BY DEF Using, Sem
  <2> QED BY <2>1, <2>2, Moved DEF Label, Ending
<1>2. CASE ~CleansUp(p)
  BY <1>2, Ended DEF exit
<1> QED BY <1>1, <1>2

\* Begin(p, l, o), where l needs no semaphore.
LEMMA Begun ==
  ASSUME BInv, NEW p \in Proc, NEW l \in {"close", "send_wait", "receive_wait", "attempt_wait"},
         NEW o, Begin(p, l, o)
  PROVE  BInv'
<1>1. CASE Usable("top")
  <2>1. pc[p] = "idle" /\ Goto(p, l) /\ UNCHANGED <<sem, undo>>
    BY <1>1 DEF Begin, kernelVars
  <2>2. \A g \in Sem : l \notin Using[g] /\ "idle" \notin Using[g]
    BY DEF Using, Sem
  <2> QED BY <2>1, <2>2, Moved DEF Label, Ending
<1>2. CASE ~Usable("top")
  BY <1>2, Aborted DEF Begin
<1> QED BY <1>1, <1>2

----------------------------------------------------------------------------
\* Creating, sharing, closing and ending.
LEMMA LifeKeeps ==
  ASSUME BInv, NEW p \in Proc,
         \/ Create(p) \/ open_public(p) \/ \E q \in Proc : Fork(p, q)
         \/ Store(p) \/ Created(p) \/ RemovePart(p) \/ Removed(p)
         \/ Exit(p) \/ Fail(p) \/ Term(p) \/ Kill(p)
  PROVE  BInv'
<1>0. \A l \in {"out", "create", "idle", "close", "closed", "cleanup"} :
         l \in Label /\ \A g \in Sem : l \notin Using[g]
  BY DEF Using, Sem, Label
<1>1. CASE Create(p)
  <2>1. pc[p] = "out" /\ Goto(p, "create") /\ UNCHANGED <<sem, undo>>
    BY <1>1 DEF Create
  <2> QED BY <2>1, <1>0, Moved DEF Ending
<1>2. CASE open_public(p)
  <2>1. pc[p] = "out" /\ Goto(p, "idle") /\ UNCHANGED <<sem, undo>>
    BY <1>2 DEF open_public, kernelVars
  <2> QED BY <2>1, <1>0, Moved DEF Ending
<1>3. ASSUME NEW q \in Proc, Fork(p, q) PROVE BInv'
  <2>1. pc[q] = "out" /\ Goto(q, "idle") /\ UNCHANGED <<sem, undo>>
    BY <1>3 DEF Fork, kernelVars
  <2> QED BY <2>1, <1>0, Moved DEF Ending
<1>4. CASE Store(p) \/ RemovePart(p)
  <2>1. UNCHANGED <<sem, undo, pc>>
    BY <1>4 DEF Store, RemovePart
  <2> QED BY <2>1 DEF BInv, BType, Free, Busy, Alone, Users
<1>5. CASE Created(p)
  <2>1. pc[p] = "create" /\ Goto(p, "idle") /\ UNCHANGED <<sem, undo>>
    BY <1>5 DEF Created, kernelVars
  <2> QED BY <2>1, <1>0, Moved DEF Ending
<1>6. CASE Removed(p)
  <2>1. CASE pc[p] = "close" /\ Goto(p, "closed") /\ UNCHANGED <<sem, undo>>
    BY <2>1, <1>0, Moved DEF Ending
  <2>2. CASE Die(p)
    BY <2>2, Ended
  <2> QED BY <1>6, <2>1, <2>2 DEF Removed, kernelVars
<1>7. CASE Exit(p) \/ Fail(p) \/ Term(p)
  BY <1>7, Exited DEF Exit, Fail, Term
<1>8. CASE Kill(p)
  BY <1>8, Ended DEF Kill
<1> QED BY <1>1, <1>2, <1>3, <1>4, <1>5, <1>6, <1>7, <1>8

LEMMA SendKeeps ==
  ASSUME BInv, NEW p \in Proc,
         \/ \E o \in Object : Send(p, o)
         \/ SendWait(p) \/ SendHeader(p) \/ SendBlock(p) \/ SendDone(p)
  PROVE  BInv'
<1>0. /\ "snd" \in Sem /\ Using["snd"] = {"send_head", "send_block"}
      /\ \A g \in Sem : "send_wait" \notin Using[g]
      /\ \A g \in Sem : "send_head" \in Using[g] <=> "send_block" \in Using[g]
  BY DEF Using, Sem
<1>1. ASSUME NEW o \in Object, Send(p, o) PROVE BInv'
  BY <1>1, Begun DEF Send
<1>2. CASE SendWait(p)
  BY <1>2, <1>0, Taken DEF SendWait, Ending
<1>3. CASE SendHeader(p)
  <2>1. CASE pc[p] = "send_head" /\ Goto(p, "send_block") /\ UNCHANGED <<sem, undo>>
    BY <2>1, <1>0, Moved DEF Label, Ending
  <2>2. CASE aborted(p)
    BY <2>2, Aborted
  <2> QED BY <1>3, <2>1, <2>2 DEF SendHeader, msgsnd
<1>4. CASE SendBlock(p)
  <2>1. CASE UNCHANGED <<sem, undo, pc>>
    BY <2>1 DEF BInv, BType, Free, Busy, Alone, Users
  <2>2. CASE aborted(p)
    BY <2>2, Aborted
  <2> QED BY <1>4, <2>1, <2>2 DEF SendBlock, msgsnd
<1>5. CASE SendDone(p)
  BY <1>5, <1>0, GivenBack DEF SendDone
<1> QED BY <1>1, <1>2, <1>3, <1>4, <1>5

LEMMA ReceiveKeeps ==
  ASSUME BInv, NEW p \in Proc,
         \/ Receive(p) \/ Attempt(p) \/ ReceiveWait(p) \/ AttemptWait(p) \/ ReceiveHeader(p)
         \/ AttemptEmpty(p) \/ AttemptFail(p) \/ ReceiveBlock(p) \/ ReceiveDone(p)
  PROVE  BInv'
<1>0. /\ "rcv" \in Sem
      /\ Using["rcv"] = {"receive_head", "attempt_head", "attempt_fail", "rcv_block"}
      /\ \A g \in Sem : "receive_wait" \notin Using[g] /\ "attempt_wait" \notin Using[g]
      /\ \A l, m \in Using["rcv"], g \in Sem : l \in Using[g] <=> m \in Using[g]
      /\ \A l \in Using["rcv"] : l \in Label \ Ending
  BY DEF Using, Sem, Label, Ending
<1>1. CASE Receive(p) \/ Attempt(p)
  BY <1>1, Begun DEF Receive, Attempt
<1>2. CASE ReceiveWait(p)
  BY <1>2, <1>0, Taken DEF ReceiveWait, Ending
<1>3. CASE AttemptWait(p)
  BY <1>3, <1>0, Taken DEF AttemptWait, Ending
<1>4. ASSUME NEW l \in Using["rcv"], pc[p] \in Using["rcv"], Goto(p, l), UNCHANGED <<sem, undo>>
      PROVE  BInv'
  BY <1>4, <1>0, Moved
<1>5. CASE ReceiveHeader(p)
  <2>1. CASE aborted(p)
    BY <2>1, Aborted
  <2>2. CASE pc[p] \in Using["rcv"] /\ Goto(p, "rcv_block") /\ UNCHANGED <<sem, undo>>
    BY <2>2, <1>0, <1>4
  <2> QED BY <1>5, <1>0, <2>1, <2>2 DEF ReceiveHeader, msgrcv
<1>6. CASE AttemptEmpty(p)
  BY <1>6, <1>0, <1>4 DEF AttemptEmpty, kernelVars
<1>7. CASE AttemptFail(p)
  BY <1>7, <1>0, GivenBack DEF AttemptFail
<1>8. CASE ReceiveBlock(p)
  <2>1. CASE aborted(p)
    BY <2>1, Aborted
  <2>2. CASE UNCHANGED <<sem, undo, pc>>
    BY <2>2 DEF BInv, BType, Free, Busy, Alone, Users
  <2> QED BY <1>8, <2>1, <2>2 DEF ReceiveBlock, msgrcv
<1>9. CASE ReceiveDone(p)
  BY <1>9, <1>0, GivenBack DEF ReceiveDone
<1> QED BY <1>1, <1>2, <1>3, <1>5, <1>6, <1>7, <1>8, <1>9

LEMMA NextKeeps == ASSUME BInv, [Next]_vars PROVE BInv'
<1>1. ASSUME NEW p \in Proc, Close(p) PROVE BInv'
  BY <1>1, Begun DEF Close
<1>2. CASE UNCHANGED vars
  BY <1>2 DEF vars, kernelVars, BInv, BType, Free, Busy, Alone, Users
<1> QED
  BY <1>1, <1>2, LifeKeeps, SendKeeps, ReceiveKeeps DEF Next, Step

----------------------------------------------------------------------------
\* The inductive invariant holds in every state.
THEOREM Invariant == Spec => []BInv
<1>1. Init => BInv
  BY InitBInv
<1>2. BInv /\ [Next]_vars => BInv'
  BY NextKeeps
<1> QED BY <1>1, <1>2, PTL DEF Spec

\* Wherever processes exit, fail or are killed, at most one sends and one receives,
\* and no semaphore stays taken without a live process that is about to give it back.
THEOREM SemaphoresCorrect == Spec => []SemaphoresBalanced
BY Invariant, BalancedFromInv, PTL

----------------------------------------------------------------------------
(* Types, and that what goes through the queue is whole messages *)

\* BInv says that one process sends and one receives.  What the receiver took
\* last, the queue, and what the sender has still to send are then one stream.
\* The inductive invariant says where its parts meet: the first packet of the
\* queue may follow the one the receiver took last (AtFront), and the one that
\* was sent last, wherever it is now, is the sender's last (AtBack).

Packet == Object \X Nat
Moving == {"send_block", "rcv_block"}

\* TypeOK, but for what BType says.
RestType ==
  /\ made \subseteq Part /\ gone \subseteq made /\ private \in BOOLEAN
  /\ queue \in Seq(Packet) /\ Len(queue) <= Capacity
  /\ obj \in [Proc -> Object \cup {None}]
  /\ done \in [Proc -> Seq(Packet \cup Part)]
  /\ result \in [Proc -> Object \cup {None, Garbled}]
  /\ table \in [Proc -> Proc \cup {None}]
  /\ sends \in 0 .. MaxSends /\ signals \in 0 .. MaxSignals
  /\ closed \in BOOLEAN /\ broken \in BOOLEAN

\* What a process keeps depends on where it is.
Places ==
  \A p \in Proc :
    /\ pc[p] \in Moving \cup {"send_wait", "send_head"} => obj[p] \in Object
    /\ pc[p] \notin Moving \cup {"close", "cleanup"} => done[p] = <<>>
    /\ pc[p] \in Moving => done[p] \in Seq(Packet) /\ Len(done[p]) <= Blocks(obj[p])

TInv == BInv /\ RestType /\ Places

LEMMA TypeFromInv == TInv => TypeOK
BY DEF TInv, BInv, BType, RestType, TypeOK, Packet, Label

LEMMA InitTInv == Init => TInv
<1> SUFFICES ASSUME Init PROVE TInv
  OBVIOUS
<1>1. queue = <<>> /\ queue \in Seq(Packet) /\ Len(queue) <= Capacity
  BY ParameterAssumption DEF Init
<1>2. <<>> \in Seq(Packet \cup Part) /\ done = [p \in Proc |-> <<>>]
  BY DEF Init
<1>3. /\ made \subseteq Part /\ gone \subseteq made /\ private \in BOOLEAN
      /\ closed \in BOOLEAN /\ broken \in BOOLEAN
  BY DEF Init
<1>8. sends \in 0 .. MaxSends /\ signals \in 0 .. MaxSignals
  BY ParameterAssumption DEF Init
<1>5. /\ obj \in [Proc -> Object \cup {None}] /\ result \in [Proc -> Object \cup {None, Garbled}]
      /\ table \in [Proc -> Proc \cup {None}]
  BY DEF Init
<1>6. done \in [Proc -> Seq(Packet \cup Part)]
  BY <1>2
<1>7. RestType
  BY <1>1, <1>3, <1>5, <1>6, <1>8 DEF RestType
<1>4. Places
  BY DEF Init, Places, Moving
<1> QED BY <1>4, <1>7, InitBInv DEF TInv

LEMMA BlocksType == \A o \in Object : Blocks(o) \in Nat
BY ParameterAssumption DEF Blocks

----------------------------------------------------------------------------
\* p goes to a place where it sends and receives no blocks, and the others stay
\* where they are.
Rests(p, l) ==
  /\ pc' = [pc EXCEPT ![p] = l]
  /\ obj' \in [Proc -> Object \cup {None}] /\ \A q \in Proc \ {p} : obj'[q] = obj[q]
  /\ done' \in [Proc -> Seq(Packet \cup Part)] /\ \A q \in Proc \ {p} : done'[q] = done[q]
  /\ l \in {"send_wait", "send_head"} => obj'[p] \in Object
  /\ l \notin {"close", "cleanup"} => done'[p] = <<>>

LEMMA RestsPlaces ==
  ASSUME TInv, NEW p \in Proc, NEW l \in Label \ Moving, Rests(p, l)
  PROVE  Places'
BY DEF TInv, BInv, BType, Places, Rests, RestType

LEMMA LeaveRests ==
  ASSUME TInv, NEW p \in Proc, NEW l, Leave(p, l), l \notin {"send_wait", "send_head"}
  PROVE  Rests(p, l) /\ broken' \in BOOLEAN
<1>1. pc' = [pc EXCEPT ![p] = l] /\ obj' = [obj EXCEPT ![p] = None] /\ done' = [done EXCEPT ![p] = <<>>]
  BY DEF Leave, Goto
<1>2. broken' \in BOOLEAN
  BY DEF Leave, TInv, RestType, MidMessage
<1> QED BY <1>1, <1>2 DEF Rests, TInv, RestType

----------------------------------------------------------------------------
(* The types, by one action after another *)

\* p stops, by a failed call or for good.
LEMMA StopTypes ==
  ASSUME TInv, NEW p \in Proc,
         aborted(p) \/ Die(p) \/ exit(p),
         sends' \in 0 .. MaxSends, signals' \in 0 .. MaxSignals, closed' \in BOOLEAN
  PROVE  RestType' /\ Places'
<1>1. ASSUME NEW l \in {"failed", "dead", "cleanup"}, Leave(p, l) PROVE Places' /\ Rests(p, l)
  BY <1>1, LeaveRests, RestsPlaces DEF Label, Moving
<1>2. CASE aborted(p)
  BY <1>1, <1>2, LeaveRests DEF aborted, kernelVars, TInv, RestType, Rests
<1>3. CASE Die(p)
  BY <1>1, <1>3, LeaveRests DEF Die, TInv, RestType, Rests
<1>4. CASE exit(p)
  BY <1>1, <1>3, <1>4, LeaveRests DEF exit, kernelVars, TInv, RestType, Rests
<1> QED BY <1>2, <1>3, <1>4

\* p goes on to l with what it has.
LEMMA GoRests ==
  ASSUME TInv, NEW p \in Proc, NEW l \in Label \ Moving, Goto(p, l), UNCHANGED <<obj, done>>,
         l \in {"send_wait", "send_head"} => pc[p] \in {"send_wait", "send_head"},
         l \notin {"close", "cleanup"} => pc[p] \notin Moving \cup {"close", "cleanup"}
  PROVE  Rests(p, l)
BY DEF TInv, RestType, Places, Goto, Rests

LEMMA LifeTypes ==
  ASSUME TInv, NEW p \in Proc,
         \/ Create(p) \/ open_public(p) \/ \E q \in Proc : Fork(p, q)
         \/ Store(p) \/ Created(p) \/ RemovePart(p) \/ Removed(p)
         \/ Exit(p) \/ Fail(p) \/ Term(p) \/ Kill(p)
  PROVE  RestType' /\ Places'
<1>0. \A l \in {"create", "idle", "close", "closed", "cleanup"} : l \in Label \ Moving
  BY DEF Label, Moving
<1>1. CASE Create(p)
  <2>1. pc[p] = "out" /\ Goto(p, "create") /\ UNCHANGED <<obj, done>>
    BY <1>1 DEF Create
  <2> QED BY <1>1, <2>1, <1>0, GoRests, RestsPlaces
          DEF Create, TInv, RestType, Part, Moving, historyVars
<1>2. CASE open_public(p)
  <2>1. pc[p] = "out" /\ Goto(p, "idle") /\ UNCHANGED <<obj, done>>
    BY <1>2 DEF open_public
  <2> QED BY <1>2, <2>1, <1>0, GoRests, RestsPlaces
          DEF open_public, TInv, RestType, Moving, kernelVars, historyVars
<1>3. ASSUME NEW q \in Proc, Fork(p, q) PROVE RestType' /\ Places'
  <2>1. pc[q] = "out" /\ Goto(q, "idle") /\ UNCHANGED <<obj, done>>
    BY <1>3 DEF Fork
  <2> QED BY <1>3, <2>1, <1>0, GoRests, RestsPlaces
          DEF Fork, TInv, RestType, Moving, kernelVars, historyVars
<1>4. CASE Store(p)
  BY <1>4 DEF Store, TInv, RestType, Places, historyVars
<1>5. CASE Created(p)
  <2>1. pc[p] = "create" /\ Goto(p, "idle") /\ UNCHANGED <<obj, done>>
    BY <1>5 DEF Created
  <2> QED BY <1>5, <2>1, <1>0, GoRests, RestsPlaces
          DEF Created, TInv, RestType, Moving, kernelVars, historyVars
<1>6. CASE RemovePart(p)
  <2> DEFINE f == Removals[Len(done[p]) + 1]
  <2>1. f \in Part /\ done' = [done EXCEPT ![p] = Append(done[p], f)]
    BY <1>6 DEF RemovePart, Removals, Part, Sem, TInv, RestType
  <2>2. pc[p] \in {"close", "cleanup"} /\ pc' = pc /\ UNCHANGED obj
    BY <1>6 DEF RemovePart
  <2>3. queue' \in Seq(Packet) /\ Len(queue') <= Capacity
    BY <1>6, ParameterAssumption DEF RemovePart, TInv, RestType
  <2>4. RestType'
    BY <1>6, <2>1, <2>3 DEF RemovePart, TInv, RestType, historyVars
  <2>5. Places'
    BY <2>1, <2>2 DEF Places, TInv, RestType, Moving
  <2> QED BY <2>4, <2>5
<1>7. CASE Removed(p)
  <2>1. CASE Die(p) /\ UNCHANGED <<sends, signals, closed>>
    BY <2>1, StopTypes DEF TInv, RestType
  <2>2. CASE /\ Goto(p, "closed") /\ table' = [table EXCEPT ![p] = None]
             /\ done' = [done EXCEPT ![p] = <<>>]
             /\ UNCHANGED <<kernelVars, obj, result, historyVars>>
    <3>1. Rests(p, "closed")
      BY <2>2 DEF Rests, Goto, TInv, RestType
    <3> QED BY <3>1, <2>2, <1>0, RestsPlaces DEF Rests, TInv, RestType, kernelVars, historyVars
  <2> QED BY <1>7, <2>1, <2>2 DEF Removed
<1>8. CASE Exit(p) \/ Fail(p)
  <2>1. exit(p) /\ UNCHANGED <<sends, signals>> /\ closed' \in BOOLEAN
    BY <1>8 DEF Exit, Fail, exit, TInv, RestType
  <2> QED BY <2>1, StopTypes DEF TInv, RestType
<1>9. CASE Term(p) \/ Kill(p)
  <2>1. (exit(p) \/ Die(p)) /\ closed' \in BOOLEAN
    BY <1>9 DEF Term, Kill, exit, TInv, RestType
  <2>2. sends' \in 0 .. MaxSends /\ signals' \in 0 .. MaxSignals
    BY <1>9, ParameterAssumption DEF Term, Kill, Signalled, TInv, RestType
  <2> QED BY <2>1, <2>2, StopTypes
<1> QED BY <1>1, <1>2, <1>3, <1>4, <1>5, <1>6, <1>7, <1>8, <1>9

\* The start of an operation.
LEMMA BeginTypes ==
  ASSUME TInv, NEW p \in Proc, NEW o \in Object \cup {None},
         NEW l \in {"close", "send_wait", "receive_wait", "attempt_wait"},
         l = "send_wait" => o \in Object, Begin(p, l, o),
         sends' \in 0 .. MaxSends, signals' \in 0 .. MaxSignals, closed' \in BOOLEAN
  PROVE  RestType' /\ Places'
<1>1. CASE aborted(p)
  BY <1>1, StopTypes
<1>2. CASE ~aborted(p)
  <2>1. /\ pc[p] = "idle" /\ Goto(p, l) /\ obj' = [obj EXCEPT ![p] = o]
        /\ UNCHANGED <<kernelVars, done, result, table, broken>>
    BY <1>2 DEF Begin
  <2>2. Rests(p, l)
    BY <2>1 DEF Rests, Goto, TInv, RestType, Places, Moving
  <2> QED BY <2>1, <2>2, RestsPlaces DEF Label, Moving, Rests, TInv, RestType, kernelVars
<1> QED BY <1>1, <1>2

\* A semaphore is waited for, or given back.
LEMMA WaitTypes ==
  ASSUME TInv, NEW p \in Proc, NEW f \in Sem,
         \/ pc[p] = "send_wait" /\ Wait(p, f, "send_head")
         \/ pc[p] = "receive_wait" /\ Wait(p, f, "receive_head")
         \/ pc[p] = "attempt_wait" /\ Wait(p, f, "attempt_head"),
         UNCHANGED <<sends, signals, closed>>
  PROVE  RestType' /\ Places'
<1>1. CASE aborted(p)
  BY <1>1, StopTypes DEF TInv, RestType
<1>2. CASE ~aborted(p)
  <2>1. PICK l \in {"send_head", "receive_head", "attempt_head"} :
           /\ Goto(p, l)
           /\ l = "send_head" => pc[p] = "send_wait"
           /\ pc[p] \in {"send_wait", "receive_wait", "attempt_wait"}
    BY <1>2 DEF Wait
  <2>2. UNCHANGED <<made, gone, private, queue, obj, done, result, table, broken>>
    BY <1>2 DEF Wait
  <2>3. Rests(p, l)
    BY <2>1, <2>2, GoRests DEF Label, Moving
  <2> QED BY <2>2, <2>3, RestsPlaces DEF Label, Moving, Rests, TInv, RestType
<1> QED BY <1>1, <1>2

LEMMA SignalTypes ==
  ASSUME TInv, NEW p \in Proc, NEW f \in Sem, Signal(p, f),
         result' \in [Proc -> Object \cup {None, Garbled}],
         UNCHANGED <<sends, signals, closed>>
  PROVE  RestType' /\ Places'
<1>1. CASE aborted(p)
  BY <1>1, StopTypes DEF TInv, RestType
<1>2. CASE ~aborted(p)
  <2>1. /\ Goto(p, "idle") /\ obj' = [obj EXCEPT ![p] = None] /\ done' = [done EXCEPT ![p] = <<>>]
        /\ UNCHANGED <<made, gone, private, queue, table, broken>>
    BY <1>2 DEF Signal
  <2>2. Rests(p, "idle")
    BY <2>1 DEF Rests, Goto, TInv, RestType
  <2> QED BY <2>1, <2>2, RestsPlaces DEF Label, Moving, Rests, TInv, RestType
<1> QED BY <1>1, <1>2

LEMMA SendTypes ==
  ASSUME TInv, NEW p \in Proc,
         \/ \E o \in Object : Send(p, o)
         \/ /\ SendWait(p) \/ SendHeader(p) \/ SendBlock(p) \/ SendDone(p)
            /\ UNCHANGED <<sends, signals, closed>>
  PROVE  RestType' /\ Places'
<1>1. ASSUME NEW o \in Object, Send(p, o) PROVE RestType' /\ Places'
  <2>1. Begin(p, "send_wait", o) /\ UNCHANGED <<signals, closed>> /\ sends' \in 0 .. MaxSends
    BY <1>1, ParameterAssumption DEF Send, TInv, RestType
  <2> QED BY <2>1, BeginTypes DEF TInv, RestType
<1>2. CASE SendWait(p) /\ UNCHANGED <<sends, signals, closed>>
  BY <1>2, WaitTypes DEF SendWait, Sem
<1>3. CASE aborted(p) /\ UNCHANGED <<sends, signals, closed>>
  BY <1>3, StopTypes DEF TInv, RestType
<1>4. CASE SendHeader(p) /\ ~aborted(p) /\ UNCHANGED <<sends, signals, closed>>
  <2>1. /\ pc[p] = "send_head" /\ msgsnd(p, <<obj[p], 0>>) /\ Goto(p, "send_block")
        /\ UNCHANGED done
    BY <1>4 DEF SendHeader
  <2>2. obj[p] \in Object /\ done[p] = <<>>
    BY <2>1 DEF TInv, Places, Moving
  <2>3. queue' \in Seq(Packet) /\ Len(queue') <= Capacity
    BY <2>1, <2>2, ParameterAssumption DEF msgsnd, TInv, RestType, Packet
  <2>4. RestType'
    BY <1>4, <2>1, <2>3 DEF msgsnd, TInv, RestType
  <2>5. Places'
    <3>1. UNCHANGED <<obj, done>>
      BY <2>1 DEF msgsnd
    <3>2. done[p] \in Seq(Packet) /\ Len(done[p]) <= Blocks(obj[p])
      BY <2>2, BlocksType
    <3> QED BY <2>1, <2>2, <3>1, <3>2 DEF TInv, BInv, BType, Places, Goto, Moving
  <2> QED BY <2>4, <2>5
<1>5. CASE SendBlock(p) /\ ~aborted(p) /\ UNCHANGED <<sends, signals, closed>>
  <2> DEFINE b == Content(obj[p])[Len(done[p]) + 1]
  <2>1. /\ pc[p] = "send_block" /\ ~AllSent(p) /\ msgsnd(p, b)
        /\ done' = [done EXCEPT ![p] = Append(done[p], b)] /\ UNCHANGED pc
    BY <1>5 DEF SendBlock, TInv, RestType
  <2>2. obj[p] \in Object /\ done[p] \in Seq(Packet) /\ Len(done[p]) < Blocks(obj[p])
    BY <2>1, BlocksType DEF TInv, Places, Moving, AllSent
  <2>3. b = <<obj[p], Len(done[p]) + 1>> /\ b \in Packet
    BY <2>2, BlocksType DEF Content, Packet
  <2>4. queue' \in Seq(Packet) /\ Len(queue') <= Capacity
    BY <2>1, <2>3, ParameterAssumption DEF msgsnd, TInv, RestType
  <2>5. /\ done'[p] \in Seq(Packet) /\ Len(done'[p]) <= Blocks(obj[p])
        /\ done'[p] \in Seq(Packet \cup Part)
    BY <2>1, <2>2, <2>3, BlocksType DEF TInv, RestType
  <2>6. RestType'
    BY <1>5, <2>1, <2>4, <2>5 DEF msgsnd, TInv, RestType
  <2>7. Places'
    BY <2>1, <2>2, <2>5 DEF msgsnd, TInv, RestType, Places, Moving
  <2> QED BY <2>6, <2>7
<1>6. CASE SendDone(p) /\ UNCHANGED <<sends, signals, closed>>
  BY <1>6, SignalTypes DEF SendDone, Sem, TInv, RestType
<1> QED BY <1>1, <1>2, <1>3, <1>4, <1>5, <1>6

LEMMA ReceiveTypes ==
  ASSUME TInv, NEW p \in Proc,
         \/ Receive(p) \/ Attempt(p)
         \/ /\ \/ ReceiveWait(p) \/ AttemptWait(p) \/ ReceiveHeader(p)
               \/ AttemptEmpty(p) \/ AttemptFail(p) \/ ReceiveBlock(p) \/ ReceiveDone(p)
            /\ UNCHANGED <<sends, signals, closed>>
  PROVE  RestType' /\ Places'
<1>1. CASE Receive(p) \/ Attempt(p)
  BY <1>1, BeginTypes DEF Receive, Attempt, TInv, RestType
<1>2. CASE (ReceiveWait(p) \/ AttemptWait(p)) /\ UNCHANGED <<sends, signals, closed>>
  BY <1>2, WaitTypes DEF ReceiveWait, AttemptWait, Sem
<1>3. CASE aborted(p) /\ UNCHANGED <<sends, signals, closed>>
  BY <1>3, StopTypes DEF TInv, RestType
<1>4. CASE ReceiveHeader(p) /\ ~aborted(p) /\ UNCHANGED <<sends, signals, closed>>
  <2>1. /\ pc[p] \in {"receive_head", "attempt_head"} /\ queue # <<>>
        /\ msgrcv /\ obj' = [obj EXCEPT ![p] = Head(queue)[1]]
        /\ result' = [result EXCEPT ![p] = None] /\ Goto(p, "rcv_block")
        /\ UNCHANGED <<done, table, broken>>
    BY <1>4 DEF ReceiveHeader
  <2>2. Head(queue) \in Packet /\ queue' \in Seq(Packet) /\ Len(queue') <= Capacity
    BY <2>1, ParameterAssumption DEF msgrcv, TInv, RestType
  <2>3. RestType'
    BY <1>4, <2>1, <2>2 DEF msgrcv, TInv, RestType, Packet
  <2>4. obj'[p] \in Object /\ done'[p] = <<>>
    BY <2>1, <2>2 DEF Packet, TInv, RestType, Places, Moving
  <2>5. done'[p] \in Seq(Packet) /\ Len(done'[p]) <= Blocks(obj'[p])
    BY <2>4, BlocksType
  <2>6. Places'
    BY <2>1, <2>4, <2>5 DEF TInv, BInv, BType, RestType, Places, Goto, Moving
  <2> QED BY <2>3, <2>6
<1>5. CASE AttemptEmpty(p) /\ UNCHANGED <<sends, signals, closed>>
  <2>1. Rests(p, "attempt_fail")
    BY <1>5, GoRests DEF AttemptEmpty, Label, Moving
  <2> QED BY <1>5, <2>1, RestsPlaces
          DEF AttemptEmpty, kernelVars, Label, Moving, Rests, TInv, RestType
<1>6. CASE AttemptFail(p) /\ UNCHANGED <<sends, signals, closed>>
  BY <1>6, SignalTypes DEF AttemptFail, Sem, TInv, RestType
<1>7. CASE ReceiveBlock(p) /\ ~aborted(p) /\ UNCHANGED <<sends, signals, closed>>
  <2>1. /\ pc[p] = "rcv_block" /\ ~AllReceived(p) /\ queue # <<>> /\ msgrcv
        /\ done' = [done EXCEPT ![p] = Append(done[p], Head(queue))]
        /\ UNCHANGED <<pc, obj, result, table, broken>>
    BY <1>7 DEF ReceiveBlock, TInv, RestType
  <2>2. obj[p] \in Object /\ done[p] \in Seq(Packet) /\ Len(done[p]) < Blocks(obj[p])
    BY <2>1, BlocksType DEF TInv, Places, Moving, AllReceived
  <2>3. Head(queue) \in Packet /\ queue' \in Seq(Packet) /\ Len(queue') <= Capacity
    BY <2>1, ParameterAssumption DEF msgrcv, TInv, RestType
  <2>4. /\ done'[p] \in Seq(Packet) /\ Len(done'[p]) <= Blocks(obj[p])
        /\ done'[p] \in Seq(Packet \cup Part)
    BY <2>1, <2>2, <2>3, BlocksType DEF TInv, RestType
  <2>5. RestType'
    BY <1>7, <2>1, <2>3, <2>4 DEF msgrcv, TInv, RestType
  <2>6. Places'
    BY <2>1, <2>2, <2>4 DEF TInv, RestType, Places, Moving
  <2> QED BY <2>5, <2>6
<1>8. CASE ReceiveDone(p) /\ UNCHANGED <<sends, signals, closed>>
  <2>1. Assembled(obj[p], done[p]) \in Object \cup {Garbled}
    BY DEF Assembled
  <2>2. result' \in [Proc -> Object \cup {None, Garbled}]
    BY <1>8, <2>1 DEF ReceiveDone, TInv, RestType
  <2> QED BY <1>8, <2>2, SignalTypes DEF ReceiveDone, Sem
<1> QED BY <1>1, <1>2, <1>3, <1>4, <1>5, <1>6, <1>7, <1>8

LEMMA NextTypes == ASSUME TInv, [Next]_vars PROVE TInv'
<1>1. BInv'
  BY NextKeeps DEF TInv
<1>2. ASSUME NEW p \in Proc, Close(p) PROVE RestType' /\ Places'
  <2>1. Begin(p, "close", None) /\ UNCHANGED <<sends, signals>> /\ closed' \in BOOLEAN
    BY <1>2 DEF Close, TInv, RestType
  <2> QED BY <2>1, BeginTypes DEF TInv, RestType
<1>3. ASSUME UNCHANGED vars PROVE RestType' /\ Places'
  <2>1. RestType'
    BY <1>3 DEF vars, kernelVars, historyVars, TInv, RestType
  <2>2. Places'
    BY <1>3 DEF vars, kernelVars, TInv, Places
  <2> QED BY <2>1, <2>2
<1>4. ASSUME NEW p \in Proc, Step(p) PROVE RestType' /\ Places'
  BY <1>4, LifeTypes, SendTypes, ReceiveTypes DEF Step
<1>5. RestType' /\ Places'
  BY <1>2, <1>3, <1>4, LifeTypes, SendTypes, ReceiveTypes DEF Next
<1> QED BY <1>1, <1>5 DEF TInv

\* Every variable holds what the code and the kernel can hold, and what a process
\* keeps is what the place it is at needs.
THEOREM Types == Spec => []TypeOK
<1>1. Init => TInv
  BY InitTInv
<1>2. TInv /\ [Next]_vars => TInv'
  BY NextTypes
<1> QED BY <1>1, <1>2, TypeFromInv, PTL DEF Spec

----------------------------------------------------------------------------
(* Closing the queue *)

\* Only a process that closes the queue removes a part of it, and what is in the
\* queue goes with it.
CInv ==
  /\ gone # {} => closed
  /\ \A p \in Proc : pc[p] \in {"close", "cleanup"} => closed
  /\ "msg" \in gone => queue = <<>>

LEMMA InitCInv == Init => CInv
BY DEF Init, CInv

\* Steps that close nothing.
LEMMA ElsewhereClosing ==
  ASSUME TInv, CInv, NEW p \in Proc, NEW l, l \notin {"close", "cleanup"},
         pc' = [pc EXCEPT ![p] = l] \/ pc' = pc, gone' = gone, closed => closed',
         queue' = queue \/ "msg" \notin gone \/ queue # <<>>
  PROVE  CInv'
BY DEF CInv, TInv, BInv, BType

LEMMA EndClosing ==
  ASSUME TInv, CInv, NEW p \in Proc,
         exit(p) \/ /\ aborted(p) \/ Die(p)
                    /\ closed' = closed
  PROVE  CInv'
<1>1. CASE exit(p) /\ CleansUp(p)
  <2>1. pc' = [pc EXCEPT ![p] = "cleanup"] /\ closed' /\ UNCHANGED <<gone, queue>>
    BY <1>1 DEF exit, CleansUp, Leave, Goto, kernelVars
  <2> QED BY <2>1 DEF CInv
<1>2. CASE ~(exit(p) /\ CleansUp(p))
  <2>1. PICK l \in {"failed", "dead"} : pc' = [pc EXCEPT ![p] = l]
    BY <1>2 DEF exit, aborted, Die, Leave, Goto
  <2>2. closed => closed'
    BY DEF exit
  <2>3. UNCHANGED <<gone, queue>>
    BY <1>2 DEF exit, aborted, Die, kernelVars
  <2> QED BY <2>1, <2>2, <2>3, ElsewhereClosing
<1> QED BY <1>1, <1>2

LEMMA NextClosing == ASSUME TInv, CInv, [Next]_vars PROVE CInv'
<1>1. ASSUME NEW p \in Proc, Create(p) \/ open_public(p) \/ Store(p) \/ Created(p) PROVE CInv'
  <2>1. PICK l \in {"create", "idle"} : pc' = [pc EXCEPT ![p] = l] \/ pc' = pc
    BY <1>1 DEF Create, open_public, Store, Created, Goto
  <2>2. UNCHANGED <<gone, queue, closed>>
    BY <1>1 DEF Create, open_public, Store, Created, kernelVars, historyVars
  <2> QED BY <2>1, <2>2, ElsewhereClosing
<1>2. ASSUME NEW p \in Proc, NEW q \in Proc, Fork(p, q) PROVE CInv'
  BY <1>2, ElsewhereClosing DEF Fork, Goto, kernelVars, historyVars
<1>3. ASSUME NEW p \in Proc, Close(p) PROVE CInv'
  <2>1. CASE Usable("top")
    BY <1>3, <2>1 DEF Close, Begin, kernelVars, CInv
  <2>2. CASE ~Usable("top")
    <3>1. aborted(p) /\ closed' = closed
      BY <1>3, <2>2 DEF Close, Begin, TInv, RestType
    <3> QED BY <3>1, EndClosing
  <2> QED BY <2>1, <2>2
<1>4. ASSUME NEW p \in Proc, Receive(p) \/ Attempt(p) \/ \E o \in Object : Send(p, o) PROVE CInv'
  <2>1. CASE aborted(p)
    BY <1>4, <2>1, EndClosing DEF Receive, Attempt, Send
  <2>2. CASE ~aborted(p)
    <3>1. PICK l \in {"receive_wait", "attempt_wait", "send_wait"} : pc' = [pc EXCEPT ![p] = l]
      BY <1>4, <2>2 DEF Receive, Attempt, Send, Begin, Goto
    <3>2. UNCHANGED <<gone, queue, closed>>
      BY <1>4, <2>2 DEF Receive, Attempt, Send, Begin, kernelVars
    <3> QED BY <3>1, <3>2, ElsewhereClosing
  <2> QED BY <2>1, <2>2
<1>5. ASSUME NEW p \in Proc, RemovePart(p) PROVE CInv'
  <2>1. closed /\ closed' /\ pc' = pc /\ ("msg" \in gone' => queue' = <<>>)
    BY <1>5 DEF RemovePart, CInv, historyVars
  <2> QED BY <2>1 DEF CInv
<1>6. ASSUME NEW p \in Proc, Removed(p) PROVE CInv'
  <2>1. CASE Die(p) /\ UNCHANGED closed
    BY <2>1, EndClosing
  <2>2. CASE Goto(p, "closed") /\ UNCHANGED <<gone, queue, closed>>
    BY <2>2, ElsewhereClosing DEF Goto
  <2> QED BY <1>6, <2>1, <2>2 DEF Removed, kernelVars, historyVars
<1>7. ASSUME NEW p \in Proc, Exit(p) \/ Fail(p) \/ Term(p) \/ Kill(p) PROVE CInv'
  BY <1>7, EndClosing DEF Exit, Fail, Term, Kill
<1>8. ASSUME NEW p \in Proc, UNCHANGED closed,
             \/ SendWait(p) \/ SendHeader(p) \/ SendBlock(p) \/ SendDone(p)
             \/ ReceiveWait(p) \/ AttemptWait(p) \/ ReceiveHeader(p)
             \/ AttemptEmpty(p) \/ AttemptFail(p) \/ ReceiveBlock(p) \/ ReceiveDone(p)
      PROVE  CInv'
  <2>1. CASE aborted(p)
    BY <1>8, <2>1, EndClosing
  <2>2. CASE ~aborted(p)
    <3>1. PICK l \in {"send_head", "send_block", "idle", "receive_head", "attempt_head",
                      "rcv_block", "attempt_fail"} : pc' = [pc EXCEPT ![p] = l] \/ pc' = pc
      BY <1>8, <2>2 DEF SendWait, SendHeader, SendBlock, SendDone, ReceiveWait, AttemptWait,
           ReceiveHeader, AttemptEmpty, AttemptFail, ReceiveBlock, ReceiveDone, Wait, Signal, Goto
    <3>2. gone' = gone /\ (queue' = queue \/ "msg" \notin gone \/ queue # <<>>)
      BY <1>8, <2>2 DEF SendWait, SendHeader, SendBlock, SendDone, ReceiveWait, AttemptWait,
           ReceiveHeader, AttemptEmpty, AttemptFail, ReceiveBlock, ReceiveDone, Wait, Signal,
           msgsnd, msgrcv, Usable, kernelVars
    <3> QED BY <1>8, <3>1, <3>2, ElsewhereClosing
  <2> QED BY <2>1, <2>2
<1>9. CASE UNCHANGED vars
  BY <1>9 DEF vars, kernelVars, historyVars, CInv
<1>10. ASSUME NEW p \in Proc, Step(p) PROVE CInv'
  BY <1>1, <1>5, <1>6, <1>7, <1>8, <1>10 DEF Step
<1> QED BY <1>1, <1>2, <1>3, <1>4, <1>7, <1>9, <1>10 DEF Next

----------------------------------------------------------------------------
(* Where the parts of the stream meet *)

\* The packet that p sent or received last.
At(p) == <<obj[p], Len(done[p])>>

Sends(s)    == pc[s] = "send_block"
Receives(r) == pc[r] = "rcv_block"

InOrder ==
  \A p \in Proc : pc[p] \in Moving => \A i \in 1 .. Len(done[p]) : done[p][i] = <<obj[p], i>>

AtFront ==
  queue # <<>> =>
    /\ \A r \in Proc : Receives(r) => Follows(At(r), queue[1])
    /\ (\A r \in Proc : ~Receives(r)) => IsHeader(queue[1])

AtBack ==
  /\ \A s \in Proc : Sends(s) =>
       /\ queue # <<>> => queue[Len(queue)] = At(s)
       /\ queue = <<>> => \A r \in Proc : Receives(r) => At(r) = At(s)
       /\ queue = <<>> /\ (\A r \in Proc : ~Receives(r)) => Complete(At(s))
  /\ (\A s \in Proc : ~Sends(s)) =>
       /\ queue # <<>> => Complete(queue[Len(queue)])
       /\ queue = <<>> => \A r \in Proc : Receives(r) => Complete(At(r))

Joined == Linked(queue) /\ InOrder /\ AtFront /\ AtBack
JInv == ~broken => InOrder /\ ("msg" \notin gone => Joined)

LEMMA OneOfEach ==
  ASSUME TInv
  PROVE  /\ \A p, q \in Proc : Sends(p) /\ Sends(q) => p = q
         /\ \A p, q \in Proc : Receives(p) /\ Receives(q) => p = q
BY DEF TInv, BInv, Users, Alone, Using, Sem, Sends, Receives

\* A process that is, or comes, to rest.
LEMMA RestsJoined ==
  ASSUME TInv, JInv, NEW p \in Proc, NEW l \in Label \ Moving, Rests(p, l),
         "msg" \notin gone' => queue' = queue, gone \subseteq gone', broken => broken',
         pc[p] \in Moving => broken' \/ Complete(At(p))
  PROVE  JInv'
<1>1. ~broken' => InOrder /\ ("msg" \notin gone' => Joined /\ queue' = queue)
  BY DEF JInv
<1>2. /\ ~Sends(p)' /\ ~Receives(p)' /\ pc'[p] \notin Moving
      /\ \A q \in Proc \ {p} : /\ pc'[q] = pc[q] /\ obj'[q] = obj[q] /\ done'[q] = done[q]
                              /\ Sends(q)' = Sends(q) /\ Receives(q)' = Receives(q)
                              /\ At(q)' = At(q)
  BY DEF Rests, TInv, BInv, BType, Sends, Receives, Moving, At
<1>3. ~broken' => (Sends(p) \/ Receives(p) => Complete(At(p)))
  BY DEF Sends, Receives, Moving
<1>3a. ~broken' => InOrder'
  BY <1>1, <1>2 DEF InOrder
<1> SUFFICES ASSUME ~broken', "msg" \notin gone' PROVE Joined'
  BY <1>3a DEF JInv
<1>4. InOrder' /\ Linked(queue)'
  BY <1>1, <1>3a DEF Joined, Linked, Follows, IsHeader, Blocks
<1>5. AtFront'
  <2> SUFFICES ASSUME queue # <<>>
               PROVE  /\ \A r \in Proc : Receives(r)' => Follows(At(r), queue[1])'
                      /\ (\A r \in Proc : ~Receives(r)') => IsHeader(queue[1])
    BY DEF AtFront, IsHeader
  <2>1. \A r \in Proc : Receives(r)' => Follows(At(r), queue[1])'
    BY <1>1, <1>2 DEF Joined, AtFront, Follows, IsHeader, Blocks
  <2>2. ASSUME Receives(p) PROVE IsHeader(queue[1])
    <3>1. Follows(At(p), queue[1]) /\ obj[p] \in Object
      BY <1>1, <2>2 DEF Joined, AtFront, TInv, Places, Receives, Moving
    <3> QED BY <3>1, <1>3, <2>2, BlocksType DEF Follows, Complete, At
  <2>3. ASSUME \A r \in Proc : ~Receives(r)', ~Receives(p) PROVE IsHeader(queue[1])
    BY <1>1, <1>2, <2>3 DEF Joined, AtFront
  <2> QED BY <2>1, <2>2, <2>3
<1>6. AtBack'
  <2>1. ASSUME NEW s \in Proc, Sends(s)'
        PROVE  /\ queue # <<>> => queue[Len(queue)] = At(s)'
               /\ queue = <<>> => \A r \in Proc : Receives(r)' => At(r)' = At(s)'
               /\ queue = <<>> /\ (\A r \in Proc : ~Receives(r)') => Complete(At(s))'
    BY <1>1, <1>2, <1>3, <2>1 DEF Joined, AtBack, Complete, Blocks
  <2>2. ASSUME \A s \in Proc : ~Sends(s)'
        PROVE  /\ queue # <<>> => Complete(queue[Len(queue)])
               /\ queue = <<>> => \A r \in Proc : Receives(r)' => Complete(At(r))'
    <3>1. CASE Sends(p)
      BY <1>1, <1>2, <1>3, <3>1 DEF Joined, AtBack, Complete, Blocks
    <3>2. CASE ~Sends(p)
      BY <1>1, <1>2, <2>2, <3>2 DEF Joined, AtBack, Complete, Blocks
    <3> QED BY <3>1, <3>2
  <2> QED BY <2>1, <2>2 DEF AtBack, Complete, Blocks
<1> QED BY <1>4, <1>5, <1>6 DEF Joined

\* The sender puts packet x, which is then its last, at the end of the queue.
LEMMA SentJoined ==
  ASSUME TInv, Joined, NEW s \in Proc, NEW x \in Packet, queue' = Append(queue, x),
         Sends(s)', At(s)' = x, InOrder',
         \A q \in Proc \ {s} : ~Sends(q)',
         \A r \in Proc : Receives(r)' = Receives(r) /\ (Receives(r) => At(r)' = At(r)),
         queue # <<>> => Follows(queue[Len(queue)], x),
         \A r \in Proc : queue = <<>> /\ Receives(r) => Follows(At(r), x),
         queue = <<>> /\ (\A r \in Proc : ~Receives(r)) => IsHeader(x)
  PROVE  Joined'
<1>1. queue \in Seq(Packet) /\ queue' \in Seq(Packet) /\ Len(queue') = Len(queue) + 1
  BY DEF TInv, RestType
<1>2. queue'[Len(queue')] = x /\ \A i \in 1 .. Len(queue) : queue'[i] = queue[i]
  BY <1>1
<1>3. Linked(queue)'
  <2>1. ASSUME NEW i \in 1 .. Len(queue') - 1 PROVE Follows(queue'[i], queue'[i + 1])
    <3>1. CASE i = Len(queue)
      BY <3>1, <1>1, <1>2
    <3>2. CASE i # Len(queue)
      BY <3>2, <1>1, <1>2 DEF Joined, Linked
    <3> QED BY <3>1, <3>2
  <2> QED BY <2>1 DEF Linked, Follows, IsHeader, Blocks
<1>4. queue # <<>> => queue'[1] = queue[1]
  BY <1>1, <1>2
<1>5. queue = <<>> => queue'[1] = x
  BY <1>1, <1>2
<1>6. AtFront'
  BY <1>4, <1>5 DEF Joined, AtFront, Follows, IsHeader, Blocks
<1>7. queue' # <<>>
  BY <1>1
<1>8. AtBack'
  BY <1>2, <1>7 DEF AtBack
<1> QED BY <1>3, <1>6, <1>8 DEF Joined

\* The receiver takes the first packet of the queue, which is then its last.
LEMMA ReceivedJoined ==
  ASSUME TInv, Joined, NEW r \in Proc, queue # <<>>, queue' = Tail(queue),
         Receives(r)', At(r)' = queue[1], InOrder',
         \A q \in Proc \ {r} : ~Receives(q)',
         \A s \in Proc : Sends(s)' = Sends(s) /\ (Sends(s) => At(s)' = At(s))
  PROVE  Joined'
<1>1. /\ queue \in Seq(Packet) /\ queue' \in Seq(Packet) /\ Len(queue') = Len(queue) - 1
      /\ \A i \in 1 .. Len(queue') : queue'[i] = queue[i + 1]
  BY DEF TInv, RestType
<1>2. Linked(queue)'
  BY <1>1 DEF Joined, Linked, Follows, IsHeader, Blocks
<1>3. queue' # <<>> => Follows(queue[1], queue'[1])
  BY <1>1 DEF Joined, Linked
<1>4. AtFront'
  BY <1>3 DEF AtFront, Follows, IsHeader, Blocks
<1>5. queue' # <<>> => queue'[Len(queue')] = queue[Len(queue)]
  BY <1>1
<1>6. queue' = <<>> => queue[1] = queue[Len(queue)]
  <2>1. queue' = <<>> => Len(queue') = 0
    OBVIOUS
  <2> QED BY <1>1, <2>1
<1>7. AtBack'
  BY <1>5, <1>6 DEF Joined, AtBack, Complete, Blocks
<1> QED BY <1>2, <1>4, <1>7 DEF Joined

----------------------------------------------------------------------------
LEMMA SendJoined ==
  ASSUME TInv, JInv, TInv', NEW p \in Proc, SendHeader(p) \/ SendBlock(p), ~aborted(p)
  PROVE  JInv'
<1> SUFFICES ASSUME ~broken' PROVE Joined'
  BY DEF JInv, Joined
<1>0. UNCHANGED <<obj, broken, gone>> /\ "msg" \notin gone
  BY DEF SendHeader, SendBlock, msgsnd, Usable
<1>1. Joined
  BY <1>0 DEF JInv
<1>2. CASE SendHeader(p)
  <2> DEFINE x == <<obj[p], 0>>
  <2>1. /\ pc[p] = "send_head" /\ queue' = Append(queue, x) /\ pc' = [pc EXCEPT ![p] = "send_block"]
        /\ done' = done /\ obj[p] \in Object /\ done[p] = <<>>
    BY <1>2 DEF SendHeader, msgsnd, Goto, TInv, Places, Moving
  <2>2. Sends(p)' /\ At(p)' = x /\ x \in Packet
    BY <2>1, <1>0 DEF Sends, At, Packet, TInv, BInv, BType
  <2>3. \A q \in Proc \ {p} : ~Sends(q)' /\ ~Sends(q)
    BY <2>1, <2>2, OneOfEach DEF TInv, BInv, BType, Users, Alone, Using, Sem, Sends
  <2>4. \A r \in Proc : Receives(r)' = Receives(r) /\ (Receives(r) => At(r)' = At(r))
    BY <2>1, <1>0 DEF Receives, At, TInv, BInv, BType
  <2>5. InOrder'
    <3>1. Len(done'[p]) = 0 /\ \A q \in Proc \ {p} : pc'[q] = pc[q]
      BY <2>1 DEF TInv, BInv, BType
    <3> QED BY <2>1, <1>0, <1>1, <3>1 DEF Joined, InOrder
  <2>6. \A q \in Proc : ~Sends(q)
    BY <2>1, <2>3 DEF Sends
  <2>7. queue # <<>> => Complete(queue[Len(queue)]) /\ queue[Len(queue)] \in Packet
    BY <1>1, <2>6 DEF Joined, AtBack, TInv, RestType
  <2>8. \A r \in Proc : queue = <<>> /\ Receives(r) => Complete(At(r)) /\ At(r) \in Packet
    <3>1. \A r \in Proc : Receives(r) => At(r) \in Packet
      BY DEF TInv, Places, Receives, Moving, At, Packet
    <3> QED BY <1>1, <2>6, <3>1 DEF Joined, AtBack
  <2>9. \A y \in Packet : Complete(y) => Follows(y, x)
    BY BlocksType DEF Complete, Follows, Packet, IsHeader
  <2> QED BY <1>1, <2>1, <2>2, <2>3, <2>4, <2>5, <2>7, <2>8, <2>9, SentJoined DEF IsHeader
<1>3. CASE SendBlock(p)
  <2> DEFINE n == Len(done[p])
             x == <<obj[p], n + 1>>
  <2>1. /\ pc[p] = "send_block" /\ obj[p] \in Object /\ done[p] \in Seq(Packet) /\ n < Blocks(obj[p])
    BY <1>3, BlocksType DEF SendBlock, AllSent, TInv, Places, Moving
  <2>2. Content(obj[p])[n + 1] = x /\ x \in Packet
    BY <2>1, BlocksType DEF Content, Packet
  <2>3. queue' = Append(queue, x) /\ done' = [done EXCEPT ![p] = Append(done[p], x)] /\ pc' = pc
    BY <1>3, <2>2 DEF SendBlock, msgsnd, TInv, RestType
  <2>4. done'[p] = Append(done[p], x) /\ \A q \in Proc \ {p} : done'[q] = done[q]
    BY <2>3 DEF TInv, RestType
  <2>5. Sends(p)' /\ At(p)' = x
    BY <2>1, <2>3, <2>4, <1>0 DEF Sends, At
  <2>10. Sends(p)
    BY <2>1 DEF Sends
  <2>6. \A q \in Proc \ {p} : ~Sends(q)' /\ ~Sends(q)
    <3>1. \A q \in Proc \ {p} : ~Sends(q)
      BY <2>10, OneOfEach
    <3> QED BY <2>3, <3>1 DEF Sends
  <2>7. \A r \in Proc : Receives(r)' = Receives(r) /\ (Receives(r) => At(r)' = At(r))
    BY <2>1, <2>3, <2>4, <1>0 DEF Receives, At
  <2>8. InOrder'
    <3>1. \A i \in 1 .. n : done[p][i] = <<obj[p], i>>
      BY <1>1, <2>1 DEF Joined, InOrder, Moving
    <3>2. \A i \in 1 .. Len(done'[p]) : done'[p][i] = <<obj[p], i>>
      BY <2>1, <2>2, <2>4, <3>1
    <3> QED BY <1>0, <1>1, <2>3, <2>4, <3>2 DEF Joined, InOrder
  <2>9. Follows(At(p), x) /\ ~Complete(At(p))
    BY <2>1, BlocksType DEF Follows, Complete, At
  <2>11. /\ queue # <<>> => Follows(queue[Len(queue)], x)
         /\ \A r \in Proc : queue = <<>> /\ Receives(r) => Follows(At(r), x)
         /\ ~(queue = <<>> /\ \A r \in Proc : ~Receives(r))
    BY <1>1, <2>9, <2>10 DEF Joined, AtBack
  <2> QED BY <1>1, <2>2, <2>3, <2>5, <2>6, <2>7, <2>8, <2>11, SentJoined
<1> QED BY <1>2, <1>3

LEMMA ReceiveJoined ==
  ASSUME TInv, CInv, JInv, TInv', NEW p \in Proc, ReceiveHeader(p) \/ ReceiveBlock(p), ~aborted(p)
  PROVE  JInv'
<1> SUFFICES ASSUME ~broken' PROVE Joined'
  BY DEF JInv, Joined
<1>0. UNCHANGED <<broken, gone>> /\ queue # <<>> /\ queue' = Tail(queue)
  BY DEF ReceiveHeader, ReceiveBlock, msgrcv
<1>1. Joined
  BY <1>0 DEF JInv, CInv
<1>2. queue[1] \in Packet /\ Head(queue) = queue[1]
  BY <1>0 DEF TInv, RestType
<1>3. CASE ReceiveHeader(p)
  <2>1. /\ pc[p] \in {"receive_head", "attempt_head"} /\ pc' = [pc EXCEPT ![p] = "rcv_block"]
        /\ obj' = [obj EXCEPT ![p] = queue[1][1]] /\ done' = done /\ done[p] = <<>>
        /\ queue[1] = <<queue[1][1], 0>>
    BY <1>3, <1>2 DEF ReceiveHeader, Goto, TInv, Places, Moving, IsHeader, Packet
  <2>2. Receives(p)' /\ At(p)' = queue[1]
    BY <2>1 DEF Receives, At, TInv, BInv, BType, RestType
  <2>3. \A q \in Proc \ {p} : ~Receives(q)'
    BY <2>2, OneOfEach DEF TInv, BInv, Users, Alone, Using, Sem, Receives
  <2>4. \A s \in Proc : Sends(s)' = Sends(s) /\ (Sends(s) => At(s)' = At(s))
    BY <2>1 DEF Sends, At, TInv, BInv, BType, RestType
  <2>5. InOrder'
    BY <2>1, <1>1 DEF Joined, InOrder, TInv, BInv, BType, RestType, Moving
  <2> QED BY <1>0, <1>1, <2>2, <2>3, <2>4, <2>5, ReceivedJoined
<1>4. CASE ReceiveBlock(p)
  <2> DEFINE n == Len(done[p])
             x == <<obj[p], n + 1>>
  <2>1. /\ pc[p] = "rcv_block" /\ obj[p] \in Object /\ done[p] \in Seq(Packet) /\ n < Blocks(obj[p])
    BY <1>4, BlocksType DEF ReceiveBlock, AllReceived, TInv, Places, Moving
  <2>2. queue[1] = x
    BY <1>0, <1>1, <2>1, BlocksType DEF Joined, AtFront, Receives, Follows, At
  <2>3. done' = [done EXCEPT ![p] = Append(done[p], x)] /\ UNCHANGED <<pc, obj>>
    BY <1>4, <1>2, <2>2 DEF ReceiveBlock, TInv, RestType
  <2>4. done'[p] = Append(done[p], x) /\ \A q \in Proc \ {p} : done'[q] = done[q]
    BY <2>3 DEF TInv, RestType
  <2>5. Receives(p)' /\ At(p)' = queue[1]
    BY <2>1, <2>2, <2>3, <2>4 DEF Receives, At
  <2>6. \A q \in Proc \ {p} : ~Receives(q)'
    <3>1. \A q \in Proc \ {p} : ~Receives(q)
      BY <2>1, OneOfEach DEF Receives
    <3> QED BY <2>3, <3>1 DEF Receives
  <2>7. \A s \in Proc : Sends(s)' = Sends(s) /\ (Sends(s) => At(s)' = At(s))
    BY <2>1, <2>3, <2>4 DEF Sends, At
  <2>8. InOrder'
    <3>1. \A i \in 1 .. n : done[p][i] = <<obj[p], i>>
      BY <1>1, <2>1 DEF Joined, InOrder, Moving
    <3>2. \A i \in 1 .. Len(done'[p]) : done'[p][i] = <<obj[p], i>>
      BY <1>2, <2>1, <2>2, <2>4, <3>1
    <3> QED BY <1>1, <2>3, <2>4, <3>2 DEF Joined, InOrder
  <2> QED BY <1>0, <1>1, <2>5, <2>6, <2>7, <2>8, ReceivedJoined
<1> QED BY <1>3, <1>4

LEMMA NextJoined == ASSUME TInv, CInv, JInv, TInv', [Next]_vars PROVE JInv'
<1>1. ASSUME NEW p \in Proc, NEW l \in {"failed", "dead", "cleanup"}, Leave(p, l),
             queue' = queue, gone' = gone
      PROVE  JInv'
  <2>1. Rests(p, l) /\ l \in Label \ Moving
    BY <1>1, LeaveRests DEF Label, Moving
  <2>2. ASSUME pc[p] \in Moving PROVE broken' \/ Complete(At(p))
    <3>1. obj[p] \in Object /\ done[p] \in Seq(Packet) /\ Len(done[p]) <= Blocks(obj[p])
      BY <2>2 DEF TInv, Places
    <3>2. Len(done[p]) < Blocks(obj[p]) => broken'
      BY <1>1, <2>2 DEF Leave, MidMessage, Moving
    <3> QED BY <3>1, <3>2, BlocksType DEF Complete, At
  <2>3. broken => broken'
    BY <1>1 DEF Leave
  <2> QED BY <1>1, <2>1, <2>2, <2>3, RestsJoined
<1>2. ASSUME NEW p \in Proc, aborted(p) \/ Die(p) \/ exit(p) PROVE JInv'
  BY <1>1, <1>2 DEF aborted, Die, exit, kernelVars
<1>3. ASSUME NEW p \in Proc, NEW l \in Label \ Moving, Rests(p, l), pc[p] \notin Moving,
             UNCHANGED <<queue, gone, broken>>
      PROVE  JInv'
  BY <1>3, RestsJoined
<1>4. ASSUME NEW p \in Proc, NEW l, NEW o \in Object \cup {None}, Begin(p, l, o),
             l \in {"close", "send_wait", "receive_wait", "attempt_wait"},
             l = "send_wait" => o \in Object
      PROVE  JInv'
  <2>1. CASE ~aborted(p)
    <3>1. /\ pc[p] = "idle" /\ Goto(p, l) /\ obj' = [obj EXCEPT ![p] = o]
          /\ UNCHANGED <<queue, gone, broken, done>>
      BY <1>4, <2>1 DEF Begin, kernelVars
    <3>2. Rests(p, l)
      BY <1>4, <3>1 DEF Rests, Goto, TInv, RestType, Places, Moving
    <3> QED BY <1>4, <3>1, <3>2, <1>3 DEF Label, Moving
  <2> QED BY <1>2, <2>1
<1>5. ASSUME NEW p \in Proc, SendWait(p) \/ ReceiveWait(p) \/ AttemptWait(p) PROVE JInv'
  <2>1. CASE ~aborted(p)
    <3>1. PICK l \in {"send_head", "receive_head", "attempt_head"} :
             /\ Goto(p, l) /\ pc[p] \in {"send_wait", "receive_wait", "attempt_wait"}
             /\ l = "send_head" => pc[p] = "send_wait"
             /\ UNCHANGED <<queue, gone, broken, obj, done>>
      BY <1>5, <2>1 DEF SendWait, ReceiveWait, AttemptWait, Wait
    <3>2. Rests(p, l)
      BY <3>1, GoRests DEF Label, Moving
    <3> QED BY <3>1, <3>2, <1>3 DEF Label, Moving
  <2> QED BY <1>2, <2>1
<1>6. ASSUME NEW p \in Proc, NEW f \in Sem, Signal(p, f), pc[p] \in Moving => Complete(At(p))
      PROVE  JInv'
  <2>1. CASE ~aborted(p)
    <3>1. /\ Goto(p, "idle") /\ obj' = [obj EXCEPT ![p] = None]
          /\ done' = [done EXCEPT ![p] = <<>>] /\ UNCHANGED <<queue, gone, broken>>
      BY <1>6, <2>1 DEF Signal
    <3>2. Rests(p, "idle")
      BY <3>1 DEF Rests, Goto, TInv, RestType
    <3> QED BY <1>6, <3>1, <3>2, RestsJoined DEF Label, Moving
  <2> QED BY <1>2, <2>1
<1>7. ASSUME NEW p \in Proc, SendDone(p) \/ AttemptFail(p) \/ ReceiveDone(p) PROVE JInv'
  <2>1. PICK f \in Sem : Signal(p, f)
    BY <1>7 DEF SendDone, AttemptFail, ReceiveDone, Sem
  <2>2. pc[p] \in Moving => Complete(At(p))
    BY <1>7 DEF SendDone, AttemptFail, ReceiveDone, AllSent, AllReceived, Complete, At, Moving
  <2> QED BY <2>1, <2>2, <1>6
<1>8. ASSUME NEW p \in Proc, Create(p) \/ open_public(p) \/ Created(p) \/ AttemptEmpty(p)
      PROVE  JInv'
  <2>1. PICK l \in {"create", "idle", "attempt_fail"} :
           Goto(p, l) /\ pc[p] \in {"out", "create", "attempt_head"}
    BY <1>8 DEF Create, open_public, Created, AttemptEmpty
  <2>2. UNCHANGED <<queue, gone, broken, obj, done>>
    BY <1>8 DEF Create, open_public, Created, AttemptEmpty, kernelVars, historyVars
  <2>3. Rests(p, l) /\ l \in Label \ Moving
    BY <2>1, <2>2, GoRests DEF Label, Moving
  <2> QED BY <2>1, <2>2, <2>3, <1>3 DEF Moving
<1>9. ASSUME NEW p \in Proc, NEW q \in Proc, Fork(p, q) PROVE JInv'
  <2>1. Goto(q, "idle") /\ pc[q] = "out" /\ UNCHANGED <<queue, gone, broken, obj, done>>
    BY <1>9 DEF Fork, kernelVars, historyVars
  <2>2. Rests(q, "idle") /\ "idle" \in Label \ Moving
    BY <2>1, GoRests DEF Label, Moving
  <2> QED BY <2>1, <2>2, <1>3 DEF Moving
<1>10. ASSUME NEW p \in Proc, RemovePart(p) PROVE JInv'
  <2>1. /\ pc[p] \in {"close", "cleanup"} /\ pc' = pc /\ obj' = obj /\ broken' = broken
        /\ \A q \in Proc \ {p} : done'[q] = done[q]
    BY <1>10 DEF RemovePart, historyVars, TInv, RestType
  <2>2. Rests(p, pc[p]) /\ pc[p] \in Label \ Moving
    BY <2>1 DEF Rests, TInv, BInv, BType, RestType, Label, Moving
  <2>3. gone \subseteq gone' /\ ("msg" \notin gone' => queue' = queue)
    BY <1>10 DEF RemovePart
  <2> QED BY <2>1, <2>2, <2>3, RestsJoined DEF Moving
<1>11. ASSUME NEW p \in Proc, Removed(p) PROVE JInv'
  <2>1. CASE ~Die(p)
    <3>1. /\ pc[p] = "close" /\ Goto(p, "closed") /\ done' = [done EXCEPT ![p] = <<>>]
          /\ UNCHANGED <<queue, gone, broken, obj>>
      BY <1>11, <2>1 DEF Removed, kernelVars, historyVars
    <3>2. Rests(p, "closed")
      BY <3>1 DEF Rests, Goto, TInv, RestType
    <3> QED BY <3>1, <3>2, <1>3 DEF Label, Moving
  <2> QED BY <1>2, <2>1
<1>12. ASSUME UNCHANGED <<queue, gone, broken, pc, obj, done>> PROVE JInv'
  BY <1>12 DEF JInv, Joined, Linked, InOrder, AtFront, AtBack, Follows, Complete, IsHeader,
               Blocks, At, Sends, Receives
<1>13. ASSUME NEW p \in Proc, Store(p) PROVE JInv'
  BY <1>12, <1>13 DEF Store, historyVars
<1>14. ASSUME NEW p \in Proc, Exit(p) \/ Fail(p) \/ Term(p) \/ Kill(p) PROVE JInv'
  BY <1>2, <1>14 DEF Exit, Fail, Term, Kill
<1>15. ASSUME NEW p \in Proc,
              Close(p) \/ Receive(p) \/ Attempt(p) \/ \E o \in Object : Send(p, o)
       PROVE  JInv'
  BY <1>4, <1>15 DEF Close, Receive, Attempt, Send
<1>16. ASSUME NEW p \in Proc, Step(p) PROVE JInv'
  BY <1>2, <1>5, <1>7, <1>8, <1>10, <1>11, <1>13, <1>14, <1>16, SendJoined, ReceiveJoined DEF Step
<1>17. CASE UNCHANGED vars
  BY <1>12, <1>17 DEF vars, kernelVars, historyVars
<1> QED BY <1>8, <1>9, <1>14, <1>15, <1>16, <1>17 DEF Next

LEMMA InitJInv == Init => JInv
<1> SUFFICES ASSUME Init PROVE JInv
  OBVIOUS
<1>1. queue = <<>> /\ Len(queue) = 0 /\ \A p \in Proc : pc[p] = "out"
  BY DEF Init
<1> QED BY <1>1 DEF JInv, Joined, Linked, InOrder, AtFront, AtBack, Moving, Sends, Receives

----------------------------------------------------------------------------
(* The stream *)

LEMMA LinkedConcat ==
  ASSUME NEW s \in Seq(Packet), NEW t \in Seq(Packet), Linked(s), Linked(t),
         s # <<>> /\ t # <<>> => Follows(s[Len(s)], t[1])
  PROVE  /\ s \o t \in Seq(Packet) /\ Linked(s \o t)
         /\ s \o t = <<>> <=> s = <<>> /\ t = <<>>
         /\ s # <<>> => (s \o t)[1] = s[1]
         /\ s = <<>> => s \o t = t
         /\ t # <<>> => (s \o t)[Len(s \o t)] = t[Len(t)]
         /\ t = <<>> => s \o t = s
<1> DEFINE u == s \o t
<1>1. /\ u \in Seq(Packet) /\ Len(u) = Len(s) + Len(t)
      /\ \A i \in 1 .. Len(s) : u[i] = s[i]
      /\ \A i \in Len(s) + 1 .. Len(u) : u[i] = t[i - Len(s)]
  OBVIOUS
<1>2. ASSUME NEW i \in 1 .. Len(u) - 1 PROVE Follows(u[i], u[i + 1])
  <2>1. CASE i < Len(s)
    <3>1. u[i] = s[i] /\ u[i + 1] = s[i + 1] /\ i \in 1 .. Len(s) - 1
      BY <1>1, <2>1
    <3> QED BY <3>1 DEF Linked
  <2>2. CASE i = Len(s)
    <3>1. u[i] = s[Len(s)] /\ u[i + 1] = t[1] /\ s # <<>> /\ t # <<>>
      BY <1>1, <2>2
    <3> QED BY <3>1
  <2>3. CASE i > Len(s)
    <3>1. u[i] = t[i - Len(s)] /\ u[i + 1] = t[i - Len(s) + 1] /\ i - Len(s) \in 1 .. Len(t) - 1
      BY <1>1, <2>3
    <3> QED BY <3>1 DEF Linked
  <2> QED BY <2>1, <2>2, <2>3
<1>3. Linked(u)
  BY <1>2 DEF Linked
<1>4. /\ s = <<>> => u = t
      /\ t = <<>> => u = s
      /\ u = <<>> <=> s = <<>> /\ t = <<>>
  BY <1>1
<1>5. /\ s # <<>> => u[1] = s[1]
      /\ t # <<>> => u[Len(u)] = t[Len(t)]
  BY <1>1
<1> QED BY <1>1, <1>3, <1>4, <1>5

\* What the receiver has taken of its message.
LEMMA Underway ==
  ASSUME TInv, InOrder, NEW r \in Proc, Receives(r)
  PROVE  LET b == <<<<obj[r], 0>>>> \o done[r]
         IN  b \in Seq(Packet) /\ Linked(b) /\ b # <<>> /\ IsHeader(b[1]) /\ b[Len(b)] = At(r)
<1> DEFINE h == <<<<obj[r], 0>>>>
           b == h \o done[r]
           n == Len(done[r])
<1>1. /\ obj[r] \in Object /\ done[r] \in Seq(Packet) /\ n <= Blocks(obj[r])
      /\ \A i \in 1 .. n : done[r][i] = <<obj[r], i>>
  BY DEF TInv, Places, InOrder, Receives, Moving
<1>2. h \in Seq(Packet) /\ Len(h) = 1 /\ h[1] = <<obj[r], 0>>
  BY <1>1 DEF Packet
<1>3. b \in Seq(Packet) /\ Len(b) = n + 1 /\ \A i \in 1 .. n + 1 : b[i] = <<obj[r], i - 1>>
  BY <1>1, <1>2
<1> HIDE DEF b
<1>4. ASSUME NEW i \in 1 .. Len(b) - 1 PROVE Follows(b[i], b[i + 1])
  <2>1. n \in Nat /\ i \in 1 .. n /\ i + 1 \in 1 .. n + 1 /\ (i + 1) - 1 = (i - 1) + 1
    BY <1>1, <1>3
  <2>2. b[i] = <<obj[r], i - 1>> /\ b[i + 1] = <<obj[r], (i - 1) + 1>>
    BY <1>3, <2>1
  <2>3. i - 1 < Blocks(obj[r])
    BY <1>1, <2>1, BlocksType
  <2> QED BY <2>2, <2>3 DEF Follows
<1>5. Linked(b) /\ b # <<>> /\ IsHeader(b[1]) /\ b[Len(b)] = At(r)
  BY <1>1, <1>3, <1>4 DEF Linked, IsHeader, At
<1> QED BY <1>3, <1>5 DEF b

\* What the sender has still to send.
LEMMA Missing ==
  ASSUME TInv, NEW s \in Proc, Sends(s)
  PROVE  LET m == SubSeq(Content(obj[s]), Len(done[s]) + 1, Blocks(obj[s]))
         IN  /\ m \in Seq(Packet) /\ Linked(m)
             /\ Complete(At(s)) <=> m = <<>>
             /\ m # <<>> => Follows(At(s), m[1]) /\ Complete(m[Len(m)])
<1> DEFINE o == obj[s]
           n == Len(done[s])
           m == SubSeq(Content(o), n + 1, Blocks(o))
<1>1. o \in Object /\ n \in Nat /\ Blocks(o) \in Nat /\ n <= Blocks(o)
  BY BlocksType DEF TInv, Places, Sends, Moving
<1>2. Content(o) \in Seq(Packet) /\ Len(Content(o)) = Blocks(o)
      /\ \A i \in 1 .. Blocks(o) : Content(o)[i] = <<o, i>>
  BY <1>1 DEF Content, Packet
<1>3. m \in Seq(Packet) /\ Len(m) = Blocks(o) - n /\ \A i \in 1 .. Blocks(o) - n : m[i] = <<o, n + i>>
  BY <1>1, <1>2
<1> HIDE DEF m
<1>4. \A i \in 1 .. Len(m) - 1 : Follows(m[i], m[i + 1])
  BY <1>1, <1>3 DEF Follows
<1>5. Complete(At(s)) <=> m = <<>>
  BY <1>1, <1>3 DEF Complete, At
<1>6. m # <<>> => Follows(At(s), m[1]) /\ Complete(m[Len(m)])
  BY <1>1, <1>3 DEF Complete, At, Follows
<1> QED BY <1>3, <1>4, <1>5, <1>6 DEF Linked, m

LEMMA FramedFromInv == TInv /\ JInv => Framed
<1> SUFFICES ASSUME TInv, JInv, ~broken, "msg" \notin gone
             PROVE  LET moving(l) == {p \in Proc : pc[p] = l}
                        rest(p) == SubSeq(Content(obj[p]), Len(done[p]) + 1, Blocks(obj[p]))
                        begun == IF moving("rcv_block") = {} THEN <<>>
                                 ELSE LET r == CHOOSE p \in moving("rcv_block") : TRUE
                                      IN  <<<<obj[r], 0>>>> \o done[r]
                        missing == IF moving("send_block") = {} THEN <<>>
                                   ELSE rest(CHOOSE p \in moving("send_block") : TRUE)
                    IN  WholeMessages(begun \o queue \o missing)
  BY DEF Framed
<1> DEFINE moving(l) == {p \in Proc : pc[p] = l}
           rest(p) == SubSeq(Content(obj[p]), Len(done[p]) + 1, Blocks(obj[p]))
           r == CHOOSE p \in moving("rcv_block") : TRUE
           s == CHOOSE p \in moving("send_block") : TRUE
           begun == IF moving("rcv_block") = {} THEN <<>> ELSE <<<<obj[r], 0>>>> \o done[r]
           missing == IF moving("send_block") = {} THEN <<>> ELSE rest(s)
           sofar == begun \o queue
<1>1. Linked(queue) /\ InOrder /\ AtFront /\ AtBack /\ queue \in Seq(Packet)
  BY DEF JInv, Joined, TInv, RestType
<1>2. /\ moving("rcv_block") # {} => r \in Proc /\ Receives(r)
      /\ moving("rcv_block") = {} => \A p \in Proc : ~Receives(p)
      /\ moving("send_block") # {} => s \in Proc /\ Sends(s)
      /\ moving("send_block") = {} => \A p \in Proc : ~Sends(p)
  BY DEF Sends, Receives
<1>3. /\ begun \in Seq(Packet) /\ Linked(begun)
      /\ begun # <<>> => /\ IsHeader(begun[1]) /\ begun[Len(begun)] = At(r)
                         /\ r \in Proc /\ Receives(r)
      /\ begun = <<>> => \A p \in Proc : ~Receives(p)
  <2>1. CASE moving("rcv_block") = {}
    BY <1>2, <2>1 DEF Linked
  <2>2. CASE moving("rcv_block") # {}
    BY <1>1, <1>2, <2>2, Underway
  <2> QED BY <2>1, <2>2
<1>4. /\ missing \in Seq(Packet) /\ Linked(missing)
      /\ \/ missing = <<>> /\ \A p \in Proc : ~Sends(p)
         \/ /\ s \in Proc /\ Sends(s)
            /\ Complete(At(s)) <=> missing = <<>>
            /\ missing # <<>> => Follows(At(s), missing[1]) /\ Complete(missing[Len(missing)])
  <2>1. CASE moving("send_block") = {}
    BY <1>2, <2>1 DEF Linked
  <2>2. CASE moving("send_block") # {}
    BY <1>2, <2>2, Missing
  <2> QED BY <2>1, <2>2
<1> HIDE DEF begun, missing, s, r
<1>5. /\ sofar \in Seq(Packet) /\ Linked(sofar)
      /\ sofar # <<>> => IsHeader(sofar[1])
      /\ queue # <<>> => sofar # <<>> /\ sofar[Len(sofar)] = queue[Len(queue)]
      /\ queue = <<>> /\ sofar # <<>> => /\ sofar[Len(sofar)] = At(r)
                                         /\ r \in Proc /\ Receives(r)
      /\ sofar = <<>> => queue = <<>> /\ \A p \in Proc : ~Receives(p)
  <2>1. begun # <<>> /\ queue # <<>> => Follows(begun[Len(begun)], queue[1])
    BY <1>1, <1>3 DEF AtFront
  <2>2. begun = <<>> /\ queue # <<>> => IsHeader(queue[1])
    BY <1>1, <1>3 DEF AtFront
  <2> QED BY <1>1, <1>3, <2>1, <2>2, LinkedConcat
<1> HIDE DEF sofar
<1>6. CASE missing = <<>> /\ \A p \in Proc : ~Sends(p)
  <2>1. sofar # <<>> => Complete(sofar[Len(sofar)])
    BY <1>1, <1>5, <1>6 DEF AtBack
  <2>2. sofar \o missing = sofar
    BY <1>5, <1>6
  <2>3. WholeMessages(sofar \o missing)
    BY <1>5, <2>1, <2>2 DEF WholeMessages
  <2> QED BY <2>3 DEF sofar, begun, missing, r, s
<1>7. CASE /\ s \in Proc /\ Sends(s)
           /\ Complete(At(s)) <=> missing = <<>>
           /\ missing # <<>> => Follows(At(s), missing[1]) /\ Complete(missing[Len(missing)])
  <2>1. sofar # <<>> => sofar[Len(sofar)] = At(s)
    BY <1>1, <1>5, <1>7 DEF AtBack
  <2>2. sofar = <<>> => missing = <<>>
    BY <1>1, <1>5, <1>7 DEF AtBack
  <2>3. WholeMessages(sofar \o missing)
    BY <1>4, <1>5, <1>7, <2>1, <2>2, LinkedConcat DEF WholeMessages
  <2> QED BY <2>3 DEF sofar, begun, missing, r, s
<1> QED BY <1>4, <1>6, <1>7

\* The stream holds together in every state.
THEOREM JoinedInvariant == Spec => [](TInv /\ CInv /\ JInv)
<1>1. Init => TInv /\ CInv /\ JInv
  BY InitTInv, InitCInv, InitJInv
<1>2. (TInv /\ CInv /\ JInv) /\ [Next]_vars => (TInv /\ CInv /\ JInv)'
  BY NextTypes, NextClosing, NextJoined
<1> QED BY <1>1, <1>2, PTL DEF Spec

\* What the receiver has taken, the queue, and what the sender has still to send
\* are whole messages, one after the other, unless a process ended in the middle of
\* one or the queue was closed: a header is never read as a block, nor a block as a
\* header or as a block of another message.
THEOREM FramedCorrect == Spec => []Framed
BY JoinedInvariant, FramedFromInv, PTL

----------------------------------------------------------------------------
(* Calls that fail *)

\* Of the calls that fail, those for want of a part of the queue fail because it
\* was closed, or is not all there yet.
LEMMA AbortReason ==
  ASSUME TInv, CInv, NEW f \in Part, ~Usable(f)
  PROVE  closed \/ made # Part
BY DEF Usable, CInv, TInv, RestType

\* The only other is a packet that is too long for a header, which no receiver
\* meets as long as the stream holds together.
LEMMA HeaderExpected ==
  ASSUME TInv, CInv, JInv, NEW p \in Proc, pc[p] \in {"receive_head", "attempt_head"},
         queue # <<>>, ~broken
  PROVE  IsHeader(Head(queue))
<1>1. \A r \in Proc : ~Receives(r)
  BY DEF Receives, TInv, BInv, Users, Alone, Using, Sem
<1>2. IsHeader(queue[1])
  BY <1>1 DEF CInv, JInv, Joined, AtFront
<1> QED BY <1>2 DEF TInv, RestType

LEMMA NoAbort ==
  ASSUME TInv, CInv, JInv, [Next]_vars, NEW p \in Proc, pc[p] # "failed", pc'[p] = "failed"
  PROVE  closed \/ broken \/ made # Part
<1> SUFFICES ASSUME ~closed, ~broken, made = Part PROVE FALSE
  OBVIOUS
<1>1. \A f \in Part : Usable(f)
  BY AbortReason
<1>2. /\ Usable("top") /\ Usable("msg") /\ Usable("snd") /\ Usable("rcv")
  BY <1>1 DEF Part, Sem
<1>3. ASSUME NEW q \in Proc, NEW l, l # "failed", pc' = [pc EXCEPT ![q] = l] \/ pc' = pc PROVE FALSE
  BY <1>3 DEF TInv, BInv, BType
<1>4. ASSUME NEW q \in Proc, exit(q) \/ Die(q) PROVE FALSE
  BY <1>3, <1>4 DEF exit, Die, Leave, Goto
<1>5. ASSUME NEW q \in Proc, Create(q) \/ open_public(q) \/ Store(q) \/ Created(q) \/ RemovePart(q)
                             \/ \E r \in Proc : Fork(q, r)
      PROVE FALSE
  BY <1>3, <1>5 DEF Create, open_public, Store, Created, RemovePart, Fork, Goto
<1>6. ASSUME NEW q \in Proc, NEW l, l # "failed", NEW o, Begin(q, l, o) PROVE FALSE
  BY <1>2, <1>3, <1>6 DEF Begin, Goto
<1>7. ASSUME NEW q \in Proc, Close(q) \/ Receive(q) \/ Attempt(q) \/ \E o \in Object : Send(q, o)
      PROVE  FALSE
  BY <1>6, <1>7 DEF Close, Receive, Attempt, Send
<1>8. ASSUME NEW q \in Proc, Removed(q) PROVE FALSE
  BY <1>3, <1>4, <1>8 DEF Removed, Goto
<1>9. ASSUME NEW q \in Proc, Exit(q) \/ Fail(q) \/ Term(q) \/ Kill(q) PROVE FALSE
  BY <1>4, <1>9 DEF Exit, Fail, Term, Kill
<1>10. ASSUME NEW q \in Proc, ReceiveHeader(q) PROVE FALSE
  BY <1>2, <1>3, <1>10, HeaderExpected DEF ReceiveHeader, Goto
<1>11. ASSUME NEW q \in Proc, SendWait(q) \/ ReceiveWait(q) \/ AttemptWait(q) \/ SendDone(q)
                              \/ AttemptFail(q) \/ ReceiveDone(q)
       PROVE  FALSE
  BY <1>2, <1>3, <1>11
     DEF SendWait, ReceiveWait, AttemptWait, SendDone, AttemptFail, ReceiveDone, Wait, Signal, Goto
<1>12. ASSUME NEW q \in Proc, SendHeader(q) \/ SendBlock(q) \/ AttemptEmpty(q) \/ ReceiveBlock(q)
       PROVE  FALSE
  BY <1>2, <1>3, <1>12 DEF SendHeader, SendBlock, AttemptEmpty, ReceiveBlock, Goto
<1>13. ASSUME NEW q \in Proc, Step(q) PROVE FALSE
  BY <1>5, <1>8, <1>9, <1>10, <1>11, <1>12, <1>13 DEF Step
<1>14. CASE UNCHANGED vars
  BY <1>3, <1>14 DEF vars
<1> QED BY <1>5, <1>7, <1>9, <1>13, <1>14 DEF Next

\* No call of an operation fails unless the queue was closed, or a process ended in
\* the middle of a message, or the queue was used before its creator had stored
\* all ids: not because a process that did not create the queue exits or is killed.
THEOREM NoSpuriousAbortCorrect == Spec => NoSpuriousAbort
<1>1. TInv /\ CInv /\ JInv /\ [Next]_vars =>
        [\A p \in Proc : pc[p] # "failed" /\ pc'[p] = "failed" =>
           closed \/ broken \/ made # Part]_vars
  BY NoAbort
<1> QED BY <1>1, JoinedInvariant, PTL DEF Spec, NoSpuriousAbort
==============================================================================
