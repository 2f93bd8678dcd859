------------------------------ MODULE MsgQueue ------------------------------
(***************************************************************************)
(* ipc.Msg (lib/native/ipc.r, lib/main/msg.icn): one message queue shared  *)
(* by several processes.                                                   *)
(*                                                                         *)
(* A shared segment, "top", holds the ids of a System V queue, "msg", and  *)
(* of two semaphores: "snd" is held while a message is sent, "rcv" while   *)
(* one is received.  A message goes through the queue as a header packet,  *)
(* which gives its size, and block packets of one length.  Processes are   *)
(* forked, exit, fail and are killed; the semaphores are operated with     *)
(* SEM_UNDO, so the kernel takes back what a process did when it ends.     *)
(***************************************************************************)
EXTENDS Integers, SequencesExt, FiniteSetsExt

CONSTANTS
  Proc,
  Object,      \* the (encoded) objects that are sent
  Size,        \* their sizes
  BlockSize,   \* 1024 in the code
  Capacity,    \* how many packets the kernel lets the queue hold
  None, Garbled,
  MaxSends,    \* bound: calls of send()
  MaxSignals   \* bound: signals sent to the processes

ASSUME ParameterAssumption ==
  /\ Size \in [Object -> Nat] /\ BlockSize \in Nat \ {0} /\ Capacity \in Nat \ {0}
  /\ MaxSends \in Nat /\ MaxSignals \in Nat
  /\ None \notin Object \cup Proc /\ Garbled \notin Object \cup {None}
  /\ \A x, y \in Object : Size[x] = 0 /\ Size[y] = 0 => x = y  \* one string is empty

Sem  == {"snd", "rcv"}
Part == {"top", "msg"} \cup Sem

VARIABLES
  \* shared, in the kernel
  made,      \* the parts that can be reached from top, whose fields are stored one by one
  gone,      \* the parts that were removed
  private,   \* the queue has no key: only forking shares it
  queue,     \* the packets: <<o, 0>> is the header of o, <<o, i>> its block i
  sem,       \* the value of each semaphore
  undo,      \* what the end of a process will add to each semaphore
  \* of each process
  pc,
  obj,       \* the object it is sending, or whose header it received
  done,      \* what the operation in progress has dealt with: blocks, or parts
  result,    \* what its last receive() or attempt() gave
  table,     \* its resource table lists the queue: the process that listed it, or None
  \* bounds and history
  sends, signals,
  closed,    \* the queue was closed, or the process that created it in private ended
  broken     \* a process ended in the middle of a message

kernelVars  == <<made, gone, private, queue, sem, undo>>
historyVars == <<sends, signals, closed, broken>>
vars == <<kernelVars, pc, obj, done, result, table, historyVars>>

----------------------------------------------------------------------------
(* Packets *)

\* blocks, and one more for the residue.
Blocks(o) == Size[o] \div BlockSize + IF Size[o] % BlockSize > 0 THEN 1 ELSE 0

Content(o) == [i \in 1 .. Blocks(o) |-> <<o, i>>]
IsHeader(packet) == packet[2] = 0

\* What blocks b give when read as a message of o's size.
Assembled(o, b) ==
  LET fits == {x \in Object : Size[x] = Size[o] /\ Content(x) = b}
  IN  IF fits = {} THEN Garbled ELSE CHOOSE x \in fits : TRUE

Usable(f) == f \in made \ gone

----------------------------------------------------------------------------
Init ==
  /\ made = {} /\ gone = {} /\ private \in BOOLEAN /\ queue = <<>>
  /\ sem = [f \in Sem |-> 1] /\ undo = [p \in Proc |-> [f \in Sem |-> 0]]
  /\ pc = [p \in Proc |-> "out"]
  /\ obj = [p \in Proc |-> None] /\ done = [p \in Proc |-> <<>>]
  /\ result = [p \in Proc |-> None] /\ table = [p \in Proc |-> None]
  /\ sends = 0 /\ signals = 0 /\ closed = FALSE /\ broken = FALSE

Goto(p, l) == pc' = [pc EXCEPT ![p] = l]

----------------------------------------------------------------------------
(* The end of a process *)

\* p is between the header and the last block of a message.
MidMessage(p) == pc[p] \in {"send_block", "rcv_block"} /\ Len(done[p]) < Blocks(obj[p])

\* p stops what it does and goes to l; what it holds, it still holds.
Leave(p, l) ==
  /\ Goto(p, l)
  /\ broken' = (broken \/ MidMessage(p))
  /\ obj' = [obj EXCEPT ![p] = None] /\ done' = [done EXCEPT ![p] = <<>>]

\* A call failed.
aborted(p) ==
  /\ Leave(p, "failed")
  /\ UNCHANGED <<kernelVars, result, table>>

\* The kernel ends p, and undoes its semaphore operations.
Die(p) ==
  /\ Leave(p, "dead")
  /\ sem' = [f \in Sem |-> sem[f] + undo[p][f]]
  /\ undo' = [undo EXCEPT ![p] = [f \in Sem |-> 0]]
  /\ table' = [table EXCEPT ![p] = None]
  /\ UNCHANGED <<made, gone, private, queue, result>>

\* Mistake: a forked process takes its parent's table for its own.
CleansUp_NoFreshen(p) == table[p] # None /\ Usable("top")
\* cleanup() finds the queue in the table, p having filled it itself, and attaches.
CleansUp(p) == table[p] = p /\ Usable("top")

\* exit(), by way of handler() or not.
exit(p) ==
  /\ IF CleansUp(p) THEN Leave(p, "cleanup") /\ UNCHANGED <<kernelVars, result, table>> ELSE Die(p)
  /\ closed' = (closed \/ table[p] = p)

\* The program ends.
Exit(p) == pc[p] \in {"idle", "closed"} /\ exit(p) /\ UNCHANGED <<sends, signals>>

\* What ffatalerr() comes to.
Fail(p) == pc[p] = "failed" /\ exit(p) /\ UNCHANGED <<sends, signals>>

Signalled(p) ==
  /\ signals < MaxSignals /\ signals' = signals + 1
  /\ pc[p] \notin {"out", "dead"}
  /\ UNCHANGED sends

\* SIGTERM, SIGINT or SIGPIPE.  During clean-up it is blocked, or does the same again.
Term(p) == pc[p] # "cleanup" /\ Signalled(p) /\ exit(p)

\* SIGKILL.
Kill(p) == Signalled(p) /\ Die(p) /\ UNCHANGED closed

----------------------------------------------------------------------------
(* Creating, sharing and removing the queue *)

\* shmget() in create_public and create_private; what else is created is not
\* reachable by others until its id is stored in top.
Create(p) ==
  /\ made = {} /\ pc[p] = "out"
  /\ made' = {"top"} /\ Goto(p, "create")
  /\ UNCHANGED <<gone, private, queue, sem, undo, obj, done, result, table, historyVars>>

\* The plain stores of the ids: the compiler may order them as it likes.
Store(p) ==
  /\ pc[p] = "create"
  /\ \E f \in Part \ made : made' = made \cup {f}
  /\ UNCHANGED <<gone, private, queue, sem, undo, pc, obj, done, result, table, historyVars>>

Created(p) ==
  /\ pc[p] = "create" /\ made = Part
  /\ Goto(p, "idle")
  /\ table' = [table EXCEPT ![p] = IF private THEN p ELSE None]
  /\ UNCHANGED <<kernelVars, obj, done, result, historyVars>>

open_public(p) ==
  /\ ~private /\ Usable("top") /\ pc[p] = "out"
  /\ Goto(p, "idle")
  /\ UNCHANGED <<kernelVars, obj, done, result, table, historyVars>>

\* p forks q, which inherits the handle and the resource table.
Fork(p, q) ==
  /\ pc[p] = "idle" /\ pc[q] = "out"
  /\ Goto(q, "idle") /\ table' = [table EXCEPT ![q] = table[p]]
  /\ UNCHANGED <<kernelVars, obj, done, result, historyVars>>

\* shmat() at the start of an operation, on o if that is to be sent.
Begin(p, l, o) ==
  /\ pc[p] = "idle"
  /\ IF Usable("top")
     THEN /\ Goto(p, l) /\ obj' = [obj EXCEPT ![p] = o]
          /\ UNCHANGED <<kernelVars, done, result, table, broken>>
     ELSE aborted(p)

Close(p) ==
  /\ Begin(p, "close", None)
  /\ closed' = (closed \/ Usable("top"))
  /\ UNCHANGED <<sends, signals>>

Removals == <<"rcv", "snd", "msg", "top">>

\* The next removal of close() or cleanup().  A part whose id is not stored is missed.
RemovePart(p) ==
  /\ pc[p] \in {"close", "cleanup"} /\ Len(done[p]) < Len(Removals)
  /\ LET f == Removals[Len(done[p]) + 1]
     IN  /\ gone' = gone \cup ({f} \cap made)
         /\ done' = [done EXCEPT ![p] = Append(@, f)]
  /\ queue' = IF "msg" \in gone' THEN <<>> ELSE queue
  /\ UNCHANGED <<made, private, sem, undo, pc, obj, result, table, historyVars>>

Removed(p) ==
  /\ Len(done[p]) = Len(Removals)
  /\ \/ /\ pc[p] = "close"
        /\ Goto(p, "closed") /\ table' = [table EXCEPT ![p] = None]
        /\ done' = [done EXCEPT ![p] = <<>>]
        /\ UNCHANGED <<kernelVars, obj, result, historyVars>>
     \/ /\ pc[p] = "cleanup"
        /\ Die(p) /\ UNCHANGED <<sends, signals, closed>>

----------------------------------------------------------------------------
(* Semaphores *)

\* semop -1 with SEM_UNDO: it waits for the semaphore, and fails when that is removed.
\* An id that is not stored yet is 0 and taken to be no semaphore (or queue) at all.
Wait(p, f, l) ==
  IF Usable(f)
  THEN /\ sem[f] > 0
       /\ sem' = [sem EXCEPT ![f] = @ - 1] /\ undo' = [undo EXCEPT ![p][f] = @ + 1]
       /\ Goto(p, l)
       /\ UNCHANGED <<made, gone, private, queue, obj, done, result, table, broken>>
  ELSE aborted(p)

\* Mistake: the flag is not given to the second operation.
SemUp_NoUndo(p, f) == sem' = [sem EXCEPT ![f] = @ + 1] /\ UNCHANGED undo
SemUp(p, f) == sem' = [sem EXCEPT ![f] = @ + 1] /\ undo' = [undo EXCEPT ![p][f] = @ - 1]

\* semop +1 with SEM_UNDO, at the end of an operation.
Signal(p, f) ==
  IF Usable(f)
  THEN /\ SemUp(p, f) /\ Goto(p, "idle")
       /\ obj' = [obj EXCEPT ![p] = None] /\ done' = [done EXCEPT ![p] = <<>>]
       /\ UNCHANGED <<made, gone, private, queue, table, broken>>
  ELSE aborted(p)

----------------------------------------------------------------------------
(* Sending *)

\* Mistake: a residue is forgotten at the end.
AllSent_NoResidue(p) == Len(done[p]) >= Size[obj[p]] \div BlockSize
AllSent(p) == Len(done[p]) = Blocks(obj[p])

Send(p, o) ==
  /\ sends < MaxSends /\ sends' = sends + 1
  /\ Begin(p, "send_wait", o)
  /\ UNCHANGED <<signals, closed>>

SendWait(p) == pc[p] = "send_wait" /\ Wait(p, "snd", "send_head")

\* msgsnd: it waits while the queue is full, and fails when it is removed.
msgsnd(p, packet) ==
  /\ Len(queue) < Capacity
  /\ queue' = Append(queue, packet)
  /\ UNCHANGED <<made, gone, private, sem, undo, obj, result, table, broken>>

SendHeader(p) ==
  /\ pc[p] = "send_head"
  /\ IF Usable("msg")
     THEN msgsnd(p, <<obj[p], 0>>) /\ Goto(p, "send_block") /\ UNCHANGED done
     ELSE aborted(p)

SendBlock(p) ==
  /\ pc[p] = "send_block" /\ ~AllSent(p)
  /\ IF Usable("msg")
     THEN LET block == Content(obj[p])[Len(done[p]) + 1]
          IN  msgsnd(p, block) /\ done' = [done EXCEPT ![p] = Append(@, block)] /\ UNCHANGED pc
     ELSE aborted(p)

SendDone(p) ==
  /\ pc[p] = "send_block" /\ AllSent(p)
  /\ Signal(p, "snd") /\ UNCHANGED result

----------------------------------------------------------------------------
(* Receiving *)

Receive(p) == Begin(p, "receive_wait", None) /\ UNCHANGED <<sends, signals, closed>>
Attempt(p) == Begin(p, "attempt_wait", None) /\ UNCHANGED <<sends, signals, closed>>

ReceiveWait(p) == pc[p] = "receive_wait" /\ Wait(p, "rcv", "receive_head")
AttemptWait(p) == pc[p] = "attempt_wait" /\ Wait(p, "rcv", "attempt_head")

msgrcv == queue' = Tail(queue) /\ UNCHANGED <<made, gone, private, sem, undo>>

\* A block is too long to be received as a header.
ReceiveHeader(p) ==
  /\ pc[p] \in {"receive_head", "attempt_head"}
  /\ \/ ~Usable("msg") /\ aborted(p)
     \/ queue # <<>> /\ ~IsHeader(Head(queue)) /\ aborted(p)
     \/ /\ queue # <<>> /\ IsHeader(Head(queue))
        /\ msgrcv /\ obj' = [obj EXCEPT ![p] = Head(queue)[1]]
        /\ result' = [result EXCEPT ![p] = None] /\ Goto(p, "rcv_block")
        /\ UNCHANGED <<done, table, broken>>

\* ENOMSG
AttemptEmpty(p) ==
  /\ pc[p] = "attempt_head" /\ Usable("msg") /\ queue = <<>>
  /\ Goto(p, "attempt_fail") /\ result' = [result EXCEPT ![p] = None]
  /\ UNCHANGED <<kernelVars, obj, done, table, broken>>

\* Mistake: it returns without giving back the semaphore.
AttemptFail_NoSignal(p) ==
  /\ pc[p] = "attempt_fail" /\ Goto(p, "idle")
  /\ UNCHANGED <<kernelVars, obj, done, result, table, broken>>
AttemptFail(p) ==
  /\ pc[p] = "attempt_fail"
  /\ Signal(p, "rcv") /\ UNCHANGED result

\* Mistake: the residue is not received.
AllReceived_NoResidue(p) == Len(done[p]) >= Size[obj[p]] \div BlockSize
\* Mistake: a block is expected for a residue of none.
AllReceived_Extra(p) == Len(done[p]) = Size[obj[p]] \div BlockSize + 1
AllReceived(p) == Len(done[p]) = Blocks(obj[p])

\* Any packet will do for a block.
ReceiveBlock(p) ==
  /\ pc[p] = "rcv_block" /\ ~AllReceived(p)
  /\ \/ ~Usable("msg") /\ aborted(p)
     \/ /\ queue # <<>>
        /\ msgrcv /\ done' = [done EXCEPT ![p] = Append(@, Head(queue))]
        /\ UNCHANGED <<pc, obj, result, table, broken>>

ReceiveDone(p) ==
  /\ pc[p] = "rcv_block" /\ AllReceived(p)
  /\ Signal(p, "rcv")
  /\ result' = IF Usable("rcv") THEN [result EXCEPT ![p] = Assembled(obj[p], done[p])] ELSE result

----------------------------------------------------------------------------
\* What a process does by itself once it began something.
Step(p) ==
  \/ Fail(p) \/ Store(p) \/ Created(p) \/ RemovePart(p) \/ Removed(p)
  \/ /\ \/ SendWait(p) \/ SendHeader(p) \/ SendBlock(p) \/ SendDone(p)
        \/ ReceiveWait(p) \/ AttemptWait(p) \/ ReceiveHeader(p)
        \/ AttemptEmpty(p) \/ AttemptFail(p) \/ ReceiveBlock(p) \/ ReceiveDone(p)
     /\ UNCHANGED <<sends, signals, closed>>

Next ==
  \E p \in Proc :
    \/ Create(p) \/ open_public(p) \/ \E q \in Proc : Fork(p, q)
    \/ Close(p) \/ Receive(p) \/ Attempt(p) \/ \E o \in Object : Send(p, o)
    \/ Step(p)
    \/ Exit(p) \/ Term(p) \/ Kill(p)

Spec == Init /\ [][Next]_vars

\* A process that runs goes on with what it began.
FairSpec == Spec /\ \A p \in Proc : WF_vars(Step(p))

----------------------------------------------------------------------------
(* Properties *)

\* The type invariant: every variable holds what the C code and the kernel can hold.
TypeOK ==
  /\ made \subseteq Part /\ gone \subseteq made /\ private \in BOOLEAN
  /\ queue \in Seq(Object \X Nat) /\ Len(queue) <= Capacity
  /\ sem \in [Sem -> {0, 1}] /\ undo \in [Proc -> [Sem -> {0, 1}]]
  /\ pc \in [Proc -> {"out", "create", "idle", "close", "closed", "cleanup", "failed", "dead",
                      "send_wait", "send_head", "send_block", "receive_wait", "receive_head",
                      "attempt_wait", "attempt_head", "attempt_fail", "rcv_block"}]
  /\ obj \in [Proc -> Object \cup {None}]
  /\ done \in [Proc -> Seq((Object \X Nat) \cup Part)]
  /\ result \in [Proc -> Object \cup {None, Garbled}]
  /\ table \in [Proc -> Proc \cup {None}]
  /\ sends \in 0 .. MaxSends /\ signals \in 0 .. MaxSignals
  /\ closed \in BOOLEAN /\ broken \in BOOLEAN

Sending(p)   == pc[p] \in {"send_head", "send_block"}
Receiving(p) == pc[p] \in {"receive_head", "attempt_head", "attempt_fail", "rcv_block"}

\* Whoever is killed, exits or fails, and wherever: at most one process sends and
\* at most one receives, and a semaphore is taken only while a live process is
\* about to give it back (the SEM_UNDO of send_impl, receive_impl, attempt_impl).
SemaphoresBalanced ==
  \A f \in Sem :
    LET held == {p \in Proc : undo[p][f] = 1}
        user == {p \in Proc : IF f = "snd" THEN Sending(p) ELSE Receiving(p)}
    IN  /\ sem[f] = IF held = {} THEN 1 ELSE 0
        /\ \A p, q \in held : p = q
        /\ user \subseteq held
        /\ \A p \in held \ user : pc[p] \in {"failed", "cleanup"}

\* What may come after packet x: its successor, or the header of any message.
Follows(x, y) == IF x[2] < Blocks(x[1]) THEN y = <<x[1], x[2] + 1>> ELSE IsHeader(y)
Complete(x)   == x[2] = Blocks(x[1])

\* The packets of some messages, each with all its blocks.
Linked(s) == \A i \in 1 .. Len(s) - 1 : Follows(s[i], s[i + 1])
WholeMessages(s) == Linked(s) /\ (s # <<>> => IsHeader(s[1]) /\ Complete(s[Len(s)]))

\* The packets from the one the receiver expects next, with what the sender has
\* still to send: between them they are whole messages, one after the other, as
\* long as no process ended in the middle of one.  So a header is read as a
\* header and a block as a block of its own message.
Framed ==
  LET moving(l) == {p \in Proc : pc[p] = l}
      rest(p) == SubSeq(Content(obj[p]), Len(done[p]) + 1, Blocks(obj[p]))
      begun == IF moving("rcv_block") = {} THEN <<>>
               ELSE LET r == CHOOSE p \in moving("rcv_block") : TRUE
                    IN  <<<<obj[r], 0>>>> \o done[r]
      missing == IF moving("send_block") = {} THEN <<>>
                 ELSE rest(CHOOSE p \in moving("send_block") : TRUE)
  IN  ~broken /\ "msg" \notin gone => WholeMessages(begun \o queue \o missing)

\* No call of aborted() is reached unless the queue was closed, or a process ended
\* in the middle of a message, or the queue was used before its creator had
\* stored all ids: not by the exit of a process that did not create the queue.
NoSpuriousAbort ==
  [][\A p \in Proc : pc[p] # "failed" /\ pc'[p] = "failed" =>
       closed \/ broken \/ made # Part]_vars

\* The objects whose headers are among the packets s.
Messages(s) ==
  LET upto[i \in 0 .. Len(s)] == IF i = 0 THEN <<>>
                                 ELSE IF IsHeader(s[i]) THEN Append(upto[i - 1], s[i][1])
                                 ELSE upto[i - 1]
  IN  upto[Len(s)]

\* The queue is a channel of whole messages: each is received by one process, as
\* it was sent and in order; attempt() fails only when there is none.
Channel == INSTANCE AbsChannel WITH
  chan   <- Messages(queue),
  taken  <- [p \in Proc |-> IF pc[p] = "rcv_block" THEN obj[p] ELSE None],
  open   <- "msg" \notin gone
ImplementsChannel == Channel!Spec

\* A message whose header has been received is received, unless the queue is
\* closed meanwhile: sender and receiver cannot get stuck on the blocks,
\* however small the queue (no process is killed here).
TransferCompletes ==
  \A p \in Proc, o \in Object :
    pc[p] = "rcv_block" /\ obj[p] = o ~> closed \/ result[p] = o

\* attempt() does not wait for a message ("failing if one is not ready
\* immediately"): when begun it comes to an end.
AttemptEnds ==
  \A p \in Proc : pc[p] = "attempt_wait" ~> pc[p] # "attempt_wait"
=============================================================================
