-------------------------- MODULE MsgQueueRefinement --------------------------
(***************************************************************************)
(* MsgQueue implements AbsChannel: every step is a step of the channel of  *)
(* whole messages, or leaves the channel as it is.                         *)
(*                                                                         *)
(* The messages in the channel are those whose headers are in the queue    *)
(* (Messages); so the sending of a header puts a message, its receipt      *)
(* takes one, and the blocks that pass are seen on the channel only when   *)
(* the receiver puts them together.                                        *)
(***************************************************************************)
EXTENDS MsgQueueProofs, Recursion

(* What Messages computes *)

LEMMA MessagesBySteps ==
  ASSUME NEW s \in Seq(Packet)
  PROVE  \E m \in [0 .. Len(s) -> Seq(Object)] :
           /\ Messages(s) = m[Len(s)] /\ m[0] = <<>>
           /\ \A i \in 1 .. Len(s) :
                m[i] = IF IsHeader(s[i]) THEN Append(m[i - 1], s[i][1]) ELSE m[i - 1]
<1> DEFINE D == 0 .. Len(s)
           step(i, v) == IF IsHeader(s[i]) THEN Append(v, s[i][1]) ELSE v
           g == [x \in (1 .. Len(s)) \X Seq(Object) |-> step(x[1], x[2])]
           R(f) == f = [i \in D |-> IF i = 0 THEN <<>> ELSE step(i, f[i - 1])]
           F == CHOOSE f : R(f)
<1>1. \A i \in 1 .. Len(s), v \in Seq(Object) :
         step(i, v) \in Seq(Object) /\ g[<<i, v>>] = step(i, v)
  BY DEF Packet
<1>2. <<>> \in Seq(Object) /\ Len(s) \in Nat
  OBVIOUS
<1> HIDE DEF g, step
<1>3. PICK f \in [D -> Seq(Object)] : f[0] = <<>> /\ \A i \in 1 .. Len(s) : f[i] = g[<<i, f[i - 1]>>]
  <2>1. g \in [(1 .. Len(s)) \X Seq(Object) -> Seq(Object)]
    BY <1>1 DEF g
  <2>2. \E f : Recurs(f, Seq(Object), <<>>, Len(s), g)
    BY <1>2, <2>1, RecursionExists
  <2> QED BY <2>2 DEF Recurs
<1>4. ASSUME NEW i \in 1 .. Len(s) PROVE f[i] = step(i, f[i - 1])
  <2>1. i - 1 \in D /\ f[i - 1] \in Seq(Object)
    BY <1>3
  <2> QED BY <1>1, <1>3, <2>1
<1>5. f = [i \in D |-> IF i = 0 THEN <<>> ELSE step(i, f[i - 1])]
  BY <1>2, <1>3, <1>4
<1> HIDE DEF R
<1>6. R(F)
  <2>1. \E h : R(h)
    BY <1>5 DEF R
  <2> QED BY <2>1
<1>7. Messages(s) = F[Len(s)]
  BY DEF Messages, R, step
<1> HIDE DEF F
<1> DEFINE S == {k \in Nat : k <= Len(s) => F[k] = f[k]}
<1>8. 0 \in S
  BY <1>2, <1>3, <1>6 DEF R
<1>9. ASSUME NEW k \in Nat, k \in S PROVE k + 1 \in S
  <2> SUFFICES ASSUME k + 1 <= Len(s) PROVE F[k + 1] = f[k + 1]
    OBVIOUS
  <2>1. k + 1 \in D /\ k + 1 \in 1 .. Len(s) /\ k + 1 # 0 /\ (k + 1) - 1 = k /\ F[k] = f[k]
    BY <1>2, <1>9
  <2>2. F[k + 1] = step(k + 1, F[k])
    BY <1>6, <2>1 DEF R
  <2> QED BY <1>4, <2>1, <2>2
<1>10. \A k \in Nat : k \in S
  BY <1>8, <1>9, NatInductionSet
<1>11. Messages(s) = f[Len(s)]
  BY <1>2, <1>7, <1>10
<1> QED BY <1>3, <1>4, <1>11 DEF step

LEMMA MessagesEmpty == Messages(<<>>) = <<>>
<1>1. <<>> \in Seq(Packet) /\ Len(<<>>) = 0
  OBVIOUS
<1> QED BY <1>1, MessagesBySteps

LEMMA MessagesAppend ==
  ASSUME NEW s \in Seq(Packet), NEW x \in Packet
  PROVE  /\ Messages(s) \in Seq(Object)
         /\ Messages(Append(s, x)) = IF IsHeader(x) THEN Append(Messages(s), x[1]) ELSE Messages(s)
<1> DEFINE t == Append(s, x)
<1>1. /\ t \in Seq(Packet) /\ Len(t) = Len(s) + 1 /\ Len(s) \in Nat
      /\ t[Len(s) + 1] = x /\ \A i \in 1 .. Len(s) : t[i] = s[i]
  OBVIOUS
<1>2. PICK m \in [0 .. Len(s) -> Seq(Object)] :
        /\ Messages(s) = m[Len(s)] /\ m[0] = <<>>
        /\ \A i \in 1 .. Len(s) :
             m[i] = IF IsHeader(s[i]) THEN Append(m[i - 1], s[i][1]) ELSE m[i - 1]
  BY MessagesBySteps
<1> HIDE DEF t
<1>3. PICK k \in [0 .. Len(t) -> Seq(Object)] :
        /\ Messages(t) = k[Len(t)] /\ k[0] = <<>>
        /\ \A i \in 1 .. Len(t) :
             k[i] = IF IsHeader(t[i]) THEN Append(k[i - 1], t[i][1]) ELSE k[i - 1]
  BY <1>1, MessagesBySteps
<1> DEFINE S == {i \in Nat : i <= Len(s) => k[i] = m[i]}
<1>4. 0 \in S
  BY <1>2, <1>3
<1>5. ASSUME NEW i \in Nat, i \in S PROVE i + 1 \in S
  <2> SUFFICES ASSUME i + 1 <= Len(s) PROVE k[i + 1] = m[i + 1]
    OBVIOUS
  <2>1. /\ i + 1 \in 1 .. Len(s) /\ i + 1 \in 1 .. Len(t) /\ (i + 1) - 1 = i
        /\ t[i + 1] = s[i + 1] /\ k[i] = m[i]
    BY <1>1, <1>5
  <2> QED BY <1>2, <1>3, <2>1
<1>6. Len(s) \in S
  BY <1>1, <1>4, <1>5, NatInductionSet
<1>7. k[Len(s)] = Messages(s) /\ k[Len(t)] = Messages(t)
  BY <1>1, <1>2, <1>3, <1>6
<1>8. Len(t) \in 1 .. Len(t) /\ Len(t) - 1 = Len(s) /\ t[Len(t)] = x
  BY <1>1
<1>9. Messages(s) \in Seq(Object)
  <2>1. Len(s) \in 0 .. Len(s)
    BY <1>1
  <2> QED BY <1>2, <2>1
<1> QED BY <1>3, <1>7, <1>8, <1>9 DEF t

LEMMA AppendConcat ==
  ASSUME NEW s \in Seq(Object), NEW t \in Seq(Object), NEW e \in Object
  PROVE  Append(s \o t, e) = s \o Append(t, e)
<1> DEFINE u == Append(s \o t, e)
           v == s \o Append(t, e)
<1>1. u \in Seq(Object) /\ v \in Seq(Object) /\ Len(u) = Len(v)
  OBVIOUS
<1>2. \A i \in 1 .. Len(u) : u[i] = v[i]
  OBVIOUS
<1> HIDE DEF u, v
<1>3. u = v
  BY <1>1, <1>2
<1> QED BY <1>3 DEF u, v

LEMMA MessagesTail ==
  ASSUME NEW s \in Seq(Packet), s # <<>>
  PROVE  /\ IsHeader(s[1]) => /\ Messages(s) # <<>> /\ Head(Messages(s)) = s[1][1]
                              /\ Messages(Tail(s)) = Tail(Messages(s))
         /\ ~IsHeader(s[1]) => Messages(Tail(s)) = Messages(s)
<1> DEFINE t == Tail(s)
           h == IF IsHeader(s[1]) THEN <<s[1][1]>> ELSE <<>>
<1>1. /\ t \in Seq(Packet) /\ Len(s) = Len(t) + 1 /\ Len(t) \in Nat /\ s[1] \in Packet
      /\ \A i \in 1 .. Len(t) : t[i] = s[i + 1] /\ s[i + 1] \in Packet
  OBVIOUS
<1>2. PICK m \in [0 .. Len(s) -> Seq(Object)] :
        /\ Messages(s) = m[Len(s)] /\ m[0] = <<>>
        /\ \A i \in 1 .. Len(s) :
             m[i] = IF IsHeader(s[i]) THEN Append(m[i - 1], s[i][1]) ELSE m[i - 1]
  BY MessagesBySteps
<1> HIDE DEF t
<1>3. PICK k \in [0 .. Len(t) -> Seq(Object)] :
        /\ Messages(t) = k[Len(t)] /\ k[0] = <<>>
        /\ \A i \in 1 .. Len(t) :
             k[i] = IF IsHeader(t[i]) THEN Append(k[i - 1], t[i][1]) ELSE k[i - 1]
  BY <1>1, MessagesBySteps
<1>4. h \in Seq(Object) /\ h \o <<>> = h
  BY <1>1 DEF Packet
<1> DEFINE S == {i \in Nat : i <= Len(t) => m[i + 1] = h \o k[i]}
<1>5. 0 \in S
  <2>1. m[1] = h
    <3>1. 1 \in 1 .. Len(s) /\ 1 - 1 = 0
      BY <1>1
    <3>2. m[1] = IF IsHeader(s[1]) THEN Append(<<>>, s[1][1]) ELSE <<>>
      BY <1>2, <3>1
    <3> QED BY <3>2
  <2> HIDE DEF h
  <2>2. m[0 + 1] = h \o k[0]
    BY <1>3, <1>4, <2>1
  <2> QED BY <2>2
<1> HIDE DEF h
<1>6. ASSUME NEW i \in Nat, i \in S PROVE i + 1 \in S
  <2> SUFFICES ASSUME i + 1 <= Len(t) PROVE m[(i + 1) + 1] = h \o k[i + 1]
    OBVIOUS
  <2>1. /\ i + 1 \in 1 .. Len(t) /\ (i + 1) - 1 = i /\ t[i + 1] = s[i + 2]
        /\ i + 2 \in 1 .. Len(s) /\ (i + 2) - 1 = i + 1 /\ m[i + 1] = h \o k[i]
        /\ (i + 1) + 1 = i + 2
    <3>1. i <= Len(t) /\ i + 1 \in 1 .. Len(t) /\ (i + 1) + 1 = i + 2
      BY <1>1
    <3> QED BY <1>1, <1>6, <3>1
  <2>2. k[i] \in Seq(Object) /\ s[i + 2][1] \in Object
    <3>1. i \in 0 .. Len(t) /\ s[i + 2] \in Packet
      BY <1>1, <2>1
    <3> QED BY <1>3, <3>1 DEF Packet
  <2>3. m[i + 2] = IF IsHeader(s[i + 2]) THEN Append(h \o k[i], s[i + 2][1]) ELSE h \o k[i]
    BY <1>2, <2>1
  <2>4. k[i + 1] = IF IsHeader(s[i + 2]) THEN Append(k[i], s[i + 2][1]) ELSE k[i]
    BY <1>3, <2>1
  <2>5. Append(h \o k[i], s[i + 2][1]) = h \o Append(k[i], s[i + 2][1])
    BY <1>4, <2>2, AppendConcat
  <2> QED BY <2>1, <2>3, <2>4, <2>5
<1>7. Len(t) \in S
  BY <1>1, <1>5, <1>6, NatInductionSet
<1>8. Messages(s) = h \o Messages(t) /\ Messages(t) \in Seq(Object)
  <2>1. Len(t) \in 0 .. Len(t) /\ m[Len(t) + 1] = h \o k[Len(t)]
    BY <1>1, <1>7
  <2> QED BY <1>1, <1>2, <1>3, <2>1
<1>9. CASE IsHeader(s[1])
  <2>1. h = <<s[1][1]>> /\ s[1][1] \in Object
    BY <1>1, <1>9 DEF Packet, h
  <2>2. Messages(s) # <<>> /\ Head(Messages(s)) = s[1][1] /\ Tail(Messages(s)) = Messages(t)
    BY <1>8, <2>1
  <2> QED BY <1>9, <2>2 DEF t
<1>10. CASE ~IsHeader(s[1])
  <2>1. Messages(s) = Messages(t)
    BY <1>8, <1>10 DEF h
  <2> QED BY <1>10, <2>1 DEF t
<1> QED BY <1>9, <1>10

----------------------------------------------------------------------------
(* Steps *)

\* The variables of the channel, as they appear in the queue.
Taking == [p \in Proc |-> IF pc[p] = "rcv_block" THEN obj[p] ELSE None]
Open  == "msg" \notin gone

\* What a step of p does to the channel while nothing is lost.
Loses(p)   == /\ Taking' = [Taking EXCEPT ![p] = None] /\ broken' \in {broken, TRUE}
              /\ UNCHANGED <<queue, gone, result>>
Neglects   == /\ UNCHANGED <<Taking, Messages(queue), result, broken>>
              /\ Open' = Open

LEMMA LosesIsStep == ASSUME NEW p \in Proc, Loses(p) PROVE Channel!Lose(p)
BY DEF Loses, Channel!Lose, Taking

LEMMA NeglectsIsStep == ASSUME Neglects PROVE UNCHANGED Channel!absVars
BY DEF Neglects, Open, Taking, Channel!absVars

\* As long as p takes no message, what is taken is what the others take.
LEMMA TakenElsewhere ==
  ASSUME TInv, NEW p \in Proc, NEW l, l # "rcv_block", pc' = [pc EXCEPT ![p] = l],
         \A q \in Proc \ {p} : obj'[q] = obj[q]
  PROVE  Taking' = [Taking EXCEPT ![p] = None]
<1>1. pc'[p] = l /\ \A q \in Proc \ {p} : pc'[q] = pc[q]
  BY DEF TInv, BInv, BType
<1> QED BY <1>1 DEF Taking

LEMMA TakenSame ==
  ASSUME TInv, NEW p \in Proc, Taking' = [Taking EXCEPT ![p] = None], pc[p] # "rcv_block"
  PROVE  Taking' = Taking
BY DEF Taking

LEMMA StopLoses ==
  ASSUME TInv, NEW p \in Proc, aborted(p) \/ Die(p) \/ exit(p)
  PROVE  Loses(p)
<1>1. ASSUME NEW l \in {"failed", "dead", "cleanup"}, Leave(p, l)
      PROVE  Taking' = [Taking EXCEPT ![p] = None] /\ broken' \in {broken, TRUE}
  <2>1. pc' = [pc EXCEPT ![p] = l] /\ \A q \in Proc \ {p} : obj'[q] = obj[q]
    BY <1>1 DEF Leave, Goto, TInv, RestType
  <2>2. broken' \in {broken, TRUE}
    BY <1>1 DEF Leave, TInv, RestType, MidMessage
  <2> QED BY <2>1, <2>2, TakenElsewhere
<1>2. CASE aborted(p)
  BY <1>1, <1>2 DEF aborted, kernelVars, Loses
<1>3. CASE Die(p)
  BY <1>1, <1>3 DEF Die, Loses
<1>4. CASE exit(p)
  BY <1>1, <1>3, <1>4 DEF exit, kernelVars, Loses
<1> QED BY <1>2, <1>3, <1>4

\* p goes on without a message.
LEMMA GoesOn ==
  ASSUME TInv, NEW p \in Proc, pc[p] # "rcv_block", NEW l, l # "rcv_block", pc' = [pc EXCEPT ![p] = l],
         \A q \in Proc \ {p} : obj'[q] = obj[q],
         UNCHANGED <<queue, gone, result, broken>>
  PROVE  Neglects
BY TakenElsewhere, TakenSame DEF Neglects, Open

\* A header that is sent puts a message, a block puts none.
LEMMA SendStep ==
  ASSUME TInv, NEW p \in Proc, SendHeader(p) \/ SendBlock(p), ~aborted(p)
  PROVE  (\E o \in Object : Channel!Put(o)) \/ Neglects
<1>1. CASE SendHeader(p)
  <2> DEFINE x == <<obj[p], 0>>
  <2>1. /\ pc[p] = "send_head" /\ pc' = [pc EXCEPT ![p] = "send_block"] /\ queue' = Append(queue, x)
        /\ UNCHANGED <<obj, gone, result, broken>> /\ "msg" \notin gone
    BY <1>1 DEF SendHeader, msgsnd, Goto, Usable
  <2>2. obj[p] \in Object /\ queue \in Seq(Packet) /\ x \in Packet /\ IsHeader(x) /\ x[1] = obj[p]
    BY <2>1 DEF TInv, Places, Moving, RestType, Packet, IsHeader
  <2>3. Messages(queue)' = Append(Messages(queue), obj[p])
    BY <2>1, <2>2, MessagesAppend
  <2>4. Taking' = Taking
    BY <2>1, TakenElsewhere, TakenSame
  <2> QED BY <2>1, <2>2, <2>3, <2>4 DEF Channel!Put, Taking
<1>2. CASE SendBlock(p)
  <2> DEFINE x == Content(obj[p])[Len(done[p]) + 1]
  <2>1. /\ pc[p] = "send_block" /\ ~AllSent(p) /\ queue' = Append(queue, x)
        /\ UNCHANGED <<pc, obj, gone, result, broken>>
    BY <1>2 DEF SendBlock, msgsnd
  <2>2. obj[p] \in Object /\ Len(done[p]) \in Nat /\ Len(done[p]) < Blocks(obj[p])
    BY <2>1, BlocksType DEF TInv, Places, Moving, AllSent
  <2>3. x = <<obj[p], Len(done[p]) + 1>> /\ x \in Packet /\ ~IsHeader(x)
    BY <2>2, BlocksType DEF Content, Packet, IsHeader
  <2>4. Messages(queue)' = Messages(queue)
    BY <2>1, <2>3, MessagesAppend DEF TInv, RestType
  <2> QED BY <2>1, <2>4 DEF Neglects, Taking, Open
<1> QED BY <1>1, <1>2

\* A header that is received takes a message, a block takes none.
LEMMA ReceiveStep ==
  ASSUME TInv, CInv, JInv, NEW p \in Proc, ReceiveHeader(p) \/ ReceiveBlock(p), ~aborted(p), ~broken
  PROVE  Channel!Take(p) \/ Neglects
<1>1. /\ queue # <<>> /\ queue \in Seq(Packet) /\ queue' = Tail(queue) /\ Head(queue) = queue[1]
      /\ queue[1] \in Packet
  BY DEF ReceiveHeader, ReceiveBlock, msgrcv, TInv, RestType
<1>2. CASE ReceiveHeader(p)
  <2>1. /\ pc[p] \in {"receive_head", "attempt_head"} /\ pc' = [pc EXCEPT ![p] = "rcv_block"]
        /\ IsHeader(queue[1]) /\ obj' = [obj EXCEPT ![p] = queue[1][1]]
        /\ result' = [result EXCEPT ![p] = None] /\ UNCHANGED <<gone, broken>>
    BY <1>1, <1>2 DEF ReceiveHeader, msgrcv, Goto
  <2>2. /\ Messages(queue) # <<>> /\ Head(Messages(queue)) = queue[1][1]
        /\ Messages(queue)' = Tail(Messages(queue))
    BY <1>1, <2>1, MessagesTail
  <2>3. /\ pc'[p] = "rcv_block" /\ obj'[p] = queue[1][1]
        /\ \A q \in Proc \ {p} : pc'[q] = pc[q] /\ obj'[q] = obj[q]
    BY <2>1 DEF TInv, BInv, BType, RestType
  <2>4. Taking[p] = None /\ Taking' = [Taking EXCEPT ![p] = queue[1][1]]
    BY <2>1, <2>3 DEF Taking
  <2> QED BY <2>1, <2>2, <2>4 DEF Channel!Take, Taking
<1>3. CASE ReceiveBlock(p)
  <2>1. pc[p] = "rcv_block" /\ ~AllReceived(p) /\ UNCHANGED <<pc, obj, gone, result, broken>>
    BY <1>3 DEF ReceiveBlock, msgrcv
  <2>2. obj[p] \in Object /\ Len(done[p]) \in Nat /\ Len(done[p]) < Blocks(obj[p])
    BY <2>1, BlocksType DEF TInv, Places, Moving, AllReceived
  <2>3. Follows(At(p), queue[1])
    BY <1>1, <2>1 DEF CInv, JInv, Joined, AtFront, Receives
  <2>4. ~IsHeader(queue[1])
    BY <2>2, <2>3 DEF Follows, At, IsHeader
  <2>5. Messages(queue)' = Messages(queue)
    BY <1>1, <2>4, MessagesTail
  <2> QED BY <2>1, <2>5 DEF Neglects, Taking, Open
<1> QED BY <1>2, <1>3

\* A message is put together as it was sent.
LEMMA AssembledRight ==
  ASSUME NEW o \in Object, NEW b \in Seq(Packet), Len(b) = Blocks(o),
         \A i \in 1 .. Len(b) : b[i] = <<o, i>>
  PROVE  Assembled(o, b) = o
<1> DEFINE fits == {x \in Object : Size[x] = Size[o] /\ Content(x) = b}
<1>1. Blocks(o) \in Nat /\ Content(o) = b
  <2>1. Blocks(o) \in Nat
    BY BlocksType
  <2>2. Content(o) \in Seq(Packet) /\ Len(Content(o)) = Len(b)
    BY <2>1 DEF Content, Packet
  <2>3. \A i \in 1 .. Len(b) : Content(o)[i] = b[i]
    BY DEF Content
  <2> QED BY <2>1, <2>2, <2>3
<1>2. ASSUME NEW x \in fits PROVE x = o
  <2>1. CASE Blocks(o) = 0
    <3>1. Size[o] = 0
      BY <2>1, ParameterAssumption DEF Blocks
    <3> QED BY <3>1, ParameterAssumption
  <2>2. CASE Blocks(o) # 0
    <3>1. Blocks(x) = Blocks(o) /\ 1 \in 1 .. Blocks(o)
      BY <1>1, <2>2 DEF Blocks
    <3>2. Content(x)[1] = <<x, 1>> /\ b[1] = <<o, 1>>
      BY <3>1 DEF Content
    <3> QED BY <3>2
  <2> QED BY <2>1, <2>2
<1>3. fits = {o}
  BY <1>1, <1>2
<1> QED BY <1>3 DEF Assembled

LEMMA SignalStep ==
  ASSUME TInv, JInv, ~broken, NEW p \in Proc, SendDone(p) \/ AttemptFail(p) \/ ReceiveDone(p),
         ~aborted(p)
  PROVE  Channel!Deliver(p) \/ Neglects
<1>1. /\ pc' = [pc EXCEPT ![p] = "idle"] /\ \A q \in Proc \ {p} : obj'[q] = obj[q]
      /\ UNCHANGED <<queue, gone, broken>>
  BY DEF SendDone, AttemptFail, ReceiveDone, Signal, Goto, TInv, RestType
<1>2. CASE SendDone(p) \/ AttemptFail(p)
  BY <1>1, <1>2, GoesOn DEF SendDone, AttemptFail
<1>3. CASE ReceiveDone(p)
  <2>1. /\ pc[p] = "rcv_block" /\ Len(done[p]) = Blocks(obj[p])
        /\ result' = [result EXCEPT ![p] = Assembled(obj[p], done[p])]
    BY <1>3 DEF ReceiveDone, AllReceived, Signal
  <2>2. /\ obj[p] \in Object /\ done[p] \in Seq(Packet)
        /\ \A i \in 1 .. Len(done[p]) : done[p][i] = <<obj[p], i>>
    BY <2>1 DEF TInv, Places, Moving, JInv, InOrder
  <2>3. Assembled(obj[p], done[p]) = obj[p] /\ Taking[p] = obj[p] /\ obj[p] # None
    BY <2>1, <2>2, AssembledRight, ParameterAssumption DEF Taking
  <2>4. Taking' = [Taking EXCEPT ![p] = None]
    BY <1>1, TakenElsewhere
  <2> QED BY <1>1, <2>1, <2>3, <2>4 DEF Channel!Deliver, Taking
<1> QED BY <1>2, <1>3

----------------------------------------------------------------------------
LEMMA StaysBroken == ASSUME Next, broken PROVE broken'
<1>1. ASSUME NEW p \in Proc, aborted(p) \/ Die(p) \/ exit(p) PROVE broken'
  BY <1>1 DEF aborted, Die, exit, Leave
<1> QED
  BY <1>1 DEF Next, Create, open_public, Fork, Close, Receive, Attempt, Send, Step, Begin, Exit, Term,
     Kill, Fail, Store, Created, RemovePart, Removed, SendWait, SendHeader, SendBlock, SendDone,
     ReceiveWait, AttemptWait, ReceiveHeader, AttemptEmpty, AttemptFail, ReceiveBlock, ReceiveDone,
     Wait, Signal, msgsnd, historyVars

\* Every step is a step of the channel.
LEMMA StepRefines ==
  ASSUME TInv, CInv, JInv, TInv', Next
  PROVE  Channel!Next \/ Neglects
<1> SUFFICES ASSUME ~(broken /\ broken') PROVE Channel!Next \/ Neglects
  BY DEF Channel!Next
<1>1. ASSUME broken PROVE FALSE
  BY <1>1, StaysBroken
<1>2. ASSUME NEW p \in Proc, aborted(p) \/ Die(p) \/ exit(p) PROVE Channel!Next
  BY <1>2, StopLoses, LosesIsStep DEF Channel!Next
<1>3. ASSUME NEW p \in Proc, Create(p) \/ open_public(p) \/ Created(p) PROVE Neglects
  <2>1. PICK l \in {"create", "idle"} : pc' = [pc EXCEPT ![p] = l] /\ pc[p] \in {"out", "create"}
    BY <1>3 DEF Create, open_public, Created, Goto
  <2>2. UNCHANGED <<queue, gone, result, broken, obj>>
    BY <1>3 DEF Create, open_public, Created, kernelVars, historyVars
  <2> QED BY <2>1, <2>2, GoesOn
<1>4. ASSUME NEW p \in Proc, NEW q \in Proc, Fork(p, q) PROVE Neglects
  <2>1. pc[q] = "out" /\ pc' = [pc EXCEPT ![q] = "idle"] /\ UNCHANGED <<queue, gone, result, broken, obj>>
    BY <1>4 DEF Fork, Goto, kernelVars, historyVars
  <2> QED BY <2>1, GoesOn
<1>5. ASSUME NEW p \in Proc, Close(p) \/ Receive(p) \/ Attempt(p) \/ \E o \in Object : Send(p, o)
      PROVE  Channel!Next \/ Neglects
  <2>1. CASE ~aborted(p)
    <3>1. PICK l \in {"close", "receive_wait", "attempt_wait", "send_wait"}, o \in Object \cup {None} :
             Begin(p, l, o)
      BY <1>5 DEF Close, Receive, Attempt, Send
    <3>2. pc[p] = "idle" /\ pc' = [pc EXCEPT ![p] = l] /\ obj' = [obj EXCEPT ![p] = o]
          /\ UNCHANGED <<queue, gone, result, broken>>
      BY <3>1, <2>1 DEF Begin, Goto, kernelVars
    <3>3. \A q \in Proc \ {p} : obj'[q] = obj[q]
      BY <3>2 DEF TInv, RestType
    <3> QED BY <3>2, <3>3, GoesOn
  <2> QED BY <1>2, <2>1
<1>6. ASSUME NEW p \in Proc, RemovePart(p) PROVE Channel!Next \/ Neglects
  <2>1. UNCHANGED <<pc, obj, result, broken>> /\ gone \subseteq gone'
        /\ queue' = IF "msg" \in gone' THEN <<>> ELSE queue
    BY <1>6 DEF RemovePart, historyVars
  <2>2. CASE "msg" \in gone'
    BY <2>1, <2>2, MessagesEmpty DEF Channel!Next, Channel!Shut, Taking
  <2>3. CASE "msg" \notin gone'
    BY <2>1, <2>3 DEF Neglects, Taking, Open
  <2> QED BY <2>2, <2>3
<1>7. ASSUME NEW p \in Proc, Removed(p) PROVE Channel!Next \/ Neglects
  <2>1. CASE ~Die(p)
    <3>1. pc[p] = "close" /\ pc' = [pc EXCEPT ![p] = "closed"]
          /\ UNCHANGED <<queue, gone, result, broken, obj>>
      BY <1>7, <2>1 DEF Removed, Goto, kernelVars, historyVars
    <3> QED BY <3>1, GoesOn
  <2> QED BY <1>2, <2>1
<1>8. ASSUME NEW p \in Proc, SendWait(p) \/ ReceiveWait(p) \/ AttemptWait(p)
      PROVE  Channel!Next \/ Neglects
  <2>1. CASE ~aborted(p)
    <3>1. PICK l \in {"send_head", "receive_head", "attempt_head"} :
             pc' = [pc EXCEPT ![p] = l] /\ pc[p] \in {"send_wait", "receive_wait", "attempt_wait"}
      BY <1>8, <2>1 DEF SendWait, ReceiveWait, AttemptWait, Wait, Goto
    <3>2. UNCHANGED <<queue, gone, result, broken, obj>>
      BY <1>8, <2>1 DEF SendWait, ReceiveWait, AttemptWait, Wait
    <3> QED BY <3>1, <3>2, GoesOn
  <2> QED BY <1>2, <2>1
<1>9. ASSUME NEW p \in Proc, SendHeader(p) \/ SendBlock(p) PROVE Channel!Next \/ Neglects
  BY <1>2, <1>9, SendStep DEF Channel!Next
<1>10. ASSUME NEW p \in Proc, ReceiveHeader(p) \/ ReceiveBlock(p) PROVE Channel!Next \/ Neglects
  BY <1>1, <1>2, <1>10, ReceiveStep DEF Channel!Next
<1>11. ASSUME NEW p \in Proc, SendDone(p) \/ AttemptFail(p) \/ ReceiveDone(p)
       PROVE  Channel!Next \/ Neglects
  BY <1>1, <1>2, <1>11, SignalStep DEF Channel!Next
<1>12. ASSUME NEW p \in Proc, AttemptEmpty(p) PROVE Channel!Next
  <2>1. /\ queue = <<>> /\ pc[p] = "attempt_head" /\ pc' = [pc EXCEPT ![p] = "attempt_fail"]
        /\ result' = [result EXCEPT ![p] = None] /\ UNCHANGED <<queue, gone, broken, obj>>
    BY <1>12 DEF AttemptEmpty, Goto, kernelVars
  <2>2. Taking' = Taking
    BY <2>1, TakenElsewhere, TakenSame
  <2> QED BY <2>1, <2>2, MessagesEmpty DEF Channel!Next, Channel!Miss, Taking
<1>13. ASSUME NEW p \in Proc, Store(p) PROVE Neglects
  BY <1>13 DEF Store, historyVars, Neglects, Taking, Open
<1>14. ASSUME NEW p \in Proc, Exit(p) \/ Fail(p) \/ Term(p) \/ Kill(p) PROVE Channel!Next
  BY <1>2, <1>14 DEF Exit, Fail, Term, Kill
<1>15. ASSUME NEW p \in Proc, Step(p) PROVE Channel!Next \/ Neglects
  BY <1>3, <1>6, <1>7, <1>8, <1>9, <1>10, <1>11, <1>12, <1>13, <1>14, <1>15 DEF Step
<1> QED BY <1>3, <1>4, <1>5, <1>14, <1>15 DEF Next

\* The queue is a channel of whole messages.  Each is received by one process, as it
\* was sent, and in the order of sending; attempt() misses only when none is there;
\* and what is lost is lost with a process that ends.
THEOREM Refinement == Spec => ImplementsChannel
<1>1. Init => Channel!Init
  BY MessagesEmpty DEF Init, Channel!Init
<1>2. TInv /\ CInv /\ JInv /\ TInv' /\ [Next]_vars => [Channel!Next]_(Channel!absVars)
  <2>1. CASE UNCHANGED vars
    BY <2>1 DEF vars, kernelVars, historyVars, Channel!absVars
  <2> QED BY <2>1, StepRefines, NeglectsIsStep
<1> QED BY <1>1, <1>2, JoinedInvariant, PTL DEF Spec, Channel!Spec, ImplementsChannel

=============================================================================
