--------------------------- MODULE SchedulerProofs ---------------------------
(***************************************************************************)
(* Proofs about Scheduler, for any set of tasks and any clock.             *)
(*                                                                         *)
(* None of the properties is inductive alone: a bag is well formed only    *)
(* because no active task is in one, which needs the nesting of            *)
(* activations, which needs work() to draw tasks that are not active, which *)
(* needs the bags.  IInv joins them.                                       *)
(***************************************************************************)
EXTENDS Scheduler, WellFoundedInduction, TLAPS

\* A task in, or stopped in, a waiting bag has the time its wait began.
WaitBegan ==
  \A t \in Task : Place(t) \in {"sleeping", "polling"} => time_from[t] \in Time

IInv == TypeOK /\ BagsAgree /\ Nesting /\ StoppedOnce /\ WaitBegan

----------------------------------------------------------------------------
(* The clock *)

\* A set of numbers has a least one.
LEMMA LeastNat ==
  ASSUME NEW S \in SUBSET Nat, S # {}
  PROVE  \E m \in S : \A k \in S : m <= k
<1>1. IsWellFoundedOn({ss \in Nat \X Nat : ss[1] < ss[2]}, Nat)
  BY NatLessThanWellFounded DEF OpToRel
<1>2. PICK m \in S : \A k \in S : ~(<<k, m>> \in {ss \in Nat \X Nat : ss[1] < ss[2]})
  BY <1>1, WFMin, Zenon
<1>3. ASSUME NEW k \in S PROVE m <= k
  <2>1. ~(k < m) BY <1>2, <1>3
  <2> QED BY <2>1
<1> QED BY <1>3

\* calc_sleep gives a time that is at most lim and reaches no deadline early.
LEMMA CalcSleepBound ==
  ASSUME TypeOK, NEW lim \in Nat
  PROVE  /\ CalcSleep(lim) \in Nat
         /\ CalcSleep(lim) <= lim
         /\ \A e \in Timed : now <= e[2] => now + CalcSleep(lim) <= e[2]
<1> DEFINE D == {lim} \cup {e[2] - now : e \in Timed}
<1>1. /\ now \in Nat
      /\ \A e \in Timed : e[2] \in Nat
  BY TaskAssumption, TimeAssumption DEF TypeOK, Timed, Time, Bags
<1>2. CASE lim = 0 \/ \E e \in Timed : e[2] <= now
  <2>1. CalcSleep(lim) = 0 BY <1>2 DEF CalcSleep
  <2> QED BY <2>1, <1>1
<1>3. CASE ~(lim = 0 \/ \E e \in Timed : e[2] <= now)
  <2>1. CalcSleep(lim) = CHOOSE d \in D : \A f \in D : d <= f
    BY <1>3 DEF CalcSleep
  <2>2. D \in SUBSET Nat /\ D # {}
    BY <1>1, <1>3
  <2>3. \E d \in D : \A f \in D : d <= f
    <3> HIDE DEF D
    <3> QED BY <2>2, LeastNat
  <2>4. CalcSleep(lim) \in D /\ \A f \in D : CalcSleep(lim) <= f
    <3> HIDE DEF D
    <3> QED BY <2>1, <2>3, Zenon
  <2>5. CalcSleep(lim) \in Nat
    <3> HIDE DEF D
    <3> QED BY <2>2, <2>4
  <2>6. ASSUME NEW e \in Timed PROVE now + CalcSleep(lim) <= e[2]
    <3>1. CalcSleep(lim) <= e[2] - now BY <2>4
    <3> QED BY <3>1, <2>5, <1>1
  <2> QED BY <2>4, <2>5, <2>6
<1> QED BY <1>2, <1>3

\* The clock does not run back, nor past its bound.
LEMMA AfterType ==
  ASSUME TypeOK, NEW d \in Nat
  PROVE  After(d) \in Time /\ now <= After(d) /\ After(d) <= now + d
BY TimeAssumption DEF TypeOK, After, Time

\* What work() lets DescStream.poll() wait is a number.
LEMMA PollLimitNat ==
  ASSUME TypeOK
  PROVE  PollLimit \in Nat
BY CalcSleepBound, TimeAssumption DEF PollLimit, TypeOK

----------------------------------------------------------------------------
(* Moving tasks between bags *)

\* The bags after a move of the tasks of S are bags of known tasks.
LEMMA MoveType ==
  ASSUME TypeOK, NEW S \in SUBSET Task, NEW x \in Bags \cup {Null},
         NEW u \in [Task -> Time \cup {Null}],
         SetStates(S, x, u)
  PROVE  /\ state' \in [Task -> Bags \cup {Null}]
         /\ bag' \in [Bags -> SUBSET (Task \X (Time \cup {Null}))]
<1>1. \A t \in Task, y \in Bags : Entry(t, y, u) \in Task \X (Time \cup {Null})
  BY DEF Entry
<1>2. bag' = Moved(S, x, u) BY DEF SetStates
<1>3. ASSUME NEW y \in Bags
      PROVE  Moved(S, x, u)[y] \in SUBSET (Task \X (Time \cup {Null}))
  BY <1>1 DEF Moved, TypeOK
<1>4. bag' \in [Bags -> SUBSET (Task \X (Time \cup {Null}))]
  BY <1>2, <1>3 DEF Moved
<1> QED BY <1>4 DEF SetStates, TypeOK

\* If the bags agree with state and deadlines before a move, they agree after
\* it, provided that no deadline of a filed task changes under it.
LEMMA MoveAgrees ==
  ASSUME BagsAgree, NEW S \in SUBSET Task, NEW x \in Bags \cup {Null}, NEW u,
         state \in [Task -> Bags \cup {Null}],
         \A t \in Task : state[t] # Null => u[t] = time_until[t],
         SetStates(S, x, u), time_until' = u
  PROVE  BagsAgree'
<1> SUFFICES ASSUME NEW y \in Bags
             PROVE  bag'[y] = {Entry(t, y, u) : t \in {v \in Task : state'[v] = y}}
  BY DEF BagsAgree
<1>1. y # Null BY TaskAssumption
<1>2. bag[y] = {Entry(t, y, u) : t \in {v \in Task : state[v] = y}}
  BY <1>1 DEF BagsAgree, Entry
<1>3. bag'[y] = (bag[y] \ {Entry(t, y, u) : t \in {v \in S : state[v] = y}})
                  \cup {Entry(t, y, u) : t \in {v \in S : x = y}}
  BY DEF SetStates, Moved
<1>4. \A v \in Task : state'[v] = IF v \in S THEN x ELSE state[v]
  BY DEF SetStates
<1>5. \A s, t \in Task : Entry(s, y, u) = Entry(t, y, u) => s = t
  BY DEF Entry
<1> HIDE DEF Entry
<1> QED BY <1>2, <1>3, <1>4, <1>5

\* When the bags agree, the members of a bag are the tasks in that state.
LEMMA MembersAre ==
  ASSUME BagsAgree, NEW x \in Bags
  PROVE  /\ Members(x) = {t \in Task : state[t] = x}
         /\ \A at : DueIn(x, at) \subseteq Members(x)
<1>1. bag[x] = {Entry(t, x, time_until) : t \in {v \in Task : state[v] = x}}
  BY DEF BagsAgree
<1>2. \A t : Entry(t, x, time_until)[1] = t BY DEF Entry
<1>3. Members(x) = {t \in Task : state[t] = x}
  <2> HIDE DEF Entry
  <2> QED BY <1>1, <1>2 DEF Members
<1>4. \A at : DueIn(x, at) \subseteq Members(x)
  BY DEF DueIn, Members
<1> QED BY <1>3, <1>4

----------------------------------------------------------------------------
(* Facts of the nesting used again and again *)

\* A task in a bag is not active, and not stopped.
LEMMA FiledIsIdle ==
  ASSUME IInv, NEW t \in Task, state[t] # Null
  PROVE  coex[t] = t /\ old_state[t] = Null
BY DEF IInv, Nesting, Actives, StoppedOnce

\* The task that runs is the current one; the run() that waits for it is
\* another co-expression's.
LEMMA RunningTask ==
  ASSUME IInv, curr_task # Null
  PROVE  /\ curr_task \in Task /\ current = curr_task /\ coex[current] = Null
         /\ scoex \in Cx /\ scoex # current
         /\ run_t[scoex] = current /\ run_t[current] = Null
         /\ state[current] = Null /\ old_state[current] = Null
<1>1. curr_task \in Task BY DEF IInv, TypeOK
<1>2. current = curr_task /\ scoex \in Cx /\ run_t[scoex] = current
  BY DEF IInv, Nesting, Innermost
<1>3. current \in Cx /\ pc[current] # "run"
  BY <1>1, <1>2 DEF IInv, Nesting, Innermost, Cx
<1>4. run_t[current] = Null
  BY <1>3 DEF IInv, Nesting, Frames
<1>5. coex[current] = Null /\ state[current] = Null /\ old_state[current] = Null
  BY <1>1, <1>2 DEF IInv, Nesting, Actives
<1>6. scoex # current
  BY <1>1, <1>2, <1>4, TaskAssumption DEF Cx
<1> QED BY <1>1, <1>2, <1>4, <1>5, <1>6

\* A step that moves no frame keeps the nesting, if it leaves the active
\* tasks out of the bags.
LEMMA NestingKept ==
  ASSUME IInv,
         UNCHANGED <<scoex, curr_task, current, frameVars, coex>>,
         \A c \in Cx : pc'[c] = "run" <=> pc[c] = "run",
         pc'[current] \in {"user", "work", "failed"},
         \A t \in Task : coex[t] = Null => state'[t] = Null /\ old_state'[t] = Null
  PROVE  Nesting'
<1>1. Frames' BY DEF IInv, Nesting, Frames, frameVars
<1>2. Actives' BY DEF IInv, Nesting, Actives, frameVars
<1>3. Innermost' BY DEF IInv, Nesting, Innermost, frameVars
<1>4. Outer' BY DEF IInv, Nesting, Outer, frameVars
<1> QED BY <1>1, <1>2, <1>3, <1>4 DEF Nesting

\* A step that neither touches a task nor moves a frame keeps the invariant,
\* if it keeps the types.
LEMMA TasksUntouched ==
  ASSUME IInv, TypeOK', UNCHANGED taskVars,
         UNCHANGED <<scoex, curr_task, current, frameVars>>,
         \A c \in Cx : pc'[c] = "run" <=> pc[c] = "run",
         pc'[current] \in {"user", "work", "failed"}
  PROVE  IInv'
<1>1. BagsAgree'
  BY DEF IInv, taskVars, BagsAgree, Entry
<1>2. Nesting'
  <2>1. \A t \in Task : coex[t] = Null => state'[t] = Null /\ old_state'[t] = Null
    BY DEF IInv, Nesting, Actives, taskVars
  <2> QED BY <2>1, NestingKept DEF taskVars
<1>3. StoppedOnce' BY DEF IInv, taskVars, StoppedOnce
<1>4. WaitBegan' BY DEF IInv, taskVars, WaitBegan, Place
<1> QED BY <1>1, <1>2, <1>3, <1>4 DEF IInv

----------------------------------------------------------------------------
(* The calls made on a task that is not active *)

\* A call that moves a task which is not active to bag x, or to none.
LEMMA CallMoves ==
  ASSUME IInv, NEW t \in Task, coex[t] # Null, Running,
         NEW x \in Bags \cup {Null}, SetState(t, x, time_until),
         UNCHANGED <<now, time_from, time_until, coex, poll_timeout, Control>>,
         old_state' \in [Task -> Bags \cup {Null}],
         flags' \in [Task -> SUBSET Flags],
         \A s \in Task : s # t => old_state'[s] = old_state[s],
         old_state'[t] = Null \/ x = Null,
         (Place(t))' \in {"sleeping", "polling"} => Place(t) = (Place(t))'
  PROVE  IInv'
<1>1. \A s \in Task : state'[s] = IF s = t THEN x ELSE state[s]
  BY DEF SetState, SetStates
<1>2. TypeOK'
  <2>1. /\ state' \in [Task -> Bags \cup {Null}]
        /\ bag' \in [Bags -> SUBSET (Task \X (Time \cup {Null}))]
    BY MoveType DEF IInv, SetState, TypeOK
  <2> QED BY <2>1 DEF IInv, TypeOK, Control, frameVars
<1>3. BagsAgree'
  BY MoveAgrees DEF IInv, SetState, TypeOK
<1>4. Nesting'
  <2>1. \A s \in Task : coex[s] = Null => state'[s] = Null /\ old_state'[s] = Null
    BY <1>1 DEF IInv, Nesting, Actives
  <2>2. pc' = pc /\ current' = current /\ pc[current] = "user"
    BY DEF Control, Running
  <2> QED BY <2>1, <2>2, NestingKept DEF Control
<1>5. StoppedOnce'
  BY <1>1 DEF IInv, StoppedOnce
<1>6. WaitBegan'
  <2>1. \A s \in Task : s # t => (Place(s))' = Place(s)
    BY <1>1 DEF Place
  <2> QED BY <2>1 DEF IInv, WaitBegan
<1> QED BY <1>2, <1>3, <1>4, <1>5, <1>6 DEF IInv

\* start() keeps the invariant.
LEMMA StartKeeps ==
  ASSUME IInv, NEW t \in Task, Start(t)
  PROVE  IInv'
<1>1. Null \notin Bags BY TaskAssumption
<1>2. CASE old_state[t] = Null
  <2>1. SetState(t, "ready", time_until) /\ UNCHANGED old_state
    BY <1>2 DEF Start
  <2>2. state'[t] = "ready" BY <2>1 DEF SetState, SetStates
  <2>3. (Place(t))' = "ready" BY <2>2, <1>1 DEF Place, Bags
  <2> QED BY <1>2, <2>1, <2>3, CallMoves DEF Start, Bags, IInv, TypeOK
<1>3. CASE old_state[t] # Null
  <2>1. /\ SetState(t, old_state[t], time_until)
        /\ old_state' = [old_state EXCEPT ![t] = Null]
        /\ old_state[t] \in Bags
    BY <1>3 DEF Start, IInv, TypeOK
  <2>2. state'[t] = old_state[t] BY <2>1 DEF SetState, SetStates
  <2>3. (Place(t))' = Place(t) BY <2>1, <2>2, <1>1 DEF Place, Start
  <2>4. old_state' \in [Task -> Bags \cup {Null}] BY <2>1 DEF IInv, TypeOK
  <2>5. /\ old_state'[t] = Null
        /\ \A s \in Task : s # t => old_state'[s] = old_state[s]
    BY <2>1 DEF IInv, TypeOK
  <2> QED BY <2>1, <2>3, <2>4, <2>5, CallMoves DEF Start, IInv, TypeOK
<1> QED BY <1>2, <1>3

\* stop() keeps the invariant.
LEMMA StopKeeps ==
  ASSUME IInv, NEW t \in Task, Stop(t)
  PROVE  IInv'
<1>1. state[t] \in Bags /\ state[t] # Null BY DEF Stop, IInv, TypeOK
<1>2. state'[t] = Null BY DEF Stop, SetState, SetStates
<1>3. /\ old_state' \in [Task -> Bags \cup {Null}]
      /\ old_state'[t] = state[t]
      /\ \A s \in Task : s # t => old_state'[s] = old_state[s]
  BY <1>1 DEF Stop, IInv, TypeOK
<1>4. (Place(t))' = Place(t) BY <1>1, <1>2, <1>3 DEF Place
<1> QED BY <1>3, <1>4, CallMoves DEF Stop, IInv, TypeOK

\* interrupt() and notify() keep the invariant.
LEMMA WakeKeeps ==
  ASSUME IInv, NEW t \in Task, NEW f \in Flags, Wake(t, f)
  PROVE  IInv'
<1>1. state'[t] = "ready" BY DEF Wake, SetState, SetStates
<1>2. (Place(t))' = "ready" BY <1>1, TaskAssumption DEF Place, Bags
<1>3. old_state[t] = Null BY FiledIsIdle DEF Wake
<1>4. flags' \in [Task -> SUBSET Flags] BY DEF Wake, IInv, TypeOK
<1> QED BY <1>2, <1>3, <1>4, CallMoves DEF Wake, Bags, IInv, TypeOK

\* The deadlines that can be given from a time of the clock.
LEMMA DeadlineType ==
  ASSUME NEW base \in Time, NEW n \in Waits(base)
  PROVE  Deadline(base, n) \in Time \cup {Null}
<1>1. CASE n = Null BY <1>1 DEF Deadline
<1>2. CASE n # Null
  <2>1. n \in Delays /\ base + n <= MaxTime BY <1>2, Zenon DEF Waits
  <2>2. n \in Nat /\ base \in Nat /\ MaxTime \in Nat
    BY <2>1, TimeAssumption DEF Time
  <2>3. Deadline(base, n) = base + n BY <1>2 DEF Deadline
  <2> QED BY <2>1, <2>2, <2>3 DEF Time
<1> QED BY <1>1, <1>2

\* change_time() and change_time_from_now() keep the invariant.
LEMMA RefileKeeps ==
  ASSUME IInv, NEW t \in Task, NEW base \in Time, Refile(t, base)
  PROVE  IInv'
<1> DEFINE x == state[t]
<1>1. PICK n \in Waits(base) :
        time_until' = [time_until EXCEPT ![t] = Deadline(base, n)]
  BY DEF Refile
<1>2. x \in {"sleeping", "polling"} BY DEF Refile
<1>3. /\ time_until' \in [Task -> Time \cup {Null}]
      /\ \A s \in Task : s # t => time_until'[s] = time_until[s]
  BY <1>1, DeadlineType DEF IInv, TypeOK
<1>4. bag' = [bag EXCEPT ![x] = (@ \ {Entry(t, x, time_until)})
                                   \cup {Entry(t, x, time_until')}]
  BY <1>2 DEF Refile, Refiled, IInv, TypeOK, Bags
<1>5. TypeOK'
  <2>1. Entry(t, x, time_until') \in Task \X (Time \cup {Null})
    BY <1>3 DEF Entry
  <2>2. bag' \in [Bags -> SUBSET (Task \X (Time \cup {Null}))]
    BY <1>2, <1>4, <2>1 DEF IInv, TypeOK, Bags
  <2> QED BY <1>3, <2>2 DEF Refile, IInv, TypeOK, Control, frameVars
<1>6. BagsAgree'
  <2> SUFFICES ASSUME NEW y \in Bags
               PROVE  bag'[y] = {Entry(s, y, time_until') :
                                   s \in {v \in Task : state[v] = y}}
    BY DEF BagsAgree, Refile
  <2>1. bag[y] = {Entry(s, y, time_until) : s \in {v \in Task : state[v] = y}}
    BY DEF IInv, BagsAgree
  <2>2. \A s \in Task : s # t => Entry(s, y, time_until') = Entry(s, y, time_until)
    BY <1>3 DEF Entry
  <2>3. \A r, s \in Task : Entry(r, y, time_until) = Entry(s, y, time_until) => r = s
    BY DEF Entry
  <2>4. bag'[y] = IF y = x THEN (bag[y] \ {Entry(t, y, time_until)})
                                  \cup {Entry(t, y, time_until')}
                  ELSE bag[y]
    BY <1>2, <1>4 DEF IInv, TypeOK, Bags
  <2> HIDE DEF Entry
  <2> QED BY <2>1, <2>2, <2>3, <2>4
<1>7. Nesting'
  <2>1. \A s \in Task : coex[s] = Null => state'[s] = Null /\ old_state'[s] = Null
    BY DEF IInv, Nesting, Actives, Refile
  <2> QED BY <2>1, NestingKept DEF Refile, Running, Control
<1>8. StoppedOnce' BY DEF IInv, StoppedOnce, Refile
<1>9. WaitBegan' BY DEF IInv, WaitBegan, Place, Refile
<1> QED BY <1>5, <1>6, <1>7, <1>8, <1>9 DEF IInv

\* Every call on a task that is not active keeps the invariant.
LEMMA CallKeeps ==
  ASSUME IInv, NEW t \in Task, Call(t)
  PROVE  IInv'
<1>1. CASE Start(t) BY <1>1, StartKeeps
<1>2. CASE Stop(t) BY <1>2, StopKeeps
<1>3. CASE Interrupt(t) BY <1>3, WakeKeeps DEF Interrupt, Flags
<1>4. CASE Notify(t) BY <1>4, WakeKeeps DEF Notify, Flags
<1>5. CASE ChangeTime(t)
  <2>1. state[t] \in {"sleeping", "polling"} BY <1>5 DEF ChangeTime, Refile
  <2>2. time_from[t] \in Time
    BY <2>1, TaskAssumption DEF IInv, WaitBegan, Place, Bags
  <2> QED BY <1>5, <2>2, RefileKeeps DEF ChangeTime
<1>6. CASE ChangeTimeFromNow(t)
  BY <1>6, RefileKeeps DEF ChangeTimeFromNow, IInv, TypeOK
<1> QED BY <1>1, <1>2, <1>3, <1>4, <1>5, <1>6 DEF Call

----------------------------------------------------------------------------
(* Suspension *)

\* xstate_swap keeps the types, and exchanges nothing if there is no task.
LEMMA SwapType ==
  ASSUME TypeOK, NEW t \in Task \cup {Null}, Swap(t)
  PROVE  env' \in Cx /\ saved' \in [Task -> Cx]
<1>1. t \in XTask => t \in Task BY TaskAssumption
<1> QED BY <1>1 DEF Swap, TypeOK

\* What Leave does to the frames keeps the activations nested.
LEMMA LeaveNesting ==
  ASSUME IInv, curr_task # Null, NEW how \in Suspended, Leave(how),
         \A t \in Task : t # curr_task => state'[t] = state[t]
  PROVE  Nesting'
<1> DEFINE r == scoex
<1>1. /\ curr_task \in Task /\ current = curr_task /\ current \in Cx
      /\ r \in Cx /\ r # current /\ run_t[r] = current /\ run_t[current] = Null
  BY RunningTask DEF Cx
<1>2. Null \notin Cx /\ Main \notin Task BY TaskAssumption
<1>3. /\ current' = r /\ curr_task' = run_st[r] /\ scoex' = run_sc[r]
      /\ UNCHANGED old_state
  BY DEF Leave, Return
<1>4. \A c \in Cx : /\ run_t'[c]  = IF c = r THEN Null ELSE run_t[c]
                    /\ run_sc'[c] = IF c = r THEN Null ELSE run_sc[c]
                    /\ run_st'[c] = IF c = r THEN Null ELSE run_st[c]
  BY DEF Leave, IInv, TypeOK
<1>5. \A c \in Cx : pc'[c] = IF c = r THEN "user"
                             ELSE IF c = current THEN how ELSE pc[c]
  BY DEF Leave, IInv, TypeOK
<1>6. \A t \in Task : coex'[t] = IF t = current THEN t ELSE coex[t]
  BY <1>1 DEF Leave, IInv, TypeOK
<1>7. how # "run" BY DEF Suspended
<1>8. Frames'
  <2>1. ASSUME NEW c \in Cx PROVE run_t'[c] # Null <=> pc'[c] = "run"
    BY <1>1, <1>4, <1>5, <1>7 DEF IInv, Nesting, Frames
  <2>2. ASSUME NEW c \in Cx, NEW d \in Cx, run_t'[c] # Null, run_t'[c] = run_t'[d]
        PROVE  c = d
    BY <1>4, <2>2 DEF IInv, Nesting, Frames
  <2> QED BY <2>1, <2>2 DEF Frames
<1>9. Actives'
  <2> SUFFICES ASSUME NEW t \in Task
               PROVE  /\ coex'[t] \in {t, Null}
                      /\ coex'[t] = Null <=> \E c \in Cx : run_t'[c] = t
                      /\ coex'[t] = Null => state'[t] = Null /\ old_state'[t] = Null
    BY DEF Actives
  <2>1. CASE t = current
    <3>1. \A c \in Cx : run_t'[c] # t
      BY <1>1, <1>2, <1>4, <2>1 DEF IInv, Nesting, Frames, Cx
    <3> QED BY <3>1, <1>6, <1>2, <2>1 DEF Cx
  <2>2. CASE t # current
    <3>1. \A c \in Cx : run_t'[c] = t <=> run_t[c] = t
      BY <1>1, <1>2, <1>4, <2>2 DEF Cx
    <3> QED BY <3>1, <1>1, <1>3, <1>6, <2>2 DEF IInv, Nesting, Actives
  <2> QED BY <2>1, <2>2
<1>10. Innermost'
  <2>1. pc'[current'] = "user" BY <1>1, <1>3, <1>5
  <2>2. CASE r = Main
    BY <1>1, <1>2, <1>3, <2>1, <2>2 DEF IInv, Nesting, Outer, Innermost, Cx
  <2>3. CASE r # Main
    <3>1. run_st[r] = r /\ run_sc[r] \in Cx /\ run_t[run_sc[r]] = r
      BY <1>1, <1>2, <2>3 DEF IInv, Nesting, Outer
    <3>2. run_sc[r] # r BY <1>1, <3>1
    <3> QED BY <1>1, <1>2, <1>3, <1>4, <2>1, <3>1, <3>2 DEF Innermost
  <2> QED BY <2>2, <2>3
<1>11. Outer'
  <2> SUFFICES ASSUME NEW c \in Cx, run_t'[c] # Null
               PROVE  IF c = Main THEN run_sc'[c] = Null /\ run_st'[c] = Null
                      ELSE run_st'[c] = c /\ run_sc'[c] \in Cx /\ run_t'[run_sc'[c]] = c
    BY DEF Outer
  <2>1. c # r /\ run_t[c] # Null BY <1>4
  <2>2. c # current BY <1>1, <2>1
  <2>3. c # Main => run_sc[c] # r
    BY <1>1, <2>1, <2>2 DEF IInv, Nesting, Outer
  <2> QED BY <1>4, <2>1, <2>3 DEF IInv, Nesting, Outer
<1> QED BY <1>8, <1>9, <1>10, <1>11 DEF Nesting

\* What Leave writes has its type.
LEMMA LeaveType ==
  ASSUME IInv, curr_task # Null, NEW how \in Suspended, Leave(how)
  PROVE  /\ UNCHANGED <<now, old_state, poll_timeout>>
         /\ coex' \in [Task -> Task \cup {Null}]
         /\ scoex' \in Cx \cup {Null} /\ curr_task' \in Task \cup {Null}
         /\ current' \in Cx /\ pc' \in [Cx -> PCs]
         /\ run_t' \in [Cx -> Task \cup {Null}]
         /\ run_sc' \in [Cx -> Cx \cup {Null}]
         /\ run_st' \in [Cx -> Task \cup {Null}]
         /\ env' \in Cx /\ saved' \in [Task -> Cx]
<1>1. curr_task \in Task /\ current = curr_task /\ scoex \in Cx
  BY RunningTask
<1>2. env' \in Cx /\ saved' \in [Task -> Cx]
  <2>1. run_t[scoex] \in Task \cup {Null} BY <1>1 DEF IInv, TypeOK
  <2> QED BY <2>1, SwapType DEF Leave, IInv
<1>3. pc' \in [Cx -> PCs]
  BY DEF Leave, IInv, TypeOK, PCs
<1> QED BY <1>1, <1>2, <1>3 DEF Leave, Return, IInv, TypeOK

\* The current task goes to bag x, or to none, to wait from now if it sleeps
\* or polls, and suspends itself.
LEMMA SuspendKeeps ==
  ASSUME IInv, curr_task # Null, NEW how \in Suspended, Leave(how),
         NEW x \in Bags \cup {Null},
         SetState(curr_task, x, time_until'),
         time_until' \in [Task -> Time \cup {Null}],
         \A t \in Task : t # curr_task => time_until'[t] = time_until[t],
         \/ time_from' = [time_from EXCEPT ![curr_task] = now]
         \/ x \in {"ready", Null} /\ UNCHANGED time_from,
         flags' \in [Task -> SUBSET Flags]
  PROVE  IInv'
<1>1. /\ curr_task \in Task /\ state[curr_task] = Null /\ old_state[curr_task] = Null
  BY RunningTask
<1>2. \A t \in Task : state'[t] = IF t = curr_task THEN x ELSE state[t]
  BY DEF SetState, SetStates
<1>3. UNCHANGED old_state BY DEF Leave
<1>4. TypeOK'
  <2>1. /\ state' \in [Task -> Bags \cup {Null}]
        /\ bag' \in [Bags -> SUBSET (Task \X (Time \cup {Null}))]
    BY <1>1, MoveType DEF IInv, SetState
  <2>2. time_from' \in [Task -> Time \cup {Null}]
    BY <1>1 DEF IInv, TypeOK
  <2> QED BY <2>1, <2>2, LeaveType DEF IInv, TypeOK
<1>5. BagsAgree'
  <2>1. \A t \in Task : state[t] # Null => time_until'[t] = time_until[t]
    BY <1>1
  <2> QED BY <1>1, <2>1, MoveAgrees DEF IInv, SetState, TypeOK
<1>6. Nesting' BY <1>2, LeaveNesting
<1>7. StoppedOnce' BY <1>1, <1>2, <1>3 DEF IInv, StoppedOnce
<1>8. WaitBegan'
  <2> SUFFICES ASSUME NEW t \in Task, (Place(t))' \in {"sleeping", "polling"}
               PROVE  time_from'[t] \in Time
    BY DEF WaitBegan
  <2>1. CASE t = curr_task
    <3>1. x \notin {"ready", Null}
      BY <1>1, <1>2, <1>3, <2>1, TaskAssumption DEF Place, Bags
    <3> QED BY <1>1, <2>1, <3>1 DEF IInv, TypeOK
  <2>2. CASE t # curr_task
    <3>1. (Place(t))' = Place(t) /\ time_from'[t] = time_from[t]
      BY <1>1, <1>2, <1>3, <2>2 DEF Place, IInv, TypeOK
    <3> QED BY <3>1 DEF IInv, WaitBegan
  <2> QED BY <2>1, <2>2
<1> QED BY <1>4, <1>5, <1>6, <1>7, <1>8 DEF IInv

\* A wait that begins now ends, if ever, within the clock's range.
LEMMA WaitType ==
  ASSUME IInv, curr_task # Null,
         \E n \in Waits(now) :
           time_until' = [time_until EXCEPT ![curr_task] = Deadline(now, n)]
  PROVE  /\ time_until' \in [Task -> Time \cup {Null}]
         /\ \A t \in Task : t # curr_task => time_until'[t] = time_until[t]
BY RunningTask, DeadlineType DEF IInv, TypeOK

\* sleep(), poll(), yield() and revert() keep the invariant.
LEMMA AllSuspendsKeep ==
  ASSUME IInv, Suspend
  PROVE  IInv'
<1> USE DEF Suspended
<1>1. CASE Sleep
  <2>1. flags' \in [Task -> SUBSET Flags] BY <1>1 DEF Sleep, IInv, TypeOK
  <2>2. "sleeping" \in Bags BY DEF Bags
  <2> QED BY <1>1, <2>1, <2>2, WaitType, SuspendKeeps DEF Sleep
<1>2. CASE Poll
  <2>1. flags' \in [Task -> SUBSET Flags] BY <1>2 DEF Poll, IInv, TypeOK
  <2>2. "polling" \in Bags BY DEF Bags
  <2> QED BY <1>2, <2>1, <2>2, WaitType, SuspendKeeps DEF Poll
<1>3. CASE Yield
  <2>1. "ready" \in Bags BY DEF Bags
  <2>2. SetState(curr_task, "ready", time_until') BY <1>3 DEF Yield
  <2> QED BY <1>3, <2>1, <2>2, SuspendKeeps DEF Yield, IInv, TypeOK
<1>4. CASE Revert
  <2>1. curr_task \in Task /\ state[curr_task] = Null
    BY <1>4, RunningTask DEF Revert
  <2>2. SetState(curr_task, Null, time_until')
    <3>1. state' = [t \in Task |-> IF t \in {curr_task} THEN Null ELSE state[t]]
      BY <1>4, <2>1 DEF Revert, IInv, TypeOK
    <3>2. bag' = Moved({curr_task}, Null, time_until')
      <4>1. \A y \in Bags : y # Null BY TaskAssumption
      <4>2. \A y \in Bags :
              Moved({curr_task}, Null, time_until')[y] = bag[y]
        BY <2>1, <4>1 DEF Moved
      <4>3. bag = [y \in Bags |-> bag[y]] BY DEF IInv, TypeOK
      <4>4. Moved({curr_task}, Null, time_until')
              = [y \in Bags |-> Moved({curr_task}, Null, time_until')[y]]
        BY DEF Moved
      <4> QED BY <1>4, <4>2, <4>3, <4>4 DEF Revert
    <3> QED BY <3>1, <3>2 DEF SetState, SetStates
  <2> QED BY <1>4, <2>2, SuspendKeeps DEF Revert, IInv, TypeOK
<1> QED BY <1>1, <1>2, <1>3, <1>4 DEF Suspend

----------------------------------------------------------------------------
(* work() *)

\* run() keeps the invariant: the drawn task is not active yet, so that the
\* stack grows by one, and it is out of the bags.
LEMMA WorkRunKeeps ==
  ASSUME IInv, NEW t \in Task, WorkRun(t)
  PROVE  IInv'
<1> DEFINE c == current
<1>1. Null \notin Cx /\ Null \notin Bags /\ Main \notin Task
  BY TaskAssumption
<1>2. state[t] = "ready"
  <2>1. "ready" \in Bags BY DEF Bags
  <2>2. t \in {u \in Task : state[u] = "ready"}
    BY <2>1, MembersAre DEF WorkRun, Ready, IInv
  <2> QED BY <2>2
<1>3. coex[t] = t /\ old_state[t] = Null
  BY <1>2, <1>1, FiledIsIdle DEF Bags
<1>4. \A d \in Cx : run_t[d] # t
  BY <1>1, <1>3 DEF IInv, Nesting, Actives, Cx
<1>5. c \in Cx /\ pc[c] = "work" /\ run_t[c] = Null
  BY DEF WorkRun, At, IInv, TypeOK, Nesting, Frames
<1>6. c # t
  <2>1. CASE curr_task = Null BY <1>1, <2>1 DEF IInv, Nesting, Innermost
  <2>2. CASE curr_task # Null BY <1>3, <1>1, <2>2, RunningTask DEF Cx
  <2> QED BY <2>1, <2>2
<1>7. run_t[t] = Null
  BY <1>1, <1>4 DEF IInv, Nesting, Outer, Cx
<1>8. /\ current' = t /\ curr_task' = t /\ scoex' = c
      /\ UNCHANGED <<now, old_state, time_from, time_until, flags, poll_timeout>>
  BY <1>3 DEF WorkRun
<1>9. \A d \in Cx : /\ run_t'[d]  = IF d = c THEN t ELSE run_t[d]
                    /\ run_sc'[d] = IF d = c THEN scoex ELSE run_sc[d]
                    /\ run_st'[d] = IF d = c THEN curr_task ELSE run_st[d]
  BY DEF WorkRun, IInv, TypeOK
<1>10. \A d \in Cx : pc'[d] = IF d = t THEN "user" ELSE IF d = c THEN "run" ELSE pc[d]
  BY <1>3 DEF WorkRun, IInv, TypeOK
<1>11. \A u \in Task : coex'[u] = IF u = t THEN Null ELSE coex[u]
  BY DEF WorkRun, IInv, TypeOK
<1>12. \A u \in Task : state'[u] = IF u = t THEN Null ELSE state[u]
  BY DEF WorkRun, SetState, SetStates
<1>13. TypeOK'
  <2>1. /\ state' \in [Task -> Bags \cup {Null}]
        /\ bag' \in [Bags -> SUBSET (Task \X (Time \cup {Null}))]
    BY MoveType DEF IInv, SetState, WorkRun, TypeOK
  <2>2. env' \in Cx /\ saved' \in [Task -> Cx]
    BY SwapType DEF WorkRun, IInv
  <2>3. pc' \in [Cx -> PCs] /\ coex' \in [Task -> Task \cup {Null}]
    BY DEF WorkRun, IInv, TypeOK, PCs
  <2>4. /\ run_t' \in [Cx -> Task \cup {Null}]
        /\ run_sc' \in [Cx -> Cx \cup {Null}]
        /\ run_st' \in [Cx -> Task \cup {Null}]
    BY DEF WorkRun, IInv, TypeOK
  <2> QED BY <1>5, <1>8, <2>1, <2>2, <2>3, <2>4 DEF IInv, TypeOK, Cx
<1>14. BagsAgree'
  BY <1>8, MoveAgrees DEF IInv, SetState, WorkRun, TypeOK
<1>15. Frames'
  <2>1. ASSUME NEW d \in Cx PROVE run_t'[d] # Null <=> pc'[d] = "run"
    BY <1>1, <1>6, <1>7, <1>9, <1>10 DEF IInv, Nesting, Frames, Cx
  <2>2. ASSUME NEW d \in Cx, NEW e \in Cx, run_t'[d] # Null, run_t'[d] = run_t'[e]
        PROVE  d = e
    BY <1>4, <1>9, <2>2 DEF IInv, Nesting, Frames
  <2> QED BY <2>1, <2>2 DEF Frames
<1>16. Actives'
  <2> SUFFICES ASSUME NEW u \in Task
               PROVE  /\ coex'[u] \in {u, Null}
                      /\ coex'[u] = Null <=> \E d \in Cx : run_t'[d] = u
                      /\ coex'[u] = Null => state'[u] = Null /\ old_state'[u] = Null
    BY DEF Actives
  <2>1. CASE u = t
    BY <1>3, <1>5, <1>8, <1>9, <1>11, <1>12, <2>1
  <2>2. CASE u # t
    <3>1. \A d \in Cx : run_t'[d] = u <=> run_t[d] = u
      BY <1>1, <1>5, <1>9, <2>2 DEF Cx
    <3> QED BY <3>1, <1>8, <1>11, <1>12, <2>2 DEF IInv, Nesting, Actives
  <2> QED BY <2>1, <2>2
<1>17. Innermost'
  BY <1>1, <1>5, <1>8, <1>9, <1>10 DEF Innermost, Cx
<1>18. Outer'
  <2> SUFFICES ASSUME NEW d \in Cx, run_t'[d] # Null
               PROVE  IF d = Main THEN run_sc'[d] = Null /\ run_st'[d] = Null
                      ELSE run_st'[d] = d /\ run_sc'[d] \in Cx /\ run_t'[run_sc'[d]] = d
    BY DEF Outer
  <2>1. CASE d # c
    BY <1>5, <1>9, <2>1, <1>1 DEF IInv, Nesting, Outer
  <2>2. CASE d = c /\ c = Main
    BY <1>1, <1>9, <2>2, RunningTask DEF IInv, Nesting, Innermost
  <2>3. CASE d = c /\ c # Main
    BY <1>1, <1>9, <2>3, RunningTask DEF IInv, Nesting, Innermost
  <2> QED BY <2>1, <2>2, <2>3
<1>19. StoppedOnce'
  BY <1>3, <1>8, <1>12 DEF IInv, StoppedOnce
<1>20. WaitBegan'
  <2>1. \A u \in Task : (Place(u))' \in {"sleeping", "polling"} => (Place(u))' = Place(u)
    BY <1>1, <1>3, <1>8, <1>12 DEF Place, Bags
  <2> QED BY <1>8, <2>1 DEF IInv, WaitBegan
<1> QED BY <1>13, <1>14, <1>15, <1>16, <1>17, <1>18, <1>19, <1>20 DEF IInv, Nesting

\* Waiting tasks that work() makes ready, by whatever it does to their flags,
\* the clock and its own position.
LEMMA WorkWakes ==
  ASSUME IInv, NEW S \in SUBSET Task,
         \A t \in S : state[t] # Null,
         SetStates(S, "ready", time_until),
         UNCHANGED <<old_state, time_from, time_until, coex, poll_timeout,
                     scoex, curr_task, current, frameVars, env, saved>>,
         now' \in Time, flags' \in [Task -> SUBSET Flags],
         NEW p \in {"user", "work", "failed"}, GoTo(p),
         pc[current] = "work"
  PROVE  IInv'
<1>1. "ready" \in Bags BY DEF Bags
<1>2. \A t \in Task : state'[t] = IF t \in S THEN "ready" ELSE state[t]
  BY DEF SetStates
<1>3. TypeOK'
  <2>1. /\ state' \in [Task -> Bags \cup {Null}]
        /\ bag' \in [Bags -> SUBSET (Task \X (Time \cup {Null}))]
    BY <1>1, MoveType DEF IInv, TypeOK
  <2>2. pc' \in [Cx -> PCs] BY DEF GoTo, IInv, TypeOK, PCs
  <2> QED BY <2>1, <2>2 DEF IInv, TypeOK, frameVars
<1>4. BagsAgree'
  BY <1>1, MoveAgrees DEF IInv, TypeOK
<1>5. Nesting'
  <2>1. \A t \in Task : coex[t] = Null => state'[t] = Null /\ old_state'[t] = Null
    BY <1>2 DEF IInv, Nesting, Actives
  <2>2. /\ pc'[current] \in {"user", "work", "failed"}
        /\ \A d \in Cx : pc'[d] = "run" <=> pc[d] = "run"
    BY DEF GoTo, IInv, TypeOK
  <2> QED BY <2>1, <2>2, NestingKept
<1>6. StoppedOnce' BY <1>2 DEF IInv, StoppedOnce
<1>7. WaitBegan'
  <2>1. \A t \in Task : (Place(t))' \in {"sleeping", "polling"} => (Place(t))' = Place(t)
    BY <1>2, TaskAssumption DEF Place, Bags
  <2> QED BY <2>1 DEF IInv, WaitBegan
<1> QED BY <1>3, <1>4, <1>5, <1>6, <1>7 DEF IInv

\* All that work() does besides run() keeps the invariant.
LEMMA WorkKeeps ==
  ASSUME IInv, Work
  PROVE  IInv'
<1> USE DEF At
<1>1. /\ Members("polling") = {t \in Task : state[t] = "polling"}
      /\ \A at : DueIn("polling", at) \subseteq Members("polling")
      /\ \A at : DueIn("sleeping", at) \subseteq {t \in Task : state[t] = "sleeping"}
  BY MembersAre DEF IInv, Bags
<1>2. Null # "polling" /\ Null # "sleeping" BY TaskAssumption DEF Bags
<1>3. ASSUME NEW S \in SUBSET Members("polling"), NEW d \in Nat,
             AfterPoll(S, d), now' \in Time, flags' \in [Task -> SUBSET Flags],
             pc[current] = "work"
      PROVE  IInv'
  BY <1>1, <1>2, <1>3, WorkWakes DEF AfterPoll
<1>4. PollLimit \in Nat BY PollLimitNat DEF IInv
<1>5. After(PollLimit) \in Time /\ now <= After(PollLimit)
  BY <1>4, AfterType DEF IInv
<1>6. now \in Nat /\ MaxTime \in Nat /\ flags \in [Task -> SUBSET Flags]
  BY TimeAssumption DEF IInv, TypeOK, Time
<1>7. CASE WorkWake
  <2>1. DueIn("sleeping", now) \in SUBSET Task BY <1>1
  <2>2. GoTo("work") BY <1>7 DEF WorkWake, GoTo, Control, IInv, TypeOK
  <2> QED BY <1>1, <1>2, <1>7, <2>1, <2>2, WorkWakes
      DEF WorkWake, Control, IInv, TypeOK
<1>8. CASE WorkNothing
  <2>1. TypeOK'
    BY <1>8 DEF WorkNothing, Idle, GoTo, IInv, TypeOK, taskVars, frameVars, PCs
  <2> QED BY <1>8, <2>1, TasksUntouched DEF WorkNothing, Idle, GoTo, IInv, TypeOK
<1>9. CASE WorkPollTimeout
  BY <1>1, <1>3, <1>4, <1>5, <1>6, <1>9 DEF WorkPollTimeout, Idle
<1>10. CASE WorkPollResult
  <2>1. PICK hit \in SUBSET Members("polling") \ {{}} :
          /\ now' \in now .. After(PollLimit)
          /\ flags' = [t \in Task |-> IF t \in hit THEN flags[t] \cup {"result"}
                                                   ELSE flags[t]]
          /\ AfterPoll(hit \cup DueIn("polling", now'), PollLimit)
    BY <1>10 DEF WorkPollResult
  <2>2. now' \in Time BY <1>5, <1>6, <2>1 DEF Time
  <2>3. flags' \in [Task -> SUBSET Flags] BY <1>6, <2>1 DEF Flags
  <2>4. hit \cup DueIn("polling", now') \in SUBSET Members("polling")
    BY <1>1, <2>1
  <2> QED BY <1>3, <1>4, <1>10, <2>1, <2>2, <2>3, <2>4 DEF WorkPollResult, Idle
<1>11. CASE WorkPollError
  <2>1. flags' \in [Task -> SUBSET Flags] BY <1>6, <1>11 DEF WorkPollError, Flags
  <2>2. now' \in Time BY <1>5, <1>6, <1>11 DEF WorkPollError, Time
  <2> QED BY <1>3, <1>4, <1>11, <2>1, <2>2 DEF WorkPollError, Idle
<1>12. CASE WorkFailed
  <2>1. TypeOK'
    BY <1>5, <1>12 DEF WorkFailed, GoTo, IInv, TypeOK, taskVars, frameVars, PCs
  <2> QED BY <1>12, <2>1, TasksUntouched DEF WorkFailed, GoTo, IInv, TypeOK
<1> QED BY <1>7, <1>8, <1>9, <1>10, <1>11, <1>12 DEF Work, WorkPoll

----------------------------------------------------------------------------
(* The invariant *)

\* A new scheduler satisfies the invariant.
LEMMA InitEstablishes == Init => IInv
<1> SUFFICES ASSUME Init PROVE IInv OBVIOUS
<1> USE TaskAssumption, TimeAssumption
<1>1. TypeOK
  BY DEF Init, TypeOK, Time, Cx, PCs
<1>2. BagsAgree BY DEF Init, BagsAgree
<1>3. Nesting
  BY DEF Init, Nesting, Frames, Actives, Innermost, Outer, Cx
<1>4. StoppedOnce BY DEF Init, StoppedOnce
<1>5. WaitBegan BY DEF Init, WaitBegan, Place, Bags
<1> QED BY <1>1, <1>2, <1>3, <1>4, <1>5 DEF IInv

\* Every step keeps the invariant.
LEMMA StepKeeps ==
  ASSUME IInv, [Next]_vars
  PROVE  IInv'
<1>1. CASE \E t \in Task : Call(t) \/ WorkRun(t)
  BY <1>1, CallKeeps, WorkRunKeeps
<1>2. CASE SetPollTimeout
  <2>1. TypeOK'
    BY <1>2 DEF SetPollTimeout, Control, taskVars, frameVars, IInv, TypeOK
  <2> QED BY <1>2, <2>1, TasksUntouched
      DEF SetPollTimeout, Control, Running
<1>3. CASE EnterWork
  <2>1. TypeOK'
    BY <1>3 DEF EnterWork, GoTo, taskVars, frameVars, IInv, TypeOK, PCs
  <2> QED BY <1>3, <2>1, TasksUntouched
      DEF EnterWork, Running, GoTo, IInv, TypeOK
<1>4. CASE Suspend BY <1>4, AllSuspendsKeep
<1>5. CASE Work BY <1>5, WorkKeeps
<1>6. CASE Tick
  <2>1. TypeOK'
    BY <1>6, TimeAssumption
    DEF Tick, Control, taskVars, frameVars, IInv, TypeOK, Time
  <2> QED BY <1>6, <2>1, TasksUntouched
      DEF Tick, Control, IInv, Nesting, Innermost
<1>7. CASE UNCHANGED vars
  <2>1. TypeOK' BY <1>7 DEF vars, taskVars, frameVars, IInv, TypeOK
  <2> QED BY <1>7, <2>1, TasksUntouched DEF vars, IInv, Nesting, Innermost
<1> QED BY <1>1, <1>2, <1>3, <1>4, <1>5, <1>6, <1>7 DEF Next

\* IInv holds in every reachable state.
THEOREM Invariant == Spec => []IInv
<1>1. Init => IInv BY InitEstablishes
<1>2. IInv /\ [Next]_vars => IInv' BY StepKeeps
<1> QED BY <1>1, <1>2, PTL DEF Spec

\* The variables keep their types, for every set of tasks and every clock.
THEOREM TypeCorrect == Spec => []TypeOK
<1>1. IInv => TypeOK BY DEF IInv
<1> QED BY <1>1, Invariant, PTL

\* Scheduler.check() would never fail, and Bag2.remove() always finds its task.
THEOREM BagsCorrect == Spec => []BagsAgree
<1>1. IInv => BagsAgree BY DEF IInv
<1> QED BY <1>1, Invariant, PTL

\* However many tasks call work() inside one another, control goes back to
\* where it came from.
THEOREM NestingCorrect == Spec => []Nesting
<1>1. IInv => Nesting BY DEF IInv
<1> QED BY <1>1, Invariant, PTL

\* A stopped task is in no bag.
THEOREM StoppedCorrect == Spec => []StoppedOnce
<1>1. IInv => StoppedOnce BY DEF IInv
<1> QED BY <1>1, Invariant, PTL

----------------------------------------------------------------------------
(* Answers *)

\* What OneAnswer says of one task,
Answered(t) ==
  /\ Place(t) \in {"sleeping", "polling"} => Answer(t) = {}
  /\ Place(t) = "ready" /\ pc[t] \in {"sleep", "poll"} =>
       \/ \E f \in Flags : Answer(t) = {f}
       \/ Answer(t) = {} /\ Due(t)

\* and what makes it inductive: a task waits in the bag of the call it made,
\* and that call does not end but by way of the ready bag.
Pending(t) ==
  /\ Place(t) = "sleeping" => pc[t] = "sleep"
  /\ Place(t) = "polling" => pc[t] = "poll"
  /\ pc[t] \in {"sleep", "poll"} => Place(t) # Null

AInv == \A t \in Task : Answered(t) /\ Pending(t)

\* A task that a step does not concern.
LEMMA OtherTask ==
  ASSUME NEW t \in Task, Answered(t), Pending(t),
         (Place(t))' = Place(t), pc'[t] = pc[t], flags'[t] = flags[t],
         Due(t) => (Due(t))'
  PROVE  (Answered(t))' /\ (Pending(t))'
<1>1. (Answer(t))' = Answer(t) BY DEF Answer
<1> QED BY <1>1 DEF Answered, Pending

\* A task that is in no bag and in no sleep or poll.
LEMMA NoCall ==
  ASSUME NEW t \in Task, (Place(t))' = Null, pc'[t] \notin {"sleep", "poll"}
  PROVE  (Answered(t))' /\ (Pending(t))'
BY TaskAssumption DEF Answered, Pending, Bags

\* A waiting task that is told why it is woken, or whose time is up.
LEMMA TaskWoken ==
  ASSUME NEW t \in Task, Answered(t), Pending(t),
         Place(t) \in {"sleeping", "polling"}, (Place(t))' = "ready",
         pc'[t] = pc[t],
         \/ \E f \in {"interrupt", "notify"} : flags'[t] = flags[t] \cup {f}
         \/ Place(t) = "polling" /\ \E f \in Flags : flags'[t] = flags[t] \cup {f}
         \/ flags'[t] = flags[t] /\ (Due(t))'
  PROVE  (Answered(t))' /\ (Pending(t))'
<1>1. Answer(t) = {} /\ pc[t] \in {"sleep", "poll"}
  BY DEF Answered, Pending
<1>2. CASE flags'[t] = flags[t] /\ (Due(t))'
  BY <1>1, <1>2, TaskAssumption DEF Answered, Pending, Answer, Bags
<1>3. CASE \E f \in {"interrupt", "notify"} : flags'[t] = flags[t] \cup {f}
  <2>1. PICK f \in {"interrupt", "notify"} : flags'[t] = flags[t] \cup {f}
    BY <1>3
  <2>2. (Answer(t))' = {f} BY <1>1, <2>1 DEF Answer
  <2> QED BY <2>1, <2>2, TaskAssumption DEF Answered, Pending, Flags, Bags
<1>4. CASE Place(t) = "polling" /\ \E f \in Flags : flags'[t] = flags[t] \cup {f}
  <2>1. PICK f \in Flags : flags'[t] = flags[t] \cup {f} BY <1>4
  <2>2. pc[t] = "poll" BY <1>4 DEF Pending
  <2>3. (Answer(t))' = {f} BY <1>1, <2>1, <2>2 DEF Answer
  <2> QED BY <2>1, <2>3, TaskAssumption DEF Answered, Pending, Bags
<1> QED BY <1>2, <1>3, <1>4

\* The current task and those that wait in run() are in no bag.
LEMMA CurrentIsNowhere ==
  ASSUME IInv, current \in Task
  PROVE  coex[current] = Null /\ Place(current) = Null
<1>1. curr_task # Null BY TaskAssumption DEF IInv, Nesting, Innermost
<1> QED BY <1>1, RunningTask DEF Place

\* A task found due has a deadline that has come.
LEMMA DueInMeans ==
  ASSUME BagsAgree, NEW x \in {"sleeping", "polling"}, NEW at,
         NEW t \in DueIn(x, at)
  PROVE  t \in Task /\ state[t] = x /\ time_until[t] # Null /\ time_until[t] <= at
<1>1. x \in Bags BY DEF Bags
<1>2. PICK e \in bag[x] : e[1] = t /\ e[2] # Null /\ e[2] <= at
  BY DEF DueIn
<1>3. PICK u \in Task : state[u] = x /\ e = Entry(u, x, time_until)
  BY <1>1, <1>2 DEF BagsAgree
<1>4. e[1] = u /\ e[2] = time_until[u] BY <1>3 DEF Entry
<1> QED BY <1>2, <1>3, <1>4

\* A step that changes nothing of the tasks but the clock, and the position
\* of the current co-expression.
LEMMA AnswersUntouched ==
  ASSUME IInv, AInv, UNCHANGED taskVars, now' \in Time, now <= now',
         \A t \in Task : t # current => pc'[t] = pc[t],
         pc'[current] \in {"user", "work", "failed"}
  PROVE  AInv'
<1> SUFFICES ASSUME NEW t \in Task PROVE (Answered(t))' /\ (Pending(t))'
  BY DEF AInv
<1>1. (Place(t))' = Place(t) BY DEF Place, taskVars
<1>2. CASE t = current BY <1>1, <1>2, CurrentIsNowhere, NoCall
<1>3. CASE t # current
  <2>1. Due(t) => (Due(t))'
    BY TaskAssumption DEF Due, taskVars, IInv, TypeOK, Time
  <2> QED BY <1>1, <1>3, <2>1, OtherTask DEF AInv, taskVars
<1> QED BY <1>2, <1>3

\* Calls on a task that is not active mix up no answers.
LEMMA CallAnswers ==
  ASSUME IInv, AInv, NEW t \in Task, Call(t)
  PROVE  AInv'
<1> SUFFICES ASSUME NEW u \in Task PROVE (Answered(u))' /\ (Pending(u))'
  BY DEF AInv
<1>0. Answered(u) /\ Pending(u) BY DEF AInv
<1>1. pc' = pc /\ now' = now
  BY DEF Call, Start, Stop, Interrupt, Notify, Wake, ChangeTime,
         ChangeTimeFromNow, Refile, Control
<1>2. CASE u # t
  <2>1. /\ state'[u] = state[u] /\ old_state'[u] = old_state[u]
        /\ flags'[u] = flags[u] /\ time_until'[u] = time_until[u]
    BY <1>2 DEF Call, Start, Stop, Interrupt, Notify, Wake, ChangeTime,
         ChangeTimeFromNow, Refile, SetState, SetStates, IInv, TypeOK
  <2>2. (Place(u))' = Place(u) /\ (Due(u) => (Due(u))')
    BY <1>1, <2>1 DEF Place, Due
  <2> QED BY <1>0, <1>1, <2>1, <2>2, OtherTask
<1>3. CASE u = t /\ Start(t)
  <2>1. CASE old_state[t] = Null
    <3>1. Place(t) = Null BY <1>3, <2>1 DEF Start, Place
    <3>2. pc[t] \notin {"sleep", "poll"} BY <1>0, <1>3, <3>1 DEF Pending
    <3>3. state'[t] = "ready" BY <1>3, <2>1 DEF Start, SetState, SetStates
    <3>4. (Place(t))' = "ready" BY <3>3, TaskAssumption DEF Place, Bags
    <3> QED BY <1>1, <1>3, <3>2, <3>4 DEF Answered, Pending
  <2>2. CASE old_state[t] # Null
    <3>1. state'[t] = old_state[t] BY <1>3, <2>2 DEF Start, SetState, SetStates
    <3>2. (Place(t))' = Place(t) BY <1>3, <2>2, <3>1 DEF Start, Place
    <3> QED BY <1>0, <1>1, <1>3, <3>2, OtherTask DEF Start, Due
  <2> QED BY <2>1, <2>2
<1>4. CASE u = t /\ Stop(t)
  <2>1. state'[t] = Null /\ old_state'[t] = state[t] /\ state[t] # Null
    BY <1>4 DEF Stop, SetState, SetStates, IInv, TypeOK
  <2>2. (Place(t))' = Place(t) BY <2>1 DEF Place
  <2> QED BY <1>0, <1>1, <1>4, <2>2, OtherTask DEF Stop, Due
<1>5. ASSUME u = t, NEW f \in {"interrupt", "notify"}, Wake(t, f)
      PROVE  (Answered(u))' /\ (Pending(u))'
  <2>1. Place(t) \in {"sleeping", "polling"}
    BY <1>5 DEF Wake, Place, IInv, TypeOK, Bags
  <2>2. state'[t] = "ready" BY <1>5 DEF Wake, SetState, SetStates
  <2>3. (Place(t))' = "ready" BY <2>2, TaskAssumption DEF Place, Bags
  <2>4. flags'[t] = flags[t] \cup {f} BY <1>5 DEF Wake, IInv, TypeOK
  <2> QED BY <1>0, <1>1, <1>5, <2>1, <2>3, <2>4, TaskWoken
<1>6. ASSUME u = t, NEW base, Refile(t, base)
      PROVE  (Answered(u))' /\ (Pending(u))'
  <2>1. (Place(t))' = Place(t) /\ Place(t) \in {"sleeping", "polling"}
    BY <1>6, TaskAssumption DEF Refile, Place, Bags
  <2>2. (Answer(t))' = Answer(t) BY <1>1, <1>6 DEF Answer, Refile
  <2> QED BY <1>0, <1>1, <1>6, <2>1, <2>2, TaskAssumption
      DEF Answered, Pending, Bags
<1> QED BY <1>2, <1>3, <1>4, <1>5, <1>6
    DEF Call, Interrupt, Notify, ChangeTime, ChangeTimeFromNow

\* run() resumes a task with the answer it has.
LEMMA WorkRunAnswers ==
  ASSUME IInv, AInv, NEW t \in Task, WorkRun(t)
  PROVE  AInv'
<1> SUFFICES ASSUME NEW u \in Task PROVE (Answered(u))' /\ (Pending(u))'
  BY DEF AInv
<1>1. state[t] = "ready" /\ t \in Task
  <2>1. "ready" \in Bags BY DEF Bags
  <2> QED BY <2>1, MembersAre DEF WorkRun, Ready, IInv
<1>2. coex[t] = t /\ old_state[t] = Null
  BY <1>1, TaskAssumption, FiledIsIdle DEF Bags
<1>3. /\ state'[u] = IF u = t THEN Null ELSE state[u]
      /\ pc'[u] = IF u = t THEN "user" ELSE IF u = current THEN "run" ELSE pc[u]
      /\ UNCHANGED <<now, old_state, time_until, flags>>
  BY <1>2 DEF WorkRun, SetState, SetStates, IInv, TypeOK, Cx
<1>4. CASE u = t
  <2>1. (Place(u))' = Null BY <1>2, <1>3, <1>4 DEF Place
  <2> QED BY <1>3, <1>4, <2>1, NoCall
<1>5. CASE u # t /\ u = current
  <2>1. (Place(u))' = Null BY <1>3, <1>5, CurrentIsNowhere DEF Place
  <2> QED BY <1>3, <1>5, <2>1, NoCall
<1>6. CASE u # t /\ u # current
  <2>1. (Place(u))' = Place(u) /\ (Due(u) => (Due(u))')
    BY <1>3, <1>6 DEF Place, Due
  <2> QED BY <1>3, <1>6, <2>1, OtherTask DEF AInv
<1> QED BY <1>4, <1>5, <1>6

\* The tasks other than the one that suspends itself.
LEMMA LeaveAnswers ==
  ASSUME IInv, AInv, curr_task # Null, NEW how, Leave(how),
         NEW t \in Task, t # curr_task,
         state'[t] = state[t], flags'[t] = flags[t], time_until'[t] = time_until[t]
  PROVE  (Answered(t))' /\ (Pending(t))'
<1>1. /\ current = curr_task /\ current \in Task /\ scoex \in Cx
      /\ UNCHANGED <<now, old_state>>
  BY RunningTask DEF Leave
<1>2. pc'[t] = IF t = scoex THEN "user" ELSE pc[t]
  BY <1>1 DEF Leave, IInv, TypeOK, Cx
<1>3. (Place(t))' = Place(t) BY <1>1 DEF Place
<1>4. CASE t = scoex
  <2>1. run_t[t] = current BY <1>4, RunningTask
  <2>2. t # Main BY TaskAssumption
  <2>3. run_sc[t] \in Cx /\ run_t[run_sc[t]] = t
    BY <1>1, <1>4, <2>1, <2>2, TaskAssumption DEF IInv, Nesting, Outer, Cx
  <2>4. coex[t] = Null BY <2>3 DEF IInv, Nesting, Actives
  <2>5. Place(t) = Null BY <2>4 DEF IInv, Nesting, Actives, Place
  <2> QED BY <1>2, <1>3, <1>4, <2>5, NoCall
<1>5. CASE t # scoex
  <2>1. Due(t) => (Due(t))' BY <1>1 DEF Due
  <2> QED BY <1>2, <1>3, <1>5, <2>1, OtherTask DEF AInv
<1> QED BY <1>4, <1>5

\* A task that suspends itself begins to wait without an answer.
LEMMA SuspendAnswers ==
  ASSUME IInv, AInv, Suspend
  PROVE  AInv'
<1>1. PICK how \in Suspended : Leave(how)
  BY DEF Suspend, Sleep, Poll, Yield, Revert, Suspended
<1>2. curr_task # Null BY DEF Suspend, Sleep, Poll, Yield, Revert
<1>3. /\ curr_task \in Task /\ current = curr_task
      /\ state[curr_task] = Null /\ old_state[curr_task] = Null
      /\ scoex # curr_task
  BY <1>2, RunningTask
<1>4. ASSUME NEW t \in Task, t # curr_task
      PROVE  (Answered(t))' /\ (Pending(t))'
  <2>1. /\ state'[t] = state[t] /\ flags'[t] = flags[t]
        /\ time_until'[t] = time_until[t]
    BY <1>3, <1>4 DEF Suspend, Sleep, Poll, Yield, Revert, SetState, SetStates,
                      IInv, TypeOK
  <2> QED BY <1>1, <1>2, <1>4, <2>1, LeaveAnswers
<1>5. ASSUME NEW t \in Task, t = curr_task
      PROVE  (Answered(t))' /\ (Pending(t))'
  <2>1. ASSUME NEW h, Leave(h) PROVE pc'[t] = h /\ old_state'[t] = Null
    BY <1>3, <1>5, <2>1 DEF Leave, IInv, TypeOK, Cx
  <2>2. ASSUME NEW x \in Bags, SetState(t, x, time_until'), old_state'[t] = Null
        PROVE  (Place(t))' = x
    BY <2>2, TaskAssumption DEF Place, SetState, SetStates
  <2>3. CASE Sleep
    <3>1. pc'[t] = "sleep" /\ (Place(t))' = "sleeping"
      BY <1>5, <2>1, <2>2, <2>3 DEF Sleep, Bags
    <3>2. (Answer(t))' = {}
      BY <1>5, <2>3, <3>1 DEF Sleep, Answer, IInv, TypeOK
    <3> QED BY <3>1, <3>2, TaskAssumption DEF Answered, Pending, Bags
  <2>4. CASE Poll
    <3>1. pc'[t] = "poll" /\ (Place(t))' = "polling"
      BY <1>5, <2>1, <2>2, <2>4 DEF Poll, Bags
    <3>2. (Answer(t))' = {}
      BY <1>5, <2>4, <3>1 DEF Poll, Answer, IInv, TypeOK
    <3> QED BY <3>1, <3>2, TaskAssumption DEF Answered, Pending, Bags
  <2>5. CASE Yield
    <3>1. pc'[t] = "yield" /\ (Place(t))' = "ready"
      BY <1>5, <2>1, <2>2, <2>5 DEF Yield, Bags
    <3> QED BY <3>1 DEF Answered, Pending
  <2>6. CASE Revert
    <3>1. pc'[t] = "revert" /\ (Place(t))' = Null
      BY <1>3, <1>5, <2>1, <2>6 DEF Revert, Place
    <3> QED BY <3>1, NoCall
  <2> QED BY <2>3, <2>4, <2>5, <2>6 DEF Suspend
<1> QED BY <1>4, <1>5 DEF AInv

\* work() makes waiting tasks ready with one answer each.
LEMMA WokenAnswers ==
  ASSUME IInv, AInv, NEW S \in SUBSET Task, NEW x \in {"sleeping", "polling"},
         \A t \in S : state[t] = x,
         SetStates(S, "ready", time_until),
         UNCHANGED <<old_state, time_until, current>>,
         now' \in Time, now <= now',
         \A t \in Task : t # current => pc'[t] = pc[t],
         pc'[current] \in {"user", "work", "failed"},
         \A t \in Task \ S : flags'[t] = flags[t],
         \A t \in S :
           \/ x = "polling" /\ \E f \in Flags : flags'[t] = flags[t] \cup {f}
           \/ flags'[t] = flags[t] /\ (Due(t))'
  PROVE  AInv'
<1> SUFFICES ASSUME NEW t \in Task PROVE (Answered(t))' /\ (Pending(t))'
  BY DEF AInv
<1>1. state'[t] = IF t \in S THEN "ready" ELSE state[t]
  BY DEF SetStates
<1>2. CASE t \in S
  <2>1. Place(t) = x /\ (Place(t))' = "ready"
    BY <1>1, <1>2, TaskAssumption DEF Place, Bags
  <2>2. t # current
    BY <2>1, TaskAssumption, CurrentIsNowhere DEF Bags
  <2> QED BY <1>2, <2>1, <2>2, TaskWoken DEF AInv
<1>3. CASE t \notin S
  <2>1. (Place(t))' = Place(t) BY <1>1, <1>3 DEF Place
  <2>2. Due(t) => (Due(t))'
    BY TaskAssumption DEF Due, IInv, TypeOK, Time
  <2>3. CASE t = current BY <2>1, <2>3, CurrentIsNowhere, NoCall
  <2>4. CASE t # current BY <1>3, <2>1, <2>2, <2>4, OtherTask DEF AInv
  <2> QED BY <2>3, <2>4
<1> QED BY <1>2, <1>3

\* All that work() does besides run() keeps answers apart.
LEMMA WorkAnswers ==
  ASSUME IInv, AInv, Work
  PROVE  AInv'
<1> USE DEF At
<1>1. PollLimit \in Nat BY PollLimitNat DEF IInv
<1>2. After(PollLimit) \in Time /\ now <= After(PollLimit)
  BY <1>1, AfterType DEF IInv
<1>3. now \in Nat /\ now \in Time /\ MaxTime \in Nat
  BY TimeAssumption DEF IInv, TypeOK, Time
<1>4. \A p \in PCs : GoTo(p) => /\ pc'[current] = p
                                /\ \A t \in Task : t # current => pc'[t] = pc[t]
  BY DEF GoTo, IInv, TypeOK, Cx
<1>5. ASSUME NEW S \in SUBSET Task, \A t \in S : state[t] = "polling",
             NEW d, AfterPoll(S, d), now' \in Time, now <= now',
             \A t \in Task \ S : flags'[t] = flags[t],
             \A t \in S :
               \/ \E f \in Flags : flags'[t] = flags[t] \cup {f}
               \/ flags'[t] = flags[t] /\ (Due(t))'
      PROVE  AInv'
  BY <1>4, <1>5, WokenAnswers DEF AfterPoll, PCs
<1>6. Members("polling") = {t \in Task : state[t] = "polling"}
  BY MembersAre DEF IInv, Bags
<1>7. ASSUME UNCHANGED time_until, NEW t \in DueIn("polling", now')
      PROVE  t \in Task /\ state[t] = "polling" /\ (Due(t))'
  BY <1>7, DueInMeans DEF Due, IInv
<1>8. CASE WorkWake
  <2>1. \A t \in DueIn("sleeping", now) :
          t \in Task /\ state[t] = "sleeping" /\ Due(t)
    BY DueInMeans DEF Due, IInv
  <2>2. \A t \in Task : Due(t) => (Due(t))'
    BY <1>8 DEF Due, WorkWake, Control
  <2>3. pc' = pc /\ pc[current] = "work" BY <1>8 DEF WorkWake, Control
  <2> QED BY <1>3, <1>8, <2>1, <2>2, <2>3, WokenAnswers DEF WorkWake, Control
<1>9. CASE WorkNothing
  BY <1>3, <1>4, <1>9, AnswersUntouched DEF WorkNothing, PCs
<1>10. CASE WorkPollTimeout
  <2>1. /\ now' \in Time /\ now <= now' /\ UNCHANGED <<flags, time_until>>
        /\ AfterPoll(DueIn("polling", now'), PollLimit)
    BY <1>2, <1>10 DEF WorkPollTimeout, AfterPoll
  <2> QED BY <1>5, <1>7, <2>1
<1>11. CASE WorkPollResult
  <2>1. PICK hit \in SUBSET Members("polling") \ {{}} :
          /\ now' \in now .. After(PollLimit)
          /\ flags' = [t \in Task |-> IF t \in hit THEN flags[t] \cup {"result"}
                                                   ELSE flags[t]]
          /\ AfterPoll(hit \cup DueIn("polling", now'), PollLimit)
    BY <1>11 DEF WorkPollResult
  <2>2. now' \in Time /\ now <= now' BY <1>2, <1>3, <2>1 DEF Time
  <2>3. UNCHANGED time_until BY <2>1 DEF AfterPoll
  <2> DEFINE S == hit \cup DueIn("polling", now')
  <2>4. S \in SUBSET Task /\ \A t \in S : state[t] = "polling"
    BY <1>6, <1>7, <2>1, <2>3
  <2>5. \A t \in Task \ S : flags'[t] = flags[t] BY <2>1
  <2>6. \A t \in S : \/ \E f \in Flags : flags'[t] = flags[t] \cup {f}
                     \/ flags'[t] = flags[t] /\ (Due(t))'
    BY <1>7, <2>1, <2>3, <2>4 DEF Flags
  <2> HIDE DEF S
  <2> QED BY <1>5, <2>1, <2>2, <2>4, <2>5, <2>6 DEF S
<1>12. CASE WorkPollError
  <2>1. \A t \in Task : flags'[t] = IF t \in Members("polling")
                                    THEN flags[t] \cup {"error"} ELSE flags[t]
    BY <1>12 DEF WorkPollError
  <2>2. now' \in Time /\ now <= now' /\ AfterPoll(Members("polling"), PollLimit)
    BY <1>2, <1>3, <1>12 DEF WorkPollError, Time
  <2> QED BY <1>5, <1>6, <2>1, <2>2 DEF Flags
<1>13. CASE WorkFailed
  BY <1>2, <1>3, <1>4, <1>13, AnswersUntouched DEF WorkFailed, PCs
<1> QED BY <1>8, <1>9, <1>10, <1>11, <1>12, <1>13 DEF Work, WorkPoll

\* Every step keeps answers apart.
LEMMA StepAnswers ==
  ASSUME IInv, AInv, [Next]_vars
  PROVE  AInv'
<1>1. CASE \E t \in Task : Call(t) \/ WorkRun(t)
  BY <1>1, CallAnswers, WorkRunAnswers
<1>2. CASE Suspend BY <1>2, SuspendAnswers
<1>3. CASE Work BY <1>3, WorkAnswers
<1>4. CASE SetPollTimeout \/ EnterWork \/ Tick \/ UNCHANGED vars
  <2>1. UNCHANGED taskVars
    BY <1>4 DEF SetPollTimeout, EnterWork, Tick, vars
  <2>2. now' \in Time /\ now <= now'
    BY <1>4, TimeAssumption
    DEF SetPollTimeout, EnterWork, Tick, vars, IInv, TypeOK, Time
  <2>3. /\ \A t \in Task : t # current => pc'[t] = pc[t]
        /\ pc'[current] \in {"user", "work", "failed"}
    BY <1>4 DEF SetPollTimeout, EnterWork, GoTo, Tick, Control, vars,
                IInv, TypeOK, Nesting, Innermost, Cx
  <2> QED BY <2>1, <2>2, <2>3, AnswersUntouched
<1> QED BY <1>1, <1>2, <1>3, <1>4 DEF Next

\* A call of sleep or poll returns for one reason, whatever is done to its
\* task meanwhile.
THEOREM AnswersCorrect == Spec => []OneAnswer
<1>1. Init => AInv
  BY TaskAssumption
  DEF Init, AInv, Answered, Pending, Place, Bags, Cx
<1>2. IInv /\ AInv /\ [Next]_vars => AInv' BY StepAnswers
<1>3. AInv => OneAnswer BY DEF AInv, Answered, OneAnswer
<1> QED BY <1>1, <1>2, <1>3, Invariant, PTL DEF Spec

----------------------------------------------------------------------------
\* While the scheduler itself waits the clock passes no deadline.
LEMMA WaitsInTime ==
  ASSUME IInv, Next, At("work") \/ At("failed")
  PROVE  (\A e \in Timed : now <= e[2] => now' <= e[2]) \/ now' = now + 1
<1>1. CASE now' = now BY <1>1
<1>2. CASE Tick BY <1>2 DEF Tick
<1>3. CASE now' \in now .. After(PollLimit)
  <2>1. /\ PollLimit \in Nat
        /\ \A e \in Timed : now <= e[2] => now + PollLimit <= e[2]
    BY CalcSleepBound, TimeAssumption DEF PollLimit, IInv, TypeOK
  <2>2. now \in Nat /\ After(PollLimit) \in Nat /\ After(PollLimit) <= now + PollLimit
    BY <2>1, AfterType DEF IInv, TypeOK, Time
  <2>3. \A e \in Timed : e[2] \in Nat
    BY TaskAssumption DEF IInv, TypeOK, Timed, Time, Bags
  <2> QED BY <1>3, <2>1, <2>2, <2>3
<1>4. \/ now' = now \/ Tick \/ now' = After(PollLimit)
      \/ now' \in now .. After(PollLimit)
  BY DEF Next, Call, Start, Stop, Interrupt, Notify, Wake, ChangeTime,
         ChangeTimeFromNow, Refile, WorkRun, SetPollTimeout, EnterWork,
         Suspend, Sleep, Poll, Yield, Revert, Leave, Work, WorkWake, WorkNothing,
         WorkPoll, WorkPollTimeout, WorkPollResult, WorkPollError, WorkFailed
<1>5. now' = After(PollLimit) => now' \in now .. After(PollLimit)
  BY PollLimitNat, AfterType DEF IInv, TypeOK, Time
<1> QED BY <1>1, <1>2, <1>3, <1>4, <1>5

\* The scheduler never sleeps past the deadline of a task.
THEOREM NeverOversleeps == Spec => NoOversleep
<1>1. IInv /\ [Next]_vars =>
        [At("work") \/ At("failed") =>
           (\A e \in Timed : now <= e[2] => now' <= e[2]) \/ now' = now + 1]_vars
  BY WaitsInTime
<1> QED BY <1>1, Invariant, PTL DEF Spec, NoOversleep
----------------------------------------------------------------------------
(* External states. Where a task with an xstate is active, its xstate      *)
(* holds what the co-expression that waits for it should see.              *)

Held(o) ==
  \A c \in Cx : run_t[c] \in XTask => saved[run_t[c]] = o[c]

EInv ==
  /\ \E o \in Owners : env = o[current] /\ Held(o)
  /\ \A t \in Task : coex[t] # Null \/ t \notin XTask => saved[t] = t

\* A step that exchanges no external state and changes no frame.
LEMMA EnvKept ==
  ASSUME EInv, UNCHANGED <<current, run_t, env, saved, coex>>
  PROVE  EInv'
BY DEF EInv, Owners, Held

\* run(t): the one that waits for t is where it was, and t sees its own state if it has
\* an xstate, else what the one that waits for it sees.
LEMMA WorkRunEnv ==
  ASSUME IInv, EInv, NEW t \in Task, WorkRun(t)
  PROVE  EInv'
<1> DEFINE c == current
<1>1. Null \notin Cx /\ Main \notin Task /\ XTask \subseteq Task
  BY TaskAssumption
<1>2. state[t] = "ready"
  <2>1. "ready" \in Bags BY DEF Bags
  <2>2. t \in {u \in Task : state[u] = "ready"}
    BY <2>1, MembersAre DEF WorkRun, Ready, IInv
  <2> QED BY <2>2
<1>3. coex[t] = t
  BY <1>2, TaskAssumption, FiledIsIdle DEF Bags
<1>4. \A d \in Cx : run_t[d] # t
  BY <1>1, <1>3 DEF IInv, Nesting, Actives, Cx
<1>5. c \in Cx /\ t \in Cx /\ run_t[c] = Null
  BY DEF WorkRun, At, IInv, TypeOK, Nesting, Frames, Cx
<1>6. run_t[t] = Null
  BY <1>1, <1>4 DEF IInv, Nesting, Outer, Cx
<1>7. \A d \in Cx : run_t'[d] = IF d = c THEN t ELSE run_t[d]
  BY DEF WorkRun, IInv, TypeOK
<1>8. \A u \in Task : coex'[u] = IF u = t THEN Null ELSE coex[u]
  BY DEF WorkRun, IInv, TypeOK
<1>9. current' = t
  BY <1>3 DEF WorkRun
<1>10. saved[t] = t
  BY <1>1, <1>3 DEF EInv, Cx
<1>11. \A u \in Task : saved'[u] = IF u = t /\ t \in XTask THEN env ELSE saved[u]
  BY DEF WorkRun, Swap, IInv, TypeOK
<1>12. c # t
  <2>1. CASE curr_task = Null BY <1>1, <2>1 DEF IInv, Nesting, Innermost
  <2>2. CASE curr_task # Null BY <1>3, <1>1, <2>2, RunningTask DEF Cx
  <2> QED BY <2>1, <2>2
<1>13. PICK o \in Owners : env = o[c] /\ Held(o)
  BY DEF EInv
<1> DEFINE w == [o EXCEPT ![t] = IF t \in XTask THEN t ELSE o[c]]
<1>14. o \in [Cx -> Cx] /\ (\A d \in XTask \cup {Main} : o[d] = d)
       /\ \A d \in Cx : run_t[d] \in Task \ XTask => o[run_t[d]] = o[d]
  BY <1>13 DEF Owners
<1>15. w \in [Cx -> Cx] /\ \A d \in Cx : w[d] = IF d # t THEN o[d] ELSE IF t \in XTask THEN t
                                                                    ELSE o[c]
  BY <1>5, <1>14
<1> HIDE DEF w
<1>16. w \in Owners'
  <2>1. \A d \in XTask \cup {Main} : w[d] = d
    BY <1>1, <1>14, <1>15 DEF Cx
  <2>2. ASSUME NEW d \in Cx, run_t'[d] \in Task \ XTask PROVE w[run_t'[d]] = w[d]
    <3>1. CASE d = c
      BY <2>2, <3>1, <1>5, <1>7, <1>12, <1>15
    <3>2. CASE d # c
      <4>1. run_t'[d] = run_t[d] /\ run_t[d] # t /\ run_t[d] # Null /\ run_t[d] \in Cx
        BY <2>2, <3>2, <1>1, <1>4, <1>7 DEF Cx
      <4>2. d # t
        BY <4>1, <1>6
      <4> QED BY <2>2, <4>1, <4>2, <1>14, <1>15
    <3> QED BY <3>1, <3>2
  <2> QED BY <1>15, <2>1, <2>2 DEF Owners
<1>17. env' = w[current']
  BY <1>5, <1>9, <1>10, <1>13, <1>15 DEF WorkRun, Swap
<1>18. ASSUME NEW d \in Cx, run_t'[d] \in XTask PROVE saved'[run_t'[d]] = w[d]
  <2>1. CASE d = c
    BY <1>18, <2>1, <1>1, <1>5, <1>7, <1>11, <1>12, <1>13, <1>15
  <2>2. CASE d # c
    <3>1. run_t'[d] = run_t[d] /\ run_t[d] # t /\ run_t[d] \in Task
      BY <1>18, <2>2, <1>1, <1>4, <1>7
    <3>2. d # t
      BY <3>1, <1>1, <1>6 DEF Cx
    <3> QED BY <1>18, <3>1, <3>2, <1>11, <1>13, <1>15 DEF Held
  <2> QED BY <2>1, <2>2
<1>19. \A u \in Task : coex'[u] # Null \/ u \notin XTask => saved'[u] = u
  BY <1>8, <1>11 DEF EInv
<1> QED BY <1>16, <1>17, <1>18, <1>19 DEF EInv, Held

\* A task that suspends itself gets its own state back into its xstate, and leaves the
\* one that waits for it with what that one saw.
LEMMA LeaveEnv ==
  ASSUME IInv, EInv, curr_task # Null, NEW how \in Suspended, Leave(how)
  PROVE  EInv'
<1> DEFINE r == scoex
<1>1. /\ curr_task \in Task /\ current = curr_task /\ current \in Cx
      /\ r \in Cx /\ r # current /\ run_t[r] = current
  BY RunningTask DEF Cx
<1>2. Null \notin Cx /\ Main \notin Task /\ XTask \subseteq Task
  BY TaskAssumption
<1>3. \A d \in Cx : run_t'[d] = IF d = r THEN Null ELSE run_t[d]
  BY DEF Leave, IInv, TypeOK
<1>4. \A u \in Task : coex'[u] = IF u = current THEN u ELSE coex[u]
  BY <1>1 DEF Leave, IInv, TypeOK
<1>5. \A u \in Task : saved'[u] = IF u = current /\ u \in XTask THEN env ELSE saved[u]
  BY <1>1 DEF Leave, Swap, IInv, TypeOK
<1>6. PICK o \in Owners : env = o[current] /\ Held(o)
  BY DEF EInv
<1>7. o \in Owners'
  BY <1>2, <1>3, <1>6 DEF Owners, Cx
<1>8. env' = o[current']
  <2>1. current' = r
    BY DEF Leave
  <2>2. CASE current \in XTask
    BY <2>1, <2>2, <1>1, <1>6 DEF Leave, Swap, Held
  <2>3. CASE current \notin XTask
    BY <2>1, <2>3, <1>1, <1>6 DEF Leave, Swap, Owners
  <2> QED BY <2>2, <2>3
<1>9. ASSUME NEW d \in Cx, run_t'[d] \in XTask PROVE saved'[run_t'[d]] = o[d]
  <2>1. d # r /\ run_t'[d] = run_t[d] /\ run_t[d] \in Task
    BY <1>2, <1>3, <1>9 DEF Cx
  <2>2. run_t[d] # current
    BY <2>1, <1>1, <1>2 DEF IInv, Nesting, Frames, Cx
  <2> QED BY <1>5, <1>6, <1>9, <2>1, <2>2 DEF Held
<1>10. ASSUME NEW u \in Task, coex'[u] # Null \/ u \notin XTask PROVE saved'[u] = u
  <2>1. CASE u = current /\ u \in XTask
    BY <2>1, <1>5, <1>6 DEF Owners
  <2>2. CASE ~(u = current /\ u \in XTask)
    BY <2>2, <1>4, <1>5, <1>10 DEF EInv
  <2> QED BY <2>1, <2>2
<1> QED BY <1>7, <1>8, <1>9, <1>10 DEF EInv, Held

\* However activations nest, whoever runs sees the external state of the innermost active
\* task that has one, and a task that is not active has its own in its xstate.
THEOREM EnvCorrect == Spec => []EnvRestored
<1>1. Init => EInv
  <2> SUFFICES ASSUME Init PROVE EInv OBVIOUS
  <2>1. [c \in Cx |-> c] \in Owners /\ Held([c \in Cx |-> c])
    BY TaskAssumption DEF Init, Owners, Held, Cx
  <2>2. current \in Cx /\ env = [c \in Cx |-> c][current]
    BY DEF Init, Cx
  <2> QED BY <2>1, <2>2 DEF Init, EInv
<1>2. IInv /\ EInv /\ [Next]_vars => EInv'
  <2> SUFFICES ASSUME IInv, EInv, [Next]_vars PROVE EInv' OBVIOUS
  <2>1. ASSUME NEW t \in Task, Call(t) PROVE EInv'
    BY <2>1, EnvKept
    DEF Call, Start, Stop, Interrupt, Notify, Wake, ChangeTime, ChangeTimeFromNow, Refile,
        Control, frameVars
  <2>2. ASSUME NEW t \in Task, WorkRun(t) PROVE EInv'
    BY <2>2, WorkRunEnv
  <2>3. CASE Suspend
    BY <2>3, LeaveEnv DEF Suspend, Sleep, Poll, Yield, Revert, Suspended
  <2>4. CASE SetPollTimeout \/ EnterWork \/ Tick
    BY <2>4, EnvKept DEF SetPollTimeout, EnterWork, Tick, Control, frameVars, taskVars
  <2>5. CASE Work
    BY <2>5, EnvKept
    DEF Work, WorkWake, WorkNothing, WorkPoll, WorkPollTimeout, WorkPollResult, WorkPollError,
        WorkFailed, AfterPoll, Control, frameVars, taskVars
  <2>6. CASE UNCHANGED vars
    BY <2>6, EnvKept DEF vars, taskVars, frameVars
  <2> QED BY <2>1, <2>2, <2>3, <2>4, <2>5, <2>6 DEF Next
<1>3. EInv => EnvRestored
  BY DEF EInv, EnvRestored
<1> QED BY <1>1, <1>2, <1>3, InitEstablishes, StepKeeps, PTL DEF Spec

----------------------------------------------------------------------------
(* Scheduler implements TaskLife *)

\* A call on a task is a start, a stop or the waking of one task; work() wakes
\* sets of tasks; run() and the suspensions push and pop the stack; all else
\* is a stutter.

\* The one member of a set with a property is what CHOOSE gives.
LEMMA Chosen ==
  ASSUME NEW S, NEW f, NEW t, NEW c \in S, f[c] = t, \A d \in S : f[d] = t => d = c
  PROVE  (CHOOSE d \in S : f[d] = t) = c
OBVIOUS

\* An active task lies on the co-expression whose run() waits for it.
LEMMA BelowIs ==
  ASSUME Frames, NEW t \in Task, NEW c \in Cx, run_t[c] = t, coex[t] = Null
  PROVE  BelowOf(t) = c
<1>1. t # Null BY TaskAssumption DEF Cx
<1>2. \A d \in Cx : run_t[d] = t => d = c BY <1>1 DEF Frames
<1>3. (CHOOSE d \in Cx : run_t[d] = t) = c BY <1>2, Chosen
<1> QED BY <1>3 DEF BelowOf

\* The same of the state after a step.
LEMMA BelowIsNext ==
  ASSUME Frames', NEW t \in Task, NEW c \in Cx, run_t'[c] = t, coex'[t] = Null
  PROVE  (BelowOf(t))' = c
<1>1. t # Null BY TaskAssumption DEF Cx
<1>2. \A d \in Cx : run_t'[d] = t => d = c BY <1>1 DEF Frames
<1>3. (CHOOSE d \in Cx : run_t'[d] = t) = c BY <1>2, Chosen
<1> QED BY <1>3 DEF BelowOf

\* The conditions of tasks in the bags.
LEMMA Conditions ==
  /\ Condition(Null) = "dormant"
  /\ Condition("ready") = "ready"
  /\ \A x \in Bags : /\ Condition(x) \in {"ready", "waiting"}
                     /\ Condition(x) # Null
                     /\ x # "ready" => Condition(x) = "waiting"
BY TaskAssumption DEF Condition, Bags

\* A step that keeps the activations keeps what the stack holds.
LEMMA SameStack ==
  ASSUME UNCHANGED <<coex, run_t>>, NEW t \in Task
  PROVE  (BelowOf(t))' = BelowOf(t)
BY DEF BelowOf

\* A step that nothing in TaskLife sees.
LEMMA Stutters ==
  ASSUME UNCHANGED <<state, old_state, coex, run_t, current>>
  PROVE  UNCHANGED Life!lifeVars
<1>1. \A t \in Task : /\ (StatusOf(t))' = StatusOf(t) /\ (HeldOf(t))' = HeldOf(t)
                      /\ (BelowOf(t))' = BelowOf(t)
  BY SameStack DEF StatusOf, HeldOf
<1> QED BY <1>1 DEF Life!lifeVars

\* start() is a start of TaskLife.
LEMMA StartMaps ==
  ASSUME IInv, NEW t \in Task, Start(t)
  PROVE  Life!Start(t)
<1>1. /\ coex[t] # Null /\ state[t] = Null /\ old_state[t] \in Bags \cup {Null}
      /\ UNCHANGED <<coex, run_t, current>>
  BY DEF Start, Control, frameVars, IInv, TypeOK
<1>2. \A u \in Task : state'[u] = IF u # t THEN state[u]
                                  ELSE IF old_state[t] = Null THEN "ready"
                                       ELSE old_state[t]
  BY DEF Start, SetState, SetStates
<1>3. \A u \in Task : old_state'[u] = IF u = t THEN Null ELSE old_state[u]
  BY DEF Start, IInv, TypeOK
<1>4. StatusOf(t) = "dormant"
  BY <1>1, Conditions DEF StatusOf
<1>5. \A u \in Task : (StatusOf(u))' = IF u # t THEN StatusOf(u)
                                       ELSE IF HeldOf(t) = Null THEN "ready"
                                            ELSE HeldOf(t)
  BY <1>1, <1>2, Conditions DEF StatusOf, HeldOf
<1>6. \A u \in Task : (HeldOf(u))' = IF u = t THEN Null ELSE HeldOf(u)
  BY <1>3 DEF HeldOf
<1>7. \A u \in Task : (BelowOf(u))' = BelowOf(u) BY <1>1, SameStack
<1> QED BY <1>1, <1>4, <1>5, <1>6, <1>7 DEF Life!Start

\* stop() is a stop of TaskLife.
LEMMA StopMaps ==
  ASSUME IInv, NEW t \in Task, Stop(t)
  PROVE  Life!Stop(t)
<1>1. /\ coex[t] # Null /\ state[t] \in Bags /\ UNCHANGED <<coex, run_t, current>>
  BY DEF Stop, Control, frameVars, IInv, TypeOK
<1>2. \A u \in Task : state'[u] = IF u = t THEN Null ELSE state[u]
  BY DEF Stop, SetState, SetStates
<1>3. \A u \in Task : old_state'[u] = IF u = t THEN state[t] ELSE old_state[u]
  BY DEF Stop, IInv, TypeOK
<1>4. StatusOf(t) = Condition(state[t]) /\ StatusOf(t) \in {"ready", "waiting"}
  BY <1>1, Conditions DEF StatusOf
<1>5. \A u \in Task : (StatusOf(u))' = IF u = t THEN "dormant" ELSE StatusOf(u)
  BY <1>1, <1>2, Conditions DEF StatusOf
<1>6. \A u \in Task : (HeldOf(u))' = IF u = t THEN StatusOf(t) ELSE HeldOf(u)
  BY <1>1, <1>3, <1>4, TaskAssumption DEF HeldOf
<1>7. \A u \in Task : (BelowOf(u))' = BelowOf(u) BY <1>1, SameStack
<1> QED BY <1>1, <1>4, <1>5, <1>6, <1>7 DEF Life!Stop

\* Tasks that wait, made ready.
LEMMA WakeMaps ==
  ASSUME IInv, NEW S \in SUBSET Task,
         \A t \in S : state[t] \in {"sleeping", "polling"},
         \A t \in Task : state'[t] = IF t \in S THEN "ready" ELSE state[t],
         UNCHANGED <<old_state, coex, run_t, current>>
  PROVE  Life!Wake(S)
<1>1. \A t \in S : state[t] \in Bags /\ state[t] # Null /\ state[t] # "ready"
  BY TaskAssumption DEF Bags
<1>2. \A t \in S : coex[t] # Null BY <1>1, FiledIsIdle, TaskAssumption DEF Cx
<1>3. \A t \in S : StatusOf(t) = "waiting"
  BY <1>1, <1>2, Conditions DEF StatusOf
<1>4. \A t \in Task : (StatusOf(t))' = IF t \in S THEN "ready" ELSE StatusOf(t)
  BY <1>1, <1>2, Conditions DEF StatusOf
<1>5. \A t \in Task : (HeldOf(t))' = HeldOf(t) /\ (BelowOf(t))' = BelowOf(t)
  BY SameStack DEF HeldOf
<1> QED BY <1>3, <1>4, <1>5 DEF Life!Wake

\* run() is an activation of TaskLife.
LEMMA RunMaps ==
  ASSUME IInv, IInv', NEW t \in Task, WorkRun(t)
  PROVE  Life!Activate(t)
<1>1. state[t] = "ready"
  <2>1. "ready" \in Bags BY DEF Bags
  <2> QED BY <2>1, MembersAre DEF WorkRun, Ready, IInv
<1>2. Null \notin Cx /\ Null \notin Bags /\ current \in Cx
  BY TaskAssumption DEF IInv, TypeOK
<1>3. coex[t] = t BY <1>1, <1>2, FiledIsIdle DEF Bags
<1>4. current' = t /\ UNCHANGED old_state BY <1>3 DEF WorkRun
<1>5. \A u \in Task : /\ state'[u] = IF u = t THEN Null ELSE state[u]
                      /\ coex'[u] = IF u = t THEN Null ELSE coex[u]
  BY DEF WorkRun, SetState, SetStates, IInv, TypeOK
<1>6. \A d \in Cx : run_t'[d] = IF d = current THEN t ELSE run_t[d]
  BY DEF WorkRun, IInv, TypeOK
<1>7. run_t[current] = Null
  BY <1>2 DEF WorkRun, At, IInv, Nesting, Frames
<1>8. StatusOf(t) = "ready" BY <1>1, <1>2, <1>3, Conditions DEF StatusOf, Cx
<1>9. \A u \in Task : /\ (StatusOf(u))' = IF u = t THEN "active" ELSE StatusOf(u)
                      /\ (HeldOf(u))' = HeldOf(u)
  BY <1>4, <1>5 DEF StatusOf, HeldOf
<1>10. ASSUME NEW u \in Task
       PROVE  (BelowOf(u))' = IF u = t THEN current ELSE BelowOf(u)
  <2>1. CASE u = t
    BY <1>2, <1>5, <1>6, <2>1, BelowIsNext DEF IInv, Nesting
  <2>2. CASE u # t /\ coex[u] # Null
    BY <1>5, <2>2 DEF BelowOf
  <2>3. CASE u # t /\ coex[u] = Null
    <3>1. PICK c \in Cx : run_t[c] = u BY <2>3 DEF IInv, Nesting, Actives
    <3>2. c # current /\ run_t'[c] = u BY <1>2, <1>6, <1>7, <3>1 DEF Cx
    <3> QED BY <1>5, <2>3, <3>1, <3>2, BelowIs, BelowIsNext DEF IInv, Nesting
  <2> QED BY <2>1, <2>2, <2>3
<1> QED BY <1>4, <1>8, <1>9, <1>10 DEF Life!Activate

\* A suspension pops the stack of TaskLife.
LEMMA LeaveMaps ==
  ASSUME IInv, IInv', curr_task # Null, NEW how \in Suspended, Leave(how),
         NEW x \in Bags \cup {Null},
         \A t \in Task : state'[t] = IF t = curr_task THEN x ELSE state[t]
  PROVE  Life!Suspend(Condition(x))
<1>1. /\ curr_task \in Task /\ current = curr_task /\ coex[current] = Null
      /\ scoex \in Cx /\ run_t[scoex] = current
  BY RunningTask
<1>2. Null \notin Cx /\ current # Main BY <1>1, TaskAssumption
<1>3. current' = scoex /\ UNCHANGED old_state BY DEF Leave
<1>4. \A t \in Task : coex'[t] = IF t = current THEN t ELSE coex[t]
  BY <1>1 DEF Leave, IInv, TypeOK
<1>5. \A d \in Cx : run_t'[d] = IF d = scoex THEN Null ELSE run_t[d]
  BY DEF Leave, IInv, TypeOK
<1>6. BelowOf(current) = scoex BY <1>1, BelowIs DEF IInv, Nesting
<1>7. \A t \in Task : /\ (StatusOf(t))' = IF t = current THEN Condition(x)
                                          ELSE StatusOf(t)
                      /\ (HeldOf(t))' = HeldOf(t)
  BY <1>1, <1>2, <1>3, <1>4 DEF StatusOf, HeldOf, Cx
<1>8. ASSUME NEW t \in Task
      PROVE  (BelowOf(t))' = IF t = current THEN Null ELSE BelowOf(t)
  <2>1. CASE t = current BY <1>2, <1>4, <2>1 DEF BelowOf, Cx
  <2>2. CASE t # current /\ coex[t] # Null BY <1>4, <2>2 DEF BelowOf
  <2>3. CASE t # current /\ coex[t] = Null
    <3>1. PICK c \in Cx : run_t[c] = t BY <2>3 DEF IInv, Nesting, Actives
    <3>2. run_t'[c] = t BY <1>1, <1>5, <2>3, <3>1
    <3> QED BY <1>4, <2>3, <3>1, <3>2, BelowIs, BelowIsNext DEF IInv, Nesting
  <2> QED BY <2>1, <2>2, <2>3
<1> QED BY <1>1, <1>2, <1>3, <1>6, <1>7, <1>8 DEF Life!Suspend

\* The rounds of work() that move tasks are wakings of TaskLife.
LEMMA WakesMap ==
  ASSUME IInv, WorkWake \/ WorkPoll
  PROVE  \E S \in SUBSET Task : Life!Wake(S)
<1>1. /\ Members("polling") = {t \in Task : state[t] = "polling"}
      /\ \A at : DueIn("polling", at) \subseteq Members("polling")
      /\ \A at : DueIn("sleeping", at) \subseteq {t \in Task : state[t] = "sleeping"}
  BY MembersAre DEF IInv, Bags
<1>2. PICK S : /\ \/ S = DueIn("sleeping", now)
                  \/ S = Members("polling")
                  \/ \E at : S = DueIn("polling", at)
                  \/ \E at : \E hit \in SUBSET Members("polling") :
                       S = hit \cup DueIn("polling", at)
               /\ SetStates(S, "ready", time_until)
               /\ UNCHANGED <<old_state, coex, run_t, current>>
  <2>1. CASE WorkWake BY <2>1 DEF WorkWake, Control, frameVars
  <2>2. CASE WorkPollTimeout
    BY <2>2 DEF WorkPollTimeout, AfterPoll, frameVars
  <2>3. CASE WorkPollResult
    BY <2>3 DEF WorkPollResult, AfterPoll, frameVars
  <2>4. CASE WorkPollError
    BY <2>4 DEF WorkPollError, AfterPoll, frameVars
  <2> QED BY <2>1, <2>2, <2>3, <2>4 DEF WorkPoll
<1>3. S \in SUBSET Task /\ \A t \in S : state[t] \in {"sleeping", "polling"}
  BY <1>1, <1>2
<1>4. \A t \in Task : state'[t] = IF t \in S THEN "ready" ELSE state[t]
  BY <1>2 DEF SetStates
<1> QED BY <1>2, <1>3, <1>4, WakeMaps

\* A call on a task is a step of TaskLife, or no step.
LEMMA CallsMap ==
  ASSUME IInv, NEW t \in Task, Call(t)
  PROVE  Life!Next \/ UNCHANGED Life!lifeVars
<1>1. CASE Start(t) BY <1>1, StartMaps DEF Life!Next
<1>2. CASE Stop(t) BY <1>2, StopMaps DEF Life!Next
<1>3. ASSUME NEW f, Wake(t, f) PROVE Life!Next
  <2>1. state[t] \in {"sleeping", "polling"} BY <1>3 DEF Wake, IInv, TypeOK, Bags
  <2>2. \A u \in Task : state'[u] = IF u \in {t} THEN "ready" ELSE state[u]
    BY <1>3 DEF Wake, SetState, SetStates
  <2>3. UNCHANGED <<old_state, coex, run_t, current>>
    BY <1>3 DEF Wake, Control, frameVars
  <2>4. Life!Wake({t}) BY <2>1, <2>2, <2>3, WakeMaps
  <2>5. {t} \in SUBSET Task OBVIOUS
  <2> QED BY <2>4, <2>5, Zenon DEF Life!Next
<1>4. ASSUME NEW base, Refile(t, base) PROVE UNCHANGED Life!lifeVars
  BY <1>4, Stutters DEF Refile, Control, frameVars
<1> QED BY <1>1, <1>2, <1>3, <1>4
    DEF Call, Interrupt, Notify, ChangeTime, ChangeTimeFromNow

\* sleep(), poll(), yield() and revert() are suspensions of TaskLife.
LEMMA SuspendsMap ==
  ASSUME IInv, IInv', Suspend
  PROVE  Life!Next
<1>1. PICK how \in Suspended : Leave(how)
  BY DEF Suspend, Sleep, Poll, Yield, Revert, Suspended
<1>2. /\ curr_task # Null /\ curr_task \in Task /\ state[curr_task] = Null
  BY RunningTask DEF Suspend, Sleep, Poll, Yield, Revert
<1>3. PICK x \in Bags \cup {Null} :
        \A t \in Task : state'[t] = IF t = curr_task THEN x ELSE state[t]
  <2>1. CASE Sleep BY <2>1 DEF Sleep, SetState, SetStates, Bags
  <2>2. CASE Poll BY <2>2 DEF Poll, SetState, SetStates, Bags
  <2>3. CASE Yield BY <2>3 DEF Yield, SetState, SetStates, Bags
  <2>4. CASE Revert BY <1>2, <2>4 DEF Revert
  <2> QED BY <2>1, <2>2, <2>3, <2>4 DEF Suspend
<1>4. Life!Suspend(Condition(x)) BY <1>1, <1>2, <1>3, LeaveMaps
<1>5. Condition(x) \in {"dormant", "ready", "waiting"} BY Conditions
<1> QED BY <1>4, <1>5, Zenon DEF Life!Next

\* The scheduler implements TaskLife: only a ready task is ever activated,
\* activations nest, no other co-expression takes a task off the stack, and a
\* stopped task comes back as it was.
THEOREM Refinement == Spec => TaskLife
<1>1. Init => Life!Init
  <2> SUFFICES ASSUME Init PROVE Life!Init OBVIOUS
  <2>1. \A t \in Task : coex[t] # Null BY TaskAssumption DEF Init, Cx
  <2>2. \A t \in Task : /\ StatusOf(t) = "dormant" /\ HeldOf(t) = Null
                        /\ BelowOf(t) = Null
    BY <2>1, Conditions DEF Init, StatusOf, HeldOf, BelowOf
  <2> QED BY <2>2 DEF Init, Life!Init
<1>2. IInv /\ IInv' /\ [Next]_vars => [Life!Next]_(Life!lifeVars)
  <2> SUFFICES ASSUME IInv, IInv', [Next]_vars
               PROVE  Life!Next \/ UNCHANGED Life!lifeVars
    OBVIOUS
  <2>1. ASSUME NEW t \in Task, Call(t) PROVE Life!Next \/ UNCHANGED Life!lifeVars
    BY <2>1, CallsMap
  <2>2. ASSUME NEW t \in Task, WorkRun(t) PROVE Life!Next
    BY <2>2, RunMaps DEF Life!Next
  <2>3. CASE Suspend BY <2>3, SuspendsMap
  <2>4. CASE WorkWake \/ WorkPoll BY <2>4, WakesMap, Zenon DEF Life!Next
  <2>5. CASE SetPollTimeout \/ EnterWork \/ WorkNothing \/ WorkFailed \/ Tick
             \/ UNCHANGED vars
    BY <2>5, Stutters DEF SetPollTimeout, EnterWork, WorkNothing, WorkFailed,
                          Tick, Control, taskVars, frameVars, vars
  <2> QED BY <2>1, <2>2, <2>3, <2>4, <2>5 DEF Next, Work
<1> QED BY <1>1, <1>2, Invariant, PTL DEF Spec, TaskLife, Life!Spec
==============================================================================
