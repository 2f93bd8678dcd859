------------------------------ MODULE Scheduler ------------------------------
(***************************************************************************)
(* The co-operative task scheduler of lib/main/scheduler.icn.              *)
(*                                                                         *)
(* A Task is a co-expression.  Scheduler.work() activates a ready task,    *)
(* and the task runs until it suspends itself with sleep, poll, yield or   *)
(* revert.  A running task may itself call work(), so activations nest:    *)
(* exactly one co-expression runs at a time (current) and the others wait  *)
(* in run(), in a suspended task, or have not started.                     *)
(*                                                                         *)
(* A co-expression is named by its task, or Main for the one that first    *)
(* calls work().  A step is the code between two points where another      *)
(* co-expression, the clock or the outside world can make a difference.    *)
(***************************************************************************)
EXTENDS Naturals, FiniteSets

CONSTANTS
  Task,          \* the tasks of one scheduler
  XTask,         \* those created with an xstate
  Null,          \* &null
  Main,          \* the co-expression outside every task
  Delays,        \* the times given to sleep, poll and change_time
  PollTimeouts,  \* the values given to set_poll_timeout
  MaxTime        \* bound of the clock and of every deadline

Bags == {"ready", "sleeping", "polling"}
Cx   == Task \cup {Main}
Time == 0 .. MaxTime

\* The null value is no task, no string and no number.
ASSUME TaskAssumption ==
  /\ XTask \subseteq Task
  /\ Main \notin Task
  /\ Null \notin Cx \cup Bags \cup {"waiting"} \cup Nat
ASSUME TimeAssumption ==
  MaxTime \in Nat /\ Delays \subseteq Nat /\ PollTimeouts \subseteq Nat

\* What a suspended task can be told when it is resumed: the members
\* interrupt_why, notify_flag, poll_err and poll_res.
Flags == {"interrupt", "notify", "error", "result"}

VARIABLES
  now,           \* Prog.get_runtime_millis()
  state,         \* t.state: the bag the task is in, or Null
  old_state,     \* t.old_state: the bag stop() took it from, or Null
  time_from, time_until,
  flags,         \* which of t's four outcome members are not &null
  coex,          \* t.coex: Null exactly while the task is active
  bag,           \* the contents of scheduler.ready, sleeping and polling
  scoex,         \* scheduler.coex
  curr_task,     \* scheduler.curr_task
  poll_timeout,
  current,       \* &current
  pc,            \* where each co-expression is
  run_t, run_sc, run_st,   \* the locals t, sc, st of its call of run()
  env, saved     \* the external state, and what each xstate holds of it

taskVars  == <<state, old_state, time_from, time_until, flags, coex, bag>>
frameVars == <<run_t, run_sc, run_st>>
vars == <<now, taskVars, scoex, curr_task, poll_timeout, current, pc,
          frameVars, env, saved>>

Suspended == {"sleep", "poll", "yield", "revert"}
PCs == {"new", "user", "work", "failed", "run"} \cup Suspended

----------------------------------------------------------------------------
(* The bags.  Bag1 is a set of tasks; Bag2 keeps tasks in order of their   *)
(* deadline and finds one by it, so an entry carries the deadline it was   *)
(* filed under.                                                            *)

Entry(t, x, until) == <<t, IF x = "ready" THEN Null ELSE until[t]>>

\* Bag contents after every task of S moved from its bag to bag x.
Moved(S, x, until) ==
  [y \in Bags |->
     (bag[y] \ {Entry(t, y, until) : t \in {u \in S : state[u] = y}})
       \cup {Entry(t, y, until) : t \in {u \in S : x = y}}]

SetStates(S, x, until) ==
  /\ state' = [t \in Task |-> IF t \in S THEN x ELSE state[t]]
  /\ bag' = Moved(S, x, until)

SetState(t, x, until) == SetStates({t}, x, until)

Members(x) == {e[1] : e \in bag[x]}

\* Mistake: a nested work() sees no ready task.
ReadyOutermost == IF curr_task = Null THEN Members("ready") ELSE {}

Ready == Members("ready")
Timed      == {e \in bag["sleeping"] \cup bag["polling"] : e[2] # Null}

\* Mistake: to wait for ever is to be due at once.
DueInOrNull(x, at) == {e[1] : e \in {f \in bag[x] : f[2] = Null \/ f[2] <= at}}

\* Bag2.check: the tasks of a bag whose deadline has come.
DueIn(x, at) == {e[1] : e \in {f \in bag[x] : f[2] # Null /\ f[2] <= at}}

\* Mistake: the deadlines of pollers are not looked at.
CalcSleepSleepers(lim) ==
  LET until == {e[2] : e \in {f \in bag["sleeping"] : f[2] # Null}}
      waits == {lim} \cup {u - now : u \in {v \in until : v > now}}
  IN IF lim = 0 \/ \E u \in until : u <= now THEN 0
     ELSE CHOOSE d \in waits : \A f \in waits : d <= f

\* Scheduler.calc_sleep: at most lim, less if some task is due sooner.
CalcSleep(lim) ==
  IF lim = 0 \/ \E e \in Timed : e[2] <= now THEN 0
  ELSE CHOOSE d \in {lim} \cup {e[2] - now : e \in Timed} :
         \A f \in {lim} \cup {e[2] - now : e \in Timed} : d <= f

----------------------------------------------------------------------------
Init ==
  /\ now = 0
  /\ state      = [t \in Task |-> Null]
  /\ old_state  = [t \in Task |-> Null]
  /\ time_from  = [t \in Task |-> Null]
  /\ time_until = [t \in Task |-> Null]
  /\ flags      = [t \in Task |-> {}]
  /\ coex       = [t \in Task |-> t]
  /\ bag        = [x \in Bags |-> {}]
  /\ scoex = Null
  /\ curr_task = Null
  /\ poll_timeout \in PollTimeouts
  /\ current = Main
  /\ pc     = [c \in Cx |-> IF c = Main THEN "user" ELSE "new"]
  /\ run_t  = [c \in Cx |-> Null]
  /\ run_sc = [c \in Cx |-> Null]
  /\ run_st = [c \in Cx |-> Null]
  /\ env = Main
  /\ saved = [t \in Task |-> t]

----------------------------------------------------------------------------
(* Calls made by the running co-expression on a task that is not active.   *)

Running == pc[current] = "user"

Control == <<scoex, curr_task, current, pc, frameVars, env, saved>>

Start(t) ==
  /\ Running /\ coex[t] # Null
  /\ state[t] = Null
  /\ IF old_state[t] = Null
     THEN SetState(t, "ready", time_until) /\ UNCHANGED old_state
     ELSE /\ SetState(t, old_state[t], time_until)
          /\ old_state' = [old_state EXCEPT ![t] = Null]
  /\ UNCHANGED <<now, time_from, time_until, flags, coex, poll_timeout, Control>>

\* Mistake: the state of a stopped task is not kept.
StopForgetting(t) ==
  /\ Running /\ coex[t] # Null
  /\ state[t] # Null
  /\ SetState(t, Null, time_until)
  /\ UNCHANGED <<now, old_state, time_from, time_until, flags, coex,
                 poll_timeout, Control>>

Stop(t) ==
  /\ Running /\ coex[t] # Null
  /\ state[t] # Null
  /\ old_state' = [old_state EXCEPT ![t] = state[t]]
  /\ SetState(t, Null, time_until)
  /\ UNCHANGED <<now, time_from, time_until, flags, coex, poll_timeout, Control>>

\* Mistake: a stopped task is woken as well.
WakeStopped(t, flag) ==
  /\ Running /\ coex[t] # Null
  /\ state[t] # "ready"
  /\ flags' = [flags EXCEPT ![t] = @ \cup {flag}]
  /\ SetState(t, "ready", time_until)
  /\ UNCHANGED <<now, old_state, time_from, time_until, coex, poll_timeout, Control>>

\* interrupt() and notify(): wake a sleeping or polling task and say why.
Wake(t, flag) ==
  /\ Running /\ coex[t] # Null
  /\ state[t] \notin {Null, "ready"}
  /\ flags' = [flags EXCEPT ![t] = @ \cup {flag}]
  /\ SetState(t, "ready", time_until)
  /\ UNCHANGED <<now, old_state, time_from, time_until, coex, poll_timeout, Control>>

Interrupt(t) == Wake(t, "interrupt")
Notify(t)    == Wake(t, "notify")

\* base + n, where a null n means for ever.
Deadline(base, n) == IF n = Null THEN Null ELSE base + n
Waits(base) == {Null} \cup {n \in Delays : base + n <= MaxTime}

\* Mistake: the task is looked for under its new deadline.
RefiledLate(t, x) ==
  (bag[x] \ {Entry(t, x, time_until')}) \cup {Entry(t, x, time_until')}

\* Bag x after time_until' became the deadline of its member t.
Refiled(t, x) ==
  (bag[x] \ {Entry(t, x, time_until)}) \cup {Entry(t, x, time_until')}

\* Give a waiting task the deadline of a wait that began at base.
Refile(t, base) ==
  /\ Running /\ coex[t] # Null
  /\ state[t] \in {"sleeping", "polling"}
  /\ \E n \in Waits(base) :
       time_until' = [time_until EXCEPT ![t] = Deadline(base, n)]
  /\ bag' = [bag EXCEPT ![state[t]] = Refiled(t, state[t])]
  /\ UNCHANGED <<now, state, old_state, time_from, flags, coex, poll_timeout, Control>>

ChangeTime(t)        == Refile(t, time_from[t])
ChangeTimeFromNow(t) == Refile(t, now)

SetPollTimeout ==
  /\ Running
  /\ poll_timeout' \in PollTimeouts
  /\ UNCHANGED <<now, taskVars, Control>>

----------------------------------------------------------------------------
(* Suspension of the current task: the rest of sleep, poll, yield or       *)
(* revert, the transfer to scheduler.coex, and the end of the run() that   *)
(* waits there.  work() then succeeds, so that co-expression is back in    *)
(* its own code.                                                           *)

\* Mistake: the slot that was read is cleared.
SwapLosing(t) ==
  IF t \in XTask
  THEN env' = saved[t] /\ saved' = [saved EXCEPT ![t] = Null]
  ELSE UNCHANGED <<env, saved>>

\* Mistake: the external state is set and not saved.
SwapOneWay(t) ==
  IF t \in XTask THEN env' = saved[t] /\ UNCHANGED saved ELSE UNCHANGED <<env, saved>>

\* xstate_swap of task t: exchange the external state and the saved one.
Swap(t) ==
  IF t \in XTask
  THEN env' = saved[t] /\ saved' = [saved EXCEPT ![t] = env]
  ELSE UNCHANGED <<env, saved>>

\* Mistake: scheduler.coex is not set back.
ReturnPartly(r) == curr_task' = run_st[r] /\ UNCHANGED scoex

\* run() at r sets the scheduler back to what it was when run() was called.
Return(r) == curr_task' = run_st[r] /\ scoex' = run_sc[r]

Leave(how) ==
  LET r == scoex IN
  /\ Swap(run_t[r])
  /\ Return(r)
  /\ current' = r
  /\ run_t'  = [run_t EXCEPT ![r] = Null]
  /\ run_sc' = [run_sc EXCEPT ![r] = Null]
  /\ run_st' = [run_st EXCEPT ![r] = Null]
  /\ pc' = [pc EXCEPT ![current] = how, ![r] = "user"]
  /\ coex' = [coex EXCEPT ![curr_task] = current]
  /\ UNCHANGED <<now, old_state, poll_timeout>>

Sleep ==
  /\ Running /\ curr_task # Null
  /\ \E n \in Waits(now) :
       time_until' = [time_until EXCEPT ![curr_task] = Deadline(now, n)]
  /\ time_from' = [time_from EXCEPT ![curr_task] = now]
  /\ flags' = [flags EXCEPT ![curr_task] = @ \ {"interrupt", "notify"}]
  /\ SetState(curr_task, "sleeping", time_until')
  /\ Leave("sleep")

Poll ==
  /\ Running /\ curr_task # Null
  /\ \E n \in Waits(now) :
       time_until' = [time_until EXCEPT ![curr_task] = Deadline(now, n)]
  /\ time_from' = [time_from EXCEPT ![curr_task] = now]
  /\ flags' = [flags EXCEPT ![curr_task] = {}]
  /\ SetState(curr_task, "polling", time_until')
  /\ Leave("poll")

Yield ==
  /\ Running /\ curr_task # Null
  /\ SetState(curr_task, "ready", time_until)
  /\ UNCHANGED <<time_from, time_until, flags>>
  /\ Leave("yield")

Revert ==
  /\ Running /\ curr_task # Null
  /\ UNCHANGED <<state, bag, time_from, time_until, flags>>
  /\ Leave("revert")

----------------------------------------------------------------------------
(* Scheduler.work(), called by Main or by an active task.                  *)

At(p)    == pc[current] = p
GoTo(p)  == pc' = [pc EXCEPT ![current] = p]

EnterWork ==
  /\ Running
  /\ GoTo("work")
  /\ UNCHANGED <<now, taskVars, scoex, curr_task, poll_timeout, current,
                 frameVars, env, saved>>

\* run(t) for some ready task, up to the transfer to the task.
WorkRun(t) ==
  /\ At("work")
  /\ t \in Ready
  /\ SetState(t, Null, time_until)
  /\ run_t'  = [run_t EXCEPT ![current] = t]
  /\ run_sc' = [run_sc EXCEPT ![current] = scoex]
  /\ run_st' = [run_st EXCEPT ![current] = curr_task]
  /\ scoex' = current
  /\ curr_task' = t
  /\ coex' = [coex EXCEPT ![t] = Null]
  /\ Swap(t)
  /\ current' = coex[t]
  /\ pc' = [pc EXCEPT ![current] = "run", ![coex[t]] = "user"]
  /\ UNCHANGED <<now, old_state, time_from, time_until, flags, poll_timeout>>

\* No task is ready: move the sleepers that are due to ready, and repeat.
WorkWake ==
  /\ At("work")
  /\ Ready = {}
  /\ DueIn("sleeping", now) # {}
  /\ SetStates(DueIn("sleeping", now), "ready", time_until)
  /\ UNCHANGED <<now, old_state, time_from, time_until, flags, coex,
                 poll_timeout, Control>>

\* Mistake: the poll comes before the sleepers are looked at.
IdleUnordered == At("work") /\ Ready = {}

Idle == At("work") /\ Ready = {} /\ DueIn("sleeping", now) = {}

WorkNothing ==
  /\ Idle
  /\ bag["polling"] = {}
  /\ GoTo("failed")
  /\ UNCHANGED <<now, taskVars, scoex, curr_task, poll_timeout, current,
                 frameVars, env, saved>>

\* What work() does after DescStream.poll() returned with the tasks of
\* woken to be resumed, having been allowed to wait for poll_t.
AfterPoll(woken, poll_t) ==
  /\ SetStates(woken, "ready", time_until)
  /\ GoTo(IF poll_t > 0 THEN "user"
          ELSE IF woken # {} THEN "work" ELSE "failed")
  /\ UNCHANGED <<old_state, time_from, time_until, coex, poll_timeout,
                 scoex, curr_task, current, frameVars, env, saved>>

PollLimit == CalcSleep(poll_timeout)

\* The clock d ms from now; it stands still at its bound, which no
\* deadline exceeds.
After(d) == IF now + d <= MaxTime THEN now + d ELSE MaxTime

\* Mistake: after a poll without a result nobody is looked for.
WorkPollTimeoutOnly ==
  /\ Idle
  /\ bag["polling"] # {}
  /\ now' = After(PollLimit)
  /\ AfterPoll({}, PollLimit)
  /\ UNCHANGED flags

\* Nothing happened for poll_t ms: resume the pollers that are due.
WorkPollTimeout ==
  /\ Idle
  /\ bag["polling"] # {}
  /\ now' = After(PollLimit)
  /\ AfterPoll(DueIn("polling", now'), PollLimit)
  /\ UNCHANGED flags

\* Within poll_t ms something happened for the pollers in hit.
WorkPollResult ==
  /\ Idle
  /\ \E hit \in SUBSET Members("polling") \ {{}} :
       /\ now' \in now .. After(PollLimit)
       /\ flags' = [t \in Task |-> IF t \in hit THEN flags[t] \cup {"result"}
                                                ELSE flags[t]]
       /\ AfterPoll(hit \cup DueIn("polling", now'), PollLimit)

\* DescStream.poll() failed, perhaps in the middle of its wait (it does not
\* repeat an interrupted system call): every poller is told.
WorkPollError ==
  /\ Idle
  /\ bag["polling"] # {}
  /\ now' \in now .. After(PollLimit)
  /\ flags' = [t \in Task |-> IF t \in Members("polling")
                              THEN flags[t] \cup {"error"} ELSE flags[t]]
  /\ AfterPoll(Members("polling"), PollLimit)

\* work() failed: its caller goes on, or work_or_sleep() delays.
WorkFailed ==
  /\ At("failed")
  /\ GoTo("user")
  /\ \/ UNCHANGED now
     \/ now' = After(PollLimit)
  /\ UNCHANGED <<taskVars, scoex, curr_task, poll_timeout, current,
                 frameVars, env, saved>>

Tick ==
  /\ now < MaxTime
  /\ now' = now + 1
  /\ UNCHANGED <<taskVars, poll_timeout, Control>>

----------------------------------------------------------------------------
Call(t) ==
  \/ Start(t) \/ Stop(t) \/ Interrupt(t) \/ Notify(t)
  \/ ChangeTime(t) \/ ChangeTimeFromNow(t)

Suspend == Sleep \/ Poll \/ Yield \/ Revert

WorkPoll == WorkPollTimeout \/ WorkPollResult \/ WorkPollError

Work == WorkWake \/ WorkNothing \/ WorkPoll \/ WorkFailed

Next ==
  \/ \E t \in Task : Call(t) \/ WorkRun(t)
  \/ SetPollTimeout \/ EnterWork \/ Suspend \/ Work \/ Tick

Spec == Init /\ [][Next]_vars


(* Fairness: code that runs goes on.  A co-expression in its own code sooner *)
(* or later suspends itself or calls work() (Main is an event loop), the     *)
(* loop in work() takes its next step, and the clock moves.  Which ready     *)
(* task work() takes is a random choice, ?ready.s, so one that is there to   *)
(* be chosen again and again is chosen.                                      *)
Fairness ==
  /\ WF_vars(EnterWork \/ Suspend)
  /\ WF_vars(Work \/ \E t \in Task : WorkRun(t))
  /\ \A t \in Task : SF_vars(WorkRun(t))
  /\ WF_vars(Tick)

FairSpec == Spec /\ Fairness

----------------------------------------------------------------------------
(* Properties *)

\* The types of the variables.
TypeOK ==
  /\ now \in Time
  /\ state \in [Task -> Bags \cup {Null}]
  /\ old_state \in [Task -> Bags \cup {Null}]
  /\ time_from \in [Task -> Time \cup {Null}]
  /\ time_until \in [Task -> Time \cup {Null}]
  /\ flags \in [Task -> SUBSET Flags]
  /\ coex \in [Task -> Task \cup {Null}]
  /\ bag \in [Bags -> SUBSET (Task \X (Time \cup {Null}))]
  /\ scoex \in Cx \cup {Null}
  /\ curr_task \in Task \cup {Null}
  /\ poll_timeout \in PollTimeouts
  /\ current \in Cx
  /\ pc \in [Cx -> PCs]
  /\ run_t \in [Cx -> Task \cup {Null}]
  /\ run_sc \in [Cx -> Cx \cup {Null}]
  /\ run_st \in [Cx -> Task \cup {Null}]
  /\ env \in Cx
  /\ saved \in [Task -> Cx]

\* Every task is filed in exactly the bag its state names, once, under its
\* present deadline: what Scheduler.check() tests, and what Bag2.remove()
\* needs to find the task (else it ends the program with "remove() failed").
BagsAgree ==
  \A x \in Bags :
    bag[x] = {Entry(t, x, time_until) : t \in {u \in Task : state[u] = x}}

\* A co-expression waits in run() exactly while it has such a frame, for a
\* task no other one waits for,
Frames ==
  /\ \A c \in Cx : run_t[c] # Null <=> pc[c] = "run"
  /\ \A c, d \in Cx : run_t[c] # Null /\ run_t[c] = run_t[d] => c = d

\* a task is active exactly while one waits for it, and is then in no bag
\* and not stopped,
Actives ==
  \A t \in Task :
    /\ coex[t] \in {t, Null}
    /\ coex[t] = Null <=> \E c \in Cx : run_t[c] = t
    /\ coex[t] = Null => state[t] = Null /\ old_state[t] = Null

\* the scheduler knows the task that runs and where its run() waits,
Innermost ==
  /\ IF curr_task = Null THEN scoex = Null /\ current = Main
     ELSE current = curr_task /\ scoex \in Cx /\ run_t[scoex] = curr_task
  /\ pc[current] \in {"user", "work", "failed"}

\* and each run() holds as sc and st what to make of that when it ends.
Outer ==
  \A c \in Cx : run_t[c] # Null =>
    IF c = Main THEN run_sc[c] = Null /\ run_st[c] = Null
    ELSE run_st[c] = c /\ run_sc[c] \in Cx /\ run_t[run_sc[c]] = c

\* Activations nest, however tasks call work() in turn: is_current() is right,
\* control returns to where it came from, and "Scheduler co-expression not
\* &current" and "Incorrect reversion" cannot happen.
Nesting == Frames /\ Actives /\ Innermost /\ Outer

\* A stopped task is in no bag: start() brings it back to one place.
StoppedOnce == \A t \in Task : old_state[t] # Null => state[t] = Null

\* The flags the pending sleep or poll of t looks at when it returns.
Answer(t) ==
  IF pc[t] = "poll" THEN flags[t] ELSE flags[t] \cap {"interrupt", "notify"}

Due(t) == time_until[t] # Null /\ time_until[t] <= now

\* The bag t is in, or was in when it was stopped.
Place(t) == IF state[t] # Null THEN state[t] ELSE old_state[t]

\* A call of sleep or poll returns for one reason.  While it waits, nothing
\* has answered it; once its task is ready it was interrupted, notified or,
\* for poll, got a result or an error, and only one of these, or its time is
\* up.  Stop and start, changed deadlines and nested schedulers do not lose
\* or mix answers.
OneAnswer ==
  \A t \in Task :
    /\ Place(t) \in {"sleeping", "polling"} => Answer(t) = {}
    /\ Place(t) = "ready" /\ pc[t] \in {"sleep", "poll"} =>
         \/ \E f \in Flags : Answer(t) = {f}
         \/ Answer(t) = {} /\ Due(t)

\* Whose external state each active co-expression should see: Main and the tasks with
\* an xstate their own, any other that of the one in whose run() it is active.
Owners ==
  {o \in [Cx -> Cx] :
     /\ \A c \in XTask \cup {Main} : o[c] = c
     /\ \A c \in Cx : run_t[c] \in Task \ XTask => o[run_t[c]] = o[c]}

\* The running co-expression sees the external state of the innermost active
\* task that has one, whatever nested activations came and went; a task that
\* is not active finds its own values in its xstate.
EnvRestored ==
  /\ \E o \in Owners : env = o[current]
  /\ \A t \in Task : coex[t] # Null => saved[t] = t

\* A wait of the scheduler itself, in DescStream.poll() or delay(), never
\* passes the deadline of a task that sleeps or polls.
NoOversleep ==
  [][At("work") \/ At("failed") =>
       (\A e \in Timed : now <= e[2] => now' <= e[2]) \/ now' = now + 1]_vars

\* The scheduler implements TaskLife: sleeping and polling are waiting, and
\* the stack is the chain of run() calls.
Condition(x) == CASE x = Null -> "dormant" [] x = "ready" -> "ready"
                  [] OTHER -> "waiting"
StatusOf(t) == IF coex[t] = Null THEN "active" ELSE Condition(state[t])
HeldOf(t)   == IF old_state[t] = Null THEN Null ELSE Condition(old_state[t])
BelowOf(t)  == IF coex[t] = Null THEN CHOOSE c \in Cx : run_t[c] = t ELSE Null

Life == INSTANCE TaskLife WITH
  status <- [t \in Task |-> StatusOf(t)], held <- [t \in Task |-> HeldOf(t)],
  below  <- [t \in Task |-> BelowOf(t)],  top  <- current
TaskLife == Life!Spec

\* A ready task is activated (or stopped): no task starves another one that
\* is ready, however the activations nest.
ReadyRuns == \A t \in Task : state[t] = "ready" ~> state[t] # "ready"

Overdue(x, t) == state[t] = x /\ Due(t)

\* A sleeping task whose time is up is resumed, provided that work() finds
\* the ready set empty again and again: only then does it look at sleepers.
SleeperResumes ==
  []<>(At("work") /\ Ready = {}) =>
    \A t \in Task : Overdue("sleeping", t) ~> ~Overdue("sleeping", t)

\* A polling task whose time is up is resumed, provided that work() again and
\* again finds no ready task and no due sleeper either.  It needs the second
\* half: a task that keeps calling sleep(0) is due each time work() is called,
\* and work() then never gets as far as DescStream.poll().
PollerResumes ==
  []<>Idle => \A t \in Task : Overdue("polling", t) ~> ~Overdue("polling", t)
==============================================================================
