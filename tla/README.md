# Objecticon: a verification project

Specifications in TLA+ of parts of Objecticon, an object-oriented dialect of
the Icon language: its run-time system in C (`src/base`), its library in
Objecticon (`src/lib`), and tools and applications. The modules are translated
from the source; TLC checks them on small instances, and TLAPS proves theorems
about the scheduler, the message queue, co-expressions and lists for every value of
their constants.

## 1. Inventory

Status and reasons, part by part, are in `PROJECT.json` ("components"); what is
hard to test in each is there under "hazards".

| part | state | operations | what makes it correct |
|---|---|---|---|
| scheduler (`lib/main/scheduler.icn`) | three bags of tasks, current task, where to return to; per task its state, deadline and outcome | start, stop, interrupt, notify, change_time; sleep, poll, yield, revert; work, calc_sleep | a task is in one bag; activations nest; a wait has one answer and ends; no deadline slept through |
| hash structure (`base/oix/rstruct.r`, `cstruct.r`) | segments of slots, chains in order of hash number, mask, size; generator history | insert, delete, clear, copy, generate; growth and shrinking inside | lookup is exact; a generator gives each lasting element once although chains split |
| list blocks (`cstruct.r`, `rstruct.r`) | chain of ring buffers, size, changecount; generator position | put, push, get, pull, insert, delete, clear, index, copy, section, concatenate, generate | it is a sequence; a generator keeps its place |
| co-expressions (`interp.r`, `omisc.r`, `errmsg.r`) | k_current; for each its activator, where it goes on, the slot that waits for a value | create, `^`, cocopy, `@`, coact, cofail, coret, end, error | control and values always arrive somewhere; an exhausted one fails; one in error never goes on |
| interpreter (`interp.r`, `invoke.r`) | generator frames, slots of the procedure frame, scanning environment | one per instruction | an instruction finds in its slots and on its stack what was put there for it |
| class resolution (`oit/resolve.c`) | the classes of a program, in the linker | compute_inheritance | the order of superclasses is found if there is one; a field stands for all it hides |
| classes and objects (`invoke.r`, `invokeiasm.in`, `oref.r`) | init_state of classes and objects | access, invoke, construct, ensure_initialized | a class is initialised once, after its superclasses, before use from outside |
| storage (`rmemmgt.r`, `ralc.r`) | string, block and stack regions; tended list | allocate, reserve, collect | what is reachable survives, pointers follow it, weak references end |
| ipc (`lib/native/ipc.r`) | System V segments, semaphores and queues shared by processes; a table of what to clean up | Shm, Sem and Msg: create, open, use, close | a message is received whole, once, in order; a value is one that was set |
| streams (`streams.icn`) | read buffer, write buffer, position | in, out, seek, tell, push, flush | like an unbuffered file with one position |
| undo (`undomanager.icn`, `compoundedit.icn`) | list of edits, index, limit, closed | add_edit, undo, redo, clear, close | undo and redo are inverse; the document matches the index |
| dispatcher (`lib/gui/dispatcher.icn`) | open dialogs, list of descriptors, one polling task | add and remove dialog, use_poll_timeout, work | the task polls what is open, and is stopped when there is nothing to poll |
| network clients (`netclient.icn`, ...) | connection, timeout | connect, send, receive | one deadline per operation, retries only where nothing was sent |
| numbers, strings, conversions (`rlrgint.r`, `cnv.r`, `fstr.r`, ...) | none | pure functions | equal to their mathematical definition |
| constant folding (`oit/optimize.c`) | the tree of a procedure | fold_consts, one fold per operation | a program does what it did before |
| code generation and its optimiser (`oit/ir.c`) | chunks of intermediate code, counters of slots, loops and scans in progress | ir_traverse, optimize, mark_check | compiled code does what goal-directed evaluation of the expression means |
| lexer, parser, rest of the linker, code layout (`base/oit`) | batch data | | not modelled: see section 5 |
| rtt, graphics, native bindings, gui, xml, parser, ipl, iyacc, applications | | | out of scope: build tool, window-system and library I/O, layout and painting, third-party or utilities |

How they interact. Everything in one program runs on one thread: concurrency
comes from co-expressions, which switch only when one activates or returns to
another, and from generators, which are suspended in the middle of a structure
while the rest of the program goes on. The scheduler is the library's use of
the former (the GUI dispatcher, the network clients and the file dialogs are
written on top of it), `hgnext`/`lgnext` are the run-time system's use of the
latter (every `!x` goes through them; so does `DescStream.poll`, which reads
its list with `lgnext`). Other processes are met in `DescStream.poll`, in ipc
and in sockets.

Hard behaviours: calls on a task between its suspension and its resumption in
any order; schedulers nested in tasks; a deadline changed while the task is
filed under it; results, errors, notifications and deadlines racing; external
state swapped across nested activations; structures changed under a suspended
generator; for ipc, crashes between two system calls of a process that others share
a queue with; co-expressions that activate each other in a circle, end, or fail while
a variable of theirs is on its way; for compiled code, generators suspended inside
every control structure, resumed after others have used the same slots, and control
that leaves through several structures, scans and marks at once; classes that use each
other while they are being initialized.

## 2. Modules

| module | models |
|---|---|
| `Scheduler` | `Scheduler` and `Task`, with co-expressions as far as they need them |
| `TaskLife` | what the scheduler promises (abstract) |
| `SchedulerProofs` | theorems about `Scheduler` |
| `MsgQueueProofs`, `MsgQueueRefinement` | theorems about `MsgQueue` |
| `ListBlocksProofs` | theorems about `ListBlocks` |
| `HashTableProofs` | theorems about `HashTable` |
| `Recursion` | induction over the natural numbers and functions defined by recursion, for the proofs |
| `HashTable` | sets and tables, and a generator over one |
| `ListBlocks` | lists, and a generator over one |
| `AbsList` | what a list promises (abstract) |
| `MsgQueue` | `ipc.Msg`: processes that share a message queue |
| `AbsChannel` | what `ipc.Msg` promises (abstract) |
| `Inheritance` | how the linker orders superclasses and chooses fields |
| `ClassInit` | the initialization of classes on first use |
| `ClassInitProofs` | theorems about `Inheritance` and `ClassInit` |
| `Coexpressions` | co-expressions and the transfers between them |
| `Storage` | regions, allocation and the garbage collector |
| `AbsHeap` | what storage promises (abstract) |
| `CoexpressionsProofs` | theorems about `Coexpressions` |
| `IconOps` | values, variables and what each operator does to the world |
| `IrGen` | the code generator: from a tree to chunks of code |
| `IrFold` | constant folding: from a tree to a simpler one |
| `IrOpt` | the optimiser of the code |
| `IrMachine` | the interpreter, running the code |
| `IconEval` | what an expression means, without any of these (the reference) |
| `MC*` | instances for TLC |

### Scheduler

State follows the code's members by name: `state`, `old_state`, `time_from`,
`time_until`, `coex` of a task; `scoex` is the member `coex` of the scheduler,
`curr_task` and `poll_timeout` are its own. `flags[t]` says which of
`interrupt_why`, `notify_flag`, `poll_err` and `poll_res` are not null. The
three bags are `bag`: `Bag1` is a set and `Bag2` finds a task by `time_until`, so
an entry is a pair of task and the deadline it was filed under; removing an
entry under another deadline removes nothing, as a failed `bsearch` would.
`run_t`, `run_sc`, `run_st` are the locals of each unfinished `run()`, by the
co-expression it waits in. `env` and `saved` are the external state and what the
xstate of a task holds of it, identified by whose values they are.

A step is the code from one point where anything else can matter to the next.
`WorkRun(t)` is `run(t)` up to the transfer; `Sleep`, `Poll`, `Yield`, `Revert` are
the rest of these methods, the transfer back and the end of the `run()` waiting
there (`Leave`). `WorkWake`, `WorkNothing`, `WorkPoll...` are the rounds of the
loop in `work()`. `DescStream.poll` is external: it times out, gives a result for
any non-empty set of pollers, or fails, which includes a wait cut short by a
signal. `calc_sleep`, the poll and reading the clock afterwards are one step: the
clock moves inside it. `Start` to `ChangeTimeFromNow` are calls by whatever
runs, guarded as the code guards them by `\coex`; calls that change nothing (start
of a task that is started, ...) are stutters.

Left out: a task whose co-expression falls off its end instead of `revert()` (the
code forbids it and stops the program), activators, a task with co-expressions of
its own, the `why` texts and poll results themselves.

`TaskLife` forgets bags, clocks and polls: tasks are dormant, ready, waiting or
active, and active ones form a stack.

### HashTable

`hdir`, `mask`, `size` are the header's; a chain is a sequence of elements and an
element is the block one insertion allocates, with the hash number of its key, so
two elements with one hash number are different keys. `gen` is `struct hgstate`
(`slot` numbers the slots through all segments; `tmask`, `sgmask`, `sghash` as in the
code) with the element last given. A deleted element keeps its link (`clink`), which
the generator may follow. `Insert`, `Delete`, `Clear`, `Copy`, `GenFirst`, `GenNext`
are the operations; growth is part of `Insert` and may fail for want of memory,
shrinking is part of `Copy`, the only place where the code allows it.

Left out: keys as such, table values, `oset.r`'s set operators (they are loops of
these operations). The two halves of the log2 table in `hchain`, which serve more
than 32 segments' worth of slots, are one function here. `HSlots` may not be 1:
`sgmask` uses 0 for "was there from the start", which would also be the mask of
one slot. The shipped values are powers of two above 1.

### ListBlocks

`blk` maps the element blocks there is memory for to their fields (`nslots`,
`first`, `nused`, `lslots`, `listnext`, `listprev`); the header's `listhead`, `listtail`
and `size` are variables. All that matters of `changecount` is whether it still
equals the generator's copy: `changed`. When it does not, the generator's block is
not looked at again by the code and is not kept here. `Tries` are the sizes that
`push` and `put` try in turn when memory is short. `Assign` is assignment through the
variable that `get_element` yields. Backward generation (`lgprev`) exists for
`oref.r`'s use of it.

`cplist` (sections; copies and sorts take the whole list) and `lconcat` make a new list,
with which the program goes on: the one before it is forgotten, and no generator is on it.
`EmptyConcat` allows the concatenation of two empty lists, whose block has no slots; `IsList`
needs it to be FALSE, see section 5.

Left out: variables that outlive a change.

`AbsList` is a sequence and a place in it: an index going forward, the distance
from the end going backward.

### MsgQueue

One queue and the processes that use it, from its creation to its removal. `made`
says which ids are stored in the header segment (`msg_top`) and `gone` which parts
were removed; `queue` is the system's queue of packets, `sem` and `undo` are the two
semaphores and what the kernel will add to them when a process ends (SEM_UNDO). `pc`
gives the system call a process is at, `obj` and `done` are its locals, `table` what
it has in the resource table. A step is one system call, so a process may be killed
between any two. `aborted` leads to `exit` (`ffatalerr`, `c_exit`), which cleans up in
the process that created a private queue (`cleanup`) and in no other.

The kernel is external: a full queue makes the sender wait, an empty one the
receiver; receiving a block as a header fails for its length and leaves it, receiving
a header as a block succeeds; calls on what was removed fail. A packet names the
object and the number of the block in it; the code itself only goes by `Size`. `closed`
and `broken` are history: somebody removed the queue, a process ended in the middle of
a message.

Left out: `Shm` and `Sem`, creation that fails for want of resources, a key used again
after `close()`, ids of other queues (an id not stored yet is 0, taken to be none), the
mapping of the header segment into each process, `poll(t)` (a loop of attempts).

`AbsChannel` is a queue of whole messages: put, taken, delivered to who took it.

### Co-expressions

`activator`, `label` (`failure_label`) and `tvalloc` are members of `struct b_coexpr`;
`at` is where its program counter stands, by what it is doing there (`start`, waiting
for a `result`, at its end, ...). A procedure frame counts by which set of local
variables it has, so that `Refresh` and `Cocopy` share locals or copy them as the code
does, and a variable that is transmitted is known by the set it belongs to. An action is
one instruction or function that transfers control, with everything `do_activate`,
`coact`, `do_coret`, `err_msg` and the others do before and after `switch_to` or
`fail_to`. `status` is "crash" when the code would follow a null label or put a value into
a frame that is gone. `erred`, `orderly` and `result` are history.

What a co-expression does between transfers is free: it may call, return, create, make
an error, in any order. Left out: event monitoring (`get_event`, `set_curpstate`), tracing,
what a loaded program does once it runs.

### Code generation

A program is a tree of `Node`s. There are two ways from it to what it does.
`IconEval!Meaning` evaluates the tree by handing each result to a continuation, and asks
for the next one when that fails. The other is the source's: perhaps `Fold` (`IrFold`),
then `Generate` (`IrGen`), perhaps `Optimize` (`IrOpt`), then one instruction after another
(`IrMachine`). They share `IconOps`, what an operator does once its operands are there, so
what is compared is control: what is evaluated, resumed and left, in which order, and
which slots and frames that goes through. The observable world is the variables, the
scanning environments, and a log of calls, of what is written and suspended, and of the
environment the caller then has.

`Init` of `IrMachine` chooses a program and a mode (as generated; optimised; optimised with
chunks taken to be adjacent; the same from the folded tree) and compiles it; each
`Do...` action is an instruction of `interp()`. Frames carry a serial number and slots the
allocation that wrote them. The code looks at neither: they serve `NoLostFrame` and
`NoStaleSlot`, and an instruction that would use a lost frame or a stale slot is not taken.

What differs from the source:

* A chunk is named by the place of its expression and its role, not numbered. A binary
  tree of `|` is one node, as it is compiled in one go. Marks are named, then
  renamed by the optimiser only where it does so.
* The optimiser moves chunks next to each other. The two modes take no, and every, chunk
  to be followed directly by the one it jumps to, where the peephole looks across the
  border; the code is somewhere between.
* Table-driven case (`use_tcase`) is used where `is_repeatable` allows it, on folded trees, as
  folding decides it. The table is filled by the first to come, through `EnterInit`.
* Integers have `MaxWord` for the largest word: what exceeds it is left to run time, where
  it is an integer of any size. Characters are digits and a minus sign.
* `Uop_Suspend` without an expression gives its resume chunk the chunk number of `failure`
  as the number of a label slot (`ir.c:1908`, `ir_igoto` for `ir_goto`). This is kept:
  `StraySlots` finds it, where the chunk is not dropped: see section 5.
* `tmp_foldable` (`ir.c:4297`) does not fold a global that is only readable outside its
  package. Such globals, which are also moved to a temporary where they are operands
  (`get_var`), are not modelled: globals here are procedures, or variables the program may assign.

Left out of folding: reals, ucs, powers and complement, fields and static constants
(`fold_field`, `visit_init...`), keywords other than `&fail`, `&no` and `&digits`,
`tidy_lists`. Left out of code generation: `create` and
activation, fields, `link`, initial clauses, `&features`, errors.

### Inheritance and ClassInit

A program is a record: the superclasses each class names, its package and flags, the field it
has of one name, whether it has an init method. `Inheritance` computes, as operators
named for the functions of `resolve.c`, the order in which a class implements its
superclasses (`linearize_c3`; the cache and the `seen` flag become a path), the class whose
field of that name it gets, and the errors on the way (`merge`, `check_overrides`); fields of
different names do not meet in the code. `OrderExact` and `FieldsSound` say what
that should give, without the algorithm.

`ClassInit` runs a program that links. `stack` holds the frames of each co-expression:
code of a method (or of the main program), and `ensure_class_initialized_impl` (invokeiasm.in)
at work on a class, with the next superclass to look at. Code may use any class, return,
or activate another co-expression, which is how it may never come back. A use of an
`Uninitialized` class adds a frame that initializes it and is then repeated
(`initialize_class_and_repeat`), or, for a constructor, goes on: the same here.
Unqualified use of a class's own statics is no use in this sense; the code does not
check it.

Left out: objects and their states, `check_access` and inline caches, `const` fields, errors
(which end the program, or a co-expression: it never comes back), calls of procedures.

### Storage

`h` is the run-time system's memory: `mem`, words by address (a descriptor is one cell);
`chars`, the string regions; `region`, base, free and end of each region, oldest first, and `cur`,
the one allocated from; `frame` and `refcnt`, the frames and their shared variables, which
`malloc` gives. The mark phase is translated as it is: `markptr` reverses a pointer into a
chain that begins in the title of the block it points to, `adjust` follows each chain,
`compact` moves blocks and frees stacks, `unmark_region` takes marks off in the other
regions; `scollect` sorts the qualifiers and moves clumps. What stands
for the kinds of block is one for each shape the tables of `rmemmgt.r` tell apart: with its size
in it, descriptors to the end (an object), a fixed number of pointers (a method
pointer), and the two that `markptr` treats by themselves. `reserve` is translated with all its
attempts; `malloc` may give any of the sizes `newregion` asks for, or none. In the smallest
instance `size / 100 * memcushion` would be 0, so the model multiplies first.

An operation of the program is a step, with the collection it may cause inside: the
run-time system has one thread. `Enter` and `Leave` are a C function's frame, whose argument
is the only root of a value while it allocates. `check_stack_usage` may collect at any allocation
of a co-expression, `collect()` at any time.

`seen` is what a program can see, computed from `h` by following its roots; it is a variable
only so that TLC computes it once per state. `AbsHeap` is a heap of objects with identities, where
memory does not exist. `Collected` is the only trace of a collection there: dead weak references
are null and dead stacks given back. That each step of the program does to `seen` what it does to
that heap, possibly after such a collection, is `ImplementsHeap`.

Left out: `dealcblk`, `dealcstr`, `Alc2Blks`, registered global descriptors, loaded programs,
collections by timer or event.

### Mistakes

Definitions marked "Mistake:" are not part of any specification. Each stands before
the definition it distorts and shows one way in which the code could have been
wrong that the properties tell apart; `PROJECT.json` ("mutants") names the
property each breaks.

## 3. Runs

| run | instance | distinct states | shows |
|---|---|---|---|
| `scheduler_safety` | 2 tasks, one with an xstate, delays {1}, poll timeouts {0, 2}, clock to 2 | 2.1 million | all invariants, `NoOversleep`, the refinement of `TaskLife` |
| `scheduler_liveness` | 2 tasks, clock to 1 | 213 thousand | `ReadyRuns`, `SleeperResumes`, `PollerResumes` |
| `hash_table` | 2 slots, 3 segments, 4 insertions, hash numbers {0, 2, 3, 4} | 804 thousand | lookup, growth and generator |
| `list_blocks` | 3 blocks, size up to 3, smallest block 1 | 44 thousand | chain, index, generator, refinement of `AbsList` |
| `list_empty_concat` | the same, and `[] \|\|\| []` | | `FoundAtEnds` is violated |
| `msg_queue` | 3 processes, objects of 1 and 2 blocks, room for 2 packets, 3 sends, 1 signal | 1.2 million | semaphores, framing, errors, refinement of `AbsChannel` |
| `msg_transfer` | 2 processes, objects of exactly 1 block and of 2, room for 1 packet, 3 sends | 37 thousand | `TransferCompletes` |
| `msg_attempt_ends` | 2 processes, 1 send | | `AttemptEnds` is violated |
| `coexpressions` | 3 co-expressions, 2 frames each, 2 sets of locals | 257 thousand | every transfer arrives; errors, activators, scope, `Lineage` |
| `storage` | 16 words for blocks, 3 characters, 2 regions each, 4 allocations in 6 operations | 71 thousand | the heap is implemented, whatever moves |
| `ir_codegen` | 1104 programs, as generated, optimised in two ways and, where that changes them, folded | 194 thousand | compiled code agrees with the meaning; folding, slots, frames; which programs the translator stops at |
| `classes` | 5 classes ordered, fields in 3 and 4, 3 uses in 3 classes from 2 co-expressions | 1.4 million | the linker's decisions, initialization in order and once |

Why the bounds are enough. Two tasks nest two deep, and every pair of calls on one
task by the other, in every order, occurs; one with and one without an xstate makes
the swaps asymmetric. Clock 2 and delay 1 give deadlines in the past, present and
future, equal and different ones, and a poll timeout (2) above a deadline as well as
none (0). In the table, segments 0, 1, 2 give two splits, so a generator can miss
one and see both at once; 0 and 4 share a slot until the second split and 2 joins
them before the first, 3 is alone, and equal hash numbers occur because an
insertion may repeat one. The load factor 0 makes every insertion a candidate for
growth, which may also fail. In the list, blocks of 1, 2 and more slots fill, wrap,
empty and are replaced, with a block between two others. The list instance with
`MaxSize = 4` (583 thousand states, 5 minutes) passes too.

Three processes are two senders and a receiver, two receivers and a sender, or two
and one that closes, exits or is killed; three sends put a message behind one that is
half received and another half sent; room for fewer packets than a message has makes
senders wait in the middle. One signal at any step, and any number of exits and
failures, give the deaths.

Three co-expressions are a caller, a called one and a third that takes over the one or
the other: the shortest circle that leaves `&main` out, an activator named that is not
the one that would be remembered, an error while two wait. Two frames are one that
waits for the value and one that returned in between; two sets of locals tell own
variables from another's.

The 1104 programs of `ir_codegen` are 37 control structures and operations each holding
half of 36 expressions, in one statement or another (`every`, loops with `suspend`, scans,
an early return); each structure four times holding another that holds an expression;
30 programs of operations on literals around every boundary (signs, equality, numerals,
the largest word, positions at and past the ends); 68 structures and operations with an
operand that fails, before and after one that has an effect, each in three statements;
13 cases, with and without a default, with selectors that generate, repeat, fail, or may
not be kept in a table, each in three statements that choose again and again; 7 with
selections that select none of their operands; 3 with a bare `suspend` that is not bounded; and 7 of the
three kinds that the translator does not make sense of (section 5). Three
levels of nesting are where slots, marks and scans of one expression meet those of
the expression around it and of the next beside it; programs that write every result show each
generator resumed after every other. `MaxSteps` (1000) is never reached. `MaxWord` is 99.

The hierarchies of `classes` are all of five classes in which each names at most two before
it, and for errors those of four with a third or repeated superclass or a circle. Conflicts
of order need three classes, or four for two superclasses that disagree, and five let a
choice made freely in one be in the way in another. A final, private, package, abstract or
overriding method meets each kind of field above it, in a chain and in a join, the packages equal,
different, or lang; diamonds show that a method may be inherited twice.
Three uses are one that initializes a class and two from within its init methods, in every hierarchy
of three classes and with any init methods; the second co-expression comes upon classes
that are half initialized.

In `storage`, the first region has room for the main co-expression and three
blocks: a fourth collects, and stays there or needs another region, which `malloc` gives, gives
smaller or refuses. Six operations are what it takes to have garbage before a
block that a weak reference leads to, or a co-expression's stack in a region that is not the collected
one; every branch of `reserve` and of the collector is taken.

Deadlock is checked for the scheduler, tables and lists, which go on for ever. The
processes of a message queue may all end, or wait for each other's messages, so there
it is not. A program, compiled, of co-expressions, of classes or of objects, ends.

Fairness (`FairSpec`). In `MsgQueue`, a process that began an operation goes on with
it (weak fairness): the operating system schedules it, and EINTR only repeats a call.
Nothing makes a process begin one. `AttemptEnds` fails under it: a process in
`receive()` on an empty queue holds the semaphore that `attempt()` waits for
(`ipc.r:689-692` and `747`), while the comment of `attempt()` promises to fail if no
object is ready (`msg.icn:47-48`).

In `Scheduler`, code that runs goes on: a co-expression in its own code
sooner or later suspends itself or calls `work()` (weak fairness; the callers of
`work()` are event loops), the loop in `work()` takes its next step, the clock
moves. `work()` picks a ready task with `?ready.s`, at random: that a task which is
there to be picked again and again is picked is strong fairness, an assumption about
the random choice. `SleeperResumes` and `PollerResumes` state as premises what the
code does not guarantee: that `work()` again and again finds no ready task, and for
pollers no due sleeper. Without them both fail: a task that yields
each time it runs keeps `work()` from looking at sleepers (`scheduler.icn:625`),
which the comment of `sleep()` (`scheduler.icn:233-236`) does not say, and one that
sleeps for 0 ms each time keeps it from the pollers.

## 4. Proofs

`SchedulerProofs` proves, from the two assumptions in `Scheduler` on its constants
(an xstate belongs to a task; `Main` and `Null` are none of the other values; times
are natural numbers), for any set of tasks:

* `Invariant`: `Spec => []IInv`, where `IInv` is `TypeOK`, `BagsAgree`, `Nesting`,
  `StoppedOnce` and `WaitBegan`. None of the first four is inductive alone. That a
  removal finds its entry needs bags, states and deadlines to agree; that only an
  inactive task is filed, and that a stopped one is in no bag, is needed to move it;
  and that control comes back to the right place needs the whole shape of the chain
  of `run()` calls (`Frames`, `Actives`, `Innermost`, `Outer`). `WaitBegan` (a task
  that waits has a `time_from`) is what `change_time` relies on.
* `TypeCorrect`, `BagsCorrect`, `NestingCorrect`, `StoppedCorrect` follow.
* `AnswersCorrect`: `Spec => []OneAnswer`, by a second invariant, `AInv`, on top of
  the first: what a suspended task has been told, by where it waits.
* `NeverOversleeps`: `Spec => NoOversleep`, from `CalcSleepBound`, a lemma on the
  minimum that `calc_sleep` takes.
* `Refinement`: `Spec => TaskLife`, one lemma for each
  kind of step.
* `EnvCorrect`: `Spec => []EnvRestored`, for any depth of nesting, by `EInv`. Whose
  external state an active co-expression should see is a function that agrees with the chain
  of `run()` calls (`Owners`, a set of functions, as the chain has no bound to recurse to);
  `EInv` adds that the xstate of an active task holds what the co-expression waiting
  for it should see (`Held`), which `EnvRestored` does not say and each return needs.

Each action has a lemma that it keeps the invariant; `MoveAgrees` and `MoveType` are
about `set_state`, `LeaveNesting` about the end of `run()`, `NestingKept` and
`TasksUntouched` about the steps that leave the activations or the tasks alone.

`MsgQueueProofs` proves `SemaphoresCorrect`, `Spec => []SemaphoresBalanced`, for any
number of processes that end anywhere. `SemaphoresBalanced` is inductive once the
values of `sem`, `undo` and `pc` are typed and "taken" is stated per process (`BInv`).
A step either leaves the semaphores alone and keeps its process on the same side of
them (`Moved`), or ends it (`Ended`), takes a semaphore (`Taken`) or gives one back
(`GivenBack`); nothing is assumed of the constants.

The rest of `MsgQueueProofs` and `MsgQueueRefinement` build on it. They use `ParameterAssumption`:
room for a block and a packet, `None` and `Garbled` none of the other values, and that only one
object, the empty string, has no blocks. They prove, for any number of processes and
objects of any size, which end at any point:

* `Types`: `Spec => []TypeOK`, from `TInv`, which adds to `BInv` what the locals of a
  process are at each place (`Places`).
* `FramedCorrect`: `Spec => []Framed`, from `CInv` (only who closes removes anything) and
  `JInv`. `Framed` speaks of the stream as a whole, from what the receiver has taken to what
  the sender has yet to put; inductive is how its parts meet: what the receiver has last taken, the packets in the queue
  and what the sender has last put follow each other as header and blocks of one object
  after the other (`Linked`, `AtFront`, `AtBack`). That there is one sender and one receiver
  comes from the semaphores. Two objects without blocks could be told apart by nothing
  that is in the queue, hence the assumption.
* `NoSpuriousAbortCorrect`: `Spec => NoSpuriousAbort`: a process aborts only when the queue
  was closed, a process ended in the middle of a message, or the queue was used before its
  creator had stored all ids.
* `Refinement`: `Spec => ImplementsChannel`, one lemma for each step of `AbsChannel` that a
  system call can be. Once a process has ended in the middle (`broken`), every step is
  allowed to lose or garble, as the abstract specification says; that it stays broken
  is `StaysBroken`.

`CoexpressionsProofs` proves, from the one assumption on the limits in `Coexpressions`:

* `TypesTheorem`: `Spec => []TypeOK`.
* `ActivatorReadyTheorem` and `ErrorIsFinalTheorem`, from `IInv`: `Typed` (the types that
  matter), `ActivatorReady`, `Stopped` (one in error would go on at the fatal error, whether
  a value or failure comes to it) and `Framed` (the current one, and every one that
  failure can come to, has a procedure frame). `ActivatorReady` is inductive only in its second half,
  that an activator has been activated itself, which `coact` and `cofail` test for.
* `NeverCrashesTheorem`, when no program has been loaded, from `Alive` on top of it: each
  co-expression has a frame, and one that is not running has a place to go on at for
  values and failure, and a slot in a frame that is in use. With a loaded program it is false (see section 5).
* `ResultInScopeTheorem`, from `Scoped`: a slot that waits for a value has the locals of
  its co-expression's newest frame.
* `LineageTheorem`: `Spec => []Lineage`, that activators lead back to the program's first
  co-expression. Inductive is that there is a path without repetition (`Path`) from the one
  that runs to `&main`, of those that wait for a result: an activation puts a co-expression
  in front (`PathLonger`), a return or failure takes the first off (`PathShorter`). `Chain`,
  which the property speaks of and which takes `MaxCoexprs` steps, is that path, because a
  path without repetition is no longer than that (`DistinctBound`).

`ListBlocksProofs` proves, when no two empty lists are concatenated (`~EmptyConcat`; the
run `list_empty_concat` shows that `FoundAtEnds` needs this), from `ListAssumption`: the
smallest block has a slot and is shorter than the longest list, there is memory for some
block at all, and `Null` and the header are none of the other values.

* `Invariant`: `Spec => []IInv`. `IInv` says that there is a sequence which the list holds
  (`Holding`): each block in use has a rank of its own, between those of `listhead`
  and `listtail`, that grows by one along `listnext` and falls by one along `listprev`
  (`Linked`); and an offset, the number of elements before it (`Offsets`); the elements of a block are those of the
  sequence from its offset on, around its ring (`Filled`); a block that is neither the
  first nor the last has some (`Inner`); and a generator whose list did not change has its
  block where its offset says (`Seen`). The chain property alone is not inductive: unlinking
  an empty block needs both its links, `get` needs to know that a block which is not at an
  end is not empty, and the generator that its block is still the one of its index.
* `TypesTheorem`, `ChainedTheorem`, `IndexedTheorem`, `AgreesTheorem`, `FoundTheorem` and, for
  the abstract specification `AbsList`, `Refinement`: `Spec => IsList`. The loops of the code
  that walk along the links are recursive functions (`Forwards`, `Backwards`, `NextUsed`,
  `PrevUsed`, `Slots`); where each stops, as `ForwardsFinds` and its like say, is shown by
  induction over ranks. So is that the `Contents` which `IsList` computes from the blocks are
  the `q` of `Holding` (`RestIs`).

TLC cannot evaluate `IInv`, whose ranks and offsets are functions of any kind, but it
checks its consequences on the run `list_blocks`: `Chained`, `Indexed`, `GeneratorAgrees` and
the refinement.

`HashTableProofs` proves, from `ParameterAssumption` alone (`HSlots` a power of 2 above 1,
natural numbers for the rest), for any number of segments, elements and hash numbers and any
limits of the load:

* `LookupCorrect`: `Spec => []LookupExact`, from `TableInv`: the chain of each slot lists the
  live elements whose hash numbers have its number as remainder (`Slotted`), in order of hash
  number and then of allocation (`Prec`), each once (`Lists`). Order by hash number, which is
  what the code keeps, is not enough: that a generator passes no element needs a strict order, and
  elements of one hash number are in the order in which they were allocated because `memb` stops behind them.
  `GrownTable` shows that a split leaves every element in the one of two slots where its next
  bit puts it, `MergedTable` that a merge interleaves two ordered chains; they rest on lemmas about
  remainders (`ModMod`, `ModDouble`) and segments (`SegmentOf`, `Address`: masking a hash
  number and looking up its logarithm finds the segment and the slot of the remainder).
  That `size` counts the links is a bijection between the live elements and the places in chains (`LinksCounted`).
* `GeneratesAllCorrect` and `GeneratesOnceCorrect`, from `GenInv` on top of it. Neither is
  inductive: what a generator will give is decided by its notes of splits and the links of
  deleted elements. `GenInv` says which elements it has come by (`Passed`): those that the notes
  `sgmask` and `sghash` call done (`Done`), and of the others those before its slot, or up to
  its element in it, as slots were counted when it last saw a split (level `k`). It came by all it
  generated, and generated the stable ones it came by. `History` says that the notes of
  neighbouring segments agree as far as one split covers them; from it follows that `hgnext`, which
  looks at the notes of the segments up to its slot's own only (`Enter`), skips exactly
  the elements that are done (`NotesOfSlot`, `EnterIs`). `Linked` says of the deleted elements
  between the generator and its slot's next live element that their links skip no stable one.
  `Advances` is what a call of `hgnext` owes, and `LinkAdvances`, `SlotLeft` and `SplitAdvances`
  show it in each of the cases of the code.
* `TypeCorrect`: `Spec => []TypeOK`.

TLC checked `GenInv` with 3 and 4 segments before it was proved.

`ClassInitProofs` proves, for any finite set of classes, any programs of them and any
co-expressions, from `ClassAssumption` (`None` and `Failed` are no classes) and
`ProgramAssumption`, which only says what a program is made of (its superclasses and init
methods are among its classes, and whether a field is static or a method is yes or no):

* `ResolvedSoundlyCorrect`: `Spec => []ResolvedSoundly`, in two parts.
  `OrdersExact` says of every program that `Linearize` gives a class an order if there is one
  that keeps the orders of its superclasses, and fails if there is none. What `merge_c3`
  returns without failing has the members of its lists, once, in the order of each (`MergeMerges`);
  and it does not fail if there is any way to order them (`MergeComplete`: of the classes left,
  the one that comes first in it is in no tail), both by induction on what is left to merge. An order
  that does not fail is the same whatever the path to its class was, and has no class of that path
  (`PathIrrelevant`): this is what makes the code's cache and its `seen` flags right. So the orders
  satisfy the equation between a class and its superclasses that one expects
  (`OrderedExactly`, `CleanOrder`), and what it preserves holds of all classes with an order
  (`HierarchyInduction`), as that the classes within `Cardinality(Class)` steps above one are those of its order
  (`AboveOrder`) and that an order follows those of all its classes (`OrderFollows`).
  From the last, and because the linker compares the first field of a name with each later one,
  `FieldSound`.
* `InitializedOnceCorrect`: `Spec => []InitializedOnce`, from the invariant `Initializes`:
  a frame that initializes a class is the only one to do so (`OneEnsures`, `SomeEnsures`); the
  superclasses before the one it looks at are not `Uninitialized`, and the init method was invoked
  if and only if it is at its last step (`EnsureSound`); an `Initialized` class had all that
  (`ClassSound`); and code runs only in classes of the order of one that was used (`CodeSound`).
  None of this is in `InitializedOnce`, which is not inductive: that the init method has not run yet
  depends on how far the frame is. `StackStep` shows once what replacing the newest frame keeps,
  and each action has a lemma that it is such a step. That an `Uninitialized` class in which code runs
  is above one that is `Initializing` is then an induction along the hierarchy (`Ancestor`).

Before it was proved, TLC checked `Initializes` on 1.2 million states of the programs of the run
`classes` (all up to a depth of 16).

`Recursion` is what these proofs need in place of the library's induction theorems, which
take an operator as a parameter: finite sets are well founded under inclusion, so every
nonempty set of natural numbers has a least element (`LeastElement`), so a set that has 0 and
with each number the next has all (`NatInductionSet`), and functions can be defined by
recursion (`RecursionExists`; `RankedExists` for recursion along a rank, as that of `merge_c3`
on what is left to merge).

Only model-checked:

* Liveness of `Scheduler` and `MsgQueue`, which needs fairness and `ENABLED`: beyond this
  prover.
* Everything about compiled code (the properties of `IrMachine`), and `Storage`: trees and reachable blocks are walked by
  recursive operators, and what they compute for every tree is an induction over data.
* `NeverCrashes` with a loaded program is false (section 5), lists made of nothing are
  outside the premise of the theorems about lists, and both are left to the runs.

## 5. What was found, what is not modelled, and the plan

Two runs end in a violation, each of something the source says of itself. They are
described under "findings" in `PROJECT.json`: lists made of nothing, whose first block has no
slots; and an `attempt()` that waits.

Three kinds of program are accepted by the parser and not by the rest of the translator. They are
among the programs of `ir_codegen`, under a name (`SelectionPrograms`, `LimitPrograms`,
`SuspendPrograms` in `MCIr`), and `TranslatorAccepts` says that it goes wrong for exactly these
(except where folding has removed the cause), and for none of the others:

* `SelectionPrograms`: `N(e1, ..., en)` with an `N` that selects none of them, bounded, as the
  statement `3(write(1), write(2))`. The last argument's success goes to its resume chunk
  (`ir.c:2544`), which a bounded argument does not have, and the translator stops with "Optimize goto
  chain dead end" (`ir.c:4708`). As an argument, which is not bounded (`test/evalx.icn:84` has
  `image(0(1,2))`), or with a list as the last of its own, such a selection fails as it should:
  `SelectingPrograms`.
* `LimitPrograms`: a limit that can never succeed over a generator, as in
  `(gen() \ (gen() & &fail)) | 4`. The chunk that holds the limit's mark is unreachable, the one that
  cuts back to it is reachable through the label of the alternation. `mark_check` "also check[s] for
  errors: duplicate marks and orphaned unmarks" (`ir.c:4201`) and stops the translator
  ("Orphaned unmark instruction detected", `ir.c:4268`). Folding drops the limit first.
* `SuspendPrograms`: a `suspend` without an expression in a branch of `|`, `if ... else` or `case` whose
  next result may be wanted, as `write(if x then suspend else 1)`. Its resume chunk stays in the code
  with a chunk number for a label slot (`ir.c:1908`). Nothing executes it, but `renumber_lab`
  (`ir.c:4822`) looks the number up in a table with an entry for each label slot only (`ir.c:4870`).
  Where no label leads to the chunk it is dropped: `SuspendingPrograms`.

Met while modelling, and not given runs of their own:

* With `Loaded = TRUE` in `MCCoexpressions.cfg`, TLC finds `NeverCrashes` violated.
  "As in all activations, the target must have a user pframe, which it will have unless it's a
  freshly loaded (or exited) prog" (`interp.r:650-654`); but `coact_handler` (`interp.r:791-814`)
  tests only that `&handler` has an activator (805), which the co-expression of a loaded program has
  from the start: itself (`init.r:863`). Its `failure_label` is null (`init.r:941`), `fail_to` sets
  `ipc` to it, and the interpreter reads through it. `coact` and `cofail` accept it as the
  activator given (671, 744) in the same way.

* A class `D(A, B)` is marked `Initializing` before its superclasses are looked at. If the init
  method of `A` uses a method that `D` has from `B`, that runs while `B` is still
  `Uninitialized`, with its statics unset, and `lang.Class.create_instance` there stops
  with "In method of Uninitialized class" (`invoke.r:1261`). `InitializedOnce` says that this
  is the only way: some class derived from `B` is being initialized.
* A task that always yields keeps sleeping tasks asleep (see Fairness).
* `is_repeatable` (`optimize.c:1140`) takes `=e` to be repeatable, although it depends on
  `&subject` and `&pos` and moves `&pos`: a case with a selector `="a"` tries it only when it is
  first entered, at the subject and position of then. The only such selector in the
  programs is in a scan of a literal of its own.
* `changes()` for `suspend ... do` looks at the node instead of at its parent.

Not modelled, and why:

* The lexer, the parser and the layout of the code (`lcode.c`) turn text into trees and
  chunks into bytes: long, sequential, without a state that outlives a step. The same
  holds for rtt, whose subject is C, and for most of the library.
* Graphics, native bindings, sockets and files: wrapping of system calls, whose
  behaviour would have to be invented here.
* Large integers, strings, csets, conversions: pure functions; only what constant
  folding and the programs of `ir_codegen` need of them is in `IconOps`.

Plan, in order of what the system depends on most:

1. Objects in `ClassInit`: their states, `check_access`, `const` fields, errors in init methods.
2. `Shm` (ipc), next to `MsgQueue`: a variable whose data segment is replaced, with
   crashes in between, against a register; public creation.
3. `BufferStream` against a file with one position; `UndoManager` against a document
   history.
4. `Dispatcher` composed with `Scheduler` (its polling task), and `Scheduler` with
   `Coexpressions`, for the end of a task's body.
5. `create` and activation in the generated code, where `IrMachine` would meet `Coexpressions`.
6. `hchain` at the shipped sizes: that the halves of the table agree with the
   logarithm, over all slot numbers of a small number of segments.
