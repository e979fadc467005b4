# A verification of riscv32-core

The repository holds an RV32IMA emulator, two small kernels that run on it and a
bare-metal example.  The larger kernel, under `src/xinu/system`, is a port of Xinu with
processes, priorities, counting semaphores, one-message mailboxes, a delta list of
sleepers and a clock interrupt; the smaller, `src/kernel/main.c`, switches between
tasks that never give up the processor.  This project models both kernels, the hart
they run on and the parts of the C library with an algorithm of their own in TLA+,
checks them with TLC, and proves their central invariants with TLAPS for every size.

Run a check with `tlc -config <run>.cfg <module>` (the table under *Runs*) and the
proofs with `tlapm` on `ListLemmas.tla` and each `...Proofs.tla`; `SchedulerProofs`,
`AloneProofs` and `LibraryProofs` take several minutes each.

## The system's parts

| Part | Source | State | Operations |
| --- | --- | --- | --- |
| Scheduler and process table | `create.c`, `process.h` | `proctab`, `currpid`, `prcount`, `nextpid`, `readylist`, `preempt` | `create`, `kill`, `suspend`, `resume`, `chprio`, `yield`, `ready`, `resched`, `unsleep` |
| Semaphores | `semcreate.c`, `signal.c`, `wait` in `create.c` | `semtab`, `nextsem` | `semcreate`, `semdelete`, `semreset`, `wait`, `signal`, `signaln` |
| Messages | `message.c` | `prmsg`, `prhasmsg` of each entry | `send`, `receive`, `recvclr`, `recvtime` |
| Clock and sleep | `clkhandler.c`, `clkinit.c`, `sleepms`, `wakeup` and `insertd` | `sleepq`, `preempt`, `clktime` | the tick, `sleepms`, `wakeup` |
| Queue table | `queue.c`, `queue.h` | `queuetab`, `nextqid` | `enqueue`, `dequeue`, `getitem`, `insert`, `insertd`, `newqueue` |
| Free memory list | `meminit.c`, `memory.h`, `lib/malloc.c` | `memlist` and the blocks it links | `getmem`, `getstk`, `freemem`, `malloc`, `free` |
| Boot | `boot.S`, `inicialize.c` | all of the above, once | `sysinit`, `nulluser` |
| Context switch and traps | `ctxsw.S`, `trap.c`, `intr.S`, `setupStack.c` | registers, `mstatus` | `ctxsw`, `disable`, `restore`, `setupStack`, `_trap`, `exceptionHandler` |
| Strings, numbers, sorting, formatted output | `lib/string.c`, `stdlib.c`, `qsort.c`, `doprnt.c` | memory of the caller, the static pointer of `strtok` | `str*`, `mem*`, `atoi`, `itoa`, `uitoa`, `qsort`, `_doprnt` |
| Cooperative kernel | `src/kernel/main.c`, `sys.S` | ten task contexts, `ctx_now` | `task_create`, `task_go`, `task_os`, `sys_switch`, the timer interrupt |
| Emulator | `src/mini-rv32ima` | hart registers, CSRs, timer, RAM | `MiniRV32IMAStep`, the CSR and device handlers, the host loop |
| Scanning, floating point, bare-metal example, compiler output | `doscan.c`, `fdoprnt.c`, `math*.c`, `src/baremetal`, lists and dumps | none the kernels read | |

How they interact.  Everything meets in `resched()` (`create.c:585-620`).  A call
that changes who should run ends in `ready(.., RESCHED_YES)` or `resched()`, which
swaps stacks inside `ctxsw` and returns only when the caller is dispatched again.
The clock handler runs between any two instructions of a process that has
interrupts enabled; system calls disable them, but for `receive()`, `ready()` and
`nulluser()`.  All process queues share the array `queuetab`, and one field
`qkey` of an entry is a priority while the process is ready and a delay while it
sleeps.  `kill` sends a message, so it reaches the messages, the sleep queue and
the scheduler in the middle of its work.

Below that, the hart calls nobody: it looks at its timer at the start of a step of at
most 1024 instructions and, if an interrupt is due, goes to `mtvec`.  In both kernels
the C handler puts the address of `clkhandler` over the saved pc, so `mret` enters
`clkhandler` as if the interrupted code had called it, with interrupts on again.  In
the cooperative kernel `clkhandler` then switches to the OS loop, which names the next
task in `ctx_now` and switches to it.

What is hard.  Calls that lose the processor halfway (`kill`, `semdelete`,
`semreset`, `receive`) and find the tables changed when they go on; the clock
between the steps of a call that leaves interrupts enabled; entries and stacks
reused under old references; one list structure for four purposes; the delta
list, where each key depends on the one before; the boot sequence, which becomes
process 0 by accident of what `newpid` returns.  In the cooperative kernel, an
interrupt between any two instructions of a task, after which the interrupted function
is not gone on with but returned from; one variable, `ctx_now`, that decides into whose
record the registers go.  In the hart, a 64-bit timer kept and written in halves, one
level of saved interrupt state, and three fields in one word.  In the library,
boundaries: the least integer, overlapping blocks, delimiters in a row, equal keys in a
sort, widths that are negative or too long.

What makes each part correct.

- Scheduler: a process is on exactly the queue its state names; the running
  process is one of the highest priority; a slice ends; equals take turns.
- Semaphores: a negative count is the number of waiters; waiters leave in order;
  deletion releases all of them.
- Messages: none is lost or overwritten; a blocked receiver has none pending; a
  `receive` that returns has one (which the code does not keep: `early_return`).
- Clock: every key is the distance to the wakeup before; sleepers wake on time.
- Life cycle: `prcount` is the number of live processes; the system halts with the
  last; stacks have one owner.
- Memory: free blocks are ordered, apart and merged; what is allocated is not free.
- Queue table: links in both directions agree and spell one sequence.
- Context switch: a process that is switched back to finds its registers, stack and
  interrupt enable; a new one starts with its arguments and an address to return to.
- Cooperative kernel: contexts are saved where they belong and within their stacks, tasks
  take turns, none starts twice.
- Hart: the timer is 64-bit arithmetic, its interrupt comes, traps return to where they
  came, sleep ends, a store conditional compares with the last reservation.
- Library: each function agrees with a definition that does not know its loop.

## Modules

| Module | Models |
| --- | --- |
| `Lists` | a queue as a sequence that lists a set of pids; the place where `insert` puts a key |
| `ProcTable` | the constants, all variables, program counters, and the scheduler: `insert`, `dequeue`, `ready`, `resched`, `unsleep` |
| `Semaphores` | `semcreate.c`, `signal.c`, `wait` |
| `Messages` | `message.c` |
| `Clock` | `sleepms`, `insertd`, `clkhandler`, `wakeup` |
| `Lifecycle` | `create`, `kill`, `suspend`, `resume`, `chprio`, `yield`, and the boot thread's creation of the first process |
| `Kernel` | their composition: `Init`, `Next`, `Spec`, `FairSpec`, and the properties |
| `MCKernel` | workloads (which calls the processes make) and the state view, for TLC |
| `QueueLinks` | `queue.c`: the one array of links and keys behind all queues |
| `Queues` | what the queue table promises: one sequence for each queue |
| `Memory` | `meminit.c`, the macros of `memory.h`, and `malloc` and `free` on top |
| `Heap` | what the allocator promises: free words and disjoint intervals in use |
| `MCQueueLinks` | a ready list, a sleep queue and a semaphore's queue, for TLC |
| `Context` | `setupStack`, `ctxsw`, `disable` and `restore`, the trap frame of a timer interrupt |
| `Strings` | `string.c` over a memory of bytes, `strtok` with its state between calls |
| `Numbers` | `atoi`, `atol`, `itoa`, `uitoa` and the absolute values, in words of a given width |
| `Sort` | `qsort.c`, one comparison a step |
| `Format` | `_doprnt` and its conversions, one directive a step |
| `MCAlone` | the modules above from `QueueLinks` on, one at a time, for TLC |
| `Machine` | the hart and the host loop: timer, traps, interrupts, `wfi`, reservations, devices, restart |
| `MCMachine` | six images for it, for TLC |
| `RoundRobin` | the cooperative kernel over the timer interrupt |
| `CyclicTurns` | what it promises: the turn goes round until the game is over |
| `ListLemmas` | facts about `Lists`, least numbers, and recursion and induction over numbers, proved |
| `KernelProofs` | types, queues and states of `Kernel`, proved |
| `SchedulerProofs` | order of the ready list, highest priority, state diagram, delta list, proved |
| `TableProofs` | messages, order and count of waiters, live processes, stacks, proved |
| `AloneProofs` | `Memory` and that it implements `Heap`, `Context`, the links of `QueueLinks` and that they implement `Queues`, proved |
| `LibraryProofs` | `Sort`, `Strings`, `Numbers` and `Format`, proved |
| `RoundRobinProofs` | `RoundRobin` and its refinement, proved |
| `MachineProofs` | `Machine`, proved |

### How the state corresponds

The fields of `proctab` and `semtab` are functions of that name (`prstate`, `scount`,
...).  `readylist`, `sleepq` and `squeue[s]` are sequences of pids; `qkey` is the key
field of `queuetab`, one for each process, shared by the ready list and the sleep
queue as in the code.  `stkfree` is the set of free stacks, all of one size.
`preempt` is the tick counter of the slice.

`pc[p]` is where process `p` goes on when it is current: in user code, or at a
point inside a call.  A point has a label and the two locals that the rest of the
call needs.  A call that runs from entry to exit with interrupts disabled and
reschedules at most once, as its last effect, is one action; a call that goes on
after a reschedule, or that has interrupts enabled, is split at each such place
and no other (but for the boot thread, see below), except that loops (`signaln`,
`semdelete`, `semreset`, `insertd`, `wakeup`) take one iteration a step.  Those extra steps cannot be observed: the
process stays current with interrupts disabled.  `IntrOn` and `IntrOff` say at which
points the clock may interrupt.

`Tick` is the whole of the interrupt and of `clkhandler`, which runs in place of the saved
pc (`trap.c:65`) and returns to the `ra` of the interrupted code.  `GoesOnAt` says where that
is.  User code goes on as user code.  A tick in the body of `receive()` leaves it: what
is left of its lines is not executed, and its caller goes on, in `PR_RECV` if the state was
already set.  A tick at the entry of the `resched()` that `receive()` calls, before it
disables interrupts, comes back behind that call, at `message.c:21`.  `Receive`,
`ReceiveBlock`, `ReceiveResched` and `ReceiveTake` are its pieces.

`Resched` takes the process states, ready list, keys and counter that its caller
has written so far and is the whole of `resched()`: keep the processor if the
priority is strictly above the first key, or insert the caller by its priority if
it is still current, take the head, mark it current and refill the slice.
`resched_cntl` is never called in the code (each call is commented out), so its
deferral never holds and is not in the model.

The kernel modules take a queue to be a sequence and a stack to be a value.  Two
modules stand below them and show that the C code provides this.  `QueueLinks` has
the arrays `qnext`, `qprev` and `qkey`; `ListOf(q)` walks them, and under that mapping
it implements `Queues`, whose operations are those that `ProcTable` and `Clock` use:
append, insert behind equal keys, insert by delay, remove from anywhere.  `Memory`
has `memlist` as the sequence of blocks its links run through, with addresses and
lengths in words, and `held`, the pointers that callers have, so that a `free` gives
back what the macro or the header computes from the pointer.  It implements `Heap`.
`FreeAgain` is the second `freestk` of one stack, which `kill` can reach.

A call that returns `SYSERR` and changes nothing is not a step.  A failed `create`
is one (`CreateFail`): it has already taken a stack.

`Context` stands below `Kernel` too: a record is a function from words to values, code
addresses are labels, and every value a register can hold names its process and
register, so that a word in the wrong place is seen.  `Resched` is `resched()` from its
`disable` to the load of the next context, `ReschedReturn` the rest of it when the
process is switched back to.

`Machine` takes one instruction as a step.  `phase` says whether the host loop is between
two calls of `MiniRV32IMAStep` or inside one, `left` how many instructions it may still
run.  An instruction's operands and result are any values; its control effects (pc,
traps, CSRs, `extraflags`, `mem`) are the code's.  A write of `mstatus` puts any of four values in
MPP, which `mret` takes as the privilege; an address is any byte of RAM or beyond it, and
`lr.w`, `sc.w`, loads and stores take it as it is.  Of RAM the word at offset 0 is kept
(`data`): a store that overlaps it without covering it leaves any value there.  The loaded
image is the set of kinds of instruction it holds.  `resume` and `reserved` are history
variables.

`RoundRobin` keeps of a context what `sys_switch` keeps and a later step reads: return
address, the owner of the stack pointer, and the frame pointer as the function it belongs
to.  `stack[i]` is the list of frames whose saved registers a return will still read;
`depth[i]` is how many bytes the stack pointer has sunk from the top of `task_stack[i]`.
`Resumed` is the return from the handler into the interrupted function's caller: it takes
the frame of a `kputs` that was interrupted off `stack`, since no return will read it, and
leaves it in `depth`, since nobody pops it.  The sizes of the frames (`TaskFrame`,
`KputsFrame`, `HandlerFrames`, `TrapFrames`) are those of the image in the repository.  When
the frames of a trap would lie below the stack, the place is `overrun` and nothing follows:
what is written over then depends on the link.  `ran` and `created` are history variables.

In the library modules a function that only reads is an operator with the function's
name; one that writes gives the memory it leaves.  Loops that walk to the first place
with some property are one operator (`First`), and the properties compare with
definitions on sequences.

`due[p]` is a history variable: the ticks a sleeper still has to go, kept beside
the keys of the delta list so that properties can compare the two.

### What the model takes from outside

- The timer raises at most one interrupt before its handler returns: the handler
  re-arms it for a full period first (`clkhandler.c:13-17`), and the hart looks at
  the timer only every 1024 instructions, which is more than the handler takes.
- The first tick comes after `nulluser` is done: `clkinit` has set the timer to 65535, and
  the emulator counts one in 1024 instructions.  So the two `ready(create(...),
  RESCHED_YES)` of the boot thread, which run with interrupts enabled, are steps that
  nothing interrupts (`BootPoints`).
- No tick hits the first instruction of `disable()`, the `csrrci` itself.  The handler would
  return behind the call of `disable()` with interrupts enabled, and what follows would no
  longer be alone.
- A tick in user code goes on as user code.  What it leaves of the interrupted function
  is the user's affair; that frames of interrupted functions stay on the stack is
  modelled in `RoundRobin`, where a frame size is known, and not in `Kernel`.  A
  tick in a prologue or epilogue, where `ra` is on its way to or from the frame, counts as
  one at the place before or after it.
- The kernel modules take `ctxsw` to return to the caller of the process it switches to.
  `Context` says how far this holds: the registers and the interrupt enable do come back
  (`RegistersKept`, `MaskKept`), the pc does not (`old_thread`).  The kernel modules are of
  the C code above that layer.
- In `RoundRobin` no interrupt comes in the OS loop: `clkhandler` re-arms the timer for 100
  calls of `MiniRV32IMAStep`, and the way to the next task is a few dozen instructions.
- A process function does not return.  `INITRET` leads to `kill(getpid())`, which
  `Kill` covers.
- Arguments of library functions are those C allows.  `%b` is given only numbers that
  `string[20]` of `_doprnt` has room for.

## Runs

`MC*` modules define the set of calls that the processes of a run make (`Calls`);
priorities, delays and counts come from the cfg.

| Run | Question | Workload and bounds |
| --- | --- | --- |
| `semaphores` | does the highest priority run, do waiters leave in order, under every semaphore call | null process and three users, priorities 2 and 3, one semaphore with counts 0 and 2, quantum 2 |
| `messages` | is a message ever lost or overwritten, does anybody block beside one; do the queues stay right when a tick cuts `receive` short, and the ready list under `chprio` | null process and two users, delays 1 and 2, priorities 2 and (refused by `create`) 0 |
| `life` | are counts, delays, stacks and the halt exact when processes are killed in every state | null process and three users with entries and stacks reused, one semaphore, delays 1 and 2 |
| `turns` | is every sleeper woken and every ready process dispatched | fairness of the kernel and the clock |
| `alone` | do the parts that work alone keep what their callers rely on: free list, queue table, contexts, strings, numbers, sorting, formatted output | one part at a time from the initial state of the others; heap of 10 words and requests of 0, 1, 2, 3 and 5; three processes on a ready list, a sleep queue and a semaphore's queue; two contexts, with 2 and 11 arguments; five bytes of memory over two characters; 8-bit integers; arrays of up to 5 of 3 elements; 11 numbers, 4 texts and the widths and precisions of `MCAlone` |
| `machine` | is the timer exact, does its interrupt come, do traps return, does sleep end, do the flags stay apart | words of two values, so a timer of four; 8 bytes of RAM, each an address; 2 instructions a step; the images `Faulting`, `Handling`, `Waiting`, `Reserving`, `Resetting`, `Forging` |
| `roundrobin` | do contexts stay with their tasks and within their stacks, and do the tasks take turns, wherever the interrupt comes | three tasks, as many contexts, stacks of 330 bytes |
| `early_return` | violation: a `receive` goes on without a message | `create`, `resume`, `send`, `receive` |
| `overdue` | violation: `recvtime(0)` stops the sleep queue | `create`, `resume`, `recvtime` |
| `kill_halt` | violation: the system halts while a user process lives | `create`, `resume`, `kill`, `recvtime` |
| `stranded` | violation: `semdelete` leaves waiters behind | one semaphore, reused while its deletion is preempted |
| `old_thread` | violation: a process switched back to does not go on behind its call | two contexts |

Properties, with what would break each.

- `QueuesMatchStates` (in `life` over kills, waits, sleeps and reuse, in `messages` over
  `receive`, `recvtime` and `send`; the proof covers every call but `receive`): a process
  on two queues or on none, two current processes,
  an empty ready list under `dequeue`.  It is the conjunction of `ReadyListed`,
  `SleepListed`, `WaitListed`, `OneCurrent` and `NullRunnable`.
- `ReadySorted`: `resched` looks only at the first key.  It says that the list agrees with
  its keys, not that the keys are the priorities: after `chprio` they are not.
- `HighestPriorityRuns`: a call or the clock handler that makes a process ready and
  does not reschedule.  Checked without `chprio`, which by design does not move or
  compare the process.
- `ReleasedInOrder`: overtaking in a semaphore's queue, over any call that touches it.
- `BlockedHasNoMessage`, `MessageKept`: a receiver that nobody can wake, because `send`
  refuses; a message overwritten or cleared by someone else.
- `NotLate`, `DeltaKeys`, `WokenOnTime`: a delay lost or counted twice when a
  sleeper is inserted, woken by a message or killed in the middle of the list.
- `SemCount`, `LiveCount`, `HaltsLast`, `StackOwned`: the counters and owners that
  `kill` corrects state by state.
- `SleeperWakes`, `TurnComes`: liveness.
- `FreeListExact`: a missed merge, after which a request fails though the memory is
  there; a block out of order; a size rounded on one side only.
- `KeepsPromise`: two owners of one word, a stack freed at the wrong bottom, a double
  free that is accepted.
- `SpellsQueues`, `LinksAgree`: a link that crosses two queues, one
  direction left behind, an equal key overtaken, a delay not handed on.
- `RegistersKept`, `StartsRight`, `MaskKept`: an offset that `ctxsw.S`,
  `setupStack.c` and `intr.S` do not share, room for spilled arguments left out of the
  stack pointer, an interrupt enable that the next process inherits.
- `ContextsResumable`: a tick that saves one task's registers in another's record, or not all
  of them; a stack pointer outside its own stack.  `CreatedOnce`: a task whose beginning is
  repeated.  `TakesTurns`: a task passed
  over, or the processor kept.
- `TimerExact`: a lost carry, a comparison of one half.  `TickComes`, `WfiWakes`: an interrupt
  masked or a sleep not ended (an interrupt that comes too early between the two stores to
  `mtimecmp` is a behaviour of the model that no property excludes).  `TrapReturns`,
  `TrapPrecise`: the interrupt's pc off by an
  instruction, MPIE or MPP not restored, a faulting load that writes.  `FlagsApart`: an
  instruction that writes one field of `extraflags` over another.
- `ReadsRight`, `WritesRight`, `TokensRight`: a test at the wrong end of a string or count,
  overlapping blocks copied in the wrong direction, a token that runs on.
- `NumbersRight`, `DirectivesRight`: the least integer, numbers with the top bit set, the
  last digit of a full buffer, fill and side of a field.
- `SortsInput`, `NestsLittle`: an element lost in an exchange of three or left on the wrong
  side; recursion into the larger part.

Bounds and why they are enough.  Four processes give a null process, a running
one and two behind each other in one queue, which is what insertion, removal from
the middle and FIFO order need; a fifth adds only longer queues.  One semaphore is
enough for its own laws, and the proofs cover any number.  Delays 1 and 2 give equal
and different wakeups and a key of zero behind a head.  `MaxCount` and `MaxDebt`
bound a semaphore's count, `MaxLate` how far a key is followed below zero; all are
guards named in `ProcTable`, and none is reached by the code's own decisions except
`MaxLate`, in `overdue`.  Ten words are five headers: room for two blocks with gaps on
both sides of each, so each of the four cases of merging and both ends of the list
occur.  Three processes let one be linked between two others in each kind of queue.
Two contexts are one that saves and one that loads; 11 arguments spill three.  Five
bytes hold two strings with their NULs, an overlap of either kind and a token between
two delimiters.  Arrays of five elements partition into parts of two and more on both
sides, with repeated elements.  A timer of four values wraps and carries within a run; two
instructions a step let an interrupt become due in the middle of one.  Three tasks tell
the next task from the one before; 330 bytes hold a trap and the frames of several
interrupted calls, so that stacks sink step by step and are overrun within the run.

`alone` takes one component at a time: no component of it calls another but through the
contracts their modules state, so a joint state would only multiply theirs.

The runs of the kernel use a `VIEW` (`LiveView`): it leaves out fields
that every path writes before it reads, such as those of a free entry, so that
states that differ only there are one.  No property reads such a field.

`life` sets `CHECK_DEADLOCK FALSE` since `xdone` stops the machine.  Its workload has
no `receive` or `recvtime`, so that the message of a `kill` never preempts the
killer; `kill_halt` shows what happens when it does.  `machine` sets it since `PowerOff`
ends the host loop, `kill_halt` for `xdone`, and `roundrobin` since nothing follows an
overrun.

Fairness.  `FairSpec` asks for weak fairness of `Continue`, the rest of calls already
begun and of the clock handler: that code has no wait of its own and is never
disabled by another process.  `Tick` has strong fairness: the timer keeps its
interrupt pending while interrupts are disabled, so a process that enters and
leaves calls for ever takes it at one of the gaps.  Nothing is assumed of what
user processes do; in `turns` they may run for ever without a call.

`MachineSpec` asks for weak fairness of the whole next step: the host loop is one thread
that never waits.  `RRSpec` asks for it of the OS's steps and of the timer interrupt,
which is enabled at every place of a task; the tasks' own steps have none.  A tick may
come at the same place of a task again and again, as it may in the code: the tasks spend
their time in `kputs`.

### Disagreements between the code and its comments

Each is a run that TLC must find violated; PROJECT.json quotes the lines.

1. `early_return` (`message.c:19`): `disable` and `restore` are commented out of
   `receive()`.  A tick at the entry of its `resched()` comes back behind it: `receive`
   takes a message that is not there, and its caller goes on in the state `PR_RECV`.  A
   tick between the test and the change of state, on the other hand, leaves `receive`
   without either, so nobody blocks beside a pending message (`BlockedHasNoMessage`).
2. `overdue` (`clkhandler.c:34`): the test `== 0` misses a key that starts at 0.
3. `kill_halt` (`create.c:193`): `prcount` falls before the message to the parent can
   preempt; a second kill of the same victim counts it twice.
4. `stranded` (`semcreate.c:100`): without `resched_cntl`, the loop of `semdelete` is
   preempted after each release, with the entry already free for `semcreate`.
5. `old_thread` (`ctxsw.S:89-90`): "pc is restored".  `ctxsw` stores from the word at 4 on
   and jumps to the word at 0, which holds what an earlier frame left there.

Smaller ones that no run shows:

- `setupStack.c:33-34`: "aligned on 16-byte boundary after the new thread pops off the
  context record".  The loop aligns the record, of 23 words: once it is popped the stack
  pointer is 12 modulo 16.  `StartsRight` therefore says nothing of alignment.
- `main.c:561-567`: the tasks do not take turns for ever.  A tick in `kputs` returns to the
  caller of `kputs` and leaves its frame of 32 bytes behind; after some two dozen of them the
  next trap does not fit into the 1024 bytes of `task_stack[i]` any more.  The model goes to
  `overrun` there, and `TakesTurns` and `ContextsResumable` speak of the time before.
- `kernel.h:78` and `clkhandler.c:30-44`: the slice is counted down only while nobody
  sleeps.
- `create.c:48`: a `create` that fails has already taken a stack (`CreateFail`).
- `stdlib.c:142`: `lookup` has 35 characters for bases up to 36.  `itoa` returns the text
  behind the sign it has written.
- `doprnt.c`: `%-0` fills with zeroes on the right; an unknown directive prints the text
  left over from the one before.
- `mini-rv32ima.h:478`: a store conditional to RAM offset 0 succeeds before any `lr.w`,
  as the slot starts at 0.  `mini-rv32ima.h:429`: `mret` sets MPP to the privilege it
  leaves rather than to the lowest.

## Proofs

Each module proves its theorems for every value of the constants that the named
`ASSUME`s of the model admit.  A theorem that needs more of a workload says so as its
own hypothesis; a run shows that it cannot do without.

| Theorem | States | For |
| --- | --- | --- |
| `TypeCorrect`, `QueuesCorrect` | `[]TypeOK`, `[]QueuesMatchStates` | every workload* |
| `ReadyListSorted` | `[]ReadySorted` | every workload* |
| `HighestPriority` | `[]HighestPriorityRuns` | *without `chprio`, which does not reschedule |
| `LifeCycle` | the process state diagram, as a property of steps | every workload* |
| `DeltaKeysRight`, `WokenInTime` | `[]DeltaKeys`, `WokenOnTime` | every workload* |
| `NobodyLate` | `[]NotLate` | *no delay of 0 (run `overdue`) |
| `BlockedReceivers`, `MessagesKept` | `[]BlockedHasNoMessage`, `MessageKept` | every workload* |
| `FirstComeFirstServed` | `ReleasedInOrder` | every workload* |
| `CountsWaiters` | `[]SemCount` | *without `semdelete` and `semreset` (run `stranded`) |
| `LiveCounted`, `LastHalts`, `StacksOwned` | `[]LiveCount`, `[]HaltsLast`, `[]StackOwned` | *without `recvtime` if there are kills (run `kill_halt`) |
| `LinksKept`, `TableSpells` | `[]LinksAgree`, `SpellsQueues` | any number of processes and queues |
| `FreeListKept`, `AllocatorKeepsPromise` | `[]FreeListExact`, `KeepsPromise` | any heap, any requests |
| `ContextsKept`, `MasksKept`, `NewStart` | `RegistersKept`, `MaskKept`, `StartsRight` | any number of contexts and arguments |
| `SortCorrect`, `NestingBounded` | `[]SortsInput`, `[]NestsLittle` | arrays of any length |
| `WritesPromise`, `ReadsPromise` | `[]WritesRight`, `[]ReadsRight` | any memory, any bytes |
| `TokensCorrect` | `[]TokensRight` | any memory, bytes and delimiters |
| `NumbersCorrect` | `[]NumbersRight` | words of any width, any bases and buffers |
| `DirectivesCorrect` | `DirectivesRight` | any flags, widths, precisions and texts; numbers of 32 bits, for `%b` of 19 |
| `RunnerCorrect`, `ContextsCorrect`, `PrintsOnce`, `TurnsImplemented` | `[]RunnerNamed`, `[]ContextsResumable`, `CreatedOnce`, the safety half of `TakesTurns` | any number of tasks, any size of a stack |
| `FlagsKept`, `ReturnsKept`, `TrapsPrecise`, `TimerCounts`, `MachineTyped` | `[]FlagsApart`, `TrapReturns`, `TrapPrecise`, `TimerExact`, `[]MachineTypeOK` | any width, RAM, image |

\* No process of the workload calls `receive()`.  After the early return of `early_return` a
process runs in the state `PR_RECV`, or in the next one a kill gives it: that the
running process is current, on which nearly every step of these proofs rests, is
false in the code.  With `receive` in the workload `OneCurrent` asks only that nobody else be
current, and that the queues stay right is checked in the bounds of `messages`.

### The kernel

`KernelProofs`.  Neither property is inductive.  `IInv` adds `PointsOK` (the null
process never leaves the boot code or its loop, a process that is not current is not
inside code that only the current one can be in, and the locals of each point are of
the kind the rest of the call expects) and `Boot` (before the first user process
exists, nobody else does).  They are needed because `resched` may be entered only with
the running process current or already put elsewhere, because `NullRunnable` holds
only as long as process 0 never blocks, and because `NullReady` must find the process
it created still suspended.

The argument has three layers.  `ListLemmas` has facts on sequences: inserting an
element that is not listed, or removing one that is, gives a list of the set with or
without it, and keeps descending order.  The `...Schedules` lemmas of `KernelProofs`
say once what `Dispatch`, `Resched` and `ReadyYes` do to the process states and the
ready list, whoever calls them.  Then one `...Keeps` lemma per action derives `IInv'`,
and `Invariant` joins them over `Next`.

`SchedulerProofs` goes on from `IInv`, in three parts.

- `SchedInv`.  That the head of the ready list has the highest priority needs that
  its keys are the priorities (`ReadyKeys`), and that nobody outranks the running
  process is not true inside `signaln` and `wakeup`, which make processes ready and
  reschedule only at the end: `NoneAbove` leaves those places out, and each of their
  steps is shown to restore it or to stay inside.
- `StepLife`: one lemma per action says which arc of the state diagram each process
  takes (`LifeStep`).  The later invariants are about what happens to a process
  between two points, and cite this rather than the actions.
- `SleepInv`.  The keys of the sleep queue are differences, so an insertion or removal
  in the middle changes the time of everybody behind unless the neighbour's key is
  corrected.  `DeltaKeys` compares them with the history `due`; it is inductive only
  with the order of the queue by `due` (`DueOrder`), the place the walk of `insertd()`
  has reached and what it has subtracted so far (`WalkOK`), and that the clock is
  never past the head (`WakingOK`).  `NoneLate` adds that nobody's time is 0 outside
  `wakeup`, which fails as soon as a key starts at 0.

`TableProofs` adds where a process may move in its code (`ControlFlow`: every step
takes each process along one of `Arcs`, into or out of a call).

- `MsgInv`: whoever is inside `recvtime`, from its test of the buffer to the sleep, has no
  message (`Awaiting`).  Only with the state diagram does this survive: the one way out
  of `RECTIM` before the time is a message.
- `SemStep` says what a step can do to one semaphore; order and count follow by its
  cases.  `CountInv` is `SemCount` with an empty queue behind every free entry, without
  which `semcreate` would start a count of 0 or more over waiters; that is what fails in
  `stranded`.
- `ProcInv`: where nobody waits for messages (`NobodyBlocks`), the message of a kill
  cannot preempt it, so the second half of the kill directly follows the first and at
  most the current process is inside one (`Killers`); `prcount`, the stacks and the halt
  then agree through both halves.

### The components below

`AloneProofs`.

- `MemInv`: the free list is a sequence of blocks with gaps between (`GoodList`), a word is
  in one of them exactly if no caller holds it, no word is held twice, and `mlength` counts
  the free ones.  `SplicedList` is one lemma for the four ways a freed block can merge.
- `CtxInv`: a context that waits has in its record and on its stack the registers it had
  when it left (`LeftBehind`) or what it is to start with (`MadeNew`); every register has a
  word of its own in the frame (`SlotsApart`).
- `TableInv`: all queues share one array, and an operation on one must not touch
  another's links.  Each queue is a chain of different processes between its head and
  tail, linked both ways (`Linked`), and no process is in two.  The walks of `insert()` and
  `insertd()` are recursive functions: that they exist and what they are after n steps needs
  an induction over numbers, and `SetInduction` of `ListLemmas` proves one from the
  pigeonhole principle, since the induction theorems of the library take an operator as
  parameter, which the provers cannot instantiate.

`LibraryProofs`.

- `SortInv`: the part at hand is partitioned around the pivots (`Partitioned`), and any
  two places that are not `Together` in a part still to be sorted are in order already.
  `NestInv` adds that at depth k a part is at most the 2^k-th share of the array:
  that holds of the part at hand because the smaller one is taken first, and of
  the parts that pend because they were larger at a smaller depth.
- `StrInv` says only that memory is memory: what the functions of `string.c` do holds in
  every one.  Each loop gets its closed form by induction over its rounds, as `CopyMoves`
  for every order of copying in which no byte is read after it has been written, whence
  `memcpy` upward and `memmove` either way; a loop that stops at the first byte with a
  property is a least number (`LeastNumber`), and `StringEnds` and `TextIs` say what stands
  before it.  `WithIs` and `ComparedAt` then compare the closed forms with the promises.
- `TokInv`: `strtok` writes NULs into the string it has still to read, so the tokens of the
  string there was at first are not those of any string in memory later.  The invariant
  says how they are made up: each token already given is a string of its own that ends
  before the place `strtok` goes on from (`Earlier`), that place begins a string (`Ahead`),
  and the texts of the former, followed by the tokens of the latter, are the ones expected
  (`Continued`).  `TokenAhead` is the step: the first token of a string, cut off by a NUL,
  and the tokens behind it are the tokens of the whole, for which `NthOfRest` renumbers the
  places where tokens start.  Nobody writes while a string is being split (`Write`).
- `NumbersCorrect` needs no invariant but `NumTyped`.  `RestPower` says that k divisions
  leave at least m exactly if the number is at least m times the k-th power of the base:
  with it the loop of `uitoa` ends where the text is as long as the number
  (`DigitCountIs`), and within `WIDTH` rounds.  `SpellsRest` reads the text from the front:
  its first k digits make what is left after dividing away the others, so all of them make
  the number, and `ReadsDigits` shows that `atoi`, reducing every step to a word, makes the
  same of them, up to the magnitude of the least number, which `int_abs` has as an unsigned
  one and whose negation in a word is itself.
- `DirectivesCorrect`: `FormatInv` says that a format is one directive, alone or with text
  before it and percents behind, or has nothing but percents or none (`Same`), and that
  the arguments are enough for its stars (`IsArgs`); so a directive finds its argument
  (`ItsArgument`) and is printed as a whole (`Prints`).  The digits are `NumeralSpells`:
  `_prtl2`, `_prtl8` and `_prtl16` shift the sign in, and what is left of the number without
  a sign differs from what they have by a power of the base (`ShiftKeeps`); `_prtl10`
  takes one digit off before it negates (`TenthsAre`); `%u` has subtracted 10^9 at most
  three times, and the top digit has room for that (`TenthDigit`).  `HalvesSpelledIs` reads
  digits in halves of 16 bits as the halves of their value.  The field is `FieldsAre`:
  fill, sign and body add up to the width asked for or to what the body needs.

`RoundRobinProofs`.  What a task's interrupt returns to depends on frames pushed several
steps before, so the invariant follows the stacks: `RunnerStack` says for each place of
the running task which return address it holds and how many frames its stack has,
`InHandler` and `WaiterStacks` the same of tasks that wait in the handler, and both that a
return to the task's entry is left only to one that has not printed.  `TurnKept` ties the
loop's index to the task that last ran, and `Creating` holds the boot phase apart.  There
is one `...Keeps` lemma per action; those that push or pop use `Pushed` and `Cut`.  `Depths`
bounds how far a stack pointer has sunk by the place of its task: a trap is taken only if
its frames fit, so behind it there is room for what a task pushes before the next.

`MachineProofs`.  `MInv` says that `extraflags` is `p + 4 * w + 8 * reserved` for a
privilege of two bits, an address and a sleep bit that is 0 while instructions run
(`Fields`), and that
whatever a trap saved is still in `mepc` and `mstatus` as long as `resume` is set
(`Saved`).  `FieldValues` computes the fields of such a word and what each operator on it
makes.  `Clocks` keeps the halves of the counters in their range; on it rest
`DigitsOrdered` (two numbers of two digits compare as their digits do) and `TickAdds` (the
carry), which give `TimerCounts` without a power of two: a half has `WORDS` values.

### Only model-checked

- All liveness (`SleeperWakes`, `TurnComes`, `WfiWakes`, `TickComes`) and the fairness
  half of `TakesTurns`, with `ENABLED`: out of the prover's reach.
- The five violations, which are behaviours.

## Not modelled

- Names, device descriptors and the elf image of an entry, and what a process prints.
- `clktime` and `count1000`: nothing reads them.
- The result of an instruction, its decoding, the cycle counter and the registers other
  than one; stores into the last bytes of RAM, where the emulator keeps its core.
- What happens after a task's stack is overrun, the patterns `main` prints first, console
  input.
- The frames that interrupted functions leave on the stacks of Xinu's processes.
- Two processes inside `strtok` or `qsort` at once, which share static data; no
  code of the repository does this.
- `fdoprnt.c` (a copy of `doprnt.c` for descriptors), `doscan.c`, `rand.c`, the elf loader and
  floating point: no kernel code calls them, and TLC has no reals.
- `kprintf`'s path to the console port, the bare-metal example (sequential I/O) and compiler
  output.

## Plan

1. `doscan.c` beside `Format`, with the property that it reads back what `_doprnt` writes.
2. One module that puts the steps of `Clock`'s handler at the granularity of `Machine`: the
   two stores to `mtimecmp` and the compare between them.
