----------------------------- MODULE RoundRobin -----------------------------
(***************************************************************************)
(* The kernel of kernel/main.c: tasks that never give up the processor, an *)
(* OS loop that goes to each in turn, and a timer interrupt that overwrites*)
(* the interrupted pc with the address of clkhandler, which switches back  *)
(* to the OS.  What sys_switch keeps of a context is the return address,   *)
(* the stack pointer and the callee-saved registers; here the stack pointer*)
(* is the owner of the stack and how far it has sunk in it, and of the     *)
(* callee-saved registers the frame pointer s0 is kept, as the function    *)
(* whose frame it points to.                                               *)
(***************************************************************************)
EXTENDS Integers, Sequences

CONSTANTS
  MAX_TASK,   \* entries of ctx_tasks and of task_stack
  NTASK,      \* tasks that main creates
  STACK_SIZE  \* bytes of a task's stack

\* Bytes of the frames in the image of the repository: of a task, of kputs,
\* of clkhandler with task_os, and of _trap with exceptionHandler and w_mie.
TaskFrame == 16
KputsFrame == 32
HandlerFrames == 48
TrapFrames == 220

ASSUME TasksAssumption ==
  /\ NTASK \in Nat \ {0} /\ MAX_TASK \in Nat /\ NTASK <= MAX_TASK
  /\ STACK_SIZE \in Nat /\ STACK_SIZE > TrapFrames

OS == NTASK    \* ctx_os, beside the contexts of the tasks
NoContext == NTASK + 1
Tasks == 0 .. NTASK - 1

VARIABLES
  taskTop,       \* tasks created so far
  current_task,  \* the local variable of main
  ctx_now,       \* the context that ctx_now points to
  ctx,           \* the contexts saved by sys_switch
  stack,         \* per task, the frames a return will still read
  depth,         \* per task, how many bytes its stack pointer has sunk
  at,            \* the place the processor is at
  ra, sp, s0,    \* its registers
  ran,           \* checking only: the task that last got the processor
  created        \* checking only: the tasks that printed their first line

regs == <<ra, sp, s0>>
main == <<taskTop, current_task>>
stacks == <<stack, depth>>
rrvars == <<taskTop, current_task, ctx_now, ctx, stack, depth, at, ra, sp, s0, ran, created>>

Context == [ra : {"none", "entry", "back", "resumed"}, sp : Tasks \cup {OS},
            s0 : {"zero", "main", "task", "kputs", "clkhandler"}]

\* Where a task can be interrupted.  clkhandler re-arms the timer for 100
\* calls of the emulator's step, far more than the way through the OS loop to
\* the next task takes, so no interrupt is due anywhere else.
UserPlaces == {"entry", "begun", "kputs", "user"}

RRInit ==
  /\ taskTop = 0 /\ current_task = 0
  /\ ctx_now = NoContext
  /\ ctx = [c \in Tasks \cup {OS} |-> [ra |-> "none", sp |-> c, s0 |-> "zero"]]
  /\ stack = [i \in Tasks |-> <<>>] /\ depth = [i \in Tasks |-> 0]
  /\ at = "create"
  /\ ra = "none" /\ sp = OS /\ s0 = "main"
  /\ ran = NTASK - 1 /\ created = {}

\* task_create: the count grows without a look at MAX_TASK.
TaskCreate ==
  /\ at = "create" /\ taskTop < NTASK
  /\ ctx' = [ctx EXCEPT ![taskTop] = [ra |-> "entry", sp |-> taskTop, s0 |-> "zero"]]
  /\ taskTop' = taskTop + 1
  /\ UNCHANGED <<current_task, ctx_now, stacks, at, regs, ran, created>>

\* main enables the timer and enters its loop.
StartLoop ==
  /\ at = "create" /\ taskTop = NTASK
  /\ at' = "loop"
  /\ UNCHANGED <<main, ctx_now, ctx, stacks, regs, ran, created>>

\* Mutant: ctx_save forgets s0.
Switch_NoS0(old, new, link) ==
  /\ ctx' = [ctx EXCEPT ![old] = [ra |-> link, sp |-> sp, s0 |-> "zero"]]
  /\ LET c == ctx'[new]
     IN  ra' = c.ra /\ sp' = c.sp /\ s0' = c.s0 /\ at' = c.ra

\* sys_switch(old, new): ctx_save, ctx_load and ret.
Switch(old, new, link) ==
  /\ ctx' = [ctx EXCEPT ![old] = [ra |-> link, sp |-> sp, s0 |-> s0]]
  /\ LET c == ctx'[new]
     IN  ra' = c.ra /\ sp' = c.sp /\ s0' = c.s0 /\ at' = c.ra

\* task_go names the task it goes to before it switches.
TaskGo ==
  /\ at = "loop"
  /\ ctx_now' = current_task
  /\ at' = "go"
  /\ UNCHANGED <<main, ctx, stacks, regs, ran, created>>

GoSwitch ==
  /\ at = "go"
  /\ Switch(OS, current_task, "back")
  /\ ran' = current_task
  /\ UNCHANGED <<main, ctx_now, stacks, created>>

\* Back in main's loop.
\* Mutant: a task passed over.
NextTask_Over(i) == (i + 2) % taskTop
NextTask(i) == (i + 1) % taskTop
Back ==
  /\ at = "back"
  /\ current_task' = NextTask(current_task)
  /\ at' = "loop"
  /\ UNCHANGED <<taskTop, ctx_now, ctx, stacks, regs, ran, created>>

-----------------------------------------------------------------------------
\* user_task0 and user_task1: a prologue, a call of kputs, a loop of calls.
\* The stack pointer sinks by the frame of the function.
Push(frame, bytes) ==
  /\ stack' = [stack EXCEPT ![sp] = Append(@, frame)]
  /\ depth' = [depth EXCEPT ![sp] = @ + bytes]
Frame == [ra |-> ra, s0 |-> s0]

Prologue ==
  /\ at = "entry"
  /\ Push(Frame, TaskFrame)
  /\ s0' = "task" /\ at' = "begun"
  /\ UNCHANGED <<main, ctx_now, ctx, ra, sp, ran, created>>

\* Mutant: a call that leaves the return address of the caller.
Link_Kept == ra
Link == "user"

CallKputs ==
  /\ at \in {"begun", "user"}
  /\ Push([ra |-> Link, s0 |-> s0], KputsFrame)
  /\ ra' = Link /\ s0' = "kputs" /\ at' = "kputs"
  /\ created' = IF at = "begun" THEN created \cup {sp} ELSE created
  /\ UNCHANGED <<main, ctx_now, ctx, sp, ran>>

\* kputs is a leaf: it leaves ra in its register and returns through it.
ReturnKputs ==
  /\ at = "kputs"
  /\ s0' = stack[sp][Len(stack[sp])].s0
  /\ stack' = [stack EXCEPT ![sp] = SubSeq(@, 1, Len(@) - 1)]
  /\ depth' = [depth EXCEPT ![sp] = @ - KputsFrame]
  /\ at' = ra
  /\ UNCHANGED <<main, ctx_now, ctx, ra, sp, ran, created>>

\* The trap saves and restores every register; exceptionHandler puts the
\* address of clkhandler over the saved pc, and mret goes there.  When their
\* frames do not fit, they are written over whatever lies below the stack,
\* and nothing is said about the kernel any more.
HandledPc == IF depth[sp] + TrapFrames < STACK_SIZE THEN "clkhandler" ELSE "overrun"
Tick ==
  /\ at \in UserPlaces
  /\ at' = HandledPc
  /\ UNCHANGED <<main, ctx_now, ctx, stacks, regs, ran, created>>

\* clkhandler and task_os keep the caller's registers in their frames.  The
\* caller, to them, is whoever the interrupted code would have returned to.
ClkHandler ==
  /\ at = "clkhandler"
  /\ Push(Frame, HandlerFrames)
  /\ s0' = "clkhandler" /\ at' = "task_os"
  /\ UNCHANGED <<main, ctx_now, ctx, ra, sp, ran, created>>

TaskOs ==
  /\ at = "task_os"
  /\ ctx_now' = OS
  /\ Switch(ctx_now, OS, "resumed")
  /\ UNCHANGED <<main, stacks, ran, created>>

\* The frames that whoever is at a place has made itself.
LiveFrames(place) == IF place = "entry" THEN 0 ELSE 1

\* task_os and clkhandler return, to the interrupted code's own ra: what was
\* left of the interrupted function is not executed.  No return will read
\* its frame again, but nobody takes it off: the stack pointer stays below.
Resumed ==
  /\ at = "resumed"
  /\ LET frame == stack[sp][Len(stack[sp])]
     IN  /\ ra' = frame.ra /\ s0' = frame.s0 /\ at' = frame.ra
         /\ stack' = [stack EXCEPT ![sp] = SubSeq(@, 1, LiveFrames(frame.ra))]
  /\ depth' = [depth EXCEPT ![sp] = @ - HandlerFrames]
  /\ UNCHANGED <<main, ctx_now, ctx, sp, ran, created>>

UserStep == Prologue \/ CallKputs \/ ReturnKputs
OSStep == TaskCreate \/ StartLoop \/ TaskGo \/ GoSwitch \/ Back \/ ClkHandler \/ TaskOs \/ Resumed

RRNext == UserStep \/ OSStep \/ Tick

\* The processor goes on, and the timer interrupts a task again and again.
RRSpec == RRInit /\ [][RRNext]_rrvars /\ WF_rrvars(OSStep) /\ WF_rrvars(Tick)
-----------------------------------------------------------------------------
RRTypeOK ==
  /\ taskTop \in 0 .. NTASK
  /\ current_task \in Tasks
  /\ ctx_now \in 0 .. NTASK + 1
  /\ ctx \in [Tasks \cup {OS} -> Context]
  /\ at \in UserPlaces \cup {"create", "loop", "go", "back", "clkhandler", "task_os", "resumed", "overrun"}
  /\ ra \in {"none", "entry", "user", "back", "resumed"}
  /\ sp \in Tasks \cup {OS}
  /\ s0 \in {"zero", "main", "task", "kputs", "clkhandler"}
  /\ ran \in Tasks /\ created \subseteq Tasks

\* The context a switch to the OS will save into belongs to the task that
\* runs: ctx_now, the stack in use and the turn of main's loop name one task
\* wherever an interrupt can come, and the OS while the OS runs.
RunnerNamed ==
  /\ at \in UserPlaces \cup {"clkhandler", "task_os", "resumed"} =>
       ctx_now = current_task /\ sp = current_task
  /\ at \in {"loop", "back"} => ctx_now \in {OS, NoContext} /\ sp = OS
  /\ at = "go" => ctx_now = current_task /\ sp = OS

\* A saved context can be gone back to, until a stack is overrun: its stack
\* pointer is within its own stack, below the frames the task will return
\* through, and the task is either at its entry, with nothing on its stack,
\* or inside the handler's frame.
ContextsResumable ==
  \A i \in 0 .. taskTop - 1 : sp # i /\ at # "overrun" =>
    /\ ctx[i].sp = i /\ depth[i] \in 0 .. STACK_SIZE - 1
    /\ \/ ctx[i].ra = "entry" /\ stack[i] = <<>>
       \/ /\ ctx[i].ra = "resumed" /\ ctx[i].s0 = "clkhandler"
          /\ Len(stack[i]) \in 1 .. 3

\* Though an interrupt throws away the rest of a function, every task prints
\* its first line once: what comes before it is done again, it is not.
CreatedOnce ==
  [][at = "begun" /\ at' = "kputs" => sp \notin created]_rrvars

\* The tasks get the processor in turn until a stack is overrun: the kernel
\* implements the cyclic hand-over, with "ran" for the turn.
Turns == INSTANCE CyclicTurns
           WITH N <- NTASK, turn <- (ran + 1) % NTASK, over <- at = "overrun"
TakesTurns == Turns!Spec

=============================================================================
