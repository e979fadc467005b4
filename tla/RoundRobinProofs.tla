-------------------------- MODULE RoundRobinProofs --------------------------
(***************************************************************************)
(* Proofs about RoundRobin, for any number of tasks.                       *)
(***************************************************************************)
EXTENDS RoundRobin, TLAPS

Frames == [ra : {"entry", "user"}, s0 : {"zero", "main", "task", "kputs", "clkhandler"}]
InTask == UserPlaces \cup {"clkhandler", "task_os", "resumed"}

TypeInv == RRTypeOK /\ stack \in [Tasks -> Seq(Frames)]

\* While main creates the tasks nothing else has happened.
Creating ==
  IF at = "create"
  THEN /\ sp = OS /\ ctx_now = NoContext /\ current_task = 0 /\ ran = NTASK - 1
       /\ created = {} /\ \A i \in Tasks : stack[i] = <<>>
  ELSE taskTop = NTASK

\* Whose turn it is: the task that last ran is the one main names until its
\* loop goes on to the next.
TurnKept ==
  /\ at \in {"loop", "go"} => current_task = (ran + 1) % NTASK
  /\ at \in InTask \cup {"back"} => current_task = ran
  /\ at \in InTask => ctx[OS].ra = "back" /\ ctx[OS].sp = OS

\* The stack of a task that waits, or is about to, in the handler.
InHandler(i) ==
  LET frame == stack[i][Len(stack[i])]
  IN  /\ Len(stack[i]) \in 1 .. 3
      /\ frame.ra = "user" => Len(stack[i]) > 1
      /\ frame.ra = "entry" => i \notin created

\* The stack and the return address of the task that runs.
RunnerStack ==
  /\ at = "entry" => ra = "entry" /\ Len(stack[sp]) = 0 /\ sp \notin created
  /\ at = "begun" => ra = "entry" /\ Len(stack[sp]) = 1 /\ sp \notin created
  /\ at = "user" => ra = "user" /\ Len(stack[sp]) = 1
  /\ at = "kputs" => ra = "user" /\ Len(stack[sp]) = 2
  /\ at = "clkhandler" => /\ ra \in {"entry", "user"} /\ Len(stack[sp]) \in 0 .. 2
                          /\ ra = "user" => Len(stack[sp]) > 0
                          /\ ra = "entry" => sp \notin created
  /\ at \in {"task_os", "resumed"} => InHandler(sp) /\ s0 = "clkhandler"

\* The tasks that do not run.
WaiterStacks ==
  \A i \in Tasks : i < taskTop /\ sp # i =>
    /\ ctx[i].sp = i
    /\ \/ ctx[i].ra = "entry" /\ stack[i] = <<>> /\ i \notin created
       \/ ctx[i].ra = "resumed" /\ ctx[i].s0 = "clkhandler" /\ InHandler(i)

IInv == TypeInv /\ Creating /\ RunnerNamed /\ TurnKept /\ RunnerStack /\ WaiterStacks

-----------------------------------------------------------------------------
(* Main's loop begins with task 0, the one after the last.                 *)
LEMMA FirstTurn == (NTASK - 1 + 1) % NTASK = 0
  BY TasksAssumption

(* What a push and a pop leave of a stack.                                 *)
LEMMA Pushed ==
  ASSUME NEW t \in Seq(Frames), NEW f \in Frames
  PROVE  /\ Append(t, f) \in Seq(Frames)
         /\ Len(Append(t, f)) = Len(t) + 1
         /\ Append(t, f)[Len(Append(t, f))] = f
  OBVIOUS

LEMMA Element ==
  ASSUME NEW t \in Seq(Frames), NEW n \in 1 .. Len(t)
  PROVE  t[n] \in Frames
  OBVIOUS

LEMMA Cut ==
  ASSUME NEW t \in Seq(Frames), NEW n \in 0 .. Len(t)
  PROVE  SubSeq(t, 1, n) \in Seq(Frames) /\ Len(SubSeq(t, 1, n)) = n
  OBVIOUS

\* The sets that every step below speaks of.
USE TasksAssumption DEF Tasks, OS, NoContext, UserPlaces, InTask, stacks

(* The steps that leave the stacks alone.                                  *)
LEMMA TaskCreateKeeps == IInv /\ TaskCreate => IInv'
<1> SUFFICES ASSUME IInv, TaskCreate PROVE IInv'
  OBVIOUS
<1>1. taskTop \in Tasks /\ taskTop' = taskTop + 1 /\ at' = "create"
  BY DEF IInv, TypeInv, RRTypeOK, TaskCreate
<1>2. TypeInv'
  BY <1>1 DEF IInv, TypeInv, RRTypeOK, Context, TaskCreate, regs
<1>3. Creating' /\ RunnerNamed' /\ TurnKept' /\ RunnerStack'
  BY <1>1 DEF IInv, Creating, RunnerNamed, TurnKept, RunnerStack, TaskCreate, main, regs
<1>4. WaiterStacks'
  BY <1>1 DEF IInv, TypeInv, RRTypeOK, Creating, WaiterStacks, InHandler, TaskCreate, regs
<1> QED
  BY <1>2, <1>3, <1>4 DEF IInv

LEMMA StartLoopKeeps == IInv /\ StartLoop => IInv'
<1> SUFFICES ASSUME IInv, StartLoop PROVE IInv'
  OBVIOUS
<1>1. TypeInv'
  BY DEF IInv, TypeInv, RRTypeOK, StartLoop, main, regs
<1>2. Creating' /\ RunnerNamed' /\ RunnerStack'
  BY DEF IInv, Creating, RunnerNamed, RunnerStack, StartLoop, main, regs
<1>3. current_task = 0 /\ ran = NTASK - 1
  BY DEF IInv, Creating, StartLoop
<1>4. TurnKept'
  BY <1>3, FirstTurn DEF TurnKept, StartLoop, main
<1>5. WaiterStacks'
  BY DEF IInv, WaiterStacks, InHandler, StartLoop, main, regs
<1> QED
  BY <1>1, <1>2, <1>4, <1>5 DEF IInv

LEMMA TaskGoKeeps == IInv /\ TaskGo => IInv'
<1> SUFFICES ASSUME IInv, TaskGo PROVE IInv'
  OBVIOUS
<1>1. TypeInv'
  BY DEF IInv, TypeInv, RRTypeOK, TaskGo, main, regs
<1>2. Creating' /\ RunnerNamed' /\ TurnKept' /\ RunnerStack'
  BY DEF IInv, Creating, RunnerNamed, TurnKept, RunnerStack, TaskGo, main, regs
<1>3. WaiterStacks'
  BY DEF IInv, WaiterStacks, InHandler, TaskGo, main, regs
<1> QED
  BY <1>1, <1>2, <1>3 DEF IInv

LEMMA GoSwitchKeeps == IInv /\ GoSwitch => IInv'
<1> SUFFICES ASSUME IInv, GoSwitch PROVE IInv'
  OBVIOUS
<1> DEFINE i == current_task
<1>1. /\ i \in Tasks /\ i < taskTop /\ sp = OS /\ ctx_now = i /\ i = (ran + 1) % NTASK
  BY DEF IInv, TypeInv, RRTypeOK, Creating, RunnerNamed, TurnKept, GoSwitch
<1>2. /\ ctx' = [ctx EXCEPT ![OS] = [ra |-> "back", sp |-> OS, s0 |-> s0]]
      /\ ctx'[i] = ctx[i] /\ ctx[i] \in Context
      /\ ctx'[OS].ra = "back" /\ ctx'[OS].sp = OS
  BY <1>1 DEF IInv, TypeInv, RRTypeOK, GoSwitch, Switch
<1>3. /\ ra' = ctx[i].ra /\ sp' = ctx[i].sp /\ s0' = ctx[i].s0 /\ at' = ctx[i].ra
      /\ stack' = stack /\ created' = created /\ ran' = i /\ ctx_now' = i
      /\ taskTop' = taskTop /\ current_task' = current_task
  BY <1>1, <1>2 DEF GoSwitch, Switch, main
<1>4. /\ sp' = i
      /\ \/ at' = "entry" /\ stack[i] = <<>> /\ i \notin created
         \/ at' = "resumed" /\ s0' = "clkhandler" /\ InHandler(i)
  BY <1>1, <1>3 DEF IInv, WaiterStacks
<1>5. TypeInv'
  BY <1>1, <1>2, <1>3, <1>4 DEF IInv, TypeInv, RRTypeOK, Context
<1>6. Creating' /\ RunnerNamed' /\ TurnKept'
  BY <1>1, <1>2, <1>3, <1>4 DEF IInv, Creating, RunnerNamed, TurnKept, GoSwitch
<1>7. RunnerStack'
  BY <1>3, <1>4 DEF RunnerStack, InHandler
<1>8. WaiterStacks'
  BY <1>1, <1>2, <1>3, <1>4 DEF IInv, TypeInv, RRTypeOK, WaiterStacks, InHandler
<1> QED
  BY <1>5, <1>6, <1>7, <1>8 DEF IInv

LEMMA BackKeeps == IInv /\ Back => IInv'
<1> SUFFICES ASSUME IInv, Back PROVE IInv'
  OBVIOUS
<1>1. current_task' = (ran + 1) % NTASK /\ current_task' \in Tasks
  BY DEF IInv, TypeInv, RRTypeOK, Creating, TurnKept, Back, NextTask
<1>2. TypeInv'
  BY <1>1 DEF IInv, TypeInv, RRTypeOK, Back, regs
<1>3. Creating' /\ RunnerNamed' /\ RunnerStack'
  BY DEF IInv, Creating, RunnerNamed, RunnerStack, Back, regs
<1>4. TurnKept'
  BY <1>1 DEF TurnKept, Back
<1>5. WaiterStacks'
  BY DEF IInv, WaiterStacks, InHandler, Back, regs
<1> QED
  BY <1>2, <1>3, <1>4, <1>5 DEF IInv

LEMMA TickKeeps == IInv /\ Tick => IInv'
<1> SUFFICES ASSUME IInv, Tick PROVE IInv'
  OBVIOUS
<1>0. at' \in {"clkhandler", "overrun"}
  BY DEF Tick, HandledPc
<1>1. TypeInv' /\ Creating' /\ RunnerNamed' /\ TurnKept'
  BY <1>0 DEF IInv, TypeInv, RRTypeOK, Creating, RunnerNamed, TurnKept, Tick, main, regs
<1>2. RunnerStack'
  BY <1>0 DEF IInv, RunnerStack, Tick, regs
<1>3. WaiterStacks'
  BY DEF IInv, WaiterStacks, InHandler, Tick, main, regs
<1> QED
  BY <1>1, <1>2, <1>3 DEF IInv

LEMMA TaskOsKeeps == IInv /\ TaskOs => IInv'
<1> SUFFICES ASSUME IInv, TaskOs PROVE IInv'
  OBVIOUS
<1> DEFINE i == sp
<1>1. /\ i \in Tasks /\ ctx_now = i /\ current_task = i /\ ran = i /\ taskTop = NTASK
      /\ ctx[OS].ra = "back" /\ ctx[OS].sp = OS
  BY DEF IInv, TypeInv, RRTypeOK, Creating, RunnerNamed, TurnKept, TaskOs
<1>2. InHandler(i) /\ s0 = "clkhandler"
  BY DEF IInv, RunnerStack, TaskOs
<1>3. /\ ctx' = [ctx EXCEPT ![i] = [ra |-> "resumed", sp |-> i, s0 |-> s0]]
      /\ ctx'[OS] = ctx[OS]
      /\ ctx'[i].ra = "resumed" /\ ctx'[i].sp = i /\ ctx'[i].s0 = "clkhandler"
  BY <1>1, <1>2 DEF IInv, TypeInv, RRTypeOK, TaskOs, Switch
<1>4. /\ ra' = "back" /\ sp' = OS /\ s0' = ctx[OS].s0 /\ at' = "back" /\ ctx_now' = OS
      /\ stack' = stack /\ created' = created /\ ran' = ran
      /\ taskTop' = taskTop /\ current_task' = current_task
  BY <1>1, <1>3 DEF TaskOs, Switch, main
<1>5. TypeInv'
  BY <1>1, <1>3, <1>4 DEF IInv, TypeInv, RRTypeOK, Context
<1>6. Creating' /\ RunnerNamed' /\ TurnKept' /\ RunnerStack'
  BY <1>1, <1>4 DEF Creating, RunnerNamed, TurnKept, RunnerStack
<1>7. WaiterStacks'
  BY <1>1, <1>2, <1>3, <1>4 DEF IInv, TypeInv, RRTypeOK, WaiterStacks, InHandler
<1> QED
  BY <1>5, <1>6, <1>7 DEF IInv

(* The steps that push a frame on the stack of the task that runs.         *)
LEMMA PrologueKeeps == IInv /\ Prologue => IInv'
<1> SUFFICES ASSUME IInv, Prologue PROVE IInv'
  OBVIOUS
<1> DEFINE f == Frame
           t == Append(stack[sp], f)
<1>1. sp \in Tasks /\ stack[sp] \in Seq(Frames) /\ f \in Frames
  <2>1. sp \in Tasks /\ stack[sp] \in Seq(Frames)
    BY DEF IInv, TypeInv, RRTypeOK, RunnerNamed, Prologue
  <2>2. s0 \in {"zero", "main", "task", "kputs", "clkhandler"}
    BY DEF IInv, TypeInv, RRTypeOK
  <2>3. ra \in {"entry", "user"}
    BY DEF IInv, RunnerStack, Prologue
  <2> QED
    BY <2>1, <2>2, <2>3 DEF Frames, Frame
<1>2. t \in Seq(Frames) /\ Len(t) = Len(stack[sp]) + 1 /\ t[Len(t)] = f
  BY <1>1, Pushed
<1>3. stack' = [stack EXCEPT ![sp] = t]
  BY DEF Prologue, Push, main, Frame
<1>4. /\ stack' \in [Tasks -> Seq(Frames)]
      /\ stack'[sp] = t
      /\ \A i \in Tasks : i # sp => stack'[i] = stack[i]
  BY <1>1, <1>2, <1>3 DEF IInv, TypeInv
<1> HIDE DEF t
<1>5. TypeInv'
  BY <1>4 DEF IInv, TypeInv, RRTypeOK, Context, RunnerNamed, Prologue, main, Frame
<1>6. RunnerStack'
  <2>1. at' = "begun" /\ sp' = sp /\ ra' = ra /\ created' = created
    BY DEF Prologue, main
  <2>2. ra = "entry" /\ Len(stack[sp]) = 0 /\ sp \notin created
    BY DEF IInv, RunnerStack, Prologue
  <2>3. Len(stack'[sp]) = 1
    BY <1>2, <1>4, <2>2
  <2> QED
    BY <2>1, <2>2, <2>3 DEF RunnerStack
<1>7. WaiterStacks'
  BY <1>1, <1>4, ZenonT(20) DEF IInv, TypeInv, RRTypeOK, WaiterStacks, InHandler, RunnerNamed, Creating, Prologue, main, Frame
<1>8. Creating' /\ RunnerNamed' /\ TurnKept'
  BY DEF IInv, TypeInv, RRTypeOK, Creating, RunnerNamed, TurnKept, Prologue, main, Frame
<1> QED
  BY <1>5, <1>6, <1>7, <1>8 DEF IInv

LEMMA CallKputsKeeps == IInv /\ CallKputs => IInv'
<1> SUFFICES ASSUME IInv, CallKputs PROVE IInv'
  OBVIOUS
<1> DEFINE f == [ra |-> Link, s0 |-> s0]
           t == Append(stack[sp], f)
<1>1. sp \in Tasks /\ stack[sp] \in Seq(Frames) /\ f \in Frames
  <2>1. sp \in Tasks /\ stack[sp] \in Seq(Frames)
    BY DEF IInv, TypeInv, RRTypeOK, RunnerNamed, CallKputs
  <2>2. s0 \in {"zero", "main", "task", "kputs", "clkhandler"}
    BY DEF IInv, TypeInv, RRTypeOK
  <2>3. Link \in {"entry", "user"}
    BY DEF Link
  <2> QED
    BY <2>1, <2>2, <2>3 DEF Frames
<1>2. t \in Seq(Frames) /\ Len(t) = Len(stack[sp]) + 1 /\ t[Len(t)] = f
  BY <1>1, Pushed
<1>3. stack' = [stack EXCEPT ![sp] = t]
  BY DEF CallKputs, Push, main, Link
<1>4. /\ stack' \in [Tasks -> Seq(Frames)]
      /\ stack'[sp] = t
      /\ \A i \in Tasks : i # sp => stack'[i] = stack[i]
  BY <1>1, <1>2, <1>3 DEF IInv, TypeInv
<1> HIDE DEF t
<1>5. TypeInv'
  BY <1>4 DEF IInv, TypeInv, RRTypeOK, Context, RunnerNamed, CallKputs, main, Link
<1>6. RunnerStack'
  <2>1. at' = "kputs" /\ sp' = sp /\ ra' = "user"
    BY DEF CallKputs, Link, main
  <2>2. Len(stack[sp]) = 1
    BY DEF IInv, RunnerStack, CallKputs
  <2>3. Len(stack'[sp]) = 2
    BY <1>2, <1>4, <2>2
  <2> QED
    BY <2>1, <2>3 DEF RunnerStack
<1>7. WaiterStacks'
  BY <1>1, <1>4, ZenonT(20) DEF IInv, TypeInv, RRTypeOK, WaiterStacks, InHandler, RunnerNamed, Creating, CallKputs, main, Link
<1>8. Creating' /\ RunnerNamed' /\ TurnKept'
  BY DEF IInv, TypeInv, RRTypeOK, Creating, RunnerNamed, TurnKept, CallKputs, main, Link
<1> QED
  BY <1>5, <1>6, <1>7, <1>8 DEF IInv

LEMMA ClkHandlerKeeps == IInv /\ ClkHandler => IInv'
<1> SUFFICES ASSUME IInv, ClkHandler PROVE IInv'
  OBVIOUS
<1> DEFINE f == Frame
           t == Append(stack[sp], f)
<1>1. sp \in Tasks /\ stack[sp] \in Seq(Frames) /\ f \in Frames
  <2>1. sp \in Tasks /\ stack[sp] \in Seq(Frames)
    BY DEF IInv, TypeInv, RRTypeOK, RunnerNamed, ClkHandler
  <2>2. s0 \in {"zero", "main", "task", "kputs", "clkhandler"}
    BY DEF IInv, TypeInv, RRTypeOK
  <2>3. ra \in {"entry", "user"}
    BY DEF IInv, RunnerStack, ClkHandler
  <2> QED
    BY <2>1, <2>2, <2>3 DEF Frames, Frame
<1>2. t \in Seq(Frames) /\ Len(t) = Len(stack[sp]) + 1 /\ t[Len(t)] = f
  BY <1>1, Pushed
<1>3. stack' = [stack EXCEPT ![sp] = t]
  BY DEF ClkHandler, Push, main, Frame
<1>4. /\ stack' \in [Tasks -> Seq(Frames)]
      /\ stack'[sp] = t
      /\ \A i \in Tasks : i # sp => stack'[i] = stack[i]
  BY <1>1, <1>2, <1>3 DEF IInv, TypeInv
<1> HIDE DEF t
<1>5. TypeInv'
  BY <1>4 DEF IInv, TypeInv, RRTypeOK, Context, RunnerNamed, ClkHandler, main, Frame
<1>6. RunnerStack'
  <2>1. at' = "task_os" /\ sp' = sp /\ s0' = "clkhandler" /\ created' = created
    BY DEF ClkHandler, main
  <2>2. /\ ra \in {"entry", "user"} /\ Len(stack[sp]) \in 0 .. 2
        /\ ra = "user" => Len(stack[sp]) > 0
        /\ ra = "entry" => sp \notin created
    BY DEF IInv, RunnerStack, ClkHandler
  <2>3. PICK k \in 0 .. 2 : Len(stack[sp]) = k
    BY <2>2
  <2>4. Len(stack'[sp]) = k + 1
    BY <1>2, <1>4, <2>3
  <2>5. Len(stack'[sp]) \in 1 .. 3 /\ (ra = "user" => Len(stack'[sp]) > 1)
    BY <2>2, <2>3, <2>4
  <2>6. t[Len(t)].ra = ra
    BY <1>2 DEF Frame
  <2>7. stack'[sp][Len(stack'[sp])].ra = ra
    BY <1>4, <2>6
  <2>8. InHandler(sp)'
    BY <2>1, <2>2, <2>5, <2>7 DEF InHandler
  <2> QED
    BY <2>1, <2>8 DEF RunnerStack
<1>7. WaiterStacks'
  BY <1>1, <1>4, ZenonT(20) DEF IInv, TypeInv, RRTypeOK, WaiterStacks, InHandler, RunnerNamed, Creating, ClkHandler, main, Frame
<1>8. Creating' /\ RunnerNamed' /\ TurnKept'
  BY DEF IInv, TypeInv, RRTypeOK, Creating, RunnerNamed, TurnKept, ClkHandler, main, Frame
<1> QED
  BY <1>5, <1>6, <1>7, <1>8 DEF IInv

(* The steps that take frames off it.                                      *)
LEMMA ReturnKputsKeeps == IInv /\ ReturnKputs => IInv'
<1> SUFFICES ASSUME IInv, ReturnKputs PROVE IInv'
  OBVIOUS
<1> DEFINE top == stack[sp][Len(stack[sp])]
           n == Len(stack[sp]) - 1
           t == SubSeq(stack[sp], 1, n)
<1>1. /\ sp \in Tasks /\ stack[sp] \in Seq(Frames) /\ top \in Frames
      /\ n \in 0 .. Len(stack[sp])
  <2>1. sp \in Tasks /\ stack[sp] \in Seq(Frames)
    BY DEF IInv, TypeInv, RRTypeOK, RunnerNamed, ReturnKputs
  <2>2. Len(stack[sp]) \in 1 .. 3
    BY DEF IInv, RunnerStack, InHandler, ReturnKputs
  <2>3. Len(stack[sp]) \in 1 .. Len(stack[sp])
    BY <2>2
  <2>4. top \in Frames
    BY <2>1, <2>3, Element, Zenon
  <2>5. n \in 0 .. Len(stack[sp])
    BY <2>2, SMTT(20)
  <2> QED
    BY <2>1, <2>4, <2>5
<1>2. t \in Seq(Frames) /\ Len(t) = n
  BY <1>1, Cut
<1>3. stack' = [stack EXCEPT ![sp] = t]
  BY DEF ReturnKputs, main
<1>4. /\ stack' \in [Tasks -> Seq(Frames)]
      /\ stack'[sp] = t
      /\ \A i \in Tasks : i # sp => stack'[i] = stack[i]
  BY <1>1, <1>2, <1>3 DEF IInv, TypeInv
<1> HIDE DEF t
<1>5. TypeInv'
  <2>1. top.s0 \in {"zero", "main", "task", "kputs", "clkhandler"} /\ s0' = top.s0
    BY <1>1 DEF Frames, ReturnKputs
  <2>2. at' = "user"
    BY DEF IInv, RunnerStack, ReturnKputs
  <2> QED
    BY <1>4, <2>1, <2>2 DEF IInv, TypeInv, RRTypeOK, ReturnKputs, main
<1>6. RunnerStack'
  <2>1. at' = "user" /\ sp' = sp /\ ra' = "user" /\ n = 1
    BY DEF IInv, RunnerStack, ReturnKputs, main
  <2>2. Len(stack'[sp]) = 1
    BY <1>2, <1>4, <2>1
  <2> QED
    BY <2>1, <2>2 DEF RunnerStack
<1>7. WaiterStacks'
  BY <1>1, <1>4 DEF IInv, TypeInv, RRTypeOK, WaiterStacks, InHandler, RunnerNamed, Creating, ReturnKputs, main
<1>8. Creating' /\ RunnerNamed' /\ TurnKept'
  <2>1. at' = "user"
    BY DEF IInv, RunnerStack, ReturnKputs
  <2> QED
    BY <2>1 DEF IInv, Creating, RunnerNamed, TurnKept, ReturnKputs, main
<1> QED
  BY <1>5, <1>6, <1>7, <1>8 DEF IInv

LEMMA ResumedKeeps == IInv /\ Resumed => IInv'
<1> SUFFICES ASSUME IInv, Resumed PROVE IInv'
  OBVIOUS
<1> DEFINE top == stack[sp][Len(stack[sp])]
           n == LiveFrames(top.ra)
           t == SubSeq(stack[sp], 1, n)
<1>1. /\ sp \in Tasks /\ stack[sp] \in Seq(Frames) /\ top \in Frames
      /\ n \in 0 .. Len(stack[sp])
  <2>1. sp \in Tasks /\ stack[sp] \in Seq(Frames)
    BY DEF IInv, TypeInv, RRTypeOK, RunnerNamed, Resumed
  <2>2. Len(stack[sp]) \in 1 .. 3
    BY DEF IInv, RunnerStack, InHandler, Resumed
  <2>3. Len(stack[sp]) \in 1 .. Len(stack[sp])
    BY <2>2, SMTT(20)
  <2>4. top \in Frames
    BY <2>1, <2>3, Element, Zenon
  <2>5. n \in 0 .. Len(stack[sp])
    BY <2>2 DEF LiveFrames
  <2> QED
    BY <2>1, <2>4, <2>5
<1>2. t \in Seq(Frames) /\ Len(t) = n
  BY <1>1, Cut
<1>3. stack' = [stack EXCEPT ![sp] = t]
  BY DEF Resumed, main, LiveFrames
<1>4. /\ stack' \in [Tasks -> Seq(Frames)]
      /\ stack'[sp] = t
      /\ \A i \in Tasks : i # sp => stack'[i] = stack[i]
  BY <1>1, <1>2, <1>3 DEF IInv, TypeInv
<1> HIDE DEF t
<1>5. TypeInv'
  <2>1. /\ top.s0 \in {"zero", "main", "task", "kputs", "clkhandler"} /\ s0' = top.s0
        /\ top.ra \in {"entry", "user"} /\ at' = top.ra /\ ra' = top.ra
    BY <1>1 DEF Frames, Resumed
  <2> QED
    BY <1>4, <2>1 DEF IInv, TypeInv, RRTypeOK, Resumed, main
<1>6. RunnerStack'
  <2>1. /\ at' = top.ra /\ sp' = sp /\ ra' = top.ra /\ created' = created
        /\ top.ra \in {"entry", "user"}
    BY <1>1 DEF Frames, Resumed, main
  <2>2. top.ra = "entry" => sp \notin created
    BY DEF IInv, RunnerStack, InHandler, Resumed
  <2>3. Len(stack'[sp]) = IF top.ra = "entry" THEN 0 ELSE 1
    BY <1>2, <1>4 DEF LiveFrames
  <2> QED
    BY <2>1, <2>2, <2>3 DEF RunnerStack
<1>7. WaiterStacks'
  BY <1>1, <1>4 DEF IInv, TypeInv, RRTypeOK, WaiterStacks, InHandler, RunnerNamed, Creating, Resumed, main, LiveFrames
<1>8. Creating' /\ RunnerNamed' /\ TurnKept'
  <2>1. at' \in {"entry", "user"}
    BY <1>1 DEF Frames, Resumed
  <2> QED
    BY <2>1 DEF IInv, Creating, RunnerNamed, TurnKept, Resumed, main
<1> QED
  BY <1>5, <1>6, <1>7, <1>8 DEF IInv

-----------------------------------------------------------------------------
LEMMA InitHolds == RRInit => IInv
  BY DEF IInv, TypeInv, RRTypeOK, Frames, Context, Creating, RunnerNamed, TurnKept, RunnerStack,
      InHandler, WaiterStacks, RRInit

LEMMA StepHolds == IInv /\ [RRNext]_rrvars => IInv'
<1> SUFFICES ASSUME IInv, [RRNext]_rrvars PROVE IInv'
  OBVIOUS
<1>1. CASE UNCHANGED rrvars
  BY <1>1 DEF IInv, TypeInv, RRTypeOK, Frames, Context, Creating, RunnerNamed, TurnKept, RunnerStack,
      InHandler, WaiterStacks, rrvars
<1>2. CASE UserStep
  BY <1>2, PrologueKeeps, CallKputsKeeps, ReturnKputsKeeps DEF UserStep
<1>3. CASE OSStep
  BY <1>3, TaskCreateKeeps, StartLoopKeeps, TaskGoKeeps, GoSwitchKeeps, BackKeeps,
     ClkHandlerKeeps, TaskOsKeeps, ResumedKeeps DEF OSStep
<1>4. CASE Tick
  BY <1>4, TickKeeps
<1> QED
  BY <1>1, <1>2, <1>3, <1>4 DEF RRNext

LEMMA Invariant == RRSpec => []IInv
<1> QED
  BY InitHolds, StepHolds, PTL DEF RRSpec

(* Whatever the number of tasks, ctx_now, the stack in use and main's turn *)
(* name one task wherever an interrupt can come, so that task_os saves the *)
(* registers of a task in the context of that task.                        *)
THEOREM RunnerCorrect == RRSpec => []RunnerNamed
<1>1. IInv => RunnerNamed
  BY DEF IInv
<1> QED
  BY <1>1, Invariant, PTL

-----------------------------------------------------------------------------
(* How deep the stacks sink.                                               *)

\* The depth at which a tick still finds room for its frames.  A task that
\* runs on is below it by its own frames and those of the handler only.
Room == STACK_SIZE - 1 - TrapFrames
Reaches(n, place) ==
  /\ place \in {"entry", "clkhandler"} => n \in 0 .. Room
  /\ place \in {"begun", "user"} => n \in 0 .. Room + TaskFrame
  /\ place = "kputs" => n \in KputsFrame .. Room + TaskFrame + KputsFrame
  /\ place \in {"task_os", "resumed"} => n \in HandlerFrames .. Room + HandlerFrames

\* Where a task is, on the processor or in its context.
PlaceOf(i) == IF sp = i THEN at ELSE ctx[i].ra
Depths ==
  /\ depth \in [Tasks -> Int]
  /\ at = "create" => depth = [i \in Tasks |-> 0]
  /\ \A i \in Tasks : Reaches(depth[i], PlaceOf(i))

LEMMA RoomIs == Room \in Nat
  BY DEF Room, TrapFrames

(* The steps of the OS loop and the switches: every task stays where it is.*)
LEMMA SwitchDepths ==
  ASSUME IInv, Depths, TaskCreate \/ StartLoop \/ TaskGo \/ GoSwitch \/ Back \/ TaskOs
  PROVE  Depths'
<1>1. depth' = depth /\ (at' = "create" => at = "create")
  <2>1. ctx' \in [Tasks \cup {OS} -> Context] /\ current_task \in Tasks
    BY StepHolds DEF RRNext, OSStep, IInv, TypeInv, RRTypeOK
  <2>2. GoSwitch \/ TaskOs => at' # "create"
    BY <2>1 DEF GoSwitch, TaskOs, Switch, Context
  <2> QED
    BY <2>2 DEF TaskCreate, StartLoop, TaskGo, GoSwitch, Back, TaskOs
<1>2. CASE TaskCreate
  <2>1. \A i \in Tasks : depth[i] = 0 /\ PlaceOf(i)' \in {"entry", PlaceOf(i)}
    BY <1>2 DEF Depths, IInv, TypeInv, RRTypeOK, Creating, TaskCreate, PlaceOf, regs
  <2>2. \A i \in Tasks : Reaches(depth[i], PlaceOf(i)')
    BY <2>1, RoomIs DEF Depths, Reaches
  <2> QED
    BY <1>1, <2>2 DEF Depths
<1>3. CASE StartLoop \/ TaskGo \/ Back
  <2>1. sp = OS /\ sp' = sp /\ ctx' = ctx
    BY <1>3 DEF IInv, Creating, RunnerNamed, StartLoop, TaskGo, Back, main, regs
  <2>2. \A i \in Tasks : PlaceOf(i)' = PlaceOf(i)
    BY <2>1 DEF PlaceOf
  <2> QED
    BY <1>1, <2>2 DEF Depths
<1>4. CASE GoSwitch
  <2>1. /\ sp = OS /\ current_task \in Tasks
        /\ ctx' = [ctx EXCEPT ![OS] = [ra |-> "back", sp |-> sp, s0 |-> s0]]
        /\ sp' = ctx'[current_task].sp /\ at' = ctx'[current_task].ra
    BY <1>4 DEF IInv, TypeInv, RRTypeOK, RunnerNamed, GoSwitch, Switch
  <2>2. sp' = current_task
    BY <1>4, <2>1 DEF IInv, TypeInv, RRTypeOK, Creating, WaiterStacks, GoSwitch
  <2>3. \A i \in Tasks : ctx'[i] = ctx[i]
    BY <2>1 DEF IInv, TypeInv, RRTypeOK
  <2>4. \A i \in Tasks : PlaceOf(i)' = PlaceOf(i)
    BY <2>1, <2>2, <2>3 DEF PlaceOf
  <2> QED
    BY <1>1, <2>4 DEF Depths
<1>5. CASE TaskOs
  <2>1. /\ sp \in Tasks /\ at = "task_os" /\ ctx \in [Tasks \cup {OS} -> Context]
        /\ ctx' = [ctx EXCEPT ![sp] = [ra |-> "resumed", sp |-> sp, s0 |-> s0]]
        /\ sp' = OS
    BY <1>5 DEF IInv, TypeInv, RRTypeOK, RunnerNamed, TurnKept, TaskOs, Switch
  <2>2. \A i \in Tasks : PlaceOf(i)' = IF i = sp THEN "resumed" ELSE PlaceOf(i)
    BY <2>1 DEF PlaceOf
  <2>3. \A i \in Tasks : Reaches(depth[i], PlaceOf(i)')
    BY <2>1, <2>2 DEF Depths, Reaches, PlaceOf
  <2> QED
    BY <1>1, <2>3 DEF Depths
<1> QED
  BY <1>2, <1>3, <1>4, <1>5

(* The steps of the task that runs: it alone sinks or rises.               *)
LEMMA RunnerDepths ==
  ASSUME IInv, Depths, UserStep \/ Tick \/ ClkHandler \/ Resumed
  PROVE  Depths'
<1>1. sp \in Tasks /\ sp' = sp /\ ctx' = ctx /\ Reaches(depth[sp], at)
  BY DEF IInv, TypeInv, RRTypeOK, RunnerNamed, Depths, PlaceOf, UserStep, Prologue, CallKputs,
         ReturnKputs, Tick, ClkHandler, Resumed, main, regs
<1> DEFINE Sinks(n) == n \in Int /\ depth' = [depth EXCEPT ![sp] = n] /\ Reaches(n, at')
<1>2. PICK n : Sinks(n)
  <2>1. depth[sp] \in Int /\ Room \in Nat /\ Room + TrapFrames < STACK_SIZE
    BY <1>1, RoomIs DEF Depths, Room, TrapFrames
  <2>2. Prologue => Sinks(depth[sp] + TaskFrame)
    BY <1>1, <2>1 DEF Prologue, Push, Reaches, TaskFrame
  <2>3. CallKputs => Sinks(depth[sp] + KputsFrame)
    BY <1>1, <2>1 DEF CallKputs, Push, Reaches, TaskFrame, KputsFrame
  <2>4. ReturnKputs => Sinks(depth[sp] - KputsFrame)
    <3>1. ReturnKputs => at' = "user"
      BY DEF IInv, RunnerStack, ReturnKputs
    <3> QED
      BY <1>1, <2>1, <3>1 DEF ReturnKputs, Reaches, TaskFrame, KputsFrame
  <2>5. ASSUME Tick PROVE Sinks(depth[sp])
    <3>1. \/ at' = "overrun"
          \/ at' = "clkhandler" /\ depth[sp] + TrapFrames < STACK_SIZE
      BY <2>5 DEF Tick, HandledPc
    <3>2. depth[sp] >= 0
      BY <1>1, <2>5 DEF Reaches, Tick, KputsFrame
    <3>3. depth' = [depth EXCEPT ![sp] = depth[sp]]
      BY <2>5 DEF Tick, Depths
    <3> QED
      BY <2>1, <3>1, <3>2, <3>3 DEF Reaches, Room, TrapFrames
  <2>6. ClkHandler => Sinks(depth[sp] + HandlerFrames)
    BY <1>1, <2>1 DEF ClkHandler, Push, Reaches, HandlerFrames
  <2>7. ASSUME Resumed PROVE Sinks(depth[sp] - HandlerFrames)
    <3>1. stack[sp] \in Seq(Frames) /\ Len(stack[sp]) \in 1 .. 3
      BY <1>1, <2>7 DEF IInv, TypeInv, RunnerStack, InHandler, Resumed
    <3>2. \A k \in 1 .. 3 : k \in 1 .. k
      OBVIOUS
    <3>3. stack[sp][Len(stack[sp])] \in Frames
      BY <3>1, <3>2, Element, Zenon
    <3>4. at' \in {"entry", "user"}
      BY <2>7, <3>3 DEF Resumed, Frames
    <3>5. depth' = [depth EXCEPT ![sp] = depth[sp] - HandlerFrames]
      BY <2>7 DEF Resumed
    <3>6. depth[sp] \in HandlerFrames .. Room + HandlerFrames
      BY <1>1, <2>7 DEF Resumed, Reaches
    <3> QED
      BY <2>1, <3>4, <3>5, <3>6 DEF Reaches, HandlerFrames, TaskFrame
  <2> QED
    BY <2>2, <2>3, <2>4, <2>5, <2>6, <2>7 DEF UserStep
<1>3. at' # "create"
  <2>1. IInv'
    BY StepHolds DEF RRNext, OSStep
  <2> QED
    BY <1>1, <2>1 DEF IInv, Creating
<1>4. \A i \in Tasks : Reaches(depth'[i], PlaceOf(i)')
  BY <1>1, <1>2 DEF Depths, PlaceOf
<1>5. depth' \in [Tasks -> Int]
  BY <1>1, <1>2 DEF Depths, TaskFrame, KputsFrame, HandlerFrames
<1> QED
  BY <1>3, <1>4, <1>5 DEF Depths

LEMMA DepthInvariant == RRSpec => []Depths
<1>1. RRInit => Depths
  BY RoomIs DEF RRInit, Depths, Reaches, PlaceOf
<1>2. IInv /\ Depths /\ [RRNext]_rrvars => Depths'
  <2>1. UNCHANGED rrvars /\ Depths => Depths'
    BY DEF rrvars, Depths, PlaceOf
  <2> QED
    BY <2>1, SwitchDepths, RunnerDepths DEF RRNext, OSStep
<1> QED
  BY <1>1, <1>2, Invariant, PTL DEF RRSpec

(* Until a stack is overrun every saved context has its stack pointer in   *)
(* its own stack, below the frames its task returns through, and stands at *)
(* the entry of its task or in the frame of the handler: a switch to it    *)
(* goes on there, however many frames of interrupted calls lie above.      *)
THEOREM ContextsCorrect == RRSpec => []ContextsResumable
<1>1. ASSUME IInv, Depths, NEW i \in Tasks, i < taskTop, sp # i
      PROVE  depth[i] \in 0 .. STACK_SIZE - 1
  <2>1. ctx[i].ra \in {"entry", "resumed"}
    BY <1>1 DEF IInv, WaiterStacks
  <2>2. Reaches(depth[i], ctx[i].ra)
    BY <1>1 DEF Depths, PlaceOf
  <2> QED
    BY <2>1, <2>2, RoomIs DEF Reaches, Room, TrapFrames, HandlerFrames
<1>2. IInv /\ Depths => ContextsResumable
  <2> SUFFICES ASSUME IInv, Depths, NEW i \in 0 .. taskTop - 1, sp # i
               PROVE  /\ ctx[i].sp = i /\ depth[i] \in 0 .. STACK_SIZE - 1
                      /\ \/ ctx[i].ra = "entry" /\ stack[i] = <<>>
                         \/ /\ ctx[i].ra = "resumed" /\ ctx[i].s0 = "clkhandler"
                            /\ Len(stack[i]) \in 1 .. 3
    BY DEF ContextsResumable
  <2>1. i \in Tasks /\ i < taskTop
    BY DEF IInv, TypeInv, RRTypeOK
  <2> QED
    BY <1>1, <2>1 DEF IInv, WaiterStacks, InHandler
<1> QED
  BY <1>2, Invariant, DepthInvariant, PTL

(* Though the handler throws away the rest of the function it interrupts,  *)
(* no task prints its first line a second time.                            *)
THEOREM PrintsOnce == RRSpec => CreatedOnce
<1>1. IInv /\ [RRNext]_rrvars => [at = "begun" /\ at' = "kputs" => sp \notin created]_rrvars
  BY DEF IInv, RunnerStack
<1> QED
  BY <1>1, Invariant, PTL DEF RRSpec, CreatedOnce

(* The safety part of the refinement: the processor goes to the tasks in   *)
(* the order of their creation and nobody is passed over, until the stack  *)
(* of a task is overrun.                                                   *)
THEOREM TurnsImplemented ==
  RRSpec => Turns!Init /\ [][Turns!Pass \/ Turns!End]_<<(ran + 1) % NTASK, at = "overrun">>
<1>1. RRInit => Turns!Init
  BY FirstTurn DEF RRInit, Turns!Init
<1>2. IInv /\ [RRNext]_rrvars
        => [Turns!Pass \/ Turns!End]_<<(ran + 1) % NTASK, at = "overrun">>
  <2> SUFFICES ASSUME IInv, [RRNext]_rrvars
               PROVE  [Turns!Pass \/ Turns!End]_<<(ran + 1) % NTASK, at = "overrun">>
    OBVIOUS
  <2>1. CASE GoSwitch
    <3>1. ran' = (ran + 1) % NTASK /\ at # "overrun"
      BY <2>1 DEF IInv, TurnKept, GoSwitch
    <3>2. at' # "overrun"
      BY <2>1 DEF IInv, TypeInv, RRTypeOK, Context, GoSwitch, Switch
    <3> QED
      BY <3>1, <3>2 DEF Turns!Pass
  <2>2. CASE ran' = ran /\ at' = "overrun"
    BY <2>2 DEF Turns!End
  <2>3. CASE ran' = ran /\ at # "overrun" /\ at' # "overrun"
    BY <2>3
  <2>4. CASE UNCHANGED rrvars
    BY <2>4 DEF rrvars
  <2>5. CASE RRNext /\ ~GoSwitch
    <3>1. ran' = ran /\ at # "overrun"
      BY <2>5 DEF RRNext, UserStep, OSStep, TaskCreate, StartLoop, TaskGo, Back, Prologue,
         CallKputs, ReturnKputs, Tick, ClkHandler, TaskOs, Resumed
    <3> QED
      BY <3>1, <2>2, <2>3
  <2> QED
    BY <2>1, <2>4, <2>5
<1> QED
  BY <1>1, <1>2, Invariant, PTL DEF RRSpec
=============================================================================
