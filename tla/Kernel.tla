------------------------------- MODULE Kernel -------------------------------
(***************************************************************************)
(* The Xinu kernel as a whole: the system calls of the user processes, the *)
(* continuations of the calls that were rescheduled, the boot thread and   *)
(* the clock interrupt, interleaved as the scheduler decides.              *)
(*                                                                         *)
(* A call that returns SYSERR without touching the kernel's state is not a *)
(* step.  Calls selects the system calls that the processes make.          *)
(*                                                                         *)
(* Two assumptions about the clock, of this build and its emulator:        *)
(*   - The first tick comes after nulluser is done (BootPoints): clkinit   *)
(*     has set the timer to 65535, and the emulator counts one each 1024   *)
(*     instructions.                                                       *)
(*   - No tick hits the first instruction of disable(), the csrrci itself: *)
(*     clkhandler would return behind the call of disable() with           *)
(*     interrupts enabled.                                                 *)
(***************************************************************************)
EXTENDS Semaphores, Messages, Clock, Lifecycle

(* inicialize.c after ready(create(nullprocess), RESCHED_YES): process 0   *)
(* has been created, made ready and dispatched on the boot thread, the     *)
(* clock runs and every other entry of the tables is free.                 *)
Init ==
  /\ prstate   = [p \in Pid |-> IF p = NULLPROC THEN "CURR" ELSE "FREE"]
  /\ prprio    = [p \in Pid |-> IF p = NULLPROC THEN NullPrio ELSE 0]
  /\ prsem     = [p \in Pid |-> NoSem]
  /\ prparent  = [p \in Pid |-> NULLPROC]
  /\ prhasmsg  = [p \in Pid |-> FALSE]
  /\ prmsg     = [p \in Pid |-> 0]
  /\ prstkbase = [p \in Pid |-> IF p = NULLPROC THEN NSTK ELSE NoStack]
  /\ stkfree   = Stack \ {NSTK}
  /\ currpid   = NULLPROC
  /\ prcount   = 1
  /\ nextpid   = 1
  /\ readylist = << >>
  /\ sleepq    = << >>
  /\ qkey      = [p \in Pid |-> IF p = NULLPROC THEN NullPrio ELSE 0]
  /\ preempt   = QUANTUM
  /\ sstate    = [s \in Sem |-> "FREE"]
  /\ scount    = [s \in Sem |-> 0]
  /\ squeue    = [s \in Sem |-> << >>]
  /\ nextsem   = 0
  /\ pc        = [p \in Pid |-> IF p = NULLPROC THEN Point("null_create", 0, 0)
                                                ELSE UserCode]
  /\ waking    = FALSE
  /\ due       = [p \in Pid |-> 0]

SemaphoreCall ==
  \/ "wait"      \in Calls /\ \E s \in Sem : Wait(s)
  \/ "signal"    \in Calls /\ \E s \in Sem : Signal(s)
  \/ "signaln"   \in Calls /\ \E s \in Sem, n \in Counts : SignalN(s, n)
  \/ "semcreate" \in Calls /\ \E n \in Counts : SemCreate(n)
  \/ "semdelete" \in Calls /\ \E s \in Sem : SemDelete(s)
  \/ "semreset"  \in Calls /\ \E s \in Sem, n \in Counts : SemReset(s, n)

MessageCall ==
  \/ "send"     \in Calls /\ \E p \in Pid, m \in Msgs : Send(p, m)
  \/ "receive"  \in Calls /\ Receive
  \/ "recvclr"  \in Calls /\ RecvClr
  \/ "recvtime" \in Calls /\ \E d \in Delays : RecvTime(d)

ProcessCall ==
  \/ "create"  \in Calls /\ \E prio \in Prios : Create(prio) \/ CreateFail(prio)
  \/ "resume"  \in Calls /\ \E p \in Pid : Resume(p)
  \/ "suspend" \in Calls /\ \E p \in Pid : Suspend(p)
  \/ "chprio"  \in Calls /\ \E p \in Pid, prio \in Prios : Chprio(p, prio)
  \/ "kill"    \in Calls /\ \E p \in Pid : Kill(p)
  \/ "yield"   \in Calls /\ Yield
  \/ "sleepms" \in Calls /\ \E d \in Delays \cup {0} : SleepMs(d)

(* What goes on without a choice of the running process: the rest of its   *)
(* call, or of the clock handler that interrupted it.                      *)
Continue ==
  \/ SignalNStep \/ SemDeleteStep \/ SemResetStep
  \/ ReceiveBlock \/ ReceiveResched \/ ReceiveTake \/ RecvTimeTake
  \/ InsertdWalk \/ InsertdLink
  \/ KillRest
  \/ WakeupReady \/ WakeupResched
  \/ NullCreate \/ NullReady

Next == SemaphoreCall \/ MessageCall \/ ProcessCall \/ Continue \/ Tick

Spec == Init /\ [][Next]_vars

(* The kernel's own code always goes on.  The timer keeps its interrupt    *)
(* pending while interrupts are disabled, so it is taken if they are       *)
(* enabled again and again.  What user processes call is up to them.       *)
FairSpec == Spec /\ WF_vars(Continue) /\ SF_vars(Tick)

-----------------------------------------------------------------------------
(* Every variable has its type.                                            *)
TypeOK ==
  /\ prstate \in [Pid -> States]
  /\ prprio \in [Pid -> Int]
  /\ prsem \in [Pid -> Sem \cup {NoSem}]
  /\ prparent \in [Pid -> Pid]
  /\ prhasmsg \in [Pid -> BOOLEAN]
  /\ prmsg \in [Pid -> Pid]
  /\ prstkbase \in [Pid -> Stack \cup {NoStack}]
  /\ stkfree \subseteq Stack
  /\ currpid \in Pid
  /\ prcount \in Int
  /\ nextpid \in Pid
  /\ readylist \in Seq(Pid)
  /\ sleepq \in Seq(Pid)
  /\ qkey \in [Pid -> Int]
  /\ preempt \in 1 .. QUANTUM
  /\ sstate \in [Sem -> {"FREE", "USED"}]
  /\ scount \in [Sem -> Int]
  /\ squeue \in [Sem -> Seq(Pid)]
  /\ nextsem \in Sem
  /\ pc \in [Pid -> [at : IntrOn \cup IntrOff \cup BootPoints, obj : Nat, num : Int]]
  /\ waking \in BOOLEAN
  /\ due \in [Pid -> Int]

(* The processes in one of the states S, and those waiting on semaphore s. *)
WithState(st, S)       == {p \in Pid : st[p] \in S}
Waiters(st, onsem, s)  == {p \in Pid : st[p] = "WAIT" /\ onsem[p] = s}

(* The ready list holds exactly the ready processes.                       *)
ReadyListed == Enumerates(readylist, WithState(prstate, {"READY"}))

(* The sleep queue holds exactly the sleepers, with or without a message   *)
(* awaited.                                                                *)
SleepListed == Enumerates(sleepq, WithState(prstate, Sleeping))

(* A waiting process is on the queue of the semaphore prsem names and on   *)
(* no other.                                                               *)
WaitListed ==
  /\ \A s \in Sem : Enumerates(squeue[s], Waiters(prstate, prsem, s))
  /\ \A p \in Pid : prstate[p] = "WAIT" => prsem[p] \in Sem

(* Only currpid is current.  Unless processes call receive(), it is: a     *)
(* receive() whose resched was interrupted returns, and its caller runs on *)
(* with the state PR_RECV, or the next one a kill gives it.                *)
OneCurrent ==
  /\ \A p \in Pid : prstate[p] = "CURR" => p = currpid
  /\ prstate[currpid] = "CURR" \/ "receive" \in Calls

(* The null process is always current or ready, so that resched never      *)
(* dequeues from an empty ready list.                                      *)
NullRunnable == prstate[NULLPROC] \in {"CURR", "READY"}

(* A process is on exactly the queue its state names: no sequence of       *)
(* calls, kills, timeouts and reschedules loses a process or lists it on   *)
(* two of the queues whose links and keys share one entry of queuetab.     *)
QueuesMatchStates == ReadyListed /\ SleepListed /\ WaitListed /\ OneCurrent /\ NullRunnable

-----------------------------------------------------------------------------
(* The ready list is in descending key order, although its keys share      *)
(* queuetab with the delays of the sleep queue.                            *)
ReadySorted == Descending(readylist, qkey)

(* Xinu's scheduling invariant: whenever a process runs with interrupts    *)
(* enabled, no ready process has a higher priority.  Every call and the    *)
(* clock handler must have rescheduled after what they made ready.         *)
HighestPriorityRuns ==
  ~waking /\ pc[currpid].at \in IntrOn =>
    \A p \in Pid : prstate[p] = "READY" => prprio[p] <= prprio[currpid]

(* Without semdelete and semreset: a negative count is the number of       *)
(* processes waiting, and nobody waits otherwise, even after waiting       *)
(* processes were killed.                                                  *)
SemCount ==
  \A s \in Sem : Len(squeue[s]) = (IF scount[s] < 0 THEN -scount[s] ELSE 0)

(* The processes before p in the queue of s.                               *)
Ahead(s, p) == {squeue[s][i] : i \in {k \in 1 .. Len(squeue[s]) :
                  \E j \in k + 1 .. Len(squeue[s]) : squeue[s][j] = p}}

(* First come, first served: a process that stops waiting was the first of *)
(* its queue or is dead, and nobody gets ahead of one that goes on waiting.*)
ReleasedInOrder ==
  [][\A s \in Sem : \A p \in ToSet(squeue[s]) :
       IF p \in ToSet(squeue'[s])
       THEN Ahead(s, p)' \subseteq Ahead(s, p)
       ELSE prstate'[p] = "FREE" \/ p = Head(squeue[s])]_vars

(* A message is never lost: the flag is cleared only by the receiver       *)
(* itself or with the creation of a new process in the entry, and the      *)
(* message is not overwritten while the flag is set.                       *)
MessageKept ==
  [][\A p \in Pid : prhasmsg[p] =>
       \/ prhasmsg'[p] /\ prmsg'[p] = prmsg[p]
       \/ ~prhasmsg'[p] /\ (p = currpid \/ prstate[p] = "FREE")]_vars

(* A blocked receiver has no message: otherwise nobody would wake it,      *)
(* because send refuses a process whose message is pending.  receive()     *)
(* tests its buffer and sets its state with interrupts enabled; what saves *)
(* it is that a tick between the two leaves it.                            *)
BlockedHasNoMessage ==
  \A p \in Pid : prstate[p] \in {"RECV", "RECTIM"} => ~prhasmsg[p]

(* Every key of the sleep queue is the time from the previous wakeup, so   *)
(* that insertions, timeouts and early wakeups keep every process's time.  *)
DeltaKeys ==
  \A i \in 1 .. Len(sleepq) :
    qkey[sleepq[i]] = due[sleepq[i]] - (IF i = 1 THEN 0 ELSE due[sleepq[i - 1]])

(* No sleeper is late: outside wakeup() every sleeper has ticks to go.     *)
NotLate == ~waking => \A p \in Pid : prstate[p] \in Sleeping => due[p] >= 1

(* A sleeper runs again exactly when its delay has passed, or earlier only *)
(* because a message for it has arrived.                                   *)
WokenOnTime ==
  [][\A p \in Pid : prstate[p] \in Sleeping /\ prstate'[p] \in {"READY", "CURR"} =>
       \/ due[p] = 0
       \/ prstate[p] = "RECTIM" /\ ~prhasmsg[p] /\ prhasmsg'[p]]_vars

Live == {p \in Pid : prstate[p] # "FREE"}

(* The processes whose kill has begun and not ended.                       *)
Dying == {p \in Live : \E q \in Live : pc[q].at \in {"kill", "xdone"} /\ pc[q].obj = p}

(* prcount is the number of live processes, less those being killed.       *)
LiveCount == prcount = Cardinality(Live) - Cardinality(Dying)

(* The system stops only when its last user process is killed.             *)
HaltsLast == pc[currpid].at = "xdone" => Live = {NULLPROC} \cup Dying

(* Live processes have stacks of their own, none of them on the free list, *)
(* where the next create would take it.                                    *)
StackOwned ==
  /\ \A p \in Live : prstkbase[p] \in Stack \ stkfree
  /\ \A p, q \in Live : prstkbase[p] = prstkbase[q] => p = q

(* Every sleeper is woken, whatever the other processes do.                *)
SleeperWakes == \A p \in Pid : prstate[p] \in Sleeping ~> prstate[p] \notin Sleeping

(* Round robin: among processes of the highest priority in use, one that   *)
(* is ready gets its turn, even if the others never give up the processor. *)
TurnComes ==
  \A p \in Pid :
    prstate[p] = "READY" /\ (\A q \in Pid : prprio[q] <= prprio[p]) ~> prstate[p] # "READY"

-----------------------------------------------------------------------------
(* What comments of the code say and its races break.                      *)

(* "Wait for a message and return the message to the caller" (message.c:6):*)
(* receive() takes a message out of its buffer only when one is there.     *)
MessageThere ==
  Running("recv_take") \/ Running("recv_back") => prhasmsg[currpid]

(* "Awaken all processes that have no more time to sleep" (create.c:265):  *)
(* nobody sleeps past the end of its delay.                                *)
NotOverdue == ~waking => \A p \in Pid : prstate[p] \in Sleeping => due[p] >= 0

(* "Free all waiting processes" (semcreate.c:100): nobody is left waiting  *)
(* on a semaphore whose count says that nobody waits, once no process is   *)
(* deleting or resetting it any more.                                      *)
NoneStranded ==
  \A s \in Sem :
    (\A p \in Live : pc[p].at \in {"semdelete", "semreset"} => pc[p].obj # s)
      => (squeue[s] # << >> => scount[s] < 0)
=============================================================================
