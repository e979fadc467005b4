---------------------------- MODULE TableProofs ----------------------------
(***************************************************************************)
(* What the tables promise to the processes: a message is neither lost nor *)
(* overlooked, waiting processes are released in the order they came, the  *)
(* count of a semaphore is the number of its waiters, and the live         *)
(* processes are counted and own their stacks.                             *)
(*                                                                         *)
(* The arguments share two facts about every step: where each process may  *)
(* move in its code (ControlFlow, below) and in the state diagram          *)
(* (StepLife of SchedulerProofs).                                          *)
(***************************************************************************)
EXTENDS SchedulerProofs, FiniteSetTheorems

(* The arcs of a process's code: from the point at l it may reach the      *)
(* point at m in one step, if the workload has the call.                   *)
Enters(call) ==
  CASE call = "signaln"   -> {"signaln"}
    [] call = "semdelete" -> {"semdelete"}
    [] call = "semreset"  -> {"semreset"}
    [] call = "recvtime"  -> {"rectim", "recvtime"}
    [] call = "sleepms"   -> {"sleepms"}
    [] call = "kill"      -> {"kill", "xdone"}

Arcs == {<<"recvtime", "rectim">>, <<"null_create", "null_ready">>, <<"null_ready", "idle">>}

SplitCalls == {"signaln", "semdelete", "semreset", "recvtime", "sleepms", "kill"}

Moves(l, m) ==
  \/ l = m \/ m = "user"
  \/ l = "user" /\ \E call \in SplitCalls \cap Calls : m \in Enters(call)
  \/ <<l, m>> \in Arcs

FlowStep ==
  \A p \in Pid : pc'[p] = pc[p] \/ pc'[p] = UserCode
                 \/ (p = currpid /\ Moves(pc[p].at, pc'[p].at))

LEMMA GotoFlow ==
  ASSUME IInv, NEW point, Goto(point), Moves(pc[currpid].at, point.at)
  PROVE  FlowStep
BY DEF IInv, TypeOK, Goto, FlowStep

LEMMA EnterFlow ==
  ASSUME IInv, UserCall, NEW call \in SplitCalls \cap Calls, NEW l \in Enters(call),
         NEW o, NEW n, Goto(Point(l, o, n))
  PROVE  FlowStep
<1>1. pc[currpid].at = "user" /\ Point(l, o, n).at = l
  BY DEF UserCall, Running, Point
<1> QED BY <1>1, GotoFlow DEF Moves

LEMMA ReturnFlow == ASSUME IInv, Goto(UserCode) PROVE FlowStep
BY DEF IInv, TypeOK, Goto, FlowStep

LEMMA SameFlow == UNCHANGED pc => FlowStep
BY DEF FlowStep

LEMMA ControlFlow == IInv /\ [Next]_vars => FlowStep
<1> SUFFICES ASSUME IInv, [Next]_vars PROVE FlowStep
  OBVIOUS
<1> USE GotoFlow, EnterFlow, ReturnFlow, SameFlow
<1>1. CASE SemaphoreCall
  <2>1. "signaln" \in Enters("signaln") /\ "semdelete" \in Enters("semdelete")
        /\ "semreset" \in Enters("semreset")
        /\ {"signaln", "semdelete", "semreset"} \subseteq SplitCalls
    BY DEF Enters, SplitCalls
  <2>2. ASSUME NEW l \in {"signaln", "semdelete", "semreset"} \cap Calls, UserCall,
               NEW o, NEW n, Goto(Point(l, o, n))
        PROVE  FlowStep
    BY <2>1, <2>2
  <2> QED BY <1>1, <2>2
      DEF SemaphoreCall, Wait, Signal, SignalN, SemCreate, SemDelete, SemReset
<1>2. CASE MessageCall
  <2>1. {"rectim", "recvtime"} \subseteq Enters("recvtime") /\ "recvtime" \in SplitCalls
    BY DEF Enters, SplitCalls
  <2>2. ASSUME "recvtime" \in Calls, NEW d \in Delays, RecvTime(d) PROVE FlowStep
    <3>1. PICK l \in {"rectim", "recvtime"} : UserCall /\ \E n : Goto(Point(l, 0, n))
      BY <2>2 DEF RecvTime
    <3> QED BY <2>1, <2>2, <3>1
  <2> QED BY <1>2, <2>2 DEF MessageCall, Send, RecvClr, IInv, NoReceive
<1>3. CASE ProcessCall
  <2>1. /\ "sleepms" \in Enters("sleepms") /\ {"kill", "xdone"} \subseteq Enters("kill")
        /\ {"sleepms", "kill"} \subseteq SplitCalls
    BY DEF Enters, SplitCalls
  <2>2. ASSUME NEW prio \in Prios, Create(prio) PROVE FlowStep
    BY <2>2 DEF Create, FlowStep, IInv, TypeOK
  <2>3. ASSUME "kill" \in Calls, NEW p \in Pid, Kill(p) PROVE FlowStep
    <3>1. PICK l \in {"kill", "xdone"} : UserCall /\ Goto(Point(l, p, 0))
      BY <2>3 DEF Kill
    <3> QED BY <2>1, <2>3, <3>1
  <2>4. ASSUME "sleepms" \in Calls, NEW d \in Delays \cup {0}, SleepMs(d) PROVE FlowStep
    BY <2>1, <2>4 DEF SleepMs
  <2> QED BY <1>3, <2>2, <2>3, <2>4
      DEF ProcessCall, CreateFail, Resume, Suspend, Chprio, Yield
<1>4. CASE SignalNStep \/ SemDeleteStep \/ SemResetStep
  <2>1. ASSUME NEW o, NEW n, Running("signaln"), Goto(Point("signaln", o, n)) PROVE FlowStep
    BY <2>1 DEF Moves, Running, Point
  <2> QED BY <1>4, <2>1 DEF SignalNStep, SemDeleteStep, SemResetStep
<1>5. CASE RecvTimeTake
  BY <1>5 DEF RecvTimeTake
<1>6. CASE InsertdWalk
  <2>1. PICK o, n : Goto(Point(pc[currpid].at, o, n))
    BY <1>6 DEF InsertdWalk
  <2> QED BY <2>1 DEF Moves, Point
<1>7. CASE InsertdLink
  <2>1. CASE Goto(UserCode)
    BY <2>1
  <2>2. CASE pc[currpid].at # "sleepms" /\ Goto(Point("rectim", 0, 0))
    <3>1. pc[currpid].at = "recvtime"
      BY <1>7, <2>2 DEF InsertdLink, Inserting, Running
    <3> QED BY <2>2, <3>1 DEF Moves, Arcs, Point
  <2> QED BY <1>7, <2>1, <2>2 DEF InsertdLink
<1>8. CASE KillRest
  BY <1>8 DEF KillRest, FlowStep, IInv, TypeOK
<1>9. CASE NullCreate
  <2>1. PICK p \in Pid, b \in Stack :
          pc' = [pc EXCEPT ![currpid] = Point("null_ready", p, 0), ![p] = UserCode]
    BY <1>9 DEF NullCreate
  <2>2. pc[currpid].at = "null_create" /\ Moves("null_create", Point("null_ready", p, 0).at)
    BY <1>9 DEF NullCreate, Running, Moves, Arcs, Point
  <2> QED BY <2>1, <2>2 DEF FlowStep, IInv, TypeOK
<1>10. CASE NullReady
  BY <1>10 DEF NullReady, Running, Moves, Arcs, Point
<1>11. CASE Tick \/ WakeupReady \/ WakeupResched \/ UNCHANGED vars
  BY <1>11, TickInPlace DEF WakeupReady, WakeupResched, vars
<1> QED BY <1>1, <1>2, <1>3, <1>4, <1>5, <1>6, <1>7, <1>8, <1>9, <1>10, <1>11, NotReceiving
    DEF Next, Continue

-----------------------------------------------------------------------------
(* Messages.                                                               *)

(* Who waits for a message, or is about to in recvtime(), has none.        *)
Awaiting == {"RECV", "RECTIM"}

MsgInv ==
  \A p \in Pid : pc[p].at = "recvtime" \/ prstate[p] \in Awaiting => ~prhasmsg[p]

(* A step keeps the message of p, or p takes it, or the entry of p is used *)
(* for a new process.                                                      *)
KeepsMsg(p) ==
  prhasmsg[p] =>
    \/ prhasmsg'[p] /\ prmsg'[p] = prmsg[p]
    \/ ~prhasmsg'[p] /\ pc'[p].at = "user" /\ (p = currpid \/ prstate[p] = "FREE")

LEMMA SameMsg == UNCHANGED msgv => \A p \in Pid : KeepsMsg(p)
BY DEF msgv, KeepsMsg

LEMMA DeliverMsg ==
  ASSUME IInv, NEW q \in Pid, NEW m, Deliver(q, m)
  PROVE  \A p \in Pid : KeepsMsg(p)
<1>1. CASE UNCHANGED msgv
  BY <1>1, SameMsg
<1>2. CASE ~prhasmsg[q] /\ prmsg' = [prmsg EXCEPT ![q] = m]
           /\ prhasmsg' = [prhasmsg EXCEPT ![q] = TRUE]
  BY <1>2 DEF IInv, TypeOK, KeepsMsg
<1> QED BY <1>1, <1>2 DEF Deliver, BufferFull

LEMMA TakeKeepsMsg ==
  ASSUME IInv, TakeMsg, pc'[currpid].at = "user"
  PROVE  \A p \in Pid : KeepsMsg(p)
BY DEF IInv, TypeOK, TakeMsg, KeepsMsg

LEMMA CreatedMsg ==
  ASSUME IInv, NEW q \in Pid, NEW b, NEW prio, Created(q, b, prio), pc'[q] = UserCode
  PROVE  \A p \in Pid : KeepsMsg(p)
<1>1. /\ prstate[q] = "FREE" /\ prhasmsg' = [prhasmsg EXCEPT ![q] = FALSE]
      /\ UNCHANGED prmsg /\ pc'[q].at = "user" /\ prhasmsg \in [Pid -> BOOLEAN]
  BY DEF IInv, TypeOK, Created, IsNewPid, UserCode, Point
<1> QED BY <1>1 DEF KeepsMsg

LEMMA StepMsg == IInv /\ [Next]_vars => \A p \in Pid : KeepsMsg(p)
<1> SUFFICES ASSUME IInv, [Next]_vars PROVE \A p \in Pid : KeepsMsg(p)
  OBVIOUS
<1>1. currpid \in Pid /\ DOMAIN pc = Pid /\ UserCode.at = "user"
  BY DEF IInv, TypeOK, UserCode, Point
<1>2. CASE UNCHANGED msgv
  BY <1>2, SameMsg
<1>3. ASSUME NEW p \in Pid, NEW m \in Msgs, Send(p, m) PROVE \A q \in Pid : KeepsMsg(q)
  BY <1>3, DeliverMsg DEF Send
<1>4. CASE RecvClr
  BY <1>4, <1>1, TakeKeepsMsg DEF RecvClr, UserCall, Running
<1>5. CASE RecvTimeTake
  <2>1. pc'[currpid] = UserCode
    BY <1>5 DEF RecvTimeTake, Goto, IInv, TypeOK
  <2> QED BY <1>1, <1>2, <1>5, <2>1, TakeKeepsMsg DEF RecvTimeTake
<1>6. ASSUME NEW prio \in Prios, Create(prio) PROVE \A q \in Pid : KeepsMsg(q)
  <2>1. PICK p \in Pid, b \in Stack : Created(p, b, prio) /\ pc' = [pc EXCEPT ![p] = UserCode]
    BY <1>6 DEF Create
  <2>2. pc'[p] = UserCode
    BY <2>1 DEF IInv, TypeOK
  <2> QED BY <2>1, <2>2, CreatedMsg
<1>7. ASSUME NEW p \in Pid, Kill(p) PROVE \A q \in Pid : KeepsMsg(q)
  <2>1. prparent[p] \in Pid
    BY DEF IInv, TypeOK
  <2> QED BY <1>2, <1>7, <2>1, DeliverMsg DEF Kill
<1>8. CASE NullCreate
  <2>1. PICK p \in Pid, b \in Stack :
          /\ Created(p, b, MainPrio)
          /\ pc' = [pc EXCEPT ![currpid] = Point("null_ready", p, 0), ![p] = UserCode]
    BY <1>8 DEF NullCreate
  <2>2. pc'[p] = UserCode
    BY <2>1 DEF IInv, TypeOK
  <2> QED BY <2>1, <2>2, CreatedMsg
<1>9. CASE SemaphoreCall
  BY <1>2, <1>9 DEF SemaphoreCall, Wait, Signal, SignalN, SemCreate, SemDelete, SemReset
<1>10. CASE MessageCall
  BY <1>2, <1>3, <1>4, <1>10 DEF MessageCall, RecvTime, IInv, NoReceive
<1>11. CASE ProcessCall
  BY <1>2, <1>6, <1>7, <1>11
  DEF ProcessCall, CreateFail, Resume, Suspend, Chprio, Yield, SleepMs
<1>12. CASE Continue
  BY <1>2, <1>5, <1>8, <1>12, NotReceiving
  DEF Continue, SignalNStep, SemDeleteStep, SemResetStep, InsertdWalk, InsertdLink, KillRest,
      WakeupReady, WakeupResched, NullReady
<1>13. CASE Tick
  BY <1>2, <1>13 DEF Tick
<1>14. CASE UNCHANGED vars
  BY <1>2, <1>14 DEF vars
<1> QED BY <1>9, <1>10, <1>11, <1>12, <1>13, <1>14 DEF Next

(* How a process gets into recvtime() and to the points of kill().         *)
EndPoints == {"kill", "xdone"}

LEMMA EntersBy ==
  ASSUME IInv, [Next]_vars, pc[currpid].at = "user",
         pc'[currpid].at \in {"recvtime"} \cup EndPoints
  PROVE  \/ pc'[currpid].at = "recvtime" /\ ~prhasmsg[currpid] /\ UNCHANGED <<prhasmsg, prstate>>
         \/ "kill" \in Calls /\ \E p \in Pid : Kill(p) /\ pc'[currpid].at \in EndPoints
<1> USE DEF EndPoints
<1>1. currpid \in Pid /\ pc \in [Pid -> Points] /\ UserCode.at = "user"
  BY DEF IInv, TypeOK, NoReceive, Points, UserCode, Point
<1>2. UNCHANGED pc => FALSE
  OBVIOUS
<1>3. ASSUME NEW at \in {"signaln", "semdelete", "semreset", "rectim", "sleepms", "user"},
             NEW o, NEW n, Goto(Point(at, o, n))
      PROVE  FALSE
  BY <1>1, <1>3 DEF Goto, Point
<1>4. ASSUME NEW p \in Pid, pc' = [pc EXCEPT ![p] = UserCode] PROVE FALSE
  BY <1>1, <1>4
<1>5. CASE SemaphoreCall
  BY <1>2, <1>3, <1>5 DEF SemaphoreCall, Wait, Signal, SignalN, SemCreate, SemDelete, SemReset
<1>6. CASE MessageCall
  <2>1. ASSUME NEW d \in Delays, RecvTime(d)
        PROVE  /\ pc'[currpid].at = "recvtime" /\ ~prhasmsg[currpid]
               /\ UNCHANGED <<prhasmsg, prstate>>
    <3>1. CASE ~prhasmsg[currpid] /\ Goto(Point("recvtime", 0, d))
      BY <1>1, <2>1, <3>1 DEF RecvTime, sched, msgv, Goto, Point
    <3>2. CASE Goto(Point("rectim", 0, 0))
      BY <1>3, <3>2
    <3> QED BY <2>1, <3>1, <3>2 DEF RecvTime
  <2> QED BY <1>2, <1>6, <2>1 DEF MessageCall, Send, RecvClr, IInv, NoReceive
<1>7. CASE ProcessCall
  <2>1. ASSUME "kill" \in Calls, NEW p \in Pid, Kill(p)
        PROVE  "kill" \in Calls /\ Kill(p) /\ pc'[currpid].at \in EndPoints
    BY <1>1, <2>1 DEF Kill, Goto, Point
  <2> QED BY <1>2, <1>3, <1>4, <1>7, <2>1
      DEF ProcessCall, Create, CreateFail, Resume, Suspend, Chprio, Yield, SleepMs
<1>8. CASE Continue
  BY <1>2, <1>8, NotReceiving
  DEF Continue, SignalNStep, SemDeleteStep, SemResetStep, RecvTimeTake, InsertdWalk,
      InsertdLink, Inserting, KillRest, WakeupReady, WakeupResched, NullCreate, NullReady,
      Running
<1>9. CASE Tick
  BY <1>2, <1>9, TickInPlace
<1> QED BY <1>2, <1>5, <1>6, <1>7, <1>8, <1>9 DEF Next, vars

(* Who gets a message is not left waiting for one.                         *)
LEMMA DeliverWakes ==
  ASSUME IInv, NEW q \in Pid, NEW m, Deliver(q, m), NEW p \in Pid, ~prhasmsg[p], prhasmsg'[p]
  PROVE  prstate'[p] \notin Awaiting
<1>1. /\ q = p /\ prstate[p] # "FREE"
      /\ \/ prstate[p] = "RECV" /\ ReadyYes(p, qkey)
         \/ prstate[p] = "RECTIM" /\ \E i \in 1 .. Len(sleepq) : ReadyYes(p, UnsleptKeys(i))
         \/ prstate[p] \notin Awaiting /\ UNCHANGED sched
  <2>1. prhasmsg \in [Pid -> BOOLEAN] /\ ~UNCHANGED msgv
    BY DEF IInv, TypeOK, msgv
  <2>2. prstate[q] # "FREE" /\ prhasmsg' = [prhasmsg EXCEPT ![q] = TRUE]
    BY <2>1 DEF Deliver
  <2>3. q = p
    BY <2>1, <2>2
  <2> QED BY <2>1, <2>2, <2>3 DEF Deliver, Awaiting
<1>2. ASSUME prstate[p] \in Awaiting, NEW keys \in [Pid -> Int], ReadyYes(p, keys)
      PROVE  prstate'[p] \in Runnable
  BY <1>2, ReadyYesLife DEF Awaiting
<1>3. CASE UNCHANGED sched /\ prstate[p] \notin Awaiting
  BY <1>3 DEF sched
<1> QED BY <1>1, <1>2, <1>3, KeysThere, UnsleptSame DEF Awaiting, Runnable

LEMMA GetsAwake ==
  ASSUME IInv, [Next]_vars, NEW p \in Pid, ~prhasmsg[p], prhasmsg'[p]
  PROVE  prstate'[p] \notin Awaiting /\ pc'[p].at # "recvtime"
<1>1. UNCHANGED msgv => FALSE
  BY DEF msgv
<1>2. ASSUME NEW q \in Pid, prhasmsg' = [prhasmsg EXCEPT ![q] = FALSE] PROVE FALSE
  BY <1>2 DEF IInv, TypeOK
<1>3. currpid \in Pid /\ \A q \in Pid : prparent[q] \in Pid
  BY DEF IInv, TypeOK
<1>4. UserCall => pc[p].at # "recvtime"
  BY UserRuns DEF HeldPoints, WalkPoints
<1>5. ASSUME NEW q \in Pid, NEW m \in Msgs, Send(q, m)
      PROVE  prstate'[p] \notin Awaiting /\ pc'[p].at # "recvtime"
  BY <1>4, <1>5, DeliverWakes DEF Send
<1>6. ASSUME NEW q \in Pid, Kill(q)
      PROVE  prstate'[p] \notin Awaiting /\ pc'[p].at # "recvtime"
  <2>1. Deliver(prparent[q], q) \/ UNCHANGED msgv
    BY <1>6 DEF Kill
  <2>2. UserCall /\ \E at \in {"kill", "xdone"} : Goto(Point(at, q, 0))
    BY <1>6 DEF Kill
  <2>3. pc'[p].at # "recvtime"
    <3>1. PICK at \in {"kill", "xdone"} : pc' = [pc EXCEPT ![currpid] = Point(at, q, 0)]
      BY <2>2 DEF Goto
    <3>2. pc[p].at # "recvtime" /\ DOMAIN pc = Pid
      BY <1>4, <2>2 DEF IInv, TypeOK
    <3>3. Point(at, q, 0).at # "recvtime"
      BY DEF Point
    <3> QED BY <3>1, <3>2, <3>3
  <2> QED BY <1>1, <1>3, <2>1, <2>3, DeliverWakes
<1>7. CASE SemaphoreCall
  BY <1>1, <1>7 DEF SemaphoreCall, Wait, Signal, SignalN, SemCreate, SemDelete, SemReset
<1>8. CASE MessageCall
  BY <1>1, <1>2, <1>3, <1>5, <1>8 DEF MessageCall, RecvClr, TakeMsg, RecvTime, IInv, NoReceive
<1>9. CASE ProcessCall
  BY <1>1, <1>2, <1>6, <1>9
  DEF ProcessCall, Create, Created, CreateFail, Resume, Suspend, Chprio, Yield, SleepMs
<1>10. CASE Continue
  BY <1>1, <1>2, <1>3, <1>10, NotReceiving
  DEF Continue, SignalNStep, SemDeleteStep, SemResetStep, RecvTimeTake, TakeMsg, InsertdWalk,
      InsertdLink, KillRest, WakeupReady, WakeupResched, NullCreate, Created, NullReady
<1> QED BY <1>1, <1>7, <1>8, <1>9, <1>10 DEF Next, Tick, vars

LEMMA MsgInit == Init => MsgInv
BY DEF Init, MsgInv

LEMMA MsgStep == IInv /\ MsgInv /\ [Next]_vars => MsgInv'
<1> SUFFICES ASSUME IInv, MsgInv, [Next]_vars, NEW p \in Pid, prhasmsg'[p]
             PROVE  prstate'[p] \notin Awaiting /\ pc'[p].at # "recvtime"
  BY DEF MsgInv
<1>1. LifeStep(p) /\ FlowStep
  BY StepLife, ControlFlow
<1>2. CASE ~prhasmsg[p]
  BY <1>2, GetsAwake
<1>3. CASE prhasmsg[p]
  <2>1. prstate[p] \notin Awaiting /\ pc[p].at # "recvtime"
    BY <1>3 DEF MsgInv
  <2>2. prstate'[p] \notin Awaiting
    BY <1>1, <2>1
    DEF LifeStep, StaysIn, IsCreated, GivesUp, IsReleased, GetsMessage, WakesUp, IsKilled,
        Runnable, Awaiting
  <2>3. ASSUME pc'[p].at = "recvtime" PROVE FALSE
    <3>1. p = currpid /\ Moves(pc[p].at, "recvtime")
      BY <1>1, <2>1, <2>3 DEF FlowStep, UserCode, Point
    <3>2. pc[p].at = "user"
      BY <2>1, <3>1 DEF Moves, Arcs
    <3> QED BY <1>3, <2>3, <3>1, <3>2, EntersBy DEF EndPoints
  <2> QED BY <2>2, <2>3
<1> QED BY <1>2, <1>3

(* Who waits for a message in recvtime() has none in its buffer, where     *)
(* send() would refuse the next: between its test and its change of state  *)
(* no message comes, and the one that comes later wakes it.                *)
THEOREM BlockedReceivers ==
  ASSUME "receive" \notin Calls
  PROVE  Spec => []BlockedHasNoMessage
<1>1. MsgInv => BlockedHasNoMessage
  BY DEF MsgInv, BlockedHasNoMessage, Awaiting
<1> QED BY <1>1, MsgInit, MsgStep, Invariant, PTL DEF Spec

(* No message is lost or overwritten: the flag is cleared by the receiver, *)
(* or when a new process gets the entry.                                   *)
THEOREM MessagesKept ==
  ASSUME "receive" \notin Calls
  PROVE  Spec => MessageKept
<1> DEFINE Kept == \A p \in Pid : prhasmsg[p] =>
                     \/ prhasmsg'[p] /\ prmsg'[p] = prmsg[p]
                     \/ ~prhasmsg'[p] /\ (p = currpid \/ prstate[p] = "FREE")
<1>1. IInv /\ [Next]_vars => [Kept]_vars
  BY StepMsg DEF KeepsMsg
<1> QED BY <1>1, Invariant, PTL DEF Spec, MessageKept

-----------------------------------------------------------------------------
(* Semaphores: what a step may do to the state, the count and the queue of *)
(* semaphore s.                                                            *)
SemStays(s) == sstate'[s] = sstate[s] /\ scount'[s] = scount[s] /\ squeue'[s] = squeue[s]

Lowers(s) ==
  /\ sstate[s] = "USED" /\ sstate'[s] = sstate[s] /\ scount'[s] = scount[s] - 1
  /\ \/ /\ scount'[s] < 0
        /\ \E p \in Pid : p \notin ToSet(squeue[s]) /\ squeue'[s] = Append(squeue[s], p)
     \/ scount'[s] >= 0 /\ squeue'[s] = squeue[s]

Raises(s) ==
  /\ sstate'[s] = sstate[s] /\ scount'[s] = scount[s] + 1
  /\ \/ scount[s] < 0 /\ squeue[s] # << >> /\ squeue'[s] = Tail(squeue[s])
     \/ (scount[s] >= 0 \/ squeue[s] = << >>) /\ squeue'[s] = squeue[s]

LosesKilled(s) ==
  /\ sstate'[s] = sstate[s] /\ scount'[s] = scount[s] + 1
  /\ \E i \in 1 .. Len(squeue[s]) :
       prstate'[squeue[s][i]] = "FREE" /\ squeue'[s] = RemoveAt(squeue[s], i)

Opens(s) ==
  /\ sstate[s] = "FREE" /\ sstate'[s] = "USED"
  /\ scount'[s] \in Counts /\ squeue'[s] = squeue[s]

(* Only a delete closes it, and only a reset sets its count or releases    *)
(* a process without raising the count.                                    *)
Closes(s) == "semdelete" \in Calls /\ scount'[s] = scount[s] /\ squeue'[s] = squeue[s]

IsReset(s) ==
  /\ Running("semreset") /\ sstate'[s] = sstate[s]
  /\ \/ squeue'[s] = squeue[s]
     \/ squeue[s] # << >> /\ squeue'[s] = Tail(squeue[s])

SemStep(s) ==
  \/ SemStays(s) \/ Lowers(s) \/ Raises(s) \/ LosesKilled(s) \/ Opens(s)
  \/ Closes(s) \/ IsReset(s)

LEMMA SemTypes ==
  IInv => /\ sstate \in [Sem -> {"FREE", "USED"}] /\ scount \in [Sem -> Int]
          /\ squeue \in [Sem -> Seq(Pid)] /\ DOMAIN sstate = Sem
          /\ DOMAIN scount = Sem /\ DOMAIN squeue = Sem
BY DEF IInv, TypeOK

LEMMA StillSem ==
  UNCHANGED <<sstate, scount, squeue>> => \A s \in Sem : SemStep(s)
BY DEF SemStep, SemStays

(* Who waits is not current.                                               *)
LEMMA QueuedWait ==
  ASSUME IInv, NEW s \in Sem, NEW p \in ToSet(squeue[s])
  PROVE  p \in Pid /\ prstate[p] = "WAIT"
<1>1. squeue[s] \in Seq(Waiters(prstate, prsem, s))
  BY DEF IInv, QueuesMatchStates, WaitListed, Enumerates
<1>2. PICK i \in 1 .. Len(squeue[s]) : p = squeue[s][i]
  BY <1>1 DEF ToSet
<1>3. p \in Waiters(prstate, prsem, s)
  BY <1>1, <1>2
<1> QED BY <1>3 DEF Waiters

LEMMA RaiseSem ==
  ASSUME IInv, NEW s \in Sem, UNCHANGED sstate, scount' = [scount EXCEPT ![s] = @ + 1],
         \/ \E resch \in BOOLEAN : HasWaiter(scount[s]) /\ Release(s, resch)
         \/ ~HasWaiter(scount[s]) /\ UNCHANGED squeue
  PROVE  \A t \in Sem : SemStep(t)
<1> USE SemTypes
<1>1. Raises(s)
  BY DEF Raises, HasWaiter, Release
<1>2. \A t \in Sem \ {s} : SemStays(t)
  BY DEF SemStays, Release
<1> QED BY <1>1, <1>2 DEF SemStep

LEMMA WaitSem == ASSUME IInv, NEW s \in Sem, Wait(s) PROVE \A t \in Sem : SemStep(t)
<1> USE SemTypes
<1>1. /\ currpid \in Pid /\ currpid \notin ToSet(squeue[s])
      /\ sstate[s] = "USED" /\ UNCHANGED sstate
      /\ scount' = [scount EXCEPT ![s] = @ - 1]
  BY UserRuns, QueuedWait DEF Wait
<1>2. CASE MustBlock(scount[s] - 1) /\ squeue' = [squeue EXCEPT ![s] = Append(@, currpid)]
  <2>1. Lowers(s)
    BY <1>1, <1>2 DEF Lowers, MustBlock
  <2>2. \A t \in Sem \ {s} : SemStays(t)
    BY <1>1, <1>2 DEF SemStays
  <2> QED BY <2>1, <2>2 DEF SemStep
<1>3. CASE ~MustBlock(scount[s] - 1) /\ UNCHANGED squeue
  <2>1. Lowers(s)
    BY <1>1, <1>3 DEF Lowers, MustBlock
  <2>2. \A t \in Sem \ {s} : SemStays(t)
    BY <1>1, <1>3 DEF SemStays
  <2> QED BY <2>1, <2>2 DEF SemStep
<1> QED BY <1>2, <1>3 DEF Wait

LEMMA SemaphoreSem == ASSUME IInv, SemaphoreCall PROVE \A t \in Sem : SemStep(t)
<1> USE SemTypes
<1>1. ASSUME NEW s \in Sem, Signal(s) PROVE \A t \in Sem : SemStep(t)
  BY <1>1, RaiseSem DEF Signal
<1>2. ASSUME NEW n \in Counts, SemCreate(n) PROVE \A t \in Sem : SemStep(t)
  <2>1. PICK s \in Sem :
          /\ IsNewSem(s) /\ sstate' = [sstate EXCEPT ![s] = "USED"]
          /\ scount' = [scount EXCEPT ![s] = n] /\ UNCHANGED squeue
    BY <1>2 DEF SemCreate
  <2>2. Opens(s) /\ \A t \in Sem \ {s} : SemStays(t)
    BY <2>1 DEF Opens, SemStays, IsNewSem
  <2> QED BY <2>2 DEF SemStep
<1>3. ASSUME "semdelete" \in Calls, NEW s \in Sem, SemDelete(s) PROVE \A t \in Sem : SemStep(t)
  BY <1>3 DEF SemDelete, SemStep, Closes
<1> QED BY <1>1, <1>2, <1>3, WaitSem, StillSem DEF SemaphoreCall, SignalN, SemReset, semv

LEMMA SemLoopSem ==
  ASSUME IInv, SignalNStep \/ SemDeleteStep \/ SemResetStep
  PROVE  \A t \in Sem : SemStep(t)
<1> DEFINE s == pc[currpid].obj
<1>1. s \in Sem /\ UNCHANGED sstate
  <2>1. PICK l \in {"signaln", "semdelete", "semreset"} : Running(l)
    BY DEF SignalNStep, SemDeleteStep, SemResetStep
  <2>2. l \notin BootPoints \cup {"idle"}
    BY DEF BootPoints
  <2> QED BY <2>1, <2>2, RunningAt
      DEF IInv, PointsOK, LocalsOK, SignalNStep, SemDeleteStep, SemResetStep
<1>2. CASE SignalNStep
  <2>1. CASE UNCHANGED <<scount, squeue>>
    BY <1>1, <2>1, StillSem
  <2>2. CASE scount' = [scount EXCEPT ![s] = @ + 1]
             /\ \/ HasWaiter(scount[s]) /\ Release(s, FALSE)
                \/ ~HasWaiter(scount[s]) /\ UNCHANGED squeue
    BY <1>1, <2>2, RaiseSem
  <2> QED BY <1>2, <2>1, <2>2 DEF SignalNStep
<1>3. CASE SemDeleteStep
  <2>1. scount' = [scount EXCEPT ![s] = @ + 1]
        /\ \/ HasWaiter(scount[s]) /\ Release(s, TRUE)
           \/ ~HasWaiter(scount[s]) /\ UNCHANGED squeue
    BY <1>3 DEF SemDeleteStep
  <2> QED BY <1>1, <2>1, RaiseSem
<1>4. CASE SemResetStep
  <2>1. /\ Running("semreset")
        /\ \/ Release(s, TRUE)
           \/ UNCHANGED squeue
    BY <1>4 DEF SemResetStep
  <2> HIDE DEF s
  <2>2. \A t \in Sem : IsReset(t)
    BY <1>1, <2>1, SemTypes DEF IsReset, Release
  <2> QED BY <2>2 DEF SemStep
<1> QED BY <1>2, <1>3, <1>4

LEMMA KillRestSem == ASSUME IInv, KillRest PROVE \A t \in Sem : SemStep(t)
<1> DEFINE p == pc[currpid].obj
<1>1. /\ p \in Pid /\ UNCHANGED sstate
      /\ KillCurr(p) \/ KillSleeping(p) \/ KillWaiting(p) \/ KillReady(p) \/ KillOther(p)
  BY KillerRuns DEF KillRest
<1>2. CASE KillWaiting(p)
  <2> DEFINE s == prsem[p]
  <2>1. prstate[p] = "WAIT" /\ s \in Sem
    BY <1>1, <1>2 DEF KillWaiting, IInv, QueuesMatchStates, WaitListed
  <2>2. PICK i \in 1 .. Len(squeue[s]) :
          squeue[s][i] = p /\ squeue' = [squeue EXCEPT ![s] = RemoveAt(@, i)]
    BY <1>2 DEF KillWaiting
  <2>3. prstate'[p] = "FREE" /\ scount' = [scount EXCEPT ![s] = @ + 1]
    BY <1>1, <1>2 DEF KillWaiting, FreeEntry, IInv, TypeOK
  <2> HIDE DEF s
  <2>4. LosesKilled(s)
    BY <1>1, <2>1, <2>2, <2>3, SemTypes DEF LosesKilled
  <2>5. \A t \in Sem \ {s} : SemStays(t)
    BY <1>1, <2>1, <2>2, <2>3, SemTypes DEF SemStays
  <2> QED BY <2>4, <2>5 DEF SemStep
<1>3. CASE ~KillWaiting(p)
  BY <1>1, <1>3, StillSem DEF KillCurr, KillSleeping, KillReady, KillOther
<1> QED BY <1>2, <1>3

LEMMA StepSem == IInv /\ [Next]_vars => \A s \in Sem : SemStep(s)
<1> SUFFICES ASSUME IInv, [Next]_vars PROVE \A s \in Sem : SemStep(s)
  OBVIOUS
<1>1. CASE UNCHANGED semv
  BY <1>1, StillSem DEF semv
<1>2. CASE MessageCall
  BY <1>1, <1>2 DEF MessageCall, Send, Receive, RecvClr, RecvTime
<1>3. CASE ProcessCall
  BY <1>1, <1>3
  DEF ProcessCall, Create, Created, CreateFail, Resume, Suspend, Chprio, Kill, Yield, SleepMs
<1>4. CASE Continue
  BY <1>1, <1>4, SemLoopSem, KillRestSem
  DEF Continue, ReceiveBlock, ReceiveResched, ReceiveTake, RecvTimeTake, InsertdWalk,
      InsertdLink, WakeupReady, WakeupResched, NullCreate, Created, NullReady
<1> QED BY <1>1, <1>2, <1>3, <1>4, SemaphoreSem DEF Next, Tick, vars

(* First come, first served.  Before(q, p) are the processes ahead of p in *)
(* the queue q.                                                            *)
Before(q, p) == {q[i] : i \in {k \in 1 .. Len(q) : \E j \in k + 1 .. Len(q) : q[j] = p}}

InOrder(q, r, p) ==
  IF p \in ToSet(r) THEN Before(r, p) \subseteq Before(q, p) ELSE p = Head(q)

LEMMA MemberAt ==
  ASSUME NEW S, NEW q \in Seq(S), NEW p
  PROVE  p \in ToSet(q) <=> \E i \in 1 .. Len(q) : q[i] = p
BY DEF ToSet

LEMMA AheadOf ==
  ASSUME NEW q, NEW p, NEW i \in 1 .. Len(q), NEW j \in i + 1 .. Len(q), q[j] = p
  PROVE  q[i] \in Before(q, p)
BY DEF Before

LEMMA AppendInOrder ==
  ASSUME NEW q \in Seq(Pid), NEW x \in Pid, x \notin ToSet(q), NEW p \in ToSet(q)
  PROVE  InOrder(q, Append(q, x), p)
<1> DEFINE r == Append(q, x)
<1>1. /\ r \in Seq(Pid) /\ Len(q) \in Nat /\ Len(r) = Len(q) + 1 /\ r[Len(q) + 1] = x
      /\ \A i \in 1 .. Len(q) : r[i] = q[i]
  OBVIOUS
<1>2. PICK k \in 1 .. Len(q) : q[k] = p
  BY MemberAt
<1> HIDE DEF r
<1>3. p \in ToSet(r) /\ p # x
  BY <1>1, <1>2, MemberAt
<1>4. ASSUME NEW i \in 1 .. Len(r), NEW j \in i + 1 .. Len(r), r[j] = p
      PROVE  r[i] \in Before(q, p)
  <2>1. i \in 1 .. Len(q) /\ j \in i + 1 .. Len(q) /\ r[i] = q[i] /\ q[j] = p
    BY <1>1, <1>3, <1>4
  <2> QED BY <2>1, AheadOf
<1>5. Before(r, p) \subseteq Before(q, p)
  BY <1>4 DEF Before
<1> QED BY <1>3, <1>5 DEF InOrder, r

LEMMA TailInOrder ==
  ASSUME NEW q \in Seq(Pid), q # << >>, NEW p \in ToSet(q)
  PROVE  InOrder(q, Tail(q), p)
<1> DEFINE r == Tail(q)
<1>1. /\ r \in Seq(Pid) /\ Len(q) \in Nat \ {0} /\ Len(r) = Len(q) - 1 /\ Head(q) = q[1]
      /\ \A i \in 1 .. Len(r) : r[i] = q[i + 1]
  OBVIOUS
<1> HIDE DEF r
<1>2. CASE p \in ToSet(r)
  <2>1. ASSUME NEW i \in 1 .. Len(r), NEW j \in i + 1 .. Len(r), r[j] = p
        PROVE  r[i] \in Before(q, p)
    <3>1. /\ i + 1 \in 1 .. Len(q) /\ j + 1 \in (i + 1) + 1 .. Len(q)
          /\ r[i] = q[i + 1] /\ q[j + 1] = p
      BY <1>1, <2>1
    <3> QED BY <3>1, AheadOf
  <2> QED BY <1>2, <2>1 DEF InOrder, Before, r
<1>3. CASE p \notin ToSet(r)
  <2>1. PICK k \in 1 .. Len(q) : q[k] = p
    BY MemberAt
  <2>2. k = 1
    <3> SUFFICES ASSUME k # 1 PROVE FALSE
      OBVIOUS
    <3>1. k - 1 \in 1 .. Len(r) /\ r[k - 1] = p
      BY <1>1, <2>1
    <3> QED BY <1>1, <1>3, <3>1, MemberAt
  <2> QED BY <1>1, <1>3, <2>1, <2>2 DEF InOrder, r
<1> QED BY <1>2, <1>3

LEMMA RemoveInOrder ==
  ASSUME NEW q \in Seq(Pid), NEW i \in 1 .. Len(q), NEW p \in ToSet(q)
  PROVE  \/ p = q[i] /\ p \notin ToSet(RemoveAt(q, i))
         \/ InOrder(q, RemoveAt(q, i), p)
<1> DEFINE r == RemoveAt(q, i)
<1>1. /\ r \in Seq(Pid) /\ Len(r) = Len(q) - 1
      /\ \A j \in 1 .. Len(q) - 1 : r[j] = IF j < i THEN q[j] ELSE q[j + 1]
  BY RemoveAtPlaces
<1>2. Len(q) \in Nat /\ i \in Nat
  OBVIOUS
<1> HIDE DEF r
<1>3. CASE p \in ToSet(r)
  <2>1. ASSUME NEW k \in 1 .. Len(r), NEW j \in k + 1 .. Len(r), r[j] = p
        PROVE  r[k] \in Before(q, p)
    <3> DEFINE a == IF k < i THEN k ELSE k + 1
               b == IF j < i THEN j ELSE j + 1
    <3>1. a \in 1 .. Len(q) /\ b \in a + 1 .. Len(q) /\ r[k] = q[a] /\ q[b] = p
      BY <1>1, <1>2, <2>1
    <3> HIDE DEF a, b
    <3> QED BY <3>1, AheadOf
  <2> QED BY <1>3, <2>1 DEF InOrder, Before, r
<1>4. CASE p \notin ToSet(r)
  <2>1. PICK k \in 1 .. Len(q) : q[k] = p
    BY MemberAt
  <2>2. k = i
    <3> SUFFICES ASSUME k # i PROVE FALSE
      OBVIOUS
    <3>1. CASE k < i
      <4>1. k \in 1 .. Len(r) /\ r[k] = p
        BY <1>1, <1>2, <2>1, <3>1
      <4> QED BY <1>1, <1>4, <4>1, MemberAt
    <3>2. CASE k > i
      <4>1. k - 1 \in 1 .. Len(r) /\ r[k - 1] = p
        BY <1>1, <1>2, <2>1, <3>2
      <4> QED BY <1>1, <1>4, <4>1, MemberAt
    <3> QED BY <1>2, <3>1, <3>2
  <2> QED BY <1>4, <2>1, <2>2 DEF r
<1> QED BY <1>3, <1>4

(* Every semaphore releases its waiters in the order they came, in every   *)
(* workload without receive(): no signal, delete, reset or kill lets one   *)
(* overtake another, and nobody but the first and the killed stops waiting.*)
THEOREM FirstComeFirstServed ==
  ASSUME "receive" \notin Calls
  PROVE  Spec => ReleasedInOrder
<1> DEFINE Order == \A s \in Sem : \A p \in ToSet(squeue[s]) :
                      IF p \in ToSet(squeue'[s])
                      THEN Ahead(s, p)' \subseteq Ahead(s, p)
                      ELSE prstate'[p] = "FREE" \/ p = Head(squeue[s])
<1>1. IInv /\ [Next]_vars => [Order]_vars
  <2> SUFFICES ASSUME IInv, [Next]_vars, NEW s \in Sem, NEW p \in ToSet(squeue[s])
               PROVE  IF p \in ToSet(squeue'[s])
                      THEN Ahead(s, p)' \subseteq Ahead(s, p)
                      ELSE prstate'[p] = "FREE" \/ p = Head(squeue[s])
    OBVIOUS
  <2>1. squeue[s] \in Seq(Pid) /\ SemStep(s)
    BY SemTypes, StepSem
  <2>2. Ahead(s, p) = Before(squeue[s], p) /\ Ahead(s, p)' = Before(squeue'[s], p)
    BY DEF Ahead, Before
  <2>3. CASE squeue'[s] = squeue[s]
    BY <2>2, <2>3
  <2>4. CASE \E x \in Pid : x \notin ToSet(squeue[s]) /\ squeue'[s] = Append(squeue[s], x)
    BY <2>1, <2>2, <2>4, AppendInOrder DEF InOrder
  <2>5. CASE squeue[s] # << >> /\ squeue'[s] = Tail(squeue[s])
    BY <2>1, <2>2, <2>5, TailInOrder DEF InOrder
  <2>6. CASE LosesKilled(s)
    <3>1. PICK i \in 1 .. Len(squeue[s]) :
            prstate'[squeue[s][i]] = "FREE" /\ squeue'[s] = RemoveAt(squeue[s], i)
      BY <2>6 DEF LosesKilled
    <3> QED BY <2>1, <2>2, <3>1, RemoveInOrder DEF InOrder
  <2> QED BY <2>1, <2>3, <2>4, <2>5, <2>6
      DEF SemStep, SemStays, Lowers, Raises, Opens, Closes, IsReset
<1> QED BY <1>1, Invariant, PTL DEF Spec, ReleasedInOrder

(* The count.  It can be right only where no call gives a semaphore up or  *)
(* sets its count, and while an entry is free its queue is empty.          *)
CountInv ==
  /\ SemCount
  /\ \A s \in Sem : sstate[s] = "FREE" => squeue[s] = << >>
  /\ \A p \in Pid : pc[p].at # "semreset"

LEMMA CountInit == Init => CountInv
BY DEF Init, CountInv, SemCount, UserCode, Point

LEMMA CountStep ==
  ASSUME "semdelete" \notin Calls, "semreset" \notin Calls
  PROVE  IInv /\ CountInv /\ [Next]_vars => CountInv'
<1> SUFFICES ASSUME IInv, CountInv, [Next]_vars PROVE CountInv'
  OBVIOUS
<1>1. \A p \in Pid : pc'[p].at # "semreset"
  BY ControlFlow
  DEF CountInv, FlowStep, Moves, Arcs, SplitCalls, Enters, UserCode, Point
<1>2. ASSUME NEW s \in Sem
      PROVE  /\ Len(squeue'[s]) = IF scount'[s] < 0 THEN -scount'[s] ELSE 0
             /\ sstate'[s] = "FREE" => squeue'[s] = << >>
  <2> DEFINE q == squeue[s]
             n == scount[s]
  <2>1. /\ q \in Seq(Pid) /\ n \in Int /\ Len(q) \in Nat
        /\ Len(q) = IF n < 0 THEN -n ELSE 0
        /\ sstate[s] = "FREE" => q = << >>
    BY SemTypes DEF CountInv, SemCount
  <2>2. currpid \in Pid
    BY DEF IInv, TypeOK
  <2>3. ~IsReset(s) /\ ~Closes(s)
    BY <2>2 DEF CountInv, IsReset, Running, Closes
  <2>4. CASE SemStays(s)
    BY <2>1, <2>4 DEF SemStays
  <2>5. CASE Lowers(s)
    <3>1. /\ sstate'[s] # "FREE" /\ scount'[s] = n - 1
          /\ \/ n - 1 < 0 /\ \E p \in Pid : squeue'[s] = Append(q, p)
             \/ n - 1 >= 0 /\ squeue'[s] = q
      BY <2>5 DEF Lowers
    <3>2. \A p \in Pid : Len(Append(q, p)) = Len(q) + 1
      BY <2>1
    <3> HIDE DEF q, n
    <3> QED BY <2>1, <3>1, <3>2
  <2>6. CASE Raises(s)
    <3>1. /\ sstate'[s] = sstate[s] /\ scount'[s] = n + 1
          /\ \/ n < 0 /\ q # << >> /\ squeue'[s] = Tail(q)
             \/ (n >= 0 \/ q = << >>) /\ squeue'[s] = q
      BY <2>6 DEF Raises
    <3>2. q # << >> => Len(Tail(q)) = Len(q) - 1
      BY <2>1
    <3>3. q = << >> <=> Len(q) = 0
      BY <2>1
    <3> HIDE DEF q, n
    <3> QED BY <2>1, <3>1, <3>2, <3>3
  <2>7. CASE LosesKilled(s)
    <3>1. PICK i \in 1 .. Len(q) : squeue'[s] = RemoveAt(q, i)
      BY <2>7 DEF LosesKilled
    <3>2. Len(squeue'[s]) = Len(q) - 1 /\ q # << >>
      BY <2>1, <3>1, RemoveAtPlaces
    <3>3. sstate'[s] = sstate[s] /\ scount'[s] = n + 1
      BY <2>7 DEF LosesKilled
    <3>4. q = << >> <=> Len(q) = 0
      BY <2>1
    <3> HIDE DEF q, n
    <3> QED BY <2>1, <3>2, <3>3, <3>4
  <2>8. CASE Opens(s)
    <3>1. /\ scount'[s] \in Counts /\ squeue'[s] = q
          /\ sstate'[s] # "FREE" /\ sstate[s] = "FREE"
      BY <2>8 DEF Opens
    <3>2. scount'[s] \in Nat
      BY <3>1, CountsAssumption
    <3>3. Len(<< >>) = 0
      OBVIOUS
    <3> HIDE DEF q
    <3> QED BY <2>1, <3>1, <3>2, <3>3
  <2> QED BY <2>3, <2>4, <2>5, <2>6, <2>7, <2>8, StepSem DEF SemStep
<1> QED BY <1>1, <1>2 DEF CountInv, SemCount

(* A negative count is the number of the processes waiting and nobody      *)
(* waits otherwise, in every workload without semdelete, semreset and      *)
(* receive(): also inside signaln and after waiting processes were killed. *)
THEOREM CountsWaiters ==
  ASSUME "receive" \notin Calls, "semdelete" \notin Calls, "semreset" \notin Calls
  PROVE  Spec => []SemCount
<1>1. CountInv => SemCount
  BY DEF CountInv
<1> QED BY <1>1, CountInit, CountStep, Invariant, PTL DEF Spec

-----------------------------------------------------------------------------
(* Processes: the count of the live ones, the halt and the stacks.  All of *)
(* it depends on kill() being one piece, and it is unless the message to   *)
(* the parent wakes the parent, that is, unless processes wait for         *)
(* messages in a workload with kills (the run kill_halt shows such a one). *)
NobodyBlocks ==
  "kill" \in Calls =>
    \A p \in Pid : prstate[p] \notin Awaiting /\ pc[p].at # "recvtime"

Killers ==
  \A p \in Pid : pc[p].at \in EndPoints =>
    /\ p = currpid /\ ~waking /\ prstate[p] = "CURR"
    /\ pc[p].obj \in Pid \ {NULLPROC} /\ prstate[pc[p].obj] # "FREE"

ProcInv == NobodyBlocks /\ Killers /\ LiveCount /\ HaltsLast /\ StackOwned

NobodyKills == \A p \in Pid : pc[p].at \notin EndPoints

LEMMA NobodyDies == NobodyKills => Dying = {}
BY DEF NobodyKills, Dying, Live, EndPoints

LEMMA LiveFinite == IsFiniteSet(Live) /\ Cardinality(Live) \in Nat
<1>1. IsFiniteSet(Pid)
  BY NprocAssumption, FS_Interval DEF Pid
<1>2. Live \subseteq Pid
  BY DEF Live
<1> QED BY <1>1, <1>2, FS_Subset, FS_CardinalityType

LEMMA NobodyBlocksStep ==
  ASSUME "kill" \in Calls => "recvtime" \notin Calls
  PROVE  IInv /\ NobodyBlocks /\ [Next]_vars => NobodyBlocks'
<1> SUFFICES ASSUME IInv, NobodyBlocks, [Next]_vars, "kill" \in Calls, NEW p \in Pid
             PROVE  prstate'[p] \notin Awaiting /\ pc'[p].at # "recvtime"
  BY DEF NobodyBlocks
<1>1. prstate[p] \notin Awaiting /\ pc[p].at # "recvtime"
  BY DEF NobodyBlocks
<1>2. prstate'[p] \notin Awaiting
  BY <1>1, StepLife
  DEF LifeStep, StaysIn, IsCreated, GivesUp, IsReleased, GetsMessage, WakesUp, IsKilled,
      Runnable, Awaiting
<1>3. pc'[p].at # "recvtime"
  BY <1>1, ControlFlow DEF FlowStep, Moves, Arcs, SplitCalls, Enters, UserCode, Point
<1> QED BY <1>2, <1>3

(* Nothing happens between the two halves of a kill.                       *)
LEMMA KillFirst ==
  ASSUME IInv, Killers, [Next]_vars, ~NobodyKills
  PROVE  KillRest \/ UNCHANGED vars
<1>1. ~waking /\ pc[currpid].at \in EndPoints
  BY DEF Killers, NobodyKills
<1>2. pc[currpid].at \notin IntrOn
  BY <1>1 DEF IntrOn, EndPoints
<1>3. \A l \in {"user", "signaln", "semdelete", "semreset", "rectim", "sleepms", "recvtime",
               "null_create", "null_ready"} :
        ~Running(l)
  BY <1>1 DEF Running, EndPoints
<1>4. ~UserCall
  BY <1>3 DEF UserCall
<1>5. ~SemaphoreCall /\ ~MessageCall
  BY <1>4
  DEF SemaphoreCall, Wait, Signal, SignalN, SemCreate, SemDelete, SemReset,
      MessageCall, Send, Receive, RecvClr, RecvTime
<1>6. ~ProcessCall
  BY <1>4
  DEF ProcessCall, Create, CreateFail, Resume, Suspend, Chprio, Yield, Kill, SleepMs
<1>7. Continue => KillRest
  BY <1>1, <1>3, NotReceiving
  DEF Continue, SignalNStep, SemDeleteStep, SemResetStep, RecvTimeTake, InsertdWalk,
      InsertdLink, Inserting, WakeupReady, WakeupResched, NullCreate, NullReady
<1> QED BY <1>2, <1>5, <1>6, <1>7 DEF Next, Tick

(* Where no message is awaited, the first half of a kill leaves the        *)
(* scheduler alone.                                                        *)
LEMMA KillStays ==
  ASSUME IInv, NobodyBlocks, "kill" \in Calls, NEW p \in Pid, Kill(p)
  PROVE  UNCHANGED sched
<1>1. prparent[p] \in Pid
  BY DEF IInv, TypeOK
<1> QED BY <1>1 DEF Kill, Deliver, NobodyBlocks, Awaiting

LEMMA KillProc ==
  ASSUME IInv, ProcInv, NobodyKills, "kill" \in Calls, NEW p \in Pid, Kill(p)
  PROVE  Killers' /\ LiveCount' /\ HaltsLast' /\ StackOwned'
<1>1. /\ currpid \in Pid \ {NULLPROC} /\ prstate[currpid] = "CURR" /\ ~waking
      /\ p \in Pid \ {NULLPROC} /\ prstate[p] # "FREE" /\ prcount' = prcount - 1
      /\ NULLPROC \in Live /\ prcount \in Int
  BY UserRuns, NullIsPid
  DEF Kill, Killable, IInv, TypeOK, QueuesMatchStates, NullRunnable, Live
<1>2. UNCHANGED <<prstate, currpid, waking, prstkbase, stkfree>>
  BY KillStays DEF ProcInv, Kill, sched
<1>3. PICK at \in EndPoints :
        /\ pc' = [pc EXCEPT ![currpid] = Point(at, p, 0)]
        /\ at = "xdone" => LastProcess(prcount - 1)
  BY DEF Kill, Goto, EndPoints
<1>4. /\ pc'[currpid].at = at /\ pc'[currpid].obj = p
      /\ \A q \in Pid \ {currpid} : pc'[q].at \notin EndPoints
  BY <1>1, <1>3 DEF IInv, TypeOK, NobodyKills, Point
<1>5. Live' = Live
  BY <1>2 DEF Live
<1>6. Dying' = {p}
  BY <1>1, <1>2, <1>4 DEF Dying, Live, EndPoints
<1>7. prcount = Cardinality(Live) /\ Cardinality(Live) \in Nat
  <2>1. Cardinality(Dying) = 0 /\ Cardinality(Live) \in Nat
    BY NobodyDies, FS_EmptySet, LiveFinite
  <2>2. prcount = Cardinality(Live) - Cardinality(Dying)
    BY DEF ProcInv, LiveCount
  <2> QED BY <2>1, <2>2
<1>8. Killers'
  BY <1>1, <1>2, <1>4 DEF Killers
<1>9. LiveCount'
  BY <1>1, <1>5, <1>6, <1>7, FS_Singleton DEF LiveCount
<1>10. HaltsLast'
  <2> SUFFICES ASSUME pc'[currpid'].at = "xdone" PROVE Live = {NULLPROC, p}
    BY <1>5, <1>6 DEF HaltsLast
  <2>1. Cardinality(Live) <= 2
    BY <1>1, <1>2, <1>3, <1>4, <1>7 DEF LastProcess
  <2>2. p \in Live /\ p # NULLPROC /\ IsFiniteSet(Live)
    BY <1>1, LiveFinite DEF Live
  <2>3. ASSUME NEW q \in Live, q \notin {NULLPROC, p} PROVE FALSE
    <3> DEFINE two   == Live \ {NULLPROC}
               one   == two \ {p}
    <3>1. IsFiniteSet(two) /\ Cardinality(two) = Cardinality(Live) - 1
      BY <1>1, <2>2, FS_RemoveElement
    <3>2. IsFiniteSet(one) /\ Cardinality(one) = Cardinality(two) - 1
      BY <3>1, <2>2, FS_RemoveElement
    <3>3. Cardinality(one) # 0 /\ Cardinality(one) \in Nat
      BY <2>3, <3>2, FS_EmptySet, FS_CardinalityType
    <3> HIDE DEF one, two
    <3> QED BY <1>7, <2>1, <3>1, <3>2, <3>3
  <2> QED BY <1>1, <2>2, <2>3
<1>11. StackOwned'
  BY <1>2, <1>5 DEF ProcInv, StackOwned
<1> QED BY <1>8, <1>9, <1>10, <1>11

(* Only create and the end of a kill change who is live.                   *)
LEMMA LiveKept ==
  ASSUME IInv, [Next]_vars, prcount' = prcount, NEW q \in Pid
  PROVE  \/ prstate'[q] # "FREE" <=> prstate[q] # "FREE"
         \/ IsKilled(q)
<1>1. prcount' # prcount + 1
  BY DEF IInv, TypeOK
<1> QED BY <1>1, StepLife
    DEF LifeStep, StaysIn, IsCreated, GivesUp, IsReleased, GetsMessage, WakesUp, Runnable,
        Sleeping

LEMMA KillRestProc ==
  ASSUME IInv, IInv', ProcInv, KillRest
  PROVE  Killers' /\ LiveCount' /\ HaltsLast' /\ StackOwned'
<1> DEFINE p == pc[currpid].obj
<1>1. /\ currpid \in Pid /\ p \in Pid \ {NULLPROC} /\ pc[currpid].at = "kill"
      /\ prstate[p] # "FREE" /\ currpid' \in Pid
  BY KillerRuns DEF ProcInv, Killers, EndPoints, IInv, TypeOK
<1>2. /\ UNCHANGED <<prcount, prstkbase>>
      /\ stkfree' = stkfree \cup ({prstkbase[p]} \ {NoStack})
      /\ pc' = [pc EXCEPT ![currpid] = UserCode, ![p] = UserCode]
  BY DEF KillRest, KilledStack
<1>3. NobodyKills'
  BY <1>1, <1>2 DEF IInv, TypeOK, NobodyKills, ProcInv, Killers, UserCode, Point, EndPoints
<1>4. Dying' = {} /\ Dying = {p}
  <2>1. Dying' = {}
    BY <1>3 DEF NobodyKills, Dying, Live, EndPoints
  <2>2. currpid \in Live /\ p \in Live
    BY <1>1 DEF ProcInv, Killers, EndPoints, Live
  <2>3. \A q \in Pid : pc[q].at \in EndPoints => q = currpid
    BY DEF ProcInv, Killers
  <2>4. Dying = {p}
    BY <1>1, <2>2, <2>3 DEF Dying, Live, EndPoints
  <2> QED BY <2>1, <2>4
<1>5. Live' = Live \ {p}
  <2>1. p \notin Live'
    BY KillFrees DEF Live
  <2>2. ASSUME NEW q \in Pid, q # p PROVE q \in Live' <=> q \in Live
    BY <1>2, <2>2, LiveKept DEF Live, IsKilled, Next, Continue
  <2> HIDE DEF p
  <2> QED BY <2>1, <2>2 DEF Live
<1>6. LiveCount'
  <2>1. p \in Live
    BY <1>1 DEF Live
  <2>2. Cardinality(Live \ {p}) = Cardinality(Live) - 1 /\ Cardinality(Live) \in Nat
    BY <2>1, LiveFinite, FS_RemoveElement
  <2>3. prcount = Cardinality(Live) - Cardinality(Dying)
    BY DEF ProcInv, LiveCount
  <2>4. Cardinality({p}) = 1 /\ Cardinality({}) = 0
    BY FS_Singleton, FS_EmptySet
  <2> HIDE DEF p
  <2>5. prcount' = Cardinality(Live') - Cardinality(Dying')
    BY <1>2, <1>4, <1>5, <2>2, <2>3, <2>4
  <2> QED BY <2>5 DEF LiveCount
<1>7. HaltsLast' /\ Killers'
  BY <1>1, <1>3 DEF NobodyKills, HaltsLast, Killers, EndPoints
<1>8. StackOwned'
  <2>1. \A q \in Live' : q \in Live /\ q # p
    BY <1>5
  <2>2. p \in Live
    BY <1>1 DEF Live
  <2> HIDE DEF p
  <2>3. \A q \in Live' : prstkbase[q] \in Stack \ stkfree /\ prstkbase[q] # prstkbase[p]
    BY <2>1, <2>2 DEF ProcInv, StackOwned
  <2> QED BY <1>2, <2>1, <2>3 DEF ProcInv, StackOwned
<1> QED BY <1>6, <1>7, <1>8

(* The steps in which no kill begins or ends.                              *)
LEMMA ProcCases ==
  ASSUME IInv, [Next]_vars, ~KillRest, \A p \in Pid : ~("kill" \in Calls /\ Kill(p))
  PROVE  \/ UNCHANGED <<prcount, prstkbase>> /\ stkfree' \subseteq stkfree
         \/ \E p \in Pid, b \in Stack : \E prio : Created(p, b, prio)
<1>1. CASE UNCHANGED procv
  BY <1>1 DEF procv
<1>2. CASE SemaphoreCall
  BY <1>1, <1>2 DEF SemaphoreCall, Wait, Signal, SignalN, SemCreate, SemDelete, SemReset
<1>3. CASE MessageCall
  BY <1>1, <1>3 DEF MessageCall, Send, Receive, RecvClr, RecvTime
<1>4. CASE ProcessCall
  BY <1>1, <1>4 DEF ProcessCall, Create, CreateFail, Resume, Suspend, Chprio, Yield, SleepMs
<1>5. CASE Continue
  BY <1>1, <1>5
  DEF Continue, SignalNStep, SemDeleteStep, SemResetStep, ReceiveBlock, ReceiveResched,
      ReceiveTake, RecvTimeTake, InsertdWalk, InsertdLink, WakeupReady, WakeupResched,
      NullCreate, NullReady
<1> QED BY <1>1, <1>2, <1>3, <1>4, <1>5 DEF Next, Tick, vars

LEMMA NobodyBegins ==
  ASSUME IInv, [Next]_vars, NobodyKills, \A p \in Pid : ~("kill" \in Calls /\ Kill(p))
  PROVE  NobodyKills'
<1> SUFFICES ASSUME NEW p \in Pid, pc'[p].at \in EndPoints PROVE FALSE
  BY DEF NobodyKills
<1>1. pc[p].at \notin EndPoints /\ pc'[p] # pc[p] /\ pc'[p] # UserCode
  BY DEF NobodyKills, EndPoints, UserCode, Point
<1>2. p = currpid /\ Moves(pc[p].at, pc'[p].at)
  BY <1>1, ControlFlow DEF FlowStep
<1>3. pc[p].at = "user"
  BY <1>1, <1>2 DEF Moves, Arcs, EndPoints
<1> QED BY <1>2, <1>3, EntersBy DEF EndPoints

LEMMA CreatedProc ==
  ASSUME IInv, ProcInv, NobodyKills, NobodyKills',
         NEW p \in Pid, NEW b \in Stack, NEW prio, Created(p, b, prio)
  PROVE  LiveCount' /\ StackOwned'
<1>1. /\ prstate[p] = "FREE" /\ prstate' = [prstate EXCEPT ![p] = "SUSP"]
      /\ prcount' = prcount + 1 /\ stkfree' = stkfree \ {b} /\ b \in stkfree
      /\ prstkbase' = [prstkbase EXCEPT ![p] = b]
  BY DEF Created, IsNewPid, IsNewStack
<1>2. Live' = Live \cup {p} /\ p \notin Live
  BY <1>1 DEF IInv, TypeOK, Live
<1>3. LiveCount'
  <2>1. Dying = {} /\ Dying' = {}
    BY NobodyDies DEF NobodyKills, Dying, Live, EndPoints
  <2>2. Cardinality(Live \cup {p}) = Cardinality(Live) + 1 /\ Cardinality(Live) \in Nat
    BY <1>2, LiveFinite, FS_AddElement
  <2>3. prcount = Cardinality(Live) - Cardinality(Dying) /\ Cardinality({}) = 0
    BY FS_EmptySet DEF ProcInv, LiveCount
  <2>4. prcount' = Cardinality(Live') - Cardinality(Dying')
    BY <1>1, <1>2, <2>1, <2>2, <2>3
  <2> QED BY <2>4 DEF LiveCount
<1>4. StackOwned'
  <2>1. prstkbase'[p] = b /\ \A q \in Live : prstkbase'[q] = prstkbase[q]
    BY <1>1, <1>2 DEF IInv, TypeOK, Live
  <2>2. \A q \in Live : prstkbase[q] \in Stack \ stkfree /\ prstkbase[q] # b
    BY <1>1 DEF ProcInv, StackOwned
  <2> QED BY <1>1, <1>2, <2>1, <2>2 DEF ProcInv, StackOwned
<1> QED BY <1>3, <1>4

LEMMA QuietProc ==
  ASSUME IInv, [Next]_vars, ProcInv, NobodyKills, NobodyKills',
         UNCHANGED <<prcount, prstkbase>>, stkfree' \subseteq stkfree
  PROVE  LiveCount' /\ StackOwned'
<1>1. \A q \in Pid : ~IsKilled(q)
  BY DEF IsKilled, Running, NobodyKills, EndPoints, IInv, TypeOK
<1>2. Live' = Live
  BY <1>1, LiveKept DEF Live
<1>3. Dying = {} /\ Dying' = {}
  BY NobodyDies DEF NobodyKills, Dying, Live, EndPoints
<1>4. LiveCount'
  <2>1. prcount' = Cardinality(Live') - Cardinality(Dying')
    BY <1>2, <1>3 DEF ProcInv, LiveCount
  <2> QED BY <2>1 DEF LiveCount
<1>5. StackOwned'
  BY <1>2 DEF ProcInv, StackOwned
<1> QED BY <1>4, <1>5

LEMMA ProcInit == Init => ProcInv
<1> SUFFICES ASSUME Init PROVE ProcInv
  OBVIOUS
<1>1. NobodyBlocks
  BY DEF Init, NobodyBlocks, Point, UserCode, Awaiting
<1>2. NobodyKills
  BY DEF Init, NobodyKills, Point, UserCode, EndPoints
<1>3. Killers /\ HaltsLast
  BY <1>2, NullIsPid DEF Init, NobodyKills, Killers, HaltsLast, EndPoints
<1>4. Live = {NULLPROC}
  BY NullIsPid DEF Init, Live
<1>5. LiveCount
  <2>1. Cardinality(Live) = 1 /\ Cardinality(Dying) = 0 /\ prcount = 1
    BY <1>2, <1>4, NobodyDies, FS_Singleton, FS_EmptySet DEF Init
  <2> QED BY <2>1 DEF LiveCount
<1>6. StackOwned
  <2>1. NSTK \in Stack
    BY NstkAssumption DEF Stack
  <2> QED BY <1>4, <2>1, NullIsPid DEF Init, StackOwned
<1> QED BY <1>1, <1>3, <1>5, <1>6 DEF ProcInv

LEMMA ProcStep ==
  ASSUME "kill" \in Calls => "recvtime" \notin Calls
  PROVE  IInv /\ IInv' /\ ProcInv /\ [Next]_vars => ProcInv'
<1> SUFFICES ASSUME IInv, IInv', ProcInv, [Next]_vars PROVE ProcInv'
  OBVIOUS
<1>1. NobodyBlocks'
  BY NobodyBlocksStep DEF ProcInv
<1>2. CASE UNCHANGED vars
  BY <1>1, <1>2
  DEF vars, sched, procv, ProcInv, Killers, LiveCount, HaltsLast, StackOwned, Live, Dying
<1>3. CASE KillRest
  BY <1>1, <1>3, KillRestProc DEF ProcInv
<1>4. CASE NobodyKills /\ ~KillRest
  <2>1. ASSUME NEW p \in Pid, "kill" \in Calls, Kill(p) PROVE ProcInv'
    BY <1>1, <1>4, <2>1, KillProc DEF ProcInv
  <2>2. CASE \A p \in Pid : ~("kill" \in Calls /\ Kill(p))
    <3>1. NobodyKills'
      BY <1>4, <2>2, NobodyBegins
    <3>2. LiveCount' /\ StackOwned'
      BY <1>4, <2>2, <3>1, ProcCases, QuietProc, CreatedProc
    <3>3. currpid' \in Pid
      BY DEF IInv, TypeOK
    <3>4. Killers' /\ HaltsLast'
      BY <3>1, <3>3 DEF NobodyKills, Killers, HaltsLast, EndPoints
    <3> QED BY <1>1, <3>2, <3>4 DEF ProcInv
  <2> QED BY <2>1, <2>2
<1> QED BY <1>2, <1>3, <1>4, KillFirst DEF ProcInv

(* Where no process calls receive(), or recvtime() with kills, prcount     *)
(* counts the live processes, through every create, every half of a kill   *)
(* and every reuse of an entry.                                            *)
THEOREM LiveCounted ==
  ASSUME "receive" \notin Calls, "kill" \in Calls => "recvtime" \notin Calls
  PROVE  Spec => []LiveCount
<1>1. ProcInv => LiveCount
  BY DEF ProcInv
<1> QED BY <1>1, ProcInit, ProcStep, Invariant, PTL DEF Spec

(* Under the same condition the system halts only with its last user       *)
(* process.                                                                *)
THEOREM LastHalts ==
  ASSUME "receive" \notin Calls, "kill" \in Calls => "recvtime" \notin Calls
  PROVE  Spec => []HaltsLast
<1>1. ProcInv => HaltsLast
  BY DEF ProcInv
<1> QED BY <1>1, ProcInit, ProcStep, Invariant, PTL DEF Spec

(* Under the same condition every live process has a stack of its own, and *)
(* the next create cannot take it.                                         *)
THEOREM StacksOwned ==
  ASSUME "receive" \notin Calls, "kill" \in Calls => "recvtime" \notin Calls
  PROVE  Spec => []StackOwned
<1>1. ProcInv => StackOwned
  BY DEF ProcInv
<1> QED BY <1>1, ProcInit, ProcStep, Invariant, PTL DEF Spec
=============================================================================
