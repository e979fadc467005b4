---------------------------- MODULE KernelProofs ----------------------------
(***************************************************************************)
(* The queues of the kernel match the states of its processes, for every   *)
(* size of the tables, every priority, delay and workload.                 *)
(*                                                                         *)
(* QueuesMatchStates is not inductive by itself: a call that was left at a *)
(* resched goes on from the place its pc records, so the invariant must    *)
(* say which places are possible when (PointsOK), and the boot thread runs *)
(* before there is any other process (Boot).                               *)
(*                                                                         *)
(* All of it is for workloads that do not call receive(): a tick inside    *)
(* receive() lets its caller run on in the state PR_RECV (OneCurrent).  No *)
(* code of the repository calls it.                                        *)
(***************************************************************************)
EXTENDS Kernel, ListLemmas

WalkPoints  == {"sleepms", "recvtime"}
HeldPoints  == WalkPoints \cup {"signaln"}

(* The boot thread is the null process, for ever.                          *)
NullPoint ==
  \A p \in Pid : pc[p].at \in BootPoints \cup {"idle"} <=> p = NULLPROC

(* No process loses the processor between these points and the next        *)
(* resched: a process is there only while it is running.                   *)
HeldByCurrent ==
  \A p \in Pid : pc[p].at \in HeldPoints =>
    p = currpid /\ prstate[p] = "CURR" /\ ~waking

(* The locals a continuation keeps are what its code needs them to be.     *)
LocalsOK ==
  \A p \in Pid :
    /\ pc[p].at \in WalkPoints => pc[p].obj <= Len(sleepq)
    /\ pc[p].at \in {"signaln", "semdelete", "semreset"} => pc[p].obj \in Sem
    /\ pc[p].at = "kill" => pc[p].obj \in Pid \ {NULLPROC}

PointsOK == NullPoint /\ HeldByCurrent /\ LocalsOK

(* Until nulluser is done nobody but the null process has run.             *)
Boot ==
  pc[NULLPROC].at \in BootPoints =>
    /\ currpid = NULLPROC /\ prstate[NULLPROC] = "CURR" /\ ~waking
    /\ readylist = << >> /\ sleepq = << >>
    /\ pc[NULLPROC].at = "null_ready" =>
         pc[NULLPROC].obj \in Pid /\ prstate[pc[NULLPROC].obj] = "SUSP"

(* Nobody is inside receive().                                             *)
Places == {"user", "idle"} \cup BootPoints \cup IntrOff
Points == [at : Places, obj : Nat, num : Int]
NoReceive == "receive" \notin Calls /\ pc \in [Pid -> Points]

IInv == TypeOK /\ NoReceive /\ QueuesMatchStates /\ PointsOK /\ Boot

-----------------------------------------------------------------------------
(* The scheduler.                                                          *)

(* What resched, entered with the process states st, leaves behind.        *)
Scheduled(st) ==
  /\ prstate' \in [Pid -> States] /\ currpid' \in Pid
  /\ qkey' \in [Pid -> Int] /\ preempt' \in 1 .. QUANTUM
  /\ ReadyListed'
  /\ \A p \in Pid : prstate'[p] = "CURR" <=> p = currpid'
  /\ \A p \in Pid : st[p] \in {"CURR", "READY"} <=> prstate'[p] \in {"CURR", "READY"}
  /\ \A p \in Pid : st[p] \notin {"CURR", "READY"} => prstate'[p] = st[p]

LEMMA NullIsPid == NULLPROC \in Pid
BY NprocAssumption DEF NULLPROC, Pid

LEMMA DispatchSchedules ==
  ASSUME NEW st \in [Pid -> States], NEW list, NEW keys \in [Pid -> Int],
         Enumerates(list, WithState(st, {"READY"})),
         \A p \in Pid : st[p] # "CURR",
         Dispatch(st, list, keys)
  PROVE  Scheduled(st)
<1> DEFINE R == WithState(st, {"READY"})
<1>1. /\ list # << >> /\ currpid' = Head(list) /\ readylist' = Tail(list)
      /\ prstate' = [st EXCEPT ![Head(list)] = "CURR"] /\ qkey' = keys /\ preempt' = QUANTUM
  BY DEF Dispatch
<1>2. Head(list) \in R /\ Enumerates(Tail(list), R \ {Head(list)})
  BY <1>1, TailLists
<1>3. R \ {Head(list)} = WithState(prstate', {"READY"}) /\ Head(list) \in Pid /\ st[Head(list)] = "READY"
  BY <1>1, <1>2 DEF WithState
<1>4. prstate' \in [Pid -> States] /\ preempt' \in 1 .. QUANTUM
  BY <1>1, <1>3, QuantumAssumption DEF States
<1>5. ReadyListed'
  BY <1>1, <1>2, <1>3 DEF ReadyListed
<1> QED BY <1>1, <1>3, <1>4, <1>5 DEF Scheduled

(* resched never finds the ready list empty, and leaves exactly one        *)
(* process current: the null process is ready whenever it is not running.  *)
LEMMA ReschedSchedules ==
  ASSUME NEW st \in [Pid -> States], NEW list, NEW keys \in [Pid -> Int],
         NEW pre \in 1 .. QUANTUM,
         currpid \in Pid, prprio \in [Pid -> Int],
         Enumerates(list, WithState(st, {"READY"})),
         \A p \in Pid : st[p] = "CURR" => p = currpid,
         Resched(st, list, keys, pre)
  PROVE  Scheduled(st)
<1>1. CASE /\ st[currpid] = "CURR"
           /\ prstate' = st /\ readylist' = list /\ qkey' = keys /\ preempt' = pre
           /\ UNCHANGED currpid
  BY <1>1 DEF Scheduled, ReadyListed
<1>2. CASE /\ st[currpid] = "CURR"
           /\ \E i \in 1 .. Len(list) + 1 :
                Dispatch([st EXCEPT ![currpid] = "READY"], InsertAt(list, i, currpid),
                         [keys EXCEPT ![currpid] = prprio[currpid]])
  <2> DEFINE st1 == [st EXCEPT ![currpid] = "READY"]
             k1  == [keys EXCEPT ![currpid] = prprio[currpid]]
  <2>1. PICK i \in 1 .. Len(list) + 1 : Dispatch(st1, InsertAt(list, i, currpid), k1)
    BY <1>2
  <2>2. /\ st1 \in [Pid -> States] /\ k1 \in [Pid -> Int]
        /\ \A p \in Pid : st1[p] # "CURR"
        /\ currpid \notin WithState(st, {"READY"})
        /\ WithState(st1, {"READY"}) = WithState(st, {"READY"}) \cup {currpid}
    BY <1>2 DEF WithState, States
  <2>3. Enumerates(InsertAt(list, i, currpid), WithState(st1, {"READY"}))
    <3> DEFINE R == WithState(st, {"READY"})
    <3>1. Enumerates(list, R) /\ currpid \notin R
      BY <2>2
    <3> HIDE DEF R, st1
    <3>2. Enumerates(InsertAt(list, i, currpid), R \cup {currpid})
      BY <3>1, InsertLists
    <3>3. WithState(st1, {"READY"}) = R \cup {currpid}
      BY <2>2 DEF R
    <3> QED BY <3>2, <3>3
  <2> HIDE DEF st1, k1
  <2>4. Scheduled(st1)
    BY <2>1, <2>2, <2>3, DispatchSchedules
  <2>5. \A p \in Pid : /\ st1[p] \in {"CURR", "READY"} <=> st[p] \in {"CURR", "READY"}
                       /\ st[p] \notin {"CURR", "READY"} => st1[p] = st[p]
    BY <1>2 DEF st1
  <2> QED BY <2>4, <2>5 DEF Scheduled
<1>3. CASE st[currpid] # "CURR" /\ Dispatch(st, list, keys)
  BY <1>3, DispatchSchedules
<1> QED BY <1>1, <1>2, <1>3 DEF Resched

(* ready(p, RESCHED_YES) and ready(p, RESCHED_NO).                         *)
LEMMA ReadyLists ==
  ASSUME TypeOK, ReadyListed, NEW p \in Pid, prstate[p] \notin {"CURR", "READY"},
         NEW i \in 1 .. Len(readylist) + 1
  PROVE  Enumerates(InsertAt(readylist, i, p),
                    WithState([prstate EXCEPT ![p] = "READY"], {"READY"}))
<1> DEFINE R == WithState(prstate, {"READY"})
<1>1. Enumerates(readylist, R) /\ p \notin R
  BY DEF ReadyListed, WithState
<1>2. WithState([prstate EXCEPT ![p] = "READY"], {"READY"}) = R \cup {p}
  <2> DEFINE st == [prstate EXCEPT ![p] = "READY"]
  <2>1. \A q \in Pid : st[q] = IF q = p THEN "READY" ELSE prstate[q]
    BY DEF TypeOK
  <2> HIDE DEF st
  <2>2. WithState(st, {"READY"}) = R \cup {p}
    BY <2>1 DEF WithState
  <2> QED BY <2>2 DEF st
<1> HIDE DEF R
<1>3. Enumerates(InsertAt(readylist, i, p), R \cup {p})
  BY <1>1, InsertLists
<1> QED BY <1>2, <1>3

LEMMA ReadyYesSchedules ==
  ASSUME TypeOK, ReadyListed, OneCurrent,
         NEW p \in Pid, prstate[p] \notin {"CURR", "READY"},
         NEW keys \in [Pid -> Int], ReadyYes(p, keys)
  PROVE  Scheduled([prstate EXCEPT ![p] = "READY"])
<1> DEFINE st == [prstate EXCEPT ![p] = "READY"]
           k  == [keys EXCEPT ![p] = prprio[p]]
<1>1. PICK i \in 1 .. Len(readylist) + 1 : Resched(st, InsertAt(readylist, i, p), k, preempt)
  BY DEF ReadyYes
<1>2. Enumerates(InsertAt(readylist, i, p), WithState(st, {"READY"}))
  BY ReadyLists
<1>3. /\ st \in [Pid -> States] /\ k \in [Pid -> Int] /\ preempt \in 1 .. QUANTUM
      /\ currpid \in Pid /\ prprio \in [Pid -> Int]
      /\ \A q \in Pid : st[q] = "CURR" => q = currpid
  BY DEF TypeOK, OneCurrent, States
<1> HIDE DEF st, k
<1> QED BY <1>1, <1>2, <1>3, ReschedSchedules DEF st

(* resched called with the running process's state changed to s.           *)
LEMMA LeaveSchedules ==
  ASSUME TypeOK, ReadyListed, OneCurrent, NEW s \in States \ {"CURR", "READY"},
         prstate[currpid] # "READY", NEW keys \in [Pid -> Int],
         Resched([prstate EXCEPT ![currpid] = s], readylist, keys, preempt)
  PROVE  Scheduled([prstate EXCEPT ![currpid] = s])
<1> DEFINE st == [prstate EXCEPT ![currpid] = s]
<1>1. /\ st \in [Pid -> States] /\ preempt \in 1 .. QUANTUM
      /\ currpid \in Pid /\ prprio \in [Pid -> Int]
      /\ \A q \in Pid : st[q] = "CURR" => q = currpid
      /\ WithState(st, {"READY"}) = WithState(prstate, {"READY"})
  BY DEF TypeOK, OneCurrent, WithState
<1>2. Enumerates(readylist, WithState(st, {"READY"}))
  BY <1>1 DEF ReadyListed
<1> HIDE DEF st
<1> QED BY <1>1, <1>2, ReschedSchedules DEF st

(* resched called with nothing changed but keys and the preemption counter.*)
LEMMA StaySchedules ==
  ASSUME TypeOK, ReadyListed, OneCurrent, NEW keys \in [Pid -> Int],
         NEW pre \in 1 .. QUANTUM, Resched(prstate, readylist, keys, pre)
  PROVE  Scheduled(prstate)
<1>1. /\ prstate \in [Pid -> States] /\ currpid \in Pid /\ prprio \in [Pid -> Int]
      /\ \A q \in Pid : prstate[q] = "CURR" => q = currpid
      /\ Enumerates(readylist, WithState(prstate, {"READY"}))
  BY DEF TypeOK, OneCurrent, ReadyListed
<1> QED BY <1>1, ReschedSchedules

(* What a call must have set right before it reschedules with states st.   *)
QueuesFor(st) ==
  /\ Enumerates(sleepq', WithState(st, Sleeping))
  /\ \A s \in Sem : Enumerates(squeue'[s], Waiters(st, prsem', s))
  /\ \A p \in Pid : st[p] = "WAIT" => prsem'[p] \in Sem
  /\ st[NULLPROC] \in {"CURR", "READY"}

LEMMA ScheduledMatches ==
  ASSUME NEW st \in [Pid -> States], Scheduled(st), QueuesFor(st)
  PROVE  QueuesMatchStates'
<1>1. /\ WithState(prstate', Sleeping) = WithState(st, Sleeping)
      /\ \A s \in Sem : Waiters(prstate', prsem', s) = Waiters(st, prsem', s)
  BY DEF Scheduled, WithState, Waiters, Sleeping
<1>2. SleepListed' /\ WaitListed'
  BY <1>1 DEF Scheduled, QueuesFor, SleepListed, WaitListed
<1>3. OneCurrent' /\ NullRunnable'
  BY NullIsPid DEF Scheduled, QueuesFor, OneCurrent, NullRunnable
<1> QED BY <1>2, <1>3 DEF QueuesMatchStates, Scheduled

(* A call that changes nothing else leaves the queues right for the states.*)
LEMMA SameQueues ==
  ASSUME QueuesMatchStates, UNCHANGED <<sleepq, squeue, prsem>>
  PROVE  QueuesFor(prstate)
BY DEF QueuesMatchStates, QueuesFor, SleepListed, WaitListed, NullRunnable

-----------------------------------------------------------------------------
(* The points.                                                             *)

(* A point at which a process other than the null process may be left.     *)
MayStand(point) ==
  /\ point.at \notin HeldPoints \cup BootPoints \cup {"idle"}
  /\ point.at \in {"semdelete", "semreset"} => point.obj \in Sem
  /\ point.at = "kill" => point.obj \in Pid \ {NULLPROC}

LEMMA PointsKept ==
  ASSUME IInv, pc[currpid].at \notin BootPoints, pc'[currpid].at \notin HeldPoints,
         \A p \in Pid : pc'[p] = pc[p] \/ (p # NULLPROC /\ MayStand(pc'[p]))
  PROVE  PointsOK' /\ Boot'
<1>1. NULLPROC \in Pid /\ currpid \in Pid
  BY NullIsPid DEF IInv, TypeOK
<1>2. pc'[NULLPROC] = pc[NULLPROC] /\ pc[NULLPROC].at \notin BootPoints
  BY <1>1 DEF IInv, Boot
<1>3. \A p \in Pid : pc'[p].at \notin HeldPoints
  BY <1>1 DEF IInv, PointsOK, HeldByCurrent, MayStand
<1>4. NullPoint'
  BY DEF IInv, PointsOK, NullPoint, MayStand
<1>5. HeldByCurrent'
  BY <1>3 DEF HeldByCurrent
<1>6. LocalsOK'
  BY <1>3 DEF IInv, PointsOK, LocalsOK, MayStand, HeldPoints
<1> QED BY <1>2, <1>4, <1>5, <1>6 DEF PointsOK, Boot

LEMMA PointsHeld ==
  ASSUME IInv, ~waking', pc[currpid].at \notin BootPoints \cup {"idle"}, currpid' = currpid,
         prstate'[currpid] = "CURR",
         NEW point, point.at \in HeldPoints,
         point.at \in WalkPoints => point.obj <= Len(sleepq'),
         point.at = "signaln" => point.obj \in Sem,
         Goto(point)
  PROVE  PointsOK' /\ Boot'
<1>1. /\ NULLPROC \in Pid /\ currpid \in Pid /\ currpid # NULLPROC
      /\ pc' = [pc EXCEPT ![currpid] = point] /\ pc'[currpid] = point
      /\ \A p \in Pid \ {currpid} : pc'[p] = pc[p]
  BY NullIsPid DEF IInv, TypeOK, PointsOK, NullPoint, Goto
<1>2. pc[NULLPROC].at \notin BootPoints
  BY <1>1 DEF IInv, Boot
<1>3. \A p \in Pid \ {currpid} : pc[p].at \notin HeldPoints
  BY DEF IInv, PointsOK, HeldByCurrent
<1>4. NullPoint'
  <2>1. point.at \notin BootPoints \cup {"idle"}
    BY DEF HeldPoints, WalkPoints, BootPoints
  <2> QED BY <1>1, <2>1 DEF IInv, PointsOK, NullPoint
<1>5. HeldByCurrent'
  BY <1>1, <1>3 DEF HeldByCurrent
<1>6. LocalsOK'
  <2>1. point.at \notin {"semdelete", "semreset", "kill"}
    BY DEF HeldPoints, WalkPoints
  <2>2. \A p \in Pid \ {currpid} : pc[p].at \notin WalkPoints
    BY <1>3 DEF HeldPoints
  <2> QED BY <1>1, <2>1, <2>2 DEF IInv, PointsOK, LocalsOK
<1> QED BY <1>1, <1>2, <1>4, <1>5, <1>6 DEF PointsOK, Boot

-----------------------------------------------------------------------------
(* The types.                                                              *)

(* The types of everything but the scheduler's variables and the queues.   *)
OtherTypes ==
  /\ prprio \in [Pid -> Int]
  /\ prsem \in [Pid -> Sem \cup {NoSem}]
  /\ prparent \in [Pid -> Pid]
  /\ prhasmsg \in [Pid -> BOOLEAN]
  /\ prmsg \in [Pid -> Pid]
  /\ prstkbase \in [Pid -> Stack \cup {NoStack}]
  /\ stkfree \subseteq Stack
  /\ prcount \in Int
  /\ nextpid \in Pid
  /\ sstate \in [Sem -> {"FREE", "USED"}]
  /\ scount \in [Sem -> Int]
  /\ nextsem \in Sem
  /\ pc \in [Pid -> Points]
  /\ waking \in BOOLEAN
  /\ due \in [Pid -> Int]

SchedTypes ==
  /\ prstate \in [Pid -> States]
  /\ currpid \in Pid
  /\ qkey \in [Pid -> Int]
  /\ preempt \in 1 .. QUANTUM

LEMMA TypesSplit == TypeOK /\ pc \in [Pid -> Points] => OtherTypes /\ SchedTypes
BY DEF TypeOK, OtherTypes, SchedTypes, Points

(* Sequences that list processes are sequences of processes.               *)
LEMMA TypesJoin ==
  ASSUME OtherTypes', SchedTypes', QueuesMatchStates',
         squeue' = [s \in Sem |-> squeue'[s]]
  PROVE  TypeOK'
<1>1. /\ WithState(prstate', {"READY"}) \subseteq Pid
      /\ WithState(prstate', Sleeping) \subseteq Pid
      /\ \A s \in Sem : Waiters(prstate', prsem', s) \subseteq Pid
  BY DEF WithState, Waiters
<1>2. readylist' \in Seq(Pid) /\ sleepq' \in Seq(Pid)
  BY <1>1, ListIsSeq DEF QueuesMatchStates, ReadyListed, SleepListed
<1>3. \A s \in Sem : squeue'[s] \in Seq(Pid)
  BY <1>1, ListIsSeq DEF QueuesMatchStates, WaitListed
<1>4. squeue' \in [Sem -> Seq(Pid)]
  BY <1>3
<1>5. pc' \in [Pid -> [at : IntrOn \cup IntrOff \cup BootPoints, obj : Nat, num : Int]]
  BY DEF OtherTypes, Points, Places, IntrOn
<1> QED BY <1>2, <1>4, <1>5 DEF TypeOK, OtherTypes, SchedTypes

(* An action that ends in resched, entered with states st.                 *)
LEMMA RescheduledInv ==
  ASSUME IInv, NEW st \in [Pid -> States], Scheduled(st), QueuesFor(st),
         OtherTypes', squeue' = [s \in Sem |-> squeue'[s]], PointsOK', Boot'
  PROVE  IInv'
<1>1. SchedTypes' /\ QueuesMatchStates'
  BY ScheduledMatches DEF Scheduled, SchedTypes
<1>2. TypeOK'
  BY <1>1, TypesJoin
<1> QED BY <1>1, <1>2 DEF IInv, NoReceive, OtherTypes

(* An action that leaves the scheduler and the queues alone.               *)
LEMMA UnscheduledInv ==
  ASSUME IInv, UNCHANGED <<sched, sleepq, squeue, prsem>>,
         OtherTypes', PointsOK', Boot'
  PROVE  IInv'
<1> USE DEF sched
<1>1. TypeOK /\ QueuesMatchStates
  BY DEF IInv
<1>2. SchedTypes' /\ squeue' = [s \in Sem |-> squeue'[s]]
  BY <1>1 DEF TypeOK, SchedTypes
<1>3. OneCurrent'
  BY <1>1 DEF QueuesMatchStates, OneCurrent
<1>4. QueuesMatchStates'
  BY <1>1, <1>3 DEF QueuesMatchStates, ReadyListed, SleepListed, WaitListed, NullRunnable
<1> QED BY <1>2, <1>4, TypesJoin DEF IInv, NoReceive, OtherTypes

(* The running process, wherever its code is.                              *)
LEMMA RunningAt ==
  ASSUME IInv, NEW l, Running(l), l \notin BootPoints \cup {"idle"}
  PROVE  /\ ~waking /\ waking \in BOOLEAN
         /\ currpid \in Pid \ {NULLPROC}
         /\ prstate[currpid] = "CURR"
         /\ pc[currpid].at = l /\ pc[currpid] \in Points
BY DEF IInv, TypeOK, NoReceive, PointsOK, NullPoint, QueuesMatchStates, OneCurrent, Running

LEMMA UserRuns ==
  ASSUME IInv, UserCall
  PROVE  /\ ~waking /\ waking \in BOOLEAN
         /\ currpid \in Pid \ {NULLPROC}
         /\ prstate[currpid] = "CURR"
         /\ pc[currpid].at = "user" /\ pc[currpid] \in Points
         /\ pc[currpid].at \notin BootPoints /\ pc[currpid].at \notin HeldPoints
         /\ \A p \in Pid : pc[p].at \notin HeldPoints
<1>1. "user" \notin BootPoints \cup {"idle"} /\ "user" \notin HeldPoints
  BY DEF BootPoints, HeldPoints, WalkPoints
<1>2. Running("user")
  BY DEF UserCall
<1>3. pc[currpid].at = "user"
  BY <1>2 DEF Running
<1> QED BY <1>1, <1>2, <1>3, RunningAt DEF IInv, PointsOK, HeldByCurrent

(* A call that leaves pc alone, or moves it to a point where its process   *)
(* may be left, cannot disturb the points.                                 *)
LEMMA UserPoints ==
  ASSUME IInv, UserCall, UNCHANGED pc
  PROVE  PointsOK' /\ Boot'
BY UserRuns, PointsKept

LEMMA GotoPoints ==
  ASSUME IInv, pc[currpid].at \notin BootPoints \cup {"idle"},
         NEW point, MayStand(point), Goto(point)
  PROVE  PointsOK' /\ Boot'
<1>1. currpid \in Pid \ {NULLPROC} /\ pc \in [Pid -> Points]
  BY DEF IInv, TypeOK, NoReceive, PointsOK, NullPoint
<1>2. pc'[currpid] = point /\ \A p \in Pid \ {currpid} : pc'[p] = pc[p]
  BY <1>1 DEF Goto
<1> QED BY <1>1, <1>2, PointsKept DEF MayStand

(* The initial state.                                                      *)
LEMMA InitInv == "receive" \notin Calls /\ Init => IInv
<1> SUFFICES ASSUME "receive" \notin Calls, Init PROVE IInv
  OBVIOUS
<1> USE DEF Init
<1>0. pc \in [Pid -> Points]
  BY DEF Points, Places, Point, UserCode, BootPoints
<1>1. TypeOK
  <2>1. /\ prstate \in [Pid -> States] /\ prprio \in [Pid -> Int]
        /\ prsem \in [Pid -> Sem \cup {NoSem}] /\ prparent \in [Pid -> Pid]
        /\ prhasmsg \in [Pid -> BOOLEAN]
    BY NullIsPid, PriosAssumption DEF States
  <2>2. prmsg \in [Pid -> Pid] /\ 0 \in Sem /\ nextpid \in Pid
    BY NprocAssumption, NsemAssumption DEF Pid, Sem
  <2>3. prstkbase \in [Pid -> Stack \cup {NoStack}] /\ stkfree \subseteq Stack
    BY NstkAssumption DEF Stack, NoStack
  <2>4. /\ qkey \in [Pid -> Int] /\ preempt \in 1 .. QUANTUM
        /\ readylist \in Seq(Pid) /\ sleepq \in Seq(Pid) /\ squeue \in [Sem -> Seq(Pid)]
        /\ due \in [Pid -> Int]
    BY PriosAssumption, QuantumAssumption
  <2>5. pc \in [Pid -> [at : IntrOn \cup IntrOff \cup BootPoints, obj : Nat, num : Int]]
    BY <1>0 DEF Points, Places, IntrOn
  <2>6. /\ currpid \in Pid /\ prcount \in Int /\ nextsem \in Sem /\ waking \in BOOLEAN
        /\ sstate \in [Sem -> {"FREE", "USED"}] /\ scount \in [Sem -> Int]
    BY <2>2, NullIsPid
  <2> QED BY ONLY <2>1, <2>2, <2>3, <2>4, <2>5, <2>6 DEF TypeOK
<1>2. \A S : S = {} => Enumerates(<< >>, S)
  BY DEF Enumerates
<1>3. QueuesMatchStates
  BY <1>2, NullIsPid
  DEF QueuesMatchStates, ReadyListed, SleepListed, WaitListed, OneCurrent, NullRunnable,
      WithState, Waiters, Sleeping, Point
<1>4. PointsOK /\ Boot
  BY NullIsPid
  DEF PointsOK, NullPoint, HeldByCurrent, LocalsOK, Boot, BootPoints, HeldPoints, WalkPoints,
      Point, UserCode
<1> QED BY <1>0, <1>1, <1>3, <1>4 DEF IInv, NoReceive

-----------------------------------------------------------------------------
(* One lemma for each action.  Semaphores.                                 *)

LEMMA CountTyped ==
  ASSUME NEW count \in [Sem -> Int], NEW s \in Sem
  PROVE  /\ [count EXCEPT ![s] = @ + 1] \in [Sem -> Int]
         /\ [count EXCEPT ![s] = @ - 1] \in [Sem -> Int]
OBVIOUS

LEMMA WaitKeeps ==
  ASSUME IInv, NEW s \in Sem, Wait(s)
  PROVE  IInv'
<1> USE DEF sched, sleepv, msgv, procv
<1>1. UserCall /\ UNCHANGED <<sleepq, pc>>
  BY DEF Wait
<1>2. PointsOK' /\ Boot'
  BY <1>1, UserPoints
<1>3. TypeOK /\ QueuesMatchStates
  BY DEF IInv
<1>4. OtherTypes'
  <2>1. scount' \in [Sem -> Int]
    BY <1>3, CountTyped DEF Wait, TypeOK
  <2>2. prsem' \in [Pid -> Sem \cup {NoSem}]
    BY <1>3 DEF Wait, TypeOK
  <2> QED BY <1>3, <2>1, <2>2 DEF IInv, Wait, TypeOK, OtherTypes, NoReceive
<1>5. CASE /\ prsem' = [prsem EXCEPT ![currpid] = s]
           /\ squeue' = [squeue EXCEPT ![s] = Append(@, currpid)]
           /\ Resched([prstate EXCEPT ![currpid] = "WAIT"], readylist, qkey, preempt)
  <2> DEFINE st == [prstate EXCEPT ![currpid] = "WAIT"]
  <2>1. /\ currpid \in Pid \ {NULLPROC} /\ prstate[currpid] = "CURR"
        /\ \A p \in Pid : st[p] = IF p = currpid THEN "WAIT" ELSE prstate[p]
        /\ \A p \in Pid : prsem'[p] = IF p = currpid THEN s ELSE prsem[p]
        /\ st \in [Pid -> States] /\ qkey \in [Pid -> Int]
    BY <1>1, <1>3, <1>5, UserRuns DEF TypeOK, States
  <2>2. Scheduled(st)
    BY <1>3, <1>5, <2>1, LeaveSchedules DEF QueuesMatchStates, States
  <2> HIDE DEF st
  <2>3. WithState(st, Sleeping) = WithState(prstate, Sleeping)
    BY <2>1 DEF WithState, Sleeping
  <2>4. Waiters(st, prsem', s) = Waiters(prstate, prsem, s) \cup {currpid}
    BY <2>1 DEF Waiters
  <2>5. \A t \in Sem \ {s} : Waiters(st, prsem', t) = Waiters(prstate, prsem, t)
    BY <2>1 DEF Waiters
  <2>6. Enumerates(Append(squeue[s], currpid), Waiters(st, prsem', s))
    <3>1. currpid \notin Waiters(prstate, prsem, s)
      BY <2>1 DEF Waiters
    <3> QED BY <1>3, <2>4, <3>1, AppendLists DEF QueuesMatchStates, WaitListed
  <2>7. \A t \in Sem : squeue'[t] = IF t = s THEN Append(squeue[s], currpid) ELSE squeue[t]
    BY <1>3, <1>5 DEF TypeOK
  <2>8. QueuesFor(st)
    BY <1>1, <1>3, <2>1, <2>3, <2>5, <2>6, <2>7, NullIsPid
    DEF QueuesFor, QueuesMatchStates, SleepListed, WaitListed, NullRunnable
  <2>9. squeue' = [t \in Sem |-> squeue'[t]]
    BY <1>3, <1>5 DEF TypeOK
  <2> QED BY <1>2, <1>4, <2>1, <2>2, <2>8, <2>9, RescheduledInv
<1>6. CASE UNCHANGED <<prsem, squeue, sched>>
  BY <1>1, <1>2, <1>4, <1>6, UnscheduledInv
<1> QED BY <1>5, <1>6 DEF Wait

(* A release takes the first waiter off the queue of s, to make it ready.  *)
LEMMA ReleaseQueues ==
  ASSUME TypeOK, QueuesMatchStates, NEW s \in Sem, squeue[s] # << >>,
         squeue' = [squeue EXCEPT ![s] = Tail(@)], UNCHANGED <<sleepq, prsem>>
  PROVE  /\ Head(squeue[s]) \in Pid
         /\ prstate[Head(squeue[s])] = "WAIT"
         /\ [prstate EXCEPT ![Head(squeue[s])] = "READY"] \in [Pid -> States]
         /\ QueuesFor([prstate EXCEPT ![Head(squeue[s])] = "READY"])
         /\ squeue' = [t \in Sem |-> squeue'[t]]
<1> DEFINE p  == Head(squeue[s])
           st == [prstate EXCEPT ![p] = "READY"]
           W  == Waiters(prstate, prsem, s)
<1>1. Enumerates(squeue[s], W)
  BY DEF QueuesMatchStates, WaitListed
<1>2. p \in W /\ Enumerates(Tail(squeue[s]), W \ {p})
  <2> HIDE DEF W
  <2> QED BY <1>1, TailLists
<1>3. p \in Pid /\ prstate[p] = "WAIT" /\ prsem[p] = s
  BY <1>2 DEF Waiters
<1> HIDE DEF p
<1>4. st \in [Pid -> States] /\ \A q \in Pid : st[q] = IF q = p THEN "READY" ELSE prstate[q]
  BY <1>3 DEF TypeOK, States
<1> HIDE DEF st
<1>5. /\ Waiters(st, prsem, s) = W \ {p}
      /\ \A t \in Sem \ {s} : Waiters(st, prsem, t) = Waiters(prstate, prsem, t)
      /\ WithState(st, Sleeping) = WithState(prstate, Sleeping)
  BY <1>3, <1>4 DEF Waiters, WithState, Sleeping
<1>6. \A t \in Sem : squeue'[t] = IF t = s THEN Tail(squeue[s]) ELSE squeue[t]
  BY DEF TypeOK
<1>7. \A t \in Sem : Enumerates(squeue'[t], Waiters(st, prsem', t))
  BY <1>2, <1>5, <1>6 DEF QueuesMatchStates, WaitListed
<1>8. QueuesFor(st)
  BY <1>4, <1>5, <1>7, NullIsPid
  DEF QueuesFor, QueuesMatchStates, SleepListed, WaitListed, NullRunnable
<1>9. squeue' = [t \in Sem |-> squeue'[t]]
  BY DEF TypeOK
<1> QED BY <1>3, <1>4, <1>8, <1>9 DEF p, st

LEMMA ReleaseKeeps ==
  ASSUME IInv, NEW s \in Sem, Release(s, TRUE), UNCHANGED <<sleepq, prsem, pc>>,
         OtherTypes', PointsOK', Boot'
  PROVE  IInv'
<1>1. TypeOK /\ QueuesMatchStates /\ qkey \in [Pid -> Int]
  BY DEF IInv, TypeOK
<1>2. CASE /\ squeue[s] # << >>
           /\ squeue' = [squeue EXCEPT ![s] = Tail(@)]
           /\ ReadyYes(Head(squeue[s]), qkey)
  <2> DEFINE p  == Head(squeue[s])
             st == [prstate EXCEPT ![p] = "READY"]
  <2>1. /\ p \in Pid /\ prstate[p] = "WAIT" /\ st \in [Pid -> States] /\ QueuesFor(st)
        /\ squeue' = [t \in Sem |-> squeue'[t]]
    BY <1>1, <1>2, ReleaseQueues
  <2>2. ReadyYes(p, qkey)
    BY <1>2
  <2> HIDE DEF p
  <2>3. Scheduled(st)
    BY <1>1, <2>1, <2>2, ReadyYesSchedules DEF QueuesMatchStates
  <2> HIDE DEF st
  <2> QED BY <2>1, <2>3, RescheduledInv
<1>3. CASE squeue[s] = << >> /\ UNCHANGED <<squeue, sched>>
  BY <1>3, UnscheduledInv
<1> QED BY <1>2, <1>3 DEF Release, Ready, ReadyAndResched

LEMMA SignalKeeps ==
  ASSUME IInv, NEW s \in Sem, Signal(s)
  PROVE  IInv'
<1> USE DEF sleepv, msgv, procv
<1>1. UserCall /\ UNCHANGED <<sleepq, prsem, pc>>
  BY DEF Signal
<1>2. PointsOK' /\ Boot'
  BY <1>1, UserPoints
<1>3. OtherTypes'
  <2>1. scount' \in [Sem -> Int]
    BY CountTyped DEF Signal, IInv, TypeOK
  <2> QED BY <2>1 DEF Signal, IInv, TypeOK, OtherTypes, NoReceive
<1>4. CASE Release(s, TRUE)
  BY <1>1, <1>2, <1>3, <1>4, ReleaseKeeps
<1>5. CASE UNCHANGED <<squeue, sched>>
  BY <1>1, <1>2, <1>3, <1>5, UnscheduledInv
<1> QED BY <1>4, <1>5 DEF Signal

(* ready(p, RESCHED_NO) leaves the running process running.                *)
LEMMA ReadyNoMatches ==
  ASSUME IInv, NEW p \in Pid, prstate[p] \notin {"CURR", "READY", "RECV"}, ReadyNo(p),
         QueuesFor([prstate EXCEPT ![p] = "READY"])
  PROVE  /\ QueuesMatchStates' /\ SchedTypes'
         /\ currpid' = currpid /\ prstate'[currpid] = prstate[currpid]
<1> DEFINE st == [prstate EXCEPT ![p] = "READY"]
<1>1. PICK i \in 1 .. Len(readylist) + 1 :
        /\ prstate' = st
        /\ readylist' = InsertAt(readylist, i, p)
        /\ qkey' = [qkey EXCEPT ![p] = prprio[p]]
        /\ UNCHANGED <<currpid, preempt>>
  BY DEF ReadyNo
<1>2. TypeOK /\ QueuesMatchStates
  BY DEF IInv
<1>3. p # currpid
  BY <1>2 DEF IInv, NoReceive, QueuesMatchStates, OneCurrent
<1>4. st \in [Pid -> States] /\ \A q \in Pid : st[q] = IF q = p THEN "READY" ELSE prstate[q]
  BY <1>2 DEF TypeOK, States
<1>5. Enumerates(readylist', WithState(st, {"READY"}))
  BY <1>1, <1>2, ReadyLists DEF QueuesMatchStates
<1> HIDE DEF st
<1>6. ReadyListed' /\ SleepListed' /\ WaitListed' /\ NullRunnable'
  BY <1>1, <1>5 DEF QueuesFor, ReadyListed, SleepListed, WaitListed, NullRunnable, st
<1>7. prstate'[currpid] = prstate[currpid]
  BY <1>1, <1>2, <1>3, <1>4 DEF TypeOK
<1>8. OneCurrent'
  BY <1>1, <1>2, <1>4, <1>7 DEF QueuesMatchStates, OneCurrent
<1>9. SchedTypes'
  BY <1>1, <1>2, <1>4 DEF TypeOK, SchedTypes
<1> QED BY <1>1, <1>6, <1>7, <1>8, <1>9 DEF QueuesMatchStates

LEMMA SignalNKeeps ==
  ASSUME IInv, NEW s \in Sem, NEW n \in Counts, SignalN(s, n)
  PROVE  IInv'
<1> USE DEF sched, sleepv, semv, msgv, procv
<1> DEFINE point == Point("signaln", s, n)
<1>1. UserCall /\ Goto(point) /\ UNCHANGED <<sched, sleepq, squeue, prsem, waking>>
  BY DEF SignalN
<1>2. s \in Nat /\ n \in Int /\ point \in Points /\ point.at = "signaln" /\ point.obj = s
  BY CountsAssumption, NsemAssumption DEF Sem, Points, Places, Point, IntrOff, BootPoints
<1> HIDE DEF point
<1>3. /\ currpid \in Pid /\ prstate[currpid] = "CURR" /\ ~waking
      /\ pc[currpid].at \notin BootPoints \cup {"idle"} /\ pc \in [Pid -> Points]
  BY <1>1, UserRuns DEF IInv, TypeOK, NoReceive
<1>4. pc' \in [Pid -> Points] /\ pc'[currpid] = point
  BY <1>1, <1>2, <1>3 DEF Goto
<1>5. OtherTypes'
  BY <1>4 DEF SignalN, IInv, TypeOK, OtherTypes
<1>6. PointsOK' /\ Boot'
  <2>1. point.at \in HeldPoints /\ point.at \notin WalkPoints
    BY <1>2 DEF HeldPoints, WalkPoints
  <2> QED BY <1>1, <1>2, <1>3, <2>1, PointsHeld
<1> QED BY <1>1, <1>2, <1>3, <1>4, <1>5, <1>6, UnscheduledInv

(* User code, the point a call returns to.                                 *)
LEMMA UserCodePoint == MayStand(UserCode) /\ UserCode \in Points /\ UserCode.at = "user"
BY DEF UserCode, Point, Points, Places, MayStand, HeldPoints, WalkPoints, BootPoints

(* What a call keeps when it ends in resched with the states unchanged.    *)
LEMMA YieldInv ==
  ASSUME IInv, Resched(prstate, readylist, qkey, preempt),
         UNCHANGED <<sleepq, squeue, prsem>>, OtherTypes', PointsOK', Boot'
  PROVE  IInv'
<1>1. /\ TypeOK /\ QueuesMatchStates /\ qkey \in [Pid -> Int] /\ preempt \in 1 .. QUANTUM
      /\ prstate \in [Pid -> States]
  BY DEF IInv, TypeOK
<1>2. Scheduled(prstate)
  BY <1>1, StaySchedules DEF QueuesMatchStates
<1>3. QueuesFor(prstate)
  BY <1>1, SameQueues
<1>4. squeue' = [t \in Sem |-> squeue'[t]]
  BY <1>1 DEF TypeOK
<1> QED BY <1>1, <1>2, <1>3, <1>4, RescheduledInv

LEMMA SignalNStepKeeps ==
  ASSUME IInv, SignalNStep
  PROVE  IInv'
<1> USE DEF sleepv, msgv, procv
<1> DEFINE s == pc[currpid].obj
           n == pc[currpid].num
           point == Point("signaln", s, n - 1)
<1>1. "signaln" \notin BootPoints \cup {"idle"}
  BY DEF BootPoints
<1>2. /\ ~waking /\ UNCHANGED <<sleepq, prsem, waking>>
      /\ currpid \in Pid \ {NULLPROC} /\ prstate[currpid] = "CURR"
      /\ pc[currpid].at = "signaln" /\ pc[currpid] \in Points
      /\ pc[currpid].at \notin BootPoints \cup {"idle"} /\ pc \in [Pid -> Points]
      /\ TypeOK /\ QueuesMatchStates
  <2>1. Running("signaln")
    BY DEF SignalNStep
  <2> QED BY <1>1, <2>1, RunningAt DEF SignalNStep, IInv, TypeOK, NoReceive
<1>3. s \in Sem /\ n \in Int
  BY <1>2 DEF IInv, PointsOK, LocalsOK, Points
<1> HIDE DEF s, n
<1>4. CASE /\ scount' = [scount EXCEPT ![s] = @ + 1]
           /\ \/ HasWaiter(scount[s]) /\ Release(s, FALSE)
              \/ ~HasWaiter(scount[s]) /\ UNCHANGED <<squeue, sched>>
           /\ Goto(point)
  <2>1. point \in Points /\ point.at = "signaln" /\ point.obj = s
    BY <1>3, NsemAssumption DEF Sem, Points, Places, Point, IntrOff, BootPoints
  <2> HIDE DEF point
  <2>2. pc' \in [Pid -> Points] /\ pc'[currpid] = point
    BY <1>2, <1>4, <2>1 DEF Goto
  <2>3. OtherTypes'
    <3>1. scount' \in [Sem -> Int]
      BY <1>2, <1>3, <1>4, CountTyped DEF TypeOK
    <3> QED BY <1>2, <2>2, <3>1 DEF SignalNStep, TypeOK, OtherTypes
  <2>4. point.at \in HeldPoints /\ point.at \notin WalkPoints
    BY <2>1 DEF HeldPoints, WalkPoints
  <2>5. CASE /\ squeue[s] # << >>
             /\ squeue' = [squeue EXCEPT ![s] = Tail(@)]
             /\ ReadyNo(Head(squeue[s]))
    <3> DEFINE p  == Head(squeue[s])
               st == [prstate EXCEPT ![p] = "READY"]
    <3>1. /\ p \in Pid /\ prstate[p] = "WAIT" /\ QueuesFor(st)
          /\ squeue' = [t \in Sem |-> squeue'[t]]
      BY <1>2, <1>3, <2>5, ReleaseQueues
    <3>2. ReadyNo(p)
      BY <2>5
    <3> HIDE DEF p
    <3>3. /\ QueuesMatchStates' /\ SchedTypes'
          /\ currpid' = currpid /\ prstate'[currpid] = "CURR"
      BY <1>2, <2>1, <2>2, <3>1, <3>2, ReadyNoMatches
    <3>4. PointsOK' /\ Boot'
      BY <1>2, <1>3, <1>4, <2>1, <2>4, <3>3, PointsHeld
    <3> QED BY <2>3, <3>1, <3>3, <3>4, TypesJoin DEF IInv, NoReceive, OtherTypes
  <2>6. CASE UNCHANGED <<squeue, sched>>
    <3>1. currpid' = currpid /\ prstate'[currpid] = "CURR"
      BY <1>2, <2>6 DEF sched
    <3>2. PointsOK' /\ Boot'
      BY <1>2, <1>3, <1>4, <2>1, <2>4, <3>1, PointsHeld
    <3> QED BY <1>2, <2>1, <2>2, <2>3, <2>6, <3>2, UnscheduledInv
  <2> QED BY <1>4, <2>5, <2>6 DEF Release, Ready
<1>5. CASE /\ Resched(prstate, readylist, qkey, preempt)
           /\ Goto(UserCode)
           /\ UNCHANGED <<scount, squeue>>
  <2>1. pc' \in [Pid -> Points]
    BY <1>2, <1>5, UserCodePoint DEF Goto
  <2>2. OtherTypes'
    BY <1>2, <1>5, <2>1 DEF SignalNStep, TypeOK, OtherTypes
  <2>3. PointsOK' /\ Boot'
    BY <1>2, <1>5, UserCodePoint, GotoPoints
  <2> QED BY <1>2, <1>5, <2>2, <2>3, YieldInv
<1> QED BY <1>4, <1>5 DEF SignalNStep, s, n

LEMMA NextSemTyped == ASSUME NEW s \in Sem PROVE (s + 1) % NSEM \in Sem
BY NsemAssumption DEF Sem

LEMMA SemCreateKeeps ==
  ASSUME IInv, NEW n \in Counts, SemCreate(n)
  PROVE  IInv'
<1> USE DEF sleepv, msgv, procv
<1>1. UserCall /\ UNCHANGED <<sched, sleepq, squeue, prsem, pc>>
  BY DEF SemCreate
<1>2. PICK s \in Sem : /\ sstate' = [sstate EXCEPT ![s] = "USED"]
                       /\ scount' = [scount EXCEPT ![s] = n]
                       /\ nextsem' = (s + 1) % NSEM
  BY DEF SemCreate
<1>3. /\ sstate' \in [Sem -> {"FREE", "USED"}] /\ scount' \in [Sem -> Int]
      /\ nextsem' \in Sem
  <2>1. sstate \in [Sem -> {"FREE", "USED"}] /\ scount \in [Sem -> Int]
    BY DEF IInv, TypeOK
  <2>2. n \in Int
    BY ONLY CountsAssumption, n \in Counts
  <2> QED BY <1>2, <2>1, <2>2, NextSemTyped
<1>4. OtherTypes'
  BY <1>3 DEF SemCreate, IInv, TypeOK, OtherTypes, NoReceive
<1> QED BY <1>1, <1>4, UserPoints, UnscheduledInv

(* The points of the semaphore calls that may be left.                     *)
LEMMA SemPoint ==
  ASSUME NEW l \in {"semdelete", "semreset"}, NEW s \in Sem, NEW n \in Int
  PROVE  MayStand(Point(l, s, n)) /\ Point(l, s, n) \in Points /\ Point(l, s, n).at = l
BY NsemAssumption
DEF Point, Points, Places, IntrOff, MayStand, HeldPoints, WalkPoints, BootPoints, Sem

(* A call that only moves to a point where its process may be left.        *)
LEMMA GotoInv ==
  ASSUME IInv, UserCall, NEW point \in Points, MayStand(point),
         Goto(point),
         UNCHANGED <<sched, sleepq, squeue, prsem>>,
         pc' \in [Pid -> Points] => OtherTypes'
  PROVE  IInv'
<1>1. /\ currpid \in Pid \ {NULLPROC} /\ prstate[currpid] = "CURR"
      /\ pc[currpid].at \notin BootPoints \cup {"idle"} /\ pc \in [Pid -> Points]
  BY UserRuns DEF IInv, TypeOK, NoReceive
<1>2. pc' \in [Pid -> Points] /\ pc'[currpid] = point
  BY <1>1 DEF Goto
<1>3. PointsOK' /\ Boot'
  BY <1>1, GotoPoints
<1> QED BY <1>1, <1>2, <1>3, UnscheduledInv

LEMMA SemDeleteKeeps ==
  ASSUME IInv, NEW s \in Sem, SemDelete(s)
  PROVE  IInv'
<1> USE DEF sleepv, msgv, procv
<1> DEFINE point == Point("semdelete", s, 0)
<1>1. point \in Points /\ MayStand(point) /\ point.at = "semdelete"
  BY SemPoint
<1> HIDE DEF point
<1>2. UserCall /\ Goto(point) /\ UNCHANGED <<sched, sleepq, squeue, prsem>>
  BY DEF SemDelete, point
<1>3. pc' \in [Pid -> Points] => OtherTypes'
  BY DEF SemDelete, IInv, TypeOK, OtherTypes
<1> QED BY <1>1, <1>2, <1>3, GotoInv

LEMMA SemResetKeeps ==
  ASSUME IInv, NEW s \in Sem, NEW n \in Counts, SemReset(s, n)
  PROVE  IInv'
<1> USE DEF sleepv, semv, msgv, procv
<1> DEFINE point == Point("semreset", s, n)
<1>1. point \in Points /\ MayStand(point) /\ point.at = "semreset"
  BY SemPoint, CountsAssumption
<1> HIDE DEF point
<1>2. UserCall /\ Goto(point) /\ UNCHANGED <<sched, sleepq, squeue, prsem>>
  BY DEF SemReset, point
<1>3. pc' \in [Pid -> Points] => OtherTypes'
  BY DEF SemReset, IInv, TypeOK, OtherTypes
<1> QED BY <1>1, <1>2, <1>3, GotoInv

LEMMA SemDeleteStepKeeps ==
  ASSUME IInv, SemDeleteStep
  PROVE  IInv'
<1> USE DEF sleepv, msgv, procv
<1> DEFINE s == pc[currpid].obj
<1>1. "semdelete" \notin BootPoints \cup {"idle"} /\ "semdelete" \notin HeldPoints
  BY DEF BootPoints, HeldPoints, WalkPoints
<1>2. /\ UNCHANGED <<sleepq, prsem>>
      /\ currpid \in Pid \ {NULLPROC}
      /\ pc[currpid].at = "semdelete"
      /\ pc[currpid].at \notin BootPoints \cup {"idle"} /\ pc \in [Pid -> Points] /\ TypeOK
  <2>1. Running("semdelete")
    BY DEF SemDeleteStep
  <2> QED BY <1>1, <2>1, RunningAt DEF SemDeleteStep, IInv, TypeOK, NoReceive
<1>3. s \in Sem
  BY <1>2 DEF IInv, PointsOK, LocalsOK
<1> HIDE DEF s
<1>4. scount' \in [Sem -> Int]
  BY <1>2, <1>3, CountTyped DEF SemDeleteStep, TypeOK, s
<1>5. pc' \in [Pid -> Points] => OtherTypes'
  BY <1>2, <1>4 DEF SemDeleteStep, TypeOK, OtherTypes
<1>6. CASE Release(s, TRUE) /\ UNCHANGED pc
  <2>1. PointsOK' /\ Boot'
    BY <1>1, <1>2, <1>6, PointsKept
  <2> QED BY <1>2, <1>3, <1>5, <1>6, <2>1, ReleaseKeeps
<1>7. CASE Resched(prstate, readylist, qkey, preempt) /\ Goto(UserCode) /\ UNCHANGED squeue
  <2>1. pc' \in [Pid -> Points] /\ PointsOK' /\ Boot'
    BY <1>2, <1>7, UserCodePoint, GotoPoints DEF Goto
  <2> QED BY <1>2, <1>5, <1>7, <2>1, YieldInv
<1> QED BY <1>6, <1>7 DEF SemDeleteStep, s

LEMMA SemResetStepKeeps ==
  ASSUME IInv, SemResetStep
  PROVE  IInv'
<1> USE DEF sleepv, msgv, procv
<1> DEFINE s == pc[currpid].obj
           n == pc[currpid].num
<1>1. "semreset" \notin BootPoints \cup {"idle"} /\ "semreset" \notin HeldPoints
  BY DEF BootPoints, HeldPoints, WalkPoints
<1>2. /\ UNCHANGED <<sleepq, prsem>>
      /\ currpid \in Pid \ {NULLPROC}
      /\ pc[currpid].at = "semreset" /\ pc[currpid] \in Points
      /\ pc[currpid].at \notin BootPoints \cup {"idle"} /\ pc \in [Pid -> Points] /\ TypeOK
  <2>1. Running("semreset")
    BY DEF SemResetStep
  <2> QED BY <1>1, <2>1, RunningAt DEF SemResetStep, IInv, TypeOK, NoReceive
<1>3. s \in Sem /\ n \in Int
  BY <1>2 DEF IInv, PointsOK, LocalsOK, Points
<1> HIDE DEF s, n
<1>4. pc' \in [Pid -> Points] /\ scount' \in [Sem -> Int] => OtherTypes'
  BY <1>2 DEF SemResetStep, TypeOK, OtherTypes
<1>5. CASE Release(s, TRUE) /\ UNCHANGED <<scount, pc>>
  <2>1. PointsOK' /\ Boot'
    BY <1>1, <1>2, <1>5, PointsKept
  <2> QED BY <1>2, <1>3, <1>4, <1>5, <2>1, ReleaseKeeps DEF TypeOK
<1>6. CASE /\ scount' = [scount EXCEPT ![s] = n]
           /\ Resched(prstate, readylist, qkey, preempt) /\ Goto(UserCode) /\ UNCHANGED squeue
  <2>1. pc' \in [Pid -> Points] /\ PointsOK' /\ Boot'
    BY <1>2, <1>6, UserCodePoint, GotoPoints DEF Goto
  <2>2. scount' \in [Sem -> Int]
    BY <1>2, <1>3, <1>6 DEF TypeOK
  <2> QED BY <1>2, <1>4, <1>6, <2>1, <2>2, YieldInv
<1> QED BY <1>5, <1>6 DEF SemResetStep, s, n

-----------------------------------------------------------------------------
(* Messages.                                                               *)

(* unsleep() of the sleeper p in place i, to give it the state s.          *)
LEMMA UnlinkQueues ==
  ASSUME TypeOK, QueuesMatchStates, NEW p \in Pid, prstate[p] \in Sleeping,
         NEW i \in 1 .. Len(sleepq), Unlink(p, i), UNCHANGED <<squeue, prsem>>,
         NEW s \in {"READY", "FREE"}
  PROVE  /\ [prstate EXCEPT ![p] = s] \in [Pid -> States]
         /\ p # NULLPROC
         /\ QueuesFor([prstate EXCEPT ![p] = s])
         /\ UnsleptKeys(i) \in [Pid -> Int]
         /\ due' \in [Pid -> Int]
<1> DEFINE st == [prstate EXCEPT ![p] = s]
           Z  == WithState(prstate, Sleeping)
<1>1. sleepq[i] = p /\ sleepq' = RemoveAt(sleepq, i) /\ due' = [due EXCEPT ![p] = 0]
  BY DEF Unlink
<1>2. Enumerates(sleepq', Z \ {p})
  <2>1. Enumerates(sleepq, Z)
    BY DEF QueuesMatchStates, SleepListed
  <2> HIDE DEF Z
  <2> QED BY <1>1, <2>1, RemoveLists
<1>3. st \in [Pid -> States] /\ \A q \in Pid : st[q] = IF q = p THEN s ELSE prstate[q]
  BY DEF TypeOK, States
<1>4. p # NULLPROC
  BY DEF QueuesMatchStates, NullRunnable, Sleeping
<1> HIDE DEF st
<1>5. /\ WithState(st, Sleeping) = Z \ {p}
      /\ \A t \in Sem : Waiters(st, prsem, t) = Waiters(prstate, prsem, t)
  BY <1>3 DEF Waiters, WithState, Sleeping
<1>6. QueuesFor(st)
  BY <1>2, <1>3, <1>4, <1>5, NullIsPid
  DEF QueuesFor, QueuesMatchStates, WaitListed, NullRunnable
<1>7. UnsleptKeys(i) \in [Pid -> Int]
  <2>1. i < Len(sleepq) => sleepq[i + 1] \in Pid
    <3>1. sleepq \in Seq(Pid)
      BY DEF TypeOK
    <3>2. Len(sleepq) \in Nat /\ i \in Nat /\ i >= 1
      BY <3>1
    <3>3. i < Len(sleepq) => i + 1 \in 1 .. Len(sleepq)
      BY <3>2
    <3> QED BY <3>1, <3>3
  <2>2. sleepq[i] \in Pid /\ qkey \in [Pid -> Int]
    BY <1>1 DEF TypeOK
  <2> QED BY <2>1, <2>2 DEF UnsleptKeys
<1>8. due' \in [Pid -> Int]
  BY <1>1 DEF TypeOK
<1> QED BY <1>3, <1>4, <1>6, <1>7, <1>8 DEF st

(* The states of a process made ready are those of the other processes.    *)
LEMMA ReadyQueues ==
  ASSUME TypeOK, QueuesMatchStates, UNCHANGED <<sleepq, squeue, prsem>>,
         NEW p \in Pid, prstate[p] \in {"RECV", "SUSP"}
  PROVE  /\ [prstate EXCEPT ![p] = "READY"] \in [Pid -> States]
         /\ QueuesFor([prstate EXCEPT ![p] = "READY"])
<1> DEFINE st == [prstate EXCEPT ![p] = "READY"]
<1>1. st \in [Pid -> States] /\ \A q \in Pid : st[q] = IF q = p THEN "READY" ELSE prstate[q]
  BY DEF TypeOK, States
<1> HIDE DEF st
<1>2. /\ WithState(st, Sleeping) = WithState(prstate, Sleeping)
      /\ \A t \in Sem : Waiters(st, prsem, t) = Waiters(prstate, prsem, t)
  BY <1>1 DEF Waiters, WithState, Sleeping
<1>3. QueuesFor(st)
  BY <1>1, <1>2, NullIsPid
  DEF QueuesFor, QueuesMatchStates, SleepListed, WaitListed, NullRunnable
<1> QED BY <1>1, <1>3 DEF st

MessageTypes ==
  /\ prhasmsg \in [Pid -> BOOLEAN]
  /\ prmsg \in [Pid -> Pid]
  /\ due \in [Pid -> Int]

(* send(), which kill() calls as well.                                     *)
LEMMA DeliverKeeps ==
  ASSUME IInv, UserCall, NEW p \in Pid, NEW m \in Pid, Deliver(p, m),
         UNCHANGED <<squeue, prsem>>, MessageTypes' => OtherTypes',
         PointsOK', Boot'
  PROVE  IInv'
<1>1. /\ TypeOK /\ QueuesMatchStates /\ MessageTypes /\ prstate[currpid] = "CURR"
      /\ qkey \in [Pid -> Int]
  BY UserRuns DEF IInv, TypeOK, MessageTypes
<1>2. CASE UNCHANGED <<sched, sleepv, msgv>>
  <2>1. MessageTypes' /\ UNCHANGED sleepq
    BY <1>1, <1>2 DEF MessageTypes, sleepv, msgv
  <2> QED BY <1>1, <1>2, <2>1, UnscheduledInv
<1>3. CASE /\ prmsg' = [prmsg EXCEPT ![p] = m]
           /\ prhasmsg' = [prhasmsg EXCEPT ![p] = TRUE]
           /\ \/ /\ prstate[p] = "RECV"
                 /\ ReadyYes(p, qkey)
                 /\ UNCHANGED sleepv
              \/ /\ prstate[p] = "RECTIM"
                 /\ \E i \in 1 .. Len(sleepq) :
                      Unlink(p, i) /\ ReadyYes(p, UnsleptKeys(i))
              \/ /\ prstate[p] \notin {"RECV", "RECTIM"}
                 /\ UNCHANGED <<sched, sleepv>>
  <2>1. due' \in [Pid -> Int] => MessageTypes'
    BY <1>1, <1>3 DEF MessageTypes
  <2>2. squeue' = [s \in Sem |-> squeue'[s]]
    BY <1>1 DEF TypeOK
  <2> DEFINE st == [prstate EXCEPT ![p] = "READY"]
  <2>3. CASE prstate[p] = "RECV" /\ ReadyYes(p, qkey) /\ UNCHANGED sleepv
    <3>1. UNCHANGED sleepq /\ MessageTypes'
      BY <1>1, <2>1, <2>3 DEF sleepv, TypeOK
    <3>2. Scheduled(st)
      BY <1>1, <2>3, ReadyYesSchedules DEF QueuesMatchStates
    <3>3. st \in [Pid -> States] /\ QueuesFor(st)
      BY <1>1, <2>3, <3>1, ReadyQueues
    <3> HIDE DEF st
    <3> QED BY <2>2, <3>1, <3>2, <3>3, RescheduledInv
  <2>4. CASE /\ prstate[p] = "RECTIM"
             /\ \E i \in 1 .. Len(sleepq) : Unlink(p, i) /\ ReadyYes(p, UnsleptKeys(i))
    <3>1. PICK i \in 1 .. Len(sleepq) : Unlink(p, i) /\ ReadyYes(p, UnsleptKeys(i))
      BY <2>4
    <3>2. prstate[p] \in Sleeping
      BY <2>4 DEF Sleeping
    <3>3. /\ st \in [Pid -> States] /\ QueuesFor(st)
          /\ UnsleptKeys(i) \in [Pid -> Int] /\ due' \in [Pid -> Int]
      BY <1>1, <3>1, <3>2, UnlinkQueues
    <3>4. Scheduled(st)
      BY <1>1, <2>4, <3>1, <3>3, ReadyYesSchedules DEF QueuesMatchStates
    <3> HIDE DEF st
    <3> QED BY <2>1, <2>2, <3>3, <3>4, RescheduledInv
  <2>5. CASE UNCHANGED <<sched, sleepv>>
    <3>1. UNCHANGED sleepq /\ MessageTypes'
      BY <1>1, <2>1, <2>5 DEF sleepv, TypeOK
    <3> QED BY <1>1, <2>5, <3>1, UnscheduledInv
  <2> QED BY <1>3, <2>3, <2>4, <2>5
<1> QED BY <1>2, <1>3 DEF Deliver

LEMMA SendKeeps ==
  ASSUME IInv, NEW p \in Pid, NEW m \in Msgs, Send(p, m)
  PROVE  IInv'
<1>1. UserCall /\ Deliver(p, m) /\ UNCHANGED <<squeue, prsem, pc>> /\ m \in Pid
  BY MsgsAssumption DEF Send, semv
<1>2. MessageTypes' => OtherTypes'
  BY DEF Send, semv, procv, IInv, TypeOK, OtherTypes, MessageTypes, NoReceive
<1>3. PointsOK' /\ Boot'
  BY <1>1, UserPoints, UserRuns
<1> QED BY <1>1, <1>2, <1>3, DeliverKeeps

LEMMA TakeMsgTyped ==
  ASSUME TypeOK, TakeMsg
  PROVE  prhasmsg' \in [Pid -> BOOLEAN] /\ prmsg' \in [Pid -> Pid]
BY DEF TypeOK, TakeMsg

LEMMA RecvClrKeeps ==
  ASSUME IInv, RecvClr
  PROVE  IInv'
<1>1. UserCall /\ UNCHANGED <<sched, sleepq, squeue, prsem, pc>>
  BY DEF RecvClr, sleepv, semv
<1>2. prhasmsg' \in [Pid -> BOOLEAN] /\ prmsg' \in [Pid -> Pid]
  BY TakeMsgTyped DEF RecvClr, IInv
<1>3. OtherTypes'
  BY <1>2 DEF RecvClr, sleepv, semv, procv, IInv, TypeOK, OtherTypes, NoReceive
<1> QED BY <1>1, <1>3, UserPoints, UnscheduledInv

(* The end of recvtime().                                                  *)
LEMMA ReceivePoint ==
  /\ MayStand(Point("rectim", 0, 0)) /\ Point("rectim", 0, 0) \in Points
  /\ Point("rectim", 0, 0).at = "rectim"
  /\ "rectim" \notin BootPoints \cup {"idle"} /\ "rectim" \notin HeldPoints
BY DEF Point, Points, Places, IntrOff, MayStand, HeldPoints, WalkPoints, BootPoints

(* The end of recvtime(): back to user code.                               *)
LEMMA ReturnInv ==
  ASSUME IInv, Running("rectim"), Goto(UserCode),
         UNCHANGED <<sched, sleepq, squeue, prsem>>,
         pc' \in [Pid -> Points] => OtherTypes'
  PROVE  IInv'
<1>1. "rectim" \notin BootPoints \cup {"idle"}
  BY ReceivePoint
<1>2. /\ currpid \in Pid \ {NULLPROC} /\ prstate[currpid] = "CURR"
      /\ pc[currpid].at \notin BootPoints \cup {"idle"} /\ pc \in [Pid -> Points]
  BY <1>1, RunningAt DEF IInv, TypeOK, NoReceive
<1>3. pc' \in [Pid -> Points] /\ pc'[currpid] = UserCode /\ PointsOK' /\ Boot'
  BY <1>2, UserCodePoint, GotoPoints DEF Goto
<1> QED BY <1>2, <1>3, UserCodePoint, UnscheduledInv

LEMMA RecvTimeTakeKeeps ==
  ASSUME IInv, RecvTimeTake
  PROVE  IInv'
<1>1. prhasmsg' \in [Pid -> BOOLEAN] /\ prmsg' \in [Pid -> Pid]
  BY TakeMsgTyped DEF RecvTimeTake, IInv, TypeOK, msgv
<1>2. pc' \in [Pid -> Points] => OtherTypes'
  BY <1>1 DEF RecvTimeTake, sleepv, semv, procv, IInv, TypeOK, OtherTypes
<1> QED BY <1>2, ReturnInv DEF RecvTimeTake, sleepv, semv

-----------------------------------------------------------------------------
(* The clock.                                                              *)

LEMMA IntsKept ==
  ASSUME NEW f \in [Pid -> Int], NEW p \in Pid, NEW n \in Int
  PROVE  [f EXCEPT ![p] = n] \in [Pid -> Int]
OBVIOUS

LEMMA KeysKept ==
  ASSUME NEW f \in [Pid -> Int], NEW p \in Pid, NEW q \in Pid, NEW n \in Int
  PROVE  [f EXCEPT ![p] = n, ![q] = @ - n] \in [Pid -> Int]
OBVIOUS

LEMMA WalkPoint ==
  ASSUME NEW l \in WalkPoints, NEW i \in Nat, NEW n \in Int
  PROVE  /\ Point(l, i, n) \in Points /\ Point(l, i, n).at = l
         /\ Point(l, i, n).obj = i /\ Point(l, i, n).num = n
         /\ l \in HeldPoints /\ l # "signaln"
         /\ l \notin BootPoints \cup {"idle"}
BY DEF WalkPoints, HeldPoints, BootPoints, Point, Points, Places, IntrOff

(* A call that starts or goes on walking the sleep queue.                  *)
LEMMA WalkInv ==
  ASSUME IInv, ~waking, prstate[currpid] = "CURR", currpid \in Pid,
         pc[currpid].at \notin BootPoints \cup {"idle"},
         NEW l \in WalkPoints, NEW i \in 0 .. Len(sleepq), NEW n \in Int,
         Goto(Point(l, i, n)), UNCHANGED <<sched, sleepq, squeue, prsem, waking>>,
         pc' \in [Pid -> Points] => OtherTypes'
  PROVE  IInv'
<1> DEFINE point == Point(l, i, n)
<1>1. /\ point \in Points /\ point.at = l /\ point.obj = i /\ l \in HeldPoints
      /\ l # "signaln" /\ i <= Len(sleepq)
  <2>1. i \in Nat /\ i <= Len(sleepq)
    BY DEF IInv, TypeOK
  <2> QED BY <2>1, WalkPoint
<1> HIDE DEF point
<1>2. pc \in [Pid -> Points] /\ Goto(point)
  BY DEF IInv, TypeOK, NoReceive, point
<1>3. pc' \in [Pid -> Points] /\ pc'[currpid] = point
  BY <1>1, <1>2 DEF Goto
<1>4. currpid' = currpid /\ prstate'[currpid] = "CURR" /\ sleepq' = sleepq /\ ~waking'
  BY DEF sched
<1>5. PointsOK' /\ Boot'
  BY <1>1, <1>2, <1>4, PointsHeld
<1> QED BY <1>1, <1>3, <1>5, UnscheduledInv

LEMMA RecvTimeKeeps ==
  ASSUME IInv, NEW d \in Delays, RecvTime(d)
  PROVE  IInv'
<1> USE DEF semv, msgv, procv
<1>1. UserCall /\ UNCHANGED <<sched, sleepq, squeue, prsem, waking>>
  BY DEF RecvTime
<1>2. /\ prstate[currpid] = "CURR" /\ currpid \in Pid /\ ~waking
      /\ pc[currpid].at \notin BootPoints \cup {"idle"} /\ TypeOK /\ d \in Nat
  <2>1. "user" \notin BootPoints \cup {"idle"}
    BY DEF BootPoints
  <2> QED BY <1>1, <2>1, UserRuns, DelaysAssumption DEF IInv
<1>3. due' \in [Pid -> Int]
  <2>1. due \in [Pid -> Int] /\ d \in Int
    BY <1>2 DEF TypeOK
  <2> QED BY <1>2, <2>1, IntsKept DEF RecvTime
<1>4. pc' \in [Pid -> Points] => OtherTypes'
  BY <1>2, <1>3 DEF RecvTime, TypeOK, OtherTypes
<1>5. CASE Goto(Point("rectim", 0, 0))
  <2> DEFINE point == Point("rectim", 0, 0)
  <2>1. point \in Points /\ MayStand(point)
    BY ReceivePoint
  <2> HIDE DEF point
  <2> QED BY <1>1, <1>4, <1>5, <2>1, GotoInv DEF point
<1>6. CASE Goto(Point("recvtime", 0, d))
  <2>1. 0 \in 0 .. Len(sleepq) /\ "recvtime" \in WalkPoints
    BY <1>2 DEF TypeOK, WalkPoints
  <2> QED BY <1>1, <1>2, <1>4, <1>6, <2>1, WalkInv
<1> QED BY <1>5, <1>6 DEF RecvTime

LEMMA SleepMsKeeps ==
  ASSUME IInv, NEW d \in Delays \cup {0}, SleepMs(d)
  PROVE  IInv'
<1> USE DEF semv, msgv, procv
<1>1. UserCall /\ UNCHANGED <<sleepq, squeue, prsem, waking>>
  BY DEF SleepMs
<1>2. /\ prstate[currpid] = "CURR" /\ currpid \in Pid /\ ~waking
      /\ pc[currpid].at \notin BootPoints \cup {"idle"} /\ TypeOK /\ d \in Nat
  <2>1. "user" \notin BootPoints \cup {"idle"}
    BY DEF BootPoints
  <2>2. d \in Nat
    BY DelaysAssumption
  <2> QED BY <1>1, <2>1, <2>2, UserRuns DEF IInv
<1>3. due' \in [Pid -> Int]
  <2>1. due \in [Pid -> Int] /\ d \in Int
    BY <1>2 DEF TypeOK
  <2> QED BY <1>2, <2>1, IntsKept DEF SleepMs
<1>4. pc' \in [Pid -> Points] => OtherTypes'
  BY <1>2, <1>3 DEF SleepMs, TypeOK, OtherTypes
<1>5. CASE Resched(prstate, readylist, qkey, preempt) /\ UNCHANGED <<pc, due>>
  <2>1. pc' \in [Pid -> Points]
    BY <1>2, <1>5 DEF IInv, TypeOK, NoReceive
  <2> QED BY <1>1, <1>4, <1>5, <2>1, UserPoints, YieldInv
<1>6. CASE Goto(Point("sleepms", 0, d)) /\ UNCHANGED sched
  <2>1. 0 \in 0 .. Len(sleepq) /\ "sleepms" \in WalkPoints
    BY <1>2 DEF TypeOK, WalkPoints
  <2> QED BY <1>1, <1>2, <1>4, <1>6, <2>1, WalkInv
<1> QED BY <1>5, <1>6 DEF SleepMs

(* insertd() works for the running process only, at its own point.         *)
LEMMA InsertingRuns ==
  ASSUME IInv, Inserting
  PROVE  /\ ~waking /\ waking \in BOOLEAN
         /\ currpid \in Pid \ {NULLPROC} /\ prstate[currpid] = "CURR"
         /\ pc[currpid].at \in WalkPoints /\ pc[currpid] \in Points
         /\ pc[currpid].obj \in 0 .. Len(sleepq) /\ pc[currpid].num \in Int
         /\ pc[currpid].at \notin BootPoints \cup {"idle"}
         /\ pc \in [Pid -> Points]
         /\ TypeOK /\ QueuesMatchStates
         /\ sleepq \in Seq(Pid) /\ Len(sleepq) \in Nat
<1>1. PICK l \in WalkPoints : Running(l)
  BY DEF Inserting, WalkPoints
<1>2. l \notin BootPoints \cup {"idle"}
  BY DEF WalkPoints, BootPoints
<1>3. /\ ~waking /\ waking \in BOOLEAN
      /\ currpid \in Pid \ {NULLPROC} /\ prstate[currpid] = "CURR"
      /\ pc[currpid].at = l /\ pc[currpid] \in Points
  BY <1>1, <1>2, RunningAt
<1>4. sleepq \in Seq(Pid) /\ Len(sleepq) \in Nat
  BY DEF IInv, TypeOK
<1>5. pc[currpid].obj \in 0 .. Len(sleepq) /\ pc[currpid].num \in Int
  BY <1>3, <1>4 DEF IInv, PointsOK, LocalsOK, Points
<1> QED BY <1>2, <1>3, <1>4, <1>5 DEF IInv, TypeOK, NoReceive

LEMMA InsertdWalkKeeps ==
  ASSUME IInv, InsertdWalk
  PROVE  IInv'
<1> USE DEF sleepv, semv, msgv, procv
<1> DEFINE l == pc[currpid].at
           i == pc[currpid].obj + 1
           n == pc[currpid].num - qkey[sleepq[i]]
<1>1. Inserting /\ UNCHANGED <<sched, sleepq, squeue, prsem, waking>>
  BY DEF InsertdWalk
<1>2. i <= Len(sleepq) /\ Goto(Point(l, i, n))
  BY DEF InsertdWalk
<1>3. i \in 1 .. Len(sleepq) /\ n \in Int
  <2>1. i \in 1 .. Len(sleepq)
    BY <1>1, <1>2, InsertingRuns
  <2>2. sleepq[i] \in Pid
    BY <1>1, <2>1, InsertingRuns
  <2>3. qkey[sleepq[i]] \in Int
    BY <2>2 DEF IInv, TypeOK
  <2> QED BY <1>1, <2>1, <2>3, InsertingRuns
<1>4. i \in 0 .. Len(sleepq)
  BY <1>3
<1>5. pc' \in [Pid -> Points] => OtherTypes'
  BY DEF InsertdWalk, IInv, TypeOK, OtherTypes
<1> HIDE DEF l, i, n
<1>6. l \in WalkPoints /\ pc[currpid].at \notin BootPoints \cup {"idle"}
  BY <1>1, InsertingRuns DEF l
<1> QED BY <1>1, <1>2, <1>3, <1>4, <1>5, <1>6, InsertingRuns, WalkInv

LEMMA InsertdLinkKeeps ==
  ASSUME IInv, InsertdLink
  PROVE  IInv'
<1> USE DEF semv, msgv, procv
<1> DEFINE here  == pc[currpid]
           i     == here.obj + 1
           after == IF here.at = "sleepms" THEN UserCode ELSE Point("rectim", 0, 0)
           state == IF here.at = "sleepms" THEN "SLEEP" ELSE "RECTIM"
           st    == [prstate EXCEPT ![currpid] = state]
           keys  == InsertedKeys(i, here.num)
           Z     == WithState(prstate, Sleeping)
<1>1. /\ Inserting /\ UNCHANGED <<due, squeue, prsem>>
      /\ sleepq' = InsertAt(sleepq, i, currpid)
      /\ Resched(st, readylist, keys, preempt)
      /\ Goto(after)
  BY DEF InsertdLink
<1>2. i \in 1 .. Len(sleepq) + 1
  BY <1>1, InsertingRuns
<1>3. keys \in [Pid -> Int]
  <2>1. i <= Len(sleepq) => sleepq[i] \in Pid
    BY <1>1, <1>2, InsertingRuns
  <2>2. qkey \in [Pid -> Int] /\ here.num \in Int
    BY <1>1, InsertingRuns DEF TypeOK
  <2>3. currpid \in Pid
    BY <1>1, InsertingRuns
  <2>4. CASE i <= Len(sleepq)
    BY <2>1, <2>2, <2>3, <2>4, KeysKept DEF InsertedKeys
  <2>5. CASE ~(i <= Len(sleepq))
    BY <2>2, <2>3, <2>5, IntsKept DEF InsertedKeys
  <2> QED BY <2>4, <2>5
<1>4. state \in Sleeping
  BY DEF Sleeping
<1>5. after \in Points /\ MayStand(after)
  BY ReceivePoint, UserCodePoint
<1> HIDE DEF after, state, keys, i
<1>6. /\ st \in [Pid -> States]
      /\ \A p \in Pid : st[p] = IF p = currpid THEN state ELSE prstate[p]
  BY <1>1, <1>4, InsertingRuns DEF TypeOK, States, Sleeping
<1>7. Scheduled(st)
  <2>1. state \in States \ {"CURR", "READY"}
    BY <1>4 DEF Sleeping, States
  <2> QED BY <1>1, <1>3, <2>1, InsertingRuns, LeaveSchedules DEF QueuesMatchStates
<1> HIDE DEF st
<1>8. /\ WithState(st, Sleeping) = Z \cup {currpid}
      /\ currpid \notin Z
      /\ \A s \in Sem : Waiters(st, prsem, s) = Waiters(prstate, prsem, s)
      /\ \A p \in Pid : st[p] = "WAIT" => prstate[p] = "WAIT"
  BY <1>1, <1>4, <1>6, InsertingRuns DEF WithState, Waiters, Sleeping
<1>9. Enumerates(sleepq', Z \cup {currpid})
  <2>1. Enumerates(sleepq, Z)
    BY <1>1, InsertingRuns DEF QueuesMatchStates, SleepListed
  <2> HIDE DEF Z
  <2> QED BY <1>1, <1>2, <1>8, <2>1, InsertLists
<1>10. QueuesFor(st)
  BY <1>1, <1>6, <1>8, <1>9, NullIsPid, InsertingRuns
  DEF QueuesFor, QueuesMatchStates, WaitListed, NullRunnable
<1>11. pc' \in [Pid -> Points]
  BY <1>1, <1>5, InsertingRuns DEF Goto
<1>12. OtherTypes'
  BY <1>11 DEF InsertdLink, IInv, TypeOK, OtherTypes
<1>13. PointsOK' /\ Boot'
  BY <1>1, <1>5, InsertingRuns, GotoPoints
<1>14. squeue' = [s \in Sem |-> squeue'[s]]
  BY <1>1 DEF IInv, TypeOK
<1> QED BY <1>6, <1>7, <1>10, <1>12, <1>13, <1>14, RescheduledInv

(* The clock interrupts user code and the loop of the null process, which  *)
(* both go on as they are; the boot thread is done.                        *)
LEMMA TickInPlace ==
  ASSUME IInv, Tick
  PROVE  /\ UNCHANGED pc
         /\ pc[currpid].at \notin HeldPoints \cup BootPoints
<1>1. /\ currpid \in Pid /\ pc \in [Pid -> Points] /\ pc[currpid].at \in IntrOn
      /\ \E point \in GoesOnAt(pc[currpid]) : Goto(point)
  BY DEF Tick, IInv, NoReceive, TypeOK
<1>2. pc[currpid].at \in {"user", "idle"}
  BY <1>1 DEF Points, Places, BootPoints, IntrOn, IntrOff
<1>3. Goto(pc[currpid])
  BY <1>1, <1>2 DEF GoesOnAt
<1> QED BY <1>1, <1>2, <1>3 DEF Goto, HeldPoints, WalkPoints, BootPoints

LEMMA TickPoints ==
  ASSUME IInv, pc[currpid].at \notin HeldPoints \cup BootPoints, UNCHANGED <<sleepq, pc>>
  PROVE  PointsOK' /\ Boot'
<1>1. NULLPROC \in Pid /\ currpid \in Pid
  BY NullIsPid DEF IInv, TypeOK
<1>2. \A p \in Pid : pc[p].at \notin HeldPoints
  BY <1>1 DEF IInv, PointsOK, HeldByCurrent
<1>3. PointsOK'
  BY <1>2 DEF IInv, PointsOK, NullPoint, HeldByCurrent, LocalsOK, HeldPoints
<1>4. Boot'
  BY <1>1 DEF IInv, PointsOK, NullPoint, Boot
<1> QED BY <1>3, <1>4

LEMMA TickKeeps ==
  ASSUME IInv, Tick
  PROVE  IInv'
<1> USE DEF semv, msgv, procv
<1>1. /\ ~waking /\ pc[currpid].at \notin HeldPoints \cup BootPoints
      /\ UNCHANGED <<sleepq, squeue, prsem, pc>>
      /\ TypeOK /\ QueuesMatchStates
  BY TickInPlace DEF Tick, IInv
<1>2. \A s \in Sem : squeue'[s] = squeue[s]
  BY <1>1
<1>3. squeue' = [s \in Sem |-> squeue'[s]]
  BY <1>1 DEF TypeOK
<1>4. due' \in [Pid -> Int] /\ waking' \in BOOLEAN
  <2>1. due \in [Pid -> Int] /\ waking \in BOOLEAN
    BY <1>1 DEF TypeOK
  <2>2. due' \in [Pid -> Int]
    <3>1. CASE due' = [p \in Pid |-> IF p \in ToSet(sleepq) THEN due[p] - 1 ELSE due[p]]
      BY <2>1, <3>1
    <3>2. CASE UNCHANGED due
      BY <2>1, <3>2
    <3> QED BY <3>1, <3>2 DEF Tick
  <2>3. waking' \in BOOLEAN
    <3>1. CASE waking' = (qkey[Head(sleepq)] - 1 = 0)
      BY <3>1
    <3>2. CASE UNCHANGED waking
      BY <2>1, <3>2
    <3> QED BY <3>1, <3>2 DEF Tick
  <2> QED BY <2>2, <2>3
<1>5. OtherTypes'
  BY <1>1, <1>4 DEF IInv, Tick, TypeOK, OtherTypes, NoReceive
<1>6. CASE /\ sleepq # << >>
           /\ qkey' = [qkey EXCEPT ![Head(sleepq)] = @ - 1]
           /\ UNCHANGED <<prstate, readylist, currpid, preempt>>
  <2>1. Head(sleepq) \in Pid
    BY <1>1, <1>6 DEF TypeOK
  <2>2. SchedTypes'
    <3> DEFINE h == Head(sleepq)
    <3>1. qkey \in [Pid -> Int] /\ h \in Pid /\ qkey' = [qkey EXCEPT ![h] = qkey[h] - 1]
      BY <1>1, <1>6, <2>1 DEF TypeOK
    <3> HIDE DEF h
    <3>2. qkey' \in [Pid -> Int]
      BY <3>1, IntsKept
    <3> QED BY <1>1, <1>6, <3>2 DEF TypeOK, SchedTypes
  <2>3. QueuesMatchStates'
    BY <1>1, <1>2, <1>6
    DEF QueuesMatchStates, ReadyListed, SleepListed, WaitListed, OneCurrent, NullRunnable
  <2>4. PointsOK' /\ Boot'
    BY <1>1, TickPoints
  <2> QED BY <1>3, <1>5, <2>2, <2>3, <2>4, TypesJoin DEF IInv, NoReceive, OtherTypes
<1>7. CASE Resched(prstate, readylist, qkey, QUANTUM)
  <2>1. /\ qkey \in [Pid -> Int] /\ QUANTUM \in 1 .. QUANTUM /\ prstate \in [Pid -> States]
        /\ ReadyListed /\ OneCurrent
    BY <1>1, QuantumAssumption DEF TypeOK, QueuesMatchStates
  <2>2. Scheduled(prstate) /\ QueuesFor(prstate)
    BY <1>1, <1>7, <2>1, StaySchedules, SameQueues
  <2>3. PointsOK' /\ Boot'
    BY <1>1, TickPoints
  <2> QED BY <1>3, <1>5, <2>1, <2>2, <2>3, RescheduledInv
<1>8. CASE /\ ~SliceOver(preempt) /\ preempt' = preempt - 1
           /\ UNCHANGED <<prstate, readylist, qkey, currpid>>
  <2>1. preempt \in 1 .. QUANTUM /\ QUANTUM \in Nat
    BY <1>1, QuantumAssumption DEF TypeOK
  <2>2. preempt' \in 1 .. QUANTUM
    BY <1>8, <2>1 DEF SliceOver
  <2>3. SchedTypes'
    BY <1>1, <1>8, <2>2 DEF TypeOK, SchedTypes
  <2>4. QueuesMatchStates'
    BY <1>1, <1>2, <1>8
    DEF QueuesMatchStates, ReadyListed, SleepListed, WaitListed, OneCurrent, NullRunnable
  <2>5. PointsOK' /\ Boot'
    BY <1>1, TickPoints
  <2> QED BY <1>3, <1>5, <2>3, <2>4, <2>5, TypesJoin DEF IInv, NoReceive, OtherTypes
<1> QED BY <1>6, <1>7, <1>8 DEF Tick, CountSlice

(* Inside wakeup() no process is at a point it must not be left at.        *)
LEMMA WakingPoints ==
  ASSUME IInv, waking, UNCHANGED pc
  PROVE  /\ PointsOK' /\ Boot'
BY PointsKept, NullIsPid DEF IInv, PointsOK, HeldByCurrent, Boot, NullPoint, TypeOK

LEMMA WakeupReadyKeeps ==
  ASSUME IInv, WakeupReady
  PROVE  IInv'
<1> USE DEF semv, msgv, procv
<1> DEFINE p  == Head(sleepq)
           st == [prstate EXCEPT ![p] = "READY"]
           Z  == WithState(prstate, Sleeping)
<1>1. /\ waking /\ sleepq # << >> /\ sleepq' = Tail(sleepq) /\ due' = [due EXCEPT ![p] = 0]
      /\ ReadyNo(p) /\ UNCHANGED <<squeue, prsem, pc, waking>>
      /\ TypeOK /\ QueuesMatchStates
  BY DEF WakeupReady, IInv
<1>2. p \in Z /\ Enumerates(sleepq', Z \ {p})
  <2>1. Enumerates(sleepq, Z)
    BY <1>1 DEF QueuesMatchStates, SleepListed
  <2> HIDE DEF Z
  <2> QED BY <1>1, <2>1, TailLists
<1>3. p \in Pid /\ prstate[p] \in Sleeping
  BY <1>2 DEF WithState
<1> HIDE DEF p
<1>4. \A q \in Pid : st[q] = IF q = p THEN "READY" ELSE prstate[q]
  BY <1>1, <1>3 DEF TypeOK
<1>5. p # NULLPROC /\ prstate[p] \notin {"CURR", "READY", "RECV"}
  BY <1>1, <1>3 DEF QueuesMatchStates, NullRunnable, Sleeping
<1> HIDE DEF st
<1>6. /\ WithState(st, Sleeping) = Z \ {p}
      /\ \A t \in Sem : Waiters(st, prsem, t) = Waiters(prstate, prsem, t)
  BY <1>3, <1>4 DEF Waiters, WithState, Sleeping
<1>7. QueuesFor(st)
  BY <1>1, <1>2, <1>4, <1>5, <1>6, NullIsPid
  DEF QueuesFor, QueuesMatchStates, WaitListed, NullRunnable
<1>8. QueuesMatchStates' /\ SchedTypes'
  BY <1>1, <1>3, <1>5, <1>7, ReadyNoMatches DEF st
<1>9. due' \in [Pid -> Int] /\ squeue' = [s \in Sem |-> squeue'[s]]
  BY <1>1, <1>3 DEF TypeOK
<1>10. OtherTypes'
  <2>1. UNCHANGED <<prprio, prsem, prparent, prhasmsg, prmsg, prstkbase, stkfree, prcount,
                    nextpid, sstate, scount, nextsem, pc, waking>>
    BY <1>1 DEF WakeupReady
  <2>2. pc \in [Pid -> Points]
    BY DEF IInv, NoReceive
  <2> QED BY ONLY <1>1, <1>9, <2>1, <2>2 DEF TypeOK, OtherTypes
<1> QED BY <1>1, <1>8, <1>9, <1>10, WakingPoints, TypesJoin DEF IInv, NoReceive, OtherTypes

LEMMA WakeupReschedKeeps ==
  ASSUME IInv, WakeupResched
  PROVE  IInv'
<1>1. /\ waking /\ Resched(prstate, readylist, qkey, preempt)
      /\ UNCHANGED <<sleepq, squeue, prsem, pc>>
  BY DEF WakeupResched, sleepv, semv
<1>2. OtherTypes'
  BY DEF WakeupResched, sleepv, semv, msgv, procv, IInv, TypeOK, OtherTypes, NoReceive
<1> QED BY <1>1, <1>2, WakingPoints, YieldInv

-----------------------------------------------------------------------------
(* The life of a process.                                                  *)

(* An action that changes the state of one process other than the running  *)
(* one, and does not reschedule.                                           *)
LEMMA UpdatedInv ==
  ASSUME IInv, prstate[currpid] = "CURR", NEW p \in Pid \ {currpid},
         NEW s \in States \ {"CURR"}, prstate' = [prstate EXCEPT ![p] = s],
         UNCHANGED <<currpid, preempt>>, qkey' \in [Pid -> Int],
         ReadyListed', QueuesFor(prstate'),
         OtherTypes', squeue' = [t \in Sem |-> squeue'[t]], PointsOK', Boot'
  PROVE  IInv'
<1>1. TypeOK /\ QueuesMatchStates
  BY DEF IInv
<1>2. /\ prstate' \in [Pid -> States]
      /\ \A q \in Pid : prstate'[q] = IF q = p THEN s ELSE prstate[q]
  BY <1>1 DEF TypeOK
<1>3. OneCurrent'
  BY <1>1, <1>2 DEF QueuesMatchStates, OneCurrent, TypeOK
<1>4. SleepListed' /\ WaitListed' /\ NullRunnable'
  BY DEF QueuesFor, SleepListed, WaitListed, NullRunnable
<1>5. QueuesMatchStates' /\ SchedTypes'
  BY <1>1, <1>2, <1>3, <1>4 DEF QueuesMatchStates, SchedTypes, TypeOK
<1> QED BY <1>5, TypesJoin DEF IInv, NoReceive, OtherTypes

(* The states in which a process is on no queue, and does not run.         *)
Unqueued == {"FREE", "SUSP", "RECV"}

(* No queue lists a process that goes from one such state to another, or   *)
(* is the running one and goes to one.                                     *)
LEMMA UnqueuedQueues ==
  ASSUME TypeOK, QueuesMatchStates, UNCHANGED <<sleepq, squeue, prsem>>,
         NEW p \in Pid \ {NULLPROC}, prstate[p] \in Unqueued \cup {"CURR", "READY"},
         NEW s \in Unqueued
  PROVE  /\ [prstate EXCEPT ![p] = s] \in [Pid -> States]
         /\ QueuesFor([prstate EXCEPT ![p] = s])
<1> DEFINE st == [prstate EXCEPT ![p] = s]
<1>1. st \in [Pid -> States] /\ \A q \in Pid : st[q] = IF q = p THEN s ELSE prstate[q]
  BY DEF TypeOK, States, Unqueued
<1> HIDE DEF st
<1>2. /\ WithState(st, Sleeping) = WithState(prstate, Sleeping)
      /\ \A t \in Sem : Waiters(st, prsem, t) = Waiters(prstate, prsem, t)
      /\ \A q \in Pid : st[q] = "WAIT" => prstate[q] = "WAIT"
  BY <1>1 DEF Waiters, WithState, Sleeping, Unqueued
<1>3. QueuesFor(st)
  BY <1>1, <1>2, NullIsPid
  DEF QueuesFor, QueuesMatchStates, SleepListed, WaitListed, NullRunnable
<1> QED BY <1>1, <1>3 DEF st

LEMMA ReadyUntouched ==
  ASSUME TypeOK, ReadyListed, NEW p \in Pid, NEW s \in States \ {"READY"},
         prstate[p] # "READY", prstate' = [prstate EXCEPT ![p] = s], UNCHANGED readylist
  PROVE  ReadyListed'
<1>1. \A q \in Pid : prstate'[q] = IF q = p THEN s ELSE prstate[q]
  BY DEF TypeOK
<1>2. WithState(prstate', {"READY"}) = WithState(prstate, {"READY"})
  BY <1>1 DEF WithState
<1> QED BY <1>2 DEF ReadyListed

(* getitem() of a ready process that takes the state s.                    *)
LEMMA ReadyUnlinked ==
  ASSUME TypeOK, ReadyListed, NEW p \in Pid, NEW s \in States \ {"READY"},
         prstate' = [prstate EXCEPT ![p] = s], UnlinkReady(p)
  PROVE  ReadyListed'
<1> DEFINE R == WithState(prstate, {"READY"})
<1>1. PICK i \in 1 .. Len(readylist) : readylist[i] = p /\ readylist' = RemoveAt(readylist, i)
  BY DEF UnlinkReady
<1>2. Enumerates(readylist', R \ {p})
  <2>1. Enumerates(readylist, R)
    BY DEF ReadyListed
  <2> HIDE DEF R
  <2> QED BY <1>1, <2>1, RemoveLists
<1>3. \A q \in Pid : prstate'[q] = IF q = p THEN s ELSE prstate[q]
  BY DEF TypeOK
<1>4. WithState(prstate', {"READY"}) = R \ {p}
  BY <1>3 DEF WithState
<1> QED BY <1>2, <1>4 DEF ReadyListed

LEMMA NextPidTyped == ASSUME NEW p \in Pid PROVE (p + 1) % NPROC \in Pid
BY NprocAssumption DEF Pid

LEMMA CreatedKeeps ==
  ASSUME IInv, prstate[currpid] = "CURR", NEW p \in Pid, NEW b \in Stack, NEW prio \in Int,
         Created(p, b, prio), pc' \in [Pid -> Points],
         PointsOK', Boot'
  PROVE  IInv'
<1>1. /\ TypeOK /\ QueuesMatchStates /\ currpid \in Pid
      /\ prstate[p] = "FREE" /\ p # currpid /\ p # NULLPROC
  BY DEF Created, IsNewPid, IInv, TypeOK, QueuesMatchStates, NullRunnable
<1>2. /\ prstate' = [prstate EXCEPT ![p] = "SUSP"] /\ prsem' = [prsem EXCEPT ![p] = NoSem]
      /\ UNCHANGED <<readylist, qkey, currpid, preempt, sleepq, squeue>>
  BY DEF Created, sleepv, semv
<1>3. OtherTypes'
  <2>1. /\ nextpid' \in Pid /\ prcount' \in Int /\ stkfree' \subseteq Stack
        /\ prprio' \in [Pid -> Int] /\ prstkbase' \in [Pid -> Stack \cup {NoStack}]
        /\ prsem' \in [Pid -> Sem \cup {NoSem}] /\ prparent' \in [Pid -> Pid]
        /\ prhasmsg' \in [Pid -> BOOLEAN]
    <3>1. nextpid' \in Pid
      BY NextPidTyped DEF Created
    <3>2. prcount' \in Int /\ stkfree' \subseteq Stack
      BY <1>1 DEF Created, TypeOK
    <3>3. prprio' \in [Pid -> Int] /\ prstkbase' \in [Pid -> Stack \cup {NoStack}]
      BY <1>1 DEF Created, TypeOK
    <3>4. prsem' \in [Pid -> Sem \cup {NoSem}] /\ prparent' \in [Pid -> Pid]
      BY <1>1 DEF Created, TypeOK
    <3>5. prhasmsg' \in [Pid -> BOOLEAN]
      BY <1>1 DEF Created, TypeOK
    <3> QED BY <3>1, <3>2, <3>3, <3>4, <3>5
  <2> QED BY <1>1, <2>1 DEF Created, sleepv, semv, TypeOK, OtherTypes
<1>4. \A q \in Pid : prstate'[q] = IF q = p THEN "SUSP" ELSE prstate[q]
  BY <1>1, <1>2 DEF TypeOK
<1>5. \A q \in Pid \ {p} : prsem'[q] = prsem[q]
  BY <1>1, <1>2 DEF TypeOK
<1>6. /\ WithState(prstate', Sleeping) = WithState(prstate, Sleeping)
      /\ \A t \in Sem : Waiters(prstate', prsem', t) = Waiters(prstate, prsem, t)
      /\ \A q \in Pid : prstate'[q] = "WAIT" => prstate[q] = "WAIT" /\ q # p
  BY <1>1, <1>4, <1>5 DEF Waiters, WithState, Sleeping
<1>7. QueuesFor(prstate')
  BY <1>1, <1>2, <1>4, <1>5, <1>6, NullIsPid
  DEF QueuesFor, QueuesMatchStates, SleepListed, WaitListed, NullRunnable
<1>8. "SUSP" \in States \ {"CURR", "READY"}
  BY DEF States
<1>9. ReadyListed'
  BY <1>1, <1>2, <1>8, ReadyUntouched DEF QueuesMatchStates
<1>10. qkey' \in [Pid -> Int] /\ squeue' = [t \in Sem |-> squeue'[t]]
  BY <1>1, <1>2 DEF TypeOK
<1> QED BY <1>1, <1>2, <1>3, <1>7, <1>8, <1>9, <1>10, UpdatedInv

LEMMA CreateKeeps ==
  ASSUME IInv, NEW prio \in Prios, Create(prio)
  PROVE  IInv'
<1>1. PICK p \in Pid, b \in Stack : Created(p, b, prio) /\ pc' = [pc EXCEPT ![p] = UserCode]
  BY DEF Create
<1>2. /\ UserCall /\ prstate[p] = "FREE" /\ pc \in [Pid -> Points] /\ prio \in Int
  BY <1>1, PriosAssumption DEF Create, Created, IsNewPid, IInv, TypeOK, NoReceive
<1>3. /\ prstate[currpid] = "CURR" /\ currpid \in Pid /\ p # NULLPROC
      /\ pc[currpid].at = "user" /\ pc[currpid].at \notin BootPoints
      /\ pc[currpid].at \notin HeldPoints
  BY <1>2, UserRuns DEF IInv, QueuesMatchStates, NullRunnable
<1>4. \A q \in Pid : pc'[q] = IF q = p THEN UserCode ELSE pc[q]
  BY <1>1, <1>2
<1>5. pc' \in [Pid -> Points]
  BY <1>1, <1>2, <1>3, <1>4, UserCodePoint
<1>6. PointsOK' /\ Boot'
  BY <1>3, <1>4, UserCodePoint, PointsKept
<1> QED BY <1>1, <1>2, <1>3, <1>5, <1>6, CreatedKeeps

LEMMA CreateFailKeeps ==
  ASSUME IInv, NEW prio \in Prios, CreateFail(prio)
  PROVE  IInv'
<1>1. UserCall /\ UNCHANGED <<sched, sleepq, squeue, prsem, pc>>
  BY DEF CreateFail, sleepv, semv
<1>2. stkfree' \subseteq Stack /\ nextpid' \in Pid
  BY NextPidTyped DEF CreateFail, IInv, TypeOK
<1>3. OtherTypes'
  BY <1>2 DEF CreateFail, sleepv, semv, msgv, IInv, TypeOK, OtherTypes, NoReceive
<1> QED BY <1>1, <1>3, UserPoints, UnscheduledInv

LEMMA NullCreateKeeps ==
  ASSUME IInv, NullCreate
  PROVE  IInv'
<1>1. PICK p \in Pid, b \in Stack :
        /\ Created(p, b, MainPrio)
        /\ pc' = [pc EXCEPT ![currpid] = Point("null_ready", p, 0), ![p] = UserCode]
  BY DEF NullCreate
<1>2. /\ ~waking /\ pc[currpid].at = "null_create" /\ prstate[p] = "FREE"
      /\ pc \in [Pid -> Points] /\ currpid \in Pid
      /\ prstate' = [prstate EXCEPT ![p] = "SUSP"]
      /\ UNCHANGED <<readylist, sleepq, currpid, waking>>
  BY <1>1 DEF NullCreate, Running, Created, IsNewPid, IInv, TypeOK, NoReceive, sleepv
<1>3. /\ currpid = NULLPROC /\ prstate[currpid] = "CURR" /\ p # NULLPROC
      /\ readylist = << >> /\ sleepq = << >>
  BY <1>2 DEF IInv, PointsOK, NullPoint, Boot, BootPoints
<1>4. \A q \in Pid : pc'[q] = IF q = p THEN UserCode
                              ELSE IF q = NULLPROC THEN Point("null_ready", p, 0) ELSE pc[q]
  BY <1>1, <1>2, <1>3
<1>5. Point("null_ready", p, 0) \in Points /\ Point("null_ready", p, 0).at = "null_ready"
      /\ Point("null_ready", p, 0).obj = p
  BY NprocAssumption DEF Point, Points, Places, IntrOff, Pid, BootPoints
<1>6. pc' \in [Pid -> Points]
  BY <1>1, <1>2, <1>3, <1>4, <1>5, UserCodePoint
<1>7. \A q \in Pid \ {NULLPROC} : pc'[q].at \notin HeldPoints /\
        (pc'[q] = pc[q] \/ pc'[q] = UserCode)
  BY <1>2, <1>3, <1>4, UserCodePoint DEF IInv, PointsOK, HeldByCurrent, MayStand, HeldPoints, WalkPoints
<1>8. "null_ready" \notin HeldPoints \cup {"semdelete", "semreset", "kill"}
      /\ "null_ready" \in BootPoints
  BY DEF HeldPoints, WalkPoints, BootPoints
<1>9. PointsOK'
  <2>1. NullPoint'
    BY <1>3, <1>4, <1>5, <1>8, UserCodePoint DEF IInv, PointsOK, NullPoint, MayStand
  <2>2. HeldByCurrent'
    BY <1>3, <1>4, <1>5, <1>7, <1>8 DEF HeldByCurrent
  <2>3. LocalsOK'
    BY <1>3, <1>4, <1>5, <1>7, <1>8, UserCodePoint
    DEF IInv, PointsOK, LocalsOK, MayStand, HeldPoints
  <2> QED BY <2>1, <2>2, <2>3 DEF PointsOK
<1>10. Boot'
  <2>1. pc'[NULLPROC] = Point("null_ready", p, 0)
    BY <1>3, <1>4, NullIsPid
  <2>2. prstate \in [Pid -> States]
    BY DEF IInv, TypeOK
  <2>3. prstate'[NULLPROC] = "CURR" /\ prstate'[p] = "SUSP"
    BY <1>2, <1>3, <2>2, NullIsPid
  <2>4. currpid' = NULLPROC /\ ~waking' /\ readylist' = << >> /\ sleepq' = << >>
    BY <1>2, <1>3
  <2> QED BY <1>5, <2>1, <2>3, <2>4 DEF Boot
<1> QED BY <1>1, <1>3, <1>6, <1>9, <1>10, PriosAssumption, CreatedKeeps

LEMMA NullReadyKeeps ==
  ASSUME IInv, NullReady
  PROVE  IInv'
<1> DEFINE p     == pc[currpid].obj
           st    == [prstate EXCEPT ![p] = "READY"]
           point == Point("idle", 0, 0)
<1>1. /\ ~waking /\ pc[currpid].at = "null_ready" /\ ReadyYes(p, qkey) /\ Goto(point)
      /\ UNCHANGED <<sleepq, squeue, prsem>>
      /\ TypeOK /\ QueuesMatchStates /\ pc \in [Pid -> Points] /\ currpid \in Pid
      /\ qkey \in [Pid -> Int]
  BY DEF NullReady, Running, IInv, TypeOK, NoReceive, sleepv, semv
<1>2. /\ currpid = NULLPROC /\ p \in Pid /\ prstate[p] = "SUSP"
  BY <1>1 DEF IInv, PointsOK, NullPoint, Boot, BootPoints
<1> HIDE DEF p
<1>3. Scheduled(st) /\ st \in [Pid -> States] /\ QueuesFor(st)
  BY <1>1, <1>2, ReadyYesSchedules, ReadyQueues DEF QueuesMatchStates
<1>4. /\ point \in Points /\ point.at = "idle"
      /\ "idle" \notin BootPoints \cup HeldPoints \cup {"semdelete", "semreset", "kill"}
  BY DEF Point, Points, Places, BootPoints, HeldPoints, WalkPoints
<1> HIDE DEF point, st
<1>5. pc' \in [Pid -> Points] /\ \A q \in Pid : pc'[q] = IF q = NULLPROC THEN point ELSE pc[q]
  BY <1>1, <1>2, <1>4 DEF Goto
<1>6. OtherTypes'
  BY <1>5 DEF NullReady, sleepv, semv, msgv, procv, IInv, TypeOK, OtherTypes
<1>7. PointsOK'
  <2>1. \A q \in Pid : pc'[q].at \notin HeldPoints
    BY <1>2, <1>4, <1>5 DEF IInv, PointsOK, HeldByCurrent, NullPoint, HeldPoints, WalkPoints,
       BootPoints, Boot
  <2>2. NullPoint' /\ HeldByCurrent' /\ LocalsOK'
    BY <1>4, <1>5, <2>1 DEF IInv, PointsOK, NullPoint, HeldByCurrent, LocalsOK, HeldPoints
  <2> QED BY <2>2 DEF PointsOK
<1>8. Boot'
  BY <1>4, <1>5, NullIsPid DEF Boot
<1>9. squeue' = [t \in Sem |-> squeue'[t]]
  BY <1>1 DEF TypeOK
<1> QED BY <1>3, <1>6, <1>7, <1>8, <1>9, RescheduledInv

LEMMA YieldKeeps ==
  ASSUME IInv, Yield
  PROVE  IInv'
<1>1. /\ UserCall /\ Resched(prstate, readylist, qkey, preempt)
      /\ UNCHANGED <<sleepq, squeue, prsem, pc>>
  BY DEF Yield, sleepv, semv
<1>2. OtherTypes'
  BY DEF Yield, sleepv, semv, msgv, procv, IInv, TypeOK, OtherTypes, NoReceive
<1> QED BY <1>1, <1>2, UserPoints, YieldInv

LEMMA ResumeKeeps ==
  ASSUME IInv, NEW p \in Pid, Resume(p)
  PROVE  IInv'
<1> DEFINE st == [prstate EXCEPT ![p] = "READY"]
<1>1. /\ UserCall /\ prstate[p] = "SUSP" /\ ReadyYes(p, qkey)
      /\ UNCHANGED <<sleepq, squeue, prsem, pc>>
      /\ TypeOK /\ QueuesMatchStates /\ qkey \in [Pid -> Int]
  BY DEF Resume, Resumable, sleepv, semv, IInv, TypeOK
<1>2. Scheduled(st) /\ st \in [Pid -> States] /\ QueuesFor(st)
  BY <1>1, ReadyYesSchedules, ReadyQueues DEF QueuesMatchStates
<1>3. OtherTypes' /\ squeue' = [t \in Sem |-> squeue'[t]]
  BY <1>1 DEF IInv, Resume, sleepv, semv, msgv, procv, TypeOK, OtherTypes, NoReceive
<1> HIDE DEF st
<1> QED BY <1>1, <1>2, <1>3, UserPoints, RescheduledInv

LEMMA SuspendKeeps ==
  ASSUME IInv, NEW p \in Pid, Suspend(p)
  PROVE  IInv'
<1> DEFINE st == [prstate EXCEPT ![p] = "SUSP"]
<1>1. /\ UserCall /\ p # NULLPROC
      /\ UNCHANGED <<sleepq, squeue, prsem, pc>>
      /\ TypeOK /\ QueuesMatchStates /\ qkey \in [Pid -> Int]
  BY DEF Suspend, sleepv, semv, IInv, TypeOK
<1>2. OtherTypes' /\ squeue' = [t \in Sem |-> squeue'[t]]
  BY <1>1 DEF IInv, Suspend, sleepv, semv, msgv, procv, TypeOK, OtherTypes, NoReceive
<1>3. PointsOK' /\ Boot' /\ prstate[currpid] = "CURR"
  BY <1>1, UserPoints, UserRuns
<1>4. "SUSP" \in Unqueued /\ "SUSP" \in States \ {"CURR", "READY"}
  BY DEF Unqueued, States
<1>5. CASE /\ prstate[p] = "READY" /\ UnlinkReady(p) /\ prstate' = st
           /\ UNCHANGED <<qkey, currpid, preempt>>
  <2>1. QueuesFor(st)
    BY <1>1, <1>4, <1>5, UnqueuedQueues
  <2>2. ReadyListed'
    BY <1>1, <1>4, <1>5, ReadyUnlinked DEF QueuesMatchStates
  <2> QED BY <1>1, <1>2, <1>3, <1>4, <1>5, <2>1, <2>2, UpdatedInv
<1>6. CASE prstate[p] = "CURR" /\ Resched(st, readylist, qkey, preempt)
  <2>1. p = currpid
    BY <1>1, <1>6 DEF QueuesMatchStates, OneCurrent
  <2>2. Scheduled(st)
    BY <1>1, <1>4, <1>6, <2>1, LeaveSchedules DEF QueuesMatchStates
  <2>3. st \in [Pid -> States] /\ QueuesFor(st)
    BY <1>1, <1>4, <1>6, UnqueuedQueues
  <2> HIDE DEF st
  <2> QED BY <1>2, <1>3, <2>2, <2>3, RescheduledInv
<1> QED BY <1>5, <1>6 DEF Suspend

LEMMA ChprioKeeps ==
  ASSUME IInv, NEW p \in Pid, NEW prio \in Prios, Chprio(p, prio)
  PROVE  IInv'
<1>1. UserCall /\ UNCHANGED <<sched, sleepq, squeue, prsem, pc>>
  BY DEF Chprio, sleepv, semv
<1>2. prprio' \in [Pid -> Int]
  BY PriosAssumption DEF Chprio, IInv, TypeOK
<1>3. OtherTypes'
  BY <1>2 DEF Chprio, sleepv, semv, msgv, IInv, TypeOK, OtherTypes, NoReceive
<1> QED BY <1>1, <1>3, UserPoints, UnscheduledInv

LEMMA KillPoint ==
  ASSUME NEW l \in {"kill", "xdone"}, NEW p \in Pid \ {NULLPROC}
  PROVE  MayStand(Point(l, p, 0)) /\ Point(l, p, 0) \in Points /\ Point(l, p, 0).at = l
BY NprocAssumption
DEF Point, Points, Places, IntrOff, MayStand, HeldPoints, WalkPoints, BootPoints, Pid

LEMMA KillKeeps ==
  ASSUME IInv, NEW p \in Pid, Kill(p)
  PROVE  IInv'
<1>1. /\ UserCall /\ p # NULLPROC /\ UNCHANGED <<squeue, prsem>> /\ TypeOK
      /\ pc \in [Pid -> Points]
  BY DEF Kill, Killable, semv, IInv, TypeOK, NoReceive
<1>2. PICK l \in {"kill", "xdone"} : Goto(Point(l, p, 0))
  BY DEF Kill
<1> DEFINE point == Point(l, p, 0)
<1>3. point \in Points /\ MayStand(point) /\ point.at = l
  BY <1>1, KillPoint
<1> HIDE DEF point
<1>4. /\ pc[currpid].at \notin BootPoints \cup {"idle"} /\ currpid \in Pid /\ Goto(point)
  BY <1>1, <1>2, UserRuns DEF BootPoints, point
<1>5. pc' \in [Pid -> Points]
  BY <1>1, <1>3, <1>4 DEF Goto
<1>6. PointsOK' /\ Boot'
  BY <1>3, <1>4, GotoPoints
<1>7. prcount' \in Int
  BY <1>1 DEF Kill, TypeOK
<1>8. MessageTypes' => OtherTypes'
  BY <1>5, <1>7 DEF Kill, semv, IInv, TypeOK, OtherTypes, MessageTypes
<1>9. CASE UNCHANGED <<sched, sleepv, msgv>>
  <2>1. MessageTypes' /\ UNCHANGED sleepq
    BY <1>1, <1>9 DEF MessageTypes, sleepv, msgv, TypeOK
  <2> QED BY <1>1, <1>5, <1>6, <1>8, <1>9, <2>1, UserRuns, UnscheduledInv
<1>10. CASE Deliver(prparent[p], p)
  <2>1. prparent[p] \in Pid
    BY <1>1 DEF TypeOK
  <2> QED BY <1>1, <1>5, <1>6, <1>8, <1>10, <2>1, DeliverKeeps
<1> QED BY <1>9, <1>10 DEF Kill

(* kill() of a waiting process takes it off the queue it waits on.         *)
LEMMA KillWaitingQueues ==
  ASSUME TypeOK, QueuesMatchStates, NEW p \in Pid, KillWaiting(p),
         UNCHANGED <<sleepq, prsem>>
  PROVE  /\ scount' \in [Sem -> Int]
         /\ squeue' = [t \in Sem |-> squeue'[t]]
         /\ QueuesFor([prstate EXCEPT ![p] = "FREE"])
<1> DEFINE s  == prsem[p]
           W  == Waiters(prstate, prsem, s)
           st == [prstate EXCEPT ![p] = "FREE"]
<1>1. /\ prstate[p] = "WAIT" /\ s \in Sem /\ scount' = [scount EXCEPT ![s] = @ + 1]
      /\ \E i \in 1 .. Len(squeue[s]) :
           squeue[s][i] = p /\ squeue' = [squeue EXCEPT ![s] = RemoveAt(@, i)]
  BY DEF KillWaiting, QueuesMatchStates, WaitListed
<1>2. PICK i \in 1 .. Len(squeue[s]) :
        squeue[s][i] = p /\ squeue' = [squeue EXCEPT ![s] = RemoveAt(@, i)]
  BY <1>1
<1> HIDE DEF s
<1>3. scount' \in [Sem -> Int]
  BY <1>1, CountTyped DEF TypeOK
<1>4. Enumerates(RemoveAt(squeue[s], i), W \ {p})
  <2>1. Enumerates(squeue[s], W)
    BY <1>1 DEF QueuesMatchStates, WaitListed
  <2> HIDE DEF W
  <2> QED BY <1>2, <2>1, RemoveLists
<1>5. p # NULLPROC /\ prsem[p] = s
  BY <1>1 DEF QueuesMatchStates, NullRunnable, s
<1>6. \A q \in Pid : st[q] = IF q = p THEN "FREE" ELSE prstate[q]
  BY DEF TypeOK
<1> HIDE DEF st
<1>7. /\ Waiters(st, prsem, s) = W \ {p}
      /\ \A t \in Sem \ {s} : Waiters(st, prsem, t) = Waiters(prstate, prsem, t)
      /\ WithState(st, Sleeping) = WithState(prstate, Sleeping)
  BY <1>1, <1>5, <1>6 DEF Waiters, WithState, Sleeping
<1>8. \A t \in Sem : squeue'[t] = IF t = s THEN RemoveAt(squeue[s], i) ELSE squeue[t]
  BY <1>2 DEF TypeOK
<1>9. \A t \in Sem : Enumerates(squeue'[t], Waiters(st, prsem', t))
  BY <1>4, <1>7, <1>8 DEF QueuesMatchStates, WaitListed
<1>10. QueuesFor(st)
  BY <1>5, <1>6, <1>7, <1>9, NullIsPid
  DEF QueuesFor, QueuesMatchStates, SleepListed, WaitListed, NullRunnable
<1>11. squeue' = [t \in Sem |-> squeue'[t]]
  BY <1>2 DEF TypeOK
<1> QED BY <1>3, <1>10, <1>11 DEF st

LEMMA KillRestKeeps ==
  ASSUME IInv, KillRest
  PROVE  IInv'
<1> DEFINE p  == pc[currpid].obj
           st == [prstate EXCEPT ![p] = "FREE"]
<1>1. "kill" \notin BootPoints \cup {"idle"}
  BY DEF BootPoints
<1>2. /\ currpid \in Pid \ {NULLPROC} /\ prstate[currpid] = "CURR"
      /\ pc[currpid].at = "kill" /\ pc \in [Pid -> Points]
      /\ pc[currpid].at \notin BootPoints
      /\ TypeOK /\ QueuesMatchStates /\ UNCHANGED prsem
  <2>1. Running("kill")
    BY DEF KillRest
  <2> QED BY <1>1, <2>1, RunningAt DEF KillRest, IInv, TypeOK, NoReceive
<1>3. p \in Pid \ {NULLPROC}
  BY <1>2 DEF IInv, PointsOK, LocalsOK
<1>4. /\ stkfree' = stkfree \cup ({KilledStack(p)} \ {NoStack})
      /\ pc' = [pc EXCEPT ![currpid] = UserCode, ![p] = UserCode]
      /\ KillCurr(p) \/ KillSleeping(p) \/ KillWaiting(p) \/ KillReady(p) \/ KillOther(p)
  BY DEF KillRest
<1> HIDE DEF p
<1>5. \A q \in Pid : pc'[q] = IF q \in {currpid, p} THEN UserCode ELSE pc[q]
  BY <1>2, <1>3, <1>4
<1>6. pc' \in [Pid -> Points] /\ pc'[currpid].at = "user"
  BY <1>2, <1>3, <1>4, <1>5, UserCodePoint
<1>7. PointsOK' /\ Boot'
  <2>1. pc'[currpid].at \notin HeldPoints
    BY <1>6 DEF HeldPoints, WalkPoints
  <2> QED BY <1>2, <1>3, <1>5, <2>1, UserCodePoint, PointsKept
<1>8. stkfree' \subseteq Stack
  BY <1>2, <1>3, <1>4 DEF KilledStack, TypeOK
<1>9. due' \in [Pid -> Int] /\ scount' \in [Sem -> Int] => OtherTypes'
  BY <1>2, <1>6, <1>8 DEF KillRest, msgv, TypeOK, OtherTypes
<1>10. "FREE" \in Unqueued /\ "FREE" \in States \ {"CURR", "READY"}
  BY DEF Unqueued, States
<1>11. CASE KillCurr(p)
  <2>1. /\ prstate[p] = "CURR" /\ Resched(st, readylist, qkey, preempt)
        /\ UNCHANGED <<sleepq, due, scount, squeue>>
    BY <1>11 DEF KillCurr, sleepv
  <2>2. p = currpid
    BY <1>2, <1>3, <2>1 DEF QueuesMatchStates, OneCurrent
  <2>3. Scheduled(st)
    BY <1>2, <1>10, <2>1, <2>2, LeaveSchedules DEF QueuesMatchStates, TypeOK
  <2>4. st \in [Pid -> States] /\ QueuesFor(st)
    BY <1>2, <1>3, <1>10, <2>1, UnqueuedQueues
  <2>5. OtherTypes' /\ squeue' = [t \in Sem |-> squeue'[t]]
    BY <1>2, <1>9, <2>1 DEF TypeOK
  <2> HIDE DEF st
  <2> QED BY <1>7, <2>3, <2>4, <2>5, RescheduledInv
<1>12. ASSUME prstate[p] # "CURR", prstate' = st, UNCHANGED <<currpid, preempt>>,
              qkey' \in [Pid -> Int], ReadyListed', QueuesFor(st),
              due' \in [Pid -> Int], scount' \in [Sem -> Int],
              squeue' = [t \in Sem |-> squeue'[t]]
       PROVE  IInv'
  BY <1>2, <1>3, <1>6, <1>7, <1>9, <1>10, <1>12, UpdatedInv
<1>13. CASE KillSleeping(p)
  <2>1. PICK i \in 1 .. Len(sleepq) : Unlink(p, i) /\ qkey' = UnsleptKeys(i)
    BY <1>13 DEF KillSleeping
  <2>2. /\ prstate[p] \in Sleeping /\ prstate' = st
        /\ UNCHANGED <<currpid, preempt, readylist, scount, squeue>>
    BY <1>13 DEF KillSleeping, FreeEntry, KeepCurrent
  <2>3. prstate[p] \notin {"CURR", "READY"}
    BY <2>2 DEF Sleeping
  <2>4. QueuesFor(st) /\ qkey' \in [Pid -> Int] /\ due' \in [Pid -> Int]
    BY <1>2, <1>3, <2>1, <2>2, UnlinkQueues
  <2>5. ReadyListed'
    BY <1>2, <1>3, <1>10, <2>2, <2>3, ReadyUntouched DEF QueuesMatchStates
  <2>6. scount' \in [Sem -> Int] /\ squeue' = [t \in Sem |-> squeue'[t]]
    BY <1>2, <2>2 DEF TypeOK
  <2> QED BY <1>12, <2>2, <2>3, <2>4, <2>5, <2>6
<1>14. CASE KillWaiting(p)
  <2>1. /\ prstate[p] = "WAIT" /\ prstate' = st
        /\ UNCHANGED <<currpid, preempt, readylist, qkey, sleepq, due>>
    BY <1>14 DEF KillWaiting, FreeEntry, KeepCurrent, sleepv
  <2>2. QueuesFor(st) /\ scount' \in [Sem -> Int] /\ squeue' = [t \in Sem |-> squeue'[t]]
    BY <1>2, <1>3, <1>14, <2>1, KillWaitingQueues
  <2>3. ReadyListed'
    BY <1>2, <1>3, <1>10, <2>1, ReadyUntouched DEF QueuesMatchStates
  <2>4. qkey' \in [Pid -> Int] /\ due' \in [Pid -> Int]
    BY <1>2, <2>1 DEF TypeOK
  <2> QED BY <1>12, <2>1, <2>2, <2>3, <2>4
<1>15. CASE KillReady(p)
  <2>1. /\ prstate[p] = "READY" /\ UnlinkReady(p) /\ prstate' = st
        /\ UNCHANGED <<currpid, preempt, qkey, sleepq, due, scount, squeue>>
    BY <1>15 DEF KillReady, FreeEntry, KeepCurrent, sleepv
  <2>2. QueuesFor(st)
    BY <1>2, <1>3, <1>10, <2>1, UnqueuedQueues
  <2>3. ReadyListed'
    BY <1>2, <1>3, <1>10, <2>1, ReadyUnlinked DEF QueuesMatchStates
  <2>4. /\ qkey' \in [Pid -> Int] /\ due' \in [Pid -> Int] /\ scount' \in [Sem -> Int]
        /\ squeue' = [t \in Sem |-> squeue'[t]]
    BY <1>2, <2>1 DEF TypeOK
  <2> QED BY <1>12, <2>1, <2>2, <2>3, <2>4
<1>16. CASE KillOther(p)
  <2>1. /\ prstate[p] \in Unqueued /\ prstate' = st
        /\ UNCHANGED <<currpid, preempt, readylist, qkey, sleepq, due, scount, squeue>>
    BY <1>16 DEF KillOther, FreeEntry, KeepCurrent, sleepv, Unqueued
  <2>2. prstate[p] \notin {"CURR", "READY"}
    BY <2>1 DEF Unqueued
  <2>3. QueuesFor(st)
    BY <1>2, <1>3, <1>10, <2>1, UnqueuedQueues
  <2>4. ReadyListed'
    BY <1>2, <1>3, <1>10, <2>1, <2>2, ReadyUntouched DEF QueuesMatchStates
  <2>5. /\ qkey' \in [Pid -> Int] /\ due' \in [Pid -> Int] /\ scount' \in [Sem -> Int]
        /\ squeue' = [t \in Sem |-> squeue'[t]]
    BY <1>2, <2>1 DEF TypeOK
  <2> QED BY <1>12, <2>1, <2>2, <2>3, <2>4, <2>5
<1> QED BY <1>4, <1>11, <1>13, <1>14, <1>15, <1>16

-----------------------------------------------------------------------------
(* The theorems.                                                           *)

LEMMA StutterKeeps == IInv /\ UNCHANGED vars => IInv'
<1> SUFFICES ASSUME IInv, UNCHANGED vars PROVE IInv'
  OBVIOUS
<1> USE DEF vars, sched, sleepv, semv, msgv, procv
<1>1. TypeOK'
  BY DEF IInv, TypeOK
<1>2. QueuesMatchStates'
  BY DEF IInv, QueuesMatchStates, ReadyListed, SleepListed, WaitListed, OneCurrent, NullRunnable
<1>3. PointsOK'
  BY DEF IInv, PointsOK, NullPoint, HeldByCurrent, LocalsOK
<1>4. Boot'
  BY DEF IInv, Boot
<1> QED BY <1>1, <1>2, <1>3, <1>4 DEF IInv, NoReceive, OtherTypes

LEMMA NotReceiving ==
  ASSUME IInv
  PROVE  ~ReceiveBlock /\ ~ReceiveResched /\ ~ReceiveTake
<1>1. pc[currpid].at \in Places
  BY DEF IInv, NoReceive, TypeOK, Points
<1> QED BY <1>1 DEF ReceiveBlock, ReceiveResched, ReceiveTake, Running, Places, BootPoints, IntrOff

LEMMA StepKeeps == IInv /\ [Next]_vars => IInv'
<1> SUFFICES ASSUME IInv, [Next]_vars PROVE IInv'
  OBVIOUS
<1>1. CASE SemaphoreCall
  BY <1>1, WaitKeeps, SignalKeeps, SignalNKeeps, SemCreateKeeps, SemDeleteKeeps, SemResetKeeps
  DEF SemaphoreCall
<1>2. CASE MessageCall
  BY <1>2, SendKeeps, RecvClrKeeps, RecvTimeKeeps DEF MessageCall, IInv, NoReceive
<1>3. CASE ProcessCall
  BY <1>3, CreateKeeps, CreateFailKeeps, ResumeKeeps, SuspendKeeps, ChprioKeeps, KillKeeps,
     YieldKeeps, SleepMsKeeps
  DEF ProcessCall
<1>4. CASE Continue
  BY <1>4, SignalNStepKeeps, SemDeleteStepKeeps, SemResetStepKeeps, NotReceiving,
     RecvTimeTakeKeeps, InsertdWalkKeeps, InsertdLinkKeeps, KillRestKeeps, WakeupReadyKeeps,
     WakeupReschedKeeps, NullCreateKeeps, NullReadyKeeps
  DEF Continue
<1>5. CASE Tick
  BY <1>5, TickKeeps
<1>6. CASE UNCHANGED vars
  BY <1>6, StutterKeeps
<1> QED BY <1>1, <1>2, <1>3, <1>4, <1>5, <1>6 DEF Next

LEMMA Invariant == "receive" \notin Calls => (Spec => []IInv)
<1> SUFFICES ASSUME "receive" \notin Calls PROVE Spec => []IInv
  OBVIOUS
<1>1. Init => IInv
  BY InitInv
<1> QED BY <1>1, StepKeeps, PTL DEF Spec

(* Every variable keeps its type, whatever the processes call and whenever *)
(* the clock interrupts them, receive() apart.                             *)
THEOREM TypeCorrect ==
  ASSUME "receive" \notin Calls
  PROVE  Spec => []TypeOK
<1>1. IInv => TypeOK
  BY DEF IInv
<1> QED BY <1>1, Invariant, PTL

(* Every process is on exactly the queue its state names, one process is   *)
(* current and the null process can always run, so that resched() never    *)
(* takes a process from an empty ready list; unless a process calls        *)
(* receive(), which a tick may leave with its state set.                   *)
THEOREM QueuesCorrect ==
  ASSUME "receive" \notin Calls
  PROVE  Spec => []QueuesMatchStates
<1>1. IInv => QueuesMatchStates
  BY DEF IInv
<1> QED BY <1>1, Invariant, PTL
=============================================================================
