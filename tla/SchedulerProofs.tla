-------------------------- MODULE SchedulerProofs --------------------------
(***************************************************************************)
(* The two ordered lists of the scheduler and the states of its processes. *)
(*                                                                         *)
(* First the order of the ready list and Xinu's scheduling invariant, this *)
(* for workloads that do not call chprio; then the process state diagram;  *)
(* then the delta list of the sleepers.  As in KernelProofs, no process    *)
(* calls receive().                                                        *)
(*                                                                         *)
(* ReadySorted and HighestPriorityRuns rest on each other: resched takes   *)
(* the head of the list, which has the highest key, and a key is the       *)
(* priority its process had when it was linked in (ReadyKeys).  Between    *)
(* a ready() that does not reschedule and the resched that follows it,     *)
(* which only signaln and wakeup() put off, the running process may be     *)
(* outranked.                                                              *)
(***************************************************************************)
EXTENDS KernelProofs

(* The key of a ready process is its priority.                             *)
ReadyKeys == \A p \in Pid : prstate[p] = "READY" => qkey[p] = prprio[p]

(* Nobody who is ready outranks the running process, or a resched is due.  *)
NoneAbove ==
  ~waking /\ pc[currpid].at # "signaln" =>
    \A p \in Pid : prstate[p] = "READY" => prprio[p] <= prprio[currpid]

SchedInv ==
  /\ ReadySorted
  /\ "chprio" \notin Calls => ReadyKeys /\ NoneAbove

-----------------------------------------------------------------------------
(* The scheduler's own steps.                                              *)

(* dequeue() takes a process with the highest key.                         *)
LEMMA DispatchOrders ==
  ASSUME NEW st \in [Pid -> States], NEW list, NEW keys \in [Pid -> Int],
         Enumerates(list, WithState(st, {"READY"})), Descending(list, keys),
         Dispatch(st, list, keys)
  PROVE  /\ Descending(readylist', qkey')
         /\ qkey' = keys /\ currpid' \in Pid /\ st[currpid'] = "READY"
         /\ \A p \in Pid : prstate'[p] = "READY" =>
              st[p] = "READY" /\ keys[p] <= keys[currpid']
<1> DEFINE R == WithState(st, {"READY"})
<1>1. /\ list # << >> /\ currpid' = Head(list) /\ readylist' = Tail(list) /\ qkey' = keys
      /\ prstate' = [st EXCEPT ![Head(list)] = "CURR"]
  BY DEF Dispatch
<1>2. Enumerates(list, R) /\ \A y \in R : y \in Pid /\ keys[y] \in Int /\ st[y] = "READY"
  BY DEF WithState
<1>3. \A p \in Pid : st[p] = "READY" => p \in R
  BY DEF WithState
<1> HIDE DEF R
<1>4. Head(list) \in R
  BY <1>1, <1>2, TailLists
<1>5. Descending(Tail(list), keys) /\ \A y \in R : keys[y] <= keys[Head(list)]
  BY <1>1, <1>2, TailDescending
<1>6. \A p \in Pid : prstate'[p] = "READY" => st[p] = "READY"
  BY <1>1
<1> QED BY <1>1, <1>2, <1>3, <1>4, <1>5, <1>6

(* The order of the ready list after a resched and, if its keys were       *)
(* priorities, that nobody outranks the process that runs now.             *)
Ordered(prio, ordered) ==
  /\ Descending(readylist', qkey')
  /\ ordered => \A p \in Pid : prstate'[p] = "READY" =>
                  qkey'[p] = prio[p] /\ prio[p] <= prio[currpid']

KeysFit(st, keys) == \A p \in Pid : st[p] = "READY" => keys[p] = prprio[p]

LEMMA ReschedOrders ==
  ASSUME TypeOK, NEW st \in [Pid -> States], NEW list, NEW keys \in [Pid -> Int], NEW pre,
         Enumerates(list, WithState(st, {"READY"})), Descending(list, keys),
         Resched(st, list, keys, pre)
  PROVE  Ordered(prprio, KeysFit(st, keys))
<1> DEFINE R == WithState(st, {"READY"})
<1>1. currpid \in Pid /\ prprio \in [Pid -> Int] /\ Enumerates(list, R)
  BY DEF TypeOK
<1>2. R \subseteq Pid /\ \A p \in Pid : p \in R <=> st[p] = "READY"
  BY DEF WithState
<1> HIDE DEF R
<1>3. CASE /\ KeepsCPU(prprio[currpid], list, keys)
           /\ prstate' = st /\ readylist' = list /\ qkey' = keys /\ UNCHANGED currpid
  <2>1. ASSUME KeysFit(st, keys), NEW p \in Pid, st[p] = "READY"
        PROVE  prprio[p] <= prprio[currpid]
    <3>1. p \in R /\ list # << >> /\ \A y \in R : keys[y] \in Int
      BY <1>1, <1>2, <2>1, EmptyList
    <3>2. keys[p] <= keys[Head(list)] /\ Head(list) \in R
      BY <1>1, <3>1, TailDescending, TailLists
    <3>3. prprio[currpid] > keys[Head(list)]
      BY <1>3, <3>1 DEF KeepsCPU
    <3>4. keys[p] = prprio[p] /\ keys[Head(list)] \in Int
      BY <2>1, <3>1, <3>2 DEF KeysFit
    <3>5. prprio[p] \in Int /\ prprio[currpid] \in Int
      BY <1>1
    <3> QED BY <3>2, <3>3, <3>4, <3>5
  <2> QED BY <1>3, <2>1 DEF Ordered, KeysFit
<1>4. CASE /\ st[currpid] = "CURR"
           /\ \E i \in 1 .. Len(list) + 1 :
                /\ IsInsertPos(list, keys, prprio[currpid], i)
                /\ Dispatch([st EXCEPT ![currpid] = "READY"], InsertAt(list, i, currpid),
                            [keys EXCEPT ![currpid] = prprio[currpid]])
  <2> DEFINE st1 == [st EXCEPT ![currpid] = "READY"]
             k1  == [keys EXCEPT ![currpid] = prprio[currpid]]
  <2>1. PICK i \in 1 .. Len(list) + 1 :
          /\ IsInsertPos(list, keys, prprio[currpid], i)
          /\ Dispatch(st1, InsertAt(list, i, currpid), k1)
    BY <1>4
  <2>2. /\ st1 \in [Pid -> States] /\ k1 \in [Pid -> Int]
        /\ \A p \in Pid : st1[p] = IF p = currpid THEN "READY" ELSE st[p]
        /\ \A p \in Pid : k1[p] = IF p = currpid THEN prprio[currpid] ELSE keys[p]
    BY <1>1 DEF States
  <2> HIDE DEF st1, k1
  <2>3. currpid \notin R /\ WithState(st1, {"READY"}) = R \cup {currpid}
    <3>1. currpid \notin R
      BY <1>1, <1>2, <1>4
    <3>2. WithState(st1, {"READY"}) = R \cup {currpid}
      BY <1>1, <1>2, <2>2 DEF WithState
    <3> QED BY <3>1, <3>2
  <2>4. Enumerates(InsertAt(list, i, currpid), WithState(st1, {"READY"}))
    BY <1>1, <2>1, <2>3, InsertLists
  <2>5. Descending(InsertAt(list, i, currpid), k1)
    <3>1. /\ \A y \in R \cup {currpid} : k1[y] \in Int
          /\ \A y \in R : keys[y] = k1[y]
          /\ IsInsertPos(list, keys, k1[currpid], i)
      BY <1>1, <1>2, <2>1, <2>2, <2>3
    <3> QED BY <1>1, <2>3, <3>1, InsertDescending
  <2>6. /\ Descending(readylist', qkey') /\ qkey' = k1 /\ currpid' \in Pid
        /\ st1[currpid'] = "READY"
        /\ \A p \in Pid : prstate'[p] = "READY" => st1[p] = "READY" /\ k1[p] <= k1[currpid']
    BY <2>1, <2>2, <2>4, <2>5, DispatchOrders
  <2>7. KeysFit(st, keys) => KeysFit(st1, k1)
    BY <2>2 DEF KeysFit
  <2> QED BY <2>6, <2>7 DEF Ordered, KeysFit
<1>5. CASE Dispatch(st, list, keys)
  <2>1. /\ Descending(readylist', qkey') /\ qkey' = keys /\ currpid' \in Pid
        /\ st[currpid'] = "READY"
        /\ \A p \in Pid : prstate'[p] = "READY" => st[p] = "READY" /\ keys[p] <= keys[currpid']
    BY <1>5, DispatchOrders
  <2> QED BY <2>1 DEF Ordered, KeysFit
<1> QED BY <1>3, <1>4, <1>5 DEF Resched

LEMMA OrderedInv ==
  ASSUME "chprio" \notin Calls => KeysFit(prstate, qkey), UNCHANGED prprio,
         NEW st, NEW keys, KeysFit(prstate, qkey) => KeysFit(st, keys),
         Ordered(prprio, KeysFit(st, keys))
  PROVE  SchedInv'
BY DEF Ordered, SchedInv, ReadySorted, ReadyKeys, NoneAbove

LEMMA KeysOfReady == SchedInv => ("chprio" \notin Calls => KeysFit(prstate, qkey))
BY DEF SchedInv, ReadyKeys, KeysFit

(* Keys are the same where it matters.                                     *)
SameKeys(keys) == \A p \in Pid : prstate[p] = "READY" => keys[p] = qkey[p]

LEMMA SortedUnder ==
  ASSUME TypeOK, ReadyListed, ReadySorted, NEW keys, SameKeys(keys)
  PROVE  Descending(readylist, keys)
<1>1. \A i \in 1 .. Len(readylist) : keys[readylist[i]] = qkey[readylist[i]]
  <2>1. readylist \in Seq(WithState(prstate, {"READY"}))
    BY DEF ReadyListed, Enumerates
  <2>2. \A i \in 1 .. Len(readylist) : readylist[i] \in WithState(prstate, {"READY"})
    BY <2>1
  <2> QED BY <2>2 DEF SameKeys, WithState
<1> QED BY <1>1 DEF ReadySorted, Descending

(* resched, entered with the ready processes unchanged.                    *)
LEMMA YieldOrders ==
  ASSUME IInv, SchedInv, UNCHANGED prprio,
         NEW st \in [Pid -> States], NEW keys \in [Pid -> Int], NEW pre,
         \A p \in Pid : st[p] = "READY" <=> prstate[p] = "READY",
         SameKeys(keys), Resched(st, readylist, keys, pre)
  PROVE  SchedInv'
<1>1. TypeOK /\ ReadyListed /\ ReadySorted
  BY DEF IInv, QueuesMatchStates, SchedInv
<1>2. Descending(readylist, keys)
  BY <1>1, SortedUnder
<1>3. Enumerates(readylist, WithState(st, {"READY"}))
  <2>1. WithState(st, {"READY"}) = WithState(prstate, {"READY"})
    BY DEF WithState
  <2> QED BY <1>1, <2>1 DEF ReadyListed
<1>4. Ordered(prprio, KeysFit(st, keys))
  BY <1>1, <1>2, <1>3, ReschedOrders
<1>5. KeysFit(prstate, qkey) => KeysFit(st, keys)
  BY DEF KeysFit, SameKeys
<1> QED BY <1>4, <1>5, KeysOfReady, OrderedInv

(* insert(p, readylist, prprio[p]).                                        *)
LEMMA ReadyInserts ==
  ASSUME IInv, SchedInv, NEW p \in Pid, prstate[p] \notin {"CURR", "READY"},
         NEW keys \in [Pid -> Int], SameKeys(keys),
         NEW i \in 1 .. Len(readylist) + 1, IsInsertPos(readylist, keys, prprio[p], i)
  PROVE  /\ [prstate EXCEPT ![p] = "READY"] \in [Pid -> States]
         /\ [keys EXCEPT ![p] = prprio[p]] \in [Pid -> Int]
         /\ Enumerates(InsertAt(readylist, i, p),
                       WithState([prstate EXCEPT ![p] = "READY"], {"READY"}))
         /\ Descending(InsertAt(readylist, i, p), [keys EXCEPT ![p] = prprio[p]])
         /\ KeysFit(prstate, qkey) =>
              KeysFit([prstate EXCEPT ![p] = "READY"], [keys EXCEPT ![p] = prprio[p]])
<1> DEFINE st == [prstate EXCEPT ![p] = "READY"]
           k  == [keys EXCEPT ![p] = prprio[p]]
           R  == WithState(prstate, {"READY"})
<1>1. /\ TypeOK /\ ReadyListed /\ ReadySorted
      /\ prprio[p] \in Int /\ prstate \in [Pid -> States]
  BY DEF IInv, QueuesMatchStates, SchedInv, TypeOK
<1>2. Enumerates(InsertAt(readylist, i, p), WithState(st, {"READY"}))
  BY <1>1, ReadyLists
<1>3. /\ st \in [Pid -> States] /\ k \in [Pid -> Int]
      /\ \A q \in Pid : st[q] = IF q = p THEN "READY" ELSE prstate[q]
      /\ \A q \in Pid : k[q] = IF q = p THEN prprio[p] ELSE keys[q]
  BY <1>1 DEF States
<1>4. /\ Enumerates(readylist, R) /\ p \notin R /\ R \subseteq Pid
  BY <1>1 DEF ReadyListed, WithState
<1>5. Descending(readylist, keys)
  BY <1>1, SortedUnder
<1>6. KeysFit(prstate, qkey) => KeysFit(st, k)
  BY <1>3 DEF KeysFit, SameKeys
<1> HIDE DEF st, k, R
<1>7. Descending(InsertAt(readylist, i, p), k)
  <2>1. /\ \A y \in R \cup {p} : k[y] \in Int
        /\ \A y \in R : keys[y] = k[y]
        /\ k[p] = prprio[p]
    BY <1>3, <1>4
  <2> QED BY <1>4, <1>5, <2>1, InsertDescending
<1> QED BY <1>2, <1>3, <1>6, <1>7 DEF st, k

LEMMA ReadyYesOrders ==
  ASSUME IInv, SchedInv, UNCHANGED prprio,
         NEW p \in Pid, prstate[p] \notin {"CURR", "READY"},
         NEW keys \in [Pid -> Int], SameKeys(keys), ReadyYes(p, keys)
  PROVE  SchedInv'
<1> DEFINE st == [prstate EXCEPT ![p] = "READY"]
           k  == [keys EXCEPT ![p] = prprio[p]]
<1>1. PICK i \in 1 .. Len(readylist) + 1 :
        /\ IsInsertPos(readylist, keys, prprio[p], i)
        /\ Resched(st, InsertAt(readylist, i, p), k, preempt)
  BY DEF ReadyYes
<1>2. /\ st \in [Pid -> States] /\ k \in [Pid -> Int]
      /\ Enumerates(InsertAt(readylist, i, p), WithState(st, {"READY"}))
      /\ Descending(InsertAt(readylist, i, p), k)
      /\ KeysFit(prstate, qkey) => KeysFit(st, k)
  BY <1>1, ReadyInserts
<1>3. TypeOK
  BY DEF IInv
<1> HIDE DEF st, k
<1>4. Ordered(prprio, KeysFit(st, k))
  BY <1>1, <1>2, <1>3, ReschedOrders
<1> QED BY <1>2, <1>4, KeysOfReady, OrderedInv

(* A step that leaves room for a later resched.                            *)
ReschedDue == waking' \/ pc'[currpid'].at = "signaln"

LEMMA ReadyNoOrders ==
  ASSUME IInv, SchedInv, UNCHANGED prprio, ReschedDue,
         NEW p \in Pid, prstate[p] \notin {"CURR", "READY"}, ReadyNo(p)
  PROVE  SchedInv'
<1> DEFINE st == [prstate EXCEPT ![p] = "READY"]
           k  == [qkey EXCEPT ![p] = prprio[p]]
<1>1. PICK i \in 1 .. Len(readylist) + 1 :
        /\ IsInsertPos(readylist, qkey, prprio[p], i)
        /\ prstate' = st /\ readylist' = InsertAt(readylist, i, p) /\ qkey' = k
  BY DEF ReadyNo
<1>2. SameKeys(qkey) /\ qkey \in [Pid -> Int]
  BY DEF SameKeys, IInv, TypeOK
<1>3. /\ Descending(InsertAt(readylist, i, p), k)
      /\ KeysFit(prstate, qkey) => KeysFit(st, k)
  BY <1>1, <1>2, ReadyInserts
<1> HIDE DEF st, k
<1>4. "chprio" \notin Calls => ReadyKeys'
  BY <1>1, <1>3, KeysOfReady DEF ReadyKeys, KeysFit
<1> QED BY <1>1, <1>3, <1>4 DEF SchedInv, ReadySorted, NoneAbove, ReschedDue

(* A step that makes nobody ready and keeps the running process running.   *)
StaysSettled == ReschedDue \/ (~waking /\ pc[currpid].at # "signaln")

LEMMA QuietOrders ==
  ASSUME IInv, IInv', SchedInv, UNCHANGED currpid,
         \A p \in Pid : prstate'[p] = "READY" => prstate[p] = "READY" /\ qkey'[p] = qkey[p],
         \/ UNCHANGED readylist
         \/ \E i \in 1 .. Len(readylist) : readylist' = RemoveAt(readylist, i),
         "chprio" \notin Calls =>
           \A p \in Pid : prstate[p] = "READY" \/ p = currpid => prprio'[p] = prprio[p],
         StaysSettled
  PROVE  SchedInv'
<1>1. /\ readylist \in Seq(Pid) /\ currpid \in Pid
      /\ Descending(readylist, qkey) /\ readylist' \in Seq(WithState(prstate', {"READY"}))
  BY DEF IInv, TypeOK, SchedInv, ReadySorted, QueuesMatchStates, ReadyListed, Enumerates
<1>2. Descending(readylist', qkey)
  BY <1>1, RemoveDescending
<1>3. \A i \in 1 .. Len(readylist') : qkey'[readylist'[i]] = qkey[readylist'[i]]
  <2>1. \A i \in 1 .. Len(readylist') : readylist'[i] \in WithState(prstate', {"READY"})
    BY <1>1
  <2> QED BY <2>1 DEF WithState
<1>4. ReadySorted'
  BY <1>2, <1>3 DEF ReadySorted, Descending
<1>5. "chprio" \notin Calls => ReadyKeys'
  BY DEF SchedInv, ReadyKeys
<1>6. "chprio" \notin Calls => NoneAbove'
  BY <1>1 DEF SchedInv, NoneAbove, StaysSettled, ReschedDue
<1> QED BY <1>4, <1>5, <1>6 DEF SchedInv

LEMMA StillOrders ==
  ASSUME IInv, IInv', SchedInv, UNCHANGED <<sched, prprio>>, StaysSettled
  PROVE  SchedInv'
BY QuietOrders DEF sched

(* resched with nothing changed, and with the running process leaving.     *)
LEMMA SameOrders ==
  ASSUME IInv, SchedInv, UNCHANGED prprio, NEW pre, Resched(prstate, readylist, qkey, pre)
  PROVE  SchedInv'
BY YieldOrders DEF IInv, TypeOK, SameKeys

LEMMA LeaveOrders ==
  ASSUME IInv, SchedInv, UNCHANGED prprio, prstate[currpid] # "READY",
         NEW s \in States \ {"CURR", "READY"}, NEW keys \in [Pid -> Int], SameKeys(keys),
         Resched([prstate EXCEPT ![currpid] = s], readylist, keys, preempt)
  PROVE  SchedInv'
<1> DEFINE st == [prstate EXCEPT ![currpid] = s]
<1>1. /\ st \in [Pid -> States]
      /\ \A p \in Pid : st[p] = "READY" <=> prstate[p] = "READY"
  BY DEF IInv, TypeOK
<1> HIDE DEF st
<1> QED BY <1>1, YieldOrders DEF st

-----------------------------------------------------------------------------
(* One lemma for each group of actions.                                    *)

LEMMA UserSettled == ASSUME IInv, UserCall PROVE StaysSettled
BY UserRuns DEF StaysSettled

LEMMA KeysThere == IInv => qkey \in [Pid -> Int] /\ SameKeys(qkey)
BY DEF IInv, TypeOK, SameKeys

(* The first of a semaphore's queue waits.                                 *)
LEMMA WaiterFirst ==
  ASSUME IInv, NEW s \in Sem, squeue[s] # << >>
  PROVE  Head(squeue[s]) \in Pid /\ prstate[Head(squeue[s])] = "WAIT"
<1> DEFINE W == Waiters(prstate, prsem, s)
<1>1. Enumerates(squeue[s], W) /\ \A y \in W : y \in Pid /\ prstate[y] = "WAIT"
  BY DEF IInv, QueuesMatchStates, WaitListed, Waiters
<1> HIDE DEF W
<1> QED BY <1>1, TailLists

LEMMA ReleaseOrders ==
  ASSUME IInv, IInv', SchedInv, UNCHANGED prprio, StaysSettled, NEW s \in Sem,
         NEW resch \in BOOLEAN, ~resch => ReschedDue, Release(s, resch)
  PROVE  SchedInv'
<1>1. CASE squeue[s] # << >> /\ Ready(Head(squeue[s]), resch)
  <2> DEFINE p == Head(squeue[s])
  <2>1. p \in Pid /\ prstate[p] = "WAIT"
    BY <1>1, WaiterFirst
  <2>2. resch => ReadyYes(p, qkey)
    BY <1>1 DEF Ready, ReadyAndResched
  <2>3. ~resch => ReadyNo(p)
    BY <1>1 DEF Ready
  <2> HIDE DEF p
  <2>4. CASE resch
    BY <2>1, <2>2, <2>4, KeysThere, ReadyYesOrders
  <2>5. CASE ~resch
    BY <2>1, <2>3, <2>5, ReadyNoOrders
  <2> QED BY <2>4, <2>5
<1>2. CASE UNCHANGED sched
  BY <1>2, StillOrders
<1> QED BY <1>1, <1>2 DEF Release

LEMMA SemaphoreOrders ==
  ASSUME IInv, IInv', SchedInv, SemaphoreCall
  PROVE  SchedInv'
<1> USE DEF procv
<1>1. UserCall /\ UNCHANGED prprio
  BY DEF SemaphoreCall, Wait, Signal, SignalN, SemCreate, SemDelete, SemReset
<1>2. StaysSettled /\ prstate[currpid] = "CURR"
  BY <1>1, UserSettled, UserRuns
<1>3. ASSUME NEW s \in Sem, Wait(s) PROVE SchedInv'
  <2>1. CASE Resched([prstate EXCEPT ![currpid] = "WAIT"], readylist, qkey, preempt)
    <3>1. "WAIT" \in States \ {"CURR", "READY"} /\ prstate[currpid] # "READY"
      BY <1>2 DEF States
    <3> QED BY <1>1, <2>1, <3>1, KeysThere, LeaveOrders
  <2>2. CASE UNCHANGED sched
    BY <1>1, <1>2, <2>2, StillOrders
  <2> QED BY <1>3, <2>1, <2>2 DEF Wait
<1>4. ASSUME NEW s \in Sem, Signal(s) PROVE SchedInv'
  <2>1. CASE Release(s, TRUE)
    BY <1>1, <1>2, <2>1, ReleaseOrders
  <2>2. CASE UNCHANGED sched
    BY <1>1, <1>2, <2>2, StillOrders
  <2> QED BY <1>4, <2>1, <2>2 DEF Signal
<1>5. UNCHANGED sched => SchedInv'
  BY <1>1, <1>2, StillOrders
<1> QED BY <1>3, <1>4, <1>5 DEF SemaphoreCall, SignalN, SemCreate, SemDelete, SemReset

LEMMA SignalNStepOrders ==
  ASSUME IInv, IInv', SchedInv, SignalNStep
  PROVE  SchedInv'
<1> DEFINE s == pc[currpid].obj
           n == pc[currpid].num
<1>1. /\ UNCHANGED prprio /\ currpid \in Pid /\ pc \in [Pid -> Points]
      /\ ~waking /\ prstate[currpid] = "CURR" /\ pc[currpid].at = "signaln" /\ s \in Sem
  <2>1. "signaln" \notin BootPoints \cup {"idle"} /\ Running("signaln")
    BY DEF SignalNStep, BootPoints
  <2>2. UNCHANGED prprio
    BY DEF SignalNStep, procv
  <2> QED BY <2>1, <2>2, RunningAt DEF IInv, TypeOK, NoReceive, Points, PointsOK, LocalsOK
<1>2. CASE Resched(prstate, readylist, qkey, preempt)
  BY <1>1, <1>2, SameOrders
<1>3. CASE /\ \/ Release(s, FALSE)
              \/ UNCHANGED <<squeue, sched>>
           /\ Goto(Point("signaln", s, n - 1))
  <2>1. pc'[currpid].at = "signaln"
    BY <1>1, <1>3 DEF Goto, Point
  <2>2. currpid' = currpid
    BY <1>3 DEF Release, Ready, ReadyNo, sched
  <2>3. ReschedDue /\ StaysSettled
    BY <2>1, <2>2 DEF ReschedDue, StaysSettled
  <2> HIDE DEF s
  <2>4. CASE Release(s, FALSE)
    BY <1>1, <2>3, <2>4, ReleaseOrders
  <2>5. CASE UNCHANGED sched
    BY <1>1, <2>3, <2>5, StillOrders
  <2> QED BY <1>3, <2>4, <2>5
<1> QED BY <1>2, <1>3 DEF SignalNStep

LEMMA SemLoopOrders ==
  ASSUME IInv, IInv', SchedInv, SemDeleteStep \/ SemResetStep
  PROVE  SchedInv'
<1> DEFINE s == pc[currpid].obj
<1>1. UNCHANGED prprio /\ StaysSettled /\ s \in Sem
  <2>1. PICK l \in {"semdelete", "semreset"} : Running(l)
    BY DEF SemDeleteStep, SemResetStep
  <2>2. l \notin BootPoints \cup {"idle"}
    BY DEF BootPoints
  <2>3. ~waking /\ currpid \in Pid /\ pc[currpid].at = l
    BY <2>1, <2>2, RunningAt
  <2> QED BY <2>3 DEF SemDeleteStep, SemResetStep, procv, StaysSettled, IInv, PointsOK, LocalsOK
<1>2. CASE Resched(prstate, readylist, qkey, preempt)
  BY <1>1, <1>2, SameOrders
<1> HIDE DEF s
<1>3. CASE Release(s, TRUE)
  BY <1>1, <1>3, ReleaseOrders
<1> QED BY <1>2, <1>3 DEF SemDeleteStep, SemResetStep, s

(* The keys that unsleep() and insertd() change are those of sleepers and  *)
(* of the running process.                                                 *)
LEMMA SleepersListed ==
  ASSUME IInv, NEW i \in 1 .. Len(sleepq)
  PROVE  sleepq[i] \in Pid /\ prstate[sleepq[i]] \in Sleeping
<1>1. sleepq \in Seq(WithState(prstate, Sleeping))
  BY DEF IInv, QueuesMatchStates, SleepListed, Enumerates
<1>2. sleepq[i] \in WithState(prstate, Sleeping)
  BY <1>1
<1> QED BY <1>2 DEF WithState

LEMMA UnsleptSame ==
  ASSUME IInv, NEW i \in 1 .. Len(sleepq)
  PROVE  UnsleptKeys(i) \in [Pid -> Int] /\ SameKeys(UnsleptKeys(i))
<1>1. qkey \in [Pid -> Int] /\ sleepq \in Seq(Pid) /\ Len(sleepq) \in Nat
  <2>1. qkey \in [Pid -> Int] /\ sleepq \in Seq(Pid)
    BY DEF IInv, TypeOK
  <2> QED BY <2>1, LenProperties
<1>2. CASE i < Len(sleepq)
  <2>1. i + 1 \in 1 .. Len(sleepq)
    BY <1>1, <1>2
  <2>2. /\ sleepq[i + 1] \in Pid /\ sleepq[i] \in Pid
        /\ prstate[sleepq[i + 1]] # "READY"
    BY <2>1, SleepersListed DEF Sleeping
  <2> QED BY <1>1, <1>2, <2>2 DEF UnsleptKeys, SameKeys
<1>3. CASE ~(i < Len(sleepq))
  BY <1>1, <1>3 DEF UnsleptKeys, SameKeys
<1> QED BY <1>2, <1>3

LEMMA DeliverOrders ==
  ASSUME IInv, IInv', SchedInv, StaysSettled, UNCHANGED prprio, NEW p \in Pid, NEW m,
         Deliver(p, m)
  PROVE  SchedInv'
<1>1. CASE UNCHANGED sched
  BY <1>1, StillOrders
<1>2. CASE prstate[p] = "RECV" /\ ReadyYes(p, qkey)
  BY <1>2, KeysThere, ReadyYesOrders
<1>3. CASE /\ prstate[p] = "RECTIM"
           /\ \E i \in 1 .. Len(sleepq) : ReadyYes(p, UnsleptKeys(i))
  BY <1>3, UnsleptSame, ReadyYesOrders
<1> QED BY <1>1, <1>2, <1>3 DEF Deliver

LEMMA MessageOrders ==
  ASSUME IInv, IInv', SchedInv, MessageCall
  PROVE  SchedInv'
<1>1. UserCall /\ UNCHANGED prprio
  BY DEF MessageCall, Send, Receive, RecvClr, RecvTime, procv
<1>2. StaysSettled
  BY <1>1, UserSettled
<1>3. ASSUME NEW p \in Pid, NEW m \in Msgs, Send(p, m) PROVE SchedInv'
  BY <1>1, <1>2, <1>3, DeliverOrders DEF Send
<1>4. UNCHANGED sched => SchedInv'
  BY <1>1, <1>2, StillOrders
<1>5. CASE RecvClr \/ \E d \in Delays : RecvTime(d)
  BY <1>4, <1>5 DEF RecvClr, RecvTime
<1> QED BY <1>3, <1>5 DEF MessageCall, IInv, NoReceive

(* The last step of recvtime().                                            *)
LEMMA ReceiveOrders ==
  ASSUME IInv, IInv', SchedInv, RecvTimeTake
  PROVE  SchedInv'
<1>1. UNCHANGED <<sched, prprio>> /\ StaysSettled
  BY DEF RecvTimeTake, Running, procv, StaysSettled
<1> QED BY <1>1, StillOrders

-----------------------------------------------------------------------------
(* The clock.                                                              *)

LEMMA InsertdOrders ==
  ASSUME IInv, IInv', SchedInv, InsertdWalk \/ InsertdLink
  PROVE  SchedInv'
<1>1. UNCHANGED prprio /\ Inserting
  BY DEF InsertdWalk, InsertdLink, procv
<1>2. /\ currpid \in Pid /\ prstate[currpid] = "CURR" /\ StaysSettled
      /\ pc[currpid].obj \in 0 .. Len(sleepq) /\ Len(sleepq) \in Nat /\ pc[currpid].num \in Int
  <2>1. "signaln" \notin WalkPoints
    BY DEF WalkPoints
  <2> QED BY <1>1, <2>1, InsertingRuns DEF StaysSettled
<1>3. CASE InsertdWalk
  BY <1>1, <1>2, <1>3, StillOrders DEF InsertdWalk
<1>4. CASE InsertdLink
  <2> DEFINE i     == pc[currpid].obj + 1
             num   == pc[currpid].num
             state == IF pc[currpid].at = "sleepms" THEN "SLEEP" ELSE "RECTIM"
             keys  == InsertedKeys(i, num)
  <2>1. Resched([prstate EXCEPT ![currpid] = state], readylist, keys, preempt)
    BY <1>4 DEF InsertdLink
  <2>2. i \in 1 .. Len(sleepq) + 1 /\ num \in Int
    BY <1>2
  <2>3. state \in States \ {"CURR", "READY"}
    BY DEF States
  <2> HIDE DEF i, num, state
  <2>4. keys \in [Pid -> Int] /\ SameKeys(keys)
    <3>1. qkey \in [Pid -> Int]
      BY DEF IInv, TypeOK
    <3>2. CASE i <= Len(sleepq)
      <4>1. i \in 1 .. Len(sleepq)
        BY <1>2, <2>2, <3>2
      <4>2. sleepq[i] \in Pid /\ prstate[sleepq[i]] # "READY"
        BY <4>1, SleepersListed DEF Sleeping
      <4> QED BY <1>2, <2>2, <3>1, <3>2, <4>2 DEF InsertedKeys, SameKeys
    <3>3. CASE ~(i <= Len(sleepq))
      BY <1>2, <2>2, <3>1, <3>3 DEF InsertedKeys, SameKeys
    <3> QED BY <3>2, <3>3
  <2> HIDE DEF keys
  <2> QED BY <1>1, <1>2, <2>1, <2>3, <2>4, LeaveOrders
<1> QED BY <1>3, <1>4

LEMMA SleepMsOrders ==
  ASSUME IInv, IInv', SchedInv, NEW d \in Delays \cup {0}, SleepMs(d)
  PROVE  SchedInv'
<1>1. UNCHANGED prprio /\ StaysSettled
  BY UserSettled DEF SleepMs, procv
<1>2. CASE Resched(prstate, readylist, qkey, preempt)
  BY <1>1, <1>2, SameOrders
<1>3. CASE UNCHANGED sched
  BY <1>1, <1>3, StillOrders
<1> QED BY <1>2, <1>3 DEF SleepMs

LEMMA TickOrders ==
  ASSUME IInv, IInv', SchedInv, Tick
  PROVE  SchedInv'
<1>1. UNCHANGED prprio /\ StaysSettled
  BY TickInPlace DEF Tick, procv, StaysSettled, HeldPoints
<1>2. CASE /\ sleepq # << >>
           /\ qkey' = [qkey EXCEPT ![Head(sleepq)] = @ - 1]
           /\ UNCHANGED <<prstate, readylist, currpid>>
  <2>1. 1 \in 1 .. Len(sleepq) /\ Head(sleepq) = sleepq[1]
    BY <1>2 DEF IInv, TypeOK
  <2>2. prstate[Head(sleepq)] # "READY"
    BY <2>1, SleepersListed DEF Sleeping
  <2>3. \A p \in Pid : prstate[p] = "READY" => qkey'[p] = qkey[p]
    BY <1>2, <2>2 DEF IInv, TypeOK
  <2> QED BY <1>1, <1>2, <2>3, QuietOrders
<1>3. CASE Resched(prstate, readylist, qkey, QUANTUM)
  BY <1>1, <1>3, SameOrders
<1>4. CASE UNCHANGED <<prstate, readylist, qkey, currpid>>
  BY <1>1, <1>4, QuietOrders
<1> QED BY <1>2, <1>3, <1>4 DEF Tick, CountSlice

LEMMA WakeupOrders ==
  ASSUME IInv, IInv', SchedInv, WakeupReady \/ WakeupResched
  PROVE  SchedInv'
<1>1. UNCHANGED prprio
  BY DEF WakeupReady, WakeupResched, procv
<1>2. CASE WakeupReady
  <2>1. ReschedDue /\ ReadyNo(Head(sleepq)) /\ sleepq # << >>
    BY <1>2 DEF WakeupReady, ReschedDue
  <2>2. 1 \in 1 .. Len(sleepq) /\ Head(sleepq) = sleepq[1]
    BY <2>1 DEF IInv, TypeOK
  <2>3. Head(sleepq) \in Pid /\ prstate[Head(sleepq)] \notin {"CURR", "READY"}
    BY <2>2, SleepersListed DEF Sleeping
  <2> QED BY <1>1, <2>1, <2>3, ReadyNoOrders
<1>3. CASE WakeupResched
  BY <1>1, <1>3, SameOrders DEF WakeupResched
<1> QED BY <1>2, <1>3

-----------------------------------------------------------------------------
(* The life of a process.                                                  *)

LEMMA CreatedOrders ==
  ASSUME IInv, IInv', SchedInv, StaysSettled, prstate[currpid] = "CURR",
         NEW p \in Pid, NEW b, NEW prio, Created(p, b, prio)
  PROVE  SchedInv'
<1>1. /\ prstate[p] = "FREE" /\ prstate' = [prstate EXCEPT ![p] = "SUSP"]
      /\ prprio' = [prprio EXCEPT ![p] = prio] /\ UNCHANGED <<readylist, qkey, currpid>>
  BY DEF Created, IsNewPid
<1>2. prstate \in [Pid -> States] /\ prprio \in [Pid -> Int]
  BY DEF IInv, TypeOK
<1>3. /\ \A q \in Pid : prstate'[q] = "READY" => prstate[q] = "READY"
      /\ \A q \in Pid \ {p} : prprio'[q] = prprio[q]
  BY <1>1, <1>2
<1> QED BY <1>1, <1>3, QuietOrders

LEMMA BootOrders ==
  ASSUME IInv, IInv', SchedInv, NullCreate \/ NullReady
  PROVE  SchedInv'
<1>1. StaysSettled
  BY DEF NullCreate, NullReady, Running, StaysSettled
<1>2. CASE NullCreate
  <2>1. prstate[currpid] = "CURR"
    BY <1>2 DEF NullCreate, Running, IInv, PointsOK, NullPoint, Boot, BootPoints, TypeOK
  <2> QED BY <1>1, <1>2, <2>1, CreatedOrders DEF NullCreate
<1>3. CASE NullReady
  <2>1. /\ pc[currpid].obj \in Pid /\ prstate[pc[currpid].obj] = "SUSP"
        /\ ReadyYes(pc[currpid].obj, qkey) /\ UNCHANGED prprio
    BY <1>3 DEF NullReady, Running, IInv, PointsOK, NullPoint, Boot, BootPoints, TypeOK, procv
  <2> QED BY <2>1, KeysThere, ReadyYesOrders
<1> QED BY <1>2, <1>3

(* Taking a process off the ready list, to give it another state.          *)
LEMMA UnreadyOrders ==
  ASSUME IInv, IInv', SchedInv, StaysSettled, UNCHANGED <<prprio, qkey, currpid>>,
         NEW p \in Pid, NEW s \in States \ {"READY"}, prstate' = [prstate EXCEPT ![p] = s],
         UNCHANGED readylist \/ UnlinkReady(p)
  PROVE  SchedInv'
<1>1. \A q \in Pid : prstate'[q] = "READY" => prstate[q] = "READY"
  BY DEF IInv, TypeOK
<1> QED BY <1>1, QuietOrders DEF UnlinkReady

LEMMA ProcessOrders ==
  ASSUME IInv, IInv', SchedInv, ProcessCall
  PROVE  SchedInv'
<1>1. UserCall
  BY DEF ProcessCall, Create, CreateFail, Resume, Suspend, Chprio, Kill, Yield, SleepMs
<1>2. /\ StaysSettled /\ prstate[currpid] = "CURR" /\ currpid \in Pid
      /\ \A p \in Pid : prstate[p] = "CURR" => p = currpid
  BY <1>1, UserSettled, UserRuns DEF IInv, QueuesMatchStates, OneCurrent
<1>3. ASSUME NEW prio \in Prios, Create(prio) PROVE SchedInv'
  BY <1>2, <1>3, CreatedOrders DEF Create
<1>4. ASSUME NEW prio \in Prios, CreateFail(prio) PROVE SchedInv'
  BY <1>2, <1>4, StillOrders DEF CreateFail
<1>5. ASSUME NEW p \in Pid, Resume(p) PROVE SchedInv'
  BY <1>5, KeysThere, ReadyYesOrders DEF Resume, Resumable, procv
<1>6. ASSUME NEW p \in Pid, Suspend(p) PROVE SchedInv'
  <2>1. UNCHANGED prprio /\ "SUSP" \in States \ {"CURR", "READY"}
    BY <1>6 DEF Suspend, procv, States
  <2>2. CASE /\ UnlinkReady(p) /\ prstate' = [prstate EXCEPT ![p] = "SUSP"]
             /\ UNCHANGED <<qkey, currpid>>
    BY <1>2, <2>1, <2>2, UnreadyOrders
  <2>3. CASE prstate[p] = "CURR" /\ Resched([prstate EXCEPT ![p] = "SUSP"], readylist, qkey, preempt)
    BY <1>2, <2>1, <2>3, KeysThere, LeaveOrders
  <2> QED BY <1>6, <2>2, <2>3 DEF Suspend
<1>7. ASSUME "chprio" \in Calls, NEW p \in Pid, NEW prio \in Prios, Chprio(p, prio)
      PROVE  SchedInv'
  BY <1>2, <1>7, QuietOrders DEF Chprio, sched
<1>8. ASSUME NEW p \in Pid, Kill(p) PROVE SchedInv'
  <2>1. UNCHANGED prprio
    BY <1>8 DEF Kill
  <2>2. CASE UNCHANGED sched
    BY <1>2, <2>1, <2>2, StillOrders
  <2>3. CASE Deliver(prparent[p], p)
    BY <1>2, <2>1, <2>3, DeliverOrders DEF IInv, TypeOK
  <2> QED BY <1>8, <2>2, <2>3 DEF Kill
<1>9. Yield => SchedInv'
  BY SameOrders DEF Yield, procv
<1> QED BY <1>3, <1>4, <1>5, <1>6, <1>7, <1>8, <1>9, SleepMsOrders DEF ProcessCall

LEMMA KillRestOrders ==
  ASSUME IInv, IInv', SchedInv, KillRest
  PROVE  SchedInv'
<1> DEFINE p == pc[currpid].obj
<1>1. /\ UNCHANGED prprio /\ StaysSettled /\ prstate[currpid] = "CURR"
      /\ p \in Pid /\ \A q \in Pid : prstate[q] = "CURR" => q = currpid
  <2>1. "kill" \notin BootPoints \cup {"idle"} /\ Running("kill")
    BY DEF KillRest, BootPoints
  <2> QED BY <2>1, RunningAt
      DEF KillRest, StaysSettled, IInv, PointsOK, LocalsOK, QueuesMatchStates, OneCurrent
<1>2. KillCurr(p) \/ KillSleeping(p) \/ KillWaiting(p) \/ KillReady(p) \/ KillOther(p)
  BY DEF KillRest
<1>3. "FREE" \in States \ {"CURR", "READY"}
  BY DEF States
<1> HIDE DEF p
<1>4. CASE KillCurr(p)
  BY <1>1, <1>3, <1>4, KeysThere, LeaveOrders DEF KillCurr
<1>5. CASE KillSleeping(p)
  <2>1. PICK i \in 1 .. Len(sleepq) : qkey' = UnsleptKeys(i)
    BY <1>5 DEF KillSleeping
  <2>2. SameKeys(qkey')
    BY <2>1, UnsleptSame
  <2>3. /\ prstate' = [prstate EXCEPT ![p] = "FREE"] /\ UNCHANGED <<currpid, readylist>>
    BY <1>5 DEF KillSleeping, FreeEntry, KeepCurrent
  <2>4. \A q \in Pid : prstate'[q] = "READY" => prstate[q] = "READY"
    BY <2>3 DEF IInv, TypeOK
  <2> QED BY <1>1, <2>2, <2>3, <2>4, QuietOrders DEF SameKeys
<1>6. CASE KillWaiting(p) \/ KillReady(p) \/ KillOther(p)
  BY <1>1, <1>3, <1>6, UnreadyOrders
  DEF KillWaiting, KillReady, KillOther, FreeEntry, KeepCurrent
<1> QED BY <1>2, <1>4, <1>5, <1>6

-----------------------------------------------------------------------------
(* The theorems.                                                           *)

LEMMA SchedInit == Init => SchedInv
<1> SUFFICES ASSUME Init PROVE SchedInv
  OBVIOUS
<1>1. ReadySorted
  BY DEF Init, ReadySorted, Descending
<1>2. ReadyKeys /\ NoneAbove
  BY DEF Init, ReadyKeys, NoneAbove
<1> QED BY <1>1, <1>2 DEF SchedInv

LEMMA SchedStep == IInv /\ IInv' /\ SchedInv /\ [Next]_vars => SchedInv'
<1> SUFFICES ASSUME IInv, IInv', SchedInv, [Next]_vars PROVE SchedInv'
  OBVIOUS
<1>1. CASE Continue
  BY <1>1, SignalNStepOrders, SemLoopOrders, NotReceiving, ReceiveOrders, InsertdOrders,
     KillRestOrders, WakeupOrders, BootOrders
  DEF Continue
<1>2. CASE UNCHANGED vars
  BY <1>2
  DEF vars, sched, procv, SchedInv, ReadySorted, ReadyKeys, NoneAbove
<1> QED BY <1>1, <1>2, SemaphoreOrders, MessageOrders, ProcessOrders, TickOrders DEF Next

LEMMA SchedInvariant == "receive" \notin Calls => (Spec => []SchedInv)
<1> SUFFICES ASSUME "receive" \notin Calls PROVE Spec => []SchedInv
  OBVIOUS
<1> QED BY SchedInit, SchedStep, Invariant, PTL DEF Spec

(* The ready list stays in descending key order whatever is called,        *)
(* receive() apart: the keys that the sleep queue changes are never those  *)
(* of ready processes.                                                     *)
THEOREM ReadyListSorted ==
  ASSUME "receive" \notin Calls
  PROVE  Spec => []ReadySorted
<1>1. SchedInv => ReadySorted
  BY DEF SchedInv
<1> QED BY <1>1, SchedInvariant, PTL

(* Xinu's scheduling invariant, for every workload without receive() and   *)
(* without chprio, which does not reschedule: a process that runs with     *)
(* interrupts enabled has a priority no lower than that of every ready     *)
(* process.                                                                *)
THEOREM HighestPriority ==
  ASSUME "receive" \notin Calls, "chprio" \notin Calls
  PROVE  Spec => []HighestPriorityRuns
<1>1. SchedInv => HighestPriorityRuns
  BY DEF SchedInv, NoneAbove, HighestPriorityRuns, IntrOn
<1> QED BY <1>1, SchedInvariant, PTL

-----------------------------------------------------------------------------
(* The life cycle: the arcs of Xinu's process state diagram.               *)

Runnable == {"CURR", "READY"}

(* Only the scheduler moves p, if anything does.                           *)
StaysIn(p) ==
  prstate'[p] = prstate[p] \/ (prstate[p] \in Runnable /\ prstate'[p] \in Runnable)

IsCreated(p) ==
  /\ prstate[p] = "FREE" /\ prstate'[p] = "SUSP"
  /\ pc'[p] = UserCode /\ ~prhasmsg'[p] /\ prcount' = prcount + 1

GivesUp(p) ==
  /\ prstate[p] \in Runnable
  /\ \/ prstate'[p] = "SUSP"
     \/ /\ p = currpid /\ ~waking
        /\ <<pc[p].at, prstate'[p]>> \in {<<"user", "WAIT">>, <<"sleepms", "SLEEP">>,
                                          <<"recvtime", "RECTIM">>}

IsReleased(p) == prstate[p] \in {"SUSP", "WAIT"} /\ prstate'[p] \in Runnable

GetsMessage(p) ==
  /\ prstate[p] \in {"RECV", "RECTIM"} /\ prstate'[p] \in Runnable
  /\ ~prhasmsg[p] /\ prhasmsg'[p]

WakesUp(p) ==
  /\ waking /\ sleepq # << >> /\ p = Head(sleepq) /\ Expired(qkey[p])
  /\ prstate[p] \in Sleeping /\ prstate'[p] = "READY"

IsKilled(p) ==
  /\ Running("kill") /\ p = pc[currpid].obj
  /\ prstate'[p] = "FREE" /\ pc'[p] = UserCode

LifeStep(p) ==
  \/ StaysIn(p) \/ IsCreated(p) \/ GivesUp(p) \/ IsReleased(p) \/ GetsMessage(p)
  \/ WakesUp(p) \/ IsKilled(p)

LEMMA SchedLife ==
  ASSUME IInv, NEW q \in Pid, NEW s \in States, Scheduled([prstate EXCEPT ![q] = s])
  PROVE  /\ \A p \in Pid \ {q} : StaysIn(p)
         /\ s \in Runnable => prstate'[q] \in Runnable
         /\ s \notin Runnable => prstate'[q] = s
<1> DEFINE st == [prstate EXCEPT ![q] = s]
<1>1. \A p \in Pid : st[p] = IF p = q THEN s ELSE prstate[p]
  BY DEF IInv, TypeOK
<1> HIDE DEF st
<1>2. /\ \A p \in Pid : st[p] \in Runnable <=> prstate'[p] \in Runnable
      /\ \A p \in Pid : st[p] \notin Runnable => prstate'[p] = st[p]
  BY DEF Scheduled, Runnable, st
<1> QED BY <1>1, <1>2 DEF StaysIn

LEMMA SameLife ==
  ASSUME IInv, NEW pre \in 1 .. QUANTUM, Resched(prstate, readylist, qkey, pre)
  PROVE  \A p \in Pid : StaysIn(p)
<1>1. TypeOK /\ ReadyListed /\ OneCurrent /\ qkey \in [Pid -> Int]
  BY DEF IInv, QueuesMatchStates, TypeOK
<1>2. Scheduled(prstate)
  BY <1>1, StaySchedules
<1> QED BY <1>2 DEF Scheduled, StaysIn, Runnable

LEMMA LeaveLife ==
  ASSUME IInv, prstate[currpid] = "CURR", NEW s \in States \ {"CURR", "READY"},
         NEW keys \in [Pid -> Int],
         Resched([prstate EXCEPT ![currpid] = s], readylist, keys, preempt)
  PROVE  (\A p \in Pid \ {currpid} : StaysIn(p)) /\ prstate'[currpid] = s
<1>1. TypeOK /\ ReadyListed /\ OneCurrent /\ currpid \in Pid
  BY DEF IInv, QueuesMatchStates, TypeOK
<1>2. Scheduled([prstate EXCEPT ![currpid] = s])
  BY <1>1, LeaveSchedules
<1> QED BY <1>1, <1>2, SchedLife DEF Runnable

LEMMA ReadyYesLife ==
  ASSUME IInv, NEW p \in Pid, prstate[p] \notin {"CURR", "READY"},
         NEW keys \in [Pid -> Int], ReadyYes(p, keys)
  PROVE  (\A q \in Pid \ {p} : StaysIn(q)) /\ prstate'[p] \in Runnable
<1>1. TypeOK /\ ReadyListed /\ OneCurrent
  BY DEF IInv, QueuesMatchStates
<1>2. Scheduled([prstate EXCEPT ![p] = "READY"])
  BY <1>1, ReadyYesSchedules
<1> QED BY <1>2, SchedLife DEF Runnable, States

LEMMA UpdateLife ==
  ASSUME IInv, NEW p \in Pid, NEW s, prstate' = [prstate EXCEPT ![p] = s]
  PROVE  (\A q \in Pid \ {p} : StaysIn(q)) /\ prstate'[p] = s
BY DEF IInv, TypeOK, StaysIn

LEMMA PreemptTyped == IInv => preempt \in 1 .. QUANTUM /\ QUANTUM \in 1 .. QUANTUM
BY QuantumAssumption DEF IInv, TypeOK

LEMMA StillLife == UNCHANGED sched => \A p \in Pid : StaysIn(p)
BY DEF sched, StaysIn

LEMMA ReleaseLife ==
  ASSUME IInv, NEW s \in Sem, NEW resch \in BOOLEAN, Release(s, resch)
  PROVE  \A p \in Pid : LifeStep(p)
<1>1. CASE squeue[s] # << >> /\ Ready(Head(squeue[s]), resch)
  <2> DEFINE p == Head(squeue[s])
  <2>1. p \in Pid /\ prstate[p] = "WAIT"
    BY <1>1, WaiterFirst
  <2>2. resch => ReadyYes(p, qkey)
    BY <1>1 DEF Ready, ReadyAndResched
  <2>3. ~resch => prstate' = [prstate EXCEPT ![p] = "READY"]
    BY <1>1 DEF Ready, ReadyNo
  <2> HIDE DEF p
  <2>4. (\A q \in Pid \ {p} : StaysIn(q)) /\ prstate'[p] \in Runnable
    BY <2>1, <2>2, <2>3, KeysThere, ReadyYesLife, UpdateLife DEF Runnable
  <2> QED BY <2>1, <2>4 DEF LifeStep, IsReleased
<1>2. CASE UNCHANGED sched
  BY <1>2, StillLife DEF LifeStep
<1> QED BY <1>1, <1>2 DEF Release

LEMMA SemaphoreLife ==
  ASSUME IInv, SemaphoreCall \/ SignalNStep \/ SemDeleteStep \/ SemResetStep
  PROVE  \A p \in Pid : LifeStep(p)
<1>1. CASE UNCHANGED sched
  BY <1>1, StillLife DEF LifeStep
<1>2. CASE Resched(prstate, readylist, qkey, preempt)
  BY <1>2, PreemptTyped, SameLife DEF LifeStep
<1>3. ASSUME NEW s \in Sem, NEW resch \in BOOLEAN, Release(s, resch)
      PROVE  \A p \in Pid : LifeStep(p)
  BY <1>3, ReleaseLife
<1>4. ASSUME UserCall, Resched([prstate EXCEPT ![currpid] = "WAIT"], readylist, qkey, preempt)
      PROVE  \A p \in Pid : LifeStep(p)
  <2>1. /\ "WAIT" \in States \ {"CURR", "READY"} /\ prstate[currpid] = "CURR"
        /\ ~waking /\ pc[currpid].at = "user"
    BY <1>4, UserRuns DEF States
  <2>2. (\A p \in Pid \ {currpid} : StaysIn(p)) /\ prstate'[currpid] = "WAIT"
    BY <1>4, <2>1, KeysThere, LeaveLife
  <2> QED BY <2>1, <2>2 DEF LifeStep, GivesUp, Runnable
<1>5. ASSUME NEW l \in {"signaln", "semdelete", "semreset"}, Running(l)
      PROVE  pc[currpid].obj \in Sem
  <2>1. l \notin BootPoints \cup {"idle"}
    BY DEF BootPoints
  <2> QED BY <1>5, <2>1, RunningAt DEF IInv, PointsOK, LocalsOK
<1>6. CASE SemaphoreCall
  <2>1. ASSUME NEW s \in Sem, Wait(s) PROVE \A p \in Pid : LifeStep(p)
    BY <1>1, <1>4, <2>1 DEF Wait
  <2>2. ASSUME NEW s \in Sem, Signal(s) PROVE \A p \in Pid : LifeStep(p)
    BY <1>1, <1>3, <2>2 DEF Signal
  <2> QED BY <1>1, <1>6, <2>1, <2>2 DEF SemaphoreCall, SignalN, SemCreate, SemDelete, SemReset
<1>7. CASE SignalNStep
  BY <1>1, <1>2, <1>3, <1>5, <1>7 DEF SignalNStep
<1>8. CASE SemDeleteStep
  BY <1>2, <1>3, <1>5, <1>8 DEF SemDeleteStep
<1>9. CASE SemResetStep
  BY <1>2, <1>3, <1>5, <1>9 DEF SemResetStep
<1> QED BY <1>6, <1>7, <1>8, <1>9

LEMMA DeliverLife ==
  ASSUME IInv, NEW p \in Pid, NEW m, Deliver(p, m)
  PROVE  \A q \in Pid : LifeStep(q)
<1>1. CASE UNCHANGED sched
  BY <1>1, StillLife DEF LifeStep
<1>2. ASSUME prstate[p] \in {"RECV", "RECTIM"}, prhasmsg' = [prhasmsg EXCEPT ![p] = TRUE],
             ~BufferFull(p), NEW keys \in [Pid -> Int], ReadyYes(p, keys)
      PROVE  \A q \in Pid : LifeStep(q)
  <2>1. (\A q \in Pid \ {p} : StaysIn(q)) /\ prstate'[p] \in Runnable
    BY <1>2, ReadyYesLife
  <2>2. ~prhasmsg[p] /\ prhasmsg'[p]
    BY <1>2 DEF BufferFull, IInv, TypeOK
  <2> QED BY <1>2, <2>1, <2>2 DEF LifeStep, GetsMessage
<1> QED BY <1>1, <1>2, KeysThere, UnsleptSame DEF Deliver

LEMMA MessageLife ==
  ASSUME IInv, MessageCall \/ RecvTimeTake
  PROVE  \A p \in Pid : LifeStep(p)
<1>1. CASE UNCHANGED sched
  BY <1>1, StillLife DEF LifeStep
<1>2. ASSUME NEW p \in Pid, NEW m \in Msgs, Send(p, m) PROVE \A q \in Pid : LifeStep(q)
  BY <1>2, DeliverLife DEF Send
<1>3. CASE RecvClr \/ (\E d \in Delays : RecvTime(d)) \/ RecvTimeTake
  BY <1>1, <1>3 DEF RecvClr, RecvTime, RecvTimeTake
<1> QED BY <1>2, <1>3 DEF MessageCall, IInv, NoReceive

LEMMA ClockLife ==
  ASSUME IInv, \/ \E d \in Delays \cup {0} : SleepMs(d)
               \/ InsertdWalk \/ InsertdLink \/ Tick \/ WakeupReady \/ WakeupResched
  PROVE  \A p \in Pid : LifeStep(p)
<1>1. CASE UNCHANGED prstate
  BY <1>1 DEF LifeStep, StaysIn
<1>2. ASSUME NEW pre \in 1 .. QUANTUM, Resched(prstate, readylist, qkey, pre)
      PROVE  \A p \in Pid : LifeStep(p)
  BY <1>2, SameLife DEF LifeStep
<1>3. CASE InsertdLink
  <2> DEFINE state == IF pc[currpid].at = "sleepms" THEN "SLEEP" ELSE "RECTIM"
  <2>1. /\ currpid \in Pid /\ prstate[currpid] = "CURR" /\ ~waking
        /\ pc[currpid].obj \in 0 .. Len(sleepq) /\ Len(sleepq) \in Nat /\ pc[currpid].num \in Int
    BY <1>3, InsertingRuns DEF InsertdLink, Inserting, Running
  <2>2. /\ InsertedKeys(pc[currpid].obj + 1, pc[currpid].num) \in [Pid -> Int]
        /\ Resched([prstate EXCEPT ![currpid] = state], readylist,
                   InsertedKeys(pc[currpid].obj + 1, pc[currpid].num), preempt)
    <3>1. qkey \in [Pid -> Int]
      BY DEF IInv, TypeOK
    <3>2. \A i \in 1 .. Len(sleepq) : sleepq[i] \in Pid
      BY SleepersListed
    <3> QED BY <1>3, <2>1, <3>1, <3>2 DEF InsertdLink, InsertedKeys
  <2>3. /\ state \in States \ {"CURR", "READY"}
        /\ <<pc[currpid].at, state>> \in {<<"sleepms", "SLEEP">>, <<"recvtime", "RECTIM">>}
    BY <1>3, InsertingRuns DEF States, InsertdLink, WalkPoints
  <2> HIDE DEF state
  <2>4. (\A p \in Pid \ {currpid} : StaysIn(p)) /\ prstate'[currpid] = state
    BY <2>1, <2>2, <2>3, LeaveLife
  <2> QED BY <2>1, <2>3, <2>4 DEF LifeStep, GivesUp, Runnable
<1>4. CASE WakeupReady
  <2> DEFINE p == Head(sleepq)
  <2>1. /\ waking /\ sleepq # << >> /\ Expired(qkey[p]) /\ prstate' = [prstate EXCEPT ![p] = "READY"]
    BY <1>4 DEF WakeupReady, ReadyNo
  <2>2. 1 \in 1 .. Len(sleepq) /\ p = sleepq[1]
    BY <2>1 DEF IInv, TypeOK
  <2>3. p \in Pid /\ prstate[p] \in Sleeping
    BY <2>2, SleepersListed
  <2>4. (\A q \in Pid \ {p} : StaysIn(q)) /\ prstate'[p] = "READY"
    BY <2>1, <2>3, UpdateLife
  <2> QED BY <2>1, <2>3, <2>4 DEF LifeStep, WakesUp
<1> QED BY <1>1, <1>2, <1>3, <1>4, PreemptTyped
    DEF SleepMs, InsertdWalk, Tick, CountSlice, WakeupResched, sched

LEMMA CreatedLife ==
  ASSUME IInv, NEW p \in Pid, NEW b, NEW prio, Created(p, b, prio), pc'[p] = UserCode
  PROVE  \A q \in Pid : LifeStep(q)
<1>1. /\ prstate[p] = "FREE" /\ prstate' = [prstate EXCEPT ![p] = "SUSP"]
      /\ prhasmsg' = [prhasmsg EXCEPT ![p] = FALSE] /\ prcount' = prcount + 1
  BY DEF Created, IsNewPid
<1>2. (\A q \in Pid \ {p} : StaysIn(q)) /\ prstate'[p] = "SUSP"
  BY <1>1, UpdateLife
<1>3. ~prhasmsg'[p]
  BY <1>1 DEF IInv, TypeOK
<1> QED BY <1>1, <1>2, <1>3 DEF LifeStep, IsCreated

LEMMA ReleasedLife ==
  ASSUME IInv, NEW p \in Pid, prstate[p] = "SUSP", ReadyYes(p, qkey)
  PROVE  \A q \in Pid : LifeStep(q)
<1>1. (\A q \in Pid \ {p} : StaysIn(q)) /\ prstate'[p] \in Runnable
  BY KeysThere, ReadyYesLife
<1> QED BY <1>1 DEF LifeStep, IsReleased

LEMMA ProcessLife ==
  ASSUME IInv, ProcessCall
  PROVE  \A p \in Pid : LifeStep(p)
<1>1. CASE UNCHANGED sched
  BY <1>1, StillLife DEF LifeStep
<1>2. ASSUME NEW prio \in Prios, Create(prio) PROVE \A p \in Pid : LifeStep(p)
  <2>1. PICK p \in Pid, b \in Stack : Created(p, b, prio) /\ pc' = [pc EXCEPT ![p] = UserCode]
    BY <1>2 DEF Create
  <2>2. pc'[p] = UserCode
    BY <2>1 DEF IInv, TypeOK
  <2> QED BY <2>1, <2>2, CreatedLife
<1>3. ASSUME NEW p \in Pid, Resume(p) PROVE \A q \in Pid : LifeStep(q)
  BY <1>3, ReleasedLife DEF Resume, Resumable
<1>4. ASSUME NEW p \in Pid, Suspend(p) PROVE \A q \in Pid : LifeStep(q)
  <2>1. /\ currpid \in Pid /\ prstate[currpid] = "CURR" /\ "SUSP" \in States \ {"CURR", "READY"}
        /\ \A q \in Pid : prstate[q] = "CURR" => q = currpid
    BY <1>4, UserRuns DEF Suspend, States, IInv, QueuesMatchStates, OneCurrent
  <2>2. (\A q \in Pid \ {p} : StaysIn(q)) /\ prstate'[p] = "SUSP" /\ prstate[p] \in Runnable
    BY <1>4, <2>1, KeysThere, UpdateLife, LeaveLife DEF Suspend, Runnable
  <2> QED BY <2>2 DEF LifeStep, GivesUp
<1>5. ASSUME NEW p \in Pid, Kill(p) PROVE \A q \in Pid : LifeStep(q)
  BY <1>1, <1>5, DeliverLife DEF Kill, IInv, TypeOK
<1>6. CASE Yield
  BY <1>6, PreemptTyped, SameLife DEF Yield, LifeStep
<1> QED BY <1>1, <1>2, <1>3, <1>4, <1>5, <1>6, ClockLife DEF ProcessCall, CreateFail, Chprio

LEMMA BootLife ==
  ASSUME IInv, NullCreate \/ NullReady
  PROVE  \A p \in Pid : LifeStep(p)
<1>1. CASE NullCreate
  <2>1. PICK p \in Pid, b \in Stack :
          /\ Created(p, b, MainPrio)
          /\ pc' = [pc EXCEPT ![currpid] = Point("null_ready", p, 0), ![p] = UserCode]
    BY <1>1 DEF NullCreate
  <2>2. pc'[p] = UserCode
    BY <2>1 DEF IInv, TypeOK
  <2> QED BY <2>1, <2>2, CreatedLife
<1>2. CASE NullReady
  <2>1. /\ pc[currpid].obj \in Pid /\ prstate[pc[currpid].obj] = "SUSP"
        /\ ReadyYes(pc[currpid].obj, qkey)
    BY <1>2 DEF NullReady, Running, IInv, PointsOK, NullPoint, Boot, BootPoints, TypeOK
  <2> QED BY <2>1, ReleasedLife
<1> QED BY <1>1, <1>2

(* Where the killer and the killed are when the rest of kill() runs.       *)
LEMMA KillerRuns ==
  ASSUME IInv, KillRest
  PROVE  /\ ~waking /\ currpid \in Pid \ {NULLPROC} /\ prstate[currpid] = "CURR"
         /\ pc[currpid].at = "kill"
         /\ pc[currpid].obj \in Pid \ {NULLPROC}
         /\ \A q \in Pid : prstate[q] = "CURR" => q = currpid
<1>1. "kill" \notin BootPoints \cup {"idle"} /\ Running("kill")
  BY DEF KillRest, BootPoints
<1> QED BY <1>1, RunningAt DEF IInv, PointsOK, LocalsOK, QueuesMatchStates, OneCurrent

(* It leaves the killed process free and everybody else as it was.         *)
LEMMA KillFrees ==
  ASSUME IInv, KillRest
  PROVE  /\ \A q \in Pid \ {pc[currpid].obj} : StaysIn(q)
         /\ prstate'[pc[currpid].obj] = "FREE"
<1> DEFINE p == pc[currpid].obj
<1>1. /\ p \in Pid /\ prstate[currpid] = "CURR"
      /\ \A q \in Pid : prstate[q] = "CURR" => q = currpid
      /\ KillCurr(p) \/ KillSleeping(p) \/ KillWaiting(p) \/ KillReady(p) \/ KillOther(p)
  BY KillerRuns DEF KillRest
<1>2. "FREE" \in States \ {"CURR", "READY"}
  BY DEF States
<1> HIDE DEF p
<1>3. (\A q \in Pid \ {p} : StaysIn(q)) /\ prstate'[p] = "FREE"
  <2>1. CASE KillCurr(p)
    BY <1>1, <1>2, <2>1, KeysThere, LeaveLife DEF KillCurr
  <2>2. CASE prstate' = [prstate EXCEPT ![p] = "FREE"]
    BY <1>1, <2>2, UpdateLife
  <2> QED BY <1>1, <2>1, <2>2 DEF KillSleeping, KillWaiting, KillReady, KillOther, FreeEntry
<1> QED BY <1>3 DEF p

LEMMA KillRestLife ==
  ASSUME IInv, KillRest
  PROVE  \A p \in Pid : LifeStep(p)
<1> DEFINE p == pc[currpid].obj
<1>1. Running("kill") /\ p \in Pid
  BY KillerRuns DEF KillRest
<1>2. pc'[p] = UserCode
  BY <1>1 DEF KillRest, IInv, TypeOK
<1> QED BY <1>1, <1>2, KillFrees DEF LifeStep, IsKilled

LEMMA StepLife == IInv /\ [Next]_vars => \A p \in Pid : LifeStep(p)
<1> SUFFICES ASSUME IInv, [Next]_vars PROVE \A p \in Pid : LifeStep(p)
  OBVIOUS
<1>1. CASE UNCHANGED vars
  BY <1>1, StillLife DEF vars, LifeStep
<1> QED BY <1>1, SemaphoreLife, NotReceiving, MessageLife, ClockLife, ProcessLife, BootLife,
           KillRestLife
    DEF Next, Continue

(* The process state diagram, without receive() and its state: a process   *)
(* is created suspended, in user code and without a message; it leaves     *)
(* SUSP and WAIT by being made ready, RECTIM by a message that was not     *)
(* there before, the sleep queue also by the clock, when it is first and   *)
(* its time is up; it enters WAIT and the sleep queue only by itself, at   *)
(* the place in its code that says so; and it becomes free only in the     *)
(* second half of a kill of it.                                            *)
THEOREM LifeCycle ==
  ASSUME "receive" \notin Calls
  PROVE  Spec => [][\A p \in Pid : LifeStep(p)]_vars
BY StepLife, Invariant, PTL DEF Spec

-----------------------------------------------------------------------------
(***************************************************************************)
(* The delta list of the sleepers: its keys always add up to the times the *)
(* sleepers have to go, nobody is woken early, and nobody is late unless a *)
(* process asks recvtime for no time at all.                               *)
(*                                                                         *)
(* DeltaKeys is not inductive by itself.  insertd() walks the list node by *)
(* node, so its locals must agree with the part of the list it has passed  *)
(* (WalkOK); and wakeup() takes expired sleepers off without adjusting the *)
(* key behind them, which is right only because an expired sleeper has     *)
(* exactly no time left: sleepers are listed in the order of their times   *)
(* (DueOrder), and the first one is not overdue when wakeup() runs.        *)
(***************************************************************************)

(* The times, negated: the sleep queue is descending in these.             *)
Left == [p \in Pid |-> -due[p]]
DueOrder == Descending(sleepq, Left)

(* The time of the n-th sleeper.                                           *)
TimeAt(n) == IF n = 0 THEN 0 ELSE due[sleepq[n]]

(* insertd() has passed obj sleepers that wake no later than the caller,   *)
(* and num is what is left of its delay.                                   *)
WalkOK ==
  \A p \in Pid : pc[p].at \in WalkPoints =>
    pc[p].num = due[p] - TimeAt(pc[p].obj) /\ pc[p].num >= 0

(* The first sleeper, while wakeup() runs.                                 *)
WakingOK == waking /\ sleepq # << >> => due[Head(sleepq)] >= 0

(* Every sleeper has ticks to go, and so has a process about to sleep.     *)
NoneLate ==
  /\ ~waking => \A i \in 1 .. Len(sleepq) : due[sleepq[i]] >= 1
  /\ \A p \in Pid : pc[p].at \in WalkPoints => due[p] >= 1

SleepInv == DeltaKeys /\ DueOrder /\ WalkOK /\ WakingOK /\ (0 \notin Delays => NoneLate)

-----------------------------------------------------------------------------
(* Delta lists.                                                            *)

Deltas(q, keys, left) ==
  \A i \in 1 .. Len(q) :
    keys[q[i]] = left[q[i]] - (IF i = 1 THEN 0 ELSE left[q[i - 1]])

(* The keys of the others when x is linked in at place i, and when the     *)
(* i-th one is taken off; the times when it is.                            *)
KeysInserted(q, i, x, keys, new) ==
  /\ i <= Len(q) => new[q[i]] = keys[q[i]] - new[x]
  /\ \A j \in 1 .. Len(q) : j # i => new[q[j]] = keys[q[j]]

KeysRemoved(q, i, keys, new) ==
  /\ i < Len(q) => new[q[i + 1]] = keys[q[i + 1]] + keys[q[i]]
  /\ \A j \in 1 .. Len(q) : j # i /\ j # i + 1 => new[q[j]] = keys[q[j]]

TimesKept(q, i, left, left1) == \A j \in 1 .. Len(q) : j # i => left1[q[j]] = left[q[j]]

LEMMA DeltasInsert ==
  ASSUME NEW S, NEW q \in Seq(S), NEW x \in S, NEW i \in 1 .. Len(q) + 1,
         NEW keys, NEW new, NEW left, \A y \in S : keys[y] \in Int /\ left[y] \in Int,
         new[x] \in Int,
         Deltas(q, keys, left),
         new[x] = left[x] - (IF i = 1 THEN 0 ELSE left[q[i - 1]]),
         KeysInserted(q, i, x, keys, new)
  PROVE  Deltas(InsertAt(q, i, x), new, left)
<1> DEFINE r == InsertAt(q, i, x)
<1>1. /\ Len(r) = Len(q) + 1 /\ Len(q) \in Nat
      /\ \A j \in 1 .. Len(q) + 1 :
           r[j] = IF j < i THEN q[j] ELSE IF j = i THEN x ELSE q[j - 1]
  <2>1. q \in Seq(S) /\ x \in S /\ i \in 1 .. Len(q) + 1
    OBVIOUS
  <2>2. Len(r) = Len(q) + 1
    BY ONLY <2>1, InsertAtPlaces
  <2>3. ASSUME NEW j \in 1 .. Len(q) + 1
        PROVE  r[j] = IF j < i THEN q[j] ELSE IF j = i THEN x ELSE q[j - 1]
    BY ONLY <2>1, <2>3, InsertAtPlaces
  <2>4. Len(q) \in Nat
    BY ONLY <2>1
  <2> QED BY ONLY <2>2, <2>3, <2>4
<1>2. \A j \in 1 .. Len(q) : q[j] \in S
  OBVIOUS
<1> HIDE DEF r
<1> SUFFICES ASSUME NEW j \in 1 .. Len(r)
             PROVE  new[r[j]] = left[r[j]] - (IF j = 1 THEN 0 ELSE left[r[j - 1]])
  BY DEF Deltas, r
<1>3. CASE j < i
  <2>0. /\ j \in 1 .. Len(q) /\ j \in 1 .. Len(q) + 1 /\ j # i
        /\ j # 1 => j - 1 \in 1 .. Len(q) + 1 /\ j - 1 < i
    BY <1>1, <1>3
  <2>1. r[j] = q[j] /\ (j # 1 => r[j - 1] = q[j - 1])
    BY <1>1, <1>3, <2>0
  <2> QED BY <2>0, <2>1 DEF Deltas, KeysInserted
<1>4. CASE j = i
  <2>1. r[j] = x /\ (j # 1 => r[j - 1] = q[j - 1])
    BY <1>1, <1>4
  <2> QED BY <1>4, <2>1
<1>5. CASE j = i + 1
  <2>0. /\ i \in 1 .. Len(q) /\ j # 1 /\ j - 1 = i /\ ~(j < i) /\ j # i
        /\ j \in 1 .. Len(q) + 1 /\ i \in 1 .. Len(q) + 1 /\ ~(i < i)
    BY <1>1, <1>5
  <2>1. r[j] = q[i] /\ r[j - 1] = x /\ i \in 1 .. Len(q) /\ j # 1
    BY <1>1, <2>0
  <2>2. /\ new[q[i]] = keys[q[i]] - new[x]
        /\ keys[q[i]] = left[q[i]] - (IF i = 1 THEN 0 ELSE left[q[i - 1]])
    BY <2>1 DEF Deltas, KeysInserted
  <2>3. left[q[i]] \in Int /\ left[x] \in Int /\ (i # 1 => left[q[i - 1]] \in Int)
    BY <1>1, <1>2, <2>1
  <2> QED BY <2>1, <2>2, <2>3, SMTT(20)
<1>6. CASE j > i + 1
  <2>0. /\ j - 1 \in 1 .. Len(q) /\ j - 1 # i /\ j # 1 /\ j - 1 # 1 /\ (j - 1) - 1 = j - 2
        /\ j \in 1 .. Len(q) + 1 /\ j - 1 \in 1 .. Len(q) + 1
        /\ ~(j < i) /\ j # i /\ ~(j - 1 < i)
    BY <1>1, <1>6
  <2>1. /\ r[j] = q[j - 1] /\ r[j - 1] = q[j - 2] /\ j - 1 \in 1 .. Len(q)
        /\ j - 1 # i /\ j # 1 /\ j - 1 # 1
    BY <1>1, <2>0
  <2>2. keys[q[j - 1]] = left[q[j - 1]] - left[q[j - 2]]
    BY <2>0 DEF Deltas
  <2>3. new[q[j - 1]] = keys[q[j - 1]]
    BY <2>1 DEF KeysInserted
  <2> QED BY <2>1, <2>2, <2>3
<1> QED BY <1>1, <1>3, <1>4, <1>5, <1>6

LEMMA DeltasRemove ==
  ASSUME NEW S, NEW q \in Seq(S), NEW i \in 1 .. Len(q),
         NEW keys, NEW new, NEW left, NEW left1,
         \A y \in S : keys[y] \in Int /\ left[y] \in Int,
         Deltas(q, keys, left),
         KeysRemoved(q, i, keys, new), TimesKept(q, i, left, left1)
  PROVE  Deltas(RemoveAt(q, i), new, left1)
<1> DEFINE r == RemoveAt(q, i)
<1>1. /\ Len(r) = Len(q) - 1 /\ Len(q) \in Nat
      /\ \A j \in 1 .. Len(q) - 1 : r[j] = IF j < i THEN q[j] ELSE q[j + 1]
  BY RemoveAtPlaces
<1>2. \A j \in 1 .. Len(q) : q[j] \in S
  OBVIOUS
<1> HIDE DEF r
<1> SUFFICES ASSUME NEW j \in 1 .. Len(r)
             PROVE  new[r[j]] = left1[r[j]] - (IF j = 1 THEN 0 ELSE left1[r[j - 1]])
  BY DEF Deltas, r
<1>3. CASE j < i
  <2>0. j \in 1 .. Len(q) - 1 /\ j \in 1 .. Len(q) /\ j # i /\ j # i + 1
    BY <1>1, <1>3
  <2>1. j \in 1 .. Len(q) /\ r[j] = q[j] /\ j # i /\ j # i + 1
    BY <1>1, <1>3, <2>0
  <2>2. keys[q[j]] = left[q[j]] - (IF j = 1 THEN 0 ELSE left[q[j - 1]])
    BY <2>1 DEF Deltas
  <2>3. new[q[j]] = keys[q[j]] /\ left1[q[j]] = left[q[j]]
    BY <2>1 DEF KeysRemoved, TimesKept
  <2>4. CASE j = 1
    BY <2>1, <2>2, <2>3, <2>4
  <2>5. CASE j # 1
    <3>1. j - 1 \in 1 .. Len(q) /\ j - 1 # i /\ r[j - 1] = q[j - 1]
      BY <1>1, <1>3, <2>5
    <3>2. left1[q[j - 1]] = left[q[j - 1]]
      BY <3>1 DEF TimesKept
    <3> QED BY <2>1, <2>2, <2>3, <2>5, <3>1, <3>2
  <2> QED BY <2>4, <2>5
<1>4. CASE j = i
  <2>0. /\ i + 1 \in 1 .. Len(q) /\ i < Len(q) /\ i + 1 # 1 /\ i + 1 # i
        /\ j \in 1 .. Len(q) - 1 /\ ~(j < i) /\ j + 1 = i + 1 /\ (i + 1) - 1 = i
    BY <1>1, <1>4
  <2>1. r[j] = q[i + 1] /\ i + 1 \in 1 .. Len(q) /\ i < Len(q) /\ i + 1 # 1 /\ i + 1 # i
    BY <1>1, <2>0
  <2>2. keys[q[i + 1]] = left[q[i + 1]] - left[q[i]]
    BY <2>0 DEF Deltas
  <2>3. keys[q[i]] = left[q[i]] - (IF i = 1 THEN 0 ELSE left[q[i - 1]])
    BY DEF Deltas
  <2>4. /\ new[q[i + 1]] = keys[q[i + 1]] + keys[q[i]]
        /\ left1[q[i + 1]] = left[q[i + 1]]
    BY <2>1 DEF KeysRemoved, TimesKept
  <2>5. left[q[i + 1]] \in Int /\ left[q[i]] \in Int
    BY <1>2, <2>1
  <2>6. CASE i = 1
    BY <1>4, <2>1, <2>2, <2>3, <2>4, <2>5, <2>6
  <2>7. CASE i # 1
    <3>1. i - 1 \in 1 .. Len(q) /\ i - 1 # i /\ r[j - 1] = q[i - 1]
      BY <1>1, <1>4, <2>7
    <3>2. left1[q[i - 1]] = left[q[i - 1]] /\ left[q[i - 1]] \in Int
      BY <1>2, <3>1 DEF TimesKept
    <3> QED BY <1>4, <2>1, <2>2, <2>3, <2>4, <2>5, <2>7, <3>1, <3>2, SMTT(20)
  <2> QED BY <2>6, <2>7
<1>5. CASE j > i
  <2>0. /\ j + 1 \in 1 .. Len(q) /\ j \in 1 .. Len(q) /\ j # i /\ j + 1 # i + 1 /\ j + 1 # i
        /\ j # 1 /\ j + 1 # 1 /\ (j + 1) - 1 = j /\ (j - 1) + 1 = j
        /\ j \in 1 .. Len(q) - 1 /\ j - 1 \in 1 .. Len(q) - 1 /\ ~(j < i) /\ ~(j - 1 < i)
    BY <1>1, <1>5
  <2>1. /\ r[j] = q[j + 1] /\ r[j - 1] = q[j] /\ j + 1 \in 1 .. Len(q)
        /\ j \in 1 .. Len(q) /\ j # i /\ j + 1 # i + 1 /\ j + 1 # i /\ j # 1 /\ j + 1 # 1
    BY <1>1, <2>0
  <2>2. keys[q[j + 1]] = left[q[j + 1]] - left[q[j]]
    BY <2>0 DEF Deltas
  <2>3. new[q[j + 1]] = keys[q[j + 1]]
    BY <2>1 DEF KeysRemoved
  <2>4. left1[q[j + 1]] = left[q[j + 1]] /\ left1[q[j]] = left[q[j]]
    BY <2>1 DEF TimesKept
  <2> QED BY <2>1, <2>2, <2>3, <2>4
<1> QED BY <1>1, <1>3, <1>4, <1>5

LEMMA DeltasTail ==
  ASSUME NEW S, NEW q \in Seq(S), q # << >>, NEW keys, NEW new, NEW left, NEW left1,
         \A y \in S : keys[y] \in Int /\ left[y] \in Int,
         Deltas(q, keys, left), left[q[1]] = 0,
         \A j \in 1 .. Len(q) : j # 1 => new[q[j]] = keys[q[j]],
         TimesKept(q, 1, left, left1)
  PROVE  Deltas(Tail(q), new, left1)
<1>1. /\ Len(Tail(q)) = Len(q) - 1 /\ Len(q) \in Nat
      /\ \A j \in 1 .. Len(q) - 1 : Tail(q)[j] = q[j + 1]
  OBVIOUS
<1> SUFFICES ASSUME NEW j \in 1 .. Len(Tail(q))
             PROVE  new[Tail(q)[j]] =
                      left1[Tail(q)[j]] - (IF j = 1 THEN 0 ELSE left1[Tail(q)[j - 1]])
  BY DEF Deltas
<1>2. Tail(q)[j] = q[j + 1] /\ j + 1 \in 1 .. Len(q) /\ j + 1 # 1 /\ j \in 1 .. Len(q)
  BY <1>1
<1>3. new[q[j + 1]] = keys[q[j + 1]] /\ left1[q[j + 1]] = left[q[j + 1]]
  BY <1>2 DEF TimesKept
<1>4. keys[q[j + 1]] = left[q[j + 1]] - left[q[j]]
  BY <1>2 DEF Deltas
<1>5. CASE j = 1
  BY <1>2, <1>3, <1>4, <1>5
<1>6. CASE j # 1
  <2>1. Tail(q)[j - 1] = q[j]
    BY <1>1, <1>6
  <2>2. left1[q[j]] = left[q[j]]
    BY <1>2, <1>6 DEF TimesKept
  <2> QED BY <1>2, <1>3, <1>4, <1>6, <2>1, <2>2
<1> QED BY <1>5, <1>6

-----------------------------------------------------------------------------
(* Steps that leave the sleepers, their times and their keys alone.        *)

SleepersKeep == \A p \in Pid : prstate[p] \in Sleeping => qkey'[p] = qkey[p]
NoNewWalk    == \A p \in Pid : pc'[p].at \in WalkPoints => pc'[p] = pc[p]

Quiet == UNCHANGED <<sleepv, waking>> /\ SleepersKeep /\ NoNewWalk

LEMMA DeltasAre == DeltaKeys <=> Deltas(sleepq, qkey, due)
BY DEF DeltaKeys, Deltas

LEMMA KeepDeltas ==
  ASSUME IInv, DeltaKeys, UNCHANGED sleepv, SleepersKeep
  PROVE  DeltaKeys' /\ (DueOrder => DueOrder')
<1>1. \A i \in 1 .. Len(sleepq) : qkey'[sleepq[i]] = qkey[sleepq[i]]
  BY SleepersListed DEF SleepersKeep
<1>2. DeltaKeys'
  BY <1>1 DEF DeltaKeys, sleepv
<1>3. DueOrder => DueOrder'
  BY DEF DueOrder, Left, sleepv
<1> QED BY <1>2, <1>3

LEMMA QuietSleep ==
  ASSUME IInv, SleepInv, Quiet
  PROVE  SleepInv'
<1>1. DeltaKeys' /\ DueOrder'
  BY KeepDeltas DEF SleepInv, Quiet
<1>2. WalkOK'
  BY DEF SleepInv, WalkOK, Quiet, NoNewWalk, TimeAt, sleepv
<1>3. WakingOK'
  BY DEF SleepInv, WakingOK, Quiet, sleepv
<1>4. NoneLate => NoneLate'
  BY DEF NoneLate, Quiet, NoNewWalk, sleepv
<1> QED BY <1>1, <1>2, <1>3, <1>4 DEF SleepInv

(* The scheduler changes no key but that of the running process, which     *)
(* does not sleep, and of the process it makes ready.                      *)
LEMMA ReschedKeys ==
  ASSUME NEW st, NEW list, NEW keys \in [Pid -> Int], NEW pre, Resched(st, list, keys, pre)
  PROVE  \A p \in Pid \ {currpid} : qkey'[p] = keys[p]
BY DEF Resched, Dispatch

LEMMA CurrentAwake == IInv => prstate[currpid] \notin Sleeping
BY DEF IInv, NoReceive, QueuesMatchStates, OneCurrent, Sleeping

LEMMA ReschedQuiet ==
  ASSUME IInv, NEW st, NEW list, NEW pre, Resched(st, list, qkey, pre)
  PROVE  SleepersKeep
BY ReschedKeys, CurrentAwake, KeysThere DEF SleepersKeep

LEMMA ReadyYesKeys ==
  ASSUME NEW p \in Pid, NEW keys \in [Pid -> Int], prprio \in [Pid -> Int], ReadyYes(p, keys)
  PROVE  \A q \in Pid \ {p, currpid} : qkey'[q] = keys[q]
<1>1. [keys EXCEPT ![p] = prprio[p]] \in [Pid -> Int]
  OBVIOUS
<1>2. \A q \in Pid \ {p, currpid} : [keys EXCEPT ![p] = prprio[p]][q] = keys[q]
  OBVIOUS
<1>3. PICK st, list, pre : Resched(st, list, [keys EXCEPT ![p] = prprio[p]], pre)
  BY DEF ReadyYes
<1> QED BY <1>1, <1>2, <1>3, ReschedKeys

LEMMA ReadyYesQuiet ==
  ASSUME IInv, NEW p \in Pid, prstate[p] \notin Sleeping, ReadyYes(p, qkey)
  PROVE  SleepersKeep
BY ReadyYesKeys, CurrentAwake, KeysThere DEF SleepersKeep, IInv, TypeOK

LEMMA ReadyNoQuiet ==
  ASSUME IInv, NEW p \in Pid, prstate[p] \notin Sleeping, ReadyNo(p)
  PROVE  SleepersKeep
BY DEF SleepersKeep, IInv, TypeOK, ReadyNo

LEMMA StillQuiet == UNCHANGED sched => SleepersKeep
BY DEF sched, SleepersKeep

LEMMA ReleaseQuiet ==
  ASSUME IInv, NEW s \in Sem, NEW resch \in BOOLEAN, Release(s, resch)
  PROVE  SleepersKeep
<1>1. CASE squeue[s] # << >> /\ Ready(Head(squeue[s]), resch)
  <2> DEFINE p == Head(squeue[s])
  <2>1. p \in Pid /\ prstate[p] = "WAIT"
    BY <1>1, WaiterFirst
  <2> QED BY <1>1, <2>1, ReadyYesQuiet, ReadyNoQuiet DEF Ready, ReadyAndResched, Sleeping
<1>2. CASE UNCHANGED sched
  BY <1>2, StillQuiet
<1> QED BY <1>1, <1>2 DEF Release

(* Points that a call moves to, but those of insertd.                      *)
LEMMA GotoQuiet ==
  ASSUME IInv, NEW point, point.at \notin WalkPoints, Goto(point)
  PROVE  NoNewWalk
BY DEF IInv, TypeOK, Goto, NoNewWalk

LEMMA StaysQuiet == UNCHANGED pc => NoNewWalk
BY DEF NoNewWalk

(* Nobody is inside insertd() when the running process is elsewhere.       *)
LEMMA NobodyWalks ==
  ASSUME IInv, pc[currpid].at \notin WalkPoints
  PROVE  \A p \in Pid : pc[p].at \notin WalkPoints
BY DEF IInv, PointsOK, HeldByCurrent, HeldPoints

LEMMA OrderSame ==
  ASSUME NEW S, NEW q \in Seq(S), NEW keys, NEW new, Descending(q, keys),
         \A y \in S : new[y] = keys[y]
  PROVE  Descending(q, new)
BY DEF Descending

(* unsleep() of the i-th sleeper p.                                        *)
LEMMA UnlinkSleep ==
  ASSUME IInv, SleepInv, NEW p \in Pid, NEW i \in 1 .. Len(sleepq), Unlink(p, i),
         \A q \in Pid \ {p, currpid} : qkey'[q] = UnsleptKeys(i)[q],
         ~waking', \A q \in Pid : pc'[q].at \notin WalkPoints, ~waking
  PROVE  SleepInv'
<1> DEFINE Z == WithState(prstate, Sleeping)
<1>1. /\ sleepq \in Seq(Pid) /\ qkey \in [Pid -> Int] /\ due \in [Pid -> Int]
      /\ currpid \in Pid /\ Enumerates(sleepq, Z) /\ Len(sleepq) \in Nat
  <2>1. sleepq \in Seq(Pid) /\ Enumerates(sleepq, Z)
    BY DEF IInv, TypeOK, QueuesMatchStates, SleepListed
  <2> QED BY <2>1, LenProperties DEF IInv, TypeOK
<1>2. /\ sleepq[i] = p /\ sleepq' = RemoveAt(sleepq, i)
      /\ \A q \in Pid : due'[q] = IF q = p THEN 0 ELSE due[q]
  BY <1>1 DEF Unlink
<1>3. \A j \in 1 .. Len(sleepq) : sleepq[j] \in Pid /\ sleepq[j] # currpid
  BY SleepersListed, CurrentAwake
<1>4. \A j, k \in 1 .. Len(sleepq) : sleepq[j] = sleepq[k] => j = k
  BY <1>1 DEF Enumerates
<1>5. TimesKept(sleepq, i, due, due')
  BY <1>2, <1>3, <1>4 DEF TimesKept
<1>6. KeysRemoved(sleepq, i, qkey, qkey')
  <2>1. ASSUME NEW j \in 1 .. Len(sleepq), j # i
        PROVE  qkey'[sleepq[j]] = UnsleptKeys(i)[sleepq[j]]
    BY <1>2, <1>3, <1>4, <2>1
  <2>2. i < Len(sleepq) => i + 1 \in 1 .. Len(sleepq) /\ i + 1 # i
    BY <1>1
  <2>3. i < Len(sleepq) => UnsleptKeys(i)[sleepq[i + 1]] = qkey[sleepq[i + 1]] + qkey[sleepq[i]]
    BY <1>1, <1>3, <2>2 DEF UnsleptKeys
  <2>4. ASSUME NEW j \in 1 .. Len(sleepq), j # i + 1
        PROVE  UnsleptKeys(i)[sleepq[j]] = qkey[sleepq[j]]
    <3>1. i < Len(sleepq) => sleepq[i + 1] # sleepq[j]
      BY <1>4, <2>2, <2>4
    <3> QED BY <1>1, <1>3, <3>1 DEF UnsleptKeys
  <2> QED BY <2>1, <2>2, <2>3, <2>4 DEF KeysRemoved
<1>7. DeltaKeys'
  <2>1. Deltas(sleepq, qkey, due)
    BY DeltasAre DEF SleepInv
  <2>2. \A y \in Pid : qkey[y] \in Int /\ due[y] \in Int
    BY <1>1
  <2>3. Deltas(RemoveAt(sleepq, i), qkey', due')
    BY <1>1, <1>5, <1>6, <2>1, <2>2, DeltasRemove
  <2> QED BY <1>2, <2>3 DEF DeltaKeys, Deltas
<1>8. sleepq' \in Seq(Z \ {p}) /\ Z \subseteq Pid
  <2>1. Z \subseteq Pid
    BY DEF WithState
  <2> HIDE DEF Z
  <2>2. Enumerates(RemoveAt(sleepq, i), Z \ {p})
    BY <1>1, <1>2, RemoveLists
  <2> QED BY <1>2, <2>1, <2>2 DEF Enumerates
<1> HIDE DEF Z
<1>9. DueOrder'
  <2>1. Descending(sleepq', Left)
    BY <1>1, <1>2, RemoveDescending DEF SleepInv, DueOrder
  <2>2. \A y \in Z \ {p} : Left'[y] = Left[y]
    BY <1>2, <1>8 DEF Left
  <2> HIDE DEF Left
  <2>3. Descending(sleepq', Left')
    BY <1>8, <2>1, <2>2, OrderSame
  <2> QED BY <2>3 DEF DueOrder
<1>10. ASSUME NoneLate PROVE NoneLate'
  <2>1. /\ Len(sleepq') = Len(sleepq) - 1
        /\ \A j \in 1 .. Len(sleepq) - 1 :
             sleepq'[j] = IF j < i THEN sleepq[j] ELSE sleepq[j + 1]
    BY <1>1, <1>2, RemoveAtPlaces
  <2>2. \A j \in 1 .. Len(sleepq) : j # i => due'[sleepq[j]] >= 1
    BY <1>5, <1>10 DEF NoneLate, TimesKept
  <2>3. ASSUME NEW j \in 1 .. Len(sleepq') PROVE due'[sleepq'[j]] >= 1
    <3> DEFINE k == IF j < i THEN j ELSE j + 1
    <3>0. Len(sleepq) \in Nat /\ i \in 1 .. Len(sleepq) /\ j \in 1 .. Len(sleepq) - 1
      BY <1>1, <2>1
    <3>1. j \in 1 .. Len(sleepq) - 1 /\ k \in 1 .. Len(sleepq) /\ k # i
      BY ONLY <3>0
    <3>2. sleepq'[j] = sleepq[k]
      BY <2>1, <3>1
    <3> HIDE DEF k
    <3> QED BY <2>2, <3>1, <3>2
  <2> QED BY <2>3 DEF NoneLate
<1> QED BY <1>7, <1>9, <1>10 DEF SleepInv, WalkOK, WakingOK

-----------------------------------------------------------------------------
(* One lemma for each group of actions.                                    *)

LEMMA SemaphoreSleep ==
  ASSUME IInv, SemaphoreCall \/ SignalNStep \/ SemDeleteStep \/ SemResetStep
  PROVE  Quiet
<1>1. UNCHANGED <<sleepv, waking>>
  BY DEF SemaphoreCall, Wait, Signal, SignalN, SemCreate, SemDelete, SemReset,
         SignalNStep, SemDeleteStep, SemResetStep
<1>2. SleepersKeep
  <2>1. ASSUME NEW l \in {"signaln", "semdelete", "semreset"}, Running(l)
        PROVE  pc[currpid].obj \in Sem
    <3>1. l \notin BootPoints \cup {"idle"}
      BY DEF BootPoints
    <3> QED BY <2>1, <3>1, RunningAt DEF IInv, PointsOK, LocalsOK
  <2>2. ASSUME NEW st, Resched(st, readylist, qkey, preempt) PROVE SleepersKeep
    BY <2>2, ReschedQuiet
  <2>3. \A s \in Sem, resch \in BOOLEAN : Release(s, resch) => SleepersKeep
    BY ReleaseQuiet
  <2>4. CASE SemaphoreCall
    BY <2>2, <2>3, <2>4, StillQuiet
    DEF SemaphoreCall, Wait, Signal, SignalN, SemCreate, SemDelete, SemReset
  <2>5. CASE SignalNStep
    BY <2>1, <2>2, <2>3, <2>5, StillQuiet DEF SignalNStep
  <2>6. CASE SemDeleteStep
    BY <2>1, <2>2, <2>3, <2>6 DEF SemDeleteStep
  <2>7. CASE SemResetStep
    BY <2>1, <2>2, <2>3, <2>7 DEF SemResetStep
  <2> QED BY <2>4, <2>5, <2>6, <2>7
<1>3. NoNewWalk
  <2>1. \/ UNCHANGED pc
        \/ Goto(UserCode)
        \/ \E l \in {"signaln", "semdelete", "semreset"} : \E o, n : Goto(Point(l, o, n))
    BY DEF SemaphoreCall, Wait, Signal, SignalN, SemCreate, SemDelete, SemReset,
           SignalNStep, SemDeleteStep, SemResetStep
  <2>2. ASSUME NEW l \in {"signaln", "semdelete", "semreset"}, NEW o, NEW n
        PROVE  Point(l, o, n).at \notin WalkPoints
    BY DEF Point, WalkPoints
  <2>3. UserCode.at \notin WalkPoints
    BY DEF UserCode, Point, WalkPoints
  <2> QED BY <2>1, <2>2, <2>3, GotoQuiet, StaysQuiet
<1> QED BY <1>1, <1>2, <1>3 DEF Quiet

(* send() of the running process, whose point is not one of insertd.       *)
LEMMA DeliverSleep ==
  ASSUME IInv, SleepInv, UserCall, NEW p \in Pid, NEW m, Deliver(p, m), UNCHANGED waking,
         \A q \in Pid : pc'[q].at \notin WalkPoints
  PROVE  SleepInv'
<1>1. ~waking /\ NoNewWalk
  BY DEF UserCall, Running, NoNewWalk
<1>2. CASE /\ UNCHANGED sleepv
           /\ UNCHANGED sched \/ (prstate[p] = "RECV" /\ ReadyYes(p, qkey))
  BY <1>1, <1>2, ReadyYesQuiet, StillQuiet, QuietSleep DEF Quiet, Sleeping
<1>3. CASE \E i \in 1 .. Len(sleepq) : Unlink(p, i) /\ ReadyYes(p, UnsleptKeys(i))
  <2>1. PICK i \in 1 .. Len(sleepq) : Unlink(p, i) /\ ReadyYes(p, UnsleptKeys(i))
    BY <1>3
  <2>2. UnsleptKeys(i) \in [Pid -> Int] /\ prprio \in [Pid -> Int]
    BY UnsleptSame DEF IInv, TypeOK
  <2>3. \A q \in Pid \ {p, currpid} : qkey'[q] = UnsleptKeys(i)[q]
    BY <2>1, <2>2, ReadyYesKeys
  <2> QED BY <1>1, <2>1, <2>3, UnlinkSleep
<1> QED BY <1>2, <1>3 DEF Deliver

(* About to sleep for d ticks.                                             *)
LEMMA StartWalk ==
  ASSUME IInv, SleepInv, UserCall, NEW l \in WalkPoints, NEW d \in Nat, d = 0 => 0 \in Delays,
         Goto(Point(l, 0, d)), due' = [due EXCEPT ![currpid] = d],
         UNCHANGED <<sched, sleepq, waking>>
  PROVE  SleepInv'
<1>1. /\ currpid \in Pid /\ ~waking /\ \A p \in Pid : pc[p].at \notin WalkPoints
      /\ prstate[currpid] \notin Sleeping
  BY UserRuns, CurrentAwake DEF HeldPoints
<1>2. \A p \in Pid : due'[p] = IF p = currpid THEN d ELSE due[p]
  BY DEF IInv, TypeOK
<1>3. \A p \in Pid : pc'[p] = IF p = currpid THEN Point(l, 0, d) ELSE pc[p]
  BY DEF IInv, TypeOK, Goto
<1>4. \A i \in 1 .. Len(sleepq) : sleepq[i] \in Pid /\ due'[sleepq[i]] = due[sleepq[i]]
  BY <1>1, <1>2, SleepersListed
<1>5. sleepq \in Seq(Pid) /\ Len(sleepq) \in Nat
  <2>1. sleepq \in Seq(Pid)
    BY DEF IInv, TypeOK
  <2> QED BY <2>1, LenProperties
<1>6. DeltaKeys'
  <2>1. \A i \in 1 .. Len(sleepq) : i # 1 => due'[sleepq[i - 1]] = due[sleepq[i - 1]]
    BY <1>4, <1>5
  <2> QED BY <1>4, <2>1 DEF SleepInv, DeltaKeys, sched
<1>7. DueOrder'
  <2>1. \A i \in 1 .. Len(sleepq) : Left'[sleepq[i]] = Left[sleepq[i]]
    BY <1>4 DEF Left
  <2> HIDE DEF Left
  <2> QED BY <2>1 DEF SleepInv, DueOrder, Descending
<1>8. WalkOK' /\ WakingOK'
  BY <1>1, <1>2, <1>3 DEF WalkOK, WakingOK, TimeAt, Point
<1>9. 0 \notin Delays /\ NoneLate => NoneLate'
  BY <1>1, <1>2, <1>3, <1>4 DEF NoneLate
<1> QED BY <1>6, <1>7, <1>8, <1>9 DEF SleepInv

LEMMA SleepMsSleep ==
  ASSUME IInv, SleepInv, NEW d \in Delays \cup {0}, SleepMs(d)
  PROVE  SleepInv'
<1>1. CASE d = 0
  BY <1>1, ReschedQuiet, StaysQuiet, QuietSleep DEF SleepMs, Quiet, sleepv
<1>2. CASE d > 0
  <2>1. d \in Nat /\ "sleepms" \in WalkPoints
    BY DelaysAssumption DEF WalkPoints
  <2> QED BY <1>2, <2>1, StartWalk DEF SleepMs
<1> QED BY <1>1, <1>2 DEF SleepMs

LEMMA MessageSleep ==
  ASSUME IInv, SleepInv, MessageCall
  PROVE  SleepInv'
<1>1. UserCall /\ UNCHANGED waking
  BY DEF MessageCall, Send, Receive, RecvClr, RecvTime
<1>2. \A p \in Pid : pc[p].at \notin WalkPoints
  BY <1>1, UserRuns DEF HeldPoints
<1>3. ASSUME NEW p \in Pid, NEW m \in Msgs, Send(p, m) PROVE SleepInv'
  BY <1>1, <1>2, <1>3, DeliverSleep DEF Send
<1>4. ASSUME UNCHANGED <<sched, sleepv>>, \/ UNCHANGED pc
             \/ Goto(Point("rectim", 0, 0))
      PROVE  SleepInv'
  <2>1. NoNewWalk
    <3>1. Point("rectim", 0, 0).at \notin WalkPoints
      BY DEF Point, WalkPoints
    <3> QED BY <1>4, <3>1, GotoQuiet, StaysQuiet
  <2> QED BY <1>1, <1>4, <2>1, StillQuiet, QuietSleep DEF Quiet
<1>5. ASSUME NEW d \in Delays, RecvTime(d) PROVE SleepInv'
  <2>1. d \in Nat /\ "recvtime" \in WalkPoints
    BY DelaysAssumption DEF WalkPoints
  <2>2. CASE Goto(Point("recvtime", 0, d)) /\ due' = [due EXCEPT ![currpid] = d]
    BY <1>1, <1>5, <2>1, <2>2, StartWalk DEF RecvTime
  <2>3. CASE Goto(Point("rectim", 0, 0)) /\ UNCHANGED due
    BY <1>4, <1>5, <2>3 DEF RecvTime, sleepv
  <2> QED BY <1>5, <2>2, <2>3 DEF RecvTime
<1>6. CASE RecvClr
  BY <1>4, <1>6 DEF RecvClr
<1> QED BY <1>3, <1>5, <1>6 DEF MessageCall, IInv, NoReceive

LEMMA ReceiveSleep ==
  ASSUME IInv, RecvTimeTake
  PROVE  Quiet
<1>1. UNCHANGED <<sched, sleepv, waking>> /\ Goto(UserCode)
  BY DEF RecvTimeTake
<1>2. UserCode.at \notin WalkPoints
  BY DEF UserCode, Point, WalkPoints
<1>3. SleepersKeep /\ NoNewWalk
  BY <1>1, <1>2, StillQuiet, GotoQuiet
<1> QED BY <1>1, <1>3 DEF Quiet

(* insertd(): a node passed, and the end of the walk.                      *)
LEMMA InsertdWalkSleep ==
  ASSUME IInv, SleepInv, InsertdWalk
  PROVE  SleepInv'
<1> DEFINE here == pc[currpid]
           i    == here.obj + 1
           n    == here.num - qkey[sleepq[i]]
<1>1. /\ Inserting /\ UNCHANGED <<sched, sleepv, waking>>
      /\ i <= Len(sleepq) /\ WalksOn(qkey[sleepq[i]], here.num) /\ Goto(Point(here.at, i, n))
  BY DEF InsertdWalk
<1>2. /\ ~waking /\ currpid \in Pid /\ here.at \in WalkPoints
      /\ here.obj \in 0 .. Len(sleepq) /\ here.num \in Int /\ Len(sleepq) \in Nat
  BY <1>1, InsertingRuns
<1>3. i \in 1 .. Len(sleepq) /\ i # 0 /\ i - 1 = here.obj /\ (i = 1 <=> here.obj = 0)
  BY <1>1, <1>2
<1>4. \A p \in Pid : pc'[p] = IF p = currpid THEN Point(here.at, i, n) ELSE pc[p]
  BY <1>1 DEF IInv, TypeOK, Goto
<1>5. \A p \in Pid : p # currpid => pc[p].at \notin WalkPoints
  BY DEF IInv, PointsOK, HeldByCurrent, HeldPoints
<1>6. /\ qkey[sleepq[i]] = due[sleepq[i]] - TimeAt(here.obj)
      /\ here.num = due[currpid] - TimeAt(here.obj)
  BY <1>2, <1>3 DEF SleepInv, DeltaKeys, WalkOK, TimeAt
<1>7. /\ due[sleepq[i]] \in Int /\ due[currpid] \in Int /\ TimeAt(here.obj) \in Int
      /\ qkey[sleepq[i]] \in Int
  <2>1. sleepq[i] \in Pid /\ (here.obj # 0 => sleepq[here.obj] \in Pid)
    BY <1>2, <1>3, SleepersListed
  <2>2. due \in [Pid -> Int] /\ qkey \in [Pid -> Int]
    BY DEF IInv, TypeOK
  <2>3. TimeAt(here.obj) \in Int
    BY <2>1, <2>2 DEF TimeAt
  <2> QED BY <1>2, <2>1, <2>2, <2>3
<1>8. n = due[currpid] - TimeAt(i) /\ n >= 0
  <2>1. TimeAt(i) = due[sleepq[i]]
    BY <1>3 DEF TimeAt
  <2>2. qkey[sleepq[i]] <= here.num
    BY <1>1 DEF WalksOn
  <2>3. here.num \in Int
    BY <1>2
  <2> HIDE DEF i, here
  <2>4. here.num - qkey[sleepq[i]] = due[currpid] - due[sleepq[i]]
    BY <1>6, <1>7, <2>3
  <2>5. here.num - qkey[sleepq[i]] >= 0
    BY <1>7, <2>2, <2>3
  <2> QED BY <2>1, <2>4, <2>5
<1> HIDE DEF i, n, here
<1>9. UNCHANGED <<sleepq, due, qkey>>
  BY <1>1 DEF sleepv, sched
<1>10. WalkOK'
  BY <1>2, <1>4, <1>5, <1>8, <1>9 DEF WalkOK, TimeAt, Point
<1>11. DeltaKeys' /\ DueOrder' /\ WakingOK'
  BY <1>1, <1>2, <1>9 DEF SleepInv, DeltaKeys, DueOrder, Left, WakingOK
<1>12. NoneLate => NoneLate'
  BY <1>1, <1>2, <1>4, <1>5, <1>9 DEF NoneLate, here
<1> QED BY <1>10, <1>11, <1>12 DEF SleepInv

LEMMA InsertdLinkSleep ==
  ASSUME IInv, SleepInv, InsertdLink
  PROVE  SleepInv'
<1> DEFINE here == pc[currpid]
           i    == here.obj + 1
           keys == InsertedKeys(i, here.num)
           Z    == WithState(prstate, Sleeping)
<1>1. /\ Inserting /\ UNCHANGED <<due, waking>>
      /\ i <= Len(sleepq) => ~WalksOn(qkey[sleepq[i]], here.num)
      /\ sleepq' = InsertAt(sleepq, i, currpid)
  BY DEF InsertdLink
<1>2. /\ ~waking /\ currpid \in Pid /\ here.at \in WalkPoints /\ prstate[currpid] = "CURR"
      /\ here.obj \in 0 .. Len(sleepq) /\ here.num \in Int
      /\ sleepq \in Seq(Pid) /\ Len(sleepq) \in Nat
      /\ qkey \in [Pid -> Int] /\ due \in [Pid -> Int]
  BY <1>1, InsertingRuns DEF TypeOK
<1>3. qkey' = keys
  <2> DEFINE state == IF here.at = "sleepms" THEN "SLEEP" ELSE "RECTIM"
  <2>1. Resched([prstate EXCEPT ![currpid] = state], readylist, keys, preempt)
    BY DEF InsertdLink
  <2>2. [prstate EXCEPT ![currpid] = state][currpid] # "CURR"
    BY <1>2 DEF IInv, TypeOK
  <2> HIDE DEF state, keys
  <2> QED BY <2>1, <2>2 DEF Resched, Dispatch
<1>4. /\ i \in 1 .. Len(sleepq) + 1 /\ i - 1 = here.obj
      /\ \A j \in 1 .. Len(sleepq) : sleepq[j] \in Pid /\ sleepq[j] # currpid
  <2>1. i \in 1 .. Len(sleepq) + 1 /\ i - 1 = here.obj
    <3>1. here.obj \in 0 .. Len(sleepq) /\ Len(sleepq) \in Nat
      BY <1>2
    <3> QED BY <3>1
  <2>2. \A j \in 1 .. Len(sleepq) : sleepq[j] \in Pid /\ sleepq[j] # currpid
    BY SleepersListed, CurrentAwake
  <2> QED BY <2>1, <2>2
<1>5. Enumerates(sleepq, Z) /\ currpid \notin Z /\ Z \subseteq Pid
  BY <1>2 DEF IInv, QueuesMatchStates, SleepListed, WithState, Sleeping
<1>6. \A j, k \in 1 .. Len(sleepq) : sleepq[j] = sleepq[k] => j = k
  BY <1>5 DEF Enumerates
<1>7. here.num = due[currpid] - TimeAt(here.obj) /\ here.num >= 0
  BY <1>2 DEF SleepInv, WalkOK
<1>8. /\ keys \in [Pid -> Int] /\ keys[currpid] = here.num
      /\ i <= Len(sleepq) => keys[sleepq[i]] = qkey[sleepq[i]] - here.num
      /\ \A j \in 1 .. Len(sleepq) : j # i => keys[sleepq[j]] = qkey[sleepq[j]]
  <2>1. CASE i <= Len(sleepq)
    <3>1. i \in 1 .. Len(sleepq)
      BY <1>2, <1>4, <2>1
    <3>2. keys = [qkey EXCEPT ![currpid] = here.num, ![sleepq[i]] = @ - here.num]
      BY <2>1 DEF InsertedKeys
    <3>3. sleepq[i] \in Pid /\ sleepq[i] # currpid
      BY <1>4, <3>1
    <3>4. \A j \in 1 .. Len(sleepq) : j # i => sleepq[j] # sleepq[i]
      BY <1>6, <3>1
    <3>5. currpid \in Pid /\ here.num \in Int /\ qkey \in [Pid -> Int]
      BY <1>2
    <3> HIDE DEF keys, i, here
    <3>6. /\ keys \in [Pid -> Int] /\ keys[currpid] = here.num
          /\ keys[sleepq[i]] = qkey[sleepq[i]] - here.num
          /\ \A q \in Pid : q # currpid /\ q # sleepq[i] => keys[q] = qkey[q]
      BY <3>2, <3>3, <3>5
    <3> QED BY <1>4, <3>4, <3>6
  <2>2. CASE ~(i <= Len(sleepq))
    <3>1. keys = [qkey EXCEPT ![currpid] = here.num]
      BY <2>2 DEF InsertedKeys
    <3> HIDE DEF keys, i, here
    <3> QED BY <1>2, <1>4, <2>2, <3>1
  <2> QED BY <2>1, <2>2
<1> HIDE DEF keys, Z, i, here
<1>9. DeltaKeys'
  <2>1. TimeAt(here.obj) = IF i = 1 THEN 0 ELSE due[sleepq[i - 1]]
    BY <1>2, <1>4 DEF TimeAt
  <2>2. KeysInserted(sleepq, i, currpid, qkey, keys)
    BY <1>8 DEF KeysInserted
  <2>3. /\ \A y \in Pid : qkey[y] \in Int /\ due[y] \in Int
        /\ keys[currpid] \in Int /\ Deltas(sleepq, qkey, due)
    BY <1>2, <1>8, DeltasAre DEF SleepInv
  <2>4. keys[currpid] = due[currpid] - (IF i = 1 THEN 0 ELSE due[sleepq[i - 1]])
    BY <1>7, <1>8, <2>1
  <2>5. Deltas(InsertAt(sleepq, i, currpid), keys, due)
    BY <1>2, <1>4, <2>2, <2>3, <2>4, DeltasInsert
  <2> QED BY <1>1, <1>3, <2>5 DEF DeltaKeys, Deltas
<1>10. IsInsertPos(sleepq, Left, Left[currpid], i)
  <2>1. \A p \in Pid : Left[p] = -due[p]
    BY DEF Left
  <2>2. ASSUME NEW j \in 1 .. i - 1 PROVE Left[sleepq[j]] >= Left[currpid]
    <3>0. Len(sleepq) \in Nat /\ here.obj \in 0 .. Len(sleepq) /\ i = here.obj + 1
      BY <1>2, <1>4
    <3>1. j \in 1 .. Len(sleepq) /\ here.obj \in 1 .. Len(sleepq) /\ j <= here.obj /\ here.obj # 0
      BY ONLY <3>0, <2>2
    <3>2. due[sleepq[here.obj]] <= due[currpid]
      <4>1. here.num = due[currpid] - due[sleepq[here.obj]]
        BY <1>7, <3>1 DEF TimeAt
      <4>2. due[currpid] \in Int /\ due[sleepq[here.obj]] \in Int
        BY <1>2, <1>4, <3>1
      <4> QED BY <1>7, <4>1, <4>2
    <3>3. CASE j = here.obj
      <4>1. sleepq[here.obj] \in Pid /\ due[currpid] \in Int /\ due[sleepq[here.obj]] \in Int
        BY <1>2, <1>4, <3>1
      <4> QED BY <1>2, <2>1, <3>2, <3>3, <4>1, SMTT(20)
    <3>4. CASE j < here.obj
      <4>1. Left[sleepq[j]] >= Left[sleepq[here.obj]]
        BY <3>1, <3>4 DEF SleepInv, DueOrder, Descending
      <4>2. sleepq[j] \in Pid /\ sleepq[here.obj] \in Pid
        BY <1>4, <3>1
      <4>3. due[sleepq[j]] \in Int /\ due[sleepq[here.obj]] \in Int /\ due[currpid] \in Int
        BY <1>2, <4>2
      <4>4. Left[sleepq[j]] = -due[sleepq[j]] /\ Left[sleepq[here.obj]] = -due[sleepq[here.obj]]
            /\ Left[currpid] = -due[currpid]
        BY <1>2, <2>1, <4>2
      <4> QED BY <3>2, <4>1, <4>3, <4>4
    <3> QED BY <3>1, <3>3, <3>4
  <2>3. i <= Len(sleepq) => ~(Left[sleepq[i]] >= Left[currpid])
    <3> SUFFICES ASSUME i <= Len(sleepq) PROVE ~(Left[sleepq[i]] >= Left[currpid])
      OBVIOUS
    <3>1. i \in 1 .. Len(sleepq) /\ sleepq[i] \in Pid
      BY <1>2, <1>4
    <3>2. qkey[sleepq[i]] = due[sleepq[i]] - TimeAt(here.obj)
      BY <1>2, <1>4, <3>1, SMTT(20) DEF SleepInv, DeltaKeys, TimeAt
    <3>3. ~(qkey[sleepq[i]] <= here.num) /\ qkey[sleepq[i]] \in Int
      BY <1>1, <1>2, <3>1 DEF WalksOn
    <3>4. TimeAt(here.obj) \in Int
      BY <1>2, <1>4 DEF TimeAt
    <3>5. due[sleepq[i]] > due[currpid]
      BY <1>2, <1>7, <3>1, <3>2, <3>3, <3>4, SMTT(20)
    <3> QED BY <1>2, <2>1, <3>1, <3>5, SMTT(20)
  <2> QED BY <1>4, <2>2, <2>3 DEF IsInsertPos, WalksPast
<1>11. DueOrder'
  <2>1. \A y \in Z \cup {currpid} : Left[y] \in Int
    BY <1>2, <1>5 DEF Left
  <2> HIDE DEF Left
  <2>2. Descending(sleepq, Left)
    BY DEF SleepInv, DueOrder
  <2>3. Descending(InsertAt(sleepq, i, currpid), Left)
    BY <1>5, <1>10, <2>1, <2>2, InsertDescending
  <2>4. Left' = Left
    BY <1>1 DEF Left
  <2> QED BY <1>1, <2>3, <2>4 DEF DueOrder
<1>12. \A p \in Pid : pc'[p].at \notin WalkPoints
  <2>1. /\ UserCode.at \notin WalkPoints /\ Point("rectim", 0, 0).at \notin WalkPoints
        /\ Goto(UserCode) \/ Goto(Point("rectim", 0, 0))
    BY DEF InsertdLink, UserCode, Point, WalkPoints
  <2>2. \A p \in Pid : p # currpid => pc[p].at \notin WalkPoints
    BY DEF IInv, PointsOK, HeldByCurrent, HeldPoints
  <2> QED BY <2>1, <2>2 DEF IInv, TypeOK, Goto
<1>13. ASSUME NoneLate PROVE NoneLate'
  <2>1. \A j \in 1 .. Len(sleepq) : due[sleepq[j]] >= 1
    BY <1>2, <1>13 DEF NoneLate
  <2>2. due[currpid] >= 1
    BY <1>2, <1>13 DEF NoneLate, here
  <2>3. /\ Len(sleepq') = Len(sleepq) + 1
        /\ \A j \in 1 .. Len(sleepq) + 1 :
             sleepq'[j] = IF j < i THEN sleepq[j] ELSE IF j = i THEN currpid ELSE sleepq[j - 1]
    <3>1. sleepq \in Seq(Pid) /\ currpid \in Pid /\ i \in 1 .. Len(sleepq) + 1
      BY <1>2, <1>4
    <3>2. sleepq' = InsertAt(sleepq, i, currpid)
      BY <1>1
    <3> QED BY ONLY <3>1, <3>2, InsertAtPlaces, SMTT(20)
  <2>4. ASSUME NEW j \in 1 .. Len(sleepq') PROVE due'[sleepq'[j]] >= 1
    <3>1. CASE j < i
      <4>1. j \in 1 .. Len(sleepq) /\ sleepq'[j] = sleepq[j]
        BY <1>2, <1>4, <2>3, <3>1, SMTT(20)
      <4> QED BY <1>1, <2>1, <4>1
    <3>2. CASE j = i
      BY <1>1, <1>2, <1>4, <2>2, <2>3, <3>2
    <3>3. CASE j > i
      <4>1. j - 1 \in 1 .. Len(sleepq) /\ sleepq'[j] = sleepq[j - 1]
        BY <1>2, <1>4, <2>3, <3>3
      <4> QED BY <1>1, <2>1, <4>1
    <3> QED BY <1>2, <1>4, <2>3, <3>1, <3>2, <3>3
  <2> QED BY <1>12, <2>4 DEF NoneLate
<1> QED BY <1>1, <1>2, <1>9, <1>11, <1>12, <1>13 DEF SleepInv, WalkOK, WakingOK

(* clkhandler(): every sleeper's time and the first key go down by one.    *)
LEMMA TickSleep ==
  ASSUME IInv, SleepInv, Tick
  PROVE  SleepInv'
<1>1. ~waking /\ UNCHANGED <<sleepq, pc>> /\ pc[currpid].at \notin HeldPoints
  BY TickInPlace DEF Tick
<1>2. \A p \in Pid : pc[p].at \notin WalkPoints
  BY <1>1, NobodyWalks DEF HeldPoints
<1>3. CASE sleepq = << >>
  <2>1. UNCHANGED <<due, waking>> /\ (UNCHANGED qkey \/ Resched(prstate, readylist, qkey, QUANTUM))
    BY <1>3 DEF Tick, CountSlice
  <2>2. Quiet
    BY <1>1, <2>1, ReschedQuiet, StaysQuiet DEF Quiet, SleepersKeep, sleepv
  <2> QED BY <2>2, QuietSleep
<1>4. CASE sleepq # << >>
  <2> DEFINE h == Head(sleepq)
  <2>1. /\ qkey' = [qkey EXCEPT ![h] = @ - 1]
        /\ due' = [p \in Pid |-> IF p \in ToSet(sleepq) THEN due[p] - 1 ELSE due[p]]
        /\ waking' = (qkey[h] - 1 = 0)
    BY <1>4 DEF Tick
  <2>2. /\ sleepq \in Seq(Pid) /\ h = sleepq[1] /\ 1 \in 1 .. Len(sleepq) /\ Len(sleepq) \in Nat
    <3>1. sleepq \in Seq(Pid)
      BY DEF IInv, TypeOK
    <3>2. Len(sleepq) \in Nat /\ Len(sleepq) # 0
      BY <1>4, <3>1, EmptySeq, LenProperties
    <3> QED BY <1>4, <3>1, <3>2
  <2>3. qkey \in [Pid -> Int] /\ due \in [Pid -> Int]
    BY DEF IInv, TypeOK
  <2>4. \A i \in 1 .. Len(sleepq) : sleepq[i] \in Pid /\ due'[sleepq[i]] = due[sleepq[i]] - 1
    <3>1. ASSUME NEW i \in 1 .. Len(sleepq) PROVE sleepq[i] \in Pid /\ sleepq[i] \in ToSet(sleepq)
      BY <2>2, <3>1 DEF ToSet
    <3> QED BY <2>1, <3>1
  <2>5. \A i, k \in 1 .. Len(sleepq) : sleepq[i] = sleepq[k] => i = k
    BY DEF IInv, QueuesMatchStates, SleepListed, Enumerates
  <2> HIDE DEF h
  <2>6. /\ qkey'[sleepq[1]] = qkey[sleepq[1]] - 1
        /\ \A i \in 1 .. Len(sleepq) : i # 1 => qkey'[sleepq[i]] = qkey[sleepq[i]]
    BY <2>1, <2>2, <2>3, <2>4, <2>5
  <2>7. DeltaKeys'
    <3> SUFFICES ASSUME NEW i \in 1 .. Len(sleepq)
                 PROVE  qkey'[sleepq[i]] =
                          due'[sleepq[i]] - (IF i = 1 THEN 0 ELSE due'[sleepq[i - 1]])
      BY <1>1 DEF DeltaKeys
    <3>1. qkey[sleepq[i]] = due[sleepq[i]] - (IF i = 1 THEN 0 ELSE due[sleepq[i - 1]])
      BY DEF SleepInv, DeltaKeys
    <3>2. due[sleepq[i]] \in Int /\ due'[sleepq[i]] = due[sleepq[i]] - 1
      BY <2>3, <2>4
    <3>3. CASE i = 1
      BY <2>6, <3>1, <3>2, <3>3
    <3>4. CASE i # 1
      <4>1. i - 1 \in 1 .. Len(sleepq)
        BY <2>2, <3>4
      <4>2. due[sleepq[i - 1]] \in Int /\ due'[sleepq[i - 1]] = due[sleepq[i - 1]] - 1
        BY <2>3, <2>4, <4>1
      <4>3. qkey'[sleepq[i]] = qkey[sleepq[i]]
        BY <2>6, <3>4
      <4> QED BY <3>1, <3>2, <3>4, <4>2, <4>3
    <3> QED BY <3>3, <3>4
  <2>8. DueOrder'
    <3> SUFFICES ASSUME NEW i \in 1 .. Len(sleepq), NEW j \in 1 .. Len(sleepq), i < j
                 PROVE  Left'[sleepq[i]] >= Left'[sleepq[j]]
      BY <1>1 DEF DueOrder, Descending
    <3>1. /\ sleepq[i] \in Pid /\ due[sleepq[i]] \in Int /\ due'[sleepq[i]] = due[sleepq[i]] - 1
          /\ sleepq[j] \in Pid /\ due[sleepq[j]] \in Int /\ due'[sleepq[j]] = due[sleepq[j]] - 1
      BY <2>3, <2>4
    <3>2. Left[sleepq[i]] >= Left[sleepq[j]]
      BY DEF SleepInv, DueOrder, Descending
    <3> QED BY <3>1, <3>2, SMTT(20) DEF Left
  <2>9. qkey[h] = due[h] /\ due[h] \in Int
    BY <2>2, <2>3, <2>4 DEF SleepInv, DeltaKeys
  <2>10. waking' <=> qkey[h] = 1
    <3>1. qkey[h] - 1 = 0 <=> qkey[h] = 1
      BY <2>9
    <3>2. waking' <=> qkey[h] - 1 = 0
      BY <2>1
    <3> QED BY <3>1, <3>2
  <2>11. WakingOK'
    <3>1. Head(sleepq') = h /\ due'[h] = due[h] - 1
      BY <1>1, <2>2, <2>4 DEF h
    <3>2. waking' => due'[h] = 0
      BY <2>9, <2>10, <3>1
    <3> QED BY <3>1, <3>2 DEF WakingOK
  <2>12. ASSUME NoneLate PROVE NoneLate'
    <3>1. \A i \in 1 .. Len(sleepq) : due[sleepq[i]] >= 1
      BY <1>1, <2>12 DEF NoneLate
    <3>2. ASSUME ~waking', NEW i \in 1 .. Len(sleepq) PROVE due'[sleepq[i]] >= 1
      <4>1. due[h] # 1 /\ due[h] >= 1
        BY <2>2, <2>9, <2>10, <3>1, <3>2
      <4>2. due[sleepq[i]] \in Int /\ due'[sleepq[i]] = due[sleepq[i]] - 1
        BY <2>3, <2>4
      <4>3. CASE i = 1
        BY <2>2, <4>1, <4>2, <4>3
      <4>4. CASE i # 1
        <5>1. Left[sleepq[1]] >= Left[sleepq[i]]
          BY <2>2, <4>4 DEF SleepInv, DueOrder, Descending
        <5>2. Left[sleepq[1]] = -due[sleepq[1]] /\ Left[sleepq[i]] = -due[sleepq[i]]
          BY <2>2, <2>4 DEF Left
        <5>3. due[sleepq[i]] >= due[h]
          BY <2>2, <2>9, <4>2, <5>1, <5>2
        <5> QED BY <2>9, <4>1, <4>2, <5>3
      <4> QED BY <4>3, <4>4
    <3> QED BY <1>1, <1>2, <3>2 DEF NoneLate
  <2>13. WalkOK'
    BY <1>1, <1>2 DEF WalkOK
  <2> QED BY <2>7, <2>8, <2>11, <2>12, <2>13 DEF SleepInv
<1> QED BY <1>3, <1>4

(* wakeup(): an expired first sleeper has no time left, so that the key of *)
(* the next one need not be adjusted.                                      *)
LEMMA FirstExpired ==
  ASSUME IInv, SleepInv, waking, sleepq # << >>, Expired(qkey[Head(sleepq)])
  PROVE  /\ Head(sleepq) = sleepq[1] /\ 1 \in 1 .. Len(sleepq)
         /\ qkey[Head(sleepq)] = 0 /\ due[Head(sleepq)] = 0
<1>1. sleepq \in Seq(Pid) /\ due \in [Pid -> Int]
  BY DEF IInv, TypeOK
<1>2. Head(sleepq) = sleepq[1] /\ 1 \in 1 .. Len(sleepq)
  BY <1>1
<1>3. qkey[sleepq[1]] = due[sleepq[1]]
  <2>1. due[sleepq[1]] \in Int
    BY <1>1, <1>2, SleepersListed
  <2> QED BY <1>2, <2>1 DEF SleepInv, DeltaKeys
<1>4. due[sleepq[1]] >= 0 /\ due[sleepq[1]] \in Int
  BY <1>1, <1>2, SleepersListed DEF SleepInv, WakingOK
<1> QED BY <1>2, <1>3, <1>4 DEF Expired

LEMMA WakeupReadySleep ==
  ASSUME IInv, SleepInv, WakeupReady
  PROVE  SleepInv'
<1> DEFINE h == Head(sleepq)
           Z == WithState(prstate, Sleeping)
<1>1. /\ waking /\ waking' /\ sleepq # << >> /\ Expired(qkey[h])
      /\ sleepq' = Tail(sleepq) /\ due' = [due EXCEPT ![h] = 0] /\ UNCHANGED pc
      /\ qkey' = [qkey EXCEPT ![h] = prprio[h]]
  BY DEF WakeupReady, ReadyNo
<1>2. h = sleepq[1] /\ 1 \in 1 .. Len(sleepq) /\ due[h] = 0
  BY <1>1, FirstExpired
<1>3. /\ sleepq \in Seq(Pid) /\ Len(sleepq) \in Nat /\ Enumerates(sleepq, Z) /\ Z \subseteq Pid
      /\ qkey \in [Pid -> Int] /\ due \in [Pid -> Int]
  <2>1. sleepq \in Seq(Pid)
    BY DEF IInv, TypeOK
  <2> QED BY <2>1, LenProperties
      DEF IInv, TypeOK, QueuesMatchStates, SleepListed, WithState
<1>4. \A i \in 1 .. Len(sleepq) : sleepq[i] \in Pid /\ (i # 1 => sleepq[i] # h)
  <2>1. \A i, k \in 1 .. Len(sleepq) : sleepq[i] = sleepq[k] => i = k
    BY <1>3 DEF Enumerates
  <2>2. \A i \in 1 .. Len(sleepq) : sleepq[i] \in Pid
    BY SleepersListed
  <2> HIDE DEF h
  <2> QED BY <1>2, <2>1, <2>2
<1> HIDE DEF h, Z
<1>5. due' = due
  BY <1>1, <1>2, <1>3
<1>6. DeltaKeys'
  <2>1. \A j \in 1 .. Len(sleepq) : j # 1 => qkey'[sleepq[j]] = qkey[sleepq[j]]
    BY <1>1, <1>3, <1>4
  <2>2. TimesKept(sleepq, 1, due, due')
    BY <1>5 DEF TimesKept
  <2>3. /\ \A y \in Pid : qkey[y] \in Int /\ due[y] \in Int
        /\ Deltas(sleepq, qkey, due) /\ due[sleepq[1]] = 0
    BY <1>2, <1>3, DeltasAre DEF SleepInv
  <2>4. Deltas(Tail(sleepq), qkey', due')
    BY <1>1, <1>3, <2>1, <2>2, <2>3, DeltasTail
  <2> QED BY <1>1, <2>4 DEF DeltaKeys, Deltas
<1>7. \A y \in Z : Left[y] \in Int
  BY <1>3 DEF Left
<1>8. DueOrder' /\ \A y \in Z : Left[y] <= Left[h]
  <2>1. Descending(sleepq, Left) /\ Left' = Left
    BY <1>5 DEF SleepInv, DueOrder, Left
  <2> HIDE DEF Left
  <2>2. Descending(Tail(sleepq), Left) /\ \A y \in Z : Left[y] <= Left[Head(sleepq)]
    BY <1>1, <1>3, <1>7, <2>1, TailDescending
  <2> QED BY <1>1, <2>1, <2>2 DEF DueOrder, h
<1>9. WakingOK'
  <2> SUFFICES ASSUME Tail(sleepq) # << >> PROVE due[Head(Tail(sleepq))] >= 0
    BY <1>1, <1>5 DEF WakingOK
  <2>1. Head(Tail(sleepq)) = sleepq[2] /\ 2 \in 1 .. Len(sleepq)
    BY <1>1, <1>3
  <2>2. sleepq[2] \in Pid /\ h \in Pid /\ prstate[sleepq[2]] \in Sleeping
    BY <1>2, <1>4, <2>1, SleepersListed
  <2>3. Left[sleepq[2]] <= Left[h]
    BY <1>8, <2>2 DEF Z, WithState
  <2>4. Left[sleepq[2]] = -due[sleepq[2]] /\ Left[h] = -due[h] /\ due[sleepq[2]] \in Int
    BY <1>3, <2>2 DEF Left
  <2> QED BY <1>2, <2>1, <2>3, <2>4
<1>10. WalkOK' /\ (NoneLate => NoneLate')
  <2>1. \A p \in Pid : pc[p].at \notin WalkPoints
    BY <1>1 DEF IInv, PointsOK, HeldByCurrent, HeldPoints
  <2> QED BY <1>1, <2>1 DEF WalkOK, NoneLate
<1> QED BY <1>6, <1>8, <1>9, <1>10 DEF SleepInv

LEMMA WakeupReschedSleep ==
  ASSUME IInv, SleepInv, WakeupResched
  PROVE  SleepInv'
<1>1. /\ waking /\ ~waking' /\ UNCHANGED <<sleepq, due, pc>>
      /\ sleepq # << >> => ~Expired(qkey[Head(sleepq)])
  BY DEF WakeupResched, sleepv
<1>2. SleepersKeep
  BY ReschedQuiet DEF WakeupResched
<1>3. DeltaKeys' /\ DueOrder'
  BY <1>1, <1>2, KeepDeltas DEF SleepInv, sleepv
<1>4. \A p \in Pid : pc[p].at \notin WalkPoints
  BY <1>1 DEF IInv, PointsOK, HeldByCurrent, HeldPoints
<1>5. ASSUME NEW i \in 1 .. Len(sleepq) PROVE due[sleepq[i]] >= 1
  <2>1. sleepq \in Seq(Pid) /\ due \in [Pid -> Int] /\ qkey \in [Pid -> Int]
    BY DEF IInv, TypeOK
  <2>2. sleepq # << >> /\ Head(sleepq) = sleepq[1] /\ 1 \in 1 .. Len(sleepq)
    BY <2>1
  <2>3. sleepq[i] \in Pid /\ sleepq[1] \in Pid
    BY <2>2, SleepersListed
  <2>4. due[sleepq[i]] \in Int /\ due[sleepq[1]] \in Int /\ qkey[sleepq[1]] \in Int
    BY <2>1, <2>3
  <2>5. due[sleepq[1]] >= 1
    <3>1. qkey[sleepq[1]] = due[sleepq[1]]
      BY <2>2, <2>4 DEF SleepInv, DeltaKeys
    <3> QED BY <1>1, <2>2, <2>4, <3>1 DEF Expired
  <2>6. CASE i = 1
    BY <2>5, <2>6
  <2>7. CASE i # 1
    <3>1. Left[sleepq[1]] >= Left[sleepq[i]]
      BY <2>2, <2>7 DEF SleepInv, DueOrder, Descending
    <3>2. Left[sleepq[1]] = -due[sleepq[1]] /\ Left[sleepq[i]] = -due[sleepq[i]]
      BY <2>3 DEF Left
    <3> QED BY <2>4, <2>5, <3>1, <3>2
  <2> QED BY <2>6, <2>7
<1> QED BY <1>1, <1>3, <1>4, <1>5 DEF SleepInv, WalkOK, WakingOK, NoneLate

LEMMA CreatedSleep ==
  ASSUME IInv, NEW p \in Pid, NEW b, NEW prio, Created(p, b, prio)
  PROVE  UNCHANGED <<sleepv, waking>> /\ SleepersKeep
<1>1. /\ UNCHANGED <<qkey, sleepq, waking>> /\ UNCHANGED due
  BY DEF Created, sleepv
<1> QED BY <1>1 DEF SleepersKeep, sleepv

LEMMA ProcessSleep ==
  ASSUME IInv, SleepInv, ProcessCall
  PROVE  SleepInv'
<1>1. UserCall
  BY DEF ProcessCall, Create, CreateFail, Resume, Suspend, Chprio, Kill, Yield, SleepMs
<1>2. \A p \in Pid : pc[p].at \notin WalkPoints
  BY <1>1, UserRuns DEF HeldPoints
<1>3. UserCode.at \notin WalkPoints /\ \A l \in {"kill", "xdone"} : l \notin WalkPoints
  BY DEF UserCode, Point, WalkPoints
<1>4. ASSUME UNCHANGED <<sleepv, waking, pc>>, SleepersKeep PROVE SleepInv'
  BY <1>4, StaysQuiet, QuietSleep DEF Quiet
<1>5. ASSUME NEW prio \in Prios, Create(prio) PROVE SleepInv'
  <2>1. PICK p \in Pid, b \in Stack : Created(p, b, prio) /\ pc' = [pc EXCEPT ![p] = UserCode]
    BY <1>5 DEF Create
  <2>2. NoNewWalk
    BY <1>3, <2>1 DEF NoNewWalk, IInv, TypeOK
  <2> QED BY <2>1, <2>2, CreatedSleep, QuietSleep DEF Quiet
<1>6. ASSUME NEW prio \in Prios, CreateFail(prio) PROVE SleepInv'
  BY <1>4, <1>6, StillQuiet DEF CreateFail
<1>7. ASSUME NEW p \in Pid, Resume(p) PROVE SleepInv'
  BY <1>4, <1>7, ReadyYesQuiet DEF Resume, Resumable, Sleeping
<1>8. ASSUME NEW p \in Pid, Suspend(p) PROVE SleepInv'
  BY <1>4, <1>8, ReschedQuiet DEF Suspend, SleepersKeep
<1>9. ASSUME NEW p \in Pid, NEW prio \in Prios, Chprio(p, prio) PROVE SleepInv'
  BY <1>4, <1>9, StillQuiet DEF Chprio
<1>10. ASSUME NEW p \in Pid, Kill(p) PROVE SleepInv'
  <2>1. PICK l \in {"kill", "xdone"} : Goto(Point(l, p, 0))
    BY <1>10 DEF Kill
  <2>2. \A q \in Pid : pc'[q].at \notin WalkPoints
    BY <1>2, <1>3, <2>1 DEF Goto, Point, IInv, TypeOK
  <2>3. prparent[p] \in Pid /\ UNCHANGED waking
    BY <1>10 DEF Kill, IInv, TypeOK
  <2>4. CASE Deliver(prparent[p], p)
    BY <1>1, <2>2, <2>3, <2>4, DeliverSleep
  <2>5. CASE UNCHANGED <<sched, sleepv>>
    BY <2>2, <2>3, <2>5, StillQuiet, QuietSleep DEF Quiet, NoNewWalk
  <2> QED BY <1>10, <2>4, <2>5 DEF Kill
<1>11. CASE Yield
  BY <1>4, <1>11, ReschedQuiet DEF Yield
<1> QED BY <1>5, <1>6, <1>7, <1>8, <1>9, <1>10, <1>11, SleepMsSleep DEF ProcessCall

LEMMA BootSleep ==
  ASSUME IInv, NullCreate \/ NullReady
  PROVE  Quiet
<1>1. /\ \A o : Point("null_ready", o, 0).at \notin WalkPoints
      /\ UserCode.at \notin WalkPoints /\ Point("idle", 0, 0).at \notin WalkPoints
  BY DEF UserCode, Point, WalkPoints
<1>2. CASE NullCreate
  <2>1. PICK p \in Pid, b \in Stack :
          /\ Created(p, b, MainPrio)
          /\ pc' = [pc EXCEPT ![currpid] = Point("null_ready", p, 0), ![p] = UserCode]
    BY <1>2 DEF NullCreate
  <2>2. NoNewWalk
    BY <1>1, <2>1 DEF NoNewWalk, IInv, TypeOK
  <2> QED BY <2>1, <2>2, CreatedSleep DEF Quiet
<1>3. CASE NullReady
  <2>1. /\ pc[currpid].obj \in Pid /\ prstate[pc[currpid].obj] = "SUSP"
        /\ ReadyYes(pc[currpid].obj, qkey) /\ UNCHANGED <<sleepv, waking>>
        /\ Goto(Point("idle", 0, 0))
    BY <1>3 DEF NullReady, Running, IInv, PointsOK, NullPoint, Boot, BootPoints, TypeOK
  <2>2. SleepersKeep
    BY <2>1, ReadyYesQuiet DEF Sleeping
  <2> QED BY <1>1, <2>1, <2>2, GotoQuiet DEF Quiet
<1> QED BY <1>2, <1>3

LEMMA KillRestSleep ==
  ASSUME IInv, SleepInv, KillRest
  PROVE  SleepInv'
<1> DEFINE p == pc[currpid].obj
<1>1. /\ ~waking /\ currpid \in Pid /\ p \in Pid /\ pc[currpid].at = "kill"
      /\ \A q \in Pid : prstate[q] = "CURR" => q = currpid
  BY KillerRuns
<1>2. /\ KillCurr(p) \/ KillSleeping(p) \/ KillWaiting(p) \/ KillReady(p) \/ KillOther(p)
      /\ pc' = [pc EXCEPT ![currpid] = UserCode, ![p] = UserCode] /\ UNCHANGED waking
  BY DEF KillRest
<1>3. \A q \in Pid : pc[q].at \notin WalkPoints /\ pc'[q].at \notin WalkPoints
  <2>1. \A q \in Pid : pc[q].at \notin WalkPoints
    <3>1. pc[currpid].at \notin WalkPoints
      BY <1>1 DEF WalkPoints
    <3> QED BY <3>1, NobodyWalks
  <2>2. UserCode.at \notin WalkPoints
    BY DEF UserCode, Point, WalkPoints
  <2> QED BY <1>2, <2>1, <2>2 DEF IInv, TypeOK
<1> HIDE DEF p
<1>4. CASE KillSleeping(p)
  <2>1. PICK i \in 1 .. Len(sleepq) : Unlink(p, i) /\ qkey' = UnsleptKeys(i)
    BY <1>4 DEF KillSleeping
  <2> QED BY <1>1, <1>2, <1>3, <2>1, UnlinkSleep
<1>5. CASE ~KillSleeping(p)
  <2>1. SleepersKeep /\ UNCHANGED sleepv
    BY <1>2, <1>5, ReschedQuiet
    DEF KillCurr, KillWaiting, KillReady, KillOther, SleepersKeep
  <2> QED BY <1>2, <1>3, <2>1, QuietSleep DEF Quiet, NoNewWalk
<1> QED BY <1>4, <1>5

-----------------------------------------------------------------------------
(* The theorems.                                                           *)

LEMMA SleepInit == Init => SleepInv
<1> SUFFICES ASSUME Init PROVE SleepInv
  OBVIOUS
<1>1. sleepq = << >> /\ ~waking
  BY DEF Init
<1>2. \A p \in Pid : pc[p].at \notin WalkPoints
  BY DEF Init, Point, UserCode, WalkPoints
<1> QED BY <1>1, <1>2
    DEF SleepInv, DeltaKeys, DueOrder, Descending, WalkOK, WakingOK, NoneLate

LEMMA SleepStep == IInv /\ SleepInv /\ [Next]_vars => SleepInv'
<1> SUFFICES ASSUME IInv, SleepInv, [Next]_vars PROVE SleepInv'
  OBVIOUS
<1>1. CASE Continue
  BY <1>1, SemaphoreSleep, NotReceiving, ReceiveSleep, BootSleep, QuietSleep,
     InsertdWalkSleep, InsertdLinkSleep, KillRestSleep, WakeupReadySleep, WakeupReschedSleep
  DEF Continue
<1>2. CASE UNCHANGED vars
  BY <1>2, StillQuiet, StaysQuiet, QuietSleep DEF vars, Quiet
<1> QED BY <1>1, <1>2, SemaphoreSleep, QuietSleep, MessageSleep, ProcessSleep, TickSleep
    DEF Next

LEMMA SleepInvariant == "receive" \notin Calls => (Spec => []SleepInv)
<1> SUFFICES ASSUME "receive" \notin Calls PROVE Spec => []SleepInv
  OBVIOUS
<1> QED BY SleepInit, SleepStep, Invariant, PTL DEF Spec

(* The keys of the sleep queue always add up to the times the sleepers     *)
(* have to go: no insertion, timeout, early wakeup or kill disturbs the    *)
(* time of another sleeper, in any workload without receive().             *)
THEOREM DeltaKeysRight ==
  ASSUME "receive" \notin Calls
  PROVE  Spec => []DeltaKeys
<1>1. SleepInv => DeltaKeys
  BY DEF SleepInv
<1> QED BY <1>1, SleepInvariant, PTL

(* Nobody is late: if no process passes 0 to recvtime, or calls receive(), *)
(* every sleeper has ticks to go whenever wakeup() is not running.         *)
THEOREM NobodyLate ==
  ASSUME "receive" \notin Calls, 0 \notin Delays
  PROVE  Spec => []NotLate
<1>1. IInv /\ SleepInv => NotLate
  <2> SUFFICES ASSUME IInv, SleepInv, ~waking, NEW p \in Pid, prstate[p] \in Sleeping
               PROVE  due[p] >= 1
    BY DEF NotLate
  <2>1. PICK i \in 1 .. Len(sleepq) : sleepq[i] = p
    BY DEF IInv, QueuesMatchStates, SleepListed, Enumerates, WithState
  <2> QED BY <2>1 DEF SleepInv, NoneLate
<1> QED BY <1>1, Invariant, SleepInvariant, PTL

(* Nobody is woken early: a sleeper runs again when no time is left, or    *)
(* because a message that it awaits has come; in any workload without      *)
(* receive().                                                              *)
THEOREM WokenInTime ==
  ASSUME "receive" \notin Calls
  PROVE  Spec => WokenOnTime
<1> DEFINE Woken == \A p \in Pid :
                      prstate[p] \in Sleeping /\ prstate'[p] \in {"READY", "CURR"} =>
                        \/ due[p] = 0
                        \/ prstate[p] = "RECTIM" /\ ~prhasmsg[p] /\ prhasmsg'[p]
<1>1. IInv /\ SleepInv /\ [Next]_vars => [Woken]_vars
  <2> SUFFICES ASSUME IInv, SleepInv, [Next]_vars, NEW p \in Pid, prstate[p] \in Sleeping,
                      prstate'[p] \in {"READY", "CURR"}
               PROVE  \/ due[p] = 0
                      \/ prstate[p] = "RECTIM" /\ ~prhasmsg[p] /\ prhasmsg'[p]
    OBVIOUS
  <2>1. WakesUp(p) \/ GetsMessage(p)
    BY StepLife
    DEF LifeStep, StaysIn, IsCreated, GivesUp, IsReleased, IsKilled, Runnable, Sleeping
  <2>2. CASE WakesUp(p)
    BY <2>2, FirstExpired DEF WakesUp
  <2>3. CASE GetsMessage(p)
    BY <2>3 DEF GetsMessage, Sleeping
  <2> QED BY <2>1, <2>2, <2>3
<1> QED BY <1>1, Invariant, SleepInvariant, PTL DEF Spec, WokenOnTime
=============================================================================
