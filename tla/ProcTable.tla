----------------------------- MODULE ProcTable -----------------------------
(***************************************************************************)
(* The state shared by every part of the Xinu kernel (src/xinu/system):    *)
(* the process table, the ready list and sleep queue, the semaphore table, *)
(* the clock's preemption counter and the free stacks; and the scheduler   *)
(* itself: insert, dequeue, ready and resched.                             *)
(*                                                                         *)
(* A queue of queuetab is the sequence of the pids it links.  Module       *)
(* QueueLinks models the linked array itself.                              *)
(*                                                                         *)
(* resched changes stacks inside ctxsw and returns only when the caller    *)
(* is dispatched again, so a system call that goes on after a resched is   *)
(* split there.  pc[p] is where process p continues: the point at which    *)
(* its code resumes once it is current.                                    *)
(***************************************************************************)
EXTENDS Lists

CONSTANTS
  NPROC,      \* size of proctab
  NSEM,       \* size of semtab
  NSTK,       \* number of stacks the free list can hold
  QUANTUM,    \* clock ticks of one time slice
  NullPrio,   \* priority nulluser gives the null process
  MainPrio,   \* priority nulluser gives the first user process
  Prios,      \* priorities the user processes pass to create and chprio
  Delays,     \* delays they pass to recvtime and, with 0, to sleepms
  Counts,     \* counts they pass to semcreate, semreset and signaln
  Msgs,       \* messages they send (those of kill are pids)
  MaxCount,   \* bound: no signal takes a semaphore's count above this
  MaxDebt,    \* bound: no wait takes a count below minus this
  MaxLate,    \* bound: how far below zero a sleep key is followed
  Calls       \* the system calls the user processes make

NULLPROC == 0
Pid   == 0 .. NPROC - 1
Sem   == 0 .. NSEM - 1
Stack == 1 .. NSTK
NoSem   == -1
NoStack == 0

States == {"FREE", "CURR", "READY", "RECV", "SLEEP", "SUSP", "WAIT", "RECTIM"}
Sleeping == {"SLEEP", "RECTIM"}

(* Points at which the clock interrupts: user code, the whole of receive() *)
(* and the loop of the null process.                                       *)
IntrOn == {"user", "recv_block", "recv_resched", "recv_take", "recv_back", "idle"}

(* The boot thread on its way to that loop.  Interrupts are enabled here   *)
(* too, but clkinit has just set the timer to 65535, which two creates do  *)
(* not reach: an assumption of the model, named in Kernel.                 *)
BootPoints == {"null_create", "null_ready"}

(* Points inside a system call, with interrupts disabled.                  *)
IntrOff == {"sleepms", "recvtime", "rectim", "signaln", "semdelete",
            "semreset", "kill", "xdone"}

ASSUME NprocAssumption   == NPROC \in Nat /\ NPROC > 1
ASSUME NsemAssumption    == NSEM \in Nat /\ NSEM > 0
ASSUME NstkAssumption    == NSTK \in Nat /\ NSTK > 1
ASSUME QuantumAssumption == QUANTUM \in Nat /\ QUANTUM > 0
ASSUME PriosAssumption   == /\ NullPrio \in Int /\ NullPrio > 0
                            /\ MainPrio \in Int /\ MainPrio > 0
                            /\ Prios \subseteq Int
ASSUME DelaysAssumption  == Delays \subseteq Nat
ASSUME CountsAssumption  == Counts \subseteq Nat
ASSUME MsgsAssumption    == Msgs \subseteq Pid
ASSUME BoundsAssumption  == MaxCount \in Nat /\ MaxDebt \in Nat /\ MaxLate \in Nat

VARIABLES
  prstate, prprio, prsem, prparent, prhasmsg, prmsg, prstkbase,  \* proctab
  currpid, prcount, nextpid,
  readylist, sleepq, qkey,             \* queuetab: order and keys
  preempt,                             \* ticks left of the time slice
  sstate, scount, squeue, nextsem,     \* semtab
  stkfree,                             \* stacks on the free list
  pc,                                  \* where each process continues
  waking,                              \* the clock handler is in wakeup()
  due                                  \* history: ticks each sleeper has to go

sched  == <<prstate, readylist, qkey, currpid, preempt>>
sleepv == <<sleepq, due>>
semv   == <<sstate, scount, squeue, nextsem>>
msgv   == <<prhasmsg, prmsg>>
procv  == <<prprio, prparent, prstkbase, prcount, nextpid, stkfree>>
vars   == <<sched, sleepv, semv, msgv, procv, prsem, pc, waking>>

-----------------------------------------------------------------------------
(* Program counters: a label and the two locals a continuation keeps.      *)

Point(at, obj, num) == [at |-> at, obj |-> obj, num |-> num]
UserCode == Point("user", 0, 0)

(* The running process is at label l and the clock handler is not active.  *)
Running(l) == ~waking /\ pc[currpid].at = l
UserCall   == Running("user")

Goto(point) == pc' = [pc EXCEPT ![currpid] = point]

-----------------------------------------------------------------------------
(* The ready list and the scheduler.                                       *)

(* resched keeps the running process only if its priority is above the     *)
(* first key; the tail of an empty list holds the least key there is.      *)
KeepsCPU_Ties(prio, list, keys) == list # << >> => prio >= keys[Head(list)]   \* mutant
KeepsCPU(prio, list, keys) == list # << >> => prio > keys[Head(list)]

(* dequeue(readylist) and the switch to the process it returns.            *)
Dispatch(st, list, keys) ==
  /\ list # << >>
  /\ currpid'   = Head(list)
  /\ readylist' = Tail(list)
  /\ prstate'   = [st EXCEPT ![Head(list)] = "CURR"]
  /\ qkey'      = keys
  /\ preempt'   = QUANTUM

(* resched(), entered with the process states st, ready list, keys and     *)
(* preemption counter pre that its caller has set so far.                  *)
Resched(st, list, keys, pre) ==
  \/ /\ st[currpid] = "CURR"
     /\ KeepsCPU(prprio[currpid], list, keys)
     /\ prstate' = st /\ readylist' = list /\ qkey' = keys /\ preempt' = pre
     /\ UNCHANGED currpid
  \/ /\ st[currpid] = "CURR"
     /\ ~KeepsCPU(prprio[currpid], list, keys)
     /\ \E i \in 1 .. Len(list) + 1 :
          /\ IsInsertPos(list, keys, prprio[currpid], i)
          /\ Dispatch([st EXCEPT ![currpid] = "READY"],
                      InsertAt(list, i, currpid),
                      [keys EXCEPT ![currpid] = prprio[currpid]])
  \/ /\ st[currpid] # "CURR"
     /\ Dispatch(st, list, keys)

(* ready(p, RESCHED_YES), with the keys its caller has set so far.         *)
ReadyYes(p, keys) ==
  \E i \in 1 .. Len(readylist) + 1 :
    /\ IsInsertPos(readylist, keys, prprio[p], i)
    /\ Resched([prstate EXCEPT ![p] = "READY"],
               InsertAt(readylist, i, p),
               [keys EXCEPT ![p] = prprio[p]], preempt)

(* ready(p, RESCHED_NO)                                                    *)
ReadyNo(p) ==
  \E i \in 1 .. Len(readylist) + 1 :
    /\ IsInsertPos(readylist, qkey, prprio[p], i)
    /\ prstate'   = [prstate EXCEPT ![p] = "READY"]
    /\ readylist' = InsertAt(readylist, i, p)
    /\ qkey'      = [qkey EXCEPT ![p] = prprio[p]]
    /\ UNCHANGED <<currpid, preempt>>

(* unsleep(): the successor of the i-th sleeper takes over its delay.      *)
UnsleptKeys_Lost(i) == qkey    \* mutant
UnsleptKeys(i) ==
  IF i < Len(sleepq)
  THEN [qkey EXCEPT ![sleepq[i + 1]] = @ + qkey[sleepq[i]]]
  ELSE qkey

(* Unlink p, which sleeps, from the sleep queue; its old place is i.       *)
Unlink_Kept(p, i) ==    \* mutant
  /\ sleepq[i] = p
  /\ due' = [due EXCEPT ![p] = 0]
  /\ UNCHANGED sleepq
Unlink(p, i) ==
  /\ sleepq[i] = p
  /\ sleepq' = RemoveAt(sleepq, i)
  /\ due' = [due EXCEPT ![p] = 0]
=============================================================================
