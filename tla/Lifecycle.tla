------------------------------ MODULE Lifecycle ------------------------------
(***************************************************************************)
(* The life of a process (create.c): create, kill, suspend, resume, chprio *)
(* and yield, and the boot thread of inicialize.c that starts the first    *)
(* user process.  The stacks are blocks of one size; getstk takes the      *)
(* highest free one.                                                       *)
(***************************************************************************)
EXTENDS ProcTable, Messages

(* getstk(): the last fit of the free list.                                *)
IsNewStack(b) == b \in stkfree /\ \A c \in stkfree : c <= b

(* newpid(): p is the first free entry at or after nextpid, cyclically;    *)
(* nextpid is kept modulo NPROC.                                           *)
IsNewPid(p) ==
  /\ prstate[p] = "FREE"
  /\ \A k \in 0 .. ((p - nextpid) % NPROC) - 1 :
       prstate[(nextpid + k) % NPROC] # "FREE"

(* create(prio) makes p: a suspended process with stack b, a child of the  *)
(* running one.                                                            *)
Created(p, b, prio) ==
  /\ IsNewStack(b)
  /\ IsNewPid(p)
  /\ prio >= 1
  /\ stkfree' = stkfree \ {b}
  /\ nextpid' = (p + 1) % NPROC
  /\ prcount' = prcount + 1
  /\ prstate' = [prstate EXCEPT ![p] = "SUSP"]
  /\ prprio' = [prprio EXCEPT ![p] = prio]
  /\ prstkbase' = [prstkbase EXCEPT ![p] = b]
  /\ prsem' = [prsem EXCEPT ![p] = NoSem]
  /\ prparent' = [prparent EXCEPT ![p] = currpid]
  /\ prhasmsg' = [prhasmsg EXCEPT ![p] = FALSE]
  /\ UNCHANGED <<readylist, qkey, currpid, preempt, sleepv, semv, prmsg, waking>>

Create(prio) ==
  /\ UserCall
  /\ \E p \in Pid, b \in Stack : Created(p, b, prio) /\ pc' = [pc EXCEPT ![p] = UserCode]

(* create() fails after getstk: no process entry is free, or the priority  *)
(* is below 1.  The stack stays allocated.                                 *)
CreateFail(prio) ==
  /\ UserCall
  /\ \E b \in Stack : IsNewStack(b) /\ stkfree' = stkfree \ {b}
  /\ \/ /\ \A p \in Pid : prstate[p] # "FREE"
        /\ UNCHANGED nextpid
     \/ /\ prio < 1
        /\ \E p \in Pid : IsNewPid(p) /\ nextpid' = (p + 1) % NPROC
  /\ UNCHANGED <<sched, sleepv, semv, msgv, prprio, prparent, prstkbase, prcount,
                 prsem, pc, waking>>

-----------------------------------------------------------------------------
(* nulluser(): the boot thread has become process 0; it creates the first  *)
(* user process, makes it ready and loops for ever as the null process.    *)
(* Interrupts are enabled, and each of its calls is one step because the   *)
(* first tick is still far away (BootPoints).                              *)

NullCreate ==
  /\ Running("null_create")
  /\ \E p \in Pid, b \in Stack :
       /\ Created(p, b, MainPrio)
       /\ pc' = [pc EXCEPT ![currpid] = Point("null_ready", p, 0), ![p] = UserCode]

NullReady ==
  /\ Running("null_ready")
  /\ ReadyYes(pc[currpid].obj, qkey)
  /\ Goto(Point("idle", 0, 0))
  /\ UNCHANGED <<sleepv, semv, msgv, procv, prsem, waking>>

-----------------------------------------------------------------------------

Yield ==
  /\ UserCall
  /\ Resched(prstate, readylist, qkey, preempt)
  /\ UNCHANGED <<sleepv, semv, msgv, procv, prsem, pc, waking>>

Resumable(p) == prstate[p] = "SUSP"

Resume(p) ==
  /\ UserCall
  /\ Resumable(p)
  /\ ReadyYes(p, qkey)
  /\ UNCHANGED <<sleepv, semv, msgv, procv, prsem, pc, waking>>

(* getitem(p) of a ready process: unlink it from the ready list.           *)
UnlinkReady(p) ==
  \E i \in 1 .. Len(readylist) :
    readylist[i] = p /\ readylist' = RemoveAt(readylist, i)

Suspend(p) ==
  /\ UserCall
  /\ p # NULLPROC
  /\ \/ /\ prstate[p] = "READY"
        /\ UnlinkReady(p)
        /\ prstate' = [prstate EXCEPT ![p] = "SUSP"]
        /\ UNCHANGED <<qkey, currpid, preempt>>
     \/ /\ prstate[p] = "CURR"
        /\ Resched([prstate EXCEPT ![p] = "SUSP"], readylist, qkey, preempt)
  /\ UNCHANGED <<sleepv, semv, msgv, procv, prsem, pc, waking>>

(* The process keeps its place in the list it is on.                       *)
Chprio_InPlace(p, prio) ==    \* mutant
  /\ UserCall
  /\ prstate[p] # "FREE"
  /\ prprio' = [prprio EXCEPT ![p] = prio]
  /\ qkey' = [qkey EXCEPT ![p] = prio]
  /\ UNCHANGED <<prstate, readylist, currpid, preempt, sleepv, semv, msgv, prparent,
                 prstkbase, prcount, nextpid, stkfree, prsem, pc, waking>>
Chprio(p, prio) ==
  /\ UserCall
  /\ prstate[p] # "FREE"
  /\ prprio' = [prprio EXCEPT ![p] = prio]
  /\ UNCHANGED <<sched, sleepv, semv, msgv, prparent, prstkbase, prcount, nextpid,
                 stkfree, prsem, pc, waking>>

-----------------------------------------------------------------------------
(* kill(p), up to and including the message to its parent, which may make  *)
(* the killer lose the processor; the last user process ends the system.   *)

LastProcess_Early(count) == count <= 2    \* mutant
LastProcess(count) == count <= 1

Killable_Freed(p) == p # NULLPROC    \* mutant
Killable(p) == p # NULLPROC /\ prstate[p] # "FREE"

Kill(p) ==
  /\ UserCall
  /\ Killable(p)
  /\ prcount' = prcount - 1
  /\ \/ /\ LastProcess(prcount - 1)
        /\ Goto(Point("xdone", p, 0))
        /\ UNCHANGED <<sched, sleepv, msgv>>
     \/ /\ ~LastProcess(prcount - 1)
        /\ Goto(Point("kill", p, 0))
        /\ Deliver(prparent[p], p)
  /\ UNCHANGED <<semv, prprio, prparent, prstkbase, nextpid, stkfree, prsem, waking>>

(* The rest of kill(p), by the state p is in by now: free its stack, take  *)
(* it off the queue it is on and free its entry.                           *)
FreeEntry(p) == prstate' = [prstate EXCEPT ![p] = "FREE"]
KeepCurrent  == UNCHANGED <<currpid, preempt>>

KillCurr(p) ==
  /\ prstate[p] = "CURR"
  /\ Resched([prstate EXCEPT ![p] = "FREE"], readylist, qkey, preempt)
  /\ UNCHANGED <<sleepv, scount, squeue>>

KillSleeping(p) ==
  /\ prstate[p] \in Sleeping
  /\ \E i \in 1 .. Len(sleepq) : Unlink(p, i) /\ qkey' = UnsleptKeys(i)
  /\ FreeEntry(p) /\ KeepCurrent
  /\ UNCHANGED <<readylist, scount, squeue>>

KillWaiting_Kept(p) ==    \* mutant
  /\ prstate[p] = "WAIT"
  /\ scount' = [scount EXCEPT ![prsem[p]] = @ + 1]
  /\ FreeEntry(p) /\ KeepCurrent
  /\ UNCHANGED <<readylist, qkey, sleepv, squeue>>
KillWaiting_Uncounted(p) ==    \* mutant
  /\ prstate[p] = "WAIT"
  /\ \E i \in 1 .. Len(squeue[prsem[p]]) :
       /\ squeue[prsem[p]][i] = p
       /\ squeue' = [squeue EXCEPT ![prsem[p]] = RemoveAt(@, i)]
  /\ FreeEntry(p) /\ KeepCurrent
  /\ UNCHANGED <<readylist, qkey, sleepv, scount>>
KillWaiting(p) ==
  /\ prstate[p] = "WAIT"
  /\ LET s == prsem[p]
     IN  /\ scount' = [scount EXCEPT ![s] = @ + 1]
         /\ \E i \in 1 .. Len(squeue[s]) :
              squeue[s][i] = p /\ squeue' = [squeue EXCEPT ![s] = RemoveAt(@, i)]
  /\ FreeEntry(p) /\ KeepCurrent
  /\ UNCHANGED <<readylist, qkey, sleepv>>

KillReady(p) ==
  /\ prstate[p] = "READY"
  /\ UnlinkReady(p)
  /\ FreeEntry(p) /\ KeepCurrent
  /\ UNCHANGED <<qkey, sleepv, scount, squeue>>

KillOther(p) ==
  /\ prstate[p] \in {"SUSP", "RECV", "FREE"}
  /\ FreeEntry(p) /\ KeepCurrent
  /\ UNCHANGED <<readylist, qkey, sleepv, scount, squeue>>

(* The stack that is freed.                                                *)
KilledStack_Own(p) == prstkbase[currpid]    \* mutant
KilledStack(p) == prstkbase[p]

KillRest ==
  /\ Running("kill")
  /\ LET p == pc[currpid].obj
     IN  /\ stkfree' = stkfree \cup ({KilledStack(p)} \ {NoStack})
         /\ pc' = [pc EXCEPT ![currpid] = UserCode, ![p] = UserCode]
         /\ KillCurr(p) \/ KillSleeping(p) \/ KillWaiting(p) \/ KillReady(p) \/ KillOther(p)
  /\ UNCHANGED <<sstate, nextsem, msgv, prprio, prparent, prstkbase, prcount, nextpid,
                 prsem, waking>>
=============================================================================
