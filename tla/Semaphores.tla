----------------------------- MODULE Semaphores -----------------------------
(***************************************************************************)
(* The counting semaphores of Xinu: semcreate.c, signal.c and wait() of    *)
(* create.c.  A negative count is the number of waiting processes.         *)
(*                                                                         *)
(* The calls that released their waiters under resched_cntl in Xinu do so  *)
(* here without it (the calls are commented out): semdelete and semreset   *)
(* may lose the processor after every process they release, and go on with *)
(* the loop when they are dispatched again.                                *)
(***************************************************************************)
EXTENDS ProcTable

MustBlock(count) == count < 0
HasWaiter(count) == count < 0

(* ready(p, resch), with resch TRUE for RESCHED_YES.                       *)
ReadyAndResched_No(p) == ReadyNo(p)    \* mutant
ReadyAndResched(p) == ReadyYes(p, qkey)
Ready(p, resch) == IF resch THEN ReadyAndResched(p) ELSE ReadyNo(p)

(* ready(dequeue(squeue), resch).  dequeue returns EMPTY when nobody       *)
(* waits, and ready refuses that pid without rescheduling.                 *)
Release_Last(s, resch) ==    \* mutant
  IF squeue[s] = << >> THEN UNCHANGED <<squeue, sched>>
  ELSE squeue' = [squeue EXCEPT ![s] = Front(@)] /\ Ready(Last(squeue[s]), resch)
Release(s, resch) ==
  \/ /\ squeue[s] # << >>
     /\ squeue' = [squeue EXCEPT ![s] = Tail(@)]
     /\ Ready(Head(squeue[s]), resch)
  \/ /\ squeue[s] = << >>
     /\ UNCHANGED <<squeue, sched>>

-----------------------------------------------------------------------------

Wait(s) ==
  /\ UserCall
  /\ sstate[s] = "USED"
  /\ scount[s] > -MaxDebt
  /\ scount' = [scount EXCEPT ![s] = @ - 1]
  /\ \/ /\ MustBlock(scount[s] - 1)
        /\ prsem' = [prsem EXCEPT ![currpid] = s]
        /\ squeue' = [squeue EXCEPT ![s] = Append(@, currpid)]
        /\ Resched([prstate EXCEPT ![currpid] = "WAIT"], readylist, qkey, preempt)
     \/ /\ ~MustBlock(scount[s] - 1)
        /\ UNCHANGED <<prsem, squeue, sched>>
  /\ UNCHANGED <<sleepv, sstate, nextsem, msgv, procv, pc, waking>>

Signal(s) ==
  /\ UserCall
  /\ sstate[s] = "USED"
  /\ scount[s] < MaxCount
  /\ scount' = [scount EXCEPT ![s] = @ + 1]
  /\ \/ HasWaiter(scount[s]) /\ Release(s, TRUE)
     \/ ~HasWaiter(scount[s]) /\ UNCHANGED <<squeue, sched>>
  /\ UNCHANGED <<sleepv, sstate, nextsem, msgv, procv, prsem, pc, waking>>

(* signaln raises the count one at a time, makes the waiters ready without *)
(* rescheduling, and reschedules once at the end.                          *)
SignalN(s, n) ==
  /\ UserCall
  /\ sstate[s] = "USED"
  /\ scount[s] + n <= MaxCount
  /\ Goto(Point("signaln", s, n))
  /\ UNCHANGED <<sched, sleepv, semv, msgv, procv, prsem, waking>>

SignalNStep ==
  /\ Running("signaln")
  /\ LET s == pc[currpid].obj
         n == pc[currpid].num
     IN  \/ /\ n > 0
            /\ scount' = [scount EXCEPT ![s] = @ + 1]
            /\ \/ HasWaiter(scount[s]) /\ Release(s, FALSE)
               \/ ~HasWaiter(scount[s]) /\ UNCHANGED <<squeue, sched>>
            /\ Goto(Point("signaln", s, n - 1))
         \/ /\ n = 0
            /\ Resched(prstate, readylist, qkey, preempt)
            /\ Goto(UserCode)
            /\ UNCHANGED <<scount, squeue>>
  /\ UNCHANGED <<sleepv, sstate, nextsem, msgv, procv, prsem, waking>>

-----------------------------------------------------------------------------
(* newsem(): s is the first free entry at or after nextsem, cyclically.    *)
IsNewSem(s) ==
  /\ sstate[s] = "FREE"
  /\ \A k \in 0 .. ((s - nextsem) % NSEM) - 1 :
       sstate[(nextsem + k) % NSEM] = "USED"

SemCreate(n) ==
  /\ UserCall
  /\ \E s \in Sem :
       /\ IsNewSem(s)
       /\ sstate' = [sstate EXCEPT ![s] = "USED"]
       /\ scount' = [scount EXCEPT ![s] = n]
       /\ nextsem' = (s + 1) % NSEM
  /\ UNCHANGED <<sched, sleepv, squeue, msgv, procv, prsem, pc, waking>>

(* The entry is free before its waiters are released.                      *)
SemDelete(s) ==
  /\ UserCall
  /\ sstate[s] = "USED"
  /\ sstate' = [sstate EXCEPT ![s] = "FREE"]
  /\ Goto(Point("semdelete", s, 0))
  /\ UNCHANGED <<sched, sleepv, scount, squeue, nextsem, msgv, procv, prsem, waking>>

(* One test of the loop: raise the count and, if it was negative, release  *)
(* a waiter and reschedule; otherwise reschedule and return.               *)
SemDeleteStep ==
  /\ Running("semdelete")
  /\ LET s == pc[currpid].obj
     IN  /\ scount' = [scount EXCEPT ![s] = @ + 1]
         /\ \/ /\ HasWaiter(scount[s])
               /\ Release(s, TRUE)
               /\ UNCHANGED pc
            \/ /\ ~HasWaiter(scount[s])
               /\ Resched(prstate, readylist, qkey, preempt)
               /\ Goto(UserCode)
               /\ UNCHANGED squeue
  /\ UNCHANGED <<sleepv, sstate, nextsem, msgv, procv, prsem, waking>>

SemReset(s, n) ==
  /\ UserCall
  /\ sstate[s] = "USED"
  /\ Goto(Point("semreset", s, n))
  /\ UNCHANGED <<sched, sleepv, semv, msgv, procv, prsem, waking>>

(* One test of the loop: release a waiter while there is one, then set the *)
(* count, reschedule and return.                                           *)
SemResetStep ==
  /\ Running("semreset")
  /\ LET s == pc[currpid].obj
         n == pc[currpid].num
     IN  \/ /\ squeue[s] # << >>
            /\ Release(s, TRUE)
            /\ UNCHANGED <<scount, pc>>
         \/ /\ squeue[s] = << >>
            /\ scount' = [scount EXCEPT ![s] = n]
            /\ Resched(prstate, readylist, qkey, preempt)
            /\ Goto(UserCode)
            /\ UNCHANGED squeue
  /\ UNCHANGED <<sleepv, sstate, nextsem, msgv, procv, prsem, waking>>
=============================================================================
