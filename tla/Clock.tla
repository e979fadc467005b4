-------------------------------- MODULE Clock --------------------------------
(***************************************************************************)
(* The clock: sleepms() and its delta list (insertd of queue.c), the clock *)
(* interrupt handler (clkhandler.c) and wakeup().                          *)
(*                                                                         *)
(* The key of a sleeper is the number of ticks between its wakeup and the  *)
(* one before it in sleepq.  The timer interrupts only where interrupts    *)
(* are enabled, and not during its own handler, which re-arms it first for *)
(* a full period.  clktime and count1000 are left out: nothing reads them. *)
(***************************************************************************)
EXTENDS ProcTable

(* sleepms(0) only yields.                                                 *)
SleepMs(d) ==
  /\ UserCall
  /\ \/ /\ d = 0
        /\ Resched(prstate, readylist, qkey, preempt)
        /\ UNCHANGED <<pc, due>>
     \/ /\ d > 0
        /\ Goto(Point("sleepms", 0, d))
        /\ due' = [due EXCEPT ![currpid] = d]
        /\ UNCHANGED sched
  /\ UNCHANGED <<sleepq, semv, msgv, procv, prsem, waking>>

(* insertd(), one node of the list per step: walk past the sleepers that   *)
(* wake no later than the caller, taking their keys off the delay num;     *)
(* obj counts the nodes passed.                                            *)
WalksOn(key, num) == key <= num
Inserting == Running("sleepms") \/ Running("recvtime")

(* The keys once the caller, with num ticks left, is in place i.           *)
InsertedKeys_Unadjusted(i, num) == [qkey EXCEPT ![currpid] = num]    \* mutant
InsertedKeys(i, num) ==
  IF i <= Len(sleepq)
  THEN [qkey EXCEPT ![currpid] = num, ![sleepq[i]] = @ - num]
  ELSE [qkey EXCEPT ![currpid] = num]

InsertdWalk ==
  /\ Inserting
  /\ LET here == pc[currpid]
         i    == here.obj + 1
     IN  /\ i <= Len(sleepq)
         /\ WalksOn(qkey[sleepq[i]], here.num)
         /\ Goto(Point(here.at, i, here.num - qkey[sleepq[i]]))
  /\ UNCHANGED <<sched, sleepv, semv, msgv, procv, prsem, waking>>

(* The walk ends: link the caller in, set its state and reschedule.        *)
InsertdLink ==
  /\ Inserting
  /\ LET here  == pc[currpid]
         i     == here.obj + 1
         after == IF here.at = "sleepms" THEN UserCode ELSE Point("rectim", 0, 0)
         state == IF here.at = "sleepms" THEN "SLEEP" ELSE "RECTIM"
     IN  /\ i <= Len(sleepq) => ~WalksOn(qkey[sleepq[i]], here.num)
         /\ sleepq' = InsertAt(sleepq, i, currpid)
         /\ Resched([prstate EXCEPT ![currpid] = state], readylist,
                    InsertedKeys(i, here.num), preempt)
         /\ Goto(after)
  /\ UNCHANGED <<due, semv, msgv, procv, prsem, waking>>

-----------------------------------------------------------------------------
(* clkhandler(): with sleepers, count down the first one and wake at zero; *)
(* only with none, count down the time slice of the running process.       *)

Expired_Below(key) == key < 0    \* mutant
Expired(key) == key <= 0

SliceOver(pre) == pre - 1 = 0

(* The slice, with the states, ready list and keys the tick has come upon. *)
CountSlice(st, list, keys) ==
  \/ SliceOver(preempt) /\ Resched(st, list, keys, QUANTUM)
  \/ /\ ~SliceOver(preempt)
     /\ preempt' = preempt - 1
     /\ prstate' = st /\ readylist' = list /\ qkey' = keys
     /\ UNCHANGED currpid

(* The trap puts clkhandler in place of the interrupted pc, so the handler *)
(* returns to the ra of the interrupted code: behind the last call of that *)
(* function or, if it has made none, behind the call of it, and the rest   *)
(* of it is not executed.  User code goes on as user code.  receive() is   *)
(* left, with its state set or not; only the entry of resched() and what   *)
(* comes behind its call return into receive().                            *)
GoesOnAt_InPlace(point) == {point}    \* mutant
GoesOnAt(point) ==
  IF point.at = "recv_resched" THEN {UserCode, Point("recv_back", 0, 0)}
  ELSE IF point.at \in {"recv_block", "recv_take"} THEN {UserCode}
  ELSE {point}

Tick ==
  /\ ~waking
  /\ pc[currpid].at \in IntrOn
  /\ \E point \in GoesOnAt(pc[currpid]) : Goto(point)
  /\ \/ /\ sleepq # << >>
        /\ qkey[Head(sleepq)] > -MaxLate
        /\ qkey' = [qkey EXCEPT ![Head(sleepq)] = @ - 1]
        /\ due' = [p \in Pid |-> IF p \in ToSet(sleepq) THEN due[p] - 1 ELSE due[p]]
        /\ waking' = (qkey[Head(sleepq)] - 1 = 0)
        /\ UNCHANGED <<prstate, readylist, currpid, preempt>>
     \/ /\ sleepq = << >>
        /\ CountSlice(prstate, readylist, qkey)
        /\ UNCHANGED <<due, waking>>
  /\ UNCHANGED <<sleepq, semv, msgv, procv, prsem>>

(* wakeup(), one test of its loop per step: make ready the first sleeper   *)
(* while its time is up, then reschedule.  Nothing else runs meanwhile.    *)
WakeupReady ==
  /\ waking
  /\ sleepq # << >>
  /\ Expired(qkey[Head(sleepq)])
  /\ sleepq' = Tail(sleepq)
  /\ due' = [due EXCEPT ![Head(sleepq)] = 0]
  /\ ReadyNo(Head(sleepq))
  /\ UNCHANGED <<semv, msgv, procv, prsem, pc, waking>>

WakeupResched ==
  /\ waking
  /\ sleepq # << >> => ~Expired(qkey[Head(sleepq)])
  /\ Resched(prstate, readylist, qkey, preempt)
  /\ waking' = FALSE
  /\ UNCHANGED <<sleepv, semv, msgv, procv, prsem, pc>>
=============================================================================
