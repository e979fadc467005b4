------------------------------ MODULE Messages ------------------------------
(***************************************************************************)
(* Interprocess messages (message.c): a one-message buffer per process.    *)
(*                                                                         *)
(* receive() runs with interrupts enabled (its disable and restore are     *)
(* commented out), so the clock may interrupt it between any two of its    *)
(* steps, and what is left of it is then not executed (Clock's GoesOnAt);  *)
(* recvtime(), recvclr() and send() run with interrupts disabled.          *)
(***************************************************************************)
EXTENDS ProcTable

(* The receiver's buffer is full: send returns SYSERR.                     *)
BufferFull_Never(p) == FALSE    \* mutant
BufferFull(p) == prhasmsg[p]

(* send(p, m) of the running process, which keeps its continuation.        *)
Deliver(p, m) ==
  \/ /\ prstate[p] = "FREE" \/ BufferFull(p)
     /\ UNCHANGED <<sched, sleepv, msgv>>
  \/ /\ prstate[p] # "FREE" /\ ~BufferFull(p)
     /\ prmsg' = [prmsg EXCEPT ![p] = m]
     /\ prhasmsg' = [prhasmsg EXCEPT ![p] = TRUE]
     /\ \/ /\ prstate[p] = "RECV"
           /\ ReadyYes(p, qkey)
           /\ UNCHANGED sleepv
        \/ /\ prstate[p] = "RECTIM"
           /\ \E i \in 1 .. Len(sleepq) :
                Unlink(p, i) /\ ReadyYes(p, UnsleptKeys(i))
        \/ /\ prstate[p] \notin {"RECV", "RECTIM"}
           /\ UNCHANGED <<sched, sleepv>>

Send(p, m) ==
  /\ UserCall
  /\ Deliver(p, m)
  /\ UNCHANGED <<semv, procv, prsem, pc, waking>>

(* Take the message out of the running process's buffer.                   *)
TakeMsg == prhasmsg' = [prhasmsg EXCEPT ![currpid] = FALSE] /\ UNCHANGED prmsg

RecvClr ==
  /\ UserCall
  /\ TakeMsg
  /\ UNCHANGED <<sched, sleepv, semv, procv, prsem, pc, waking>>

-----------------------------------------------------------------------------
(* receive(): the test of the buffer, the change of state, the resched and *)
(* the retrieval are four steps, each with interrupts enabled; recv_take   *)
(* is the retrieval without a resched before it, recv_back after one.      *)

Receive ==
  /\ UserCall
  /\ \/ prhasmsg[currpid] /\ Goto(Point("recv_take", 0, 0))
     \/ ~prhasmsg[currpid] /\ Goto(Point("recv_block", 0, 0))
  /\ UNCHANGED <<sched, sleepv, semv, msgv, procv, prsem, waking>>

ReceiveBlock ==
  /\ Running("recv_block")
  /\ prstate' = [prstate EXCEPT ![currpid] = "RECV"]
  /\ Goto(Point("recv_resched", 0, 0))
  /\ UNCHANGED <<readylist, qkey, currpid, preempt>>
  /\ UNCHANGED <<sleepv, semv, msgv, procv, prsem, waking>>

ReceiveResched ==
  /\ Running("recv_resched")
  /\ Resched(prstate, readylist, qkey, preempt)
  /\ Goto(Point("recv_back", 0, 0))
  /\ UNCHANGED <<sleepv, semv, msgv, procv, prsem, waking>>

ReceiveTake ==
  /\ Running("recv_take") \/ Running("recv_back")
  /\ TakeMsg
  /\ Goto(UserCode)
  /\ UNCHANGED <<sched, sleepv, semv, procv, prsem, waking>>

-----------------------------------------------------------------------------
(* recvtime(d): sleep at most d ticks for a message.  The insertion into   *)
(* the sleep queue is module Clock's InsertdWalk and InsertdLink;          *)
(* RecvTimeTake is what follows the resched, whether a message or the      *)
(* clock ended the wait.                                                   *)
RecvTime(d) ==
  /\ UserCall
  /\ \/ /\ prhasmsg[currpid]
        /\ Goto(Point("rectim", 0, 0))
        /\ UNCHANGED due
     \/ /\ ~prhasmsg[currpid]
        /\ Goto(Point("recvtime", 0, d))
        /\ due' = [due EXCEPT ![currpid] = d]
  /\ UNCHANGED <<sched, sleepq, semv, msgv, procv, prsem, waking>>

RecvTimeTake ==
  /\ Running("rectim")
  /\ \/ prhasmsg[currpid] /\ TakeMsg
     \/ ~prhasmsg[currpid] /\ UNCHANGED msgv
  /\ Goto(UserCode)
  /\ UNCHANGED <<sched, sleepv, semv, procv, prsem, waking>>
=============================================================================
