------------------------------ MODULE MCKernel ------------------------------
(* Kernel for TLC: the workloads that the cfg files choose from, and a view.*)
EXTENDS Kernel

SemaphoreCalls == {"create", "resume", "suspend", "yield", "semcreate", "wait",
                   "signal", "signaln", "semdelete", "semreset"}
MessageCalls   == {"create", "resume", "chprio", "sleepms", "send", "receive", "recvclr",
                   "recvtime"}
LifeCalls      == {"create", "resume", "kill", "semcreate", "wait", "sleepms"}
TurnCalls      == {"create", "resume", "semcreate", "wait", "signal", "sleepms", "recvtime"}

EarlyReturnCalls == {"create", "resume", "send", "receive"}
OverdueCalls     == {"create", "resume", "recvtime"}
KillRaceCalls    == {"create", "resume", "kill", "recvtime"}
StrandedCalls    == {"create", "resume", "semcreate", "wait", "semdelete"}

(* What the future of a state depends on.  The fields of an entry that     *)
(* every path overwrites before reading are left out: those of a free      *)
(* entry (but for the stack a second kill of it would free), the key of a  *)
(* process on no list, the semaphore of one that does not wait and a       *)
(* message that was taken.  No property reads them.                        *)
Kept(f, keep(_)) == [p \in Pid |-> IF keep(p) THEN f[p] ELSE 0]
IsLive(p)   == prstate[p] # "FREE"
HasStack(p) == IsLive(p) \/ \E q \in Pid : pc[q].at = "kill" /\ pc[q].obj = p
HasKey(p)   == prstate[p] \in Sleeping \cup {"READY"}
Waits(p)    == prstate[p] = "WAIT"
HasMsg(p)   == IsLive(p) /\ prhasmsg[p]

LiveView ==
  <<prstate, currpid, prcount, nextpid, readylist, sleepq, preempt, stkfree, pc,
    waking, due, semv, Kept(prprio, IsLive), Kept(prparent, IsLive),
    Kept(prstkbase, HasStack), Kept(qkey, HasKey), Kept(prsem, Waits),
    Kept(prmsg, HasMsg), {p \in Pid : HasMsg(p)}>>
=============================================================================
