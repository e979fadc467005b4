---------------------------- MODULE MCQueueLinks ----------------------------
(* QueueLinks for TLC: a ready list, a sleep queue and a semaphore's queue. *)
EXTENDS QueueLinks

ReadyList  == {NPROC}
SleepQueue == {NPROC + 2}

(* A process on no queue keeps links, and one on no keyed queue a key, that *)
(* every call overwrites before it reads them.                             *)
LinkView ==
  LET keyed == UNION {ToSet(ListOf(q)) : q \in Sorted \cup Delta}
      kept(f, live) == [e \in Entry |-> IF e \in Pid \ live THEN 0 ELSE f[e]]
  IN  <<nextqid, kept(qnext, Listed), kept(qprev, Listed), kept(qkey, keyed)>>
=============================================================================
