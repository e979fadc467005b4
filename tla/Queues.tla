------------------------------- MODULE Queues -------------------------------
(***************************************************************************)
(* What the queue table promises: every queue is a sequence of processes,  *)
(* and each operation changes the one sequence it is about.                *)
(***************************************************************************)
EXTENDS Integers, SequencesExt

CONSTANTS
  Pid,         \* the processes
  Qid,         \* the queues
  Key          \* the keys that callers pass

VARIABLES
  queue,       \* the processes of each queue in order
  key          \* the key of each process

Listed == UNION {ToSet(queue[q]) : q \in Qid}

Init == queue = [q \in Qid |-> << >>] /\ key \in [Pid -> Int]

(* Link p in at place i of queue q.                                        *)
LinkAt(q, i, p) == queue' = [queue EXCEPT ![q] = InsertAt(@, i, p)]

Enqueue(p, q) ==
  /\ UNCHANGED key
  /\ p \notin Listed
  /\ LinkAt(q, Len(queue[q]) + 1, p)

(* In descending order of the keys, behind those that are equal.           *)
Insert(p, q, k) ==
  /\ key' = [key EXCEPT ![p] = k]
  /\ p \notin Listed
  /\ \E i \in 1 .. Len(queue[q]) + 1 :
       /\ \A j \in 1 .. i - 1 : key[queue[q][j]] >= k
       /\ i <= Len(queue[q]) => key[queue[q][i]] < k
       /\ LinkAt(q, i, p)

(* The sum of the first n keys of queue q, for each n: the time of its     *)
(* n-th process.                                                           *)
Time(q) ==
  LET sum[n \in 0 .. Len(queue[q])] == IF n = 0 THEN 0 ELSE sum[n - 1] + key[queue[q][n]]
  IN  sum

(* Into a list of delays, behind the processes that are due by then.       *)
InsertD(p, q, k) ==
  /\ p \notin Listed
  /\ \E i \in 1 .. Len(queue[q]) + 1 :
       /\ \A j \in 1 .. i - 1 : Time(q)[j] <= k
       /\ i <= Len(queue[q]) => Time(q)[i] > k
       /\ LinkAt(q, i, p)
       /\ LET delay == k - Time(q)[i - 1]
          IN  key' = [x \in Pid |->
                        IF x = p THEN delay
                        ELSE IF i <= Len(queue[q]) /\ x = queue[q][i] THEN key[x] - delay
                        ELSE key[x]]

(* Take p off the queue it is on.                                          *)
TakeOff(p) ==
  /\ UNCHANGED key
  /\ \E q \in Qid : \E i \in 1 .. Len(queue[q]) :
       queue[q][i] = p /\ queue' = [queue EXCEPT ![q] = RemoveAt(@, i)]

Next ==
  \/ \E p \in Pid, q \in Qid : Enqueue(p, q)
  \/ \E p \in Pid, q \in Qid, k \in Key : Insert(p, q, k) \/ InsertD(p, q, k)
  \/ \E p \in Pid : TakeOff(p)

Spec == Init /\ [][Next]_<<queue, key>>
=============================================================================
