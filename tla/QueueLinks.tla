----------------------------- MODULE QueueLinks -----------------------------
(***************************************************************************)
(* queuetab (queue.c): one array of links and keys for all queues.  Entry  *)
(* p < NPROC belongs to process p; a queue is named by its head entry, and *)
(* the entry behind that is its tail.  The head's key is above and the     *)
(* tail's below every other, so that insert() stops without counting.      *)
(*                                                                         *)
(* The kernel calls these functions with interrupts disabled, for a pid on *)
(* no queue if it is linked in and on some queue if it is taken off.       *)
(***************************************************************************)
EXTENDS Integers, SequencesExt

CONSTANTS
  NPROC,       \* processes
  NQUEUE,      \* queues: readylist, sleepq and one for each semaphore
  Keys,        \* keys that callers pass
  Sorted,      \* queues in order of priority (readylist)
  Delta        \* queues kept as lists of delays (sleepq)

EMPTY  == -1
NQENT  == NPROC + 2 * NQUEUE
Entry  == 0 .. NQENT - 1
Pid    == 0 .. NPROC - 1
Qid    == {NPROC + 2 * i : i \in 0 .. NQUEUE - 1}

(* Beyond every key and every delay that is left.                          *)
MAXKEY == 1000
MINKEY == -1000

ASSUME TableAssumption == NPROC \in Nat /\ NQUEUE \in Nat /\ NPROC > 0
ASSUME KeysAssumption  == Keys \subseteq MINKEY + 1 .. MAXKEY
ASSUME QueuesAssumption == Sorted \subseteq Qid /\ Delta \subseteq Qid \ Sorted

VARIABLES
  qnext, qprev, qkey,     \* queuetab
  nextqid                 \* the next queue that newqueue() hands out

linkvars == <<qnext, qprev, qkey, nextqid>>

queuehead(q) == q
queuetail(q) == q + 1
firstid(q)   == qnext[queuehead(q)]
lastid(q)    == qprev[queuetail(q)]
isempty(q)   == firstid(q) >= NPROC
Queues       == {q \in Qid : q < nextqid}

LinksInit ==
  /\ qnext   = [e \in Entry |-> 0]
  /\ qprev   = [e \in Entry |-> 0]
  /\ qkey    = [e \in Entry |-> 0]
  /\ nextqid = NPROC

-----------------------------------------------------------------------------
(* newqueue(): the head and the tail linked to each other.                 *)
NewQueue ==
  /\ nextqid < NQENT
  /\ LET q == nextqid
     IN  /\ qnext' = [qnext EXCEPT ![queuehead(q)] = queuetail(q), ![queuetail(q)] = EMPTY]
         /\ qprev' = [qprev EXCEPT ![queuehead(q)] = EMPTY, ![queuetail(q)] = queuehead(q)]
         /\ qkey'  = [qkey EXCEPT ![queuehead(q)] = MAXKEY, ![queuetail(q)] = MINKEY]
  /\ nextqid' = nextqid + 2

(* Link p in between prev and next.                                        *)
LinkBetween_OneWay(p, prev, next) ==    \* mutant
  /\ qnext' = [qnext EXCEPT ![p] = next, ![prev] = p]
  /\ qprev' = [qprev EXCEPT ![p] = prev]
LinkBetween(p, prev, next) ==
  /\ qnext' = [qnext EXCEPT ![p] = next, ![prev] = p]
  /\ qprev' = [qprev EXCEPT ![p] = prev, ![next] = p]

Enqueue(p, q) ==
  /\ LinkBetween(p, lastid(q), queuetail(q))
  /\ UNCHANGED <<qkey, nextqid>>

(* The entry that each number of steps along links from start leads to; a  *)
(* walk that has come to an end (EMPTY) stays there.                       *)
Walk(links, start) ==
  LET next == [e \in Entry |-> IF links[e] = EMPTY THEN e ELSE links[e]]
      at[n \in 0 .. NQENT] == IF n = 0 THEN start ELSE next[at[n - 1]]
  IN  at

(* insert(): the first entry whose key is below the new one.               *)
InsertGoes(e, k) == qkey[e] >= k
Insert(p, q, k) ==
  /\ LET at == Walk(qnext, firstid(q))
     IN  \E n \in 0 .. NQENT :
           /\ \A j \in 0 .. n - 1 : InsertGoes(at[j], k)
           /\ ~InsertGoes(at[n], k)
           /\ LinkBetween(p, qprev[at[n]], at[n])
  /\ qkey' = [qkey EXCEPT ![p] = k]
  /\ UNCHANGED nextqid

(* insertd(): walk on while the delay that is left is not below the key,   *)
(* and take each key passed off it; prev follows next.                     *)
LeftAfter(at, k) ==
  LET left[n \in 0 .. NPROC] == IF n = 0 THEN k ELSE left[n - 1] - qkey[at[n - 1]]
  IN  left
InsertDGoes_Past(q, e, left) == e # queuetail(q) /\ qkey[e] < left    \* mutant
InsertDGoes(q, e, left) == e # queuetail(q) /\ qkey[e] <= left
InsertD(p, q, k) ==
  /\ LET at   == Walk(qnext, firstid(q))
         left == LeftAfter(at, k)
     IN  \E n \in 0 .. NPROC :
           /\ \A j \in 0 .. n - 1 : InsertDGoes(q, at[j], left[j])
           /\ ~InsertDGoes(q, at[n], left[n])
           /\ LinkBetween(p, IF n = 0 THEN queuehead(q) ELSE at[n - 1], at[n])
           /\ qkey' = IF at[n] = queuetail(q) THEN [qkey EXCEPT ![p] = left[n]]
                      ELSE [qkey EXCEPT ![p] = left[n], ![at[n]] = @ - left[n]]
  /\ UNCHANGED nextqid

(* getitem(): the entry keeps its own links.                               *)
GetItem(p) ==
  /\ qnext' = [qnext EXCEPT ![qprev[p]] = qnext[p]]
  /\ qprev' = [qprev EXCEPT ![qnext[p]] = qprev[p]]
  /\ UNCHANGED <<qkey, nextqid>>

(* dequeue(): getfirst() and the entry's own links emptied.                *)
Dequeue(q) ==
  /\ ~isempty(q)
  /\ LET p == firstid(q)
     IN  /\ qnext' = [qnext EXCEPT ![qprev[p]] = qnext[p], ![p] = EMPTY]
         /\ qprev' = [qprev EXCEPT ![qnext[p]] = qprev[p], ![p] = EMPTY]
  /\ UNCHANGED <<qkey, nextqid>>

GetLast(q) == ~isempty(q) /\ GetItem(lastid(q))

-----------------------------------------------------------------------------
(* The queue as a sequence: the processes from the head on, along at.      *)
Spelled(at) ==
  LET ends == {n \in 0 .. NQENT : at[n] \notin Pid} \cup {NQENT}
  IN  [j \in 1 .. Min(ends) |-> at[j - 1]]
ListOf(q) == IF q < nextqid THEN Spelled(Walk(qnext, firstid(q))) ELSE << >>
Listed    == UNION {ToSet(ListOf(q)) : q \in Qid}

LinksNext ==
  \/ NewQueue
  \/ \E p \in Pid \ Listed :
       \/ \E q \in Queues \ (Sorted \cup Delta) : Enqueue(p, q)
       \/ \E q \in Queues \cap Sorted, k \in Keys : Insert(p, q, k)
       \/ \E q \in Queues \cap Delta, k \in Keys : InsertD(p, q, k)
  \/ \E p \in Listed : GetItem(p)
  \/ \E q \in Queues : Dequeue(q) \/ GetLast(q)

LinksSpec == LinksInit /\ [][LinksNext]_linkvars

-----------------------------------------------------------------------------
(* The links and keys of the table implement the sequences that the rest   *)
(* of the kernel takes its queues to be: each call changes one of them, as *)
(* it should, though all share one array.                                  *)
Q == INSTANCE Queues WITH queue <- [q \in Qid |-> ListOf(q)],
                          key   <- [p \in Pid |-> qkey[p]], Key <- Keys
SpellsQueues == Q!Spec

(* Both directions spell the same queue, from head to tail and back, and   *)
(* the keys of heads and tails are the limits that stop a walk.            *)
LinksAgree ==
  \A q \in Queues :
    /\ Walk(qnext, queuehead(q))[Len(ListOf(q)) + 1] = queuetail(q)
    /\ Walk(qprev, queuetail(q))[Len(ListOf(q)) + 1] = queuehead(q)
    /\ Spelled(Walk(qprev, lastid(q))) = Reverse(ListOf(q))
    /\ qkey[queuehead(q)] = MAXKEY /\ qkey[queuetail(q)] = MINKEY
=============================================================================
