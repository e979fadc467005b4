-------------------------------- MODULE Heap --------------------------------
(***************************************************************************)
(* What the memory allocator promises: a range of words, every one of them *)
(* either free or in exactly one interval that was handed out.             *)
(***************************************************************************)
EXTENDS Integers

CONSTANT Size        \* words of the heap

VARIABLES
  free,              \* the free words
  taken              \* the intervals handed out and not given back

Words == 0 .. Size - 1
Interval(at, n) == at .. at + n - 1

Init == free = Words /\ taken = {}

(* Hand out n consecutive words, all of them free.                         *)
Take(at, n) ==
  /\ Interval(at, n) \subseteq free
  /\ free'  = free \ Interval(at, n)
  /\ taken' = taken \cup {Interval(at, n)}

(* Take back an interval that was handed out.                              *)
Give(S) ==
  /\ free'  = free \cup S
  /\ taken' = taken \ {S}

Next ==
  \/ \E at \in Words, n \in 1 .. Size : Take(at, n)
  \/ \E S \in taken : Give(S)

Spec == Init /\ [][Next]_<<free, taken>>
=============================================================================
