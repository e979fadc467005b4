-------------------------------- MODULE Lists --------------------------------
(***************************************************************************)
(* Process queues as sequences: what it is to list a set of processes, and *)
(* the place at which insert() of queue.c puts a key.                      *)
(***************************************************************************)
EXTENDS Integers, SequencesExt

(* q lists every element of the set S, and nothing else, once.             *)
Enumerates(q, S) ==
  /\ q \in Seq(S)
  /\ \A i, j \in 1 .. Len(q) : q[i] = q[j] => i = j
  /\ \A x \in S : \E i \in 1 .. Len(q) : q[i] = x

(* insert() walks past every key not below the new one, so i is the place  *)
(* of the first lower key, or the end of the list.                         *)
WalksPast(key, new) == key >= new

IsInsertPos(list, keys, new, i) ==
  /\ i \in 1 .. Len(list) + 1
  /\ \A j \in 1 .. i - 1 : WalksPast(keys[list[j]], new)
  /\ i <= Len(list) => ~WalksPast(keys[list[i]], new)

(* The list is in descending order of its keys.                            *)
Descending(list, keys) ==
  \A i, j \in 1 .. Len(list) : i < j => keys[list[i]] >= keys[list[j]]
=============================================================================
