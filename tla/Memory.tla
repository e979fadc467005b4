------------------------------- MODULE Memory -------------------------------
(***************************************************************************)
(* The kernel's memory (meminit.c, memory.h) and malloc() above it: a list   *)
(* of free blocks in address order, from which getmem carves the first and *)
(* getstk the last block that fits, and into which freemem merges.         *)
(*                                                                         *)
(* Addresses and lengths are in words of four bytes, counted from minheap. *)
(* A memblk header takes MB words, and lengths are multiples of MB.  Every *)
(* call runs with interrupts disabled and is one step; a request that fails *)
(* changes nothing and is none.                                            *)
(***************************************************************************)
EXTENDS Integers, FiniteSets, SequencesExt

CONSTANTS
  HeapSize,    \* words from minheap to maxheap
  Sizes        \* words that callers ask for

MB == 2
RoundMB(n) == ((n + MB - 1) \div MB) * MB

ASSUME HeapAssumption  == HeapSize \in Nat /\ HeapSize > 0 /\ HeapSize % MB = 0
ASSUME SizesAssumption == Sizes \subseteq Nat

VARIABLES
  memlist,     \* the free blocks in the order of their links
  mlength,     \* memlist.mlength: the free words
  held         \* what callers hold: the pointer they got, how, and the size

memvars == <<memlist, mlength, held>>

Words == 0 .. HeapSize - 1
Block(at, len) == [at |-> at, len |-> len]
Holding(ptr, how, size) == [ptr |-> ptr, how |-> how, size |-> size]

(* meminit(): one block.                                                   *)
MemInit ==
  /\ memlist    = <<Block(0, HeapSize)>>
  /\ mlength = HeapSize
  /\ held    = {}

-----------------------------------------------------------------------------
(* Allocation.                                                             *)

Fits(i, n) == i \in 1 .. Len(memlist) /\ memlist[i].len >= n
FirstFit(i, n) == Fits(i, n) /\ \A j \in 1 .. i - 1 : ~Fits(j, n)
LastFit(i, n)  == Fits(i, n) /\ \A j \in i + 1 .. Len(memlist) : ~Fits(j, n)

(* The list without the first, or the last, n words of its i-th block.     *)
WithoutBottom(i, n) ==
  IF memlist[i].len = n THEN RemoveAt(memlist, i)
  ELSE [memlist EXCEPT ![i] = Block(@.at + n, @.len - n)]
WithoutTop(i, n) ==
  IF memlist[i].len = n THEN RemoveAt(memlist, i)
  ELSE [memlist EXCEPT ![i] = Block(@.at, @.len - n)]

(* memlist.mlength when size words have been taken.                        *)
LengthWithout(size) == mlength - RoundMB(size)

(* getmem(size) gives the lowest address of the block.                     *)
GetMem(size) ==
  /\ size # 0
  /\ \E i \in 1 .. Len(memlist) :
       /\ FirstFit(i, RoundMB(size))
       /\ memlist' = WithoutBottom(i, RoundMB(size))
       /\ held' = held \cup {Holding(memlist[i].at, "mem", size)}
  /\ mlength' = LengthWithout(size)

(* getstk(size) gives the address of the highest word of the block.        *)
GetStk(size) ==
  /\ size # 0
  /\ \E i \in 1 .. Len(memlist) :
       /\ LastFit(i, RoundMB(size))
       /\ memlist' = WithoutTop(i, RoundMB(size))
       /\ held' = held \cup {Holding(memlist[i].at + memlist[i].len - 1, "stk", size)}
  /\ mlength' = LengthWithout(size)

(* malloc(size) puts a header, which keeps the length, below the block.    *)
Malloc(size) ==
  /\ size # 0
  /\ \E i \in 1 .. Len(memlist) :
       /\ FirstFit(i, RoundMB(size + MB))
       /\ memlist' = WithoutBottom(i, RoundMB(size + MB))
       /\ held' = held \cup {Holding(memlist[i].at + MB, "malloc", size)}
  /\ mlength' = LengthWithout(size + MB)

-----------------------------------------------------------------------------
(* Release.                                                                *)

(* freemem walks past the blocks below the one it frees: i is the place of *)
(* the first at or above it.                                               *)
Place(i, at) ==
  /\ i \in 1 .. Len(memlist) + 1
  /\ \A j \in 1 .. i - 1 : memlist[j].at < at
  /\ i <= Len(memlist) => memlist[i].at >= at

Top(i) == memlist[i].at + memlist[i].len

(* The block at .. at + n - 1 overlaps its neighbours in the list.        *)
Overlaps_Previous(i, at, n) == i > 1 /\ at < Top(i - 1)    \* mutant
Overlaps(i, at, n) ==
  \/ i > 1 /\ at < Top(i - 1)
  \/ i <= Len(memlist) /\ at + n > memlist[i].at

JoinsPrevious(i, at) == i > 1 /\ Top(i - 1) = at
JoinsNext_Never(i, at, n) == FALSE    \* mutant
JoinsNext(i, at, n)  == i <= Len(memlist) /\ at + n = memlist[i].at

(* The list with that block linked in or merged with its neighbours.       *)
Freed(i, at, n) ==
  LET first == IF JoinsPrevious(i, at) THEN i - 1 ELSE i
      last  == IF JoinsNext(i, at, n)  THEN i     ELSE i - 1
      from  == IF JoinsPrevious(i, at) THEN memlist[i - 1].at ELSE at
      to    == IF JoinsNext(i, at, n)  THEN Top(i) ELSE at + n
  IN  SubSeq(memlist, 1, first - 1) \o <<Block(from, to - from)>>
        \o SubSeq(memlist, last + 1, Len(memlist))

(* freemem(at, size): a block that overlaps free memory is refused, which  *)
(* its callers do not notice.                                              *)
FreeMem(at, size) ==
  LET n == RoundMB(size)
  IN  /\ size # 0
      /\ at \in 0 .. HeapSize
      /\ \E i \in 1 .. Len(memlist) + 1 :
           /\ Place(i, at)
           /\ \/ /\ Overlaps(i, at, n)
                 /\ UNCHANGED <<memlist, mlength>>
              \/ /\ ~Overlaps(i, at, n)
                 /\ memlist' = Freed(i, at, n)
                 /\ mlength' = mlength + n

(* The block that a holder gives back: freemem(p, size), the macro         *)
(* freestk(p, size), and free(p), which reads the header.                  *)
FreedSize(h) == IF h.how = "malloc" THEN h.size + MB ELSE h.size
FreedAt(h) ==
  CASE h.how = "mem"    -> h.ptr
    [] h.how = "stk"    -> h.ptr - RoundMB(h.size) + 1
    [] h.how = "malloc" -> h.ptr - MB

Free(h) == FreeMem(FreedAt(h), FreedSize(h)) /\ held' = held \ {h}

-----------------------------------------------------------------------------
(* A block freed again while its words are still free, as kill() does with *)
(* the stack of a process that is killed twice.                            *)
WordsOf(at, n)  == at .. at + n - 1
FreeWords       == UNION {WordsOf(memlist[i].at, memlist[i].len) : i \in 1 .. Len(memlist)}
FreeAgain(at, size) ==
  /\ at % MB = 0
  /\ WordsOf(at, RoundMB(size)) \subseteq FreeWords
  /\ FreeMem(at, size)
  /\ UNCHANGED held

MemNext ==
  \/ \E size \in Sizes : GetMem(size) \/ GetStk(size) \/ Malloc(size)
  \/ \E h \in held : Free(h)
  \/ \E at \in Words, size \in Sizes : FreeAgain(at, size)

MemSpec == MemInit /\ [][MemNext]_memvars

-----------------------------------------------------------------------------
Taken(h) == WordsOf(FreedAt(h), RoundMB(FreedSize(h)))
TakenWords == UNION {Taken(h) : h \in held}

(* The allocator keeps its promise: the free words and those of every      *)
(* holder never overlap, and none is lost.                                 *)
H == INSTANCE Heap WITH Size <- HeapSize, free <- FreeWords,
                        taken <- {Taken(h) : h \in held}
KeepsPromise == H!Spec

(* The longest intervals of the set S.                                     *)
Runs(S) ==
  {r \in {WordsOf(a, n) : a \in Words, n \in 1 .. HeapSize} :
     /\ r \subseteq S
     /\ \A x \in r : x - 1 \in S => x - 1 \in r
     /\ \A x \in r : x + 1 \in S => x + 1 \in r}

(* Every gap between what is held is one block, the blocks are in address  *)
(* order and their lengths add up to memlist.mlength: a request fails only *)
(* if no gap is long enough, and when everything has been freed the heap   *)
(* is one block again.                                                     *)
FreeListExact ==
  /\ {WordsOf(memlist[i].at, memlist[i].len) : i \in 1 .. Len(memlist)} = Runs(Words \ TakenWords)
  /\ \A i \in 1 .. Len(memlist) - 1 : Top(i) < memlist[i + 1].at
  /\ mlength = Cardinality(FreeWords)
=============================================================================
