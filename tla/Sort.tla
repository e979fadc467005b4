-------------------------------- MODULE Sort --------------------------------
(***************************************************************************)
(* qsort.c: quicksort in place with a partition into smaller, equal and    *)
(* larger elements that grows the equal ones from the middle.  Indexes     *)
(* count elements; an exchange moves whole elements.  lp .. hp are equal   *)
(* to the pivot, a .. i - 1 below it and j + 1 .. l - 1 above it.          *)
(***************************************************************************)
EXTENDS Integers, Sequences, FiniteSets

CONSTANTS
  MaxLen,  \* longest array
  Elems    \* elements, compared as numbers

ASSUME SortAssumption == MaxLen \in Nat /\ Elems \subseteq Int

VARIABLES
  arr,          \* the array, from index 0
  input,        \* checking only: what it was
  mode,         \* where qs1 is: start, the top of its loop, loop:, or outside
  a, l,         \* the part it sorts, a .. l - 1
  i, j, lp, hp,
  pending       \* parts that calls above this one go on with

sortvars == <<arr, input, mode, a, l, i, j, lp, hp, pending>>
Arrays == UNION {[0 .. n - 1 -> Elems] : n \in 0 .. MaxLen}

SortInit ==
  /\ arr = << >> /\ input = << >> /\ mode = "outside"
  /\ a = 0 /\ l = 0 /\ i = 0 /\ j = 0 /\ lp = 0 /\ hp = 0
  /\ pending = << >>

\* qsexc and qstexc.
Exchanged(p, q) == [arr EXCEPT ![p] = arr[q], ![q] = arr[p]]
Rotated(p, q, r) ==
  LET first == [arr EXCEPT ![p] = arr[r]]
      then  == [first EXCEPT ![r] = first[q]]
  IN  [then EXCEPT ![q] = arr[p]]

Qsort(in) ==
  /\ mode = "outside"
  /\ arr' = in /\ input' = in
  /\ a' = 0 /\ l' = Cardinality(DOMAIN in)
  /\ mode' = "start"
  /\ UNCHANGED <<i, j, lp, hp, pending>>

\* start: of qs1: a short part returns to the call that pends, if any.
Short_Two == l - a <= 2    \* mutant
Short == l - a <= 1
Return ==
  /\ mode = "start" /\ Short /\ pending # << >>
  /\ a' = pending[1].a /\ l' = pending[1].l
  /\ pending' = Tail(pending)
  /\ UNCHANGED <<arr, input, mode, i, j, lp, hp>>
Finish ==
  /\ mode = "start" /\ Short /\ pending = << >>
  /\ mode' = "sorted"
  /\ UNCHANGED <<arr, input, a, l, i, j, lp, hp, pending>>
Partition ==
  /\ mode = "start" /\ ~Short
  /\ lp' = a + (l - a) \div 2 /\ hp' = lp'
  /\ i' = a /\ j' = l - 1
  /\ mode' = "top"
  /\ UNCHANGED <<arr, input, a, l, pending>>

\* The top of the loop looks at i, below the pivots.
LeftEqual ==
  /\ mode = "top" /\ i < lp /\ arr[i] = arr[lp]
  /\ lp' = lp - 1
  /\ arr' = Exchanged(i, lp - 1)
  /\ UNCHANGED <<input, mode, a, l, i, j, hp, pending>>
LeftBelow ==
  /\ mode = "top" /\ i < lp /\ arr[i] < arr[lp]
  /\ i' = i + 1
  /\ UNCHANGED <<arr, input, mode, a, l, j, lp, hp, pending>>
LeftDone ==
  /\ mode = "top" /\ (i < lp => arr[i] > arr[lp])
  /\ mode' = "loop"
  /\ UNCHANGED <<arr, input, a, l, i, j, lp, hp, pending>>

\* loop: looks at j, above the pivots; i is at lp or at one that is too large.
RightEqual ==
  /\ mode = "loop" /\ j > hp /\ arr[hp] = arr[j]
  /\ hp' = hp + 1
  /\ arr' = Exchanged(hp + 1, j)
  /\ UNCHANGED <<input, mode, a, l, i, j, lp, pending>>
RightBelow ==
  /\ mode = "loop" /\ j > hp /\ arr[hp] > arr[j]
  /\ \/ /\ i = lp
        /\ hp' = hp + 1 /\ lp' = lp + 1 /\ i' = lp + 1
        /\ arr' = Rotated(i, hp + 1, j)
        /\ UNCHANGED <<mode, j>>
     \/ /\ i # lp
        /\ arr' = Exchanged(i, j)
        /\ j' = j - 1 /\ i' = i + 1
        /\ mode' = "top"
        /\ UNCHANGED <<lp, hp>>
  /\ UNCHANGED <<input, a, l, pending>>
RightAbove ==
  /\ mode = "loop" /\ j > hp /\ arr[hp] < arr[j]
  /\ j' = j - 1
  /\ UNCHANGED <<arr, input, mode, a, l, i, lp, hp, pending>>
RightDone ==
  /\ mode = "loop" /\ j <= hp /\ i # lp
  /\ lp' = lp - 1 /\ hp' = hp - 1 /\ j' = hp - 1
  /\ arr' = Rotated(j, lp - 1, i)
  /\ mode' = "top"
  /\ UNCHANGED <<input, a, l, i, pending>>

\* Recursion on one side of the pivots, and start: again with the other.
LeftFirst_Larger(left, right) == left >= right    \* mutant
LeftFirst(left, right) == left < right
BehindPivots == hp + 1
Split ==
  /\ mode = "loop" /\ j <= hp /\ i = lp
  /\ IF LeftFirst(lp - a, l - hp)
     THEN /\ a' = a /\ l' = lp
          /\ pending' = <<[a |-> BehindPivots, l |-> l]>> \o pending
     ELSE /\ a' = BehindPivots /\ l' = l
          /\ pending' = <<[a |-> a, l |-> lp]>> \o pending
  /\ mode' = "start"
  /\ UNCHANGED <<arr, input, i, j, lp, hp>>

\* The caller has its array.
SortReturn ==
  /\ mode = "sorted"
  /\ arr' = << >> /\ input' = << >> /\ mode' = "outside"
  /\ a' = 0 /\ l' = 0 /\ i' = 0 /\ j' = 0 /\ lp' = 0 /\ hp' = 0
  /\ UNCHANGED pending

SortStep ==
  \/ Return \/ Finish \/ Partition \/ LeftEqual \/ LeftBelow \/ LeftDone
  \/ RightEqual \/ RightBelow \/ RightAbove \/ RightDone \/ Split \/ SortReturn
SortNext == SortStep \/ \E in \in Arrays : Qsort(in)

SortSpec == SortInit /\ [][SortNext]_sortvars

-----------------------------------------------------------------------------
Occurs(f, v) == Cardinality({k \in DOMAIN f : f[k] = v})

\* When qsort returns the array is in order and holds the elements it held;
\* while it works no element is lost, and none is compared beyond the array.
SortsInput ==
  /\ \A v \in Elems : Occurs(arr, v) = Occurs(input, v)
  /\ mode = "sorted" => \A p, q \in DOMAIN arr : p < q => arr[p] <= arr[q]

\* Calls nest no deeper than the logarithm of the length, which a process's
\* stack of fixed size relies on.
Power2[n \in 0 .. MaxLen] == IF n = 0 THEN 1 ELSE 2 * Power2[n - 1]
NestsLittle == Power2[Len(pending)] <= 1 + Cardinality(DOMAIN arr)
=============================================================================
