---------------------------- MODULE LibraryProofs ----------------------------
(***************************************************************************)
(* Proofs about the C library: the quicksort of Sort, the functions of     *)
(* Strings, strtok among them, the numbers of Numbers and the directives   *)
(* of Format.                                                              *)
(***************************************************************************)
EXTENDS Sort, Strings, Numbers, Format, ListLemmas

-----------------------------------------------------------------------------
(* Quicksort.                                                              *)

(* The parts that are still to be sorted: the one at hand, and those that  *)
(* calls above this one go on with.                                        *)
Part(m) == IF m = 0 THEN a .. l - 1 ELSE pending[m].a .. pending[m].l - 1
Together(p, q) == \E m \in 0 .. Len(pending) : p \in Part(m) /\ q \in Part(m)

(* Parts never overlap, and elements that are not in the same one are in   *)
(* order already.                                                          *)
Working ==
  /\ \E n \in Nat : arr \in [0 .. n - 1 -> Int]
  /\ a \in Int /\ l \in Int /\ pending \in Seq([a : Int, l : Int])
  /\ \A m \in 0 .. Len(pending) : Part(m) \subseteq DOMAIN arr
  /\ \A m, n \in 0 .. Len(pending) : m # n => Part(m) \cap Part(n) = {}
  /\ \A p, q \in DOMAIN arr : p < q => arr[p] <= arr[q] \/ Together(p, q)

(* Inside the part at hand lp .. hp are equal to the pivot, a .. i - 1 are *)
(* below it and j + 1 .. l - 1 above it; from loop: on, so is i.           *)
Partitioned ==
  /\ i \in Int /\ j \in Int /\ lp \in Int /\ hp \in Int
  /\ a <= i /\ i <= lp /\ lp <= hp /\ hp <= j /\ j <= l - 1
  /\ \A k \in lp .. hp : arr[k] = arr[lp]
  /\ \A k \in a .. i - 1 : arr[k] < arr[lp]
  /\ \A k \in j + 1 .. l - 1 : arr[k] > arr[lp]
  /\ mode = "loop" => i = lp \/ arr[i] > arr[lp]

InOrder == \A p, q \in DOMAIN arr : p < q => arr[p] <= arr[q]
SameElements == \A v \in Elems : Occurs(arr, v) = Occurs(input, v)

SortInv ==
  /\ mode \in {"outside", "start", "top", "loop", "sorted"}
  /\ SameElements
  /\ mode \in {"outside", "sorted"} => pending = << >>
  /\ mode = "sorted" => InOrder
  /\ mode \in {"start", "top", "loop"} => Working
  /\ mode \in {"top", "loop"} => Partitioned

(* Elements that change places are as many as before.                      *)
LEMMA MovedOccurs ==
  ASSUME NEW D, IsFiniteSet(D), NEW f, NEW g, DOMAIN f = D, DOMAIN g = D,
         NEW h \in Bijection(D, D), \A k \in D : g[k] = f[h[k]], NEW v
  PROVE  Occurs(g, v) = Occurs(f, v)
<1> DEFINE S == {k \in D : g[k] = v}
           T == {k \in D : f[k] = v}
<1>1. /\ h \in [D -> D]
      /\ \A m, n \in D : h[m] = h[n] => m = n
      /\ \A t \in D : \E s \in D : h[s] = t
  BY DEF Bijection, Injection, Surjection, IsInjective
<1>2. [k \in S |-> h[k]] \in Bijection(S, T)
  <2> DEFINE F == [k \in S |-> h[k]]
  <2>1. F \in [S -> T]
    BY <1>1
  <2>2. \A m, n \in S : F[m] = F[n] => m = n
    BY <1>1
  <2>3. \A t \in T : \E s \in S : F[s] = t
    <3> TAKE t \in T
    <3>1. PICK s \in D : h[s] = t
      BY <1>1
    <3> QED BY <3>1
  <2> HIDE DEF F, S, T
  <2>4. F \in Bijection(S, T)
    BY <2>1, <2>2, <2>3, Fun_IsBij
  <2> QED BY <2>4 DEF F
<1>3. IsFiniteSet(S)
  BY FS_Subset
<1> HIDE DEF S, T
<1>4. ExistsBijection(S, T)
  BY <1>2 DEF ExistsBijection
<1>5. Cardinality(T) = Cardinality(S)
  BY <1>3, <1>4, FS_Bijection
<1> QED BY <1>5 DEF Occurs, S, T

(* Elements of the part at hand change places.                             *)
LEMMA ShuffleKeeps ==
  ASSUME Working, SameElements,
         NEW h \in Bijection(DOMAIN arr, DOMAIN arr),
         arr' = [k \in DOMAIN arr |-> arr[h[k]]],
         \A k \in a .. l - 1 : h[k] \in a .. l - 1,
         \A k \in DOMAIN arr : k \notin a .. l - 1 => h[k] = k,
         UNCHANGED <<a, l, pending, input>>
  PROVE  Working' /\ SameElements'
<1> DEFINE D == DOMAIN arr
<1>0. h \in [D -> D]
  BY DEF Bijection, Injection
<1>1. PICK n \in Nat : arr \in [0 .. n - 1 -> Int]
  BY DEF Working
<1>2. IsFiniteSet(D) /\ D = 0 .. n - 1
  BY <1>1, FS_Interval
<1>3. DOMAIN arr' = D /\ \A k \in D : arr'[k] = arr[h[k]]
  OBVIOUS
<1>4. SameElements'
  <2>1. ASSUME NEW v \in Elems
        PROVE  Occurs(arr', v) = Occurs(input', v)
    <3> HIDE DEF D
    <3>1. Occurs(arr', v) = Occurs(arr, v)
      BY <1>2, <1>3, MovedOccurs DEF D
    <3> QED BY <3>1 DEF SameElements
  <2> QED BY <2>1 DEF SameElements
<1>5. arr' \in [0 .. n - 1 -> Int]
  BY <1>0, <1>1, <1>2
<1>6. \A m : Part(m)' = Part(m)
  BY DEF Part
<1>7. \A m \in 0 .. Len(pending) : Part(m) \subseteq D
  BY DEF Working
<1>8. ASSUME NEW p \in D, NEW q \in D, p < q
      PROVE  arr'[p] <= arr'[q] \/ Together(p, q)
  <2>0. 0 \in 0 .. Len(pending) /\ Part(0) = a .. l - 1 /\ a \in Int /\ l \in Int
        /\ p \in Int /\ q \in Int /\ h[p] \in Int /\ h[q] \in Int /\ h[p] \in D /\ h[q] \in D
    BY <1>0, <1>2 DEF Working, Part
  <2>1. CASE p \in a .. l - 1 /\ q \in a .. l - 1
    BY <2>0, <2>1 DEF Together
  <2>2. CASE p \in a .. l - 1 /\ q \notin a .. l - 1
    <3>1. h[p] \in a .. l - 1 /\ h[q] = q
      BY <2>2
    <3>2. h[p] < q
      BY <2>0, <1>8, <2>2, <3>1
    <3>3. arr[h[p]] <= arr[q] \/ Together(h[p], q)
      BY <2>0, <3>2 DEF Working
    <3>4. ~Together(h[p], q)
      BY <2>0, <2>2, <3>1 DEF Together, Working
    <3> QED BY <1>3, <3>1, <3>3, <3>4
  <2>3. CASE p \notin a .. l - 1 /\ q \in a .. l - 1
    <3>1. h[q] \in a .. l - 1 /\ h[p] = p
      BY <2>3
    <3>2. p < h[q]
      BY <2>0, <1>8, <2>3, <3>1
    <3>3. arr[p] <= arr[h[q]] \/ Together(p, h[q])
      BY <2>0, <3>2 DEF Working
    <3>4. ~Together(p, h[q])
      BY <2>0, <2>3, <3>1 DEF Together, Working
    <3> QED BY <1>3, <3>1, <3>3, <3>4
  <2>4. CASE p \notin a .. l - 1 /\ q \notin a .. l - 1
    BY <1>3, <1>8, <2>4 DEF Working
  <2> QED BY <2>1, <2>2, <2>3, <2>4
<1>9. \A p, q : Together(p, q)' = Together(p, q)
  BY <1>6 DEF Together
<1>10. Working'
  BY <1>2, <1>3, <1>5, <1>6, <1>7, <1>8, <1>9 DEF Working
<1> QED BY <1>4, <1>10

(* qsexc exchanges two elements, qstexc three, of which the last two may   *)
(* be the same.                                                            *)
LEMMA ExchangeKeeps ==
  ASSUME Working, SameElements, NEW p \in a .. l - 1, NEW q \in a .. l - 1,
         arr' = Exchanged(p, q), UNCHANGED <<a, l, pending, input>>
  PROVE  /\ Working' /\ SameElements'
         /\ \A k \in a .. l - 1 :
              arr'[k] = IF k = q THEN arr[p] ELSE IF k = p THEN arr[q] ELSE arr[k]
<1> DEFINE D == DOMAIN arr
           h == [k \in D |-> IF k = q THEN p ELSE IF k = p THEN q ELSE k]
<1>1. a .. l - 1 \subseteq D
  <2>1. 0 \in 0 .. Len(pending)
    BY DEF Working
  <2> QED BY <2>1 DEF Working, Part
<1>2. PICK n \in Nat : arr \in [0 .. n - 1 -> Int]
  BY DEF Working
<1>3. DOMAIN arr' = D /\ arr' = [k \in D |-> arr[h[k]]]
  <2>1. arr' = [k \in D |-> IF k = q THEN arr[p] ELSE IF k = p THEN arr[q] ELSE arr[k]]
    BY <1>1, <1>2 DEF Exchanged
  <2>2. \A k \in D : arr[h[k]] = IF k = q THEN arr[p] ELSE IF k = p THEN arr[q] ELSE arr[k]
    OBVIOUS
  <2> HIDE DEF h
  <2> QED BY <2>1, <2>2
<1>4. h \in Bijection(D, D)
  <2>1. h \in [D -> D]
    BY <1>1
  <2>2. \A s, t \in D : h[s] = h[t] => s = t
    OBVIOUS
  <2>3. \A t \in D : \E s \in D : h[s] = t
    <3>1. \A t \in D : h[h[t]] = t /\ h[t] \in D
      BY <1>1
    <3> HIDE DEF h
    <3> QED BY <3>1
  <2> HIDE DEF h
  <2> QED BY <2>1, <2>2, <2>3, Fun_IsBij
<1>5. \A k \in a .. l - 1 : h[k] \in a .. l - 1
  BY <1>1
<1>6. \A k \in D : k \notin a .. l - 1 => h[k] = k
  OBVIOUS
<1>7. \A k \in a .. l - 1 :
        arr'[k] = IF k = q THEN arr[p] ELSE IF k = p THEN arr[q] ELSE arr[k]
  BY <1>1, <1>2 DEF Exchanged
<1> HIDE DEF h
<1>8. Working' /\ SameElements'
  BY <1>3, <1>4, <1>5, <1>6, ShuffleKeeps
<1> QED BY <1>7, <1>8

LEMMA RotateKeeps ==
  ASSUME Working, SameElements,
         NEW p \in a .. l - 1, NEW q \in a .. l - 1, NEW r \in a .. l - 1,
         p # q, p # r,
         arr' = Rotated(p, q, r), UNCHANGED <<a, l, pending, input>>
  PROVE  /\ Working' /\ SameElements'
         /\ \A k \in a .. l - 1 :
              arr'[k] = IF k = q THEN arr[p] ELSE IF k = p THEN arr[r]
                        ELSE IF k = r THEN arr[q] ELSE arr[k]
<1> DEFINE D == DOMAIN arr
           h == [k \in D |-> IF k = q THEN p ELSE IF k = p THEN r ELSE IF k = r THEN q ELSE k]
<1>1. a .. l - 1 \subseteq D
  <2>1. 0 \in 0 .. Len(pending)
    BY DEF Working
  <2> QED BY <2>1 DEF Working, Part
<1>2. PICK n \in Nat : arr \in [0 .. n - 1 -> Int]
  BY DEF Working
<1>3. /\ arr' = [k \in D |-> IF k = q THEN arr[p] ELSE IF k = p THEN arr[r]
                              ELSE IF k = r THEN arr[q] ELSE arr[k]]
  BY <1>1, <1>2 DEF Rotated
<1>4. DOMAIN arr' = D /\ arr' = [k \in D |-> arr[h[k]]]
  <2>1. \A k \in D : arr[h[k]] = IF k = q THEN arr[p] ELSE IF k = p THEN arr[r]
                                 ELSE IF k = r THEN arr[q] ELSE arr[k]
    OBVIOUS
  <2> HIDE DEF h
  <2> QED BY <1>3, <2>1
<1>5. h \in Bijection(D, D)
  <2>1. h \in [D -> D]
    BY <1>1
  <2>2. \A s, t \in D : h[s] = h[t] => s = t
    OBVIOUS
  <2>3. \A t \in D : \E s \in D : h[s] = t
    <3>1. \A t \in D : h[h[h[t]]] = t \/ h[h[t]] = t
      BY <1>1
    <3>2. \A t \in D : h[t] \in D
      BY <1>1
    <3> HIDE DEF h
    <3> QED BY <3>1, <3>2
  <2> HIDE DEF h
  <2> QED BY <2>1, <2>2, <2>3, Fun_IsBij
<1>6. \A k \in a .. l - 1 : h[k] \in a .. l - 1
  BY <1>1
<1>7. \A k \in D : k \notin a .. l - 1 => h[k] = k
  OBVIOUS
<1>8. \A k \in a .. l - 1 :
        arr'[k] = IF k = q THEN arr[p] ELSE IF k = p THEN arr[r]
                  ELSE IF k = r THEN arr[q] ELSE arr[k]
  BY <1>1, <1>3
<1> HIDE DEF h
<1>9. Working' /\ SameElements'
  BY <1>4, <1>5, <1>6, <1>7, ShuffleKeeps
<1> QED BY <1>8, <1>9

(* The part at hand, while it is partitioned.                              *)
LEMMA Indexes ==
  ASSUME Working, Partitioned
  PROVE  /\ a \in Int /\ l \in Int /\ i \in Int /\ j \in Int /\ lp \in Int /\ hp \in Int
         /\ {lp, hp, j} \subseteq a .. l - 1
         /\ i <= lp /\ i \in a .. l - 1
         /\ \A k \in a .. l - 1 : arr[k] \in Int
<1>1. 0 \in 0 .. Len(pending) /\ a \in Int /\ l \in Int
  BY DEF Working
<1>2. a .. l - 1 \subseteq DOMAIN arr
  BY <1>1 DEF Working, Part
<1>3. \A k \in DOMAIN arr : arr[k] \in Int
  BY DEF Working
<1> QED BY <1>1, <1>2, <1>3 DEF Partitioned

LEMMA LeftEqualKeeps == SortInv /\ LeftEqual => SortInv'
<1> SUFFICES ASSUME SortInv, LeftEqual
             PROVE  SortInv'
  OBVIOUS
<1>1. /\ mode = "top" /\ mode' = "top" /\ i < lp /\ arr[i] = arr[lp]
      /\ lp' = lp - 1 /\ arr' = Exchanged(i, lp - 1)
      /\ UNCHANGED <<input, a, l, i, j, hp, pending>>
      /\ Working /\ SameElements /\ Partitioned
  BY DEF LeftEqual, SortInv
<1>2. /\ a \in Int /\ l \in Int /\ i \in Int /\ j \in Int /\ lp \in Int /\ hp \in Int
      /\ {i, lp, hp, j, lp - 1} \subseteq a .. l - 1
  BY <1>1, Indexes
<1>3. /\ Working' /\ SameElements'
      /\ \A k \in a .. l - 1 :
           arr'[k] = IF k = lp - 1 THEN arr[i] ELSE IF k = i THEN arr[lp - 1] ELSE arr[k]
  BY <1>1, <1>2, ExchangeKeeps
<1>4. arr'[lp - 1] = arr[lp]
  BY <1>1, <1>2, <1>3
<1>5. \A k \in lp - 1 .. hp : arr'[k] = arr[lp]
  <2> TAKE k \in lp - 1 .. hp
  <2>1. (k \in a .. l - 1 /\ k # i) \/ k = lp - 1
    BY <1>1, <1>2
  <2>2. k # lp - 1 => k \in lp .. hp
    BY <1>2
  <2> QED BY <1>1, <1>2, <1>3, <1>4, <2>1, <2>2 DEF Partitioned
<1>6. \A k \in a .. i - 1 : arr'[k] < arr[lp]
  <2> TAKE k \in a .. i - 1
  <2>1. k \in a .. l - 1 /\ k # i /\ k # lp - 1
    BY <1>1, <1>2
  <2> QED BY <1>1, <1>3, <2>1 DEF Partitioned
<1>7. \A k \in j + 1 .. l - 1 : arr'[k] > arr[lp]
  <2> TAKE k \in j + 1 .. l - 1
  <2>1. k \in a .. l - 1 /\ k # i /\ k # lp - 1
    BY <1>1, <1>2 DEF Partitioned
  <2> QED BY <1>1, <1>3, <2>1 DEF Partitioned
<1>8. Partitioned'
  BY <1>1, <1>2, <1>4, <1>5, <1>6, <1>7 DEF Partitioned
<1> QED BY <1>1, <1>3, <1>8 DEF SortInv

LEMMA RightEqualKeeps == SortInv /\ RightEqual => SortInv'
<1> SUFFICES ASSUME SortInv, RightEqual
             PROVE  SortInv'
  OBVIOUS
<1>1. /\ mode = "loop" /\ mode' = "loop" /\ j > hp /\ arr[hp] = arr[j]
      /\ hp' = hp + 1 /\ arr' = Exchanged(hp + 1, j)
      /\ UNCHANGED <<input, a, l, i, j, lp, pending>>
      /\ Working /\ SameElements /\ Partitioned
  BY DEF RightEqual, SortInv
<1>2. /\ a \in Int /\ l \in Int /\ i \in Int /\ j \in Int /\ lp \in Int /\ hp \in Int
      /\ {i, lp, hp, j, hp + 1} \subseteq a .. l - 1
  BY <1>1, Indexes
<1>3. /\ Working' /\ SameElements'
      /\ \A k \in a .. l - 1 :
           arr'[k] = IF k = j THEN arr[hp + 1] ELSE IF k = hp + 1 THEN arr[j] ELSE arr[k]
  BY <1>1, <1>2, ExchangeKeeps
<1>4. arr[j] = arr[lp] /\ arr'[hp + 1] = arr[lp] /\ arr'[lp] = arr[lp]
  <2>1. arr[hp] = arr[lp] /\ lp # j /\ lp # hp + 1
    BY <1>1, <1>2 DEF Partitioned
  <2> QED BY <1>1, <1>2, <1>3, <2>1
<1>5. \A k \in lp .. hp + 1 : arr'[k] = arr[lp]
  <2> TAKE k \in lp .. hp + 1
  <2>1. k = hp + 1 \/ (k \in lp .. hp /\ k \in a .. l - 1 /\ k # j /\ k # hp + 1)
    BY <1>1, <1>2
  <2> QED BY <1>1, <1>3, <1>4, <2>1 DEF Partitioned
<1>6. \A k \in a .. i - 1 : arr'[k] < arr[lp]
  <2> TAKE k \in a .. i - 1
  <2>1. k \in a .. l - 1 /\ k # j /\ k # hp + 1
    BY <1>1, <1>2 DEF Partitioned
  <2> QED BY <1>1, <1>3, <2>1 DEF Partitioned
<1>7. \A k \in j + 1 .. l - 1 : arr'[k] > arr[lp]
  <2> TAKE k \in j + 1 .. l - 1
  <2>1. k \in a .. l - 1 /\ k # j /\ k # hp + 1
    BY <1>1, <1>2
  <2> QED BY <1>1, <1>3, <2>1 DEF Partitioned
<1>8. i = lp \/ arr'[i] > arr[lp]
  <2>1. i # j /\ i # hp + 1
    BY <1>1, <1>2 DEF Partitioned
  <2> QED BY <1>1, <1>2, <1>3, <2>1 DEF Partitioned
<1>9. Partitioned'
  <2>1. hp + 1 <= j /\ lp <= hp + 1
    BY <1>1, <1>2 DEF Partitioned
  <2> QED BY <1>1, <1>2, <1>4, <1>5, <1>6, <1>7, <1>8, <2>1 DEF Partitioned
<1> QED BY <1>1, <1>3, <1>9 DEF SortInv

(* i has reached the pivots: they move up by one, and the element that was *)
(* too small goes below them.                                              *)
LEMMA RightBelowRotates ==
  ASSUME SortInv, RightBelow, i = lp
  PROVE  SortInv'
<1>1. /\ mode = "loop" /\ mode' = "loop" /\ j > hp /\ arr[hp] > arr[j]
      /\ hp' = hp + 1 /\ lp' = lp + 1 /\ i' = lp + 1 /\ arr' = Rotated(i, hp + 1, j)
      /\ UNCHANGED <<input, a, l, j, pending>>
      /\ Working /\ SameElements /\ Partitioned
  BY DEF RightBelow, SortInv
<1>2. /\ a \in Int /\ l \in Int /\ i \in Int /\ j \in Int /\ lp \in Int /\ hp \in Int
      /\ {i, lp, hp, j, hp + 1} \subseteq a .. l - 1 /\ lp <= hp
  BY <1>1, Indexes DEF Partitioned
<1>3. i # hp + 1 /\ i # j
  BY <1>1, <1>2
<1>4. /\ Working' /\ SameElements'
      /\ \A k \in a .. l - 1 :
           arr'[k] = IF k = hp + 1 THEN arr[i] ELSE IF k = i THEN arr[j]
                     ELSE IF k = j THEN arr[hp + 1] ELSE arr[k]
  BY <1>1, <1>2, <1>3, RotateKeeps
<1>5. \A k \in lp + 1 .. hp + 1 : arr'[k] = arr[lp]
  <2> TAKE k \in lp + 1 .. hp + 1
  <2>1. k = hp + 1 \/ (k \in lp .. hp /\ k \in a .. l - 1 /\ k # i /\ k # j /\ k # hp + 1)
    BY <1>1, <1>2
  <2> QED BY <1>1, <1>2, <1>4, <2>1 DEF Partitioned
<1>6. \A k \in a .. lp : arr'[k] < arr[lp]
  <2> TAKE k \in a .. lp
  <2>1. k = i \/ (k \in a .. i - 1 /\ k \in a .. l - 1 /\ k # i /\ k # j /\ k # hp + 1)
    BY <1>1, <1>2
  <2>2. arr[j] < arr[lp]
    <3>1. arr[hp] = arr[lp]
      BY <1>1, <1>2 DEF Partitioned
    <3>2. arr[hp] \in Int /\ arr[j] \in Int
      BY <1>1, Indexes
    <3> QED BY <1>1, <3>1, <3>2
  <2> QED BY <1>1, <1>2, <1>3, <1>4, <2>1, <2>2 DEF Partitioned
<1>7. \A k \in j + 1 .. l - 1 : arr'[k] > arr[lp]
  <2> TAKE k \in j + 1 .. l - 1
  <2>1. k \in a .. l - 1 /\ k # i /\ k # j /\ k # hp + 1
    BY <1>1, <1>2
  <2> QED BY <1>1, <1>4, <2>1 DEF Partitioned
<1>8. Partitioned'
  <2>1. lp + 1 \in lp + 1 .. hp + 1 /\ hp + 1 <= j /\ a <= lp + 1 /\ (lp + 1) - 1 = lp
    BY <1>1, <1>2
  <2>2. arr'[lp + 1] = arr[lp]
    BY <1>5, <2>1
  <2> QED BY <1>1, <1>2, <1>5, <1>6, <1>7, <2>1, <2>2 DEF Partitioned
<1> QED BY <1>1, <1>4, <1>8 DEF SortInv

LEMMA RightBelowExchanges ==
  ASSUME SortInv, RightBelow, i # lp
  PROVE  SortInv'
<1>1. /\ mode = "loop" /\ mode' = "top" /\ j > hp /\ arr[hp] > arr[j]
      /\ j' = j - 1 /\ i' = i + 1 /\ arr' = Exchanged(i, j)
      /\ UNCHANGED <<input, a, l, lp, hp, pending>>
      /\ Working /\ SameElements /\ Partitioned
  BY DEF RightBelow, SortInv
<1>2. /\ a \in Int /\ l \in Int /\ i \in Int /\ j \in Int /\ lp \in Int /\ hp \in Int
      /\ {i, lp, hp, j} \subseteq a .. l - 1 /\ lp <= hp /\ i < lp
  BY <1>1, Indexes DEF Partitioned
<1>3. /\ Working' /\ SameElements'
      /\ \A k \in a .. l - 1 :
           arr'[k] = IF k = j THEN arr[i] ELSE IF k = i THEN arr[j] ELSE arr[k]
  BY <1>1, <1>2, ExchangeKeeps
<1>4. arr[j] < arr[lp] /\ arr[i] > arr[lp]
  <2>1. arr[hp] = arr[lp]
    BY <1>1, <1>2 DEF Partitioned
  <2>2. arr[hp] \in Int /\ arr[j] \in Int
    BY <1>1, Indexes
  <2> QED BY <1>1, <1>2, <2>1, <2>2 DEF Partitioned
<1>5. \A k \in lp .. hp : arr'[k] = arr[lp]
  <2> TAKE k \in lp .. hp
  <2>1. k \in a .. l - 1 /\ k # i /\ k # j
    BY <1>1, <1>2
  <2> QED BY <1>1, <1>3, <2>1 DEF Partitioned
<1>6. \A k \in a .. i : arr'[k] < arr[lp]
  <2> TAKE k \in a .. i
  <2>1. k = i \/ (k \in a .. i - 1 /\ k \in a .. l - 1 /\ k # i /\ k # j)
    BY <1>1, <1>2
  <2> QED BY <1>1, <1>2, <1>3, <1>4, <2>1 DEF Partitioned
<1>7. \A k \in j .. l - 1 : arr'[k] > arr[lp]
  <2> TAKE k \in j .. l - 1
  <2>1. k = j \/ (k \in j + 1 .. l - 1 /\ k \in a .. l - 1 /\ k # i /\ k # j)
    BY <1>1, <1>2
  <2> QED BY <1>1, <1>2, <1>3, <1>4, <2>1 DEF Partitioned
<1>8. Partitioned'
  <2>1. lp \in lp .. hp /\ hp <= j - 1 /\ a <= i + 1 /\ i + 1 <= lp /\ (i + 1) - 1 = i
        /\ (j - 1) + 1 = j /\ j - 1 <= l - 1
    BY <1>1, <1>2
  <2>2. arr'[lp] = arr[lp]
    BY <1>5, <2>1
  <2> QED BY <1>1, <1>2, <1>5, <1>6, <1>7, <2>1, <2>2 DEF Partitioned
<1> QED BY <1>1, <1>3, <1>8 DEF SortInv

(* Nothing is left above the pivots: they move down by one, and the one    *)
(* that was too large goes above them.                                     *)
LEMMA RightDoneKeeps == SortInv /\ RightDone => SortInv'
<1> SUFFICES ASSUME SortInv, RightDone
             PROVE  SortInv'
  OBVIOUS
<1>1. /\ mode = "loop" /\ mode' = "top" /\ j <= hp /\ i # lp
      /\ lp' = lp - 1 /\ hp' = hp - 1 /\ j' = hp - 1 /\ arr' = Rotated(j, lp - 1, i)
      /\ UNCHANGED <<input, a, l, i, pending>>
      /\ Working /\ SameElements /\ Partitioned
  BY DEF RightDone, SortInv
<1>2. /\ a \in Int /\ l \in Int /\ i \in Int /\ j \in Int /\ lp \in Int /\ hp \in Int
      /\ {i, lp, hp, j, lp - 1} \subseteq a .. l - 1 /\ lp <= hp /\ i < lp /\ j = hp
  BY <1>1, Indexes DEF Partitioned
<1>3. j # lp - 1 /\ j # i
  BY <1>1, <1>2
<1>4. /\ Working' /\ SameElements'
      /\ \A k \in a .. l - 1 :
           arr'[k] = IF k = lp - 1 THEN arr[j] ELSE IF k = j THEN arr[i]
                     ELSE IF k = i THEN arr[lp - 1] ELSE arr[k]
  BY <1>1, <1>2, <1>3, RotateKeeps
<1>5. arr[j] = arr[lp] /\ arr[i] > arr[lp]
  BY <1>1, <1>2 DEF Partitioned
<1>6. \A k \in lp - 1 .. hp - 1 : arr'[k] = arr[lp]
  <2> TAKE k \in lp - 1 .. hp - 1
  <2>1. k = lp - 1 \/ (k \in lp .. hp /\ k \in a .. l - 1 /\ k # i /\ k # j /\ k # lp - 1)
    BY <1>1, <1>2
  <2> QED BY <1>1, <1>2, <1>4, <1>5, <2>1 DEF Partitioned
<1>7. \A k \in a .. i - 1 : arr'[k] < arr[lp]
  <2> TAKE k \in a .. i - 1
  <2>1. k \in a .. l - 1 /\ k # i /\ k # j /\ k # lp - 1
    BY <1>1, <1>2
  <2> QED BY <1>1, <1>4, <2>1 DEF Partitioned
<1>8. \A k \in hp .. l - 1 : arr'[k] > arr[lp]
  <2> TAKE k \in hp .. l - 1
  <2>1. k = j \/ (k \in j + 1 .. l - 1 /\ k \in a .. l - 1 /\ k # i /\ k # j /\ k # lp - 1)
    BY <1>1, <1>2
  <2> QED BY <1>1, <1>2, <1>3, <1>4, <1>5, <2>1 DEF Partitioned
<1>9. Partitioned'
  <2>1. lp - 1 \in lp - 1 .. hp - 1 /\ i <= lp - 1 /\ (hp - 1) + 1 = hp /\ hp - 1 <= l - 1
        /\ lp - 1 <= hp - 1 /\ a <= i
    BY <1>1, <1>2
  <2>2. arr'[lp - 1] = arr[lp]
    BY <1>6, <2>1
  <2> QED BY <1>1, <1>2, <1>6, <1>7, <1>8, <2>1, <2>2 DEF Partitioned
<1> QED BY <1>1, <1>4, <1>9 DEF SortInv

(* The steps that only move indexes.                                       *)
LEMMA IndexesKeep ==
  ASSUME SortInv, Partition \/ LeftBelow \/ LeftDone \/ RightAbove
  PROVE  SortInv'
<1>1. /\ UNCHANGED <<arr, input, a, l, pending>>
      /\ Working /\ SameElements /\ mode' \in {"top", "loop"}
  BY DEF Partition, LeftBelow, LeftDone, RightAbove, SortInv
<1>2. Working' /\ SameElements'
  <2>1. \A m : Part(m)' = Part(m)
    BY <1>1 DEF Part
  <2>2. \A p, q : Together(p, q)' = Together(p, q)
    BY <1>1, <2>1 DEF Together
  <2> QED BY <1>1, <2>1, <2>2 DEF Working, SameElements
<1>0. arr' = arr /\ a' = a /\ l' = l
  BY <1>1
<1>3. a \in Int /\ l \in Int
  BY <1>1 DEF Working
<1>4. ASSUME Partition
      PROVE  Partitioned'
  <2>1. /\ lp' = a + (l - a) \div 2 /\ hp' = a + (l - a) \div 2 /\ i' = a /\ j' = l - 1
        /\ mode' = "top" /\ l - a > 1
    BY <1>3, <1>4 DEF Partition, Short
  <2>2. lp' \in Int /\ a <= lp' /\ lp' <= l - 1
    BY <1>3, <2>1
  <2>3. hp' = lp' /\ \A k \in lp' .. hp' : k = lp'
    BY <2>1, <2>2
  <2>4. a .. i' - 1 = {} /\ j' + 1 .. l - 1 = {}
    BY <1>3, <2>1
  <2> QED BY <1>0, <1>3, <2>1, <2>2, <2>3, <2>4 DEF Partitioned
<1>5. ASSUME LeftBelow
      PROVE  Partitioned'
  <2>1. /\ i' = i + 1 /\ i < lp /\ arr[i] < arr[lp] /\ mode' = mode /\ mode = "top"
        /\ UNCHANGED <<j, lp, hp>> /\ Partitioned
    BY <1>5 DEF LeftBelow, SortInv
  <2>2. \A k \in a .. i : arr[k] < arr[lp]
    <3>1. \A k \in a .. i : k \in a .. i - 1 \/ k = i
      BY <1>3, <2>1 DEF Partitioned
    <3> QED BY <2>1, <3>1 DEF Partitioned
  <2>3. i \in Int /\ lp \in Int /\ a <= i + 1 /\ i + 1 <= lp /\ (i + 1) - 1 = i
    BY <1>3, <2>1 DEF Partitioned
  <2> QED BY <1>0, <2>1, <2>2, <2>3 DEF Partitioned
<1>6. ASSUME LeftDone
      PROVE  Partitioned'
  <2>1. /\ (i < lp => arr[i] > arr[lp]) /\ mode' = "loop" /\ UNCHANGED <<i, j, lp, hp>>
        /\ Partitioned
    BY <1>6 DEF LeftDone, SortInv
  <2>2. i \in Int /\ lp \in Int /\ i <= lp
    BY <2>1 DEF Partitioned
  <2>3. i = lp \/ arr[i] > arr[lp]
    BY <2>1, <2>2
  <2> QED BY <1>0, <2>1, <2>3 DEF Partitioned
<1>7. ASSUME RightAbove
      PROVE  Partitioned'
  <2>1. /\ j' = j - 1 /\ j > hp /\ arr[hp] < arr[j] /\ mode' = mode /\ mode = "loop"
        /\ UNCHANGED <<i, lp, hp>> /\ Partitioned
    BY <1>7 DEF RightAbove, SortInv
  <2>2. /\ j \in Int /\ hp \in Int /\ hp <= j - 1 /\ j - 1 <= l - 1 /\ (j - 1) + 1 = j
        /\ arr[hp] = arr[lp] /\ arr[hp] \in Int /\ arr[j] \in Int
    BY <1>1, <1>3, <2>1, Indexes DEF Partitioned
  <2>3. \A k \in j .. l - 1 : arr[k] > arr[lp]
    <3>1. \A k \in j .. l - 1 : k \in j + 1 .. l - 1 \/ k = j
      BY <1>3, <2>2
    <3> QED BY <2>1, <2>2, <3>1 DEF Partitioned
  <2> QED BY <1>0, <2>1, <2>2, <2>3 DEF Partitioned
<1> QED BY <1>1, <1>2, <1>4, <1>5, <1>6, <1>7 DEF SortInv

(* A call begins with the whole array as its one part.                     *)
LEMMA QsortKeeps ==
  ASSUME SortInv, NEW in \in Arrays, Qsort(in)
  PROVE  SortInv'
<1>1. /\ arr' = in /\ input' = in /\ a' = 0 /\ l' = Cardinality(DOMAIN in) /\ mode' = "start"
      /\ pending' = << >>
  BY DEF Qsort, SortInv
<1>2. PICK n \in 0 .. MaxLen : in \in [0 .. n - 1 -> Elems]
  BY DEF Arrays
<1>3. n \in Nat /\ in \in [0 .. n - 1 -> Int] /\ DOMAIN in = 0 .. n - 1
  <2>1. n \in Nat
    BY SortAssumption
  <2>2. Elems \subseteq Int
    BY SortAssumption
  <2> QED BY <1>2, <2>1, <2>2
<1>4. l' = n
  BY <1>1, <1>3, FS_Interval
<1>5. 0 .. Len(pending') = {0}
  BY <1>1
<1>6. Part(0)' = 0 .. n - 1
  BY <1>1, <1>4 DEF Part
<1>7. \A p, q \in 0 .. n - 1 : Together(p, q)'
  BY <1>5, <1>6 DEF Together
<1>8. Working'
  <2>1. pending' \in Seq([a : Int, l : Int])
    BY <1>1
  <2>2. \A m, k \in 0 .. Len(pending') : m = k
    BY <1>5
  <2>3. \A m \in 0 .. Len(pending') : Part(m)' \subseteq DOMAIN arr'
    BY <1>1, <1>3, <1>5, <1>6
  <2> QED BY <1>1, <1>3, <1>4, <1>7, <2>1, <2>2, <2>3 DEF Working
<1> QED BY <1>1, <1>8 DEF SortInv, SameElements

LEMMA LastPart ==
  ASSUME Working, Short, pending = << >>
  PROVE  InOrder
<1>1. 0 .. Len(pending) = {0}
  OBVIOUS
<1>2. ASSUME NEW p \in DOMAIN arr, NEW q \in DOMAIN arr, p < q
      PROVE  ~Together(p, q)
  <2>1. a \in Int /\ l \in Int /\ l - a <= 1
    BY DEF Working, Short
  <2>2. ~(p \in a .. l - 1 /\ q \in a .. l - 1)
    BY <1>2, <2>1
  <2> QED BY <1>1, <2>2 DEF Together, Part
<1> QED BY <1>2 DEF InOrder, Working

LEMMA ReturnKeeps == SortInv /\ Return => SortInv'
<1> SUFFICES ASSUME SortInv, Return
             PROVE  SortInv'
  OBVIOUS
<1>1. /\ mode = "start" /\ mode' = "start" /\ Short /\ pending # << >>
      /\ a' = pending[1].a /\ l' = pending[1].l /\ pending' = Tail(pending)
      /\ UNCHANGED <<arr, input>> /\ Working /\ SameElements
  BY DEF Return, SortInv
<1> DEFINE S == [a : Int, l : Int]
<1>2. pending \in Seq(S) /\ Len(pending) \in Nat /\ Len(pending) > 0
  BY <1>1 DEF Working
<1> HIDE DEF S
<1>3. /\ pending' \in Seq(S) /\ Len(pending') = Len(pending) - 1
      /\ \A m \in 1 .. Len(pending) - 1 : pending'[m] = pending[m + 1]
  BY <1>1, <1>2
<1>4. pending[1] \in S
  <2>1. 1 \in 1 .. Len(pending)
    BY <1>2
  <2> QED BY <1>2, <2>1
<1>5. \A m \in 0 .. Len(pending') : m + 1 \in 1 .. Len(pending) /\ Part(m)' = Part(m + 1)
  <2> TAKE m \in 0 .. Len(pending')
  <2>1. m + 1 \in 1 .. Len(pending) /\ m + 1 # 0
    BY <1>2, <1>3
  <2>2. CASE m = 0
    BY <1>1, <2>1, <2>2 DEF Part
  <2>3. CASE m # 0
    <3>1. pending'[m] = pending[m + 1]
      <4>1. m \in 1 .. Len(pending) - 1
        BY <1>2, <1>3, <2>3
      <4> QED BY <1>3, <4>1
    <3> QED BY <2>1, <2>3, <3>1 DEF Part
  <2> QED BY <2>1, <2>2, <2>3
<1>6. \A p, q \in DOMAIN arr : p < q /\ Together(p, q) => Together(p, q)'
  <2> SUFFICES ASSUME NEW p \in DOMAIN arr, NEW q \in DOMAIN arr, p < q, Together(p, q)
               PROVE  Together(p, q)'
    OBVIOUS
  <2>1. PICK m \in 0 .. Len(pending) : p \in Part(m) /\ q \in Part(m)
    BY DEF Together
  <2>2. m # 0
    <3>1. a \in Int /\ l \in Int /\ l - a <= 1
      BY <1>1 DEF Working, Short
    <3> QED BY <2>1, <3>1 DEF Part
  <2>3. m - 1 \in 0 .. Len(pending') /\ (m - 1) + 1 = m
    BY <1>2, <1>3, <2>2
  <2>4. Part(m - 1)' = Part(m)
    BY <1>5, <2>3
  <2> QED BY <2>1, <2>3, <2>4 DEF Together
<1>7. Working'
  <2>1. /\ \A m \in 0 .. Len(pending') : Part(m)' \subseteq DOMAIN arr
        /\ \A m, k \in 0 .. Len(pending') : m # k => Part(m)' \cap Part(k)' = {}
    <3>1. \A m \in 0 .. Len(pending') : m \in Int /\ m + 1 \in 0 .. Len(pending)
      BY <1>2, <1>5
    <3>2. \A m, k \in 0 .. Len(pending') : m # k => m + 1 # k + 1
      BY <3>1
    <3> QED BY <1>1, <1>5, <3>1, <3>2, ZenonT(20) DEF Working
  <2>2. a' \in Int /\ l' \in Int
    BY <1>1, <1>4 DEF S
  <2>3. \A p, q \in DOMAIN arr' : p < q => arr'[p] <= arr'[q] \/ Together(p, q)'
    BY <1>1, <1>6 DEF Working
  <2>4. \E n \in Nat : arr' \in [0 .. n - 1 -> Int]
    BY <1>1 DEF Working
  <2> QED BY <1>1, <1>3, <2>1, <2>2, <2>3, <2>4 DEF Working, S
<1> QED BY <1>1, <1>7 DEF SortInv, SameElements

(* A new part in front of those that pend.                                 *)
LEMMA PartsBehind ==
  ASSUME Working, NEW b \in [a : Int, l : Int], pending' = <<b>> \o pending
  PROVE  /\ pending' \in Seq([a : Int, l : Int])
         /\ Len(pending') = Len(pending) + 1
         /\ Part(1)' = b.a .. b.l - 1
         /\ \A m \in 2 .. Len(pending') : Part(m)' = Part(m - 1)
         /\ pending'[1] = b /\ \A m \in 2 .. Len(pending') : pending'[m] = pending[m - 1]
<1> DEFINE S == [a : Int, l : Int]
<1>1. pending \in Seq(S) /\ <<b>> \in Seq(S) /\ Len(<<b>>) = 1 /\ <<b>>[1] = b
  BY DEF Working
<1> HIDE DEF S
<1>2. /\ pending' \in Seq(S) /\ Len(pending') = 1 + Len(pending)
      /\ \A m \in 1 .. 1 + Len(pending) :
           pending'[m] = IF m <= 1 THEN <<b>>[m] ELSE pending[m - 1]
  <2>1. /\ <<b>> \o pending \in Seq(S) /\ Len(<<b>> \o pending) = Len(<<b>>) + Len(pending)
        /\ \A m \in 1 .. Len(<<b>>) + Len(pending) :
             (<<b>> \o pending)[m] =
               IF m <= Len(<<b>>) THEN <<b>>[m] ELSE pending[m - Len(<<b>>)]
    BY ONLY <1>1, ConcatProperties
  <2> QED BY <1>1, <2>1
<1>3. Len(pending) \in Nat
  BY <1>1
<1>4. pending'[1] = b
  <2>1. 1 \in 1 .. 1 + Len(pending)
    BY <1>3
  <2> QED BY <1>1, <1>2, <2>1
<1>5. \A m \in 2 .. Len(pending') : Part(m)' = Part(m - 1) /\ pending'[m] = pending[m - 1]
  <2> TAKE m \in 2 .. Len(pending')
  <2>1. m \in 1 .. 1 + Len(pending) /\ ~(m <= 1) /\ m # 0 /\ m - 1 # 0
    BY <1>2, <1>3
  <2>2. pending'[m] = pending[m - 1]
    BY <1>2, <2>1
  <2> QED BY <2>1, <2>2 DEF Part
<1> QED BY <1>2, <1>3, <1>4, <1>5 DEF Part, S

(* The part at hand falls into two, of elements below and above a pivot.   *)
LEMMA SplitParts ==
  ASSUME Working, NEW m \in Int, NEW n \in Int, m <= n, a <= m, n <= l,
         \A p \in m .. n - 1 : \A q \in a .. m - 1 : arr[q] < arr[p],
         \A p \in m .. n - 1 : \A q \in n .. l - 1 : arr[p] < arr[q],
         \A p \in m .. n - 1 : \A q \in m .. n - 1 : arr[p] = arr[q],
         m < n,
         Len(pending') = Len(pending) + 1,
         pending' \in Seq([a : Int, l : Int]), a' \in Int, l' \in Int,
         \/ Part(0)' = a .. m - 1 /\ Part(1)' = n .. l - 1
         \/ Part(0)' = n .. l - 1 /\ Part(1)' = a .. m - 1,
         \A k \in 2 .. Len(pending') : Part(k)' = Part(k - 1),
         arr' = arr
  PROVE  Working'
<1>1. /\ Len(pending) \in Nat /\ a \in Int /\ l \in Int /\ 0 \in 0 .. Len(pending)
      /\ Part(0) = a .. l - 1
      /\ \A k \in DOMAIN arr : k \in Int /\ arr[k] \in Int
  BY SMTT(20) DEF Working, Part
<1>2. Part(0)' \subseteq Part(0) /\ Part(1)' \subseteq Part(0) /\ Part(0)' \cap Part(1)' = {}
  BY <1>1
<1>3. \A k \in 0 .. Len(pending') :
        \/ k = 0
        \/ k = 1
        \/ k \in 2 .. Len(pending') /\ k - 1 \in 1 .. Len(pending) /\ k - 1 \in 0 .. Len(pending) /\ k - 1 # 0
  BY <1>1
<1>4. \A k \in 0 .. Len(pending') : Part(k)' \subseteq DOMAIN arr'
  <2>1. Part(0) \subseteq DOMAIN arr
    BY <1>1 DEF Working
  <2> QED BY <1>2, <1>3, <2>1 DEF Working
<1>5. ASSUME NEW k \in 0 .. Len(pending'), NEW t \in 0 .. Len(pending'), k # t
      PROVE  Part(k)' \cap Part(t)' = {}
  <2>1. CASE k \in {0, 1} /\ t \in {0, 1}
    BY <1>2, <1>5, <2>1
  <2>2. CASE k \in {0, 1} /\ t \notin {0, 1}
    <3>1. Part(t)' = Part(t - 1) /\ t - 1 \in 0 .. Len(pending) /\ t - 1 # 0
      BY <1>3, <2>2
    <3>2. Part(0) \cap Part(t - 1) = {}
      BY <1>1, <3>1 DEF Working
    <3> QED BY <1>2, <2>2, <3>1, <3>2
  <2>3. CASE k \notin {0, 1} /\ t \in {0, 1}
    <3>1. Part(k)' = Part(k - 1) /\ k - 1 \in 0 .. Len(pending) /\ k - 1 # 0
      BY <1>3, <2>3
    <3>2. Part(0) \cap Part(k - 1) = {}
      BY <1>1, <3>1 DEF Working
    <3> QED BY <1>2, <2>3, <3>1, <3>2
  <2>4. CASE k \notin {0, 1} /\ t \notin {0, 1}
    <3>1. /\ Part(k)' = Part(k - 1) /\ k - 1 \in 0 .. Len(pending)
          /\ Part(t)' = Part(t - 1) /\ t - 1 \in 0 .. Len(pending)
      BY <1>3, <2>4
    <3>2. k - 1 # t - 1
      BY <1>1, <1>5
    <3> QED BY <3>1, <3>2 DEF Working
  <2> QED BY <2>1, <2>2, <2>3, <2>4
<1>6. ASSUME NEW p \in DOMAIN arr, NEW q \in DOMAIN arr, p < q
      PROVE  arr[p] <= arr[q] \/ Together(p, q)'
  <2>1. CASE p \in a .. l - 1 /\ q \in a .. l - 1
    <3>0. p \in Int /\ q \in Int /\ arr[p] \in Int /\ arr[q] \in Int
      BY <1>1
    <3>1. CASE q < m
      <4>1. p \in a .. m - 1 /\ q \in a .. m - 1
        BY <1>1, <1>6, <2>1, <3>0, <3>1, SMTT(20)
      <4>2. 0 \in 0 .. Len(pending') /\ 1 \in 0 .. Len(pending')
        BY <1>1
      <4> QED BY <4>1, <4>2 DEF Together
    <3>2. CASE n <= p
      <4>1. p \in n .. l - 1 /\ q \in n .. l - 1
        BY <1>1, <1>6, <2>1, <3>0, <3>2
      <4>2. 0 \in 0 .. Len(pending') /\ 1 \in 0 .. Len(pending')
        BY <1>1
      <4> QED BY <4>1, <4>2 DEF Together
    <3>3. CASE m <= q /\ p < n
      <4>1. /\ p \in a .. m - 1 \/ p \in m .. n - 1
            /\ q \in m .. n - 1 \/ q \in n .. l - 1
        <5>1. a <= p /\ p < n /\ m <= q /\ q <= l - 1
          BY <1>1, <2>1, <3>0, <3>3
        <5>2. p \in a .. m - 1 \/ p \in m .. n - 1
          BY <1>1, <3>0, <5>1, SMTT(20)
        <5>3. q \in m .. n - 1 \/ q \in n .. l - 1
          BY <1>1, <3>0, <5>1
        <5> QED BY <5>2, <5>3
      <4>2. m \in m .. n - 1 /\ m \in a .. l - 1
        BY <1>1
      <4>3. arr[m] \in Int
        BY <1>1, <1>4, <4>2 DEF Working
      <4>4. arr[p] <= arr[m] /\ arr[m] <= arr[q]
        BY <3>0, <4>1, <4>2, <4>3, SMTT(20)
      <4> QED BY <3>0, <4>3, <4>4
    <3> QED BY <3>0, <3>1, <3>2, <3>3
  <2>2. CASE ~(p \in a .. l - 1 /\ q \in a .. l - 1)
    <3>1. CASE Together(p, q)
      <4>1. PICK k \in 0 .. Len(pending) : p \in Part(k) /\ q \in Part(k)
        BY <3>1 DEF Together
      <4>2. k # 0
        BY <1>1, <2>2, <4>1
      <4>3. k + 1 \in 2 .. Len(pending') /\ k + 1 \in 0 .. Len(pending') /\ (k + 1) - 1 = k
        BY <1>1, <4>2
      <4>4. Part(k + 1)' = Part(k)
        BY <4>3
      <4> QED BY <4>1, <4>3, <4>4 DEF Together
    <3>2. CASE ~Together(p, q)
      BY <1>6, <3>2 DEF Working
    <3> QED BY <3>1, <3>2
  <2> QED BY <2>1, <2>2
<1> QED BY <1>4, <1>5, <1>6 DEF Working

LEMMA SplitKeeps == SortInv /\ Split => SortInv'
<1> SUFFICES ASSUME SortInv, Split
             PROVE  SortInv'
  OBVIOUS
<1>1. /\ mode = "loop" /\ mode' = "start" /\ j <= hp /\ i = lp
      /\ UNCHANGED <<arr, input>> /\ Working /\ SameElements /\ Partitioned
  BY DEF Split, SortInv
<1>2. /\ a \in Int /\ l \in Int /\ j \in Int /\ lp \in Int /\ hp \in Int /\ hp + 1 \in Int
      /\ lp <= hp /\ j = hp /\ a <= lp /\ hp <= l - 1 /\ (hp + 1) - 1 = hp
      /\ lp < hp + 1 /\ lp <= hp + 1 /\ hp + 1 <= l
  BY <1>1, Indexes DEF Partitioned
<1>3. /\ \A p \in lp .. hp : arr[p] = arr[lp]
      /\ \A q \in a .. lp - 1 : arr[q] < arr[lp]
      /\ \A q \in hp + 1 .. l - 1 : arr[q] > arr[lp]
      /\ \A q \in a .. l - 1 : arr[q] \in Int
  BY <1>1, <1>2, Indexes DEF Partitioned
<1>4. /\ \A p \in lp .. (hp + 1) - 1 : \A q \in a .. lp - 1 : arr[q] < arr[p]
      /\ \A p \in lp .. (hp + 1) - 1 : \A q \in hp + 1 .. l - 1 : arr[p] < arr[q]
      /\ \A p \in lp .. (hp + 1) - 1 : \A q \in lp .. (hp + 1) - 1 : arr[p] = arr[q]
  <2>1. \A q \in hp + 1 .. l - 1 : arr[lp] < arr[q]
    <3>1. lp \in a .. l - 1 /\ \A q \in hp + 1 .. l - 1 : q \in a .. l - 1
      BY <1>2
    <3> QED BY <1>3, <3>1
  <2> QED BY <1>2, <1>3, <2>1
<1>5. Working'
  <2>1. CASE LeftFirst(lp - a, l - hp)
    <3>1. a' = a /\ l' = lp /\ pending' = <<[a |-> hp + 1, l |-> l]>> \o pending
      BY <2>1 DEF Split, BehindPivots
    <3> DEFINE b == [a |-> hp + 1, l |-> l]
    <3>2. b \in [a : Int, l : Int] /\ b.a = hp + 1 /\ b.l = l
      BY <1>2
    <3> HIDE DEF b
    <3>3. /\ pending' \in Seq([a : Int, l : Int]) /\ Len(pending') = Len(pending) + 1
          /\ Part(1)' = hp + 1 .. l - 1
          /\ \A m \in 2 .. Len(pending') : Part(m)' = Part(m - 1)
      BY <1>1, <3>1, <3>2, PartsBehind DEF b
    <3>4. Part(0)' = a .. lp - 1 /\ a' \in Int /\ l' \in Int /\ arr' = arr
      BY <1>1, <1>2, <3>1 DEF Part
    <3> QED BY <1>1, <1>2, <1>4, <3>3, <3>4, SplitParts
  <2>2. CASE ~LeftFirst(lp - a, l - hp)
    <3>1. a' = hp + 1 /\ l' = l /\ pending' = <<[a |-> a, l |-> lp]>> \o pending
      BY <2>2 DEF Split, BehindPivots
    <3> DEFINE b == [a |-> a, l |-> lp]
    <3>2. b \in [a : Int, l : Int] /\ b.a = a /\ b.l = lp
      BY <1>2
    <3> HIDE DEF b
    <3>3. /\ pending' \in Seq([a : Int, l : Int]) /\ Len(pending') = Len(pending) + 1
          /\ Part(1)' = a .. lp - 1
          /\ \A m \in 2 .. Len(pending') : Part(m)' = Part(m - 1)
      BY <1>1, <3>1, <3>2, PartsBehind DEF b
    <3>4. Part(0)' = hp + 1 .. l - 1 /\ a' \in Int /\ l' \in Int /\ arr' = arr
      BY <1>1, <1>2, <3>1 DEF Part
    <3> QED BY <1>1, <1>2, <1>4, <3>3, <3>4, SplitParts
  <2> QED BY <2>1, <2>2
<1> QED BY <1>1, <1>5 DEF SortInv, SameElements

LEMMA SortKeeps == SortInv /\ [SortNext]_sortvars => SortInv'
<1> SUFFICES ASSUME SortInv, [SortNext]_sortvars
             PROVE  SortInv'
  OBVIOUS
<1>1. CASE Finish
  <2>1. /\ mode = "start" /\ mode' = "sorted" /\ Short /\ pending = << >>
        /\ UNCHANGED <<arr, input, pending>> /\ Working /\ SameElements
    BY <1>1 DEF Finish, SortInv
  <2>2. InOrder
    BY <2>1, LastPart
  <2> QED BY <2>1, <2>2 DEF SortInv, SameElements, InOrder
<1>2. CASE SortReturn
  <2>1. arr' = << >> /\ input' = << >> /\ mode' = "outside" /\ pending' = << >>
    BY <1>2 DEF SortReturn, SortInv
  <2> QED BY <2>1 DEF SortInv, SameElements
<1>3. CASE UNCHANGED sortvars
  <2>1. \A m : Part(m)' = Part(m)
    BY <1>3 DEF sortvars, Part
  <2>2. \A p, q : Together(p, q)' = Together(p, q)
    BY <1>3, <2>1 DEF sortvars, Together
  <2>3. /\ UNCHANGED <<arr, input, mode, a, l, i, j, lp, hp, pending>>
    BY <1>3 DEF sortvars
  <2>4. Working' = Working
    BY <2>1, <2>2, <2>3 DEF Working
  <2>5. Partitioned' = Partitioned
    BY <2>3 DEF Partitioned
  <2> QED BY <2>3, <2>4, <2>5 DEF SortInv, SameElements, InOrder
<1>4. CASE RightBelow
  BY <1>4, RightBelowRotates, RightBelowExchanges
<1>5. CASE \E in \in Arrays : Qsort(in)
  BY <1>5, QsortKeeps
<1> QED BY <1>1, <1>2, <1>3, <1>4, <1>5, IndexesKeep, LeftEqualKeeps, RightEqualKeeps,
           RightDoneKeeps, ReturnKeeps, SplitKeeps DEF SortNext, SortStep

LEMMA SortBegins == SortInit => SortInv
BY DEF SortInit, SortInv, SameElements

LEMMA SortInvariant == SortSpec => []SortInv
<1> QED BY SortBegins, SortKeeps, PTL DEF SortSpec

(* qsort returns the elements it was given, in order, however the pivots   *)
(* fall, equal elements lie and calls nest; on the way none is lost.       *)
THEOREM SortCorrect == SortSpec => []SortsInput
<1>1. SortInv => SortsInput
  BY DEF SortInv, SortsInput, SameElements, InOrder
<1> QED BY <1>1, SortInvariant, PTL

(* Powers of two are what they should be, and grow.                        *)
LEMMA PowersOfTwo ==
  /\ Power2[0] = 1
  /\ \A n \in 1 .. MaxLen : Power2[n] = 2 * Power2[n - 1]
  /\ \A n \in 0 .. MaxLen : Power2[n] \in Nat /\ Power2[n] >= n + 1
<1> DEFINE step == [n \in 1 .. MaxLen |-> [c \in Nat |-> 2 * c]]
           IsPower(f) == f = [n \in 0 .. MaxLen |-> IF n = 0 THEN 1 ELSE 2 * f[n - 1]]
<1>1. step \in StepsOn(MaxLen, Nat) /\ \A n \in 1 .. MaxLen, c \in Nat : step[n][c] = 2 * c
  BY DEF StepsOn
<1> HIDE DEF step
<1>2. PICK f : Recurs(f, MaxLen, Nat, 1, step)
  BY <1>1, RecursionExists, SortAssumption
<1>3. /\ f \in [0 .. MaxLen -> Nat] /\ f[0] = 1
      /\ \A n \in 1 .. MaxLen : n - 1 \in 0 .. MaxLen /\ f[n] = 2 * f[n - 1]
  <2>1. /\ f \in [0 .. MaxLen -> Nat] /\ f[0] = 1
        /\ \A n \in 1 .. MaxLen : f[n] = step[n][f[n - 1]]
    BY <1>2 DEF Recurs
  <2>2. \A n \in 1 .. MaxLen : n - 1 \in 0 .. MaxLen
    BY SortAssumption
  <2>3. \A n \in 1 .. MaxLen : f[n - 1] \in Nat
    BY <2>1, <2>2
  <2> QED BY <1>1, <2>1, <2>2, <2>3
<1>4. IsPower(f)
  <2>1. \A n \in 0 .. MaxLen : f[n] = IF n = 0 THEN 1 ELSE 2 * f[n - 1]
    <3>1. \A n \in 0 .. MaxLen : n = 0 \/ n \in 1 .. MaxLen
      BY SortAssumption
    <3> QED BY <1>3, <3>1
  <2>2. f = [n \in 0 .. MaxLen |-> f[n]]
    BY <1>3
  <2> QED BY <2>1, <2>2
<1>5. Power2 = CHOOSE p : IsPower(p)
  BY DEF Power2
<1>6. IsPower(Power2)
  BY <1>4, <1>5
<1>7. /\ Power2[0] = 1
      /\ \A n \in 1 .. MaxLen : Power2[n] = 2 * Power2[n - 1]
  <2>1. \A n \in 0 .. MaxLen : Power2[n] = IF n = 0 THEN 1 ELSE 2 * Power2[n - 1]
    BY <1>6
  <2>2. 0 \in 0 .. MaxLen /\ \A n \in 1 .. MaxLen : n \in 0 .. MaxLen /\ n # 0
    BY SortAssumption
  <2> QED BY <2>1, <2>2
<1> HIDE DEF IsPower
<1> DEFINE G == {m \in Nat : m <= MaxLen => Power2[m] \in Nat /\ Power2[m] >= m + 1}
<1>8. 0 \in G
  BY <1>7
<1>9. ASSUME NEW m \in Nat, m \in G
      PROVE  m + 1 \in G
  <2> SUFFICES ASSUME m + 1 <= MaxLen
               PROVE  Power2[m + 1] \in Nat /\ Power2[m + 1] >= (m + 1) + 1
    OBVIOUS
  <2>1. m <= MaxLen /\ m + 1 \in 1 .. MaxLen /\ (m + 1) - 1 = m
    BY SortAssumption
  <2>2. Power2[m + 1] = 2 * Power2[m]
    BY <1>7, <2>1
  <2>3. Power2[m] \in Nat /\ Power2[m] >= m + 1
    BY <1>9, <2>1
  <2> QED BY <2>2, <2>3
<1> HIDE DEF G
<1>10. \A m \in Nat : m \in G
  BY <1>8, <1>9, SetInduction
<1>11. \A n \in 0 .. MaxLen : n \in Nat /\ n <= MaxLen
  BY SortAssumption
<1> QED BY <1>7, <1>10, <1>11 DEF G

(* A part at depth k is at most the 2^k-th share of the array.             *)
Width(m) == IF m = 0 THEN l - a ELSE pending[m].l - pending[m].a
InShare(w, depth, n) == w \in Nat /\ Power2[depth] * (w + 1) <= n + 1

NestInv ==
  \E n \in 0 .. MaxLen :
    /\ DOMAIN arr = 0 .. n - 1 /\ Len(pending) \in 0 .. n
    /\ \A m \in 0 .. Len(pending) : InShare(Width(m), Len(pending) - m, n)

(* Half a part, or less, fits one call deeper.                             *)
LEMMA HalfShare ==
  ASSUME NEW n \in Nat, NEW depth \in Nat, depth + 1 <= MaxLen, NEW w \in Int, InShare(w, depth, n),
         NEW v \in Nat, v <= w
  PROVE  InShare(v, depth, n) /\ (2 * v < w => InShare(v, depth + 1, n))
<1>1. /\ depth \in 0 .. MaxLen /\ depth + 1 \in 1 .. MaxLen /\ (depth + 1) - 1 = depth
  BY SortAssumption
<1>2. PICK p \in Nat : p = Power2[depth]
  BY <1>1, PowersOfTwo
<1>3. Power2[depth + 1] = 2 * p
  BY <1>1, <1>2, PowersOfTwo
<1>4. p * (w + 1) <= n + 1
  BY <1>2 DEF InShare
<1>5. ASSUME NEW c \in Int, c <= w + 1
      PROVE  p * c \in Int /\ p * c <= n + 1
  <2>1. PICK y \in Nat : w + 1 = c + y
    <3>1. (w + 1) - c \in Nat /\ w + 1 = c + ((w + 1) - c)
      BY <1>5
    <3> QED BY <3>1
  <2>2. p * (c + y) = p * c + p * y
    OBVIOUS
  <2>3. p * c \in Int /\ p * y \in Nat
    OBVIOUS
  <2> HIDE DEF InShare
  <2> QED BY <1>4, <2>1, <2>2, <2>3
<1>6. InShare(v, depth, n)
  <2>1. v + 1 \in Int /\ v + 1 <= w + 1
    OBVIOUS
  <2> QED BY <1>2, <1>5, <2>1 DEF InShare
<1>7. ASSUME 2 * v < w
      PROVE  InShare(v, depth + 1, n)
  <2>1. 2 * (v + 1) \in Int /\ 2 * (v + 1) <= w + 1
    BY <1>7
  <2>2. p * (2 * (v + 1)) <= n + 1
    BY <1>5, <2>1
  <2>3. (2 * p) * (v + 1) = p * (2 * (v + 1))
    OBVIOUS
  <2> QED BY <1>3, <2>2, <2>3 DEF InShare
<1> QED BY <1>6, <1>7

LEMMA SplitNests == SortInv /\ NestInv /\ Split => NestInv'
<1> SUFFICES ASSUME SortInv, NestInv, Split
             PROVE  NestInv'
  OBVIOUS
<1>1. PICK n \in 0 .. MaxLen :
        /\ DOMAIN arr = 0 .. n - 1 /\ Len(pending) \in 0 .. n
        /\ \A m \in 0 .. Len(pending) : InShare(Width(m), Len(pending) - m, n)
  BY DEF NestInv
<1>2. PICK d \in Nat : d = Len(pending) /\ d <= n
  BY <1>1, SortAssumption
<1>3. Working /\ Partitioned /\ arr' = arr /\ j <= hp /\ i = lp
  BY DEF Split, SortInv
<1>4. /\ a \in Int /\ l \in Int /\ lp \in Int /\ hp \in Int
      /\ a <= lp /\ lp <= hp /\ hp <= l - 1
  BY <1>3, Indexes DEF Partitioned
<1>5. PICK w \in Int : w = l - a /\ InShare(w, d, n) /\ w >= 1
  <2>1. 0 \in 0 .. Len(pending) /\ Width(0) = l - a /\ Len(pending) - 0 = d
    BY <1>2 DEF Width
  <2>2. InShare(l - a, d, n)
    BY <1>1, <2>1
  <2> QED BY <1>4, <2>2
<1>6. d + 1 <= n
  <2>1. n \in Nat /\ d \in 0 .. MaxLen
    BY <1>2, SortAssumption
  <2>2. PICK p \in Nat : p = Power2[d] /\ p >= d + 1
    BY <2>1, PowersOfTwo
  <2>3. p * (w + 1) <= n + 1
    BY <1>5, <2>2 DEF InShare
  <2>4. PICK y \in Nat : w + 1 = 2 + y
    <3>1. w - 1 \in Nat /\ w + 1 = 2 + (w - 1)
      BY <1>5
    <3> QED BY <3>1
  <2>5. p * (2 + y) = p * 2 + p * y /\ p * y \in Nat
    OBVIOUS
  <2> QED BY <2>1, <2>2, <2>3, <2>4, <2>5
<1>7. PICK b \in [a : Int, l : Int], v \in Nat, u \in Nat :
        /\ pending' = <<b>> \o pending /\ l' - a' = v /\ b.l - b.a = u
        /\ v <= w /\ u <= w /\ 2 * v < w
  <2>1. CASE LeftFirst(lp - a, l - hp)
    <3>1. /\ a' = a /\ l' = lp /\ pending' = <<[a |-> hp + 1, l |-> l]>> \o pending
          /\ lp - a < l - hp
      BY <2>1 DEF Split, BehindPivots, LeftFirst
    <3> DEFINE b == [a |-> hp + 1, l |-> l]
    <3>2. b \in [a : Int, l : Int] /\ b.l - b.a = l - (hp + 1)
      BY <1>4
    <3>3. /\ lp - a \in Nat /\ l - (hp + 1) \in Nat
          /\ lp - a <= w /\ l - (hp + 1) <= w /\ 2 * (lp - a) < w
      BY <1>4, <1>5, <3>1
    <3> HIDE DEF b
    <3> QED BY <3>1, <3>2, <3>3 DEF b
  <2>2. CASE ~LeftFirst(lp - a, l - hp)
    <3>1. /\ a' = hp + 1 /\ l' = l /\ pending' = <<[a |-> a, l |-> lp]>> \o pending
          /\ ~(lp - a < l - hp)
      BY <2>2 DEF Split, BehindPivots, LeftFirst
    <3> DEFINE b == [a |-> a, l |-> lp]
    <3>2. b \in [a : Int, l : Int] /\ b.l - b.a = lp - a
      BY <1>4
    <3>3. /\ lp - a \in Nat /\ l - (hp + 1) \in Nat
          /\ lp - a <= w /\ l - (hp + 1) <= w /\ 2 * (l - (hp + 1)) < w
      BY <1>4, <1>5, <3>1
    <3> HIDE DEF b
    <3> QED BY <3>1, <3>2, <3>3 DEF b
  <2> QED BY <2>1, <2>2
<1>8. /\ Len(pending') = d + 1
      /\ pending'[1] = b /\ \A m \in 2 .. d + 1 : pending'[m] = pending[m - 1]
  BY <1>2, <1>3, <1>7, PartsBehind
<1>9. n \in Nat /\ d + 1 <= MaxLen
  BY <1>6, SortAssumption
<1>10. InShare(v, d + 1, n) /\ InShare(u, d, n)
  BY <1>5, <1>7, <1>9, HalfShare
<1>11. ASSUME NEW m \in 0 .. Len(pending')
       PROVE  InShare(Width(m)', Len(pending') - m, n)
  <2>1. CASE m = 0
    <3>1. Width(m)' = v /\ Len(pending') - m = d + 1
      BY <1>7, <1>8, <2>1 DEF Width
    <3> QED BY <1>10, <3>1
  <2>2. CASE m = 1
    <3>1. Width(m)' = u /\ Len(pending') - m = d
      BY <1>7, <1>8, <2>2 DEF Width
    <3> QED BY <1>10, <3>1
  <2>3. CASE m # 0 /\ m # 1
    <3>1. m \in 2 .. d + 1 /\ m - 1 \in 0 .. Len(pending) /\ m - 1 # 0
          /\ Len(pending') - m = Len(pending) - (m - 1)
      BY <1>2, <1>8, <2>3
    <3>2. Width(m)' = Width(m - 1)
      BY <1>8, <2>3, <3>1 DEF Width
    <3> QED BY <1>1, <3>1, <3>2
  <2> QED BY <2>1, <2>2, <2>3
<1>12. DOMAIN arr' = 0 .. n - 1 /\ Len(pending') \in 0 .. n
  BY <1>1, <1>3, <1>6, <1>8, <1>9
<1> QED BY <1>11, <1>12 DEF NestInv

LEMMA ReturnNests == SortInv /\ NestInv /\ Return => NestInv'
<1> SUFFICES ASSUME SortInv, NestInv, Return
             PROVE  NestInv'
  OBVIOUS
<1>1. PICK n \in 0 .. MaxLen :
        /\ DOMAIN arr = 0 .. n - 1 /\ Len(pending) \in 0 .. n
        /\ \A m \in 0 .. Len(pending) : InShare(Width(m), Len(pending) - m, n)
  BY DEF NestInv
<1>2. /\ pending # << >> /\ a' = pending[1].a /\ l' = pending[1].l
      /\ pending' = Tail(pending) /\ arr' = arr /\ Working
  BY DEF Return, SortInv
<1> DEFINE S == [a : Int, l : Int]
<1>3. pending \in Seq(S) /\ Len(pending) \in Nat /\ Len(pending) > 0
  BY <1>2 DEF Working
<1> HIDE DEF S
<1>4. /\ Len(pending') = Len(pending) - 1
      /\ \A m \in 1 .. Len(pending) - 1 : pending'[m] = pending[m + 1]
  BY <1>2, <1>3
<1>5. ASSUME NEW m \in 0 .. Len(pending')
      PROVE  InShare(Width(m)', Len(pending') - m, n)
  <2>1. /\ m + 1 \in 0 .. Len(pending) /\ m + 1 # 0
        /\ Len(pending') - m = Len(pending) - (m + 1)
    BY <1>3, <1>4
  <2>2. Width(m)' = Width(m + 1)
    <3>1. CASE m = 0
      BY <1>2, <2>1, <3>1 DEF Width
    <3>2. CASE m # 0
      <4>1. m \in 1 .. Len(pending) - 1
        BY <1>3, <1>4, <3>2
      <4> QED BY <1>4, <2>1, <3>2, <4>1 DEF Width
    <3> QED BY <3>1, <3>2
  <2> QED BY <1>1, <2>1, <2>2
<1>6. DOMAIN arr' = 0 .. n - 1 /\ Len(pending') \in 0 .. n
  BY <1>1, <1>2, <1>3, <1>4
<1> QED BY <1>5, <1>6 DEF NestInv

(* The call itself, and its end.                                           *)
LEMMA WholeShare ==
  ASSUME NEW n \in 0 .. MaxLen, DOMAIN arr' = 0 .. n - 1, pending' = << >>, l' - a' = n
  PROVE  NestInv'
<1>1. n \in Nat /\ 0 .. Len(pending') = {0} /\ Len(pending') = 0
  BY SortAssumption
<1>2. InShare(n, 0, n)
  BY <1>1, PowersOfTwo DEF InShare
<1>3. Width(0)' = n
  BY DEF Width
<1>4. \A m \in 0 .. Len(pending') : InShare(Width(m)', Len(pending') - m, n)
  <2>1. 0 - 0 = 0
    OBVIOUS
  <2> QED BY <1>1, <1>2, <1>3, <2>1
<1> QED BY <1>1, <1>4 DEF NestInv

LEMMA NestKept == SortInv /\ NestInv /\ [SortNext]_sortvars => NestInv'
<1> SUFFICES ASSUME SortInv, NestInv, [SortNext]_sortvars
             PROVE  NestInv'
  OBVIOUS
<1>1. CASE \E in \in Arrays : Qsort(in)
  <2>1. PICK in \in Arrays : Qsort(in)
    BY <1>1
  <2>2. PICK n \in 0 .. MaxLen : in \in [0 .. n - 1 -> Elems]
    BY DEF Arrays
  <2>3. n \in Nat /\ DOMAIN in = 0 .. n - 1
    BY <2>2, SortAssumption
  <2>4. Cardinality(DOMAIN in) = n
    BY <2>3, FS_Interval
  <2>5. arr' = in /\ pending' = << >> /\ l' - a' = n
    BY <2>1, <2>3, <2>4 DEF Qsort, SortInv
  <2> QED BY <2>3, <2>5, WholeShare
<1>2. CASE SortReturn
  <2>1. pending' = << >> /\ arr' = << >> /\ l' = 0 /\ a' = 0
    BY <1>2 DEF SortReturn, SortInv
  <2>2. DOMAIN arr' = 0 .. 0 - 1 /\ 0 \in 0 .. MaxLen /\ l' - a' = 0
    BY <2>1, SortAssumption
  <2> QED BY <2>1, <2>2, WholeShare
<1>3. CASE Return
  BY <1>3, ReturnNests
<1>4. CASE Split
  BY <1>4, SplitNests
<1>5. ASSUME UNCHANGED <<a, l, pending>>, DOMAIN arr' = DOMAIN arr
      PROVE  NestInv'
  <2>1. \A m : Width(m)' = Width(m)
    BY <1>5 DEF Width
  <2> QED BY <1>5, <2>1 DEF NestInv
<1>6. CASE \/ Finish \/ Partition \/ LeftEqual \/ LeftBelow \/ LeftDone
           \/ RightEqual \/ RightBelow \/ RightAbove \/ RightDone \/ UNCHANGED sortvars
  <2>1. UNCHANGED <<a, l, pending>>
    BY <1>6 DEF Finish, Partition, LeftEqual, LeftBelow, LeftDone, RightEqual, RightBelow,
       RightAbove, RightDone, sortvars
  <2>2. DOMAIN arr' = DOMAIN arr
    BY <1>6 DEF Finish, Partition, LeftEqual, LeftBelow, LeftDone, RightEqual, RightBelow,
       RightAbove, RightDone, sortvars, Exchanged, Rotated
  <2> QED BY <1>5, <2>1, <2>2
<1> QED BY <1>1, <1>2, <1>3, <1>4, <1>6 DEF SortNext, SortStep

(* Sorting the smaller part first keeps the calls that wait below the      *)
(* logarithm of the length, for arrays of every length.                    *)
THEOREM NestingBounded == SortSpec => []NestsLittle
<1>1. SortInit => NestInv
  <2> SUFFICES ASSUME SortInit PROVE NestInv
    OBVIOUS
  <2>1. 0 \in 0 .. MaxLen /\ DOMAIN arr = 0 .. 0 - 1 /\ Len(pending) = 0 /\ 0 .. 0 = {0}
    BY SortAssumption DEF SortInit
  <2>2. Width(0) = 0 /\ InShare(0, 0, 0) /\ 0 - 0 = 0
    BY PowersOfTwo DEF SortInit, Width, InShare
  <2>3. \A m \in 0 .. Len(pending) : InShare(Width(m), Len(pending) - m, 0)
    BY <2>1, <2>2
  <2> QED BY <2>1, <2>3 DEF NestInv
<1>2. NestInv => NestsLittle
  <2> SUFFICES ASSUME NestInv PROVE NestsLittle
    OBVIOUS
  <2>1. PICK n \in 0 .. MaxLen :
          /\ DOMAIN arr = 0 .. n - 1 /\ Len(pending) \in 0 .. n
          /\ \A m \in 0 .. Len(pending) : InShare(Width(m), Len(pending) - m, n)
    BY DEF NestInv
  <2>2. n \in Nat /\ Cardinality(DOMAIN arr) = n
    BY <2>1, SortAssumption, FS_Interval
  <2>3. PICK d \in 0 .. MaxLen : d = Len(pending)
    BY <2>1, SortAssumption
  <2>4. 0 \in 0 .. Len(pending) /\ Len(pending) - 0 = d
    BY <2>3
  <2>5. PICK w : w = Width(0) /\ InShare(w, d, n)
    BY <2>1, <2>4
  <2>6. PICK p \in Nat : p = Power2[d]
    BY PowersOfTwo
  <2>7. w \in Nat /\ p * (w + 1) <= n + 1
    BY <2>5, <2>6 DEF InShare
  <2>8. p * (w + 1) = p * w + p /\ p * w \in Nat
    BY <2>7
  <2>9. p <= n + 1
    BY <2>2, <2>7, <2>8
  <2> QED BY <2>2, <2>3, <2>6, <2>9 DEF NestsLittle
<1> QED BY <1>1, <1>2, NestKept, SortInvariant, PTL DEF SortSpec

-----------------------------------------------------------------------------
(* Strings and blocks of memory.                                           *)
Memories == [0 .. NMEM - 1 -> Byte]

(* The end of a string is the first NUL, and its text what stands before.  *)
LEMMA StringEnds ==
  ASSUME mem \in Memories, NEW s \in Strs
  PROVE  /\ s \in Nat /\ s < NMEM /\ strlen(s) \in Nat /\ s + strlen(s) < NMEM
         /\ mem[s + strlen(s)] = NUL
         /\ \A k \in 0 .. strlen(s) - 1 : mem[s + k] \in Chars
<1>1. s \in 0 .. NMEM - 1 /\ NMEM \in Nat
  BY StringsAssumption DEF Strs, Addr, Memories
<1>2. PICK e \in s .. NMEM - 1 : mem[e] = NUL
  BY DEF Strs, IsString
<1>3. e - s \in Ends(s) /\ Ends(s) \in SUBSET Nat
  <2>1. e - s \in 0 .. NMEM - 1 - s /\ s + (e - s) = e
    BY <1>1, <1>2
  <2> QED BY <1>2, <2>1 DEF Ends, Offsets
<1>4. strlen(s) \in Ends(s) /\ \A k \in Ends(s) : strlen(s) <= k
  BY <1>3, LeastNumber DEF strlen
<1>5. strlen(s) \in 0 .. NMEM - 1 - s /\ mem[s + strlen(s)] = NUL
  BY <1>4 DEF Ends, Offsets
<1>6. ASSUME NEW k \in 0 .. strlen(s) - 1
      PROVE  mem[s + k] \in Chars
  <2>1. k \in 0 .. NMEM - 1 - s /\ ~(strlen(s) <= k) /\ s + k \in 0 .. NMEM - 1
    BY <1>1, <1>5
  <2>2. mem[s + k] # NUL
    BY <1>4, <2>1 DEF Ends, Offsets
  <2> QED BY <2>1, <2>2 DEF Memories, Byte
<1> QED BY <1>1, <1>5, <1>6

LEMMA TextIs ==
  ASSUME mem \in Memories, NEW s \in Strs
  PROVE  /\ Text(s) = Bytes(s, strlen(s))
         /\ Text(s) \in Seq(Byte) /\ Len(Text(s)) = strlen(s)
         /\ \A k \in 1 .. strlen(s) : Text(s)[k] = mem[s + k - 1] /\ Text(s)[k] \in Chars
<1>1. /\ s \in Nat /\ s < NMEM /\ strlen(s) \in Nat /\ s + strlen(s) < NMEM
      /\ mem[s + strlen(s)] = NUL /\ NMEM \in Nat
      /\ \A k \in 0 .. strlen(s) - 1 : mem[s + k] \in Chars
  BY StringEnds, StringsAssumption
<1> DEFINE Here(k) == mem[s + k] = NUL /\ \A n \in 0 .. k - 1 : mem[s + n] # NUL
<1>2. PICK e : e = strlen(s)
  OBVIOUS
<1>3. e \in 0 .. NMEM /\ Here(e)
  <2>1. NUL \notin Chars
    BY StringsAssumption DEF NUL
  <2> QED BY <1>1, <1>2, <2>1
<1>4. \A k \in 0 .. NMEM : Here(k) => k = e
  <2> TAKE k \in 0 .. NMEM
  <2> HAVE Here(k)
  <2>1. ~(k < e)
    BY <1>3
  <2>2. ~(e < k)
    BY <1>3
  <2> QED BY <1>3, <2>1, <2>2
<1>5. (CHOOSE k \in 0 .. NMEM : Here(k)) = e
  <2> HIDE DEF Here
  <2> QED BY <1>3, <1>4
<1>6. Text(s) = [k \in 1 .. e |-> mem[s + k - 1]]
  BY <1>5 DEF Text
<1>7. e \in Nat
  BY <1>1, <1>2
<1>8. ASSUME NEW k \in 1 .. e
      PROVE  mem[s + k - 1] \in Chars
  <2>1. k - 1 \in 0 .. e - 1 /\ s + (k - 1) = s + k - 1
    BY <1>1, <1>7
  <2> QED BY <1>1, <1>2, <2>1
<1> QED BY <1>2, <1>6, <1>7, <1>8 DEF Bytes, Byte

(* The memory m with n bytes from s on at d, and with n bytes c at p.      *)
Moved(m, d, s, n) == [x \in 0 .. NMEM - 1 |-> IF x \in d .. d + n - 1 THEN m[s + (x - d)] ELSE m[x]]
Filled(m, p, c, n) == [x \in 0 .. NMEM - 1 |-> IF x \in p .. p + n - 1 THEN c ELSE m[x]]

(* Bytes copied one at a time are where they belong in the end, if none is *)
(* read after it has been written.                                         *)
LEMMA CopyMoves ==
  ASSUME NEW m \in Memories, NEW d \in Nat, NEW s \in Nat,
         NEW order \in Seq(Nat), NEW n \in Nat, n = Len(order),
         d + n <= NMEM, s + n <= NMEM,
         \A k \in 1 .. n : order[k] < n,
         \A b \in 0 .. n - 1 : \E k \in 1 .. n : order[k] = b,
         \A k \in 1 .. n : \A q \in 1 .. k - 1 : d + order[q] # s + order[k]
  PROVE  Copying(m, d, s, order) = Moved(m, d, s, n)
<1> DEFINE M == 0 .. NMEM - 1
           after[k \in 0 .. Len(order)] ==
             IF k = 0 THEN m
             ELSE LET w == after[k - 1] IN [w EXCEPT ![d + order[k]] = w[s + order[k]]]
           IsAfter(f) == f = [k \in 0 .. n |->
             IF k = 0 THEN m ELSE [f[k - 1] EXCEPT ![d + order[k]] = f[k - 1][s + order[k]]]]
           Written(x, k) == \E q \in 1 .. k : x = d + order[q]
           Now(k) == [x \in M |-> IF Written(x, k) THEN m[s + (x - d)] ELSE m[x]]
           f == [k \in 0 .. n |-> Now(k)]
<1>0. \A k \in 0 .. n : k = 0 \/ (k \in 1 .. n /\ k - 1 \in 0 .. n)
  OBVIOUS
<1>1. NMEM \in Nat
  BY StringsAssumption
<1>2. \A k \in 1 .. n : order[k] \in Nat /\ d + order[k] \in M /\ s + order[k] \in M
  BY <1>1
<1>3. Now(0) = m
  BY DEF Memories
<1>4. ASSUME NEW k \in 1 .. n
      PROVE  Now(k) = [Now(k - 1) EXCEPT ![d + order[k]] = Now(k - 1)[s + order[k]]]
  <2>1. order[k] \in Nat /\ d + order[k] \in M /\ s + order[k] \in M
    BY <1>2
  <2>2. Now(k - 1)[s + order[k]] = m[s + order[k]]
    BY <2>1
  <2>3. \A x \in M : x # d + order[k] => (Written(x, k) <=> Written(x, k - 1))
    <3>1. 1 .. k = 1 .. k - 1 \cup {k}
      OBVIOUS
    <3> QED BY ONLY <3>1
  <2>4. Written(d + order[k], k) /\ s + ((d + order[k]) - d) = s + order[k]
    BY <2>1
  <2> HIDE DEF Written, M
  <2> QED BY <2>1, <2>2, <2>3, <2>4
<1> HIDE DEF Now
<1>5. IsAfter(f)
  <2>1. \A k \in 0 .. n : Now(k) =
          IF k = 0 THEN m ELSE [f[k - 1] EXCEPT ![d + order[k]] = f[k - 1][s + order[k]]]
    BY <1>0, <1>3, <1>4
  <2> QED BY <2>1
<1>6. after = CHOOSE g : IsAfter(g)
  OBVIOUS
<1>7. IsAfter(after)
  <2> HIDE DEF IsAfter, after, f
  <2> QED BY <1>5, <1>6
<1>8. /\ after[0] = m
      /\ \A k \in 1 .. n : after[k] = [after[k - 1] EXCEPT ![d + order[k]] = after[k - 1][s + order[k]]]
  <2> HIDE DEF after
  <2>1. \A k \in 0 .. n : after[k] =
          IF k = 0 THEN m ELSE [after[k - 1] EXCEPT ![d + order[k]] = after[k - 1][s + order[k]]]
    BY <1>7
  <2>2. 0 \in 0 .. n /\ \A k \in 1 .. n : k \in 0 .. n /\ k # 0
    OBVIOUS
  <2> QED BY ONLY <2>1, <2>2
<1>9. Copying(m, d, s, order) = after[n]
  BY DEF Copying
<1> HIDE DEF after, IsAfter, f
<1> DEFINE G == {k \in Nat : k <= n => after[k] = Now(k)}
<1>10. 0 \in G
  BY <1>3, <1>8
<1>11. ASSUME NEW k \in Nat, k \in G
       PROVE  k + 1 \in G
  <2> SUFFICES ASSUME k + 1 <= n PROVE after[k + 1] = Now(k + 1)
    OBVIOUS
  <2>1. k + 1 \in 1 .. n /\ (k + 1) - 1 = k /\ after[k] = Now(k)
    BY <1>11
  <2>2. Now(k + 1) = [Now(k) EXCEPT ![d + order[k + 1]] = Now(k)[s + order[k + 1]]]
    BY <1>4, <2>1
  <2>3. after[k + 1] = [after[k] EXCEPT ![d + order[k + 1]] = after[k][s + order[k + 1]]]
    BY <1>8, <2>1
  <2> QED BY <2>1, <2>2, <2>3
<1> HIDE DEF G
<1>12. after[n] = Now(n)
  <2>1. n \in G
    BY <1>10, <1>11, SetInduction
  <2> QED BY <2>1 DEF G
<1>13. \A x \in M : Written(x, n) <=> x \in d .. d + n - 1
  <2> TAKE x \in M
  <2>1. ASSUME x \in d .. d + n - 1 PROVE Written(x, n)
    <3>1. x - d \in 0 .. n - 1
      BY <2>1
    <3>2. PICK k \in 1 .. n : order[k] = x - d
      BY <3>1
    <3> QED BY <3>2
  <2>2. ASSUME Written(x, n) PROVE x \in d .. d + n - 1
    BY <2>2
  <2> QED BY <2>1, <2>2
<1> QED BY <1>9, <1>12, <1>13 DEF Now, Moved

(* memcpy copies upward, and memmove downward when the destination lies    *)
(* above the source.                                                       *)
LEMMA CopyUp ==
  ASSUME NEW m \in Memories, NEW d \in Nat, NEW s \in Nat, NEW n \in Nat,
         d + n <= NMEM, s + n <= NMEM, d <= s \/ s + n <= d
  PROVE  Copying(m, d, s, Upto(n)) = Moved(m, d, s, n)
<1>1. /\ Upto(n) \in Seq(Nat) /\ Len(Upto(n)) = n
      /\ \A k \in 1 .. n : Upto(n)[k] = k - 1
  BY DEF Upto
<1> PICK order : order = Upto(n)
  OBVIOUS
<1>2. \A b \in 0 .. n - 1 : b + 1 \in 1 .. n /\ (b + 1) - 1 = b
  OBVIOUS
<1>3. \A k \in 1 .. n, q \in 1 .. n : q < k => d + (q - 1) # s + (k - 1)
  OBVIOUS
<1>4. /\ order \in Seq(Nat) /\ Len(order) = n /\ \A k \in 1 .. n : order[k] < n
      /\ \A b \in 0 .. n - 1 : \E k \in 1 .. n : order[k] = b
  <2>1. \A k \in 1 .. n : order[k] = k - 1 /\ k - 1 < n
    BY <1>1
  <2>2. \A b \in 0 .. n - 1 : order[b + 1] = b
    BY <1>2, <2>1
  <2> QED BY <1>1, <1>2, <2>1, <2>2
<1>5. \A k \in 1 .. n : \A q \in 1 .. k - 1 : d + order[q] # s + order[k]
  BY <1>1, <1>3
<1>6. Copying(m, d, s, order) = Moved(m, d, s, n)
  BY <1>4, <1>5, CopyMoves
<1> QED BY <1>6

LEMMA CopyDown ==
  ASSUME NEW m \in Memories, NEW d \in Nat, NEW s \in Nat, NEW n \in Nat,
         d + n <= NMEM, s + n <= NMEM, s < d
  PROVE  Copying(m, d, s, Reverse(Upto(n))) = Moved(m, d, s, n)
<1> PICK order : order = Reverse(Upto(n))
  OBVIOUS
<1>1. /\ order \in Seq(Nat) /\ Len(order) = n
      /\ \A k \in 1 .. n : order[k] = n - k
  <2>1. Upto(n) \in Seq(Nat) /\ Len(Upto(n)) = n /\ \A k \in 1 .. n : Upto(n)[k] = k - 1
    BY DEF Upto
  <2>2. \A k \in 1 .. n : (n - k) + 1 \in 1 .. n /\ ((n - k) + 1) - 1 = n - k /\ n - k \in Nat
    OBVIOUS
  <2>3. order = [k \in 1 .. n |-> n - k]
    BY <2>1, <2>2 DEF Reverse
  <2> QED BY <2>2, <2>3
<1>2. \A b \in 0 .. n - 1 : n - b \in 1 .. n /\ n - (n - b) = b
  OBVIOUS
<1>3. \A k \in 1 .. n, q \in 1 .. n : q < k => d + (n - q) # s + (n - k)
  OBVIOUS
<1>4. /\ \A k \in 1 .. n : order[k] < n
      /\ \A b \in 0 .. n - 1 : \E k \in 1 .. n : order[k] = b
  BY <1>1, <1>2
<1>5. \A k \in 1 .. n : \A q \in 1 .. k - 1 : d + order[q] # s + order[k]
  BY <1>1, <1>3
<1>6. Copying(m, d, s, order) = Moved(m, d, s, n)
  BY <1>1, <1>4, <1>5, CopyMoves
<1> QED BY <1>6

(* memset, and the NULs strncpy fills up with.                             *)
LEMMA FillingFills ==
  ASSUME NEW m \in Memories, NEW p \in Nat, NEW c, NEW n \in Nat, p + n <= NMEM
  PROVE  Filling(m, p, c, n) = Filled(m, p, c, n)
<1> DEFINE M == 0 .. NMEM - 1
           after[k \in 0 .. n] == IF k = 0 THEN m ELSE [after[k - 1] EXCEPT ![p + k - 1] = c]
           IsAfter(f) == f = [k \in 0 .. n |-> IF k = 0 THEN m ELSE [f[k - 1] EXCEPT ![p + k - 1] = c]]
           Now(k) == Filled(m, p, c, k)
           f == [k \in 0 .. n |-> Now(k)]
<1>0. \A k \in 0 .. n : k = 0 \/ (k \in 1 .. n /\ k - 1 \in 0 .. n)
  OBVIOUS
<1>1. Now(0) = m
  BY DEF Memories, Filled
<1>2. ASSUME NEW k \in 1 .. n
      PROVE  Now(k) = [Now(k - 1) EXCEPT ![p + k - 1] = c]
  <2>1. p + k - 1 \in M
    BY StringsAssumption
  <2>2. \A x \in M : x \in p .. p + k - 1 <=> x \in p .. p + (k - 1) - 1 \/ x = p + k - 1
    OBVIOUS
  <2> QED BY <2>1, <2>2 DEF Filled
<1> HIDE DEF Now
<1>3. IsAfter(f)
  <2>1. \A k \in 0 .. n : Now(k) = IF k = 0 THEN m ELSE [f[k - 1] EXCEPT ![p + k - 1] = c]
    BY <1>0, <1>1, <1>2
  <2> QED BY <2>1
<1>4. after = CHOOSE g : IsAfter(g)
  OBVIOUS
<1>5. IsAfter(after)
  <2> HIDE DEF IsAfter, after, f
  <2> QED BY <1>3, <1>4
<1>6. after[0] = m /\ \A k \in 1 .. n : after[k] = [after[k - 1] EXCEPT ![p + k - 1] = c]
  <2> HIDE DEF after
  <2>1. \A k \in 0 .. n : after[k] = IF k = 0 THEN m ELSE [after[k - 1] EXCEPT ![p + k - 1] = c]
    BY <1>5
  <2>2. 0 \in 0 .. n /\ \A k \in 1 .. n : k \in 0 .. n /\ k # 0
    OBVIOUS
  <2> QED BY ONLY <2>1, <2>2
<1>7. Filling(m, p, c, n) = after[n]
  BY DEF Filling
<1> HIDE DEF after, IsAfter, f
<1> DEFINE G == {k \in Nat : k <= n => after[k] = Now(k)}
<1>8. 0 \in G
  BY <1>1, <1>6
<1>9. ASSUME NEW k \in Nat, k \in G
      PROVE  k + 1 \in G
  <2> SUFFICES ASSUME k + 1 <= n PROVE after[k + 1] = Now(k + 1)
    OBVIOUS
  <2>1. k + 1 \in 1 .. n /\ (k + 1) - 1 = k /\ after[k] = Now(k)
    BY <1>9
  <2>2. Now(k + 1) = [Now(k) EXCEPT ![p + (k + 1) - 1] = c]
    BY <1>2, <2>1
  <2>3. after[k + 1] = [after[k] EXCEPT ![p + (k + 1) - 1] = c]
    BY <1>6, <2>1
  <2> QED BY <2>1, <2>2, <2>3
<1> HIDE DEF G
<1>10. n \in G
  BY <1>8, <1>9, SetInduction
<1> QED BY <1>7, <1>10 DEF G, Now

(* The string at s from the last byte to the first.                        *)
Turned(m, s, n) == [x \in 0 .. NMEM - 1 |-> IF x \in s .. s + n - 1 THEN m[(s + n - 1) - (x - s)] ELSE m[x]]

(* Two bytes change places in every round, the outer ones first.           *)
LEMMA ReverseTurns ==
  ASSUME mem \in Memories, NEW s \in Strs
  PROVE  strreverse(s) = Turned(mem, s, strlen(s))
<1> PICK n : n = strlen(s)
  OBVIOUS
<1> PICK m : m = mem
  OBVIOUS
<1> DEFINE half == n \div 2
           M == 0 .. NMEM - 1
           after[k \in 0 .. half] ==
             IF k = 0 THEN m
             ELSE LET w == after[k - 1]
                      p == s + k - 1
                      q == s + n - k
                  IN  [w EXCEPT ![p] = w[q], ![q] = w[p]]
           IsAfter(f) == f = [k \in 0 .. half |->
             IF k = 0 THEN m
             ELSE [f[k - 1] EXCEPT ![s + k - 1] = f[k - 1][s + n - k], ![s + n - k] = f[k - 1][s + k - 1]]]
           Swapped(x, k) == x \in s .. s + n - 1 /\ (x < s + k \/ x >= s + n - k)
           Now(k) == [x \in M |-> IF Swapped(x, k) THEN m[(s + n - 1) - (x - s)] ELSE m[x]]
           f == [k \in 0 .. half |-> Now(k)]
<1>0. /\ s \in Nat /\ n \in Nat /\ s + n < NMEM /\ NMEM \in Nat /\ m \in Memories
      /\ half \in Nat /\ 2 * half <= n /\ n < 2 * half + 2
  <2>1. /\ s \in Nat /\ n \in Nat /\ s + n < NMEM /\ NMEM \in Nat /\ m \in Memories
    BY StringEnds, StringsAssumption
  <2>2. half \in Nat /\ 2 * half <= n /\ n < 2 * half + 2
    BY <2>1
  <2> QED BY <2>1, <2>2
<1>1. strreverse(s) = after[half]
  BY DEF strreverse
<1>2. after = CHOOSE g : IsAfter(g)
  OBVIOUS
<1> HIDE DEF half, after
<1>3. \A k \in 0 .. half : k = 0 \/ (k \in 1 .. half /\ k - 1 \in 0 .. half)
  BY <1>0
<1>4. Now(0) = m
  <2>1. \A x \in M : ~Swapped(x, 0)
    BY <1>0
  <2> HIDE DEF Swapped
  <2> QED BY <1>0, <2>1 DEF Memories
<1>5. ASSUME NEW k \in 1 .. half
      PROVE  Now(k) = [Now(k - 1) EXCEPT ![s + k - 1] = Now(k - 1)[s + n - k],
                                         ![s + n - k] = Now(k - 1)[s + k - 1]]
  <2> PICK p : p = s + k - 1
    OBVIOUS
  <2> PICK q : q = s + n - k
    OBVIOUS
  <2>1. p \in M /\ q \in M /\ p # q /\ k \in Nat /\ 2 * k <= n
    BY <1>0
  <2>2. ~Swapped(p, k - 1) /\ ~Swapped(q, k - 1) /\ Swapped(p, k) /\ Swapped(q, k)
    BY <1>0, <2>1
  <2>3. (s + n - 1) - (p - s) = q /\ (s + n - 1) - (q - s) = p
    BY <1>0, <2>1
  <2>4. \A x \in M : x # p /\ x # q => (Swapped(x, k) <=> Swapped(x, k - 1))
    BY <1>0, <2>1
  <2>5. Now(k - 1)[q] = m[q] /\ Now(k - 1)[p] = m[p]
    BY <2>1, <2>2
  <2>6. Now(k) = [Now(k - 1) EXCEPT ![p] = m[q], ![q] = m[p]]
    <3> HIDE DEF Swapped, M
    <3> QED BY <2>1, <2>2, <2>3, <2>4
  <2> HIDE DEF Now
  <2> QED BY <2>5, <2>6
<1> HIDE DEF Now
<1>6. IsAfter(f)
  <2>1. \A k \in 0 .. half : Now(k) =
          IF k = 0 THEN m
          ELSE [f[k - 1] EXCEPT ![s + k - 1] = f[k - 1][s + n - k], ![s + n - k] = f[k - 1][s + k - 1]]
    BY <1>3, <1>4, <1>5
  <2> QED BY <2>1
<1>7. IsAfter(after)
  <2> HIDE DEF IsAfter, f
  <2> QED BY <1>2, <1>6
<1>8. /\ after[0] = m
      /\ \A k \in 1 .. half :
           after[k] = [after[k - 1] EXCEPT ![s + k - 1] = after[k - 1][s + n - k],
                                           ![s + n - k] = after[k - 1][s + k - 1]]
  <2>1. \A k \in 0 .. half : after[k] =
          IF k = 0 THEN m
          ELSE [after[k - 1] EXCEPT ![s + k - 1] = after[k - 1][s + n - k],
                                    ![s + n - k] = after[k - 1][s + k - 1]]
    BY <1>7
  <2>2. 0 \in 0 .. half /\ \A k \in 1 .. half : k \in 0 .. half /\ k # 0
    BY <1>0
  <2> QED BY ONLY <2>1, <2>2
<1> HIDE DEF IsAfter, f
<1> DEFINE G == {k \in Nat : k <= half => after[k] = Now(k)}
<1>9. 0 \in G
  BY <1>4, <1>8
<1>10. ASSUME NEW k \in Nat, k \in G
       PROVE  k + 1 \in G
  <2> SUFFICES ASSUME k + 1 <= half PROVE after[k + 1] = Now(k + 1)
    OBVIOUS
  <2>1. k + 1 \in 1 .. half /\ (k + 1) - 1 = k /\ after[k] = Now(k)
    BY <1>0, <1>10
  <2>2. Now(k + 1) = [Now(k) EXCEPT ![s + (k + 1) - 1] = Now(k)[s + n - (k + 1)],
                                    ![s + n - (k + 1)] = Now(k)[s + (k + 1) - 1]]
    BY <1>5, <2>1
  <2>3. after[k + 1] = [after[k] EXCEPT ![s + (k + 1) - 1] = after[k][s + n - (k + 1)],
                                        ![s + n - (k + 1)] = after[k][s + (k + 1) - 1]]
    BY <1>8, <2>1
  <2> QED BY <2>1, <2>2, <2>3
<1> HIDE DEF G
<1>11. after[half] = Now(half)
  <2>1. half \in G
    BY <1>0, <1>9, <1>10, SetInduction
  <2> QED BY <1>0, <2>1 DEF G
<1>12. \A x \in M : x \in s .. s + n - 1 /\ ~Swapped(x, half) => (s + n - 1) - (x - s) = x
  <2> TAKE x \in M
  <2> HAVE x \in s .. s + n - 1 /\ ~Swapped(x, half)
  <2>1. x \in Int /\ s + half <= x /\ x < s + n - half
    BY <1>0
  <2>2. x = s + half /\ n = 2 * half + 1
    BY <1>0, <2>1
  <2> QED BY <1>0, <2>2
<1>13. Now(half) = Turned(m, s, n)
  <2>1. \A x \in M : Swapped(x, half) => x \in s .. s + n - 1
    OBVIOUS
  <2>2. \A x \in M : (IF Swapped(x, half) THEN m[(s + n - 1) - (x - s)] ELSE m[x])
                   = IF x \in s .. s + n - 1 THEN m[(s + n - 1) - (x - s)] ELSE m[x]
    <3> HIDE DEF Swapped
    <3> QED BY <1>12, <2>1
  <2> QED BY <2>2 DEF Now, Turned
<1> QED BY <1>1, <1>11, <1>13

(* What the memory is that holds seq from d on: seq there, and elsewhere   *)
(* what it was.                                                            *)
Holds(w, d, seq) == \A k \in 1 .. Len(seq) : w[d + k - 1] = seq[k]
CopiedFrom(w, d, m, s, n) == \A k \in 1 .. n : w[d + k - 1] = m[s + k - 1]
KeepsBut(w, m, d, n) == \A x \in 0 .. NMEM - 1 : x \notin d .. d + n - 1 => w[x] = m[x]

LEMMA WithIs ==
  ASSUME mem \in Memories, NEW d \in Nat, NEW seq \in Seq(Byte),
         NEW w \in Memories, Holds(w, d, seq), KeepsBut(w, mem, d, Len(seq))
  PROVE  w = With(d, seq)
<1> PICK n \in Nat : n = Len(seq)
  OBVIOUS
<1>1. Addr = 0 .. NMEM - 1
  BY DEF Addr, Memories
<1>2. ASSUME NEW x \in 0 .. NMEM - 1, x \in d .. d + n - 1
      PROVE  w[x] = seq[x - d + 1]
  <2>1. x - d + 1 \in 1 .. n /\ d + (x - d + 1) - 1 = x
    BY <1>2
  <2> QED BY <2>1 DEF Holds
<1>3. \A x \in 0 .. NMEM - 1 : w[x] = IF x \in d .. d + n - 1 THEN seq[x - d + 1] ELSE mem[x]
  BY <1>2 DEF KeepsBut
<1>4. w = [x \in 0 .. NMEM - 1 |-> w[x]]
  BY DEF Memories
<1> QED BY <1>1, <1>3, <1>4 DEF With

LEMMA MovedIs ==
  ASSUME NEW m \in Memories, NEW d \in Nat, NEW s \in Nat, NEW n \in Nat,
         d + n <= NMEM, s + n <= NMEM
  PROVE  /\ Moved(m, d, s, n) \in Memories
         /\ CopiedFrom(Moved(m, d, s, n), d, m, s, n)
         /\ KeepsBut(Moved(m, d, s, n), m, d, n)
<1>1. \A x \in d .. d + n - 1 : s + (x - d) \in 0 .. NMEM - 1
  BY StringsAssumption
<1>2. \A k \in 1 .. n : d + k - 1 \in 0 .. NMEM - 1 /\ d + k - 1 \in d .. d + n - 1
                        /\ s + ((d + k - 1) - d) = s + k - 1
  BY StringsAssumption
<1> QED BY <1>1, <1>2 DEF Moved, Memories, CopiedFrom, KeepsBut

LEMMA FilledIs ==
  ASSUME NEW m \in Memories, NEW p \in Nat, NEW c \in Byte, NEW n \in Nat, p + n <= NMEM
  PROVE  /\ Filled(m, p, c, n) \in Memories
         /\ \A x \in p .. p + n - 1 : Filled(m, p, c, n)[x] = c
         /\ KeepsBut(Filled(m, p, c, n), m, p, n)
<1>1. \A x \in p .. p + n - 1 : x \in 0 .. NMEM - 1
  BY StringsAssumption
<1> QED BY <1>1 DEF Filled, Memories, KeepsBut

(* memmove and memcpy: the bytes of the source, as they were.              *)
LEMMA MoveMoves ==
  ASSUME mem \in Memories, NEW mv \in Moves
  PROVE  /\ mv[1] \in Nat /\ mv[2] \in Nat /\ mv[3] \in Nat
         /\ mv[1] + mv[3] <= NMEM /\ mv[2] + mv[3] <= NMEM
         /\ memmove(mv[1], mv[2], mv[3]) = Moved(mem, mv[1], mv[2], mv[3])
         /\ Apart(mv[1], mv[3], mv[2], mv[3]) =>
              memcpy(mv[1], mv[2], mv[3]) = Moved(mem, mv[1], mv[2], mv[3])
<1>1. Addr = 0 .. NMEM - 1 /\ NMEM \in Nat
  BY StringsAssumption DEF Addr, Memories
<1>2. mv[1] \in Addr /\ mv[2] \in Addr /\ mv[3] \in Counts /\ Room(mv[1], mv[3]) /\ Room(mv[2], mv[3])
  BY DEF Moves
<1> PICK d : d = mv[1]
  OBVIOUS
<1> PICK s : s = mv[2]
  OBVIOUS
<1> PICK n : n = mv[3]
  OBVIOUS
<1>3. d \in Nat /\ s \in Nat /\ n \in Nat /\ d + n <= NMEM /\ s + n <= NMEM
  BY <1>1, <1>2 DEF Room, Counts
<1>4. memmove(d, s, n) = Moved(mem, d, s, n)
  <2>1. CASE s < d
    BY <1>3, <2>1, CopyDown DEF memmove
  <2>2. CASE ~(s < d)
    <3>1. d <= s
      BY <1>3, <2>2
    <3> QED BY <1>3, <2>2, <3>1, CopyUp DEF memmove
  <2> QED BY <2>1, <2>2
<1>5. ASSUME Apart(d, n, s, n)
      PROVE  memcpy(d, s, n) = Moved(mem, d, s, n)
  <2>1. d <= s \/ s + n <= d
    BY <1>3, <1>5 DEF Apart
  <2> QED BY <1>3, <2>1, CopyUp DEF memcpy
<1> QED BY <1>3, <1>4, <1>5

LEMMA MoveWrites ==
  ASSUME mem \in Memories, NEW mv \in Moves
  PROVE  memmove(mv[1], mv[2], mv[3]) = With(mv[1], Bytes(mv[2], mv[3]))
<1> PICK d : d = mv[1]
  OBVIOUS
<1> PICK s : s = mv[2]
  OBVIOUS
<1> PICK n : n = mv[3]
  OBVIOUS
<1>1. /\ d \in Nat /\ s \in Nat /\ n \in Nat /\ d + n <= NMEM /\ s + n <= NMEM
      /\ memmove(d, s, n) = Moved(mem, d, s, n)
  BY MoveMoves
<1>2. \A k \in 1 .. n : mem[s + k - 1] \in Byte
  <2>1. \A k \in 1 .. n : s + k - 1 \in 0 .. NMEM - 1
    BY <1>1, StringsAssumption
  <2> QED BY <2>1 DEF Memories
<1>3. /\ Bytes(s, n) \in Seq(Byte) /\ Len(Bytes(s, n)) = n
      /\ \A k \in 1 .. n : Bytes(s, n)[k] = mem[s + k - 1]
  <2>1. n \in Nat
    BY <1>1
  <2> QED BY <1>2, <2>1 DEF Bytes
<1>4. PICK w : w = Moved(mem, d, s, n)
  OBVIOUS
<1>5. w \in Memories /\ CopiedFrom(w, d, mem, s, n) /\ KeepsBut(w, mem, d, n)
  BY <1>1, <1>4, MovedIs
<1>6. w = With(d, Bytes(s, n))
  <2>1. Holds(w, d, Bytes(s, n)) /\ KeepsBut(w, mem, d, Len(Bytes(s, n)))
    BY <1>3, <1>5 DEF Holds, CopiedFrom
  <2> QED BY <1>1, <1>3, <1>5, <2>1, WithIs
<1> QED BY <1>1, <1>4, <1>6

(* memset and bzero.                                                       *)
LEMMA MemsetWrites ==
  ASSUME mem \in Memories, NEW p \in Addr, NEW c \in Byte, NEW n \in Counts, Room(p, n)
  PROVE  /\ memset(p, c, n) \in Memories
         /\ memset(p, c, n) = With(p, [k \in 1 .. n |-> c])
<1>1. p \in Nat /\ n \in Nat /\ p + n <= NMEM
  BY StringsAssumption DEF Addr, Memories, Counts, Room
<1> PICK w : w = memset(p, c, n)
  OBVIOUS
<1> PICK seq : seq = [k \in 1 .. n |-> c]
  OBVIOUS
<1>2. w = Filled(mem, p, c, n)
  BY <1>1, FillingFills DEF memset
<1>3. w \in Memories /\ (\A x \in p .. p + n - 1 : w[x] = c) /\ KeepsBut(w, mem, p, n)
  BY <1>1, <1>2, FilledIs
<1>4. seq \in Seq(Byte) /\ Len(seq) = n /\ \A k \in 1 .. n : seq[k] = c
  BY <1>1
<1>5. \A k \in 1 .. n : p + k - 1 \in p .. p + n - 1
  BY <1>1
<1>6. Holds(w, p, seq)
  BY <1>3, <1>4, <1>5 DEF Holds
<1>7. w = With(p, seq)
  BY <1>1, <1>3, <1>4, <1>6, WithIs
<1> QED BY <1>3, <1>7

(* A prefix, and how far strnlen looks.                                    *)
LEMMA PrefixIs ==
  ASSUME NEW S, NEW t \in Seq(S), NEW n \in Nat, NEW k \in Nat, k = IF n < Len(t) THEN n ELSE Len(t)
  PROVE  /\ Prefix(t, n) \in Seq(S) /\ Len(Prefix(t, n)) = k
         /\ \A q \in 1 .. k : Prefix(t, n)[q] = t[q]
<1>1. Prefix(t, n) = SubSeq(t, 1, k) /\ k <= Len(t)
  BY DEF Prefix
<1> QED BY <1>1

LEMMA StrnlenIs ==
  ASSUME mem \in Memories, NEW s \in Strs, NEW n \in Nat
  PROVE  strnlen(s, n) = IF n < strlen(s) THEN n ELSE strlen(s)
<1>1. /\ s \in Nat /\ s < NMEM /\ strlen(s) \in Nat /\ s + strlen(s) < NMEM
      /\ mem[s + strlen(s)] = NUL
  BY StringEnds
<1>2. Ends(s) \in SUBSET Nat /\ strlen(s) \in Ends(s)
  BY <1>1, StringsAssumption DEF Ends, Offsets
<1>3. \A k \in Ends(s) : strlen(s) <= k
  BY <1>2, LeastNumber DEF strlen
<1>4. PICK S : S = Ends(s) \cup {n}
  OBVIOUS
<1>5. S \in SUBSET Nat
  BY <1>2, <1>4
<1>6. CASE n < strlen(s)
  <2>1. n \in S /\ \A k \in S : n <= k
    <3>1. \A k \in Ends(s) : n <= k
      BY <1>1, <1>2, <1>3, <1>6
    <3> QED BY <1>4, <3>1
  <2> QED BY <1>4, <1>5, <1>6, <2>1, LeastIs DEF strnlen
<1>7. CASE ~(n < strlen(s))
  <2>1. strlen(s) \in S /\ \A k \in S : strlen(s) <= k
    BY <1>1, <1>2, <1>3, <1>4, <1>7
  <2> QED BY <1>4, <1>5, <1>7, <2>1, LeastIs DEF strnlen
<1> QED BY <1>6, <1>7

LEMMA NULsAre ==
  ASSUME NEW n \in Nat
  PROVE  NULs(n) \in Seq(Byte) /\ Len(NULs(n)) = n /\ \A k \in 1 .. n : NULs(n)[k] = NUL
BY DEF NULs, Byte, NUL

(* The n bytes of the string at s and one NUL.                             *)
LEMMA Terminated ==
  ASSUME NEW t \in Seq(Byte)
  PROVE  /\ t \o NULs(1) \in Seq(Byte) /\ Len(t \o NULs(1)) = Len(t) + 1
         /\ \A k \in 1 .. Len(t) : (t \o NULs(1))[k] = t[k]
         /\ (t \o NULs(1))[Len(t) + 1] = NUL
<1> PICK z : z = NULs(1)
  OBVIOUS
<1>1. z \in Seq(Byte) /\ Len(z) = 1 /\ z[1] = NUL
  <2>1. 1 \in Nat /\ 1 \in 1 .. 1
    OBVIOUS
  <2> QED BY <2>1, NULsAre
<1>2. /\ t \o z \in Seq(Byte) /\ Len(t \o z) = Len(t) + 1
      /\ \A k \in 1 .. Len(t) + 1 : (t \o z)[k] = IF k <= Len(t) THEN t[k] ELSE z[k - Len(t)]
  <2>1. t \in Seq(Byte) /\ z \in Seq(Byte)
    BY <1>1
  <2>2. /\ t \o z \in Seq(Byte) /\ Len(t \o z) = Len(t) + Len(z)
        /\ \A k \in 1 .. Len(t) + Len(z) : (t \o z)[k] = IF k <= Len(t) THEN t[k] ELSE z[k - Len(t)]
    BY ONLY <2>1, ConcatProperties
  <2> QED BY <1>1, <2>2
<1>3. Len(t) \in Nat /\ (Len(t) + 1) - Len(t) = 1
  OBVIOUS
<1> QED BY <1>1, <1>2, <1>3

(* strcpy, from any place on that is apart from the source.                *)
LEMMA StrcpyWrites ==
  ASSUME mem \in Memories, NEW d \in Nat, NEW s \in Strs, Disjoint(d, strlen(s) + 1, s)
  PROVE  /\ strcpy(d, s) \in Memories
         /\ Holds(strcpy(d, s), d, Text(s) \o NULs(1))
         /\ KeepsBut(strcpy(d, s), mem, d, strlen(s) + 1)
         /\ strcpy(d, s) = With(d, Text(s) \o NULs(1))
<1>1. /\ s \in Nat /\ strlen(s) \in Nat /\ s + strlen(s) < NMEM
      /\ mem[s + strlen(s)] = NUL
  BY StringEnds
<1> PICK n \in Nat : n = strlen(s)
  BY <1>1
<1> PICK t : t = Text(s)
  OBVIOUS
<1> PICK seq : seq = t \o NULs(1)
  OBVIOUS
<1>2. /\ s + (n + 1) <= NMEM /\ d + (n + 1) <= NMEM
      /\ d <= s \/ s + (n + 1) <= d
  BY <1>1, StringsAssumption DEF Disjoint, Room, Apart
<1> PICK w : w = strcpy(d, s)
  OBVIOUS
<1>3. w = Moved(mem, d, s, n + 1)
  BY <1>1, <1>2, CopyUp DEF strcpy
<1>4. w \in Memories /\ CopiedFrom(w, d, mem, s, n + 1) /\ KeepsBut(w, mem, d, n + 1)
  BY <1>1, <1>2, <1>3, MovedIs
<1>5. /\ t \in Seq(Byte) /\ Len(t) = n /\ \A k \in 1 .. n : t[k] = mem[s + k - 1]
  BY TextIs
<1>6. /\ seq \in Seq(Byte) /\ Len(seq) = n + 1
      /\ \A k \in 1 .. n : seq[k] = t[k]
      /\ seq[n + 1] = NUL
  BY <1>5, Terminated
<1>7. Holds(w, d, seq)
  <2> SUFFICES ASSUME NEW k \in 1 .. n + 1 PROVE w[d + k - 1] = seq[k]
    BY <1>6 DEF Holds
  <2>1. w[d + k - 1] = mem[s + k - 1]
    BY <1>4 DEF CopiedFrom
  <2>2. CASE k \in 1 .. n
    BY <1>5, <1>6, <2>1, <2>2
  <2>3. CASE k = n + 1
    <3>1. s + (n + 1) - 1 = s + n
      BY <1>1
    <3> QED BY <1>1, <1>6, <2>1, <2>3, <3>1
  <2>4. k \in 1 .. n \/ k = n + 1
    OBVIOUS
  <2> QED BY <2>2, <2>3, <2>4
<1>8. w = With(d, seq)
  BY <1>4, <1>6, <1>7, WithIs
<1> QED BY <1>4, <1>7, <1>8

(* strcat and strncat, to the end of the destination.                      *)
LEMMA CatPlaces ==
  ASSUME mem \in Memories, NEW cp \in CatPairs
  PROVE  /\ cp[1] \in Strs /\ cp[2] \in Strs
         /\ cp[1] + strlen(cp[1]) \in Nat
         /\ Disjoint(cp[1] + strlen(cp[1]), strlen(cp[2]) + 1, cp[2])
<1> PICK d : d = cp[1]
  OBVIOUS
<1> PICK s : s = cp[2]
  OBVIOUS
<1>1. d \in Strs /\ s \in Strs /\ Disjoint(d, strlen(d) + strlen(s) + 1, s)
  BY DEF CatPairs
<1>2. d \in Nat /\ strlen(d) \in Nat /\ s \in Nat /\ strlen(s) \in Nat
  BY <1>1, StringEnds
<1>3. Disjoint(d + strlen(d), strlen(s) + 1, s)
  BY <1>1, <1>2, StringsAssumption DEF Disjoint, Room, Apart
<1> QED BY <1>1, <1>2, <1>3

(* What is written behind the text of d makes one string with it.          *)
LEMMA Joined ==
  ASSUME mem \in Memories, NEW d \in Strs, NEW t \in Seq(Byte), NEW w \in Memories,
         Holds(w, d + strlen(d), t), KeepsBut(w, mem, d + strlen(d), Len(t)),
         d + strlen(d) + Len(t) <= NMEM
  PROVE  w = With(d, Text(d) \o t)
<1>1. d \in Nat /\ strlen(d) \in Nat /\ d + strlen(d) < NMEM /\ NMEM \in Nat
  BY StringEnds, StringsAssumption
<1> PICK n \in Nat : n = strlen(d)
  BY <1>1
<1> PICK v : v = Text(d)
  OBVIOUS
<1>2. v \in Seq(Byte) /\ Len(v) = n /\ \A k \in 1 .. n : v[k] = mem[d + k - 1]
  BY TextIs
<1> PICK seq : seq = v \o t
  OBVIOUS
<1> PICK b \in Nat : b = Len(t)
  OBVIOUS
<1>3. /\ seq \in Seq(Byte) /\ Len(seq) = n + b
      /\ \A k \in 1 .. n + b : seq[k] = IF k <= n THEN v[k] ELSE t[k - n]
  <2>1. v \in Seq(Byte) /\ t \in Seq(Byte)
    BY <1>2
  <2>2. /\ v \o t \in Seq(Byte) /\ Len(v \o t) = Len(v) + Len(t)
        /\ \A k \in 1 .. Len(v) + Len(t) : (v \o t)[k] = IF k <= Len(v) THEN v[k] ELSE t[k - Len(v)]
    BY ONLY <2>1, ConcatProperties
  <2> QED BY <1>2, <2>2
<1>4. ASSUME NEW k \in 1 .. n + b
      PROVE  w[d + k - 1] = seq[k]
  <2>1. CASE k <= n
    <3>1. k \in 1 .. n /\ d + k - 1 \in 0 .. NMEM - 1 /\ d + k - 1 \notin d + n .. d + n + b - 1
      BY <1>1, <2>1
    <3>2. w[d + k - 1] = mem[d + k - 1]
      BY <3>1 DEF KeepsBut
    <3> QED BY <1>2, <1>3, <2>1, <3>1, <3>2
  <2>2. CASE ~(k <= n)
    <3>1. k - n \in 1 .. b /\ (d + n) + (k - n) - 1 = d + k - 1
      BY <1>1, <2>2
    <3>2. w[(d + n) + (k - n) - 1] = t[k - n]
      BY <3>1 DEF Holds
    <3> QED BY <1>3, <2>2, <3>1, <3>2
  <2> QED BY <2>1, <2>2
<1>5. Holds(w, d, seq)
  BY <1>3, <1>4 DEF Holds
<1>6. KeepsBut(w, mem, d, n + b)
  <2> SUFFICES ASSUME NEW x \in 0 .. NMEM - 1, x \notin d .. d + (n + b) - 1 PROVE w[x] = mem[x]
    BY DEF KeepsBut
  <2>1. x \notin d + n .. d + n + b - 1
    BY <1>1
  <2> QED BY <2>1 DEF KeepsBut
<1>7. w = With(d, seq)
  BY <1>1, <1>3, <1>5, <1>6, WithIs
<1> QED BY <1>7

LEMMA StrcatWrites ==
  ASSUME mem \in Memories, NEW cp \in CatPairs
  PROVE  /\ strcat(cp[1], cp[2]) \in Memories
         /\ strcat(cp[1], cp[2]) = With(cp[1], Text(cp[1]) \o Text(cp[2]) \o NULs(1))
<1> PICK d : d = cp[1]
  OBVIOUS
<1> PICK s : s = cp[2]
  OBVIOUS
<1> PICK e : e = d + strlen(d)
  OBVIOUS
<1>1. d \in Strs /\ s \in Strs /\ e \in Nat /\ Disjoint(e, strlen(s) + 1, s)
  BY CatPlaces
<1>2. strlen(s) \in Nat /\ s \in Nat /\ s + strlen(s) < NMEM
  BY <1>1, StringEnds
<1> PICK n \in Nat : n = strlen(s)
  BY <1>2
<1> PICK w : w = strcat(d, s)
  OBVIOUS
<1> PICK t : t = Text(s) \o NULs(1)
  OBVIOUS
<1>3. w \in Memories /\ Holds(w, e, t) /\ KeepsBut(w, mem, e, n + 1)
  BY <1>1, StrcpyWrites DEF strcat
<1>4. t \in Seq(Byte) /\ Len(t) = n + 1
  BY <1>1, TextIs, Terminated
<1>5. e + (n + 1) <= NMEM
  BY <1>1 DEF Disjoint, Room
<1>6. w = With(d, Text(d) \o t)
  BY <1>1, <1>3, <1>4, <1>5, Joined
<1>7. Text(d) \o t = (Text(d) \o Text(s)) \o NULs(1)
  <2> PICK v : v = Text(d)
    OBVIOUS
  <2> PICK u : u = Text(s)
    OBVIOUS
  <2> PICK z : z = NULs(1)
    OBVIOUS
  <2>1. v \in Seq(Byte) /\ u \in Seq(Byte) /\ z \in Seq(Byte)
    <3>1. 1 \in Nat
      OBVIOUS
    <3> QED BY <1>1, <3>1, TextIs, NULsAre
  <2>2. (v \o u) \o z = v \o (u \o z)
    BY ONLY <2>1, ConcatAssociative
  <2> QED BY <2>2
<1> QED BY <1>3, <1>6, <1>7

(* The beginning of a string, copied: what strncpy and strncat do first.   *)
LEMMA BeginningCopied ==
  ASSUME mem \in Memories, NEW d \in Nat, NEW s \in Strs, NEW n \in Nat,
         d + strnlen(s, n) <= NMEM, d <= s \/ s + strnlen(s, n) <= d
  PROVE  LET k == strnlen(s, n)
             w == Copying(mem, d, s, Upto(k))
             t == Prefix(Text(s), n)
         IN  /\ k \in Nat /\ k <= n /\ k <= strlen(s) /\ t \in Seq(Byte) /\ Len(t) = k
             /\ w \in Memories /\ Holds(w, d, t) /\ KeepsBut(w, mem, d, k)
<1>1. s \in Nat /\ strlen(s) \in Nat /\ s + strlen(s) < NMEM
  BY StringEnds
<1> PICK k : k = strnlen(s, n)
  OBVIOUS
<1>2. k = IF n < strlen(s) THEN n ELSE strlen(s)
  BY StrnlenIs
<1>3. k \in Nat /\ k <= n /\ k <= strlen(s) /\ s + k <= NMEM
  BY <1>1, <1>2, StringsAssumption
<1> PICK v : v = Text(s)
  OBVIOUS
<1>4. v \in Seq(Byte) /\ Len(v) = strlen(s) /\ \A q \in 1 .. strlen(s) : v[q] = mem[s + q - 1]
  BY TextIs
<1> PICK t : t = Prefix(v, n)
  OBVIOUS
<1>5. t \in Seq(Byte) /\ Len(t) = k /\ \A q \in 1 .. k : t[q] = v[q]
  BY <1>2, <1>3, <1>4, PrefixIs
<1> PICK w : w = Copying(mem, d, s, Upto(k))
  OBVIOUS
<1>6. w = Moved(mem, d, s, k)
  BY <1>1, <1>3, CopyUp
<1>7. w \in Memories /\ CopiedFrom(w, d, mem, s, k) /\ KeepsBut(w, mem, d, k)
  BY <1>1, <1>3, <1>6, MovedIs
<1>8. Holds(w, d, t)
  <2>1. \A q \in 1 .. k : q \in 1 .. strlen(s)
    BY <1>1, <1>3
  <2> QED BY <1>4, <1>5, <1>7, <2>1 DEF Holds, CopiedFrom
<1> QED BY <1>3, <1>5, <1>7, <1>8

LEMMA StrncatWrites ==
  ASSUME mem \in Memories, NEW cp \in CatPairs, NEW n \in Nat
  PROVE  /\ strncat(cp[1], cp[2], n) \in Memories
         /\ strncat(cp[1], cp[2], n) = With(cp[1], Text(cp[1]) \o Prefix(Text(cp[2]), n) \o NULs(1))
<1> PICK d : d = cp[1]
  OBVIOUS
<1> PICK s : s = cp[2]
  OBVIOUS
<1> PICK e : e = d + strlen(d)
  OBVIOUS
<1>1. d \in Strs /\ s \in Strs /\ e \in Nat /\ Disjoint(e, strlen(s) + 1, s)
  BY CatPlaces
<1> PICK k : k = strnlen(s, n)
  OBVIOUS
<1>2. k \in Nat /\ k <= strlen(s) /\ strlen(s) \in Nat /\ s \in Nat /\ NMEM \in Nat
  BY <1>1, StringEnds, StrnlenIs, StringsAssumption
<1>3. e + (k + 1) <= NMEM /\ (e <= s \/ s + k <= e)
  BY <1>1, <1>2 DEF Disjoint, Room, Apart
<1> PICK v : v = Copying(mem, e, s, Upto(k))
  OBVIOUS
<1> PICK u : u = Prefix(Text(s), n)
  OBVIOUS
<1>4. /\ u \in Seq(Byte) /\ Len(u) = k
      /\ v \in Memories /\ Holds(v, e, u) /\ KeepsBut(v, mem, e, k)
  <2>1. e + k <= NMEM
    BY <1>1, <1>2, <1>3
  <2> QED BY <1>1, <1>3, <2>1, BeginningCopied
<1> PICK w : w = strncat(d, s, n)
  OBVIOUS
<1>5. w = [v EXCEPT ![e + k] = NUL]
  BY DEF strncat
<1>6. e + k \in 0 .. NMEM - 1
  BY <1>1, <1>2, <1>3
<1>7. w \in Memories /\ w[e + k] = NUL /\ \A x \in 0 .. NMEM - 1 : x # e + k => w[x] = v[x]
  BY <1>4, <1>5, <1>6 DEF Memories, Byte
<1> PICK t : t = u \o NULs(1)
  OBVIOUS
<1>8. t \in Seq(Byte) /\ Len(t) = k + 1 /\ (\A q \in 1 .. k : t[q] = u[q]) /\ t[k + 1] = NUL
  BY <1>4, Terminated
<1>9. Holds(w, e, t)
  <2> SUFFICES ASSUME NEW q \in 1 .. k + 1 PROVE w[e + q - 1] = t[q]
    BY <1>8 DEF Holds
  <2>1. CASE q \in 1 .. k
    <3>1. e \in Nat /\ k \in Nat /\ NMEM \in Nat /\ e + (k + 1) <= NMEM
      BY <1>1, <1>2, <1>3
    <3>2. e + q - 1 \in 0 .. NMEM - 1 /\ e + q - 1 # e + k
      BY ONLY <2>1, <3>1
    <3>3. v[e + q - 1] = u[q]
      BY <1>4, <2>1 DEF Holds
    <3> QED BY <1>7, <1>8, <2>1, <3>2, <3>3
  <2>2. CASE q = k + 1
    <3>1. e + (k + 1) - 1 = e + k
      BY <1>1, <1>2
    <3> QED BY <1>7, <1>8, <2>2, <3>1
  <2>3. q \in 1 .. k \/ q = k + 1
    BY <1>2
  <2> QED BY <2>1, <2>2, <2>3
<1>10. KeepsBut(w, mem, e, k + 1)
  <2> SUFFICES ASSUME NEW x \in 0 .. NMEM - 1, x \notin e .. e + (k + 1) - 1 PROVE w[x] = mem[x]
    BY DEF KeepsBut
  <2>1. x # e + k /\ x \notin e .. e + k - 1
    BY <1>1, <1>2
  <2> QED BY <1>4, <1>7, <2>1 DEF KeepsBut
<1>11. w = With(d, Text(d) \o t)
  <2>1. e + Len(t) <= NMEM /\ KeepsBut(w, mem, e, Len(t))
    BY <1>3, <1>8, <1>10
  <2> QED BY <1>1, <1>7, <1>8, <1>9, <2>1, Joined
<1>12. Text(d) \o t = (Text(d) \o u) \o NULs(1)
  <2> PICK b : b = Text(d)
    OBVIOUS
  <2> PICK z : z = NULs(1)
    OBVIOUS
  <2>1. b \in Seq(Byte) /\ u \in Seq(Byte) /\ z \in Seq(Byte)
    <3>1. 1 \in Nat
      OBVIOUS
    <3> QED BY <1>1, <1>4, <3>1, TextIs, NULsAre
  <2>2. (b \o u) \o z = b \o (u \o z)
    BY ONLY <2>1, ConcatAssociative
  <2> QED BY <2>2
<1> QED BY <1>7, <1>11, <1>12

LEMMA StrncpyWrites ==
  ASSUME mem \in Memories, NEW d \in Nat, NEW s \in Strs, NEW n \in Nat, Disjoint(d, n, s)
  PROVE  /\ strncpy(d, s, n) \in Memories
         /\ strncpy(d, s, n) = With(d, Prefix(Prefix(Text(s), n) \o NULs(n), n))
<1> PICK k : k = strnlen(s, n)
  OBVIOUS
<1>1. /\ k \in Nat /\ k <= n /\ k <= strlen(s) /\ strlen(s) \in Nat /\ s \in Nat /\ NMEM \in Nat
  BY StringEnds, StrnlenIs, StringsAssumption
<1>2. d + n <= NMEM /\ d + k <= NMEM /\ (d <= s \/ s + k <= d)
  BY <1>1 DEF Disjoint, Room, Apart
<1> PICK v : v = Copying(mem, d, s, Upto(k))
  OBVIOUS
<1> PICK u : u = Prefix(Text(s), n)
  OBVIOUS
<1>3. /\ u \in Seq(Byte) /\ Len(u) = k
      /\ v \in Memories /\ Holds(v, d, u) /\ KeepsBut(v, mem, d, k)
  BY <1>2, BeginningCopied
<1> PICK w : w = strncpy(d, s, n)
  OBVIOUS
<1> PICK p \in Nat : p = d + k
  BY <1>1
<1> PICK b \in Nat : b = n - k
  BY <1>1
<1>4. /\ d \in Nat /\ n \in Nat /\ k \in Nat /\ k <= n /\ NMEM \in Nat /\ d + n <= NMEM
      /\ p \in Nat /\ p = d + k /\ b \in Nat /\ b = n - k
  BY <1>1, <1>2
<1>5. p + b = d + n /\ p + b <= NMEM
  BY <1>4
<1>6. w = Filled(v, p, NUL, b)
  <2>1. w = Filling(v, p, NUL, b)
    BY DEF strncpy
  <2> QED BY <1>3, <1>5, <2>1, FillingFills
<1>7. w \in Memories /\ (\A x \in p .. p + b - 1 : w[x] = NUL) /\ KeepsBut(w, v, p, b)
  <2>1. NUL \in Byte
    BY DEF Byte
  <2>2. PICK c \in Byte : c = NUL
    BY <2>1
  <2>3. v \in Memories /\ p \in Nat /\ b \in Nat /\ w = Filled(v, p, c, b)
    BY <1>3, <1>6, <2>2
  <2>4. w \in Memories /\ (\A x \in p .. p + b - 1 : w[x] = c) /\ KeepsBut(w, v, p, b)
    BY ONLY <1>5, <2>3, FilledIs
  <2> QED BY <2>2, <2>4
<1> PICK z : z = NULs(n)
  OBVIOUS
<1>8. z \in Seq(Byte) /\ Len(z) = n /\ \A q \in 1 .. n : z[q] = NUL
  BY NULsAre
<1> PICK uz : uz = u \o z
  OBVIOUS
<1>9. /\ uz \in Seq(Byte) /\ Len(uz) = k + n
      /\ \A q \in 1 .. k + n : uz[q] = IF q <= k THEN u[q] ELSE z[q - k]
  <2>1. u \in Seq(Byte) /\ z \in Seq(Byte)
    BY <1>3, <1>8
  <2>2. /\ u \o z \in Seq(Byte) /\ Len(u \o z) = Len(u) + Len(z)
        /\ \A q \in 1 .. Len(u) + Len(z) : (u \o z)[q] = IF q <= Len(u) THEN u[q] ELSE z[q - Len(u)]
    BY ONLY <2>1, ConcatProperties
  <2> QED BY <1>3, <1>8, <2>2
<1> PICK t : t = Prefix(uz, n)
  OBVIOUS
<1>10. t \in Seq(Byte) /\ Len(t) = n /\ \A q \in 1 .. n : t[q] = uz[q]
  <2>1. uz \in Seq(Byte) /\ n \in Nat /\ Len(uz) \in Nat /\ n <= Len(uz)
    BY <1>4, <1>9
  <2>2. (IF n < Len(uz) THEN n ELSE Len(uz)) = n
    BY ONLY <2>1
  <2>3. t = SubSeq(uz, 1, n)
    BY <2>2 DEF Prefix
  <2> QED BY ONLY <2>1, <2>3
<1>11. ASSUME NEW q \in 1 .. n
       PROVE  w[d + q - 1] = t[q]
  <2>1. q \in 1 .. k + n
    BY ONLY <1>4
  <2>4. t[q] = uz[q]
    BY <1>10
  <2>2. CASE q <= k
    <3>1. q \in 1 .. k /\ d + q - 1 \in 0 .. NMEM - 1 /\ d + q - 1 \notin p .. p + b - 1
      BY ONLY <1>4, <2>2
    <3>2. w[d + q - 1] = v[d + q - 1]
      BY <1>7, <3>1 DEF KeepsBut
    <3>3. v[d + q - 1] = u[q]
      BY <1>3, <3>1 DEF Holds
    <3> QED BY <1>9, <2>1, <2>2, <2>4, <3>2, <3>3
  <2>3. CASE ~(q <= k)
    <3>1. q - k \in 1 .. n /\ d + q - 1 \in p .. p + b - 1
      BY ONLY <1>4, <2>3
    <3>2. w[d + q - 1] = NUL /\ z[q - k] = NUL
      BY <1>7, <1>8, <3>1
    <3> QED BY <1>9, <2>1, <2>3, <2>4, <3>2
  <2> QED BY <2>2, <2>3
<1>12. Holds(w, d, t)
  BY <1>10, <1>11 DEF Holds
<1>13. KeepsBut(w, mem, d, n)
  <2> SUFFICES ASSUME NEW x \in 0 .. NMEM - 1, x \notin d .. d + n - 1 PROVE w[x] = mem[x]
    BY DEF KeepsBut
  <2>1. x \notin d .. d + n - 1
    OBVIOUS
  <2>2. x \notin p .. p + b - 1 /\ x \notin d .. d + k - 1
    BY ONLY <1>4, <2>1
  <2> QED BY <1>3, <1>7, <2>2 DEF KeepsBut
<1>14. w = With(d, t)
  BY <1>7, <1>10, <1>12, <1>13, WithIs
<1> QED BY <1>7, <1>14

LEMMA StrreverseWrites ==
  ASSUME mem \in Memories, NEW s \in Strs
  PROVE  /\ strreverse(s) \in Memories
         /\ strreverse(s) = With(s, Reverse(Text(s)))
<1>1. s \in Nat /\ strlen(s) \in Nat /\ s + strlen(s) < NMEM
  BY StringEnds
<1> PICK n \in Nat : n = strlen(s)
  BY <1>1
<1> PICK t : t = Text(s)
  OBVIOUS
<1>2. t \in Seq(Byte) /\ Len(t) = n /\ \A k \in 1 .. n : t[k] = mem[s + k - 1]
  BY TextIs
<1> PICK u : u = Reverse(t)
  OBVIOUS
<1>3. u \in Seq(Byte) /\ Len(u) = n /\ \A k \in 1 .. n : u[k] = t[(n - k) + 1]
  <2>1. u = [k \in 1 .. n |-> t[(n - k) + 1]]
    BY <1>2 DEF Reverse
  <2>2. \A k \in 1 .. n : (n - k) + 1 \in 1 .. n
    OBVIOUS
  <2>3. \A k \in 1 .. n : t[(n - k) + 1] \in Byte
    BY <1>2, <2>2
  <2> QED BY <2>1, <2>3
<1> PICK w : w = strreverse(s)
  OBVIOUS
<1>4. w = Turned(mem, s, n)
  BY ReverseTurns
<1>5. \A x \in s .. s + n - 1 : (s + n - 1) - (x - s) \in 0 .. NMEM - 1
  BY <1>1, StringsAssumption
<1>6. w \in Memories /\ KeepsBut(w, mem, s, n)
  BY <1>4, <1>5 DEF Turned, Memories, KeepsBut
<1>7. ASSUME NEW k \in 1 .. n
      PROVE  w[s + k - 1] = u[k]
  <2>1. /\ s + k - 1 \in 0 .. NMEM - 1 /\ s + k - 1 \in s .. s + n - 1
        /\ (s + n - 1) - ((s + k - 1) - s) = s + ((n - k) + 1) - 1
        /\ (n - k) + 1 \in 1 .. n
    BY <1>1, StringsAssumption
  <2>2. w[s + k - 1] = mem[s + ((n - k) + 1) - 1]
    BY <1>4, <2>1 DEF Turned
  <2> QED BY <1>2, <1>3, <2>1, <2>2
<1>8. Holds(w, s, u)
  BY <1>3, <1>7 DEF Holds
<1>9. w = With(s, u)
  BY <1>1, <1>3, <1>6, <1>8, WithIs
<1> QED BY <1>6, <1>9

(* A caller has no memory, and then no string under strtok, or all of it.  *)
StrInv ==
  /\ mem = << >> \/ mem \in Memories
  /\ mem = << >> => last = NULL

LEMMA SomeMemory ==
  /\ << >> \notin Memories
  /\ DOMAIN << >> = {}
<1>1. DOMAIN << >> = {}
  OBVIOUS
<1>2. 0 \in 0 .. NMEM - 1
  BY StringsAssumption
<1> QED BY <1>1, <1>2 DEF Memories

LEMMA NoMemory ==
  ASSUME mem = << >>
  PROVE  Addr = {} /\ Strs = {} /\ Moves = {} /\ StrPairs = {} /\ CatPairs = {}
<1>1. Addr = {} /\ Strs = {}
  BY SomeMemory DEF Addr, Strs
<1> QED BY <1>1 DEF Moves, StrPairs, CatPairs

LEMMA WritesTyped ==
  ASSUME StrInv, Writes
  PROVE  mem' \in Memories
<1>1. mem \in Memories
  BY NoMemory DEF StrInv, Writes
<1>2. CASE \E p \in Addr, c \in Byte, n \in Counts : Room(p, n) /\ mem' = memset(p, c, n)
  BY <1>1, <1>2, MemsetWrites
<1>3. CASE \E p \in Addr, n \in Counts : Room(p, n) /\ mem' = bzero(p, n)
  <2>1. NUL \in Byte
    BY DEF Byte
  <2> QED BY <1>1, <1>3, <2>1, MemsetWrites DEF bzero
<1>4. CASE \E mv \in Moves : mem' = memmove(mv[1], mv[2], mv[3])
  BY <1>1, <1>4, MoveMoves, MovedIs
<1>5. CASE \E mv \in Moves : Apart(mv[1], mv[3], mv[2], mv[3]) /\ mem' = memcpy(mv[1], mv[2], mv[3])
  BY <1>1, <1>5, MoveMoves, MovedIs
<1>6. CASE \E sp \in StrPairs : mem' = strcpy(sp[1], sp[2])
  <2>1. PICK sp \in StrPairs : mem' = strcpy(sp[1], sp[2])
    BY <1>6
  <2>2. sp[1] \in Nat /\ sp[2] \in Strs /\ Disjoint(sp[1], strlen(sp[2]) + 1, sp[2])
    BY <1>1, StringsAssumption DEF StrPairs, Addr, Memories
  <2> QED BY <1>1, <2>1, <2>2, StrcpyWrites
<1>7. CASE \E cp \in CatPairs :
             mem' = strcat(cp[1], cp[2]) \/ \E n \in Counts : mem' = strncat(cp[1], cp[2], n)
  <2>1. Counts \subseteq Nat
    BY StringsAssumption DEF Counts
  <2> QED BY <1>1, <1>7, <2>1, StrcatWrites, StrncatWrites
<1>8. CASE \E d \in Addr, s \in Strs, n \in Counts : Disjoint(d, n, s) /\ mem' = strncpy(d, s, n)
  <2>1. Addr \subseteq Nat /\ Counts \subseteq Nat
    BY <1>1, StringsAssumption DEF Counts, Addr, Memories
  <2> QED BY <1>1, <1>8, <2>1, StrncpyWrites
<1>9. CASE \E s \in Strs : mem' = strreverse(s)
  BY <1>1, <1>9, StrreverseWrites
<1> QED BY <1>2, <1>3, <1>4, <1>5, <1>6, <1>7, <1>8, <1>9 DEF Writes

LEMMA TokenTyped ==
  ASSUME mem \in Memories, NEW s, NEW delim, Token(s, delim)
  PROVE  mem' \in Memories
<1>1. PICK b : mem' = mem \/ mem' = [mem EXCEPT ![b] = NUL]
  BY DEF Token
<1> QED BY <1>1 DEF Memories, Byte

LEMMA StrKeeps ==
  StrInv /\ [StrNext]_strvars => StrInv'
<1> SUFFICES ASSUME StrInv, [StrNext]_strvars
             PROVE  StrInv'
  OBVIOUS
<1>1. mem' \in Memories => StrInv'
  BY SomeMemory DEF StrInv
<1>2. CASE Obtain
  <2>1. mem' \in Memories
    BY <1>2 DEF Obtain, Memories, Byte
  <2> QED BY <1>1, <2>1
<1>3. CASE Write
  BY <1>1, <1>3, WritesTyped DEF Write
<1>4. ASSUME NEW s \in Addr, NEW delim \in (SUBSET Chars) \ {{}}, FirstToken(s, delim)
      PROVE  StrInv'
  <2>1. mem \in Memories
    BY NoMemory DEF StrInv
  <2> QED BY <1>1, <1>4, <2>1, TokenTyped DEF FirstToken
<1>5. CASE NextToken
  <2>1. CASE mem = << >>
    BY <1>5, <2>1 DEF NextToken, StrInv
  <2>2. CASE mem \in Memories
    <3>1. CASE UNCHANGED mem
      BY <1>1, <2>2, <3>1
    <3>2. CASE Token(last, expected.delim)
      BY <1>1, <2>2, <3>2, TokenTyped
    <3> QED BY <1>5, <3>1, <3>2 DEF NextToken
  <2> QED BY <2>1, <2>2 DEF StrInv
<1>6. CASE Tokenized
  BY <1>6 DEF Tokenized, StrInv
<1>7. CASE UNCHANGED strvars
  BY <1>7 DEF strvars, StrInv
<1> QED BY <1>2, <1>3, <1>4, <1>5, <1>6, <1>7 DEF StrNext

LEMMA StrInvariant == StrSpec => []StrInv
<1>1. StrInit => StrInv
  BY DEF StrInit, StrInv
<1> QED BY <1>1, StrKeeps, PTL DEF StrSpec

LEMMA WritesAreRight == StrInv => WritesRight
<1> SUFFICES ASSUME StrInv PROVE WritesRight
  OBVIOUS
<1>1. CASE mem = << >>
  BY <1>1, NoMemory DEF WritesRight
<1>2. CASE mem \in Memories
  <2>1. Addr \subseteq Nat /\ Counts \subseteq Nat
    BY <1>2, StringsAssumption DEF Counts, Addr, Memories
  <2>2. \A mv \in Moves : memmove(mv[1], mv[2], mv[3]) = With(mv[1], Bytes(mv[2], mv[3]))
    BY <1>2, MoveWrites
  <2>3. \A p \in Addr, c \in Byte, n \in Counts :
          Room(p, n) => memset(p, c, n) = With(p, [q \in 1 .. n |-> c])
    BY <1>2, MemsetWrites
  <2>4. ASSUME NEW sp \in StrPairs
        PROVE  strcpy(sp[1], sp[2]) = With(sp[1], Text(sp[2]) \o NULs(1))
    <3>1. sp[1] \in Nat /\ sp[2] \in Strs /\ Disjoint(sp[1], strlen(sp[2]) + 1, sp[2])
      BY <2>1 DEF StrPairs
    <3> QED BY <1>2, <3>1, StrcpyWrites
  <2>5. ASSUME NEW cp \in CatPairs
        PROVE  /\ strcat(cp[1], cp[2]) = With(cp[1], Text(cp[1]) \o Text(cp[2]) \o NULs(1))
               /\ \A n \in Counts : strncat(cp[1], cp[2], n)
                                    = With(cp[1], Text(cp[1]) \o Prefix(Text(cp[2]), n) \o NULs(1))
    BY <1>2, <2>1, StrcatWrites, StrncatWrites
  <2>6. ASSUME NEW d \in Addr, NEW s \in Strs, NEW n \in Counts, Disjoint(d, n, s)
        PROVE  strncpy(d, s, n) = With(d, Prefix(Prefix(Text(s), n) \o NULs(n), n))
    BY <1>2, <2>1, <2>6, StrncpyWrites
  <2>7. \A s \in Strs : strreverse(s) = With(s, Reverse(Text(s)))
    BY <1>2, StrreverseWrites
  <2> QED BY <2>2, <2>3, <2>4, <2>5, <2>6, <2>7 DEF WritesRight
<1> QED BY <1>1, <1>2 DEF StrInv

(* The functions of string.c that write leave exactly what they promise,   *)
(* whatever the strings, the places and the counts, as long as the         *)
(* arguments are legal: memmove also where the blocks overlap, strncpy     *)
(* with the NULs it fills up with, strcat behind the text that was there.  *)
THEOREM WritesPromise == StrSpec => []WritesRight
BY StrInvariant, WritesAreRight, PTL

(* The order of a dictionary: t is before u when it breaks off first, or   *)
(* has the lesser element at the first place where they differ.            *)
LEMMA PrefixesAgree ==
  ASSUME NEW t \in Seq(Nat), NEW u \in Seq(Nat), NEW k \in Nat, k <= Len(t), k <= Len(u)
  PROVE  Prefix(t, k) = Prefix(u, k) <=> \A q \in 1 .. k : t[q] = u[q]
<1>1. /\ Prefix(t, k) \in Seq(Nat) /\ Len(Prefix(t, k)) = k
      /\ \A q \in 1 .. k : Prefix(t, k)[q] = t[q]
  <2>1. k = IF k < Len(t) THEN k ELSE Len(t)
    OBVIOUS
  <2> QED BY ONLY <2>1, PrefixIs, t \in Seq(Nat), k \in Nat
<1>2. /\ Prefix(u, k) \in Seq(Nat) /\ Len(Prefix(u, k)) = k
      /\ \A q \in 1 .. k : Prefix(u, k)[q] = u[q]
  <2>1. k = IF k < Len(u) THEN k ELSE Len(u)
    OBVIOUS
  <2> QED BY ONLY <2>1, PrefixIs, u \in Seq(Nat), k \in Nat
<1> PICK v : v = Prefix(t, k)
  OBVIOUS
<1> PICK w : w = Prefix(u, k)
  OBVIOUS
<1>3. ASSUME \A q \in 1 .. k : t[q] = u[q]
      PROVE  v = w
  <2>1. v \in Seq(Nat) /\ w \in Seq(Nat) /\ Len(v) = Len(w) /\ \A q \in 1 .. Len(v) : v[q] = w[q]
    BY <1>1, <1>2, <1>3
  <2> QED BY ONLY <2>1, SeqEqual
<1> QED BY <1>1, <1>2, <1>3

LEMMA NotBothPrecede ==
  ASSUME NEW t \in Seq(Nat), NEW u \in Seq(Nat), Precedes(t, u), Precedes(u, t)
  PROVE  FALSE
<1>1. PICK k \in 0 .. Len(t) :
        /\ k <= Len(u) /\ Prefix(t, k) = Prefix(u, k)
        /\ \/ k = Len(t) /\ k < Len(u)
           \/ k < Len(t) /\ k < Len(u) /\ t[k + 1] < u[k + 1]
  BY DEF Precedes
<1>2. PICK m \in 0 .. Len(u) :
        /\ m <= Len(t) /\ Prefix(u, m) = Prefix(t, m)
        /\ \/ m = Len(u) /\ m < Len(t)
           \/ m < Len(u) /\ m < Len(t) /\ u[m + 1] < t[m + 1]
  BY DEF Precedes
<1>3. (\A q \in 1 .. k : t[q] = u[q]) /\ (\A q \in 1 .. m : u[q] = t[q])
  <2>1. k \in Nat /\ m \in Nat /\ k <= Len(t) /\ m <= Len(u)
    OBVIOUS
  <2> QED BY <1>1, <1>2, <2>1, PrefixesAgree
<1>4. CASE k < m
  <2>1. k + 1 \in 1 .. m /\ k < Len(t) /\ k < Len(u)
    BY <1>2, <1>4
  <2>2. u[k + 1] = t[k + 1] /\ t[k + 1] \in Nat
    BY <1>3, <2>1
  <2> QED BY <1>1, <2>1, <2>2
<1>5. CASE m < k
  <2>1. m + 1 \in 1 .. k /\ m < Len(t) /\ m < Len(u)
    BY <1>1, <1>5
  <2>2. u[m + 1] = t[m + 1] /\ t[m + 1] \in Nat
    BY <1>3, <2>1
  <2> QED BY <1>2, <2>1, <2>2
<1>6. CASE k = m
  <2>1. k < Len(t) /\ k < Len(u) => t[k + 1] \in Nat /\ u[k + 1] \in Nat
    OBVIOUS
  <2> QED BY <1>1, <1>2, <1>6, <2>1
<1> QED BY <1>4, <1>5, <1>6

(* What a comparison has to give when the first k elements agree.          *)
LEMMA ComparedAt ==
  ASSUME NEW t \in Seq(Nat), NEW u \in Seq(Nat), NEW k \in Nat, k <= Len(t), k <= Len(u),
         \A q \in 1 .. k : t[q] = u[q]
  PROVE  /\ k = Len(t) /\ k = Len(u) => Compares(0, t, u)
         /\ k = Len(t) /\ k < Len(u) => Compares(-1, t, u)
         /\ k < Len(t) /\ k = Len(u) => Compares(1, t, u)
         /\ k < Len(t) /\ k < Len(u) /\ t[k + 1] < u[k + 1] => Compares(-1, t, u)
         /\ k < Len(t) /\ k < Len(u) /\ u[k + 1] < t[k + 1] => Compares(1, t, u)
<1>1. Prefix(t, k) = Prefix(u, k)
  BY PrefixesAgree
<1>2. Precedes(t, u) => ~Precedes(u, t)
  BY NotBothPrecede
<1>3. ASSUME k = Len(t), k = Len(u)
      PROVE  Compares(0, t, u)
  <2>1. t = u
    BY <1>3, SeqEqual
  <2> QED BY <1>2, <2>1 DEF Compares
<1>4. k \in 0 .. Len(t) /\ k \in 0 .. Len(u)
  OBVIOUS
<1>5. ASSUME k < Len(u), k = Len(t) \/ (k < Len(t) /\ t[k + 1] < u[k + 1])
      PROVE  Compares(-1, t, u)
  <2>1. Precedes(t, u)
    BY <1>1, <1>4, <1>5 DEF Precedes
  <2> QED BY <2>1 DEF Compares
<1>6. ASSUME k < Len(t), k = Len(u) \/ (k < Len(u) /\ u[k + 1] < t[k + 1])
      PROVE  Compares(1, t, u)
  <2>1. Precedes(u, t)
    BY <1>1, <1>4, <1>6 DEF Precedes
  <2> QED BY <1>2, <2>1 DEF Compares
<1> QED BY <1>3, <1>5, <1>6

LEMMA BytesAreNumbers == Byte \subseteq Nat /\ NUL \notin Chars /\ Chars \subseteq Nat
BY StringsAssumption DEF Byte, NUL

(* Blocks: memcmp stops at the first difference or after n bytes.          *)
LEMMA MemcmpCompares ==
  ASSUME mem \in Memories, NEW s \in Addr, NEW p \in Addr, NEW n \in Nat, Room(s, n), Room(p, n)
  PROVE  Compares(memcmp(s, p, n), Bytes(s, n), Bytes(p, n))
<1>1. s \in Nat /\ p \in Nat /\ s + n <= NMEM /\ p + n <= NMEM /\ NMEM \in Nat
  BY StringsAssumption DEF Addr, Memories, Room
<1> PICK S : S = Differ(s, p) \cup {n}
  OBVIOUS
<1> PICK k : k = Min(S)
  OBVIOUS
<1>2. S \in SUBSET Nat /\ n \in S
  BY <1>1 DEF Differ
<1>3. k \in S /\ k \in Nat /\ \A q \in S : k <= q
  BY <1>2, LeastNumber
<1>4. k <= n
  BY <1>2, <1>3
<1>5. \A q \in 0 .. n - 1 : /\ s + q \in 0 .. NMEM - 1 /\ p + q \in 0 .. NMEM - 1
                            /\ q \in 0 .. NMEM - 1 /\ s + q < NMEM /\ p + q < NMEM
  BY <1>1
<1>6. \A q \in 0 .. n - 1 : mem[s + q] \in Nat /\ mem[p + q] \in Nat
  BY <1>5, BytesAreNumbers DEF Memories
<1>7. ASSUME NEW q \in 0 .. k - 1
      PROVE  mem[s + q] = mem[p + q]
  <2>1. q \in 0 .. n - 1 /\ ~(k <= q)
    BY <1>3, <1>4
  <2>2. q \notin Differ(s, p)
    BY <1>3, <2>1
  <2> QED BY <1>5, <2>1, <2>2 DEF Differ
<1> PICK t : t = Bytes(s, n)
  OBVIOUS
<1> PICK u : u = Bytes(p, n)
  OBVIOUS
<1>8. /\ t \in Seq(Nat) /\ Len(t) = n /\ \A q \in 1 .. n : t[q] = mem[s + (q - 1)]
      /\ u \in Seq(Nat) /\ Len(u) = n /\ \A q \in 1 .. n : u[q] = mem[p + (q - 1)]
  <2>1. \A q \in 1 .. n : q - 1 \in 0 .. n - 1 /\ s + q - 1 = s + (q - 1) /\ p + q - 1 = p + (q - 1)
    BY <1>1
  <2>2. t = [q \in 1 .. n |-> mem[s + (q - 1)]] /\ u = [q \in 1 .. n |-> mem[p + (q - 1)]]
    BY <2>1 DEF Bytes
  <2> QED BY <1>6, <2>1, <2>2
<1>9. \A q \in 1 .. k : t[q] = u[q]
  <2>1. \A q \in 1 .. k : q \in 1 .. n /\ q - 1 \in 0 .. k - 1
    BY <1>3, <1>4
  <2> QED BY <1>7, <1>8, <2>1
<1>10. memcmp(s, p, n) = IF k = n THEN 0 ELSE Signum(mem[s + k] - mem[p + k])
  BY DEF memcmp, Compared
<1>11. CASE k = n
  BY <1>3, <1>8, <1>9, <1>10, <1>11, ComparedAt
<1>12. CASE k # n
  <2>1. k < n /\ k \in 0 .. n - 1 /\ k + 1 \in 1 .. n /\ (k + 1) - 1 = k
    BY <1>3, <1>4, <1>12
  <2>2. mem[s + k] # mem[p + k]
    BY <1>3, <1>12 DEF Differ
  <2>3. t[k + 1] = mem[s + k] /\ u[k + 1] = mem[p + k] /\ mem[s + k] \in Nat /\ mem[p + k] \in Nat
    BY <1>6, <1>8, <2>1
  <2>4. CASE mem[s + k] < mem[p + k]
    <3>1. memcmp(s, p, n) = -1
      BY <1>10, <1>12, <2>3, <2>4 DEF Signum
    <3>2. Compares(-1, t, u)
      BY <1>3, <1>8, <1>9, <2>1, <2>3, <2>4, ComparedAt
    <3> QED BY <3>1, <3>2
  <2>5. CASE mem[p + k] < mem[s + k]
    <3>1. memcmp(s, p, n) = 1
      BY <1>10, <1>12, <2>3, <2>5 DEF Signum
    <3>2. Compares(1, t, u)
      BY <1>3, <1>8, <1>9, <2>1, <2>3, <2>5, ComparedAt
    <3> QED BY <3>1, <3>2
  <2> QED BY <2>2, <2>3, <2>4, <2>5
<1> QED BY <1>11, <1>12

(* Strings: strncmp stops at the end of either as well.                    *)
LEMMA StrncmpCompares ==
  ASSUME mem \in Memories, NEW s \in Strs, NEW p \in Strs, NEW n \in Nat
  PROVE  Compares(strncmp(s, p, n), Prefix(Text(s), n), Prefix(Text(p), n))
<1>1. /\ s \in Nat /\ strlen(s) \in Nat /\ s + strlen(s) < NMEM
      /\ p \in Nat /\ strlen(p) \in Nat /\ p + strlen(p) < NMEM
      /\ NMEM \in Nat
  BY StringEnds, StringsAssumption
<1> PICK e \in Nat : e = strlen(s)
  BY <1>1
<1> PICK f \in Nat : f = strlen(p)
  BY <1>1
<1>2. /\ mem[s + e] = 0 /\ \A q \in 0 .. e - 1 : mem[s + q] \in Nat \ {0}
      /\ mem[p + f] = 0 /\ \A q \in 0 .. f - 1 : mem[p + q] \in Nat \ {0}
  BY StringEnds, StringsAssumption DEF NUL
<1> PICK S : S = Differ(s, p) \cup (Ends(s) \cup {n})
  OBVIOUS
<1> PICK k : k = Min(S)
  OBVIOUS
<1>3. S \in SUBSET Nat /\ n \in S /\ e \in S
  <2>1. Differ(s, p) \in SUBSET Nat /\ Ends(s) \in SUBSET Nat
    BY <1>1 DEF Differ, Ends, Offsets
  <2>2. e \in Ends(s)
    BY <1>1, <1>2 DEF Ends, Offsets, NUL
  <2> QED BY <2>1, <2>2
<1>4. k \in S /\ k \in Nat /\ k <= n /\ k <= e /\ \A q \in S : k <= q
  BY <1>3, LeastNumber
<1>5. ASSUME NEW q \in Nat, s + q < NMEM, p + q < NMEM, mem[s + q] # mem[p + q]
      PROVE  k <= q
  <2>1. q \in 0 .. NMEM - 1
    BY <1>1, <1>5
  <2>2. q \in Differ(s, p)
    BY <1>5, <2>1 DEF Differ
  <2> QED BY <1>4, <2>2
<1>6. k <= f
  <2> SUFFICES ASSUME f < k PROVE FALSE
    BY <1>4
  <2>1. f \in 0 .. e - 1 /\ s + f < NMEM /\ p + f < NMEM /\ ~(k <= f)
    BY <1>1, <1>4
  <2>2. mem[s + f] # mem[p + f]
    BY <1>2, <2>1
  <2> QED BY <1>5, <2>1, <2>2
<1>7. ASSUME NEW q \in 0 .. k - 1
      PROVE  mem[s + q] = mem[p + q]
  <2>1. q \in Nat /\ s + q < NMEM /\ p + q < NMEM /\ ~(k <= q)
    BY <1>1, <1>4, <1>6
  <2> QED BY <1>5, <2>1
<1> PICK t : t = Prefix(Text(s), n)
  OBVIOUS
<1> PICK u : u = Prefix(Text(p), n)
  OBVIOUS
<1>8. /\ t \in Seq(Nat) /\ Len(t) = (IF n < e THEN n ELSE e)
      /\ \A q \in 1 .. Len(t) : t[q] = mem[s + (q - 1)]
  <2>1. /\ Text(s) \in Seq(Byte) /\ Len(Text(s)) = e
        /\ \A q \in 1 .. e : Text(s)[q] = mem[s + q - 1] /\ s + q - 1 = s + (q - 1)
    BY <1>1, TextIs
  <2> PICK v : v = Text(s)
    OBVIOUS
  <2> PICK m \in Nat : m = IF n < e THEN n ELSE e
    OBVIOUS
  <2>2. t \in Seq(Byte) /\ Len(t) = m /\ \A q \in 1 .. m : t[q] = v[q]
    BY <2>1, PrefixIs
  <2>3. t \in Seq(Nat)
    BY <2>2, BytesAreNumbers, SeqMonotonic
  <2>4. \A q \in 1 .. m : q \in 1 .. e
    OBVIOUS
  <2> QED BY <2>1, <2>2, <2>3, <2>4
<1>9. /\ u \in Seq(Nat) /\ Len(u) = (IF n < f THEN n ELSE f)
      /\ \A q \in 1 .. Len(u) : u[q] = mem[p + (q - 1)]
  <2>1. /\ Text(p) \in Seq(Byte) /\ Len(Text(p)) = f
        /\ \A q \in 1 .. f : Text(p)[q] = mem[p + q - 1] /\ p + q - 1 = p + (q - 1)
    BY <1>1, TextIs
  <2> PICK v : v = Text(p)
    OBVIOUS
  <2> PICK m \in Nat : m = IF n < f THEN n ELSE f
    OBVIOUS
  <2>2. u \in Seq(Byte) /\ Len(u) = m /\ \A q \in 1 .. m : u[q] = v[q]
    BY <2>1, PrefixIs
  <2>3. u \in Seq(Nat)
    BY <2>2, BytesAreNumbers, SeqMonotonic
  <2>4. \A q \in 1 .. m : q \in 1 .. f
    OBVIOUS
  <2> QED BY <2>1, <2>2, <2>3, <2>4
<1>10. k <= Len(t) /\ k <= Len(u) /\ Len(t) \in Nat /\ Len(u) \in Nat
  BY <1>4, <1>6, <1>8, <1>9
<1>11. \A q \in 1 .. k : t[q] = u[q]
  <2>1. \A q \in 1 .. k : q \in 1 .. Len(t) /\ q \in 1 .. Len(u) /\ q - 1 \in 0 .. k - 1
    BY <1>4, <1>10
  <2> QED BY <1>7, <1>8, <1>9, <2>1
<1>12. strncmp(s, p, n) = IF k = n THEN 0 ELSE Signum(mem[s + k] - mem[p + k])
  BY DEF strncmp, Compared
<1>13. CASE k = n
  <2>1. k = Len(t) /\ k = Len(u)
    BY <1>4, <1>6, <1>8, <1>9, <1>13
  <2> QED BY <1>4, <1>8, <1>9, <1>11, <1>12, <1>13, <2>1, ComparedAt
<1>14. CASE k # n
  <2>1. k < n
    BY <1>4, <1>14
  <2>2. /\ k = e => k = Len(t) /\ mem[s + k] = 0
        /\ k # e => k < Len(t) /\ t[k + 1] = mem[s + k] /\ mem[s + k] \in Nat \ {0}
    <3>1. k # e => k \in 0 .. e - 1 /\ k < Len(t) /\ k + 1 \in 1 .. Len(t) /\ (k + 1) - 1 = k
      BY <1>4, <1>8, <2>1
    <3>2. k = e => k = Len(t)
      BY <1>8, <2>1
    <3> QED BY <1>2, <1>8, <3>1, <3>2
  <2>3. /\ k = f => k = Len(u) /\ mem[p + k] = 0
        /\ k # f => k < Len(u) /\ u[k + 1] = mem[p + k] /\ mem[p + k] \in Nat \ {0}
    <3>1. k # f => k \in 0 .. f - 1 /\ k < Len(u) /\ k + 1 \in 1 .. Len(u) /\ (k + 1) - 1 = k
      BY <1>4, <1>6, <1>9, <2>1
    <3>2. k = f => k = Len(u)
      BY <1>9, <2>1
    <3> QED BY <1>2, <1>9, <3>1, <3>2
  <2>4. k \in Differ(s, p) \/ (k = e /\ k \notin Differ(s, p))
    <3>1. k \in Ends(s) => mem[s + k] = 0
      BY DEF Ends, Offsets, NUL
    <3> QED BY <1>4, <1>14, <2>2, <3>1
  <2>5. CASE mem[s + k] = mem[p + k]
    <3>1. k = e /\ k = f
      BY <2>2, <2>3, <2>4, <2>5 DEF Differ
    <3>2. strncmp(s, p, n) = 0
      BY <1>12, <1>14, <2>2, <2>5, <3>1 DEF Signum
    <3>3. Compares(0, t, u)
      BY <1>4, <1>8, <1>9, <1>11, <2>2, <2>3, <3>1, ComparedAt
    <3> QED BY <3>2, <3>3
  <2>6. mem[s + k] \in Nat /\ mem[p + k] \in Nat
    BY <2>2, <2>3
  <2>7. CASE mem[s + k] < mem[p + k]
    <3>1. strncmp(s, p, n) = -1
      BY <1>12, <1>14, <2>6, <2>7 DEF Signum
    <3>2. k # f
      BY <2>3, <2>6, <2>7
    <3>3. k = Len(t) \/ (k < Len(t) /\ t[k + 1] < u[k + 1])
      BY <2>2, <2>3, <2>7, <3>2
    <3>4. Compares(-1, t, u)
      BY <1>4, <1>8, <1>9, <1>10, <1>11, <2>3, <3>2, <3>3, ComparedAt
    <3> QED BY <3>1, <3>4
  <2>8. CASE mem[p + k] < mem[s + k]
    <3>1. strncmp(s, p, n) = 1
      BY <1>12, <1>14, <2>6, <2>8 DEF Signum
    <3>2. k # e
      BY <2>2, <2>6, <2>8
    <3>3. k = Len(u) \/ (k < Len(u) /\ u[k + 1] < t[k + 1])
      BY <2>2, <2>3, <2>8, <3>2
    <3>4. Compares(1, t, u)
      BY <1>4, <1>8, <1>9, <1>10, <1>11, <2>2, <3>2, <3>3, ComparedAt
    <3> QED BY <3>1, <3>4
  <2> QED BY <2>5, <2>6, <2>7, <2>8
<1> QED BY <1>13, <1>14

(* strcmp is strncmp with a count that no string reaches.                  *)
LEMMA StrcmpCompares ==
  ASSUME mem \in Memories, NEW s \in Strs, NEW p \in Strs
  PROVE  Compares(strcmp(s, p), Text(s), Text(p))
<1>1. /\ s \in Nat /\ strlen(s) \in Nat /\ s + strlen(s) < NMEM
      /\ p \in Nat /\ strlen(p) \in Nat /\ p + strlen(p) < NMEM
      /\ mem[s + strlen(s)] = NUL /\ NMEM \in Nat
  BY StringEnds, StringsAssumption
<1>2. strlen(s) \in Ends(s) /\ Ends(s) \in SUBSET Nat /\ Differ(s, p) \in SUBSET Nat
  BY <1>1 DEF Ends, Offsets, Differ
<1> PICK S : S = Differ(s, p) \cup Ends(s)
  OBVIOUS
<1> PICK T : T = Differ(s, p) \cup (Ends(s) \cup {NMEM})
  OBVIOUS
<1> PICK k : k = Min(S)
  OBVIOUS
<1>3. k \in S /\ k \in Nat /\ k < NMEM /\ \A q \in S : k <= q
  <2>1. S \in SUBSET Nat /\ strlen(s) \in S
    BY <1>2
  <2>2. k \in S /\ \A q \in S : k <= q
    BY <2>1, LeastNumber
  <2>3. k \in Nat /\ k <= strlen(s)
    BY <2>1, <2>2
  <2>4. strlen(s) \in Nat /\ strlen(s) < NMEM /\ NMEM \in Nat
    BY <1>1
  <2>5. k < NMEM
    BY ONLY <2>3, <2>4
  <2> QED BY <2>2, <2>3, <2>5
<1>4. Min(T) = k
  <2>1. T \in SUBSET Nat /\ k \in T
    BY <1>1, <1>2, <1>3
  <2>2. \A q \in T : k <= q
    <3>1. k <= NMEM
      BY <1>1, <1>3
    <3>2. \A q \in T : q = NMEM \/ q \in S
      OBVIOUS
    <3> QED BY <1>3, <3>1, <3>2
  <2> QED BY <2>1, <2>2, LeastIs
<1>5. strcmp(s, p) = strncmp(s, p, NMEM)
  <2>1. k # NMEM
    BY <1>1, <1>3
  <2>2. strcmp(s, p) = Signum(mem[s + k] - mem[p + k])
    BY DEF strcmp, Compared
  <2>3. strncmp(s, p, NMEM) = Signum(mem[s + k] - mem[p + k])
    BY <1>4, <2>1 DEF strncmp, Compared
  <2> QED BY <2>2, <2>3
<1>6. Prefix(Text(s), NMEM) = Text(s) /\ Prefix(Text(p), NMEM) = Text(p)
  <2> PICK t : t = Text(s)
    OBVIOUS
  <2> PICK u : u = Text(p)
    OBVIOUS
  <2>1. /\ t \in Seq(Byte) /\ u \in Seq(Byte) /\ Len(t) \in Nat /\ Len(u) \in Nat
        /\ NMEM \in Nat /\ Len(t) < NMEM /\ Len(u) < NMEM
    BY <1>1, TextIs
  <2>2. SubSeq(t, 1, Len(t)) = t /\ SubSeq(u, 1, Len(u)) = u
    BY ONLY <2>1
  <2>3. ~(NMEM < Len(t)) /\ ~(NMEM < Len(u))
    BY ONLY <2>1
  <2> QED BY <2>2, <2>3 DEF Prefix
<1> QED BY <1>1, <1>5, <1>6, StrncmpCompares

LEMMA ComparesAreRight == mem \in Memories => ComparesRight
<1> SUFFICES ASSUME mem \in Memories PROVE ComparesRight
  OBVIOUS
<1>1. Counts \subseteq Nat
  BY StringsAssumption DEF Counts
<1>2. ASSUME NEW s \in Addr, NEW p \in Addr, s \in Strs, p \in Strs
      PROVE  /\ Compares(strcmp(s, p), Text(s), Text(p))
             /\ \A n \in Counts : Room(s, n) /\ Room(p, n) =>
                  Compares(strncmp(s, p, n), Prefix(Text(s), n), Prefix(Text(p), n))
  BY <1>1, <1>2, StrcmpCompares, StrncmpCompares
<1>3. ASSUME NEW s \in Addr, NEW p \in Addr, NEW n \in Counts, Room(s, n), Room(p, n)
      PROVE  Compares(memcmp(s, p, n), Bytes(s, n), Bytes(p, n))
  BY <1>1, <1>3, MemcmpCompares
<1> QED BY <1>2, <1>3 DEF ComparesRight

-----------------------------------------------------------------------------
(* The searches.  First, in a set of places given by its least element, or *)
(* its greatest.                                                           *)
LEMMA LeastOrIs ==
  ASSUME NEW S \in SUBSET Nat, NEW none, NEW k
  PROVE  /\ k \in S /\ (\A y \in S : k <= y) => LeastOr(S, none) = k
         /\ S = {} => LeastOr(S, none) = none
<1>1. ASSUME k \in S, \A y \in S : k <= y
      PROVE  LeastOr(S, none) = k
  <2>1. Min(S) = k
    BY <1>1, LeastIs
  <2> QED BY <1>1, <2>1 DEF LeastOr
<1> QED BY <1>1 DEF LeastOr

LEMMA GreatestOrIs ==
  ASSUME NEW S \in SUBSET Nat, NEW none, NEW k
  PROVE  /\ k \in S /\ (\A y \in S : k >= y) => GreatestOr(S, none) = k
         /\ S = {} => GreatestOr(S, none) = none
<1>1. ASSUME k \in S, \A y \in S : k >= y
      PROVE  GreatestOr(S, none) = k
  <2>1. Max(S) = k
    BY <1>1, GreatestIs
  <2> QED BY <1>1, <2>1 DEF GreatestOr
<1> QED BY <1>1 DEF GreatestOr

(* Where a walk along the string at s stops that stops at its end at last. *)
LEMMA WalkStops ==
  ASSUME mem \in Memories, NEW s \in Strs, NEW S, NUL \in S,
         NEW k, k = Min(Offsets(s, S))
  PROVE  /\ k \in Nat /\ k <= strlen(s) /\ mem[s + k] \in S
         /\ \A q \in 0 .. k - 1 : mem[s + q] \notin S /\ mem[s + q] \in Chars
<1>1. /\ s \in Nat /\ strlen(s) \in Nat /\ s + strlen(s) < NMEM /\ NMEM \in Nat
      /\ mem[s + strlen(s)] = NUL
      /\ \A q \in 0 .. strlen(s) - 1 : mem[s + q] \in Chars
  BY StringEnds, StringsAssumption
<1>2. strlen(s) \in Offsets(s, S) /\ Offsets(s, S) \in SUBSET Nat
  BY <1>1 DEF Offsets
<1>3. k \in Offsets(s, S) /\ \A q \in Offsets(s, S) : k <= q
  BY <1>2, LeastNumber
<1>4. k \in Nat /\ k <= strlen(s) /\ mem[s + k] \in S
  BY <1>2, <1>3 DEF Offsets
<1>5. ASSUME NEW q \in 0 .. k - 1
      PROVE  mem[s + q] \notin S /\ mem[s + q] \in Chars
  <2>1. q \in 0 .. NMEM - 1 - s /\ q \in 0 .. strlen(s) - 1 /\ ~(k <= q)
    BY <1>1, <1>4
  <2>2. q \notin Offsets(s, S)
    BY <1>3, <2>1
  <2> QED BY <1>1, <2>1, <2>2 DEF Offsets
<1> QED BY <1>4, <1>5

(* The places of c in the string at s, its end included.                   *)
PlacesOf(s, c) == {b \in s .. s + strlen(s) : mem[b] = c}

LEMMA StrchrFinds ==
  ASSUME mem \in Memories, NEW s \in Strs, NEW c \in Byte
  PROVE  strchr(s, c) = LeastOr(PlacesOf(s, c), NULL)
<1>1. /\ s \in Nat /\ strlen(s) \in Nat
      /\ \A q \in 0 .. strlen(s) - 1 : mem[s + q] \in Chars
      /\ mem[s + strlen(s)] = NUL
  BY StringEnds
<1> PICK k : k = Min(Offsets(s, {c, NUL}))
  OBVIOUS
<1>2. /\ k \in Nat /\ k <= strlen(s) /\ mem[s + k] \in {c, NUL}
      /\ \A q \in 0 .. k - 1 : mem[s + q] \notin {c, NUL}
  BY WalkStops
<1>3. strchr(s, c) = IF mem[s + k] = c THEN s + k ELSE NULL
  BY DEF strchr
<1> PICK S : S = PlacesOf(s, c)
  OBVIOUS
<1>4. S \in SUBSET Nat
  BY <1>1 DEF PlacesOf
<1>5. \A b \in S : s + k <= b
  <2> SUFFICES ASSUME NEW b \in S, b < s + k PROVE FALSE
    BY <1>1, <1>2, <1>4
  <2>1. b - s \in 0 .. k - 1 /\ s + (b - s) = b /\ mem[b] = c
    BY <1>1, <1>2 DEF PlacesOf
  <2> QED BY <1>2, <2>1
<1>6. CASE mem[s + k] = c
  <2>1. s + k \in S
    BY <1>1, <1>2, <1>6 DEF PlacesOf
  <2> QED BY <1>3, <1>4, <1>5, <1>6, <2>1, LeastOrIs
<1>7. CASE mem[s + k] # c
  <2>1. mem[s + k] = NUL /\ NUL # c
    BY <1>2, <1>7
  <2>2. k = strlen(s)
    <3>1. ~(k \in 0 .. strlen(s) - 1)
      BY <1>1, <2>1, BytesAreNumbers
    <3> QED BY <1>1, <1>2, <3>1
  <2>3. S = {}
    <3> SUFFICES ASSUME NEW b \in S PROVE FALSE
      OBVIOUS
    <3>1. b <= s + k /\ mem[b] = c /\ b \in Nat
      BY <1>1, <1>4, <2>2 DEF PlacesOf
    <3>2. s + k <= b
      BY <1>5
    <3> QED BY <1>1, <1>2, <1>7, <3>1, <3>2
  <2> QED BY <1>3, <1>4, <1>7, <2>3, LeastOrIs
<1> QED BY <1>6, <1>7

LEMMA MemchrFinds ==
  ASSUME mem \in Memories, NEW s \in Addr, NEW c, NEW n \in Nat, Room(s, n)
  PROVE  memchr(s, c, n) = LeastOr({b \in s .. s + n - 1 : mem[b] = c}, NULL)
<1>1. s \in Nat /\ s + n <= NMEM /\ NMEM \in Nat
  BY StringsAssumption DEF Addr, Memories, Room
<1> PICK T : T = Offsets(s, {c}) \cup {n}
  OBVIOUS
<1> PICK k : k = Min(T)
  OBVIOUS
<1>2. k \in T /\ k \in Nat /\ k <= n /\ \A q \in T : k <= q
  <2>1. T \in SUBSET Nat /\ n \in T
    BY <1>1 DEF Offsets
  <2> QED BY <2>1, LeastNumber
<1>3. memchr(s, c, n) = IF k = n THEN NULL ELSE s + k
  BY DEF memchr
<1> PICK S : S = {b \in s .. s + n - 1 : mem[b] = c}
  OBVIOUS
<1>4. S \in SUBSET Nat
  BY <1>1
<1>5. \A b \in S : s + k <= b
  <2> SUFFICES ASSUME NEW b \in S PROVE s + k <= b
    OBVIOUS
  <2>1. b - s \in 0 .. NMEM - 1 - s /\ s + (b - s) = b /\ mem[b] = c /\ b - s \in Nat
    BY <1>1
  <2>2. b - s \in T
    BY <2>1 DEF Offsets
  <2>3. k <= b - s
    BY <1>2, <2>2
  <2> QED BY <1>1, <1>2, <1>4, <2>1, <2>3
<1>6. CASE k = n
  <2>1. S = {}
    <3> SUFFICES ASSUME NEW b \in S PROVE FALSE
      OBVIOUS
    <3>1. b \in s .. s + n - 1
      OBVIOUS
    <3>2. s + k <= b
      BY <1>5
    <3> QED BY <1>1, <1>6, <3>1, <3>2
  <2> QED BY <1>3, <1>4, <1>6, <2>1, LeastOrIs
<1>7. CASE k # n
  <2>1. k < n /\ mem[s + k] = c
    BY <1>2, <1>7 DEF Offsets
  <2>2. s + k \in S
    BY <1>1, <1>2, <2>1
  <2> QED BY <1>3, <1>4, <1>5, <1>7, <2>2, LeastOrIs
<1> QED BY <1>6, <1>7

(* strrchr keeps the last place it has passed.                             *)
LEMMA StrrchrFinds ==
  ASSUME mem \in Memories, NEW s \in Strs, NEW c \in Byte
  PROVE  strrchr(s, c) = GreatestOr(PlacesOf(s, c), NULL)
<1>1. /\ s \in Nat /\ strlen(s) \in Nat /\ mem[s + strlen(s)] = NUL
  BY StringEnds
<1> PICK e \in Nat : e = strlen(s)
  BY <1>1
<1> PICK m : m = mem
  OBVIOUS
<1> DEFINE Below(k) == {b \in s .. s + k - 1 : m[b] = c}
           Greatest(k) == GreatestOr(Below(k), NULL)
           r[k \in 0 .. e] ==
             IF k = 0 THEN NULL ELSE IF m[s + k - 1] = c THEN s + k - 1 ELSE r[k - 1]
           IsR(f) == f = [k \in 0 .. e |->
             IF k = 0 THEN NULL ELSE IF m[s + k - 1] = c THEN s + k - 1 ELSE f[k - 1]]
           f == [k \in 0 .. e |-> Greatest(k)]
<1>2. strrchr(s, c) = IF c = NUL THEN s + e ELSE r[e]
  BY DEF strrchr
<1>3. r = CHOOSE g : IsR(g)
  OBVIOUS
<1> HIDE DEF r
<1>4. \A k \in 0 .. e : k = 0 \/ (k \in 1 .. e /\ k - 1 \in 0 .. e)
  OBVIOUS
<1>5. Greatest(0) = NULL
  <2>1. Below(0) = {}
    BY <1>1
  <2> HIDE DEF Below
  <2> QED BY <2>1, GreatestOrIs
<1>6. ASSUME NEW k \in 1 .. e
      PROVE  Greatest(k) = IF m[s + k - 1] = c THEN s + k - 1 ELSE Greatest(k - 1)
  <2>1. Below(k) \in SUBSET Nat
    BY <1>1
  <2>2. CASE m[s + k - 1] = c
    <3>1. s + k - 1 \in Below(k) /\ \A b \in Below(k) : s + k - 1 >= b
      BY <1>1, <2>2
    <3> HIDE DEF Below
    <3> QED BY <2>1, <2>2, <3>1, GreatestOrIs
  <2>3. CASE m[s + k - 1] # c
    <3>1. \A b \in s .. s + k - 1 : b = s + k - 1 \/ b \in s .. s + (k - 1) - 1
      BY <1>1
    <3>2. \A b \in s .. s + (k - 1) - 1 : b \in s .. s + k - 1
      BY <1>1
    <3>3. Below(k) = Below(k - 1)
      BY <2>3, <3>1, <3>2
    <3> HIDE DEF Below
    <3> QED BY <2>3, <3>3
  <2> QED BY <2>2, <2>3
<1> HIDE DEF Greatest
<1>7. IsR(f)
  <2>1. \A k \in 0 .. e : Greatest(k) =
          IF k = 0 THEN NULL ELSE IF m[s + k - 1] = c THEN s + k - 1 ELSE f[k - 1]
    BY <1>4, <1>5, <1>6
  <2> QED BY <2>1
<1>8. IsR(r)
  <2> HIDE DEF IsR, f
  <2> QED BY <1>3, <1>7
<1>9. /\ r[0] = NULL
      /\ \A k \in 1 .. e : r[k] = IF m[s + k - 1] = c THEN s + k - 1 ELSE r[k - 1]
  <2>1. \A k \in 0 .. e : r[k] =
          IF k = 0 THEN NULL ELSE IF m[s + k - 1] = c THEN s + k - 1 ELSE r[k - 1]
    BY <1>8
  <2>2. 0 \in 0 .. e /\ \A k \in 1 .. e : k \in 0 .. e /\ k # 0
    OBVIOUS
  <2> QED BY ONLY <2>1, <2>2
<1> HIDE DEF IsR, f
<1> DEFINE G == {k \in Nat : k <= e => r[k] = Greatest(k)}
<1>10. 0 \in G
  BY <1>5, <1>9
<1>11. ASSUME NEW k \in Nat, k \in G
       PROVE  k + 1 \in G
  <2> SUFFICES ASSUME k + 1 <= e PROVE r[k + 1] = Greatest(k + 1)
    OBVIOUS
  <2>1. k + 1 \in 1 .. e /\ (k + 1) - 1 = k /\ r[k] = Greatest(k)
    BY <1>11
  <2>2. Greatest(k + 1) = IF m[s + (k + 1) - 1] = c THEN s + (k + 1) - 1 ELSE Greatest(k)
    BY <1>6, <2>1
  <2>3. r[k + 1] = IF m[s + (k + 1) - 1] = c THEN s + (k + 1) - 1 ELSE r[k]
    BY <1>9, <2>1
  <2> QED BY <2>1, <2>2, <2>3
<1> HIDE DEF G
<1>12. r[e] = Greatest(e)
  <2>1. e \in G
    BY <1>10, <1>11, SetInduction
  <2> QED BY <2>1 DEF G
<1> PICK S : S = PlacesOf(s, c)
  OBVIOUS
<1>13. S = {b \in s .. s + e : m[b] = c} /\ S \in SUBSET Nat
  BY <1>1 DEF PlacesOf
<1>14. CASE c = NUL
  <2>1. s + e \in S /\ \A b \in S : s + e >= b
    BY <1>1, <1>13, <1>14
  <2> QED BY <1>2, <1>13, <1>14, <2>1, GreatestOrIs
<1>15. CASE c # NUL
  <2>1. \A b \in s .. s + e : b = s + e \/ b \in s .. s + e - 1
    BY <1>1
  <2>2. \A b \in s .. s + e - 1 : b \in s .. s + e
    BY <1>1
  <2>3. S = Below(e)
    BY <1>1, <1>13, <1>15, <2>1, <2>2
  <2> HIDE DEF Below
  <2> QED BY <1>2, <1>12, <1>15, <2>3 DEF Greatest
<1> QED BY <1>14, <1>15

(* chrnlst looks a byte up in a list.                                      *)
LEMMA ChrnlstLooks ==
  ASSUME mem \in Memories, NEW p \in Strs, NEW c \in Byte
  PROVE  chrnlst(c, p) <=> c \in ToSet(Text(p))
<1>1. p \in Nat /\ strlen(p) \in Nat /\ mem[p + strlen(p)] = NUL
  BY StringEnds
<1> PICK u : u = Text(p)
  OBVIOUS
<1> PICK f \in Nat : f = strlen(p)
  BY <1>1
<1>2. u \in Seq(Byte) /\ Len(u) = f /\ \A q \in 1 .. f : u[q] = mem[p + q - 1] /\ u[q] \in Chars
  BY TextIs
<1>3. c \in ToSet(u) <=> \E q \in 1 .. f : u[q] = c
  BY <1>2 DEF ToSet
<1> PICK k : k = Min(Offsets(p, {NUL, c}))
  OBVIOUS
<1>4. /\ k \in Nat /\ k <= f /\ mem[p + k] \in {NUL, c}
      /\ \A q \in 0 .. k - 1 : mem[p + q] \notin {NUL, c}
  BY WalkStops
<1>5. chrnlst(c, p) <=> mem[p + k] # NUL
  BY DEF chrnlst
<1>6. ASSUME mem[p + k] # NUL
      PROVE  c \in ToSet(u)
  <2>1. k # f /\ mem[p + k] = c
    BY <1>1, <1>4, <1>6
  <2>2. k + 1 \in 1 .. f /\ p + (k + 1) - 1 = p + k
    BY <1>1, <1>4, <2>1
  <2> QED BY <1>2, <1>3, <2>1, <2>2
<1>7. ASSUME NEW q \in 1 .. f, u[q] = c
      PROVE  mem[p + k] # NUL
  <2>1. q - 1 \in Nat /\ p + (q - 1) = p + q - 1 /\ mem[p + q - 1] = c /\ c # NUL
    BY <1>1, <1>2, <1>7, BytesAreNumbers
  <2>2. ~(q - 1 \in 0 .. k - 1)
    BY <1>4, <2>1
  <2>3. k <= q - 1
    BY <1>4, <2>1, <2>2
  <2>4. k + 1 \in 1 .. f /\ p + (k + 1) - 1 = p + k
    BY <1>1, <1>4, <2>3
  <2>5. mem[p + k] \in Chars
    BY <1>2, <2>4
  <2> QED BY <2>5, BytesAreNumbers
<1> QED BY <1>3, <1>5, <1>6, <1>7

(* The longest span of elements of S that t begins with.                   *)
LEMMA SpanIs ==
  ASSUME NEW T, NEW t \in Seq(T), NEW S, NEW k \in 0 .. Len(t),
         \A q \in 1 .. k : t[q] \in S, k = Len(t) \/ t[k + 1] \notin S
  PROVE  SpanOf(t, S) = k
<1> PICK N : N = {n \in 0 .. Len(t) : \A q \in 1 .. n : t[q] \in S}
  OBVIOUS
<1>1. N \in SUBSET Nat /\ k \in N
  OBVIOUS
<1>2. ASSUME NEW n \in N
      PROVE  k >= n
  <2> SUFFICES ASSUME k < n PROVE FALSE
    BY <1>1
  <2>1. k + 1 \in 1 .. n /\ k # Len(t)
    BY <1>1
  <2> QED BY <2>1
<1> QED BY <1>1, <1>2, GreatestOrIs DEF SpanOf

(* strspn and strcspn walk over bytes that are in the list, or are not, to *)
(* one that is of the other kind.                                          *)
LEMMA SpanStops ==
  ASSUME mem \in Memories, NEW s \in Strs, NEW S,
         NEW K \in SUBSET Nat, NEW k, k = Min(K),
         K = {q \in 0 .. strlen(s) : mem[s + q] = NUL \/ mem[s + q] \notin S}
  PROVE  k = SpanOf(Text(s), S)
<1>1. s \in Nat /\ strlen(s) \in Nat /\ mem[s + strlen(s)] = NUL
  BY StringEnds
<1> PICK e \in Nat : e = strlen(s)
  BY <1>1
<1> PICK t : t = Text(s)
  OBVIOUS
<1>2. /\ t \in Seq(Byte) /\ Len(t) = e
      /\ \A q \in 1 .. e : t[q] = mem[s + (q - 1)] /\ t[q] \in Chars
  <2>1. \A q \in 1 .. e : s + q - 1 = s + (q - 1)
    BY <1>1
  <2> QED BY <2>1, TextIs
<1>3. e \in K
  BY <1>1
<1>4. k \in K /\ k \in Nat /\ k <= e /\ \A q \in K : k <= q
  BY <1>3, LeastNumber
<1>5. ASSUME NEW q \in 1 .. k
      PROVE  t[q] \in S
  <2>1. q - 1 \in 0 .. e /\ ~(k <= q - 1) /\ q \in 1 .. e
    BY <1>4
  <2>2. q - 1 \notin K
    BY <1>4, <2>1
  <2>3. mem[s + (q - 1)] \in S
    BY <2>1, <2>2
  <2> QED BY <1>2, <2>1, <2>3
<1>6. k = e \/ t[k + 1] \notin S
  <2> SUFFICES ASSUME k # e PROVE t[k + 1] \notin S
    OBVIOUS
  <2>1. k + 1 \in 1 .. e /\ (k + 1) - 1 = k
    BY <1>4
  <2>2. t[k + 1] = mem[s + k] /\ mem[s + k] # NUL
    BY <1>2, <2>1, BytesAreNumbers
  <2> QED BY <1>4, <2>2
<1>7. k \in 0 .. Len(t)
  BY <1>2, <1>4
<1> QED BY <1>2, <1>5, <1>6, <1>7, SpanIs

LEMMA SpansAre ==
  ASSUME mem \in Memories, NEW s \in Strs, NEW p \in Strs
  PROVE  /\ strspn(s, p) = SpanOf(Text(s), ToSet(Text(p)))
         /\ strcspn(s, p) = SpanOf(Text(s), Byte \ ToSet(Text(p)))
<1>1. s \in Nat /\ strlen(s) \in Nat /\ s + strlen(s) < NMEM /\ NMEM \in Nat
  BY StringEnds, StringsAssumption
<1> PICK S : S = ToSet(Text(p))
  OBVIOUS
<1>2. ASSUME NEW k \in 0 .. strlen(s)
      PROVE  mem[s + k] \in Byte /\ (chrnlst(mem[s + k], p) <=> mem[s + k] \in S)
  <2>1. s + k \in 0 .. NMEM - 1
    BY <1>1
  <2>2. PICK c \in Byte : c = mem[s + k]
    BY <2>1 DEF Memories
  <2>3. chrnlst(c, p) <=> c \in S
    BY ChrnlstLooks
  <2> QED BY <2>2, <2>3
<1> PICK K : K = {k \in 0 .. strlen(s) : mem[s + k] = NUL \/ mem[s + k] \notin S}
  OBVIOUS
<1>3. strspn(s, p) = Min(K)
  <2>1. K = {k \in 0 .. strlen(s) : mem[s + k] = NUL \/ ~chrnlst(mem[s + k], p)}
    BY <1>2
  <2> QED BY <2>1 DEF strspn
<1>4. Min(K) = SpanOf(Text(s), S)
  <2>1. K \in SUBSET Nat
    BY <1>1
  <2> QED BY <2>1, SpanStops
<1> PICK L : L = {k \in 0 .. strlen(s) : mem[s + k] = NUL \/ mem[s + k] \notin Byte \ S}
  OBVIOUS
<1>5. strcspn(s, p) = Min(L)
  <2>1. L = {k \in 0 .. strlen(s) : mem[s + k] = NUL \/ chrnlst(mem[s + k], p)}
    BY <1>2
  <2> QED BY <2>1 DEF strcspn
<1>6. Min(L) = SpanOf(Text(s), Byte \ S)
  <2>1. L \in SUBSET Nat
    BY <1>1
  <2> QED BY <2>1, SpanStops
<1> QED BY <1>3, <1>4, <1>5, <1>6

(* strstr compares at one place until the bytes differ or one string ends; *)
(* it has found the other when that is the one that ends.                  *)
LEMMA MatchIs ==
  ASSUME mem \in Memories, NEW b \in Strs, NEW p \in Strs, strlen(p) # 0
  PROVE  MatchAt(b, p) <=> strlen(p) <= strlen(b) /\ Bytes(b, strlen(p)) = Text(p)
<1>1. /\ b \in Nat /\ strlen(b) \in Nat /\ b + strlen(b) < NMEM
      /\ p \in Nat /\ strlen(p) \in Nat /\ p + strlen(p) < NMEM
      /\ NMEM \in Nat
  BY StringEnds, StringsAssumption
<1> PICK e \in Nat : e = strlen(b)
  BY <1>1
<1> PICK f \in Nat : f = strlen(p)
  BY <1>1
<1>2. /\ mem[b + e] = NUL /\ \A q \in 0 .. e - 1 : mem[b + q] # NUL
      /\ mem[p + f] = NUL /\ \A q \in 0 .. f - 1 : mem[p + q] # NUL
  BY StringEnds, BytesAreNumbers
<1> PICK S : S = Differ(b, p) \cup Ends(b) \cup Ends(p)
  OBVIOUS
<1> PICK k : k = Min(S)
  OBVIOUS
<1>3. S \in SUBSET Nat /\ e \in S /\ f \in S
  <2>1. Differ(b, p) \in SUBSET Nat /\ Ends(b) \in SUBSET Nat /\ Ends(p) \in SUBSET Nat
    BY <1>1 DEF Differ, Ends, Offsets
  <2>2. e \in Ends(b) /\ f \in Ends(p)
    BY <1>1, <1>2 DEF Ends, Offsets
  <2> QED BY <2>1, <2>2
<1>4. k \in S /\ k \in Nat /\ k <= e /\ k <= f /\ \A q \in S : k <= q
  BY <1>3, LeastNumber
<1>5. MatchAt(b, p) <=> mem[b] = mem[p] /\ mem[p + k] = NUL
  BY DEF MatchAt
<1>6. ASSUME NEW q \in 0 .. k - 1
      PROVE  mem[b + q] = mem[p + q]
  <2>1. q \in 0 .. NMEM - 1 /\ b + q < NMEM /\ p + q < NMEM /\ ~(k <= q)
    BY <1>1, <1>4
  <2>2. q \notin Differ(b, p)
    BY <1>4, <2>1
  <2> QED BY <2>1, <2>2 DEF Differ
<1> PICK u : u = Text(p)
  OBVIOUS
<1> PICK v : v = Bytes(b, f)
  OBVIOUS
<1>7. u = [q \in 1 .. f |-> mem[p + (q - 1)]] /\ v = [q \in 1 .. f |-> mem[b + (q - 1)]]
  <2>1. \A q \in 1 .. f : p + q - 1 = p + (q - 1) /\ b + q - 1 = b + (q - 1)
    BY <1>1
  <2>2. u = Bytes(p, f)
    BY TextIs
  <2> QED BY <2>1, <2>2 DEF Bytes
<1>8. v = u <=> \A q \in 0 .. f - 1 : mem[b + q] = mem[p + q]
  <2>1. ASSUME v = u, NEW q \in 0 .. f - 1
        PROVE  mem[b + q] = mem[p + q]
    <3>1. q + 1 \in 1 .. f /\ (q + 1) - 1 = q
      OBVIOUS
    <3>2. v[q + 1] = mem[b + q] /\ u[q + 1] = mem[p + q]
      BY <1>7, <3>1
    <3> QED BY <2>1, <3>2
  <2>2. ASSUME \A q \in 0 .. f - 1 : mem[b + q] = mem[p + q]
        PROVE  v = u
    <3>1. \A q \in 1 .. f : q - 1 \in 0 .. f - 1
      OBVIOUS
    <3>2. \A q \in 1 .. f : mem[b + (q - 1)] = mem[p + (q - 1)]
      BY <2>2, <3>1
    <3> QED BY <1>7, <3>2
  <2> QED BY <2>1, <2>2
<1>9. ASSUME MatchAt(b, p)
      PROVE  f <= e /\ v = u
  <2>1. k = f
    <3>1. ~(k \in 0 .. f - 1)
      BY <1>2, <1>5, <1>9
    <3> QED BY <1>4, <3>1
  <2> QED BY <1>4, <1>6, <1>8, <2>1
<1>10. ASSUME f <= e, v = u
       PROVE  MatchAt(b, p)
  <2>1. \A q \in 0 .. f - 1 : mem[b + q] = mem[p + q]
    BY <1>8, <1>10
  <2>2. ~(k < f)
    <3> SUFFICES ASSUME k < f PROVE FALSE
      OBVIOUS
    <3>1. k \in 0 .. f - 1 /\ k \in 0 .. e - 1
      BY <1>4, <1>10
    <3>2. k \notin Differ(b, p)
      BY <2>1, <3>1 DEF Differ
    <3>3. k \notin Ends(b) /\ k \notin Ends(p)
      BY <1>2, <3>1 DEF Ends, Offsets
    <3> QED BY <1>4, <3>2, <3>3
  <2>3. k = f
    BY <1>4, <2>2
  <2>4. mem[b] = mem[p]
    <3>1. 0 \in 0 .. f - 1 /\ b + 0 = b /\ p + 0 = p
      BY <1>1
    <3> QED BY <2>1, <3>1
  <2> QED BY <1>2, <1>5, <2>3, <2>4
<1> QED BY <1>9, <1>10

(* Behind every byte of a string there is the rest of it.                  *)
LEMMA RestOfString ==
  ASSUME mem \in Memories, NEW s \in Strs, NEW k \in Nat, k <= strlen(s)
  PROVE  s + k \in Strs /\ strlen(s + k) = strlen(s) - k
<1>1. /\ s \in Nat /\ strlen(s) \in Nat /\ s + strlen(s) < NMEM /\ NMEM \in Nat
      /\ mem[s + strlen(s)] = NUL
      /\ \A q \in 0 .. strlen(s) - 1 : mem[s + q] \in Chars
  BY StringEnds, StringsAssumption
<1> PICK e \in Nat : e = strlen(s)
  BY <1>1
<1>2. s + k \in Strs
  <2>1. s + k \in 0 .. NMEM - 1 /\ s + e \in s + k .. NMEM - 1
    BY <1>1
  <2>2. s + k \in Addr
    BY <2>1 DEF Addr, Memories
  <2> QED BY <1>1, <2>1, <2>2 DEF Strs, IsString
<1> PICK d \in Nat : d = strlen(s + k)
  BY <1>2, StringEnds
<1>3. /\ mem[(s + k) + d] = NUL /\ \A q \in 0 .. d - 1 : mem[(s + k) + q] \in Chars
  BY <1>2, StringEnds
<1>4. ~(k + d < e)
  <2> SUFFICES ASSUME k + d < e PROVE FALSE
    OBVIOUS
  <2>1. k + d \in 0 .. e - 1 /\ s + (k + d) = (s + k) + d
    BY <1>1
  <2> QED BY <1>1, <1>3, <2>1, BytesAreNumbers
<1>5. ~(e < k + d)
  <2> SUFFICES ASSUME e < k + d PROVE FALSE
    OBVIOUS
  <2>1. e - k \in 0 .. d - 1 /\ (s + k) + (e - k) = s + e
    BY <1>1
  <2> QED BY <1>1, <1>3, <2>1, BytesAreNumbers
<1> QED BY <1>2, <1>4, <1>5

LEMMA StrstrFinds ==
  ASSUME mem \in Memories, NEW s \in Strs, NEW p \in Strs, Text(p) # << >>
  PROVE  strstr(s, p) =
           LeastOr({b \in s .. s + Len(Text(s)) - Len(Text(p)) : Bytes(b, Len(Text(p))) = Text(p)}, NULL)
<1>1. /\ s \in Nat /\ strlen(s) \in Nat /\ mem[s + strlen(s)] = NUL
      /\ \A q \in 0 .. strlen(s) - 1 : mem[s + q] \in Chars
  BY StringEnds
<1> PICK e \in Nat : e = strlen(s)
  BY <1>1
<1> PICK u : u = Text(p)
  OBVIOUS
<1> PICK f \in Nat : f = strlen(p)
  BY StringEnds
<1>2. Len(Text(s)) = e /\ Len(u) = f /\ f # 0
  <2>1. Len(Text(s)) = e /\ u \in Seq(Byte) /\ Len(u) = f
    BY TextIs
  <2>2. Len(u) # 0
    BY <2>1
  <2> QED BY <2>1, <2>2
<1> PICK S : S = {b \in s .. s + e - f : Bytes(b, f) = u}
  OBVIOUS
<1>3. S \in SUBSET Nat
  BY <1>1
<1> PICK K : K = {k \in 0 .. e : mem[s + k] = NUL \/ MatchAt(s + k, p)}
  OBVIOUS
<1> PICK k : k = Min(K)
  OBVIOUS
<1>4. k \in K /\ k \in Nat /\ k <= e /\ \A q \in K : k <= q
  <2>1. K \in SUBSET Nat /\ e \in K
    BY <1>1
  <2> QED BY <2>1, LeastNumber
<1>5. strstr(s, p) = IF mem[s + k] = NUL THEN NULL ELSE s + k
  BY DEF strstr
<1>6. ASSUME NEW q \in 0 .. e
      PROVE  MatchAt(s + q, p) <=> s + q \in S
  <2>1. s + q \in Strs /\ strlen(s + q) = e - q
    BY RestOfString
  <2>2. MatchAt(s + q, p) <=> f <= e - q /\ Bytes(s + q, f) = u
    BY <1>2, <2>1, MatchIs
  <2>3. f <= e - q <=> s + q \in s .. s + e - f
    BY <1>1
  <2> QED BY <2>2, <2>3
<1>7. ASSUME NEW b \in S
      PROVE  s + k <= b
  <2>1. b \in s .. s + e - f
    OBVIOUS
  <2>2. b - s \in 0 .. e /\ s + (b - s) = b
    BY <1>1, <2>1
  <2>3. b - s \in K
    BY <1>6, <2>2
  <2>4. k <= b - s
    BY <1>4, <2>3
  <2> QED BY <1>1, <1>4, <2>2, <2>4
<1>8. CASE mem[s + k] = NUL
  <2>1. k = e
    <3>1. ~(k \in 0 .. e - 1)
      BY <1>1, <1>8, BytesAreNumbers
    <3> QED BY <1>4, <3>1
  <2>2. S = {}
    <3> SUFFICES ASSUME NEW b \in S PROVE FALSE
      OBVIOUS
    <3>1. b \in s .. s + e - f
      OBVIOUS
    <3>2. s + e <= b
      BY <1>7, <2>1
    <3> QED BY <1>1, <1>2, <3>1, <3>2
  <2>3. LeastOr(S, NULL) = NULL
    BY <1>3, <2>2, LeastOrIs
  <2> QED BY <1>2, <1>5, <1>8, <2>3
<1>9. CASE mem[s + k] # NUL
  <2>1. s + k \in S
    BY <1>4, <1>6, <1>9
  <2> QED BY <1>2, <1>3, <1>5, <1>7, <1>9, <2>1, LeastOrIs
<1> QED BY <1>8, <1>9

LEMMA SearchesAreRight == mem \in Memories => SearchesRight
<1> SUFFICES ASSUME mem \in Memories, NEW s \in Strs
             PROVE  LET t == Text(s)
                        Places(c) == {b \in s .. s + Len(t) : mem[b] = c}
                    IN  /\ strlen(s) = Len(t)
                        /\ \A c \in Byte :
                             /\ strchr(s, c) = LeastOr(Places(c), NULL)
                             /\ strrchr(s, c) = GreatestOr(Places(c), NULL)
                             /\ \A n \in Counts : Room(s, n) =>
                                  memchr(s, c, n) = LeastOr({b \in s .. s + n - 1 : mem[b] = c}, NULL)
                        /\ \A p \in Strs :
                             LET u == Text(p)
                             IN  /\ strspn(s, p) = SpanOf(t, ToSet(u))
                                 /\ strcspn(s, p) = SpanOf(t, Byte \ ToSet(u))
                                 /\ u # << >> =>
                                      strstr(s, p) = LeastOr({b \in s .. s + Len(t) - Len(u) :
                                                                Bytes(b, Len(u)) = u}, NULL)
  BY DEF SearchesRight
<1>1. strlen(s) = Len(Text(s))
  BY TextIs
<1>2. ASSUME NEW c \in Byte
      PROVE  /\ strchr(s, c) = LeastOr({b \in s .. s + Len(Text(s)) : mem[b] = c}, NULL)
             /\ strrchr(s, c) = GreatestOr({b \in s .. s + Len(Text(s)) : mem[b] = c}, NULL)
  <2>1. PlacesOf(s, c) = {b \in s .. s + Len(Text(s)) : mem[b] = c}
    BY <1>1 DEF PlacesOf
  <2> QED BY <2>1, StrchrFinds, StrrchrFinds
<1>3. ASSUME NEW c \in Byte, NEW n \in Counts, Room(s, n)
      PROVE  memchr(s, c, n) = LeastOr({b \in s .. s + n - 1 : mem[b] = c}, NULL)
  <2>1. s \in Addr /\ n \in Nat
    BY StringsAssumption DEF Strs, Counts
  <2> QED BY <1>3, <2>1, MemchrFinds
<1>4. ASSUME NEW p \in Strs
      PROVE  /\ strspn(s, p) = SpanOf(Text(s), ToSet(Text(p)))
             /\ strcspn(s, p) = SpanOf(Text(s), Byte \ ToSet(Text(p)))
             /\ Text(p) # << >> =>
                  strstr(s, p) = LeastOr({b \in s .. s + Len(Text(s)) - Len(Text(p)) :
                                            Bytes(b, Len(Text(p))) = Text(p)}, NULL)
  BY SpansAre, StrstrFinds
<1> QED BY <1>1, <1>2, <1>3, <1>4

(* The comparisons and searches of string.c, over whatever the memory      *)
(* holds: they order strings and blocks as a dictionary does, find the     *)
(* first or the last place of a byte, the longest span of bytes from a     *)
(* list or of others, and the first place of a string in another.          *)
THEOREM ReadsPromise == StrSpec => []ReadsRight
<1>1. StrInv => ReadsRight
  <2>1. mem \in Memories => ReadsRight
    BY ComparesAreRight, SearchesAreRight DEF ReadsRight
  <2>2. mem = << >> => ReadsRight
    BY NoMemory DEF ReadsRight, ComparesRight, SearchesRight
  <2> QED BY <2>1, <2>2 DEF StrInv
<1> QED BY <1>1, StrInvariant, PTL

-----------------------------------------------------------------------------
(* Tokens.                                                                 *)

(* The n-th of a set of numbers.                                           *)
Below(S, x) == {k \in S : k < x}
Nth(S, n) == CHOOSE x \in S : Cardinality(Below(S, x)) = n - 1

Leaves(S, m, T) ==
  /\ T \in SUBSET Nat /\ IsFiniteSet(T) /\ Cardinality(T) \in Nat
  /\ Cardinality(S) = Cardinality(T) + 1
  /\ Cardinality(Below(S, m)) = 0
  /\ \A x \in T : /\ Cardinality(Below(T, x)) \in Nat
                  /\ Cardinality(Below(S, x)) = Cardinality(Below(T, x)) + 1

(* Without the least, every other is one place further up.                 *)
LEMMA LeastLeaves ==
  ASSUME NEW S \in SUBSET Nat, IsFiniteSet(S), NEW m \in S, \A x \in S : m <= x,
         NEW T, T = S \ {m}
  PROVE  Leaves(S, m, T)
<1>1. IsFiniteSet(T) /\ Cardinality(S) = Cardinality(T) + 1 /\ Cardinality(T) \in Nat
  <2>1. IsFiniteSet(S \ {m}) /\ Cardinality(S \ {m}) = Cardinality(S) - 1
    BY FS_RemoveElement
  <2>2. Cardinality(S) \in Nat /\ Cardinality(S \ {m}) \in Nat
    BY <2>1, FS_CardinalityType
  <2> QED BY <2>1, <2>2
<1>2. Below(S, m) = {}
  <2>1. \A x \in S : x \in Nat /\ ~(x < m)
    OBVIOUS
  <2> QED BY <2>1 DEF Below
<1>3. Cardinality(Below(S, m)) = 0
  BY <1>2, FS_EmptySet
<1>4. ASSUME NEW x \in T
      PROVE  /\ Cardinality(Below(T, x)) \in Nat
             /\ Cardinality(Below(S, x)) = Cardinality(Below(T, x)) + 1
  <2>1. Below(S, x) = Below(T, x) \cup {m} /\ m \notin Below(T, x)
    BY DEF Below
  <2>2. IsFiniteSet(Below(T, x))
    BY <1>1, FS_Subset DEF Below
  <2> QED BY <2>1, <2>2, FS_AddElement, FS_CardinalityType
<1> QED BY <1>1, <1>3, <1>4 DEF Leaves

(* There is an n-th, and it is the only one.                               *)
LEMMA NthExists ==
  ASSUME NEW c \in Nat
  PROVE  \A S \in SUBSET Nat : IsFiniteSet(S) /\ Cardinality(S) = c =>
           \A n \in 1 .. c : \E x \in S : Cardinality(Below(S, x)) = n - 1
<1> DEFINE Ok(S) == \A n \in 1 .. Cardinality(S) : \E x \in S : Cardinality(Below(S, x)) = n - 1
           G == {d \in Nat : \A S \in SUBSET Nat : IsFiniteSet(S) /\ Cardinality(S) = d => Ok(S)}
<1>1. 0 \in G
  OBVIOUS
<1>2. ASSUME NEW d \in Nat, d \in G
      PROVE  d + 1 \in G
  <2> SUFFICES ASSUME NEW S \in SUBSET Nat, IsFiniteSet(S), Cardinality(S) = d + 1,
                      NEW n \in 1 .. d + 1
               PROVE  \E x \in S : Cardinality(Below(S, x)) = n - 1
    OBVIOUS
  <2>1. S # {}
    BY FS_EmptySet
  <2>2. PICK m \in S : \A x \in S : m <= x
    BY <2>1, LeastNumber
  <2>3. PICK T : T = S \ {m}
    OBVIOUS
  <2>4. /\ T \in SUBSET Nat /\ IsFiniteSet(T) /\ Cardinality(T) \in Nat
        /\ Cardinality(S) = Cardinality(T) + 1
        /\ Cardinality(Below(S, m)) = 0
        /\ \A x \in T : /\ Cardinality(Below(T, x)) \in Nat
                        /\ Cardinality(Below(S, x)) = Cardinality(Below(T, x)) + 1
    <3>1. Leaves(S, m, T)
      BY <2>2, <2>3, LeastLeaves
    <3> QED BY <3>1 DEF Leaves
  <2>5. CASE n = 1
    BY <2>4, <2>5
  <2>6. CASE n > 1
    <3>1. Cardinality(T) = d /\ n - 1 \in 1 .. d
      BY <2>4, <2>6
    <3>2. Ok(T)
      BY <1>2, <2>4, <3>1
    <3>3. PICK x \in T : Cardinality(Below(T, x)) = (n - 1) - 1
      BY <3>1, <3>2
    <3>4. x \in S /\ Cardinality(Below(S, x)) = ((n - 1) - 1) + 1
      BY <2>3, <2>4, <3>3
    <3>5. ((n - 1) - 1) + 1 = n - 1
      OBVIOUS
    <3> QED BY <3>4, <3>5
  <2> QED BY <2>5, <2>6
<1> HIDE DEF G
<1>3. c \in G
  BY <1>1, <1>2, SetInduction
<1> QED BY <1>3 DEF G

LEMMA NthIs ==
  ASSUME NEW S \in SUBSET Nat, IsFiniteSet(S), NEW n \in 1 .. Cardinality(S)
  PROVE  /\ Nth(S, n) \in S
         /\ \A x \in S : Cardinality(Below(S, x)) = n - 1 => x = Nth(S, n)
<1>1. Cardinality(S) \in Nat
  BY FS_CardinalityType
<1>2. \E x \in S : Cardinality(Below(S, x)) = n - 1
  BY <1>1, NthExists
<1>3. PICK y : y = Nth(S, n)
  OBVIOUS
<1>4. y \in S /\ Cardinality(Below(S, y)) = n - 1
  BY <1>2, <1>3 DEF Nth
<1>5. ASSUME NEW x \in S, NEW z \in S, x < z
      PROVE  Cardinality(Below(S, x)) < Cardinality(Below(S, z))
  <2>1. IsFiniteSet(Below(S, z)) /\ Below(S, x) \subseteq Below(S, z)
        /\ x \in Below(S, z) /\ x \notin Below(S, x)
    <3>1. Below(S, z) \subseteq S
      BY DEF Below
    <3>2. IsFiniteSet(Below(S, z))
      BY <3>1, FS_Subset
    <3>3. \A k \in S : k < x => k < z
      <4>1. \A k \in S : k \in Nat
        OBVIOUS
      <4> QED BY <1>5, <4>1
    <3>4. ~(x < x)
      OBVIOUS
    <3> QED BY <1>5, <3>2, <3>3, <3>4 DEF Below
  <2>2. Below(S, x) # Below(S, z)
    BY <2>1
  <2>3. Cardinality(Below(S, x)) \in Nat /\ Cardinality(Below(S, z)) \in Nat
    BY <2>1, FS_Subset, FS_CardinalityType
  <2> QED BY <2>1, <2>2, <2>3, FS_Subset
<1>6. ASSUME NEW x \in S, Cardinality(Below(S, x)) = n - 1
      PROVE  x = y
  <2>1. ~(x < y) /\ ~(y < x)
    BY <1>4, <1>5, <1>6, <1>1
  <2> QED BY <1>4, <2>1
<1> QED BY <1>3, <1>4, <1>6

LEMMA NthOfRest ==
  ASSUME NEW S \in SUBSET Nat, IsFiniteSet(S), NEW m \in S, \A x \in S : m <= x,
         NEW T, T = S \ {m}
  PROVE  /\ Cardinality(T) \in Nat /\ Cardinality(S) = Cardinality(T) + 1
         /\ Nth(S, 1) = m
         /\ \A n \in 1 .. Cardinality(T) : Nth(T, n) \in T /\ Nth(S, n + 1) = Nth(T, n)
<1>1. /\ T \in SUBSET Nat /\ IsFiniteSet(T) /\ Cardinality(T) \in Nat
      /\ Cardinality(S) = Cardinality(T) + 1
      /\ Cardinality(Below(S, m)) = 0
      /\ \A x \in T : /\ Cardinality(Below(T, x)) \in Nat
                      /\ Cardinality(Below(S, x)) = Cardinality(Below(T, x)) + 1
  <2>1. Leaves(S, m, T)
    BY LeastLeaves
  <2> QED BY <2>1 DEF Leaves
<1>2. Nth(S, 1) = m
  <2>1. 1 \in 1 .. Cardinality(S) /\ Cardinality(Below(S, m)) = 1 - 1
    BY <1>1
  <2> QED BY <2>1, NthIs
<1>3. ASSUME NEW n \in 1 .. Cardinality(T)
      PROVE  Nth(T, n) \in T /\ Nth(S, n + 1) = Nth(T, n)
  <2>1. PICK y \in T : y = Nth(T, n) /\ Cardinality(Below(T, y)) = n - 1
    <3>1. \E x \in T : Cardinality(Below(T, x)) = n - 1
      BY <1>1, NthExists
    <3> QED BY <1>1, <3>1, NthIs
  <2>2. y \in S /\ n + 1 \in 1 .. Cardinality(S) /\ Cardinality(Below(S, y)) = (n + 1) - 1
    BY <1>1, <2>1
  <2>3. y = Nth(S, n + 1)
    BY <2>2, NthIs
  <2> QED BY <2>1, <2>3
<1> QED BY <1>1, <1>2, <1>3

(* Texts and tokens of the string at s in the memory m: it ends at e, and  *)
(* a token starts where no delimiter is but before which one is.           *)
TextIn(m, s) == [q \in 1 .. CHOOSE k \in 0 .. NMEM : m[s + k] = NUL /\ \A n \in 0 .. k - 1 : m[s + n] # NUL
                   |-> m[s + q - 1]]
TokensIn(m, s, delim) ==
  LET In(x) == x \in s .. s + Len(TextIn(m, s)) - 1 /\ m[x] \notin delim
      starts == {x \in DOMAIN m : In(x) /\ ~In(x - 1)}
      Run(x) == [q \in 1 .. Min({k \in 0 .. NMEM : ~In(x + k)}) |-> m[x + q - 1]]
  IN  [n \in 1 .. Cardinality(starts) |->
         Run(CHOOSE x \in starts : Cardinality({k \in starts : k < x}) = n - 1)]

LEMMA TokensAreIn ==
  /\ \A s : Text(s) = TextIn(mem, s) /\ Text(s)' = TextIn(mem', s)
  /\ \A s, delim : /\ TokensOf(s, delim) = TokensIn(mem, s, delim)
                   /\ TokensOf(s, delim)' = TokensIn(mem', s, delim)
<1>1. \A s : Text(s) = TextIn(mem, s) /\ Text(s)' = TextIn(mem', s)
  BY DEF Text, TextIn
<1>2. ASSUME NEW s, NEW delim
      PROVE  /\ TokensOf(s, delim) = TokensIn(mem, s, delim)
             /\ TokensOf(s, delim)' = TokensIn(mem', s, delim)
  <2>1. TokensOf(s, delim) = TokensIn(mem, s, delim)
    BY DEF TokensOf, TokensIn, Addr, Text, TextIn
  <2>2. TokensOf(s, delim)' = TokensIn(mem', s, delim)
    BY DEF TokensOf, TokensIn, Addr, Text, TextIn
  <2> QED BY <2>1, <2>2
<1> QED BY <1>1, <1>2

StringTo(m, s, e) ==
  /\ m \in Memories /\ s \in Nat /\ e \in Nat /\ s <= e /\ e < NMEM
  /\ m[e] = NUL /\ \A x \in s .. e - 1 : m[x] # NUL

TextSays(m, s, e) ==
  TextIn(m, s) = [q \in 1 .. e - s |-> m[s + q - 1]] /\ Len(TextIn(m, s)) = e - s

LEMMA TextTo ==
  ASSUME NEW m, NEW s, NEW e, StringTo(m, s, e)
  PROVE  TextSays(m, s, e)
<1> DEFINE Here(k) == m[s + k] = NUL /\ \A n \in 0 .. k - 1 : m[s + n] # NUL
<1>1. s \in Nat /\ e \in Nat /\ s <= e /\ e < NMEM /\ NMEM \in Nat
  BY StringsAssumption DEF StringTo
<1>2. e - s \in 0 .. NMEM /\ Here(e - s)
  <2>1. s + (e - s) = e /\ \A n \in 0 .. (e - s) - 1 : s + n \in s .. e - 1
    BY <1>1
  <2> QED BY <1>1, <2>1 DEF StringTo
<1>3. \A k \in 0 .. NMEM : Here(k) => k = e - s
  <2> TAKE k \in 0 .. NMEM
  <2> HAVE Here(k)
  <2>1. ~(k < e - s) /\ ~(e - s < k)
    BY <1>1, <1>2
  <2> QED BY <1>1, <2>1
<1>4. (CHOOSE k \in 0 .. NMEM : Here(k)) = e - s
  <2> HIDE DEF Here
  <2> QED BY <1>2, <1>3
<1>5. TextIn(m, s) = [q \in 1 .. e - s |-> m[s + q - 1]]
  BY <1>4 DEF TextIn
<1>6. Len(TextIn(m, s)) = e - s
  BY <1>1, <1>5
<1> QED BY <1>5, <1>6 DEF TextSays

Inside(m, delim, e, x) == x < e /\ m[x] \notin delim
Starts(m, s, e, delim) ==
  {x \in s .. e - 1 : m[x] \notin delim /\ (x = s \/ m[x - 1] \in delim)}
RunFrom(m, delim, e, x) ==
  [q \in 1 .. Min({k \in 0 .. NMEM : ~Inside(m, delim, e, x + k)}) |-> m[x + q - 1]]

TokensSay(m, s, e, delim) ==
  /\ Starts(m, s, e, delim) \in SUBSET Nat /\ IsFiniteSet(Starts(m, s, e, delim))
  /\ TokensIn(m, s, delim) =
       [n \in 1 .. Cardinality(Starts(m, s, e, delim)) |->
          RunFrom(m, delim, e, Nth(Starts(m, s, e, delim), n))]

LEMMA TokensTo ==
  ASSUME NEW m, NEW s, NEW e, StringTo(m, s, e), NEW delim
  PROVE  TokensSay(m, s, e, delim)
<1> DEFINE In(x) == x \in s .. s + Len(TextIn(m, s)) - 1 /\ m[x] \notin delim
           starts == {x \in DOMAIN m : In(x) /\ ~In(x - 1)}
           Run(x) == [q \in 1 .. Min({k \in 0 .. NMEM : ~In(x + k)}) |-> m[x + q - 1]]
           T == Starts(m, s, e, delim)
<1>1. s \in Nat /\ e \in Nat /\ s <= e /\ e < NMEM /\ NMEM \in Nat /\ DOMAIN m = 0 .. NMEM - 1
  BY StringsAssumption DEF StringTo, Memories
<1>2. \A x : In(x) <=> x \in s .. e - 1 /\ m[x] \notin delim
  <2>1. s + Len(TextIn(m, s)) - 1 = e - 1
    <3>1. TextSays(m, s, e)
      BY TextTo
    <3> QED BY <1>1, <3>1 DEF TextSays
  <2> QED BY <2>1
<1>3. starts = T
  <2>1. \A x \in 0 .. NMEM - 1 : x \in s .. e - 1 => (x - 1 \in s .. e - 1 <=> x # s)
    BY <1>1
  <2>2. \A x : x \in s .. e - 1 => x \in 0 .. NMEM - 1
    BY <1>1
  <2> HIDE DEF In
  <2> QED BY <1>1, <1>2, <2>1, <2>2 DEF Starts
<1>4. T \in SUBSET Nat /\ IsFiniteSet(T)
  <2>1. T \subseteq s .. e - 1 /\ IsFiniteSet(s .. e - 1)
    <3>1. e - 1 \in Int /\ s \in Int
      BY <1>1
    <3> QED BY <3>1, FS_Interval DEF Starts
  <2>2. s .. e - 1 \subseteq Nat
    BY <1>1
  <2> QED BY <2>1, <2>2, FS_Subset
<1>5. ASSUME NEW n \in 1 .. Cardinality(T)
      PROVE  Run(Nth(T, n)) = RunFrom(m, delim, e, Nth(T, n))
  <2>1. PICK x : x = Nth(T, n)
    OBVIOUS
  <2>2. x \in s .. e - 1
    BY <1>4, <2>1, NthIs DEF Starts
  <2>3. \A k \in 0 .. NMEM : In(x + k) <=> Inside(m, delim, e, x + k)
    <3>1. \A k \in 0 .. NMEM : x + k \in s .. e - 1 <=> x + k < e
      BY <1>1, <2>2
    <3> QED BY <1>2, <3>1 DEF Inside
  <2> HIDE DEF In
  <2> QED BY <2>1, <2>3 DEF RunFrom
<1>6. TokensIn(m, s, delim) =
        [n \in 1 .. Cardinality(starts) |-> Run(CHOOSE x \in starts : Cardinality({k \in starts : k < x}) = n - 1)]
  BY DEF TokensIn
<1> HIDE DEF In, starts, Run
<1>7. TokensIn(m, s, delim) = [n \in 1 .. Cardinality(T) |-> Run(Nth(T, n))]
  BY <1>3, <1>6 DEF Nth, Below
<1> HIDE DEF T
<1>8. TokensIn(m, s, delim) = [n \in 1 .. Cardinality(T) |-> RunFrom(m, delim, e, Nth(T, n))]
  BY <1>5, <1>7
<1> QED BY <1>4, <1>8 DEF T, TokensSay

(* Nothing but delimiters: no token.                                       *)
LEMMA NoneLeft ==
  ASSUME NEW m, NEW s, NEW e, StringTo(m, s, e), NEW delim, \A x \in s .. e - 1 : m[x] \in delim
  PROVE  TokensIn(m, s, delim) = << >>
<1>1. Starts(m, s, e, delim) = {}
  BY DEF Starts
<1>2. Cardinality(Starts(m, s, e, delim)) = 0
  BY <1>1, FS_EmptySet
<1>3. TokensSay(m, s, e, delim)
  BY TokensTo
<1> QED BY <1>2, <1>3 DEF TokensSay

(* The first token starts behind leading delimiters at p and ends before   *)
(* b, and the others are those of what stands behind b.                    *)
FirstTo(m, s, e, delim, p, b) ==
  /\ p \in s .. e - 1 /\ m[p] \notin delim /\ \A y \in s .. p - 1 : m[y] \in delim
  /\ b \in p + 1 .. e /\ \A y \in p + 1 .. b - 1 : m[y] \notin delim
  /\ b = e \/ m[b] \in delim

RunsSay(m, e, delim, p, b, w) ==
  /\ StringTo(w, p, b) /\ RunFrom(m, delim, e, p) = TextIn(w, p)
  /\ \A y \in Nat : y > b => RunFrom(m, delim, e, y) = RunFrom(w, delim, e, y)
  /\ b < e => StringTo(w, b + 1, e)

LEMMA FirstRun ==
  ASSUME NEW m, NEW s, NEW e, StringTo(m, s, e), NEW delim, NEW p, NEW b,
         FirstTo(m, s, e, delim, p, b), NEW w, w = [m EXCEPT ![b] = NUL]
  PROVE  RunsSay(m, e, delim, p, b, w)
<1>1. /\ s \in Nat /\ e \in Nat /\ s <= e /\ e < NMEM /\ NMEM \in Nat /\ m \in Memories
      /\ m[e] = NUL /\ \A x \in s .. e - 1 : m[x] # NUL
  BY StringsAssumption DEF StringTo
<1>2. /\ p \in Nat /\ b \in Nat /\ s <= p /\ p < b /\ b <= e
      /\ m[p] \notin delim /\ \A y \in p + 1 .. b - 1 : m[y] \notin delim
      /\ b = e \/ m[b] \in delim
  BY <1>1 DEF FirstTo
<1>3. /\ w \in Memories /\ w[b] = NUL
      /\ \A x \in 0 .. NMEM - 1 : x # b => w[x] = m[x]
  BY <1>1, <1>2 DEF Memories, Byte
<1>4. StringTo(w, p, b)
  <2>1. \A x \in p .. b - 1 : x \in s .. e - 1 /\ x \in 0 .. NMEM - 1 /\ x # b
    BY <1>1, <1>2
  <2>2. \A x \in p .. b - 1 : w[x] # NUL
    BY <1>1, <1>3, <2>1
  <2> QED BY <1>1, <1>2, <1>3, <2>2 DEF StringTo
<1>5. b < e => StringTo(w, b + 1, e)
  <2> SUFFICES ASSUME b < e PROVE StringTo(w, b + 1, e)
    OBVIOUS
  <2>1. \A x \in b + 1 .. e - 1 : x \in s .. e - 1 /\ x \in 0 .. NMEM - 1 /\ x # b
    BY <1>1, <1>2
  <2>2. \A x \in b + 1 .. e - 1 : w[x] # NUL
    BY <1>1, <1>3, <2>1
  <2>3. w[e] = NUL
    BY <1>1, <1>2, <1>3
  <2>4. b + 1 \in Nat /\ b + 1 <= e
    BY <1>1, <1>2
  <2> QED BY <1>1, <1>3, <2>2, <2>3, <2>4 DEF StringTo
<1>6. ASSUME NEW y \in Nat, y > b
      PROVE  RunFrom(m, delim, e, y) = RunFrom(w, delim, e, y)
  <2>1. \A k \in 0 .. NMEM : Inside(m, delim, e, y + k) <=> Inside(w, delim, e, y + k)
    <3>1. \A k \in 0 .. NMEM : y + k < e => y + k \in 0 .. NMEM - 1 /\ y + k # b
      BY <1>1, <1>2, <1>6
    <3> QED BY <1>3, <3>1 DEF Inside
  <2>2. {k \in 0 .. NMEM : ~Inside(m, delim, e, y + k)} = {k \in 0 .. NMEM : ~Inside(w, delim, e, y + k)}
    BY <2>1
  <2> DEFINE N == Min({k \in 0 .. NMEM : ~Inside(m, delim, e, y + k)})
             S == {k \in 0 .. NMEM : ~Inside(m, delim, e, y + k)}
  <2>3. N \in Nat /\ \A q \in 1 .. N : y + q - 1 < e
    <3>1. NMEM \in S /\ S \in SUBSET Nat
      <4>1. ~(y + NMEM < e)
        BY <1>1
      <4> QED BY <1>1, <4>1 DEF Inside
    <3>2. N \in S /\ \A k \in S : N <= k
      <4> HIDE DEF S
      <4>1. Min(S) \in S /\ \A k \in S : Min(S) <= k
        BY <3>1, LeastNumber
      <4> QED BY <4>1 DEF S
    <3>3. N \in Nat
      BY <1>1, <3>2
    <3>4. ASSUME NEW q \in 1 .. N
          PROVE  y + q - 1 < e
      <4>1. q - 1 \in 0 .. NMEM /\ ~(N <= q - 1)
        BY <1>1, <3>2, <3>3
      <4>2. q - 1 \notin S
        <5> HIDE DEF N, S
        <5> QED BY <3>2, <4>1
      <4>3. Inside(m, delim, e, y + (q - 1))
        BY <4>1, <4>2
      <4>4. y + (q - 1) = y + q - 1
        BY <3>3
      <4> QED BY <4>3, <4>4 DEF Inside
    <3> QED BY <3>3, <3>4
  <2> HIDE DEF N, S
  <2>4. \A q \in 1 .. N : m[y + q - 1] = w[y + q - 1]
    <3>1. \A q \in 1 .. N : y + q - 1 \in 0 .. NMEM - 1 /\ y + q - 1 # b
      BY <1>1, <1>2, <1>6, <2>3
    <3> QED BY <1>3, <3>1
  <2>5. RunFrom(m, delim, e, y) = [q \in 1 .. N |-> m[y + q - 1]]
    BY DEF RunFrom, N
  <2>6. RunFrom(w, delim, e, y) = [q \in 1 .. N |-> w[y + q - 1]]
    BY <2>2 DEF RunFrom, N
  <2> QED BY <2>4, <2>5, <2>6
<1>7. RunFrom(m, delim, e, p) = TextIn(w, p)
  <2> DEFINE S == {k \in 0 .. NMEM : ~Inside(m, delim, e, p + k)}
  <2>1. S \in SUBSET Nat /\ b - p \in S
    <3>1. p + (b - p) = b /\ b - p \in 0 .. NMEM
      BY <1>1, <1>2
    <3>2. ~Inside(m, delim, e, b)
      BY <1>1, <1>2 DEF Inside
    <3> QED BY <1>1, <3>1, <3>2
  <2>2. \A k \in S : b - p <= k
    <3> SUFFICES ASSUME NEW k \in 0 .. NMEM, k < b - p PROVE Inside(m, delim, e, p + k)
      BY <1>1, <1>2
    <3>1. p + k = p \/ p + k \in p + 1 .. b - 1
      BY <1>1, <1>2
    <3>2. p + k < e
      BY <1>1, <1>2
    <3> QED BY <1>2, <3>1, <3>2 DEF Inside
  <2>3. Min(S) = b - p
    <3> HIDE DEF S
    <3> QED BY <2>1, <2>2, LeastIs
  <2>4. RunFrom(m, delim, e, p) = [q \in 1 .. b - p |-> m[p + q - 1]]
    BY <2>3 DEF RunFrom
  <2>5. TextIn(w, p) = [q \in 1 .. b - p |-> w[p + q - 1]]
    <3>1. TextSays(w, p, b)
      BY <1>4, TextTo
    <3> QED BY <3>1 DEF TextSays
  <2>6. \A q \in 1 .. b - p : m[p + q - 1] = w[p + q - 1]
    <3>1. \A q \in 1 .. b - p : p + q - 1 \in 0 .. NMEM - 1 /\ p + q - 1 # b
      BY <1>1, <1>2
    <3> QED BY <1>3, <3>1
  <2> QED BY <2>4, <2>5, <2>6
<1> QED BY <1>4, <1>5, <1>6, <1>7 DEF RunsSay

StartsSay(m, s, e, delim, p, b, w) ==
  /\ p \in Starts(m, s, e, delim) /\ \A x \in Starts(m, s, e, delim) : p <= x
  /\ Starts(m, s, e, delim) \ {p} = Starts(w, b + 1, e, delim)
  /\ \A x \in Starts(w, b + 1, e, delim) : x \in Nat /\ x > b

LEMMA FirstStarts ==
  ASSUME NEW m, NEW s, NEW e, StringTo(m, s, e), NEW delim, NEW p, NEW b,
         FirstTo(m, s, e, delim, p, b), NEW w, w = [m EXCEPT ![b] = NUL]
  PROVE  StartsSay(m, s, e, delim, p, b, w)
<1>1. /\ s \in Nat /\ e \in Nat /\ s <= e /\ e < NMEM /\ NMEM \in Nat /\ m \in Memories
  BY StringsAssumption DEF StringTo
<1>2. /\ p \in Nat /\ b \in Nat /\ s <= p /\ p < b /\ b <= e
      /\ m[p] \notin delim /\ \A y \in s .. p - 1 : m[y] \in delim
      /\ \A y \in p + 1 .. b - 1 : m[y] \notin delim
      /\ b = e \/ m[b] \in delim
  BY <1>1 DEF FirstTo
<1>3. \A x \in 0 .. NMEM - 1 : x # b => w[x] = m[x]
  BY <1>1, <1>2 DEF Memories
<1>4. p \in Starts(m, s, e, delim)
  <2>1. p \in s .. e - 1 /\ (p = s \/ p - 1 \in s .. p - 1)
    BY <1>1, <1>2
  <2> QED BY <1>2, <2>1 DEF Starts
<1>5. ASSUME NEW x \in Starts(m, s, e, delim), x # p
      PROVE  x > b /\ x \in Starts(w, b + 1, e, delim)
  <2>1. x \in s .. e - 1 /\ m[x] \notin delim /\ (x = s \/ m[x - 1] \in delim)
    BY DEF Starts
  <2>2. x \notin s .. p - 1
    BY <1>2, <2>1
  <2>3. x > p
    BY <1>1, <1>2, <1>5, <2>1, <2>2
  <2>4. m[x - 1] \in delim
    BY <1>1, <1>2, <2>1, <2>3
  <2>5. x - 1 # p /\ x - 1 \notin p + 1 .. b - 1
    BY <1>2, <2>4
  <2>6. x # b
    BY <1>1, <1>2, <2>1
  <2>7. x > b /\ x \in b + 1 .. e - 1 /\ x \in 0 .. NMEM - 1 /\ x - 1 \in 0 .. NMEM - 1
    BY <1>1, <1>2, <2>1, <2>3, <2>5, <2>6
  <2>8. w[x] = m[x] /\ (x = b + 1 \/ w[x - 1] = m[x - 1])
    <3>1. x = b + 1 \/ x - 1 # b
      BY <1>1, <1>2, <2>1
    <3> QED BY <1>3, <2>6, <2>7, <3>1
  <2> QED BY <2>1, <2>4, <2>7, <2>8 DEF Starts
<1>6. ASSUME NEW x \in Starts(w, b + 1, e, delim)
      PROVE  x \in Nat /\ x > b /\ x # p /\ x \in Starts(m, s, e, delim)
  <2>1. x \in b + 1 .. e - 1 /\ w[x] \notin delim /\ (x = b + 1 \/ w[x - 1] \in delim)
    BY DEF Starts
  <2>2. /\ x \in Nat /\ x > b /\ x # p /\ x # b /\ x \in s .. e - 1 /\ b < e
        /\ x \in 0 .. NMEM - 1 /\ x - 1 \in 0 .. NMEM - 1
    BY <1>1, <1>2, <2>1
  <2>3. w[x] = m[x]
    BY <1>3, <2>2
  <2>4. CASE x = b + 1
    <3>1. m[x - 1] \in delim
      <4>1. x - 1 = b /\ b # e
        BY <1>1, <1>2, <2>2, <2>4
      <4> QED BY <1>2, <4>1
    <3> QED BY <2>1, <2>2, <2>3, <3>1 DEF Starts
  <2>5. CASE x # b + 1
    <3>1. x - 1 # b
      BY <1>2, <2>2, <2>5
    <3>2. w[x - 1] = m[x - 1]
      BY <1>3, <2>2, <3>1
    <3> QED BY <2>1, <2>2, <2>3, <2>5, <3>2 DEF Starts
  <2> QED BY <2>2, <2>4, <2>5
<1>7. \A x \in Starts(m, s, e, delim) : p <= x
  <2> TAKE x \in Starts(m, s, e, delim)
  <2>1. x = p \/ x > b
    BY <1>5
  <2>2. x \in Int
    BY <1>1 DEF Starts
  <2> QED BY <1>2, <2>1, <2>2
<1> QED BY <1>4, <1>5, <1>6, <1>7 DEF StartsSay

(* The tokens still to come, when on is where strtok goes on.              *)
Left(m, on, delim) == IF on = NULL THEN << >> ELSE TokensIn(m, on, delim)
Onward(b, e) == IF b = e THEN NULL ELSE b + 1

AheadSays(m, s, e, delim, p, b, w) ==
  LET t == TokensIn(m, s, delim)
      u == Left(w, Onward(b, e), delim)
  IN  /\ Len(u) \in Nat /\ Len(t) = Len(u) + 1
      /\ t[1] = TextIn(w, p) /\ \A n \in 1 .. Len(u) : t[n + 1] = u[n]

LEMMA TokenAhead ==
  ASSUME NEW m, NEW s, NEW e, StringTo(m, s, e), NEW delim, NEW p, NEW b,
         FirstTo(m, s, e, delim, p, b), NEW w, w = [m EXCEPT ![b] = NUL]
  PROVE  AheadSays(m, s, e, delim, p, b, w)
<1>a. TokensSay(m, s, e, delim)
  BY TokensTo
<1>b. StartsSay(m, s, e, delim, p, b, w)
  BY FirstStarts
<1>c. RunsSay(m, e, delim, p, b, w)
  BY FirstRun
<1> DEFINE S == Starts(m, s, e, delim)
           T == Starts(w, b + 1, e, delim)
           c == Cardinality(T)
<1>1. /\ S \in SUBSET Nat /\ IsFiniteSet(S)
      /\ TokensIn(m, s, delim) = [n \in 1 .. Cardinality(S) |-> RunFrom(m, delim, e, Nth(S, n))]
  BY <1>a DEF TokensSay
<1>2. /\ p \in S /\ \A x \in S : p <= x
      /\ S \ {p} = T /\ \A x \in T : x \in Nat /\ x > b
  BY <1>b DEF StartsSay
<1>3. /\ StringTo(w, p, b) /\ RunFrom(m, delim, e, p) = TextIn(w, p)
      /\ \A y \in Nat : y > b => RunFrom(m, delim, e, y) = RunFrom(w, delim, e, y)
      /\ b < e => StringTo(w, b + 1, e)
  BY <1>c DEF RunsSay
<1> HIDE DEF S, T
<1>4. /\ c \in Nat /\ Cardinality(S) = c + 1 /\ Nth(S, 1) = p
      /\ \A n \in 1 .. c : Nth(T, n) \in T /\ Nth(S, n + 1) = Nth(T, n)
  BY <1>1, <1>2, NthOfRest
<1> HIDE DEF c
<1> PICK t : t = TokensIn(m, s, delim)
  OBVIOUS
<1>5. /\ t = [n \in 1 .. c + 1 |-> RunFrom(m, delim, e, Nth(S, n))]
      /\ t[1] = TextIn(w, p)
      /\ \A n \in 1 .. c : t[n + 1] = RunFrom(w, delim, e, Nth(T, n))
  <2>1. t = [n \in 1 .. c + 1 |-> RunFrom(m, delim, e, Nth(S, n))]
    BY <1>1, <1>4
  <2>2. 1 \in 1 .. c + 1 /\ \A n \in 1 .. c : n + 1 \in 1 .. c + 1
    BY <1>4
  <2>3. t[1] = TextIn(w, p)
    BY <1>3, <1>4, <2>1, <2>2
  <2>4. ASSUME NEW n \in 1 .. c
        PROVE  t[n + 1] = RunFrom(w, delim, e, Nth(T, n))
    <3>1. t[n + 1] = RunFrom(m, delim, e, Nth(T, n))
      BY <1>4, <2>1, <2>2
    <3>2. Nth(T, n) \in Nat /\ Nth(T, n) > b
      BY <1>2, <1>4
    <3> QED BY <1>3, <3>1, <3>2
  <2> QED BY <2>1, <2>3, <2>4
<1> PICK u : u = Left(w, Onward(b, e), delim)
  OBVIOUS
<1>6. Len(u) = c /\ \A n \in 1 .. c : t[n + 1] = u[n]
  <2>1. CASE b = e
    <3>1. b \in Nat /\ ~(b + 1 <= e - 1)
      BY <1>3, <2>1 DEF StringTo
    <3>2. T = {}
      BY <1>3, <2>1, <3>1 DEF T, Starts, StringTo
    <3>3. c = 0
      BY <3>2, FS_EmptySet DEF c
    <3>4. u = << >>
      BY <2>1 DEF Left, Onward
    <3> QED BY <3>3, <3>4
  <2>2. CASE b # e
    <3>1. b < e /\ b + 1 # NULL
      <4>1. b \in Nat /\ e \in Nat /\ b <= e
        BY DEF FirstTo, StringTo
      <4> QED BY <2>2, <4>1 DEF NULL
    <3>2. u = TokensIn(w, b + 1, delim)
      BY <2>2, <3>1 DEF Left, Onward
    <3>3. u = [n \in 1 .. c |-> RunFrom(w, delim, e, Nth(T, n))]
      <4>1. StringTo(w, b + 1, e)
        BY <1>3, <3>1
      <4>2. TokensSay(w, b + 1, e, delim)
        BY <4>1, TokensTo
      <4> QED BY <3>2, <4>2 DEF c, T, TokensSay
    <3>4. \A n \in 1 .. c : u[n] = RunFrom(w, delim, e, Nth(T, n))
      BY <3>3
    <3>5. Len(u) = c
      BY <1>4, <3>3
    <3> QED BY <1>5, <3>4, <3>5
  <2> QED BY <2>1, <2>2
<1>7. Len(t) = c + 1
  BY <1>4, <1>5
<1>8. /\ Len(u) \in Nat /\ Len(t) = Len(u) + 1
      /\ t[1] = TextIn(w, p) /\ \A n \in 1 .. Len(u) : t[n + 1] = u[n]
  BY <1>4, <1>5, <1>6, <1>7
<1> QED BY <1>8 DEF AheadSays

(* Where strtok's walks stop: behind leading delimiters, and at the one    *)
(* after the token or at the end.                                          *)
Stops(m, s, e, S, p) == p \in s .. e /\ m[p] \in S /\ \A y \in s .. p - 1 : m[y] \notin S

LEMMA Walk ==
  ASSUME NEW s, NEW e, StringTo(mem, s, e), NEW S, NUL \in S, NEW p, p = s + Min(Offsets(s, S))
  PROVE  Stops(mem, s, e, S, p)
<1>1. s \in Nat /\ e \in Nat /\ s <= e /\ e < NMEM /\ NMEM \in Nat /\ mem[e] = NUL
  BY StringsAssumption DEF StringTo
<1>2. e - s \in Offsets(s, S) /\ Offsets(s, S) \in SUBSET Nat
  <2>1. e - s \in 0 .. NMEM - 1 - s /\ s + (e - s) = e
    BY <1>1
  <2> QED BY <1>1, <2>1 DEF Offsets
<1>3. PICK k : k = Min(Offsets(s, S))
  OBVIOUS
<1>4. k \in Offsets(s, S) /\ \A q \in Offsets(s, S) : k <= q
  BY <1>2, <1>3, LeastNumber
<1>5. k \in Nat /\ k <= e - s /\ mem[s + k] \in S
  BY <1>1, <1>2, <1>4 DEF Offsets
<1>6. ASSUME NEW y \in s .. p - 1
      PROVE  mem[y] \notin S
  <2>1. y - s \in 0 .. NMEM - 1 - s /\ ~(k <= y - s) /\ s + (y - s) = y
    BY <1>1, <1>3, <1>5
  <2> QED BY <1>4, <2>1 DEF Offsets
<1>7. p \in s .. e /\ p = s + k
  BY <1>1, <1>3, <1>5
<1> QED BY <1>5, <1>6, <1>7 DEF Stops

Between(s, delim, p, b) ==
  /\ p = s + Min(Offsets(s, Byte \ delim))
  /\ b = p + 1 + Min(Offsets(p + 1, delim \cup {NUL}))
Splits(s, e, delim, p, b) ==
  /\ mem[p] = NUL => \A x \in s .. e - 1 : mem[x] \in delim
  /\ mem[p] # NUL => FirstTo(mem, s, e, delim, p, b) /\ (mem[b] = NUL <=> b = e)

LEMMA TokenAt ==
  ASSUME NEW s, NEW e, StringTo(mem, s, e), NEW delim \in SUBSET Chars,
         NEW p, NEW b, Between(s, delim, p, b)
  PROVE  Splits(s, e, delim, p, b)
<1>1. /\ s \in Nat /\ e \in Nat /\ s <= e /\ e < NMEM /\ NMEM \in Nat /\ mem \in Memories
      /\ mem[e] = NUL /\ \A x \in s .. e - 1 : mem[x] # NUL
  BY StringsAssumption DEF StringTo
<1>2. NUL \notin delim /\ NUL \in Byte \ delim
  BY StringsAssumption DEF NUL, Byte
<1>3. Stops(mem, s, e, Byte \ delim, p)
  BY <1>2, Walk DEF Between
<1>4. p \in s .. e /\ mem[p] \notin delim /\ \A y \in s .. p - 1 : mem[y] \in delim
  <2>1. \A y \in s .. e : y \in 0 .. NMEM - 1 /\ mem[y] \in Byte
    BY <1>1 DEF Memories
  <2>2. p \in s .. e /\ mem[p] \in Byte \ delim /\ \A y \in s .. p - 1 : mem[y] \notin Byte \ delim
    BY <1>3 DEF Stops
  <2>3. \A y \in s .. p - 1 : y \in s .. e
    BY <1>1, <2>2
  <2> QED BY <2>1, <2>2, <2>3
<1>5. CASE mem[p] = NUL
  <2>1. p \notin s .. e - 1
    BY <1>1, <1>5
  <2>2. p = e
    BY <1>1, <1>4, <2>1
  <2> QED BY <1>4, <1>5, <2>2 DEF Splits
<1>6. CASE mem[p] # NUL
  <2>1. p \in s .. e - 1
    BY <1>1, <1>4, <1>6
  <2>2. StringTo(mem, p + 1, e)
    <3>1. p + 1 \in Nat /\ p + 1 <= e /\ \A x \in p + 1 .. e - 1 : x \in s .. e - 1
      BY <1>1, <2>1
    <3> QED BY <1>1, <3>1 DEF StringTo
  <2>3. Stops(mem, p + 1, e, delim \cup {NUL}, b)
    BY <2>2, Walk DEF Between
  <2>4. /\ b \in p + 1 .. e /\ mem[b] \in delim \cup {NUL}
        /\ \A y \in p + 1 .. b - 1 : mem[y] \notin delim
    BY <2>3 DEF Stops
  <2>5. mem[b] = NUL <=> b = e
    <3>1. b # e => b \in s .. e - 1
      BY <1>1, <2>1, <2>4
    <3> QED BY <1>1, <3>1
  <2>6. FirstTo(mem, s, e, delim, p, b)
    BY <1>4, <2>1, <2>4, <2>5 DEF FirstTo
  <2> QED BY <1>6, <2>5, <2>6 DEF Splits
<1> QED BY <1>5, <1>6

(* What the memory, strtok's place and the tokens given so far say of the  *)
(* texts there were in the string at first.                                *)
Earlier(m, on, ts) ==
  \A k \in 1 .. Len(ts) : \E e : StringTo(m, ts[k], e) /\ (on # NULL => e < on)
Ahead(m, on) == on # NULL => \E e : StringTo(m, on, e)
Continued(m, on, ts, delim, t) ==
  LET u == Left(m, on, delim)
  IN  /\ Len(u) \in Nat /\ Len(t) = Len(ts) + Len(u)
      /\ \A k \in 1 .. Len(ts) : t[k] = TextIn(m, ts[k])
      /\ \A n \in 1 .. Len(u) : t[Len(ts) + n] = u[n]

LEMMA Untouched ==
  ASSUME NEW m, NEW y, NEW x, StringTo(m, y, x), NEW b \in Nat, x < b, b < NMEM,
         NEW w, w = [m EXCEPT ![b] = NUL]
  PROVE  StringTo(w, y, x) /\ TextIn(w, y) = TextIn(m, y)
<1>1. y \in Nat /\ x \in Nat /\ y <= x /\ x < NMEM /\ NMEM \in Nat /\ m \in Memories
  BY StringsAssumption DEF StringTo
<1>2. w \in Memories /\ \A z \in 0 .. NMEM - 1 : z # b => w[z] = m[z]
  BY <1>1 DEF Memories, Byte
<1>3. \A z \in y .. x : w[z] = m[z]
  <2>1. \A z \in y .. x : z \in 0 .. NMEM - 1 /\ z # b
    BY <1>1
  <2> QED BY <1>2, <2>1
<1>4. StringTo(w, y, x)
  <2>1. x \in y .. x /\ \A z \in y .. x - 1 : z \in y .. x
    BY <1>1
  <2> QED BY <1>1, <1>2, <1>3, <2>1 DEF StringTo
<1>5. TextSays(m, y, x) /\ TextSays(w, y, x)
  BY <1>4, TextTo
<1>6. \A q \in 1 .. x - y : m[y + q - 1] = w[y + q - 1]
  <2>1. \A q \in 1 .. x - y : y + q - 1 \in y .. x
    BY <1>1
  <2> QED BY <1>3, <2>1
<1>7. TextIn(m, y) = [q \in 1 .. x - y |-> m[y + q - 1]] /\ TextIn(w, y) = [q \in 1 .. x - y |-> w[y + q - 1]]
  BY <1>5 DEF TextSays
<1> QED BY <1>4, <1>6, <1>7

FoundSays(m, on, ts, delim, t) ==
  ts \in Seq(Nat) /\ Ahead(m, on) /\ Earlier(m, on, ts) /\ Continued(m, on, ts, delim, t)

(* One more token: it and the earlier ones are there, and so is the rest.  *)
LEMMA TokenFound ==
  ASSUME NEW m, NEW s, NEW e, StringTo(m, s, e), NEW delim, NEW p, NEW b,
         FirstTo(m, s, e, delim, p, b), NEW w, w = [m EXCEPT ![b] = NUL],
         NEW ts \in Seq(Nat), NEW t, Earlier(m, s, ts), Continued(m, s, ts, delim, t)
  PROVE  FoundSays(w, Onward(b, e), Append(ts, p), delim, t)
<1>1. /\ s \in Nat /\ e \in Nat /\ s <= e /\ e < NMEM /\ NMEM \in Nat
      /\ p \in Nat /\ b \in Nat /\ s <= p /\ p < b /\ b <= e
  <2>1. s \in Nat /\ e \in Nat /\ s <= e /\ e < NMEM /\ NMEM \in Nat
    BY StringsAssumption DEF StringTo
  <2>2. p \in s .. e - 1 /\ b \in p + 1 .. e
    BY DEF FirstTo
  <2> QED BY <2>1, <2>2
<1>2. StringTo(w, p, b) /\ (b < e => StringTo(w, b + 1, e))
  <2>1. RunsSay(m, e, delim, p, b, w)
    BY FirstRun
  <2> QED BY <2>1 DEF RunsSay
<1>3. Ahead(w, Onward(b, e))
  BY <1>1, <1>2 DEF Ahead, Onward
<1> PICK on : on = Onward(b, e)
  OBVIOUS
<1>4. on # NULL => b < on
  BY <1>1 DEF Onward
<1> PICK us : us = Append(ts, p)
  OBVIOUS
<1>5. /\ us \in Seq(Nat) /\ Len(ts) \in Nat /\ Len(us) = Len(ts) + 1
      /\ us[Len(ts) + 1] = p /\ \A k \in 1 .. Len(ts) : us[k] = ts[k]
  BY <1>1
<1>6. ASSUME NEW k \in 1 .. Len(ts)
      PROVE  \E x : StringTo(w, ts[k], x) /\ x < b /\ TextIn(w, ts[k]) = TextIn(m, ts[k])
  <2>1. s # NULL
    BY <1>1 DEF NULL
  <2>2. PICK x : StringTo(m, ts[k], x) /\ x < s
    BY <2>1 DEF Earlier
  <2>3. x < b /\ b < NMEM
    <3>1. x \in Nat
      BY <2>2 DEF StringTo
    <3> QED BY <1>1, <2>2, <3>1
  <2> PICK y : y = ts[k]
    OBVIOUS
  <2>4. StringTo(m, y, x) /\ b \in Nat /\ x < b /\ b < NMEM
    BY <1>1, <2>2, <2>3
  <2>5. StringTo(w, y, x) /\ TextIn(w, y) = TextIn(m, y)
    BY <2>4, Untouched
  <2> QED BY <2>3, <2>5
<1>7. Earlier(w, on, us)
  <2> SUFFICES ASSUME NEW k \in 1 .. Len(us)
               PROVE  \E x : StringTo(w, us[k], x) /\ (on # NULL => x < on)
    BY DEF Earlier
  <2>1. CASE k = Len(ts) + 1
    BY <1>2, <1>4, <1>5, <2>1
  <2>2. CASE k # Len(ts) + 1
    <3>1. k \in 1 .. Len(ts)
      BY <1>5, <2>2
    <3>2. PICK x : StringTo(w, ts[k], x) /\ x < b
      BY <1>6, <3>1
    <3>3. on # NULL => x < on
      <4>1. x \in Nat
        BY <3>2 DEF StringTo
      <4> QED BY <1>1, <3>2, <4>1 DEF Onward
    <3> QED BY <1>5, <3>1, <3>2, <3>3
  <2> QED BY <2>1, <2>2
<1> PICK v : v = TokensIn(m, s, delim)
  OBVIOUS
<1> PICK u : u = Left(w, on, delim)
  OBVIOUS
<1>8. /\ Len(u) \in Nat /\ Len(v) = Len(u) + 1
      /\ v[1] = TextIn(w, p) /\ \A n \in 1 .. Len(u) : v[n + 1] = u[n]
  <2>1. AheadSays(m, s, e, delim, p, b, w)
    BY TokenAhead
  <2> QED BY <2>1 DEF AheadSays
<1>9. /\ Len(t) = Len(ts) + Len(v)
      /\ \A k \in 1 .. Len(ts) : t[k] = TextIn(m, ts[k])
      /\ \A n \in 1 .. Len(v) : t[Len(ts) + n] = v[n]
  <2>1. s # NULL
    BY <1>1 DEF NULL
  <2>2. Left(m, s, delim) = v
    BY <2>1 DEF Left
  <2> QED BY <2>2 DEF Continued
<1>10. Continued(w, on, us, delim, t)
  <2>1. Len(t) = Len(us) + Len(u)
    BY <1>5, <1>8, <1>9
  <2>2. ASSUME NEW k \in 1 .. Len(us)
        PROVE  t[k] = TextIn(w, us[k])
    <3>1. CASE k = Len(ts) + 1
      <4>1. t[Len(ts) + 1] = v[1]
        <5>1. 1 \in 1 .. Len(v)
          BY <1>8
        <5> QED BY <1>9, <5>1
      <4> QED BY <1>5, <1>8, <3>1, <4>1
    <3>2. CASE k # Len(ts) + 1
      <4>1. k \in 1 .. Len(ts)
        BY <1>5, <3>2
      <4> QED BY <1>5, <1>6, <1>9, <4>1
    <3> QED BY <3>1, <3>2
  <2>3. ASSUME NEW n \in 1 .. Len(u)
        PROVE  t[Len(us) + n] = u[n]
    <3>1. n + 1 \in 1 .. Len(v) /\ Len(us) + n = Len(ts) + (n + 1)
      BY <1>5, <1>8
    <3>2. t[Len(ts) + (n + 1)] = v[n + 1]
      BY <1>9, <3>1
    <3> QED BY <1>8, <3>1, <3>2
  <2> QED BY <1>8, <2>1, <2>2, <2>3 DEF Continued
<1> QED BY <1>3, <1>5, <1>7, <1>10 DEF FoundSays

(* Nobody writes while a string is split, and what strtok gave stays.      *)
TokInv ==
  /\ toks \in Seq(Nat) /\ expected.delim \in SUBSET Chars
  /\ ret = NULL => last = NULL
  /\ expected = NoTokens => ret = NULL /\ toks = << >>
  /\ Ahead(mem, last) /\ Earlier(mem, last, toks)
  /\ Continued(mem, last, toks, expected.delim, expected.texts)

LEMMA TokInvNext ==
  /\ toks' \in Seq(Nat) /\ expected'.delim \in SUBSET Chars
  /\ ret' = NULL => last' = NULL
  /\ expected' = NoTokens => ret' = NULL /\ toks' = << >>
  /\ Ahead(mem', last') /\ Earlier(mem', last', toks')
  /\ Continued(mem', last', toks', expected'.delim, expected'.texts)
  => TokInv'
BY DEF TokInv

(* One call of strtok with what is left of the string at s.                *)
LEMMA TokenStep ==
  ASSUME NEW s, NEW e, StringTo(mem, s, e), NEW delim \in SUBSET Chars, Token(s, delim),
         toks \in Seq(Nat), NEW t, Earlier(mem, s, toks), Continued(mem, s, toks, delim, t)
  PROVE  /\ toks' \in Seq(Nat) /\ (ret' = NULL => last' = NULL)
         /\ Ahead(mem', last') /\ Earlier(mem', last', toks')
         /\ Continued(mem', last', toks', delim, t)
<1> PICK p : p = s + Min(Offsets(s, Byte \ delim))
  OBVIOUS
<1> PICK b : b = p + 1 + Min(Offsets(p + 1, delim \cup {NUL}))
  OBVIOUS
<1>1. /\ mem[p] = NUL => \A x \in s .. e - 1 : mem[x] \in delim
      /\ mem[p] # NUL => FirstTo(mem, s, e, delim, p, b) /\ (mem[b] = NUL <=> b = e)
  <2>1. Between(s, delim, p, b)
    BY DEF Between
  <2>2. Splits(s, e, delim, p, b)
    BY <2>1, TokenAt
  <2> QED BY <2>2 DEF Splits
<1>2. \/ /\ mem[p] = NUL
         /\ ret' = NULL /\ last' = NULL
         /\ UNCHANGED <<mem, toks>>
      \/ /\ mem[p] # NUL
         /\ ret' = p /\ toks' = Append(toks, p)
         /\ IF mem[b] = NUL THEN last' = NULL /\ UNCHANGED mem
            ELSE last' = b + 1 /\ mem' = [mem EXCEPT ![b] = NUL]
  BY DEF Token, Resumes
<1>3. s \in Nat /\ s # NULL /\ mem \in Memories
  BY DEF StringTo, NULL
<1>4. CASE mem[p] = NUL
  <2>1. TokensIn(mem, s, delim) = << >>
    BY <1>1, <1>4, NoneLeft
  <2>2. mem' = mem /\ toks' = toks /\ ret' = NULL /\ last' = NULL
    BY <1>2, <1>4
  <2>3. Ahead(mem, NULL) /\ Earlier(mem, NULL, toks)
    BY <1>3 DEF Ahead, Earlier
  <2>4. Left(mem, s, delim) = Left(mem, NULL, delim)
    BY <1>3, <2>1 DEF Left
  <2>5. Continued(mem, NULL, toks, delim, t)
    BY <2>4 DEF Continued
  <2> QED BY <2>2, <2>3, <2>5
<1>5. CASE mem[p] # NUL
  <2>1. FirstTo(mem, s, e, delim, p, b)
    BY <1>1, <1>5
  <2> PICK w : w = [mem EXCEPT ![b] = NUL]
    OBVIOUS
  <2>2. /\ Append(toks, p) \in Seq(Nat)
        /\ Ahead(w, Onward(b, e)) /\ Earlier(w, Onward(b, e), Append(toks, p))
        /\ Continued(w, Onward(b, e), Append(toks, p), delim, t)
    <3>1. FoundSays(w, Onward(b, e), Append(toks, p), delim, t)
      BY <2>1, TokenFound
    <3> QED BY <3>1 DEF FoundSays
  <2>3. ret' = p /\ p # NULL /\ toks' = Append(toks, p)
    <3>1. p \in s .. e - 1 /\ e \in Nat
      BY <2>1 DEF FirstTo, StringTo
    <3>2. p # NULL
      BY <1>3, <3>1 DEF NULL
    <3> QED BY <1>2, <1>5, <3>2
  <2>4. last' = Onward(b, e) /\ mem' = w
    <3>1. CASE b = e
      <4>1. mem[b] = NUL
        BY <1>1, <1>5, <3>1
      <4>2. w = mem
        BY <1>3, <4>1 DEF Memories
      <4> QED BY <1>2, <1>5, <3>1, <4>1, <4>2 DEF Onward
    <3>2. CASE b # e
      BY <1>1, <1>2, <1>5, <3>2 DEF Onward
    <3> QED BY <3>1, <3>2
  <2> QED BY <2>2, <2>3, <2>4
<1> QED BY <1>4, <1>5

LEMMA TokKeeps ==
  StrInv /\ TokInv /\ [StrNext]_strvars => TokInv'
<1> SUFFICES ASSUME StrInv, TokInv, [StrNext]_strvars
             PROVE  TokInv'
  OBVIOUS
<1>1. CASE expected = NoTokens /\ UNCHANGED <<last, ret, toks, expected>>
  <2>1. toks = << >> /\ last = NULL /\ expected.delim = {} /\ expected.texts = << >>
    BY <1>1 DEF TokInv, NoTokens
  <2>2. Ahead(mem', NULL) /\ Earlier(mem', NULL, << >>) /\ Continued(mem', NULL, << >>, {}, << >>)
    BY DEF Ahead, Earlier, Continued, Left
  <2> QED BY <1>1, <2>1, <2>2, TokInvNext DEF TokInv
<1>2. CASE Obtain
  <2>1. mem = << >> /\ UNCHANGED <<last, ret, toks, expected>> /\ last = NULL
    BY <1>2 DEF Obtain, StrInv
  <2>2. toks = << >>
    <3>1. Len(toks) \in Nat /\ \A k \in 1 .. Len(toks) : FALSE
      <4>1. mem \notin Memories
        BY <2>1, SomeMemory
      <4> QED BY <4>1 DEF TokInv, Earlier, StringTo
    <3> QED BY <3>1 DEF TokInv
  <2>3. \A m : Left(m, NULL, expected.delim) = << >>
    BY DEF Left
  <2>4. Ahead(mem', NULL) /\ Earlier(mem', NULL, << >>) /\ Continued(mem', NULL, << >>, expected.delim, expected.texts)
    <3>1. Continued(mem, NULL, << >>, expected.delim, expected.texts)
      BY <2>1, <2>2 DEF TokInv
    <3> QED BY <2>3, <3>1 DEF Ahead, Earlier, Continued
  <2> QED BY <2>1, <2>2, <2>4, TokInvNext DEF TokInv
<1>3. CASE Write
  BY <1>1, <1>3 DEF Write
<1>4. ASSUME NEW s \in Addr, NEW delim \in (SUBSET Chars) \ {{}}, FirstToken(s, delim)
      PROVE  TokInv'
  <2>1. mem \in Memories
    BY NoMemory DEF StrInv
  <2>2. PICK e : StringTo(mem, s, e)
    <3>1. s \in Strs
      BY <1>4 DEF FirstToken, Strs
    <3>2. /\ s \in Nat /\ s + strlen(s) < NMEM /\ strlen(s) \in Nat
          /\ mem[s + strlen(s)] = NUL /\ \A k \in 0 .. strlen(s) - 1 : mem[s + k] \in Chars
      BY <2>1, <3>1, StringEnds
    <3>3. \A x \in s .. s + strlen(s) - 1 : mem[x] # NUL
      <4> TAKE x \in s .. s + strlen(s) - 1
      <4>1. x - s \in 0 .. strlen(s) - 1 /\ s + (x - s) = x
        BY <3>2
      <4> QED BY <3>2, <4>1, StringsAssumption DEF NUL
    <3>4. StringTo(mem, s, s + strlen(s))
      BY <2>1, <3>2, <3>3 DEF StringTo
    <3> QED BY <3>4
  <2>3. toks = << >> /\ delim # {} /\ NoTokens.delim = {}
    <3>1. expected = NoTokens
      BY <1>4 DEF FirstToken
    <3>2. toks = << >>
      BY <3>1 DEF TokInv
    <3>3. NoTokens.delim = {}
      BY DEF NoTokens
    <3>4. delim # {}
      OBVIOUS
    <3> QED BY <3>2, <3>3, <3>4
  <2> PICK t : t = TokensIn(mem, s, delim)
    OBVIOUS
  <2>4. Token(s, delim) /\ expected' = [delim |-> delim, texts |-> t]
    BY <1>4, TokensAreIn DEF FirstToken
  <2>5. Earlier(mem, s, toks) /\ Continued(mem, s, toks, delim, t)
    <3>1. TokensSay(mem, s, e, delim)
      BY <2>2, TokensTo
    <3>2. Len(t) \in Nat
      <4>1. Cardinality(Starts(mem, s, e, delim)) \in Nat
        BY <3>1, FS_CardinalityType DEF TokensSay
      <4> QED BY <3>1, <4>1 DEF TokensSay
    <3>3. s # NULL
      BY <2>2 DEF StringTo, NULL
    <3>4. Left(mem, s, delim) = t
      BY <3>3 DEF Left
    <3> QED BY <2>3, <3>2, <3>4 DEF Earlier, Continued
  <2>6. /\ toks' \in Seq(Nat) /\ (ret' = NULL => last' = NULL)
        /\ Ahead(mem', last') /\ Earlier(mem', last', toks')
        /\ Continued(mem', last', toks', delim, t)
    BY <2>2, <2>4, <2>5, TokenStep DEF TokInv
  <2>7. expected'.delim = delim /\ expected'.texts = t /\ expected' # NoTokens
    BY <2>3, <2>4
  <2> QED BY <2>6, <2>7, TokInvNext
<1>5. CASE NextToken
  <2>1. ret # NULL /\ expected' = expected /\ expected # NoTokens
    BY <1>5 DEF NextToken, TokInv
  <2>2. CASE last = NULL
    <3>1. ret' = NULL /\ mem' = mem /\ last' = last /\ toks' = toks
      BY <1>5, <2>2 DEF NextToken
    <3> QED BY <2>1, <2>2, <3>1, TokInvNext DEF TokInv
  <2>3. CASE last # NULL
    <3>1. Token(last, expected.delim)
      BY <1>5, <2>3 DEF NextToken
    <3>2. PICK e : StringTo(mem, last, e)
      BY <2>3 DEF TokInv, Ahead
    <3>3. /\ toks' \in Seq(Nat) /\ (ret' = NULL => last' = NULL)
          /\ Ahead(mem', last') /\ Earlier(mem', last', toks')
          /\ Continued(mem', last', toks', expected.delim, expected.texts)
      BY <3>1, <3>2, TokenStep DEF TokInv
    <3> QED BY <2>1, <3>3, TokInvNext DEF TokInv
  <2> QED BY <2>2, <2>3
<1>6. CASE Tokenized
  <2>1. mem' = mem /\ last' = last /\ ret' = ret /\ expected' = NoTokens /\ toks' = << >> /\ ret = NULL
    BY <1>6 DEF Tokenized
  <2>2. last = NULL
    BY <2>1 DEF TokInv
  <2>3. Ahead(mem, NULL) /\ Earlier(mem, NULL, << >>) /\ Continued(mem, NULL, << >>, {}, << >>)
    BY DEF Ahead, Earlier, Continued, Left
  <2>4. NoTokens.delim = {} /\ NoTokens.texts = << >>
    BY DEF NoTokens
  <2> QED BY <2>1, <2>2, <2>3, <2>4, TokInvNext
<1>7. CASE UNCHANGED strvars
  BY <1>7, TokInvNext DEF strvars, TokInv
<1> QED BY <1>2, <1>3, <1>4, <1>5, <1>6, <1>7 DEF StrNext

(* strtok gives the tokens of its string one by one and misses none,       *)
(* whatever the delimiters and however many stand before, between and      *)
(* behind the tokens, although it writes into the string it reads: what it *)
(* has given is still there, and NULL comes only when nothing is left.     *)
THEOREM TokensCorrect == StrSpec => []TokensRight
<1>1. StrInit => TokInv
  <2> SUFFICES ASSUME StrInit PROVE TokInv
    OBVIOUS
  <2>1. /\ last = NULL /\ ret = NULL /\ toks = << >>
        /\ expected.delim = {} /\ expected.texts = << >>
    BY DEF StrInit, NoTokens
  <2>2. Ahead(mem, NULL) /\ Earlier(mem, NULL, << >>) /\ Continued(mem, NULL, << >>, {}, << >>)
    BY DEF Ahead, Earlier, Continued, Left
  <2> QED BY <2>1, <2>2 DEF TokInv
<1>2. TokInv => TokensRight
  <2> SUFFICES ASSUME TokInv PROVE TokensRight
    OBVIOUS
  <2> PICK u : u = Left(mem, last, expected.delim)
    OBVIOUS
  <2> PICK t : t = expected.texts
    OBVIOUS
  <2>1. /\ Len(u) \in Nat /\ Len(t) = Len(toks) + Len(u) /\ Len(toks) \in Nat
        /\ \A k \in 1 .. Len(toks) : t[k] = TextIn(mem, toks[k])
    BY DEF TokInv, Continued
  <2>2. ASSUME NEW k \in 1 .. Len(toks)
        PROVE  k <= Len(t) /\ Text(toks[k]) = t[k]
    BY <2>1, TokensAreIn
  <2>3. ret = NULL => Len(toks) = Len(t)
    <3> SUFFICES ASSUME ret = NULL PROVE Len(toks) = Len(t)
      OBVIOUS
    <3>1. u = << >>
      BY DEF TokInv, Left
    <3> QED BY <2>1, <3>1
  <2> QED BY <2>2, <2>3 DEF TokensRight
<1> QED BY <1>1, <1>2, TokKeeps, StrInvariant, PTL DEF StrSpec

-----------------------------------------------------------------------------
(* Numbers and text.                                                       *)

(* What one base and one number divide into is a function of its own.      *)
LEMMA PowerIs ==
  ASSUME NEW b \in Nat
  PROVE  /\ Power(b, 0) = 1
         /\ \A k \in Nat : Power(b, k) \in Nat /\ Power(b, k + 1) = b * Power(b, k)
<1> DEFINE p[n \in Nat] == IF n = 0 THEN 1 ELSE b * p[n - 1]
           IsPower(f) == f = [n \in Nat |-> IF n = 0 THEN 1 ELSE b * f[n - 1]]
           step == [n \in Nat \ {0} |-> [c \in Nat |-> b * c]]
<1>1. step \in Steps(Nat) /\ \A n \in Nat, c \in Nat : step[n + 1][c] = b * c
  <2>1. \A n \in Nat : n + 1 \in Nat \ {0}
    OBVIOUS
  <2>2. \A c \in Nat : b * c \in Nat
    OBVIOUS
  <2> QED BY <2>1, <2>2 DEF Steps
<1> HIDE DEF step
<1>2. PICK f : Continues(f, Nat, 1, step)
  <2>1. 1 \in Nat
    OBVIOUS
  <2> QED BY <1>1, <2>1, RecursionOnNumbers
<1>3. f \in [Nat -> Nat] /\ f[0] = 1 /\ \A n \in Nat : f[n + 1] = b * f[n]
  BY <1>1, <1>2 DEF Continues
<1>4. IsPower(f)
  <2>1. ASSUME NEW n \in Nat
        PROVE  f[n] = IF n = 0 THEN 1 ELSE b * f[n - 1]
    <3>1. CASE n = 0
      BY <1>3, <3>1
    <3>2. CASE n # 0
      <4>1. n - 1 \in Nat /\ (n - 1) + 1 = n
        BY <3>2
      <4> QED BY <1>3, <3>2, <4>1
    <3> QED BY <3>1, <3>2
  <2> QED BY <1>3, <2>1
<1>5. p = CHOOSE g : IsPower(g)
  OBVIOUS
<1>6. IsPower(p)
  <2> HIDE DEF IsPower, p
  <2> QED BY <1>4, <1>5
<1>7. p[0] = 1 /\ \A n \in Nat : p[n + 1] = b * p[n]
  <2> HIDE DEF p
  <2>1. \A n \in Nat : p[n] = IF n = 0 THEN 1 ELSE b * p[n - 1]
    BY <1>6
  <2>2. \A n \in Nat : n + 1 \in Nat /\ n + 1 # 0 /\ (n + 1) - 1 = n
    OBVIOUS
  <2> QED BY <2>1, <2>2
<1>8. \A k \in Nat : Power(b, k) = p[k]
  BY DEF Power
<1> HIDE DEF p
<1> DEFINE G == {k \in Nat : p[k] \in Nat}
<1>9. 0 \in G
  BY <1>7
<1>10. ASSUME NEW k \in Nat, k \in G
       PROVE  k + 1 \in G
  BY <1>7, <1>10
<1> HIDE DEF G
<1>11. \A k \in Nat : k \in G
  BY <1>9, <1>10, SetInduction
<1> QED BY <1>7, <1>8, <1>11 DEF G

LEMMA RestIs ==
  ASSUME NEW n \in Nat, NEW b \in Nat \ {0}
  PROVE  /\ Rest(n, b) \in [Nat -> Nat]
         /\ Rest(n, b)[0] = n
         /\ \A k \in Nat : Rest(n, b)[k + 1] = Rest(n, b)[k] \div b
<1> DEFINE r[k \in Nat] == IF k = 0 THEN n ELSE r[k - 1] \div b
           IsRest(f) == f = [k \in Nat |-> IF k = 0 THEN n ELSE f[k - 1] \div b]
           step == [k \in Nat \ {0} |-> [c \in Nat |-> c \div b]]
<1>1. step \in Steps(Nat) /\ \A k \in Nat, c \in Nat : step[k + 1][c] = c \div b
  <2>1. \A k \in Nat : k + 1 \in Nat \ {0}
    OBVIOUS
  <2>2. \A c \in Nat : c \div b \in Nat
    OBVIOUS
  <2> QED BY <2>1, <2>2 DEF Steps
<1> HIDE DEF step
<1>2. PICK f : Continues(f, Nat, n, step)
  BY <1>1, RecursionOnNumbers
<1>3. f \in [Nat -> Nat] /\ f[0] = n /\ \A k \in Nat : f[k + 1] = f[k] \div b
  BY <1>1, <1>2 DEF Continues
<1>4. IsRest(f)
  <2>1. ASSUME NEW k \in Nat
        PROVE  f[k] = IF k = 0 THEN n ELSE f[k - 1] \div b
    <3>1. CASE k = 0
      BY <1>3, <3>1
    <3>2. CASE k # 0
      <4>1. k - 1 \in Nat /\ (k - 1) + 1 = k
        BY <3>2
      <4> QED BY <1>3, <3>2, <4>1
    <3> QED BY <3>1, <3>2
  <2> QED BY <1>3, <2>1
<1>5. r = CHOOSE g : IsRest(g)
  OBVIOUS
<1>6. IsRest(r)
  <2> HIDE DEF IsRest, r
  <2> QED BY <1>4, <1>5
<1>7. r[0] = n /\ \A k \in Nat : r[k + 1] = r[k] \div b
  <2> HIDE DEF r
  <2>1. \A k \in Nat : r[k] = IF k = 0 THEN n ELSE r[k - 1] \div b
    BY <1>6
  <2>2. \A k \in Nat : k + 1 \in Nat /\ k + 1 # 0 /\ (k + 1) - 1 = k
    OBVIOUS
  <2> QED BY <2>1, <2>2
<1>8. Rest(n, b) = r
  BY DEF Rest
<1>9. r = [k \in Nat |-> IF k = 0 THEN n ELSE r[k - 1] \div b]
  <2> HIDE DEF r
  <2> QED BY <1>6
<1> HIDE DEF r, IsRest
<1> DEFINE G == {k \in Nat : r[k] \in Nat}
<1>10. 0 \in G
  BY <1>7
<1>11. ASSUME NEW k \in Nat, k \in G
       PROVE  k + 1 \in G
  <2>1. r[k] \in Nat /\ r[k + 1] = r[k] \div b
    BY <1>7, <1>11
  <2>2. \A c \in Nat : c \div b \in Nat
    OBVIOUS
  <2> QED BY <2>1, <2>2
<1> HIDE DEF G
<1>12. \A k \in Nat : k \in G
  BY <1>10, <1>11, SetInduction
<1>13. \A k \in Nat : r[k] \in Nat
  BY <1>12 DEF G
<1>14. r \in [Nat -> Nat]
  BY <1>9, <1>13
<1> QED BY <1>7, <1>8, <1>14

(* A number reaches the k-th power of the base when something is left of   *)
(* it after k divisions.                                                   *)
LEMMA RestPower ==
  ASSUME NEW n \in Nat, NEW b \in Nat \ {0}, NEW k \in Nat
  PROVE  \A m \in Nat : m * Power(b, k) <= n <=> m <= Rest(n, b)[k]
<1> DEFINE G == {q \in Nat : \A m \in Nat : m * Power(b, q) <= n <=> m <= Rest(n, b)[q]}
<1>0. b \in Nat
  OBVIOUS
<1>1. \A q \in Nat : Power(b, q) \in Nat /\ Power(b, q + 1) = b * Power(b, q)
  BY <1>0, PowerIs
<1>2. \A q \in Nat : Rest(n, b)[q] \in Nat /\ Rest(n, b)[q + 1] = Rest(n, b)[q] \div b
  <2>1. \A q \in Nat : Rest(n, b)[q + 1] = Rest(n, b)[q] \div b
    BY RestIs
  <2>2. Rest(n, b) \in [Nat -> Nat]
    BY RestIs
  <2> QED BY <2>1, <2>2
<1>3. 0 \in G
  <2>1. Power(b, 0) = 1 /\ Rest(n, b)[0] = n
    BY <1>0, PowerIs, RestIs
  <2> QED BY <2>1
<1>4. ASSUME NEW q \in Nat, q \in G
      PROVE  q + 1 \in G
  <2> SUFFICES ASSUME NEW m \in Nat
               PROVE  m * Power(b, q + 1) <= n <=> m <= Rest(n, b)[q + 1]
    OBVIOUS
  <2>1. PICK p \in Nat, r \in Nat : p = Power(b, q) /\ r = Rest(n, b)[q]
    BY <1>1, <1>2
  <2>2. Power(b, q + 1) = b * p /\ Rest(n, b)[q + 1] = r \div b
    BY <1>1, <1>2, <2>1
  <2>3. m * b \in Nat /\ (m * b * p <= n <=> m * b <= r)
    BY <1>4, <2>1
  <2>4. m * b <= r <=> m <= r \div b
    OBVIOUS
  <2>5. m * (b * p) = m * b * p
    OBVIOUS
  <2> QED BY <2>2, <2>3, <2>4, <2>5
<1> HIDE DEF G
<1>5. k \in G
  BY <1>3, <1>4, SetInduction
<1> QED BY <1>5 DEF G

LEMMA PowersGrow ==
  ASSUME NEW b \in Nat, b >= 2, NEW k \in Nat
  PROVE  Power(b, k) >= Power(2, k) /\ Power(2, k) >= 1
<1> DEFINE G == {q \in Nat : Power(b, q) >= Power(2, q) /\ Power(2, q) >= 1}
<1>1. 0 \in G
  BY PowerIs
<1>2. ASSUME NEW q \in Nat, q \in G
      PROVE  q + 1 \in G
  <2>1. PICK p \in Nat, r \in Nat : p = Power(b, q) /\ r = Power(2, q)
    BY PowerIs
  <2>2. Power(b, q + 1) = b * p /\ Power(2, q + 1) = 2 * r
    BY <2>1, PowerIs
  <2>3. p >= r /\ r >= 1
    BY <1>2, <2>1
  <2>4. b * p >= 2 * p
    OBVIOUS
  <2> QED BY <2>2, <2>3, <2>4
<1> HIDE DEF G
<1>3. k \in G
  BY <1>1, <1>2, SetInduction
<1> QED BY <1>3 DEF G

(* An int has an even number of values, at least four.                     *)
LEMMA ModulusIs ==
  \E h \in Nat : h >= 2 /\ MODULUS = 2 * h /\ MODULUS \div 2 = h
<1>1. WIDTH - 1 \in Nat /\ WIDTH - 2 \in Nat /\ (WIDTH - 1) + 1 = WIDTH /\ (WIDTH - 2) + 1 = WIDTH - 1
  BY NumbersAssumption
<1>2. PICK h \in Nat : h = Power(2, WIDTH - 1)
  BY <1>1, PowerIs
<1>3. MODULUS = 2 * h
  BY <1>1, <1>2, PowerIs DEF MODULUS
<1>4. h >= 2
  <2>1. PICK g \in Nat : g = Power(2, WIDTH - 2) /\ g >= 1
    BY <1>1, PowerIs, PowersGrow
  <2>2. h = 2 * g
    BY <1>1, <1>2, <2>1, PowerIs
  <2> QED BY <2>1, <2>2
<1> QED BY <1>3, <1>4

(* The digits of a number: dividing leaves nothing after them for the      *)
(* first time, and a text of len bytes has room for them and a NUL unless  *)
(* the number reaches the power of the base that needs one more.           *)
LEMMA DigitCountIs ==
  ASSUME NEW n \in 0 .. MODULUS - 1, NEW b \in Nat, b >= 2
  PROVE  /\ DigitCount(n, b) \in 1 .. WIDTH
         /\ Rest(n, b)[DigitCount(n, b)] = 0
         /\ \A q \in 1 .. DigitCount(n, b) - 1 : Rest(n, b)[q] # 0
         /\ \A len \in Nat : len > DigitCount(n, b) <=> ~\A k \in 1 .. len - 1 : Power(b, k) <= n
<1> DEFINE S == {k \in 1 .. WIDTH : Rest(n, b)[k] = 0}
<1>1. n \in Nat /\ b \in Nat \ {0} /\ WIDTH \in Nat /\ WIDTH >= 1 /\ MODULUS \in Nat
  BY ModulusIs, NumbersAssumption
<1>2. \A k \in Nat : Power(b, k) <= n <=> Rest(n, b)[k] # 0
  <2> TAKE k \in Nat
  <2>1. 1 * Power(b, k) <= n <=> 1 <= Rest(n, b)[k]
    BY <1>1, RestPower
  <2>2. Power(b, k) \in Nat /\ Rest(n, b)[k] \in Nat
    BY <1>1, PowerIs, RestIs
  <2> QED BY <2>1, <2>2
<1>3. Rest(n, b)[WIDTH] = 0
  <2>1. n < Power(2, WIDTH) /\ Power(2, WIDTH) \in Nat /\ Power(b, WIDTH) \in Nat
    <3>1. Power(2, WIDTH) \in Nat /\ Power(b, WIDTH) \in Nat
      BY <1>1, PowerIs
    <3> QED BY <3>1 DEF MODULUS
  <2>2. Power(b, WIDTH) >= Power(2, WIDTH)
    BY <1>1, PowersGrow
  <2>3. ~(Power(b, WIDTH) <= n)
    BY <1>1, <2>1, <2>2
  <2> QED BY <1>1, <1>2, <2>3
<1>4. S \in SUBSET Nat /\ WIDTH \in S
  BY <1>1, <1>3
<1>5. PICK c : c = DigitCount(n, b) /\ c \in S /\ \A k \in S : c <= k
  <2> HIDE DEF S
  <2>1. Min(S) \in S /\ \A k \in S : Min(S) <= k
    BY <1>4, LeastNumber
  <2> QED BY <2>1 DEF DigitCount, S
<1>6. c \in 1 .. WIDTH /\ c \in Nat /\ Rest(n, b)[c] = 0
  BY <1>1, <1>5
<1>7. \A q \in 1 .. c - 1 : Rest(n, b)[q] # 0
  <2> TAKE q \in 1 .. c - 1
  <2>1. q \in 1 .. WIDTH /\ ~(c <= q)
    BY <1>1, <1>6
  <2> QED BY <1>5, <2>1
<1>8. ASSUME NEW len \in Nat
      PROVE  len > c <=> ~\A k \in 1 .. len - 1 : Power(b, k) <= n
  <2>1. ASSUME len > c PROVE ~(Power(b, c) <= n) /\ c \in 1 .. len - 1
    BY <1>2, <1>6, <2>1
  <2>2. ASSUME ~(len > c), NEW k \in 1 .. len - 1 PROVE Power(b, k) <= n
    <3>1. k \in Nat /\ k \in 1 .. c - 1
      BY <1>6, <2>2
    <3> QED BY <1>2, <1>7, <3>1
  <2> QED BY <2>1, <2>2
<1> QED BY <1>5, <1>6, <1>7, <1>8

Values(v, n, t, b) ==
  v = [k \in 0 .. n |-> v[k]] /\ v[0] = 0 /\ \A k \in 1 .. n : v[k] = v[k - 1] * b + t[k]
Numbers10(v, n, t) ==
  v = [k \in 0 .. n |-> v[k]] /\ v[0] = 0 /\ \A k \in 1 .. n : v[k] = Signed(v[k - 1] * 10 + t[k])

(* The value of a text and the number atoi reads are what their recursions *)
(* say.                                                                    *)
LEMMA ValueOfIs ==
  ASSUME NEW n \in Nat, NEW t, Len(t) = n, NEW b, NEW v, Values(v, n, t, b)
  PROVE  ValueOf(t, b) = v[n]
<1> DEFINE w[k \in 0 .. Len(t)] == IF k = 0 THEN 0 ELSE w[k - 1] * b + t[k]
           IsValue(f) == f = [k \in 0 .. n |-> IF k = 0 THEN 0 ELSE f[k - 1] * b + t[k]]
<1>0. \A k \in 0 .. n : k = 0 \/ k \in 1 .. n
  OBVIOUS
<1>1. /\ v = [k \in 0 .. n |-> v[k]] /\ v[0] = 0
      /\ \A k \in 1 .. n : v[k] = v[k - 1] * b + t[k]
  BY Zenon DEF Values
<1>2. IsValue(v)
  <2>1. \A k \in 0 .. n : v[k] = IF k = 0 THEN 0 ELSE v[k - 1] * b + t[k]
    BY <1>0, <1>1
  <2> QED BY <1>1, <2>1, Zenon
<1>3. w = CHOOSE f : IsValue(f)
  OBVIOUS
<1>4. IsValue(w)
  <2> HIDE DEF IsValue, w
  <2> QED BY <1>2, <1>3
<1>5. w[0] = 0 /\ \A k \in 1 .. n : w[k] = w[k - 1] * b + t[k]
  <2> HIDE DEF w
  <2>1. \A k \in 0 .. n : w[k] = IF k = 0 THEN 0 ELSE w[k - 1] * b + t[k]
    BY <1>4
  <2>2. 0 \in 0 .. n /\ \A k \in 1 .. n : k \in 0 .. n /\ k # 0
    OBVIOUS
  <2> QED BY ONLY <2>1, <2>2
<1>6. ValueOf(t, b) = w[n]
  BY DEF ValueOf
<1> HIDE DEF w, IsValue
<1> DEFINE G == {k \in Nat : k <= n => w[k] = v[k]}
<1>7. 0 \in G
  BY <1>1, <1>5
<1>8. ASSUME NEW k \in Nat, k \in G
      PROVE  k + 1 \in G
  <2> SUFFICES ASSUME k + 1 <= n PROVE w[k + 1] = v[k + 1]
    OBVIOUS
  <2>1. k + 1 \in 1 .. n /\ (k + 1) - 1 = k /\ w[k] = v[k]
    BY <1>8
  <2>2. w[k + 1] = w[k] * b + t[k + 1] /\ v[k + 1] = v[k] * b + t[k + 1]
    BY <1>1, <1>5, <2>1
  <2> QED BY <2>1, <2>2
<1> HIDE DEF G
<1>9. n \in G
  BY <1>7, <1>8, SetInduction
<1> QED BY <1>6, <1>9 DEF G

LEMMA NumberIs ==
  ASSUME NEW t, NEW n \in Nat, Span(t, Decimal) = n, NEW v, Numbers10(v, n, t)
  PROVE  Number(t) = v[n]
<1> DEFINE w[k \in 0 .. Span(t, Decimal)] == IF k = 0 THEN 0 ELSE Signed(w[k - 1] * 10 + t[k])
           IsNumber(f) == f = [k \in 0 .. n |-> IF k = 0 THEN 0 ELSE Signed(f[k - 1] * 10 + t[k])]
<1>0. \A k \in 0 .. n : k = 0 \/ k \in 1 .. n
  OBVIOUS
<1>1. /\ v = [k \in 0 .. n |-> v[k]] /\ v[0] = 0
      /\ \A k \in 1 .. n : v[k] = Signed(v[k - 1] * 10 + t[k])
  BY Zenon DEF Numbers10
<1>2. IsNumber(v)
  <2>1. \A k \in 0 .. n : v[k] = IF k = 0 THEN 0 ELSE Signed(v[k - 1] * 10 + t[k])
    BY <1>0, <1>1
  <2> QED BY <1>1, <2>1, Zenon
<1>3. w = CHOOSE f : IsNumber(f)
  OBVIOUS
<1>4. IsNumber(w)
  <2> HIDE DEF IsNumber, w
  <2> QED BY <1>2, <1>3
<1>5. w[0] = 0 /\ \A k \in 1 .. n : w[k] = Signed(w[k - 1] * 10 + t[k])
  <2> HIDE DEF w
  <2>1. \A k \in 0 .. n : w[k] = IF k = 0 THEN 0 ELSE Signed(w[k - 1] * 10 + t[k])
    BY <1>4
  <2>2. 0 \in 0 .. n /\ \A k \in 1 .. n : k \in 0 .. n /\ k # 0
    OBVIOUS
  <2> QED BY ONLY <2>1, <2>2
<1>6. Number(t) = w[n]
  BY DEF Number
<1> HIDE DEF w, IsNumber
<1> DEFINE G == {k \in Nat : k <= n => w[k] = v[k]}
<1>7. 0 \in G
  BY <1>1, <1>5
<1>8. ASSUME NEW k \in Nat, k \in G
      PROVE  k + 1 \in G
  <2> SUFFICES ASSUME k + 1 <= n PROVE w[k + 1] = v[k + 1]
    OBVIOUS
  <2>1. k + 1 \in 1 .. n /\ (k + 1) - 1 = k /\ w[k] = v[k]
    BY <1>8
  <2>2. w[k + 1] = Signed(w[k] * 10 + t[k + 1]) /\ v[k + 1] = Signed(v[k] * 10 + t[k + 1])
    BY <1>1, <1>5, <2>1
  <2> QED BY <2>1, <2>2
<1> HIDE DEF G
<1>9. n \in G
  BY <1>7, <1>8, SetInduction
<1> QED BY <1>6, <1>9 DEF G

(* A text of characters is whole before the NUL.                           *)
LEMMA SpanLength ==
  ASSUME NEW n \in Nat, NEW t, Len(t) = n, NEW S, NEW k \in 0 .. n,
         \A q \in 1 .. k : t[q] \in S, k < n => t[k + 1] \notin S
  PROVE  Span(t, S) = k
<1> DEFINE P == {q \in 0 .. Len(t) : q < Len(t) => t[q + 1] \notin S}
<1>1. P \in SUBSET Nat /\ k \in P
  OBVIOUS
<1>2. \A q \in P : k <= q
  <2> SUFFICES ASSUME NEW q \in P, q < k PROVE FALSE
    OBVIOUS
  <2>1. q + 1 \in 1 .. k /\ q < n
    OBVIOUS
  <2> QED BY <2>1
<1> HIDE DEF P
<1>3. Min(P) = k
  BY <1>1, <1>2, LeastIs
<1> QED BY <1>3 DEF Span, P

LEMMA Divided ==
  ASSUME NEW x \in Nat, NEW b \in Nat, b > 0
  PROVE  x = (x \div b) * b + (x % b) /\ x % b \in 0 .. b - 1 /\ x \div b \in Nat
<1>1. x = b * (x \div b) + (x % b)
  OBVIOUS
<1>2. x % b \in 0 .. b - 1 /\ x \div b \in Nat
  OBVIOUS
<1>3. b * (x \div b) = (x \div b) * b
  OBVIOUS
<1> QED BY <1>1, <1>2, <1>3

SpelledBy(t, n, b, c) ==
  /\ t \in Seq(Nat) /\ Len(t) = c
  /\ \A k \in 1 .. c : /\ t[k] \in 0 .. b - 1
                       /\ Rest(n, b)[c - k] = Rest(n, b)[c - (k - 1)] * b + t[k]

LEMMA SpellsRest ==
  ASSUME NEW n \in 0 .. MODULUS - 1, NEW b \in Nat, b >= 2, b < 36,
         NEW len \in Nat, len > DigitCount(n, b)
  PROVE  LET t == uitoa(n, len, b).ret
             c == DigitCount(n, b)
         IN  /\ uitoa(n, len, b) = [null |-> FALSE, buf |-> t, ret |-> t]
             /\ SpelledBy(t, n, b, c)
             /\ c > 1 => t[1] # 0
<1> PICK c : c = DigitCount(n, b)
  OBVIOUS
<1>1. n \in Nat /\ b \in Nat \ {0} /\ MODULUS \in Nat
  BY ModulusIs
<1>2. c \in Nat /\ c >= 1 /\ Rest(n, b)[c] = 0 /\ \A q \in 1 .. c - 1 : Rest(n, b)[q] # 0
  <2>1. c \in 1 .. WIDTH /\ WIDTH \in Nat
    BY DigitCountIs, NumbersAssumption
  <2>2. Rest(n, b)[c] = 0 /\ \A q \in 1 .. c - 1 : Rest(n, b)[q] # 0
    BY DigitCountIs
  <2> QED BY <2>1, <2>2
<1>3. \A k \in Nat : Rest(n, b)[k] \in Nat /\ Rest(n, b)[k + 1] = Rest(n, b)[k] \div b
  <2>1. \A k \in Nat : Rest(n, b)[k + 1] = Rest(n, b)[k] \div b
    BY <1>1, RestIs
  <2>2. Rest(n, b) \in [Nat -> Nat]
    BY <1>1, RestIs
  <2> QED BY <2>1, <2>2
<1> DEFINE digit(k) == Rest(n, b)[k] % b
           low == [k \in 1 .. c |-> Lookup(Rest(n, b)[k - 1] % b)]
           t == [k \in 1 .. c |-> digit(c - k)]
<1>4. ASSUME NEW k \in 0 .. c - 1
      PROVE  /\ digit(k) \in 0 .. b - 1 /\ Rest(n, b)[k] = Rest(n, b)[k + 1] * b + digit(k)
             /\ Lookup(digit(k)) = digit(k)
  <2>1. PICK x \in Nat : x = Rest(n, b)[k] /\ Rest(n, b)[k + 1] = x \div b
    BY <1>2, <1>3
  <2>2. x % b \in 0 .. b - 1 /\ x = (x \div b) * b + (x % b)
    BY <1>1, Divided
  <2>3. PICK d \in 0 .. b - 1 : d = x % b
    BY <2>2
  <2>4. d \in Characters
    BY DEF Characters
  <2>5. Lookup(d) = d
    BY <2>4 DEF Lookup
  <2> QED BY <2>1, <2>2, <2>3, <2>5
<1> HIDE DEF digit
<1>5. low = [k \in 1 .. c |-> digit(k - 1)]
  <2>1. \A k \in 1 .. c : k - 1 \in 0 .. c - 1
    BY <1>2
  <2>2. \A k \in 1 .. c : Lookup(Rest(n, b)[k - 1] % b) = digit(k - 1)
    BY <1>4, <2>1 DEF digit
  <2> QED BY <2>2
<1> HIDE DEF low
<1>6. low \in Seq(Nat) /\ Len(low) = c /\ \A k \in 1 .. c : low[k] = digit(k - 1) /\ low[k] \in 0 .. b - 1
  <2>1. \A k \in 1 .. c : k - 1 \in 0 .. c - 1
    BY <1>2
  <2>2. \A k \in 1 .. c : digit(k - 1) \in 0 .. b - 1 /\ digit(k - 1) \in Nat
    BY <1>4, <2>1
  <2> QED BY <1>2, <1>5, <2>2
<1>7. BeforeNul(low) = low
  <2>1. \A k \in 1 .. c : low[k] \in Characters
    <3>1. \A d \in 0 .. b - 1 : d \in Characters
      BY DEF Characters
    <3> QED BY <1>6, <3>1
  <2>2. Span(low, Characters) = c
    BY <1>2, <1>6, <2>1, SpanLength
  <2>3. SubSeq(low, 1, c) = low
    BY <1>2, <1>6
  <2> QED BY <2>2, <2>3 DEF BeforeNul
<1>8. Reverse(low) = t
  <2>1. \A k \in 1 .. c : (c - k) + 1 \in 1 .. c /\ ((c - k) + 1) - 1 = c - k
    BY <1>2
  <2> QED BY <1>6, <2>1 DEF Reverse
<1>9. uitoa(n, len, b) = [null |-> FALSE, buf |-> t, ret |-> t]
  <2>1. LowFirst(n, b) = low
    BY DEF LowFirst, low
  <2>2. len # 0 /\ ~(b < 2 \/ b > 36) /\ len > c
    BY <1>2
  <2> QED BY <1>7, <1>8, <2>1, <2>2 DEF uitoa, HasRoom
<1>10. ASSUME NEW k \in 1 .. c
       PROVE  t[k] \in 0 .. b - 1 /\ Rest(n, b)[c - k] = Rest(n, b)[c - (k - 1)] * b + t[k]
  <2>1. c - k \in 0 .. c - 1 /\ (c - k) + 1 = c - (k - 1)
    BY <1>2
  <2> QED BY <1>4, <2>1
<1>11. c > 1 => t[1] # 0
  <2> SUFFICES ASSUME c > 1 PROVE t[1] # 0
    OBVIOUS
  <2>1. c - 1 \in 0 .. c - 1 /\ (c - 1) + 1 = c /\ c - 1 \in 1 .. c - 1 /\ 1 \in 1 .. c
    BY <1>2
  <2>2. PICK x \in Nat : x = Rest(n, b)[c - 1] /\ x # 0
    BY <1>2, <1>3, <2>1
  <2>3. x = 0 * b + digit(c - 1) /\ digit(c - 1) \in Nat
    BY <1>2, <1>4, <2>1, <2>2
  <2> QED BY <2>1, <2>2, <2>3
<1>12. t \in Seq(Nat) /\ Len(t) = c
  <2>1. \A k \in 1 .. c : c - k \in 0 .. c - 1
    BY <1>2
  <2>2. \A k \in 1 .. c : digit(c - k) \in Nat
    BY <1>4, <2>1
  <2> QED BY <1>2, <2>2
<1>13. uitoa(n, len, b).ret = t
  BY <1>9
<1> HIDE DEF t
<1>14. SpelledBy(t, n, b, c)
  BY <1>10, <1>12 DEF SpelledBy
<1> QED BY <1>9, <1>11, <1>13, <1>14

(* The digits make the number, and the first of several is not 0.          *)
LEMMA UitoaSpells ==
  ASSUME NEW n \in 0 .. MODULUS - 1, NEW base \in Nat, NEW len \in Nat
  PROVE  LET u == uitoa(n, len, base)
         IN  /\ ~u.null /\ base < 36 =>
                  /\ DigitsIn(u.ret, base) /\ ValueOf(u.ret, base) = n
                  /\ Len(u.ret) < len /\ (Len(u.ret) > 1 => u.ret[1] # 0)
             /\ u.null <=> \/ base \notin 2 .. 36
                           \/ len = 0
                           \/ \A k \in 1 .. len - 1 : Power(base, k) <= n
<1>1. CASE len = 0 \/ base < 2 \/ base > 36
  <2>1. uitoa(n, len, base) = NoText /\ NoText.null = TRUE
    BY <1>1 DEF uitoa, NoText
  <2>2. base \notin 2 .. 36 \/ len = 0
    BY <1>1
  <2> QED BY <2>1, <2>2
<1>2. CASE len # 0 /\ base \in 2 .. 36
  <2>1. base >= 2 /\ ~(base < 2 \/ base > 36)
    BY <1>2
  <2>2. PICK c \in Nat : c = DigitCount(n, base) /\ c >= 1
    <3>1. DigitCount(n, base) \in 1 .. WIDTH
      BY <2>1, DigitCountIs
    <3> QED BY <3>1, NumbersAssumption
  <2>3. len > c <=> ~\A k \in 1 .. len - 1 : Power(base, k) <= n
    BY <2>1, <2>2, DigitCountIs
  <2>4. CASE ~(len > c)
    <3>1. uitoa(n, len, base) = NoText /\ NoText.null
      BY <1>2, <2>1, <2>2, <2>4 DEF uitoa, HasRoom, NoText
    <3> QED BY <2>3, <2>4, <3>1
  <2>5. CASE len > c
    <3>1. ~uitoa(n, len, base).null
      BY <1>2, <2>1, <2>2, <2>5 DEF uitoa, HasRoom
    <3>2. ASSUME base < 36
          PROVE  LET t == uitoa(n, len, base).ret
                 IN  /\ DigitsIn(t, base) /\ ValueOf(t, base) = n
                     /\ Len(t) < len /\ (Len(t) > 1 => t[1] # 0)
      <4>1. PICK t : t = uitoa(n, len, base).ret
        OBVIOUS
      <4>2. /\ t \in Seq(Nat) /\ Len(t) = c
            /\ \A k \in 1 .. c : /\ t[k] \in 0 .. base - 1
                                 /\ Rest(n, base)[c - k] = Rest(n, base)[c - (k - 1)] * base + t[k]
            /\ c > 1 => t[1] # 0
        BY <2>1, <2>2, <2>5, <3>2, <4>1, SpellsRest DEF SpelledBy
      <4> DEFINE v == [k \in 0 .. c |-> Rest(n, base)[c - k]]
      <4>3. v[0] = 0 /\ v[c] = n
        <5>1. Rest(n, base)[c] = 0
          BY <2>1, <2>2, DigitCountIs
        <5>2. Rest(n, base)[0] = n
          <6>1. n \in Nat /\ base \in Nat \ {0}
            BY <2>1
          <6> QED BY <6>1, RestIs
        <5>3. c - 0 = c /\ c - c = 0 /\ 0 \in 0 .. c /\ c \in 0 .. c
          OBVIOUS
        <5> QED BY <5>1, <5>2, <5>3
      <4>4. \A k \in 1 .. c : v[k] = v[k - 1] * base + t[k]
        <5>1. \A k \in 1 .. c : k \in 0 .. c /\ k - 1 \in 0 .. c
          OBVIOUS
        <5> QED BY <4>2, <5>1
      <4>5. Values(v, c, t, base)
        BY <4>3, <4>4 DEF Values
      <4> HIDE DEF v
      <4>6. ValueOf(t, base) = n
        <5>2. ValueOf(t, base) = v[c]
          BY <4>2, <4>5, ValueOfIs
        <5> QED BY <4>3, <5>2
      <4>7. DigitsIn(t, base)
        BY <4>2 DEF DigitsIn
      <4> QED BY <2>5, <4>1, <4>2, <4>6, <4>7
    <3> QED BY <1>2, <2>3, <2>5, <3>1, <3>2
  <2> QED BY <2>4, <2>5
<1> QED BY <1>1, <1>2

(* Words: the values of an int as an unsigned number and back.             *)
LEMMA Words ==
  ASSUME NEW h \in Nat, MODULUS = 2 * h, MODULUS \div 2 = h, h >= 2
  PROVE  /\ Ints = -h .. h - 1
         /\ \A n \in 0 .. h - 1 : Signed(n) = n /\ Unsigned(n) = n
         /\ \A n \in -h .. -1 : Signed(n) = n /\ Unsigned(n) = n + 2 * h
         /\ Signed(h) = -h
<1>1. \A x \in Int : x \in 0 .. 2 * h - 1 => x % (2 * h) = x
  OBVIOUS
<1>2. \A x \in Int : x \in -(2 * h) .. -1 => x % (2 * h) = x + 2 * h
  OBVIOUS
<1>3. \A n \in 0 .. h - 1 : Signed(n) = n /\ Unsigned(n) = n
  <2> TAKE n \in 0 .. h - 1
  <2>1. n + h \in 0 .. 2 * h - 1 /\ n \in 0 .. 2 * h - 1
    OBVIOUS
  <2>2. (n + h) % (2 * h) = n + h /\ n % (2 * h) = n
    BY <1>1, <2>1
  <2> QED BY <2>2 DEF Signed, Unsigned
<1>4. \A n \in -h .. -1 : Signed(n) = n /\ Unsigned(n) = n + 2 * h
  <2> TAKE n \in -h .. -1
  <2>1. n + h \in 0 .. 2 * h - 1 /\ n \in -(2 * h) .. -1
    OBVIOUS
  <2>2. (n + h) % (2 * h) = n + h /\ n % (2 * h) = n + 2 * h
    BY <1>1, <1>2, <2>1
  <2> QED BY <2>2 DEF Signed, Unsigned
<1>5. Signed(h) = -h
  <2>1. (h + h) % (2 * h) = 0
    OBVIOUS
  <2> QED BY <2>1 DEF Signed
<1> QED BY <1>3, <1>4, <1>5 DEF Ints

(* atoi reads the digits of a number up to MODULUS \div 2 back, in a word. *)
LEMMA ReadsDigits ==
  ASSUME NEW h \in Nat, MODULUS = 2 * h, MODULUS \div 2 = h, h >= 2,
         NEW n \in 0 .. h, NEW len \in Nat, len > WIDTH
  PROVE  LET t == uitoa(n, len, 10).ret
         IN  /\ uitoa(n, len, 10) = [null |-> FALSE, buf |-> t, ret |-> t]
             /\ t \in Seq(Decimal) /\ Len(t) >= 1
             /\ Number(t) = Signed(n)
<1>1. n \in 0 .. MODULUS - 1 /\ n \in Nat /\ 10 \in Nat /\ 10 \in Nat \ {0} /\ 10 >= 2 /\ 10 < 36
  OBVIOUS
<1>2. PICK c \in Nat : c = DigitCount(n, 10) /\ c >= 1 /\ len > c /\ Rest(n, 10)[c] = 0
  <2>1. DigitCount(n, 10) \in 1 .. WIDTH /\ Rest(n, 10)[DigitCount(n, 10)] = 0
    BY <1>1, DigitCountIs
  <2> QED BY <2>1, NumbersAssumption
<1>3. PICK t : t = uitoa(n, len, 10).ret
  OBVIOUS
<1>4. /\ uitoa(n, len, 10) = [null |-> FALSE, buf |-> t, ret |-> t]
      /\ t \in Seq(Nat) /\ Len(t) = c
      /\ \A k \in 1 .. c : /\ t[k] \in 0 .. 10 - 1
                           /\ Rest(n, 10)[c - k] = Rest(n, 10)[c - (k - 1)] * 10 + t[k]
  <2>1. PICK b \in Nat : b = 10
    OBVIOUS
  <2>2. b >= 2 /\ b < 36 /\ c = DigitCount(n, b) /\ len > DigitCount(n, b) /\ t = uitoa(n, len, b).ret
    BY <1>2, <1>3, <2>1
  <2>6. uitoa(n, len, b) = [null |-> FALSE, buf |-> uitoa(n, len, b).ret, ret |-> uitoa(n, len, b).ret]
    BY <1>1, <2>2, SpellsRest
  <2>3. SpelledBy(t, n, b, c)
    BY <1>1, <2>2, SpellsRest
  <2>4. SpelledBy(t, n, 10, c)
    BY <2>1, <2>3
  <2>5. uitoa(n, len, 10) = [null |-> FALSE, buf |-> t, ret |-> t]
    BY <2>6, <2>1, <2>2
  <2> QED BY <2>4, <2>5 DEF SpelledBy
<1>5. \A k \in 1 .. c : t[k] \in Decimal
  <2>1. \A d \in 0 .. 10 - 1 : d \in Decimal
    BY DEF Decimal
  <2> QED BY <1>4, <2>1
<1>6. Span(t, Decimal) = c
  BY <1>4, <1>5, SpanLength
<1>7. Rest(n, 10) \in [Nat -> Nat] /\ Rest(n, 10)[0] = n
      /\ \A k \in Nat : Rest(n, 10)[k + 1] = Rest(n, 10)[k] \div 10
  BY <1>1, RestIs
<1>8. ASSUME NEW k \in Nat
      PROVE  Rest(n, 10)[k] \in 0 .. h /\ (k >= 1 => Rest(n, 10)[k] \in 0 .. h - 1)
  <2>1. ASSUME NEW q \in Nat
        PROVE  Rest(n, 10)[q] \in 0 .. h
    <3>1. PICK r \in Nat, p \in Nat : r = Rest(n, 10)[q] /\ p = Power(10, q) /\ p >= 1
      <4>1. Power(10, q) \in Nat
        BY <1>1, PowerIs
      <4>2. Power(10, q) >= Power(2, q) /\ Power(2, q) >= 1 /\ Power(2, q) \in Nat
        BY <1>1, PowersGrow, PowerIs
      <4> QED BY <1>7, <4>1, <4>2
    <3>2. r * p <= n
      BY <1>1, <3>1, RestPower
    <3>3. r <= r * p
      BY <3>1
    <3> QED BY <3>1, <3>2, <3>3
  <2>2. ASSUME k >= 1 PROVE Rest(n, 10)[k] \in 0 .. h - 1
    <3>1. k - 1 \in Nat /\ (k - 1) + 1 = k
      BY <2>2
    <3>2. PICK r \in 0 .. h : r = Rest(n, 10)[k - 1]
      BY <2>1, <3>1
    <3>3. Rest(n, 10)[k] = r \div 10
      BY <1>7, <3>1, <3>2
    <3> QED BY <3>3
  <2> QED BY <2>1, <2>2
<1> DEFINE v == [k \in 0 .. c |-> Signed(Rest(n, 10)[c - k])]
<1>9. v[0] = 0 /\ v[c] = Signed(n)
  <2>1. Signed(0) = 0
    BY Words
  <2>2. v[0] = Signed(Rest(n, 10)[c - 0]) /\ v[c] = Signed(Rest(n, 10)[c - c])
    OBVIOUS
  <2>3. c - 0 = c /\ c - c = 0
    OBVIOUS
  <2> HIDE DEF v
  <2> QED BY <1>2, <1>7, <2>1, <2>2, <2>3
<1>10. ASSUME NEW k \in 1 .. c
       PROVE  v[k] = Signed(v[k - 1] * 10 + t[k])
  <2>1. k \in 0 .. c /\ k - 1 \in 0 .. c /\ c - (k - 1) \in Nat /\ c - (k - 1) >= 1
    BY <1>2
  <2>2. Signed(Rest(n, 10)[c - (k - 1)]) = Rest(n, 10)[c - (k - 1)]
    BY <1>8, <2>1, Words
  <2> QED BY <1>4, <2>1, <2>2
<1>11. Numbers10(v, c, t)
  <2>1. v = [k \in 0 .. c |-> v[k]]
    OBVIOUS
  <2> HIDE DEF v
  <2> QED BY <1>9, <1>10, <2>1 DEF Numbers10
<1> HIDE DEF v
<1>12. Number(t) = Signed(n)
  <2>1. Number(t) = v[c]
    BY <1>6, <1>11, NumberIs
  <2> QED BY <1>9, <2>1
<1>13. t \in Seq(Decimal)
  BY <1>4, <1>5
<1> QED BY <1>2, <1>3, <1>4, <1>12, <1>13

LEMMA BlanksSkipped ==
  ASSUME NEW S, NEW p \in Seq(Nat), \A q \in 1 .. Len(p) : p[q] \in S,
         NEW t \in Seq(Nat), Len(t) >= 1, t[1] \notin S
  PROVE  After(p \o t, S) = t
<1>1. PICK k \in Nat : k = Len(p)
  OBVIOUS
<1>2. PICK n \in Nat : n = Len(t) /\ n >= 1
  OBVIOUS
<1>3. /\ p \o t \in Seq(Nat) /\ Len(p \o t) = k + n
      /\ \A q \in 1 .. k : (p \o t)[q] = p[q]
      /\ \A q \in 1 .. n : (p \o t)[k + q] = t[q]
  BY <1>1, <1>2
<1>4. Span(p \o t, S) = k
  <2>1. k \in 0 .. k + n /\ k + n \in Nat /\ 1 \in 1 .. n
    BY <1>2
  <2>2. (p \o t)[k + 1] = t[1]
    BY <1>3, <2>1
  <2>3. PICK w : w = p \o t
    OBVIOUS
  <2> PICK m \in Nat : m = k + n
    OBVIOUS
  <2>4. Len(w) = m /\ k \in 0 .. m
    BY <1>3, <2>3
  <2>5. /\ \A q \in 1 .. k : w[q] \in S
        /\ w[k + 1] \notin S
    BY <1>1, <1>3, <2>2, <2>3
  <2>6. Span(w, S) = k
    BY <2>4, <2>5, SpanLength
  <2> QED BY <2>3, <2>6
<1>5. SubSeq(p \o t, 1 + k, k + n) = t
  BY <1>1, <1>2, <1>3
<1> QED BY <1>3, <1>4, <1>5 DEF After

(* What itoa writes is read back, and so is what stands behind blanks or a *)
(* plus.                                                                   *)
LEMMA ReadsText ==
  ASSUME NEW t \in Seq(Decimal), Len(t) >= 1
  PROVE  /\ SignedNumber(t) = Number(t)
         /\ SignedNumber(<<Minus>> \o t) = Signed(-Number(t))
         /\ SignedNumber(<<Plus>> \o t) = Number(t)
<1>1. t # << >> /\ t[1] \in Decimal
  OBVIOUS
<1>2. Minus # Plus /\ Minus \notin Decimal /\ Plus \notin Decimal
  BY DEF Minus, Plus, Decimal
<1>3. \A c : <<c>> \o t # << >> /\ (<<c>> \o t)[1] = c /\ Tail(<<c>> \o t) = t
  OBVIOUS
<1> QED BY <1>1, <1>2, <1>3 DEF SignedNumber

LEMMA SkipsBlanks ==
  ASSUME NEW t \in Seq(Nat), Len(t) >= 1, t[1] \notin Blank
  PROVE  /\ atoi(t) = SignedNumber(t) /\ atol(t) = SignedNumber(t)
         /\ atoi(<<Space, Newline, Tab>> \o t) = SignedNumber(t)
         /\ atol(<<Tab, Space>> \o t) = SignedNumber(t)
<1>1. Blank = {Space, Tab, Newline} /\ t[1] \notin {Space, Tab}
  BY DEF Blank
<1>2. << >> \o t = t /\ << >> \in Seq(Nat) /\ \A q \in 1 .. Len(<< >>) : FALSE
  OBVIOUS
<1>3. After(t, Blank) = t /\ After(t, {Space, Tab}) = t
  <2>1. \A S : t[1] \notin S => After(<< >> \o t, S) = t
    BY <1>2, BlanksSkipped
  <2> QED BY <1>1, <1>2, <2>1
<1>4. /\ <<Space, Newline, Tab>> \in Seq(Nat) /\ <<Tab, Space>> \in Seq(Nat)
      /\ \A q \in 1 .. Len(<<Space, Newline, Tab>>) : <<Space, Newline, Tab>>[q] \in Blank
      /\ \A q \in 1 .. Len(<<Tab, Space>>) : <<Tab, Space>>[q] \in {Space, Tab}
  BY DEF Blank, Space, Newline, Tab
<1>5. After(<<Space, Newline, Tab>> \o t, Blank) = t
  BY <1>4, BlanksSkipped
<1>6. After(<<Tab, Space>> \o t, {Space, Tab}) = t
  BY <1>1, <1>4, BlanksSkipped
<1> QED BY <1>1, <1>3, <1>5, <1>6 DEF atoi, atol

LEMMA ReadsItoa ==
  ASSUME NEW n \in Ints
  PROVE  LET text == itoa(n, WIDTH + 2, 10).buf
         IN  /\ atoi(text) = n /\ atol(text) = n
             /\ atoi(<<Space, Newline, Tab>> \o text) = n
             /\ atol(<<Tab, Space>> \o text) = n
             /\ n >= 0 => atoi(<<Plus>> \o text) = n /\ abs(-n) = n /\ labs(-n) = n
<1>1. PICK h \in Nat : h >= 2 /\ MODULUS = 2 * h /\ MODULUS \div 2 = h
  BY ModulusIs
<1>2. /\ Ints = -h .. h - 1
      /\ \A m \in 0 .. h - 1 : Signed(m) = m /\ Unsigned(m) = m
      /\ \A m \in -h .. -1 : Signed(m) = m /\ Unsigned(m) = m + 2 * h
      /\ Signed(h) = -h
  BY <1>1, Words
<1>3. WIDTH + 2 \in Nat /\ WIDTH + 2 # 0 /\ (WIDTH + 2) - 1 \in Nat /\ (WIDTH + 2) - 1 > WIDTH
      /\ WIDTH + 2 > WIDTH
  BY NumbersAssumption
<1>4. /\ Minus \in Nat /\ Plus \in Nat /\ Minus \notin Blank /\ Plus \notin Blank
      /\ \A d \in Decimal : d \in Nat /\ d \notin Blank
  BY DEF Minus, Plus, Blank, Space, Tab, Newline, Decimal
<1>5. CASE n >= 0
  <2>1. n \in 0 .. h - 1 /\ n \in 0 .. h
    BY <1>2, <1>5
  <2>2. int_abs(n) = n
    <3>1. CASE n > 0
      BY <3>1 DEF int_abs
    <3>2. CASE n = 0
      <4>1. Unsigned(0) = 0 /\ (2 * h - 1) - 0 + 1 = 2 * h /\ (2 * h) % (2 * h) = 0
        BY <1>1, <1>2
      <4> QED BY <1>1, <3>2, <4>1 DEF int_abs, Unsigned
    <3> QED BY <2>1, <3>1, <3>2
  <2>3. PICK t : t = uitoa(n, WIDTH + 2, 10).ret
    OBVIOUS
  <2>4. /\ uitoa(n, WIDTH + 2, 10) = [null |-> FALSE, buf |-> t, ret |-> t]
        /\ t \in Seq(Decimal) /\ Len(t) >= 1 /\ Number(t) = Signed(n)
    BY <1>1, <1>3, <2>1, <2>3, ReadsDigits
  <2>5. itoa(n, WIDTH + 2, 10).buf = t
    BY <1>3, <1>5, <2>2, <2>4 DEF itoa
  <2>6. SignedNumber(t) = n /\ SignedNumber(<<Plus>> \o t) = n
    BY <1>2, <2>1, <2>4, ReadsText
  <2>7. t \in Seq(Nat) /\ t[1] \notin Blank
    BY <1>4, <2>4
  <2>8. <<Plus>> \o t \in Seq(Nat) /\ Len(<<Plus>> \o t) >= 1 /\ (<<Plus>> \o t)[1] \notin Blank
    BY <1>4, <2>4, <2>7
  <2>9. atoi(<<Plus>> \o t) = SignedNumber(<<Plus>> \o t)
    BY <2>8, SkipsBlanks
  <2>10. abs(-n) = n /\ labs(-n) = n
    <3>1. n \in Int /\ ~(-n > 0) /\ -(-n) = n /\ (-n < 0 \/ -n = n)
      BY <2>1
    <3> QED BY <1>2, <2>1, <3>1 DEF abs, labs
  <2>11. /\ atoi(t) = n /\ atol(t) = n /\ atoi(<<Space, Newline, Tab>> \o t) = n
         /\ atol(<<Tab, Space>> \o t) = n
    BY <2>4, <2>6, <2>7, SkipsBlanks
  <2> QED BY <2>5, <2>6, <2>9, <2>10, <2>11
<1>6. CASE n < 0
  <2>1. n \in -h .. -1 /\ -n \in 1 .. h /\ n \in Int
    BY <1>2, <1>6
  <2> PICK m \in 1 .. h : m = -n
    BY <2>1
  <2>2. int_abs(n) = m
    <3>1. Unsigned(n) = 2 * h - m
      BY <1>2, <2>1
    <3>2. (2 * h - 1) - (2 * h - m) + 1 = m
      OBVIOUS
    <3>3. m % (2 * h) = m
      BY <1>1
    <3>4. ~(n > 0)
      BY <2>1
    <3> QED BY <1>1, <3>1, <3>2, <3>3, <3>4 DEF int_abs, Unsigned
  <2>3. PICK t : t = uitoa(m, (WIDTH + 2) - 1, 10).ret
    OBVIOUS
  <2>4. /\ uitoa(m, (WIDTH + 2) - 1, 10) = [null |-> FALSE, buf |-> t, ret |-> t]
        /\ t \in Seq(Decimal) /\ Len(t) >= 1 /\ Number(t) = Signed(m)
    <3>1. m \in 0 .. h
      OBVIOUS
    <3>2. PICK len \in Nat : len = (WIDTH + 2) - 1 /\ len > WIDTH
      BY <1>3
    <3> QED BY <1>1, <2>3, <3>1, <3>2, ReadsDigits
  <2>5. itoa(n, WIDTH + 2, 10).buf = <<Minus>> \o t
    BY <1>3, <1>6, <2>1, <2>2, <2>4 DEF itoa
  <2>6. Signed(-Number(t)) = n
    <3>1. CASE m = h
      BY <1>2, <2>1, <2>4, <3>1
    <3>2. CASE m # h
      <4>1. m \in 0 .. h - 1
        BY <3>2
      <4> QED BY <1>2, <2>1, <2>4, <4>1
    <3> QED BY <3>1, <3>2
  <2>7. t \in Seq(Nat)
    BY <1>4, <2>4
  <2>8. <<Minus>> \o t \in Seq(Nat) /\ Len(<<Minus>> \o t) >= 1 /\ (<<Minus>> \o t)[1] \notin Blank
    BY <1>4, <2>4, <2>7
  <2>9. SignedNumber(<<Minus>> \o t) = n
    BY <2>4, <2>6, ReadsText
  <2> PICK text : text = <<Minus>> \o t
    OBVIOUS
  <2>10. /\ atoi(text) = n /\ atol(text) = n /\ atoi(<<Space, Newline, Tab>> \o text) = n
         /\ atol(<<Tab, Space>> \o text) = n
    BY <2>8, <2>9, SkipsBlanks
  <2>11. itoa(n, WIDTH + 2, 10).buf = text /\ ~(n >= 0)
    BY <1>6, <2>1, <2>5
  <2> QED BY <2>10, <2>11
<1> QED BY <1>2, <1>5, <1>6

NumTyped == num = << >> \/ \E n \in Ints : num = <<n>>

(* Every number an int can hold keeps its value on the way to text and     *)
(* back, for words of every width: uitoa spells it, without leading        *)
(* zeroes, in every base for whose digits it has characters, and refuses   *)
(* just the bases it does not know and the buffers that are too short;     *)
(* what itoa writes atoi and atol read back, the least number included.    *)
THEOREM NumbersCorrect == NumSpec => []NumbersRight
<1>1. NumInit => NumTyped
  BY DEF NumInit, NumTyped
<1>2. NumTyped /\ [NumNext]_num => NumTyped'
  BY DEF NumTyped, NumNext, Convert, NumberDone
<1>3. NumTyped => NumbersRight
  <2> SUFFICES ASSUME NumTyped PROVE NumbersRight
    OBVIOUS
  <2>1. ToSet(num) \subseteq Ints
    BY DEF NumTyped, ToSet
  <2>2. \A n \in Ints : Unsigned(n) \in 0 .. MODULUS - 1
    <3>1. PICK h \in Nat : h >= 2 /\ MODULUS = 2 * h /\ MODULUS \div 2 = h
      BY ModulusIs
    <3> TAKE n \in Ints
    <3>2. n \in Int
      BY <3>1 DEF Ints
    <3>3. n % (2 * h) \in 0 .. 2 * h - 1
      BY <3>1, <3>2
    <3> QED BY <3>1, <3>3 DEF Unsigned
  <2>3. SpellsNumber
    BY <2>1, <2>2, UitoaSpells, NumbersAssumption DEF SpellsNumber
  <2>4. ReadsBack
    BY <2>1, ReadsItoa DEF ReadsBack
  <2> QED BY <2>3, <2>4 DEF NumbersRight
<1> QED BY <1>1, <1>2, <1>3, PTL DEF NumSpec

-----------------------------------------------------------------------------
(* Formatted output.                                                       *)

(* A number divided again and again, rounding down.                        *)
QuotientsSay(n, b) ==
  /\ Quotients(n, b) \in [Nat -> Int] /\ Quotients(n, b)[0] = n
  /\ \A k \in Nat : Quotients(n, b)[k + 1] = Quotients(n, b)[k] \div b

LEMMA QuotientsAre ==
  ASSUME NEW n \in Int, NEW b \in Nat \ {0}
  PROVE  QuotientsSay(n, b)
<1> DEFINE r[k \in Nat] == IF k = 0 THEN n ELSE r[k - 1] \div b
           IsQuotients(f) == f = [k \in Nat |-> IF k = 0 THEN n ELSE f[k - 1] \div b]
           step == [k \in Nat \ {0} |-> [c \in Int |-> c \div b]]
<1>1. step \in Steps(Int) /\ \A k \in Nat, c \in Int : step[k + 1][c] = c \div b
  <2>1. \A k \in Nat : k + 1 \in Nat \ {0}
    OBVIOUS
  <2>2. \A c \in Int : c \div b \in Int
    OBVIOUS
  <2> QED BY <2>1, <2>2 DEF Steps
<1> HIDE DEF step
<1>2. PICK f : Continues(f, Int, n, step)
  BY <1>1, RecursionOnNumbers
<1>3. f \in [Nat -> Int] /\ f[0] = n /\ \A k \in Nat : f[k + 1] = f[k] \div b
  BY <1>1, <1>2 DEF Continues
<1>4. IsQuotients(f)
  <2>1. ASSUME NEW k \in Nat
        PROVE  f[k] = IF k = 0 THEN n ELSE f[k - 1] \div b
    <3>1. CASE k = 0
      BY <1>3, <3>1
    <3>2. CASE k # 0
      <4>1. k - 1 \in Nat /\ (k - 1) + 1 = k
        BY <3>2
      <4> QED BY <1>3, <3>2, <4>1
    <3> QED BY <3>1, <3>2
  <2> QED BY <1>3, <2>1
<1>5. r = CHOOSE g : IsQuotients(g)
  OBVIOUS
<1>6. IsQuotients(r)
  <2> HIDE DEF IsQuotients, r
  <2> QED BY <1>4, <1>5
<1>7. r[0] = n /\ \A k \in Nat : r[k + 1] = r[k] \div b
  <2> HIDE DEF r
  <2>1. \A k \in Nat : r[k] = IF k = 0 THEN n ELSE r[k - 1] \div b
    BY <1>6
  <2>2. \A k \in Nat : k + 1 \in Nat /\ k + 1 # 0 /\ (k + 1) - 1 = k
    OBVIOUS
  <2> QED BY <2>1, <2>2
<1>8. Quotients(n, b) = r
  BY DEF Quotients
<1>9. r = [k \in Nat |-> IF k = 0 THEN n ELSE r[k - 1] \div b]
  <2> HIDE DEF r
  <2> QED BY <1>6
<1> HIDE DEF r, IsQuotients
<1> DEFINE G == {k \in Nat : r[k] \in Int}
<1>10. 0 \in G
  BY <1>7
<1>11. ASSUME NEW k \in Nat, k \in G
       PROVE  k + 1 \in G
  <2>1. r[k] \in Int /\ r[k + 1] = r[k] \div b
    BY <1>7, <1>11
  <2>2. \A c \in Int : c \div b \in Int
    OBVIOUS
  <2> QED BY <2>1, <2>2
<1> HIDE DEF G
<1>12. \A k \in Nat : k \in G
  BY <1>10, <1>11, SetInduction
<1>13. \A k \in Nat : r[k] \in Int
  BY <1>12 DEF G
<1>14. r \in [Nat -> Int]
  BY <1>9, <1>13
<1> QED BY <1>7, <1>8, <1>14 DEF QuotientsSay

(* The digits are copied from the highest that is not 0 down.              *)
CopiesFrom(temp, places, top) ==
  /\ top \in 1 .. places /\ (top > 1 => temp[top] # 0)
  /\ \A k \in top + 1 .. places : temp[k] = 0
  /\ Copied(temp) = [q \in 1 .. top |-> temp[top + 1 - q]]

LEMMA CopiedIs ==
  ASSUME NEW places \in Nat \ {0}, NEW temp \in [1 .. places -> Nat]
  PROVE  \E top : CopiesFrom(temp, places, top)
<1> DEFINE T == {k \in 1 .. places : k = 1 \/ temp[k] # 0}
           Top(k) == (k > 1 => temp[k] # 0) /\ \A q \in k + 1 .. places : temp[q] = 0
<1>1. T \in SUBSET Nat /\ 1 \in T /\ \A k \in T : k <= places
  OBVIOUS
<1>2. PICK top : top \in T /\ \A k \in T : top >= k
  <2> HIDE DEF T
  <2> QED BY <1>1, GreatestNumber
<1>3. top \in 1 .. places /\ Top(top)
  <2>1. top \in 1 .. places /\ (top > 1 => temp[top] # 0)
    BY <1>2
  <2>2. ASSUME NEW q \in top + 1 .. places
        PROVE  temp[q] = 0
    <3>1. q \in 1 .. places /\ ~(top >= q)
      BY <2>1
    <3> QED BY <1>2, <3>1
  <2> QED BY <2>1, <2>2
<1>4. \A k \in 1 .. places : Top(k) => k = top
  <2> TAKE k \in 1 .. places
  <2> HAVE Top(k)
  <2>1. ~(k < top)
    BY <1>3
  <2>2. ~(top < k)
    BY <1>3
  <2> QED BY <1>3, <2>1, <2>2
<1>5. temp \in Seq(Nat) /\ Len(temp) = places
  <2>1. temp \in Seq(Nat)
    BY SeqDef
  <2> QED BY <2>1, LenProperties
<1>6. Copied(temp) = Reverse(SubSeq(temp, 1, CHOOSE k \in 1 .. Len(temp) : Top(k)))
  BY <1>5 DEF Copied
<1>7. (CHOOSE k \in 1 .. Len(temp) : Top(k)) = top
  <2> HIDE DEF Top
  <2> QED BY <1>3, <1>4, <1>5
<1>8. Copied(temp) = Reverse(SubSeq(temp, 1, top))
  BY <1>6, <1>7
<1> PICK s : s = SubSeq(temp, 1, top)
  OBVIOUS
<1>9. Len(s) = top /\ \A q \in 1 .. top : s[q] = temp[q]
  BY <1>3, <1>5
<1>10. Reverse(s) = [q \in 1 .. top |-> s[(top - q) + 1]]
  BY <1>9 DEF Reverse
<1>11. \A q \in 1 .. top : s[(top - q) + 1] = temp[top + 1 - q]
  <2> TAKE q \in 1 .. top
  <2>1. (top - q) + 1 \in 1 .. top /\ (top - q) + 1 = top + 1 - q
    BY <1>3
  <2> QED BY <1>9, <2>1
<1>12. Copied(temp) = [q \in 1 .. top |-> temp[top + 1 - q]]
  BY <1>8, <1>10, <1>11
<1> QED BY <1>3, <1>12 DEF CopiesFrom
(* The characters of the digits.                                           *)
Place(c) ==
  IF c = "0" THEN 1 ELSE IF c = "1" THEN 2 ELSE
  IF c = "2" THEN 3 ELSE IF c = "3" THEN 4 ELSE
  IF c = "4" THEN 5 ELSE IF c = "5" THEN 6 ELSE
  IF c = "6" THEN 7 ELSE IF c = "7" THEN 8 ELSE
  IF c = "8" THEN 9 ELSE IF c = "9" THEN 10 ELSE
  IF c = "a" \/ c = "A" THEN 11 ELSE IF c = "b" \/ c = "B" THEN 12 ELSE
  IF c = "c" \/ c = "C" THEN 13 ELSE IF c = "d" \/ c = "D" THEN 14 ELSE
  IF c = "e" \/ c = "E" THEN 15 ELSE
  16

LEMMA PlaceIs == \A d \in 1 .. 16 : Place(lower[d]) = d /\ Place(upper[d]) = d
<1> SUFFICES ASSUME NEW d \in 1 .. 16 PROVE Place(lower[d]) = d /\ Place(upper[d]) = d
  OBVIOUS
<1>1. CASE d = 1
  BY <1>1 DEF Place, lower, upper
<1>2. CASE d = 2
  BY <1>2 DEF Place, lower, upper
<1>3. CASE d = 3
  BY <1>3 DEF Place, lower, upper
<1>4. CASE d = 4
  BY <1>4 DEF Place, lower, upper
<1>5. CASE d = 5
  BY <1>5 DEF Place, lower, upper
<1>6. CASE d = 6
  BY <1>6 DEF Place, lower, upper
<1>7. CASE d = 7
  BY <1>7 DEF Place, lower, upper
<1>8. CASE d = 8
  BY <1>8 DEF Place, lower, upper
<1>9. CASE d = 9
  BY <1>9 DEF Place, lower, upper
<1>10. CASE d = 10
  BY <1>10 DEF Place, lower, upper
<1>11. CASE d = 11
  BY <1>11 DEF Place, lower, upper
<1>12. CASE d = 12
  BY <1>12 DEF Place, lower, upper
<1>13. CASE d = 13
  BY <1>13 DEF Place, lower, upper
<1>14. CASE d = 14
  BY <1>14 DEF Place, lower, upper
<1>15. CASE d = 15
  BY <1>15 DEF Place, lower, upper
<1>16. CASE d = 16
  BY <1>16 DEF Place, lower, upper
<1> QED BY <1>1, <1>2, <1>3, <1>4, <1>5, <1>6, <1>7, <1>8, <1>9, <1>10, <1>11, <1>12, <1>13, <1>14, <1>15, <1>16

(* Everything a conversion prints.                                         *)
Printed == {lower[k] : k \in 1 .. 16} \cup {upper[k] : k \in 1 .. 16}

CharacterSays(set) ==
  \A d \in Nat : d < 16 =>
    /\ DigitOf(set[d + 1]) = d /\ set[d + 1] \in ToSet(lower) \cup ToSet(upper)
    /\ set[d + 1] \in Printed
    /\ d # 0 => set[d + 1] # "0"

LEMMA ToSetIs == ToSet(lower) = {lower[k] : k \in 1 .. 16} /\ ToSet(upper) = {upper[k] : k \in 1 .. 16}
<1>1. DOMAIN lower = 1 .. 16
  BY DEF lower
<1>2. DOMAIN upper = 1 .. 16
  BY DEF upper
<1> QED BY <1>1, <1>2, Zenon DEF ToSet

LEMMA Characters16 == ASSUME NEW set \in {lower, upper} PROVE CharacterSays(set)
<1>1. lower[1] = "0" /\ upper[1] = "0"
  BY DEF lower, upper
<1>2. ASSUME NEW d \in Nat, d < 16
      PROVE  /\ DigitOf(set[d + 1]) = d /\ set[d + 1] \in ToSet(lower) \cup ToSet(upper)
             /\ set[d + 1] \in Printed
             /\ d # 0 => set[d + 1] # "0"
  <2>1. d + 1 \in 1 .. 16
    BY <1>2
  <2> PICK k : k = d + 1
    OBVIOUS
  <2> PICK c : c = set[k]
    OBVIOUS
  <2>3. lower[k] = c \/ upper[k] = c
    OBVIOUS
  <2>4. \A q \in 1 .. 16 : lower[q] = c \/ upper[q] = c => q = k
    BY <2>1, <2>3, PlaceIs
  <2>5. (CHOOSE q \in 1 .. 16 : lower[q] = c \/ upper[q] = c) = k
    BY <2>1, <2>3, <2>4
  <2>6. DigitOf(c) = k - 1
    <3>1. DigitOf(c) = (CHOOSE q \in 1 .. 16 : lower[q] = c \/ upper[q] = c) - 1
      BY Zenon DEF DigitOf
    <3> QED BY <2>5, <3>1, Zenon
  <2>7. c \in ToSet(lower) \cup ToSet(upper) /\ c \in Printed
    BY <2>1, <2>3, ToSetIs DEF Printed
  <2>8. k # 1 => c # "0"
    <3>1. c = "0" => 1 = k
      BY <1>1, <2>4
    <3> QED BY <3>1
  <2>9. k - 1 = d
    OBVIOUS
  <2> QED BY <2>6, <2>7, <2>8, <2>9
<1> QED BY <1>2, Zenon DEF CharacterSays

(* Digits that are read in halves of 16 bits read as the two halves of     *)
(* their value.                                                            *)
HalfOf(v) == <<v \div 65536, v % 65536>>
Valued(v, n, body, base) ==
  v \in [0 .. n -> Nat] /\ v[0] = 0 /\ \A k \in 1 .. n : v[k] = v[k - 1] * base + DigitOf(body[k])

OneMore(w, base, d) ==
  LET lo == w[2] * base + d IN <<w[1] * base + lo \div 65536, lo % 65536>>

LEMMA QuotientIs ==
  ASSUME NEW b \in Nat, b > 0, NEW q \in Int, NEW r \in Nat, r < b, NEW x, x = q * b + r
  PROVE  x \div b = q /\ x % b = r
<1>1. x \in Int /\ x = b * (x \div b) + (x % b) /\ x % b \in 0 .. b - 1 /\ x \div b \in Int
  OBVIOUS
<1> PICK c, m : c = x \div b /\ m = x % b
  OBVIOUS
<1>2. c \in Int /\ m \in 0 .. b - 1 /\ b * c + m = b * q + r
  BY <1>1
<1>3. b * (c - q) = r - m
  BY <1>2
<1>4. ~(c - q >= 1)
  <2> SUFFICES ASSUME c - q >= 1 PROVE FALSE
    OBVIOUS
  <2>1. b * (c - q) >= b
    BY <1>2
  <2> QED BY <1>2, <1>3, <2>1
<1>5. ~(c - q <= -1)
  <2> SUFFICES ASSUME c - q <= -1 PROVE FALSE
    OBVIOUS
  <2>1. b * (c - q) <= -b
    BY <1>2
  <2> QED BY <1>2, <1>3, <2>1
<1>6. c = q
  BY <1>2, <1>4, <1>5
<1>7. m = r
  BY <1>2, <1>6
<1> QED BY <1>6, <1>7

LEMMA HalvesAdd ==
  ASSUME NEW v \in Nat, NEW base \in {2, 8, 10, 16}, NEW d \in Nat
  PROVE  OneMore(HalfOf(v), base, d) = HalfOf(v * base + d)
<1> PICK q, r : q = v \div 65536 /\ r = v % 65536
  OBVIOUS
<1>1. q \in Nat /\ r \in Nat /\ r < 65536 /\ v = q * 65536 + r
  <2>1. v = (v \div 65536) * 65536 + (v % 65536) /\ v \div 65536 \in Nat
    BY Divided
  <2>2. v % 65536 \in Nat /\ v % 65536 < 65536
    OBVIOUS
  <2> QED BY <2>1, <2>2
<1> PICK lo : lo = r * base + d
  OBVIOUS
<1>2. lo \in Nat /\ base \in Nat
  BY <1>1
<1> PICK c, m : c = lo \div 65536 /\ m = lo % 65536
  OBVIOUS
<1>3. c \in Nat /\ m \in Nat /\ m < 65536 /\ lo = c * 65536 + m
  <2>1. lo = (lo \div 65536) * 65536 + (lo % 65536) /\ lo \div 65536 \in Nat
    BY <1>2, Divided
  <2>2. lo % 65536 \in Nat /\ lo % 65536 < 65536
    BY <1>2
  <2> QED BY <2>1, <2>2
<1>4. v * base + d = (q * base + c) * 65536 + m
  <2>1. v * base = (q * base) * 65536 + r * base
    BY <1>1
  <2> QED BY <1>1, <1>2, <1>3, <2>1
<1>5. q * base + c \in Int
  BY <1>1, <1>2, <1>3
<1>6. (v * base + d) \div 65536 = q * base + c /\ (v * base + d) % 65536 = m
  BY <1>3, <1>4, <1>5, QuotientIs
<1>7. HalfOf(v)[1] = q /\ HalfOf(v)[2] = r
  BY DEF HalfOf
<1>8. OneMore(HalfOf(v), base, d) = <<q * base + c, m>>
  BY <1>7 DEF OneMore
<1> QED BY <1>6, <1>8 DEF HalfOf

LEMMA HalvesSpelledIs ==
  ASSUME NEW n \in Nat, NEW body, Len(body) = n, NEW base \in {2, 8, 10, 16},
         NEW v, Valued(v, n, body, base), \A k \in 1 .. n : DigitOf(body[k]) \in Nat
  PROVE  HalvesSpelled(body, base) = HalfOf(v[n])
<1> DEFINE w[k \in 0 .. Len(body)] ==
             IF k = 0 THEN <<0, 0>>
             ELSE LET x == w[k - 1]
                      lo == x[2] * base + DigitOf(body[k])
                  IN  <<x[1] * base + lo \div 65536, lo % 65536>>
           Next2(x, k) == LET lo == x[2] * base + DigitOf(body[k])
                          IN  <<x[1] * base + lo \div 65536, lo % 65536>>
           IsHalves(f) == f = [k \in 0 .. n |-> IF k = 0 THEN <<0, 0>> ELSE Next2(f[k - 1], k)]
           f == [k \in 0 .. n |-> HalfOf(v[k])]
<1>0. \A k \in 0 .. n : k = 0 \/ (k \in 1 .. n /\ k - 1 \in 0 .. n)
  OBVIOUS
<1>1. v \in [0 .. n -> Nat] /\ v[0] = 0 /\ \A k \in 1 .. n : v[k] = v[k - 1] * base + DigitOf(body[k])
  BY DEF Valued
<1>2. IsHalves(f)
  <2>1. ASSUME NEW k \in 0 .. n
        PROVE  f[k] = IF k = 0 THEN <<0, 0>> ELSE Next2(f[k - 1], k)
    <3>1. CASE k = 0
      <4>1. HalfOf(0) = <<0, 0>>
        BY DEF HalfOf
      <4> QED BY <1>1, <3>1, <4>1
    <3>2. CASE k # 0
      <4>1. k \in 1 .. n /\ k - 1 \in 0 .. n
        BY <3>2
      <4>2. Next2(HalfOf(v[k - 1]), k) = HalfOf(v[k - 1] * base + DigitOf(body[k]))
        <5>1. v[k - 1] \in Nat /\ DigitOf(body[k]) \in Nat
          BY <1>1, <4>1
        <5>2. OneMore(HalfOf(v[k - 1]), base, DigitOf(body[k])) = HalfOf(v[k - 1] * base + DigitOf(body[k]))
          BY <5>1, HalvesAdd
        <5> QED BY <5>2 DEF OneMore
      <4> HIDE DEF Next2
      <4> QED BY <1>1, <3>2, <4>1, <4>2
    <3> QED BY <3>1, <3>2
  <2> HIDE DEF Next2
  <2> QED BY <2>1
<1>3. w = CHOOSE g : IsHalves(g)
  OBVIOUS
<1>4. IsHalves(w)
  <2> HIDE DEF IsHalves, w, f
  <2> QED BY <1>2, <1>3
<1>5. HalvesSpelled(body, base) = w[n]
  BY DEF HalvesSpelled
<1> HIDE DEF w
<1>6. w[0] = <<0, 0>> /\ \A k \in 1 .. n : w[k] = Next2(w[k - 1], k)
  <2> HIDE DEF Next2
  <2>1. \A k \in 0 .. n : w[k] = IF k = 0 THEN <<0, 0>> ELSE Next2(w[k - 1], k)
    BY <1>4
  <2>2. 0 \in 0 .. n /\ \A k \in 1 .. n : k \in 0 .. n /\ k # 0
    OBVIOUS
  <2> QED BY <2>1, <2>2
<1>7. f[0] = <<0, 0>> /\ \A k \in 1 .. n : f[k] = Next2(f[k - 1], k)
  <2> HIDE DEF Next2, f
  <2>1. \A k \in 0 .. n : f[k] = IF k = 0 THEN <<0, 0>> ELSE Next2(f[k - 1], k)
    BY <1>2
  <2>2. 0 \in 0 .. n /\ \A k \in 1 .. n : k \in 0 .. n /\ k # 0
    OBVIOUS
  <2> QED BY <2>1, <2>2
<1> HIDE DEF IsHalves, Next2
<1> DEFINE G == {k \in Nat : k <= n => w[k] = f[k]}
<1>8. 0 \in G
  <2> HIDE DEF f
  <2> QED BY <1>6, <1>7
<1>9. ASSUME NEW k \in Nat, k \in G
      PROVE  k + 1 \in G
  <2> HIDE DEF f
  <2> SUFFICES ASSUME k + 1 <= n PROVE w[k + 1] = f[k + 1]
    OBVIOUS
  <2>1. k + 1 \in 1 .. n /\ (k + 1) - 1 = k /\ w[k] = f[k]
    BY <1>9
  <2>2. w[k + 1] = Next2(w[k], k + 1) /\ f[k + 1] = Next2(f[k], k + 1)
    BY <1>6, <1>7, <2>1
  <2> QED BY <2>1, <2>2
<1> HIDE DEF G
<1>10. n \in G
  BY <1>8, <1>9, SetInduction
<1>11. f[n] = HalfOf(v[n])
  OBVIOUS
<1>12. w[n] = f[n]
  BY <1>10 DEF G
<1> HIDE DEF f
<1> QED BY <1>5, <1>11, <1>12

(* The digits of temp, from the lowest up, add up to u[0]; they are copied *)
(* from the highest down, and read as that number.                         *)
AddsUp(u, temp, places, base) ==
  /\ u[places] = 0 /\ \A k \in 0 .. places : u[k] \in Nat
  /\ \A k \in 1 .. places : temp[k] < base /\ u[k - 1] = base * u[k] + temp[k]
Reads(body, base, v) ==
  /\ body \in Seq(Printed) /\ Len(body) \in Nat \ {0}
  /\ \A k \in 1 .. Len(body) : body[k] \in ToSet(lower) \cup ToSet(upper)
  /\ Len(body) > 1 => body[1] # "0"
  /\ HalvesSpelled(body, base) = HalfOf(v)

LEMMA DigitsRead ==
  ASSUME NEW places \in Nat \ {0}, NEW base \in {2, 8, 10, 16}, NEW set \in {lower, upper},
         NEW temp \in [1 .. places -> Nat], NEW u, AddsUp(u, temp, places, base)
  PROVE  Reads(InChars(Copied(temp), set), base, u[0])
<1>1. PICK top : CopiesFrom(temp, places, top)
  BY CopiedIs
<1>2. top \in 1 .. places /\ (top > 1 => temp[top] # 0) /\ \A k \in top + 1 .. places : temp[k] = 0
  BY <1>1 DEF CopiesFrom
<1> DEFINE digit == [q \in 1 .. top |-> temp[top + 1 - q]]
           body == [q \in 1 .. top |-> set[digit[q] + 1]]
           v == [k \in 0 .. top |-> u[top - k]]
<1>3. /\ u[places] = 0 /\ \A k \in 0 .. places : u[k] \in Nat
      /\ \A k \in 1 .. places : temp[k] < base /\ u[k - 1] = base * u[k] + temp[k]
  BY DEF AddsUp
<1>4. Copied(temp) = digit
  BY <1>1 DEF CopiesFrom
<1>5. base \in Nat /\ base <= 16
  OBVIOUS
<1>6. \A q \in 1 .. top : /\ top + 1 - q \in 1 .. places /\ digit[q] = temp[top + 1 - q]
                          /\ digit[q] \in Nat /\ digit[q] < base /\ digit[q] < 16
  <2> TAKE q \in 1 .. top
  <2>1. top + 1 - q \in 1 .. places
    BY <1>2
  <2> QED BY <1>3, <1>5, <2>1
<1> HIDE DEF digit
<1>7. \A q \in 1 .. top : /\ body[q] \in ToSet(lower) \cup ToSet(upper) /\ body[q] \in Printed
                          /\ DigitOf(body[q]) = digit[q] /\ (digit[q] # 0 => body[q] # "0")
  <2> TAKE q \in 1 .. top
  <2>1. CharacterSays(set)
    BY Characters16
  <2> PICK d : d = digit[q]
    OBVIOUS
  <2>2. d \in Nat /\ d < 16 /\ body[q] = set[d + 1]
    BY <1>6
  <2> HIDE DEF body
  <2>3. /\ DigitOf(set[d + 1]) = d /\ set[d + 1] \in ToSet(lower) \cup ToSet(upper)
        /\ set[d + 1] \in Printed /\ (d # 0 => set[d + 1] # "0")
    BY <2>1, <2>2, Zenon DEF CharacterSays
  <2> QED BY <2>2, <2>3, Zenon
<1>8. body \in Seq(Printed) /\ Len(body) = top
  <2>1. top \in Nat
    BY <1>2
  <2>2. body \in [1 .. top -> Printed]
    BY <1>7
  <2> HIDE DEF body
  <2>3. body \in Seq(Printed)
    BY <2>1, <2>2, SeqDef
  <2> QED BY <2>1, <2>2, <2>3, LenProperties
<1>9. InChars(Copied(temp), set) = body
  <2>1. Len(digit) = top
    <3>1. top \in Nat
      BY <1>2
    <3>2. digit \in [1 .. top -> Nat] /\ digit \in Seq(Nat)
      <4>1. digit \in [1 .. top -> Nat]
        BY <1>6 DEF digit
      <4> QED BY <3>1, <4>1, SeqDef
    <3> QED BY <3>1, <3>2, LenProperties
  <2> QED BY <1>4, <2>1 DEF InChars
<1> HIDE DEF body
<1> DEFINE G == {q \in Nat : q <= places - top => u[places - q] = 0}
<1>10. 0 \in G
  BY <1>3
<1>11. ASSUME NEW q \in Nat, q \in G
       PROVE  q + 1 \in G
  <2> SUFFICES ASSUME q + 1 <= places - top PROVE u[places - (q + 1)] = 0
    OBVIOUS
  <2> PICK k : k = places - q
    OBVIOUS
  <2>1. k \in top + 1 .. places /\ k \in 1 .. places /\ k - 1 = places - (q + 1)
    BY <1>2
  <2>2. u[k] = 0 /\ temp[k] = 0 /\ u[k - 1] = base * u[k] + temp[k]
    <3>1. q <= places - top
      BY <1>2
    <3>2. u[k] = 0
      BY <1>11, <3>1
    <3>3. temp[k] = 0
      BY <1>2, <2>1
    <3> QED BY <1>3, <2>1, <3>2, <3>3
  <2> QED BY <1>5, <2>1, <2>2
<1> HIDE DEF G
<1>12. u[top] = 0
  <2>1. places - top \in Nat /\ places - (places - top) = top
    BY <1>2
  <2>2. places - top \in G
    <3>1. \A q \in Nat : q \in G
      BY <1>10, <1>11, SetInduction
    <3> QED BY <2>1, <3>1
  <2> QED BY <2>1, <2>2 DEF G
<1>13. Valued(v, top, body, base)
  <2>1. ASSUME NEW k \in 0 .. top
        PROVE  v[k] = u[top - k] /\ u[top - k] \in Nat
    <3>1. top - k \in 0 .. places
      BY <1>2
    <3> QED BY <1>3, <3>1
  <2>2. v \in [0 .. top -> Nat]
    BY <2>1
  <2>3. v[0] = 0
    BY <1>2, <1>12, <2>1
  <2>4. ASSUME NEW k \in 1 .. top
        PROVE  v[k] = v[k - 1] * base + DigitOf(body[k])
    <3>1. k \in 0 .. top /\ k - 1 \in 0 .. top
      BY <1>2
    <3> PICK q : q = top + 1 - k
      OBVIOUS
    <3>2. q \in 1 .. places /\ top - (k - 1) = q /\ top - k = q - 1
      BY <1>2
    <3>3. v[k] = u[q - 1] /\ v[k - 1] = u[q] /\ u[q] \in Nat
      BY <2>1, <3>1, <3>2
    <3>4. u[q - 1] = base * u[q] + temp[q] /\ temp[q] = DigitOf(body[k])
      BY <1>3, <1>6, <1>7, <3>2
    <3> HIDE DEF v
    <3> QED BY <1>5, <3>3, <3>4
  <2> HIDE DEF v
  <2> QED BY <2>2, <2>3, <2>4 DEF Valued
<1>14. \A k \in 1 .. Len(body) : DigitOf(body[k]) \in Nat
  BY <1>6, <1>7, <1>8
<1>15. v[top] = u[0]
  BY <1>2
<1> HIDE DEF v
<1>16. HalvesSpelled(body, base) = HalfOf(u[0])
  <2>1. top \in Nat
    BY <1>2
  <2>2. HalvesSpelled(body, base) = HalfOf(v[top])
    BY <1>8, <1>13, <1>14, <2>1, HalvesSpelledIs
  <2> QED BY <1>15, <2>2
<1>17. Len(body) > 1 => body[1] # "0"
  <2> SUFFICES ASSUME top > 1 PROVE body[1] # "0"
    BY <1>8
  <2>1. 1 \in 1 .. top /\ top + 1 - 1 = top
    BY <1>2
  <2>2. digit[1] # 0
    BY <1>2, <1>6, <2>1
  <2> QED BY <1>7, <2>1, <2>2
<1>18. \A k \in 1 .. Len(body) : body[k] \in ToSet(lower) \cup ToSet(upper)
  BY <1>7, <1>8
<1>19. Len(body) \in Nat \ {0}
  BY <1>2, <1>8
<1> QED BY <1>8, <1>9, <1>16, <1>17, <1>18, <1>19, Zenon DEF Reads

LEMMA DividedInt ==
  ASSUME NEW x \in Int, NEW b \in Nat \ {0}
  PROVE  /\ x = b * (x \div b) + (x % b) /\ x \div b \in Int
         /\ x % b \in Nat /\ x % b < b
  OBVIOUS

(* A number that is shifted with its sign, and what is left of it when the *)
(* sign is not counted: the rest of the number without a sign.             *)
Place0(n, b, places, c, k) == IF n < 0 THEN c * Power(b, places - k) ELSE 0
Remains(n, b, places, c) == [k \in 0 .. places |-> Quotients(n, b)[k] + Place0(n, b, places, c, k)]
ShiftSays(n, b, places, c) ==
  /\ \A k \in 0 .. places : /\ Remains(n, b, places, c)[k] \in Nat
                            /\ Remains(n, b, places, c)[k] < c * Power(b, places - k)
  /\ \A k \in 1 .. places : Remains(n, b, places, c)[k - 1]
                              = b * Remains(n, b, places, c)[k] + (Quotients(n, b)[k - 1] % b)

LEMMA ShiftKeeps ==
  ASSUME NEW n \in Int, NEW b \in Nat, b >= 2, NEW places \in Nat, NEW c \in Nat,
         -(c * Power(b, places)) <= n, n < c * Power(b, places)
  PROVE  ShiftSays(n, b, places, c)
<1> PICK u : u = Remains(n, b, places, c)
  OBVIOUS
<1> PICK q : q = Quotients(n, b)
  OBVIOUS
<1> DEFINE m == [k \in 0 .. places |-> c * Power(b, places - k)]
<1>1. b \in Nat \ {0}
  OBVIOUS
<1>2. q \in [Nat -> Int] /\ q[0] = n /\ \A k \in Nat : q[k + 1] = q[k] \div b
  <2>1. QuotientsSay(n, b)
    BY <1>1, QuotientsAre
  <2> QED BY <2>1 DEF QuotientsSay
<1>3. \A k \in Nat : Power(b, k) \in Nat /\ Power(b, k + 1) = b * Power(b, k)
  BY PowerIs
<1>4. ASSUME NEW k \in 0 .. places
      PROVE  /\ m[k] \in Nat /\ m[k] = c * Power(b, places - k)
             /\ u[k] = q[k] + (IF n < 0 THEN m[k] ELSE 0) /\ u[k] \in Int
  <2>1. places - k \in Nat /\ k \in Nat
    OBVIOUS
  <2> PICK p : p = Power(b, places - k)
    OBVIOUS
  <2>2. p \in Nat /\ m[k] = c * p
    BY <1>3, <2>1
  <2>3. c * p \in Nat
    BY <2>2
  <2>4. u[k] = q[k] + (IF n < 0 THEN c * p ELSE 0)
    BY DEF Remains, Place0
  <2>5. q[k] \in Int
    BY <1>2, <2>1
  <2> HIDE DEF m
  <2> QED BY <2>2, <2>3, <2>4, <2>5
<1>5. ASSUME NEW k \in 1 .. places
      PROVE  m[k - 1] = b * m[k]
  <2>1. k \in 0 .. places /\ k - 1 \in 0 .. places /\ places - k \in Nat /\ (places - k) + 1 = places - (k - 1)
    OBVIOUS
  <2> PICK p : p = Power(b, places - k)
    OBVIOUS
  <2>2. p \in Nat /\ Power(b, places - (k - 1)) = b * p
    BY <1>3, <2>1
  <2>3. m[k] = c * p /\ m[k - 1] = c * (b * p)
    BY <1>4, <2>1, <2>2
  <2>4. c * (b * p) = b * (c * p)
    BY <2>2
  <2> HIDE DEF m
  <2> QED BY <2>3, <2>4
<1>6. -m[0] <= n /\ n < m[0]
  BY <1>4
<1> HIDE DEF m
<1>7. ASSUME NEW k \in 1 .. places
      PROVE  u[k - 1] = b * u[k] + (q[k - 1] % b)
  <2>1. k \in 0 .. places /\ k - 1 \in 0 .. places /\ k - 1 \in Nat /\ (k - 1) + 1 = k
    OBVIOUS
  <2> PICK x, y, w, z, r : x = q[k - 1] /\ y = q[k] /\ w = m[k - 1] /\ z = m[k] /\ r = x % b
    OBVIOUS
  <2>2. x \in Int /\ y = x \div b /\ w = b * z /\ z \in Nat
    BY <1>2, <1>4, <1>5, <2>1
  <2>3. x = b * y + r /\ r \in Int /\ y \in Int
    <3>1. x = b * (x \div b) + (x % b) /\ x \div b \in Int /\ x % b \in Nat
      BY <1>1, <2>2, DividedInt
    <3> QED BY <2>2, <3>1
  <2>4. u[k - 1] = x + (IF n < 0 THEN w ELSE 0) /\ u[k] = y + (IF n < 0 THEN z ELSE 0)
    BY <1>4, <2>1
  <2>5. CASE n < 0
    <3>1. b * (y + z) = b * y + b * z
      BY <2>2, <2>3
    <3>2. u[k - 1] = x + w /\ u[k] = y + z
      BY <2>4, <2>5
    <3>3. b * y \in Int /\ b * z \in Int
      BY <2>2, <2>3
    <3> PICK f, g : f = b * y /\ g = b * z
      OBVIOUS
    <3>4. f \in Int /\ g \in Int /\ x = f + r /\ w = g /\ b * (y + z) = f + g
      BY <2>2, <2>3, <3>1, <3>3
    <3>5. x + w = (f + g) + r
      BY <2>3, <3>4
    <3> PICK v, t : v = u[k] /\ t = y + z
      OBVIOUS
    <3>6. v = t /\ b * t = f + g
      BY <3>2, <3>4
    <3>7. b * v = f + g
      BY <3>6
    <3>8. u[k - 1] = b * u[k] + r
      <4>1. u[k - 1] = (f + g) + r
        BY <3>2, <3>5
      <4>2. b * u[k] = f + g
        BY <3>7
      <4> QED BY <4>1, <4>2
    <3>9. q[k - 1] \in Int /\ u[k] \in Int /\ r \in Int /\ r = q[k - 1] % b
      BY <1>2, <1>4, <2>1, <2>3
    <3> QED BY <3>8, <3>9
  <2>6. CASE ~(n < 0)
    <3>1. u[k - 1] = x + 0 /\ u[k] = y + 0
      BY <2>4, <2>6, Zenon
    <3>2. x \in Int
      BY <1>2, <2>1
    <3>3. u[k - 1] = x /\ u[k] = y
      BY <2>3, <3>1, <3>2
    <3>4. u[k - 1] = b * u[k] + r
      BY <2>3, <3>3
    <3>9. q[k - 1] \in Int /\ u[k] \in Int /\ r \in Int /\ r = q[k - 1] % b
      BY <1>2, <1>4, <2>1, <2>3
    <3> QED BY <3>4, <3>9
  <2> QED BY <2>5, <2>6
<1> DEFINE G == {k \in Nat : k <= places => u[k] \in Nat /\ u[k] < m[k]}
<1>8. 0 \in G
  <2>1. 0 \in 0 .. places
    OBVIOUS
  <2>2. u[0] = n + (IF n < 0 THEN m[0] ELSE 0) /\ m[0] \in Nat
    BY <1>2, <1>4, <2>1
  <2> QED BY <1>6, <2>2
<1>9. ASSUME NEW k \in Nat, k \in G
      PROVE  k + 1 \in G
  <2> SUFFICES ASSUME k + 1 <= places PROVE u[k + 1] \in Nat /\ u[k + 1] < m[k + 1]
    OBVIOUS
  <2>1. k + 1 \in 1 .. places /\ k + 1 \in 0 .. places /\ (k + 1) - 1 = k /\ k \in 0 .. places
    OBVIOUS
  <2> PICK x, y, z, r : x = u[k] /\ y = u[k + 1] /\ z = m[k + 1] /\ r = q[k] % b
    OBVIOUS
  <2>2. x = b * y + r /\ m[k] = b * z
    <3>1. u[(k + 1) - 1] = b * u[k + 1] + (q[(k + 1) - 1] % b)
      BY <1>7, <2>1
    <3>2. m[k] = b * z
      BY <1>5, <2>1
    <3>3. x = b * y + r
      <4>1. u[k] = b * u[k + 1] + (q[k] % b)
        BY <2>1, <3>1, Zenon
      <4>2. u[k + 1] \in Int /\ q[k] \in Int
        BY <1>2, <1>4, <2>1
      <4> QED BY <4>1, <4>2
    <3> QED BY <3>2, <3>3
  <2>3. x \in Nat /\ x < b * z
    <3>1. k <= places
      BY <2>1
    <3> QED BY <1>9, <2>2, <3>1
  <2>4. y \in Int /\ z \in Nat
    BY <1>4, <2>1
  <2>5. r \in Nat /\ r < b
    BY <1>1, <1>2
  <2>6. ~(y <= -1)
    <3> SUFFICES ASSUME y <= -1 PROVE FALSE
      OBVIOUS
    <3>1. b * y <= -b
      BY <2>4
    <3> QED BY <2>2, <2>3, <2>4, <2>5, <3>1
  <2>7. ~(y >= z)
    <3> SUFFICES ASSUME y >= z PROVE FALSE
      OBVIOUS
    <3>1. b * y >= b * z
      BY <2>4
    <3> QED BY <2>2, <2>3, <2>4, <2>5, <3>1
  <2> QED BY <2>4, <2>6, <2>7
<1> HIDE DEF G
<1>10. \A k \in Nat : k \in G
  BY <1>8, <1>9, SetInduction
<1>11. \A k \in 0 .. places : u[k] \in Nat /\ u[k] < c * Power(b, places - k)
  <2> TAKE k \in 0 .. places
  <2>1. k \in G /\ k <= places
    BY <1>10
  <2>2. u[k] \in Nat /\ u[k] < m[k]
    BY <2>1 DEF G
  <2> QED BY <1>4, <2>2
<1>12. \A k \in 1 .. places : u[k - 1] = b * u[k] + (Quotients(n, b)[k - 1] % b)
  BY <1>7
<1> QED BY <1>11, <1>12, Zenon DEF ShiftSays

(* 2^32 as a power of the bases that shift.                                *)
Word32 == 65536 * 65536

LEMMA Powers32 ==
  Power(2, 32) = Word32 /\ Power(16, 8) = Word32 /\ 4 * Power(8, 10) = Word32 /\ Word32 \in Nat
<1>1. ASSUME NEW b \in Nat, NEW k \in Nat, NEW p \in Nat, Power(b, k) = p
      PROVE  Power(b, k + 1) = b * p /\ Power(b, k + 2) = b * (b * p)
  <2>1. Power(b, k + 1) = b * p /\ b * p \in Nat
    BY <1>1, PowerIs
  <2>2. k + 1 \in Nat /\ (k + 1) + 1 = k + 2
    OBVIOUS
  <2>3. Power(b, (k + 1) + 1) = b * (b * p)
    BY <2>1, <2>2, PowerIs
  <2> QED BY <2>1, <2>2, <2>3
<1>2. Power(2, 0) = 1 /\ Power(16, 0) = 1 /\ Power(8, 0) = 1
  BY PowerIs
<1>3. Power(2, 2) = 4
  BY <1>1, <1>2
<1>4. Power(2, 4) = 16
  BY <1>1, <1>3
<1>5. Power(2, 6) = 64
  BY <1>1, <1>4
<1>6. Power(2, 8) = 256
  BY <1>1, <1>5
<1>7. Power(2, 10) = 1024
  BY <1>1, <1>6
<1>8. Power(2, 12) = 4096
  BY <1>1, <1>7
<1>9. Power(2, 14) = 16384
  BY <1>1, <1>8
<1>10. Power(2, 16) = 65536
  BY <1>1, <1>9
<1>11. Power(2, 18) = 262144
  BY <1>1, <1>10
<1>12. Power(2, 20) = 1048576
  BY <1>1, <1>11
<1>13. Power(2, 22) = 4194304
  BY <1>1, <1>12
<1>14. Power(2, 24) = 16777216
  BY <1>1, <1>13
<1>15. Power(2, 26) = 67108864
  BY <1>1, <1>14
<1>16. Power(2, 28) = 268435456
  BY <1>1, <1>15
<1>17. Power(2, 30) = 1073741824
  BY <1>1, <1>16
<1>18. Power(2, 32) = 4 * 1073741824
  BY <1>1, <1>17
<1>19. Power(16, 2) = 256
  BY <1>1, <1>2
<1>20. Power(16, 4) = 65536
  BY <1>1, <1>19
<1>21. Power(16, 6) = 16777216
  BY <1>1, <1>20
<1>22. Power(16, 8) = 256 * 16777216
  BY <1>1, <1>21
<1>23. Power(8, 2) = 64
  BY <1>1, <1>2
<1>24. Power(8, 4) = 4096
  BY <1>1, <1>23
<1>25. Power(8, 6) = 262144
  BY <1>1, <1>24
<1>26. Power(8, 8) = 16777216
  BY <1>1, <1>25
<1>27. Power(8, 10) = 1073741824
  BY <1>1, <1>26
<1> QED BY <1>18, <1>22, <1>27 DEF Word32

(* What a number of 32 bits is without a sign.                             *)
IsLong(n) == n \in Int /\ -2147483647 - 1 <= n /\ n <= 2147483647
NoSign(n) == IF n < 0 THEN n + Word32 ELSE n

LEMMA ShiftReads ==
  ASSUME NEW n \in Int, NEW b \in {2, 8, 16}, NEW places \in Nat \ {0}, NEW set \in {lower, upper},
         Power(b, places) = Word32, -Word32 <= n, n < Word32
  PROVE  Reads(InChars(Copied(Shifted(n, b, places)), set), b, NoSign(n))
<1> PICK q : q = Quotients(n, b)
  OBVIOUS
<1> PICK u : u = Remains(n, b, places, 1)
  OBVIOUS
<1> PICK temp : temp = [k \in 1 .. places |-> q[k - 1] % b]
  OBVIOUS
<1>1. b \in Nat \ {0} /\ b \in Nat /\ b >= 2 /\ b \in {2, 8, 10, 16} /\ places \in Nat
  OBVIOUS
<1>2. q \in [Nat -> Int] /\ q[0] = n
  <2>1. QuotientsSay(n, b)
    BY <1>1, QuotientsAre
  <2> QED BY <2>1 DEF QuotientsSay
<1>3. Word32 \in Nat
  BY Powers32
<1>4. ShiftSays(n, b, places, 1)
  <2>1. 1 * Power(b, places) = Word32
    BY <1>3
  <2> QED BY <1>1, <2>1, ShiftKeeps
<1>5. /\ \A k \in 0 .. places : u[k] \in Nat /\ u[k] < 1 * Power(b, places - k)
      /\ \A k \in 1 .. places : u[k - 1] = b * u[k] + (q[k - 1] % b)
  BY <1>4 DEF ShiftSays
<1>6. \A k \in 1 .. places : temp[k] = q[k - 1] % b /\ temp[k] \in Nat /\ temp[k] < b
  <2> TAKE k \in 1 .. places
  <2>1. q[k - 1] \in Int
    BY <1>2
  <2> QED BY <1>1, <2>1, DividedInt
<1>7. temp \in [1 .. places -> Nat]
  BY <1>6
<1>8. u[places] = 0
  <2>1. places \in 0 .. places /\ places - places = 0 /\ Power(b, 0) = 1
    BY <1>1, PowerIs
  <2>2. u[places] < 1 * Power(b, 0) /\ u[places] \in Nat
    BY <1>5, <2>1
  <2> QED BY <2>1, <2>2
<1>9. AddsUp(u, temp, places, b)
  <2>1. \A k \in 0 .. places : u[k] \in Nat
    BY <1>5
  <2>2. \A k \in 1 .. places : temp[k] < b /\ u[k - 1] = b * u[k] + temp[k]
    BY <1>5, <1>6
  <2> QED BY <1>8, <2>1, <2>2 DEF AddsUp
<1>10. u[0] = NoSign(n)
  <2>1. u[0] = n + (IF n < 0 THEN 1 * Power(b, places - 0) ELSE 0)
    BY <1>2 DEF Remains, Place0
  <2>2. places - 0 = places
    OBVIOUS
  <2> QED BY <1>3, <2>1, <2>2 DEF NoSign
<1>11. Shifted(n, b, places) = temp
  BY DEF Shifted
<1>12. Reads(InChars(Copied(temp), set), b, u[0])
  BY <1>1, <1>7, <1>9, DigitsRead
<1> QED BY <1>10, <1>11, <1>12

LEMMA Prtl2And16 ==
  ASSUME NEW n, IsLong(n)
  PROVE  /\ Reads(_prtl2(n), 2, NoSign(n))
         /\ Reads(_prtl16(n), 16, NoSign(n))
         /\ Reads(_prtX16(n), 16, NoSign(n))
<1>1. n \in Int /\ -Word32 <= n /\ n < Word32
  BY DEF IsLong, Word32
<1>2. Reads(InChars(Copied(Shifted(n, 2, 32)), lower), 2, NoSign(n))
  BY <1>1, Powers32, ShiftReads
<1>3. Reads(InChars(Copied(Shifted(n, 16, 8)), lower), 16, NoSign(n))
  BY <1>1, Powers32, ShiftReads
<1>4. Reads(InChars(Copied(Shifted(n, 16, 8)), upper), 16, NoSign(n))
  BY <1>1, Powers32, ShiftReads
<1> QED BY <1>2, <1>3, <1>4 DEF _prtl2, _prtl16, _prtX16

LEMMA Prtl8 ==
  ASSUME NEW n, IsLong(n)
  PROVE  Reads(_prtl8(n), 8, NoSign(n))
<1> PICK q : q = Quotients(n, 8)
  OBVIOUS
<1> PICK r : r = Remains(n, 8, 10, 4)
  OBVIOUS
<1> PICK temp : temp = [[k \in 1 .. 11 |-> q[k - 1] % 8] EXCEPT ![11] = @ % 4]
  OBVIOUS
<1> DEFINE u == [k \in 0 .. 11 |-> IF k = 11 THEN 0 ELSE r[k]]
<1>1. n \in Int /\ -Word32 <= n /\ n < Word32 /\ Word32 \in Nat
  BY DEF IsLong, Word32
<1>2. q \in [Nat -> Int] /\ q[0] = n
  <2>1. QuotientsSay(n, 8)
    BY <1>1, QuotientsAre
  <2> QED BY <2>1 DEF QuotientsSay
<1>3. ShiftSays(n, 8, 10, 4)
  <2>1. 8 \in Nat /\ 8 >= 2 /\ 10 \in Nat /\ 4 \in Nat
    OBVIOUS
  <2>2. -(4 * Power(8, 10)) <= n /\ n < 4 * Power(8, 10)
    BY <1>1, Powers32
  <2> QED BY <1>1, <2>1, <2>2, ShiftKeeps
<1>4. /\ \A k \in 0 .. 10 : r[k] \in Nat /\ r[k] < 4 * Power(8, 10 - k)
      /\ \A k \in 1 .. 10 : r[k - 1] = 8 * r[k] + (q[k - 1] % 8)
  BY <1>3 DEF ShiftSays
<1>5. \A k \in 1 .. 11 : q[k - 1] \in Int /\ q[k - 1] % 8 \in Nat /\ q[k - 1] % 8 < 8
  <2> TAKE k \in 1 .. 11
  <2>1. q[k - 1] \in Int
    BY <1>2
  <2> QED BY <2>1
<1>6. /\ \A k \in 1 .. 10 : temp[k] = q[k - 1] % 8
      /\ temp[11] = (q[10] % 8) % 4
  BY <1>5
<1>7. r[10] \in Nat /\ r[10] < 4
  <2>1. Power(8, 0) = 1 /\ 10 - 10 = 0 /\ 10 \in 0 .. 10
    BY PowerIs
  <2> QED BY <1>4, <2>1
<1>8. r[10] = temp[11]
  <2>1. r[10] = q[10] + (IF n < 0 THEN 4 * Power(8, 10 - 10) ELSE 0)
    BY DEF Remains, Place0
  <2>2. Power(8, 10 - 10) = 1
    BY PowerIs
  <2>3. q[10] \in Int
    BY <1>2
  <2> PICK x : x = q[10]
    OBVIOUS
  <2>4. x \in Int /\ r[10] = x + (IF n < 0 THEN 4 ELSE 0)
    BY <2>1, <2>2, <2>3
  <2>5. x + 4 \in {0, 1, 2, 3} \/ x \in {0, 1, 2, 3}
    BY <1>7, <2>4
  <2>6. CASE n < 0
    <3>1. x \in {-4, -3, -2, -1}
      BY <1>7, <2>4, <2>6
    <3>2. (x % 8) % 4 = x + 4
      BY <3>1
    <3> QED BY <1>6, <2>4, <2>6, <3>2
  <2>7. CASE ~(n < 0)
    <3>1. x \in {0, 1, 2, 3}
      BY <1>7, <2>4, <2>7
    <3>2. (x % 8) % 4 = x
      BY <3>1
    <3> QED BY <1>6, <2>4, <2>7, <3>2
  <2> QED BY <2>6, <2>7
<1>9. temp \in [1 .. 11 -> Nat]
  <2>1. DOMAIN temp = 1 .. 11 /\ temp = [k \in 1 .. 11 |-> temp[k]]
    OBVIOUS
  <2>2. \A k \in 1 .. 11 : temp[k] \in Nat
    <3> TAKE k \in 1 .. 11
    <3>1. k = 11 \/ k \in 1 .. 10
      OBVIOUS
    <3> QED BY <1>5, <1>6, <1>7, <1>8, <3>1
  <2> QED BY <2>1, <2>2
<1>10. AddsUp(u, temp, 11, 8)
  <2>1. u[11] = 0 /\ \A k \in 0 .. 10 : u[k] = r[k]
    OBVIOUS
  <2> HIDE DEF u
  <2>2. ASSUME NEW k \in 0 .. 11
        PROVE  u[k] \in Nat
    <3>1. k = 11 \/ k \in 0 .. 10
      OBVIOUS
    <3> QED BY <1>4, <2>1, <3>1
  <2>3. ASSUME NEW k \in 1 .. 11
        PROVE  temp[k] < 8 /\ u[k - 1] = 8 * u[k] + temp[k]
    <3>1. CASE k = 11
      <4>1. u[10] = r[10] /\ k - 1 = 10
        BY <2>1, <3>1
      <4> QED BY <1>7, <1>8, <2>1, <3>1, <4>1
    <3>2. CASE k # 11
      <4>1. k \in 1 .. 10 /\ k \in 0 .. 10 /\ k - 1 \in 0 .. 10
        BY <3>2
      <4>2. u[k - 1] = r[k - 1] /\ u[k] = r[k] /\ temp[k] = q[k - 1] % 8 /\ q[k - 1] % 8 < 8
        BY <1>5, <1>6, <2>1, <4>1
      <4>3. r[k - 1] = 8 * r[k] + (q[k - 1] % 8)
        BY <1>4, <4>1
      <4> QED BY <4>2, <4>3
    <3> QED BY <3>1, <3>2
  <2> QED BY <2>1, <2>2, <2>3 DEF AddsUp
<1>11. u[0] = NoSign(n)
  <2>1. u[0] = r[0]
    OBVIOUS
  <2>2. r[0] = n + (IF n < 0 THEN 4 * Power(8, 10 - 0) ELSE 0)
    BY <1>2 DEF Remains, Place0
  <2>3. 10 - 0 = 10
    OBVIOUS
  <2> QED BY <1>1, <2>1, <2>2, <2>3, Powers32 DEF NoSign
<1> HIDE DEF u
<1>12. Reads(InChars(Copied(temp), lower), 8, u[0])
  <2>1. 11 \in Nat \ {0} /\ 8 \in {2, 8, 10, 16} /\ lower \in {lower, upper}
    OBVIOUS
  <2> QED BY <1>9, <1>10, <2>1, DigitsRead
<1>13. _prtl8(n) = InChars(Copied(temp), lower)
  BY DEF _prtl8, Shifted
<1> QED BY <1>11, <1>12, <1>13

(* The digits of the number without its sign, in ten places.               *)
Amount(n) == IF n < 0 THEN -n ELSE n
Tenths(n, temp, u) ==
  /\ temp \in [1 .. 10 -> Nat] /\ AddsUp(u, temp, 10, 10)
  /\ u[0] = Amount(n) /\ Digits10(n) = Copied(temp)

LEMMA LowDigitIs ==
  ASSUME NEW n \in Int
  PROVE  /\ LowDigit(n) = Amount(n) % 10
         /\ (IF n >= 0 THEN n \div 10 ELSE -((n + LowDigit(n)) \div 10)) = Amount(n) \div 10
<1>1. CASE n >= 0
  BY <1>1 DEF Amount, LowDigit
<1>2. CASE ~(n >= 0)
  <2> PICK x, r : x = (-n) \div 10 /\ r = (-n) % 10
    OBVIOUS
  <2>1. -n = 10 * x + r /\ x \in Int /\ r \in Nat /\ r < 10 /\ -n \in Int
    BY DividedInt
  <2>2. CASE r = 0
    <3>1. n = (-x) * 10 + 0 /\ -x \in Int
      BY <2>1, <2>2
    <3>2. n % 10 = 0 /\ n \div 10 = -x
      BY <2>1, <3>1
    <3>3. LowDigit(n) = 0
      BY <1>2, <3>2 DEF LowDigit
    <3>4. (n + LowDigit(n)) \div 10 = -x
      BY <3>2, <3>3
    <3> QED BY <1>2, <2>1, <2>2, <3>3, <3>4 DEF Amount
  <2>3. CASE r # 0
    <3>1. n = (-x - 1) * 10 + (10 - r) /\ -x - 1 \in Int /\ 10 - r \in Nat /\ 10 - r < 10
      BY <2>1, <2>3
    <3>2. n % 10 = 10 - r
      BY <2>1, <3>1
    <3>3. LowDigit(n) = r
      <4>1. 10 - (10 - r) = r /\ r % 10 = r
        BY <2>1
      <4> QED BY <1>2, <3>2, <4>1 DEF LowDigit
    <3>4. n + r = (-x) * 10
      BY <2>1
    <3>5. (n + r) \div 10 = -x
      BY <2>1, <3>4
    <3> QED BY <1>2, <2>1, <3>3, <3>5 DEF Amount
  <2> QED BY <2>2, <2>3
<1> QED BY <1>1, <1>2

LEMMA Power10 == Power(10, 9) = 1000000000
<1>1. Power(10, 0) = 1
  BY PowerIs
<1>2. ASSUME NEW k \in Nat, NEW p \in Nat, Power(10, k) = p
      PROVE  Power(10, k + 3) = 1000 * p
  <2>1. Power(10, k + 1) = 10 * p /\ 10 * p \in Nat
    BY <1>2, PowerIs
  <2>2. Power(10, (k + 1) + 1) = 10 * (10 * p) /\ 10 * (10 * p) \in Nat
    BY <2>1, PowerIs
  <2>3. Power(10, ((k + 1) + 1) + 1) = 10 * (10 * (10 * p))
    BY <2>2, PowerIs
  <2>4. ((k + 1) + 1) + 1 = k + 3
    OBVIOUS
  <2> QED BY <2>3, <2>4
<1>3. Power(10, 3) = 1000
  BY <1>1, <1>2
<1>4. Power(10, 6) = 1000000
  BY <1>2, <1>3
<1> QED BY <1>2, <1>4

LEMMA TenthsAre ==
  ASSUME NEW n, IsLong(n)
  PROVE  \E temp, u : Tenths(n, temp, u)
<1> PICK m : m = Amount(n)
  OBVIOUS
<1> PICK rest : rest = m \div 10
  OBVIOUS
<1> PICK q : q = Quotients(rest, 10)
  OBVIOUS
<1> PICK r : r = Remains(rest, 10, 9, 1)
  OBVIOUS
<1> DEFINE temp == [k \in 1 .. 10 |-> IF k = 1 THEN m % 10 ELSE q[k - 2] % 10]
           u == [k \in 0 .. 10 |-> IF k = 0 THEN m ELSE r[k - 1]]
<1>0. n \in Int
  BY DEF IsLong
<1>1. n \in Int /\ m \in Nat /\ m <= 2147483648
  BY DEF Amount, IsLong
<1>2. rest \in Nat /\ m = 10 * rest + (m % 10) /\ m % 10 \in Nat /\ m % 10 < 10 /\ rest < 1000000000
  <2>1. m = 10 * (m \div 10) + (m % 10) /\ m \div 10 \in Int /\ m % 10 \in Nat /\ m % 10 < 10
    <3>1. m \in Int /\ 10 \in Nat \ {0}
      BY <1>1
    <3> HIDE DEF temp, u
    <3> QED BY <3>1, DividedInt
  <2> QED BY SMT, <1>1, <2>1
<1>3. q \in [Nat -> Int] /\ q[0] = rest
  <2>1. QuotientsSay(rest, 10)
    BY <1>2, QuotientsAre
  <2> QED BY <2>1 DEF QuotientsSay
<1>4. ShiftSays(rest, 10, 9, 1)
  <2>1. 10 \in Nat /\ 10 >= 2 /\ 9 \in Nat /\ 1 \in Nat /\ rest \in Int
    BY <1>2
  <2>2. -(1 * Power(10, 9)) <= rest /\ rest < 1 * Power(10, 9)
    BY <1>2, Power10
  <2> QED BY <2>1, <2>2, ShiftKeeps
<1>5. /\ \A k \in 0 .. 9 : r[k] \in Nat /\ r[k] < 1 * Power(10, 9 - k)
      /\ \A k \in 1 .. 9 : r[k - 1] = 10 * r[k] + (q[k - 1] % 10)
  BY <1>4 DEF ShiftSays
<1>6. r[0] = rest
  <2>1. r[0] = rest + 0
    BY <1>2, <1>3 DEF Remains, Place0
  <2> QED BY <1>2, <2>1
<1>7. r[9] = 0
  <2>1. 9 \in 0 .. 9 /\ 9 - 9 = 0 /\ Power(10, 0) = 1
    BY PowerIs
  <2> QED BY <1>5, <2>1
<1>8. \A k \in 2 .. 10 : /\ temp[k] = q[k - 2] % 10 /\ temp[k] \in Nat /\ temp[k] < 10
                         /\ u[k - 1] = r[k - 2] /\ u[k] = r[k - 1]
                         /\ r[k - 2] = 10 * r[k - 1] + temp[k]
  <2> TAKE k \in 2 .. 10
  <2> PICK x : x = k - 1
    OBVIOUS
  <2>1. x \in 1 .. 9 /\ k - 2 = x - 1 /\ q[x - 1] \in Int
    BY <1>3
  <2>2. q[x - 1] % 10 \in Nat /\ q[x - 1] % 10 < 10
    BY <2>1
  <2>3. temp[k] = q[x - 1] % 10
    BY <2>1
  <2>4. u[k - 1] = r[k - 2] /\ u[k] = r[k - 1]
    <3>1. k - 1 \in 0 .. 10 /\ k \in 0 .. 10 /\ k # 0 /\ k - 1 # 0 /\ (k - 1) - 1 = k - 2
      OBVIOUS
    <3> QED BY <3>1
  <2> HIDE DEF temp, u
  <2>5. r[x - 1] = 10 * r[x] + (q[x - 1] % 10)
    BY <1>5, <2>1
  <2> QED BY <2>1, <2>2, <2>3, <2>4, <2>5
<1>9. temp[1] = m % 10 /\ u[0] = m /\ u[1] = rest /\ u[10] = 0
  BY <1>6, <1>7
<1>10. Digits10(n) = Copied(temp)
  <2>1. LowDigit(n) = m % 10
    BY <1>0, LowDigitIs
  <2>2. (IF n >= 0 THEN n \div 10 ELSE -((n + LowDigit(n)) \div 10)) = rest
    BY <1>0, LowDigitIs
  <2>3. Digits10(n)
          = Copied([k \in 1 .. 10 |->
              IF k = 1 THEN LowDigit(n)
              ELSE Quotients(IF n >= 0 THEN n \div 10 ELSE -((n + LowDigit(n)) \div 10), 10)[k - 2] % 10])
    BY DEF Digits10
  <2> QED BY <2>1, <2>2, <2>3
<1>11. temp \in [1 .. 10 -> Nat]
  <2>1. \A k \in 1 .. 10 : temp[k] \in Nat
    <3> TAKE k \in 1 .. 10
    <3>1. k = 1 \/ k \in 2 .. 10
      OBVIOUS
    <3> HIDE DEF temp, u
    <3> QED BY <1>2, <1>8, <1>9, <3>1
  <2> QED BY <2>1
<1> HIDE DEF temp, u
<1>12. AddsUp(u, temp, 10, 10)
  <2>1. ASSUME NEW k \in 0 .. 10
        PROVE  u[k] \in Nat
    <3>1. k = 0 \/ k = 1 \/ (k \in 2 .. 10 /\ k - 1 \in 0 .. 9)
      OBVIOUS
    <3> QED BY <1>1, <1>2, <1>5, <1>8, <1>9, <3>1
  <2>2. ASSUME NEW k \in 1 .. 10
        PROVE  temp[k] < 10 /\ u[k - 1] = 10 * u[k] + temp[k]
    <3>1. k = 1 \/ k \in 2 .. 10
      OBVIOUS
    <3>2. CASE k = 1
      BY <1>1, <1>2, <1>9, <3>2
    <3>3. CASE k \in 2 .. 10
      BY <1>8, <3>3
    <3> QED BY <3>1, <3>2, <3>3
  <2> QED BY <1>9, <2>1, <2>2 DEF AddsUp
<1>13. Tenths(n, temp, u)
  BY <1>9, <1>10, <1>11, <1>12 DEF Tenths
<1> QED BY <1>13

LEMMA Prtl10 ==
  ASSUME NEW n, IsLong(n)
  PROVE  Reads(_prtl10(n), 10, Amount(n))
<1>1. PICK temp, u : Tenths(n, temp, u)
  BY TenthsAre
<1>2. temp \in [1 .. 10 -> Nat] /\ AddsUp(u, temp, 10, 10) /\ u[0] = Amount(n) /\ Digits10(n) = Copied(temp)
  BY <1>1 DEF Tenths
<1>3. Reads(InChars(Copied(temp), lower), 10, u[0])
  <2>1. 10 \in Nat \ {0} /\ 10 \in {2, 8, 10, 16} /\ lower \in {lower, upper}
    OBVIOUS
  <2> QED BY <1>2, <2>1, DigitsRead
<1> QED BY <1>2, <1>3 DEF _prtl10

(* %u takes 1000000000 off until the number fits an int without a sign.    *)
LessSays(n) ==
  /\ Less(n, 0) = n /\ \A k \in Nat : Less(n, k) \in Int /\ Less(n, k + 1) = LessTen9(Less(n, k))

LEMMA LessIs == ASSUME NEW n \in Int PROVE LessSays(n)
<1> DEFINE r[k \in Nat] == IF k = 0 THEN n ELSE LessTen9(r[k - 1])
           IsLess(f) == f = [k \in Nat |-> IF k = 0 THEN n ELSE LessTen9(f[k - 1])]
           step == [k \in Nat \ {0} |-> [c \in Int |-> LessTen9(c)]]
<1>0. \A c \in Int : LessTen9(c) \in Int
  BY SMT DEF LessTen9, Ten9
<1>1. step \in Steps(Int) /\ \A k \in Nat, c \in Int : step[k + 1][c] = LessTen9(c)
  <2>1. \A k \in Nat : k + 1 \in Nat \ {0}
    OBVIOUS
  <2> QED BY <1>0, <2>1 DEF Steps
<1> HIDE DEF step
<1>2. PICK f : Continues(f, Int, n, step)
  BY <1>1, RecursionOnNumbers
<1>3. f \in [Nat -> Int] /\ f[0] = n /\ \A k \in Nat : f[k + 1] = LessTen9(f[k])
  BY <1>1, <1>2 DEF Continues
<1>4. IsLess(f)
  <2>1. ASSUME NEW k \in Nat
        PROVE  f[k] = IF k = 0 THEN n ELSE LessTen9(f[k - 1])
    <3>1. CASE k = 0
      BY <1>3, <3>1
    <3>2. CASE k # 0
      <4>1. k - 1 \in Nat /\ (k - 1) + 1 = k
        BY <3>2
      <4> QED BY <1>3, <3>2, <4>1
    <3> QED BY <3>1, <3>2
  <2> QED BY <1>3, <2>1
<1>5. r = CHOOSE g : IsLess(g)
  OBVIOUS
<1>6. IsLess(r)
  <2> HIDE DEF IsLess, r
  <2> QED BY <1>4, <1>5
<1>7. r[0] = n /\ \A k \in Nat : r[k + 1] = LessTen9(r[k])
  <2> HIDE DEF r
  <2>1. \A k \in Nat : r[k] = IF k = 0 THEN n ELSE LessTen9(r[k - 1])
    BY <1>6
  <2>2. \A k \in Nat : k + 1 \in Nat /\ k + 1 # 0 /\ (k + 1) - 1 = k
    OBVIOUS
  <2> QED BY <2>1, <2>2
<1>8. \A k : Less(n, k) = r[k]
  BY DEF Less
<1> HIDE DEF r, IsLess
<1> DEFINE G == {k \in Nat : r[k] \in Int}
<1>10. 0 \in G
  BY <1>7
<1>11. ASSUME NEW k \in Nat, k \in G
       PROVE  k + 1 \in G
  BY <1>0, <1>7, <1>11
<1> HIDE DEF G
<1>12. \A k \in Nat : k \in G
  BY <1>10, <1>11, SetInduction
<1>13. \A k \in Nat : r[k] \in Int
  BY <1>12 DEF G
<1> QED BY <1>7, <1>8, <1>13 DEF LessSays

Taken(n, k) ==
  /\ k \in {0, 1, 2, 3} /\ IsLong(Less(n, k)) /\ Less(n, k) >= 0
  /\ Less(n, k) + k * Ten9 = NoSign(n) /\ (k # 0 => Less(n, k) >= Ten9)

LEMMA Digit1Is == ASSUME NEW n, IsLong(n) PROVE Taken(n, digit1(n))
<1>1. n \in Int /\ -2147483647 - 1 <= n /\ n <= 2147483647
  BY SMT DEF IsLong
<1> PICK v0, v1, v2, v3 : v0 = Less(n, 0) /\ v1 = Less(n, 1) /\ v2 = Less(n, 2) /\ v3 = Less(n, 3)
  OBVIOUS
<1>2. v0 = n /\ v1 = LessTen9(v0) /\ v2 = LessTen9(v1) /\ v3 = LessTen9(v2)
  <2>1. LessSays(n)
    BY <1>1, LessIs
  <2>2. Less(n, 0) = n /\ \A k \in Nat : Less(n, k + 1) = LessTen9(Less(n, k))
    BY <2>1, Zenon DEF LessSays
  <2>3. 0 + 1 = 1 /\ 1 + 1 = 2 /\ 2 + 1 = 3 /\ 0 \in Nat /\ 1 \in Nat /\ 2 \in Nat
    OBVIOUS
  <2>4. Less(n, 0 + 1) = LessTen9(Less(n, 0))
    BY <2>2, <2>3, Zenon
  <2>5. Less(n, 1 + 1) = LessTen9(Less(n, 1))
    BY <2>2, <2>3, Zenon
  <2>6. Less(n, 2 + 1) = LessTen9(Less(n, 2))
    BY <2>2, <2>3, Zenon
  <2> QED BY <2>2, <2>3, <2>4, <2>5, <2>6
<1> DEFINE Right(k) == Less(n, k) >= 0 /\ \A q \in 0 .. k - 1 : Less(n, q) < 0
<1>3. ASSUME NEW k \in 0 .. 3, Right(k), Taken(n, k)
      PROVE  Taken(n, digit1(n))
  <2>1. ASSUME NEW m \in 0 .. 3, Right(m)
        PROVE  m = k
    <3>1. ASSUME NEW x \in 0 .. 3, NEW y \in 0 .. 3, Right(x), Right(y), x < y
          PROVE  FALSE
      <4>1. x \in 0 .. y - 1 /\ Less(n, x) \in Int
        <5>1. LessSays(n)
          BY <1>1, LessIs
        <5> QED BY <3>1, <5>1, SMT DEF LessSays
      <4> QED BY <3>1, <4>1
    <3>2. ~(m < k) /\ ~(k < m)
      BY <1>3, <2>1, <3>1
    <3> QED BY <3>2
  <2>2. digit1(n) = CHOOSE m \in 0 .. 3 : Right(m)
    BY DEF digit1
  <2> HIDE DEF Right
  <2>3. digit1(n) = k
    BY <1>3, <2>1, <2>2
  <2> QED BY <1>3, <2>3
<1>4. CASE n >= 0
  <2>1. Right(0)
    BY SMT, <1>1, <1>2, <1>4
  <2>2. Taken(n, 0)
    <3>1. Ten9 \in Int
      BY SMT DEF Ten9
    <3>2. IsLong(Less(n, 0)) /\ Less(n, 0) >= 0
      BY SMT, <1>1, <1>2, <1>4 DEF IsLong
    <3>3. Less(n, 0) + 0 * Ten9 = NoSign(n)
      BY SMT, <1>1, <1>2, <1>4, <3>1 DEF NoSign
    <3> QED BY <3>2, <3>3 DEF Taken
  <2> HIDE DEF Right
  <2>3. 0 \in 0 .. 3
    OBVIOUS
  <2> QED BY <1>3, <2>1, <2>2, <2>3
<1>5. CASE n < 0 /\ v1 >= 0
  <2>1. Right(1)
    <3>1. \A q \in 0 .. 1 - 1 : q = 0
      OBVIOUS
    <3> QED BY SMT, <1>1, <1>2, <1>5, <3>1
  <2>2. v1 = n + Word32 - Ten9 /\ v1 <= 2147483647 /\ v1 >= Ten9 /\ v1 \in Int
    BY SMT, <1>1, <1>2, <1>5 DEF LessTen9, Ten9, Word32
  <2>3. Word32 \in Int /\ Ten9 \in Int
    BY SMT DEF Word32, Ten9
  <2>4. Taken(n, 1)
    BY SMT, <1>1, <1>2, <1>5, <2>2, <2>3 DEF Taken, NoSign, IsLong
  <2> HIDE DEF Right
  <2>5. 1 \in 0 .. 3
    OBVIOUS
  <2> QED BY <1>3, <2>1, <2>4, <2>5
<1>6. CASE n < 0 /\ v1 < 0 /\ v2 >= 0
  <2>1. Right(2)
    <3>1. \A q \in 0 .. 2 - 1 : q = 0 \/ q = 1
      OBVIOUS
    <3> QED BY SMT, <1>1, <1>2, <1>6, <3>1
  <2>2. v2 = n + Word32 - 2 * Ten9 /\ v2 <= 2147483647 /\ v2 >= Ten9 /\ v2 \in Int
    <3>1. v1 = n - Ten9 /\ v1 \in Int
      BY SMT, <1>1, <1>2, <1>6 DEF LessTen9, Ten9
    <3> QED BY SMT, <1>1, <1>2, <1>6, <3>1 DEF LessTen9, Ten9, Word32
  <2>3. Word32 \in Int /\ Ten9 \in Int
    BY SMT DEF Word32, Ten9
  <2>4. Taken(n, 2)
    BY SMT, <1>1, <1>2, <1>6, <2>2, <2>3 DEF Taken, NoSign, IsLong
  <2> HIDE DEF Right
  <2>5. 2 \in 0 .. 3
    OBVIOUS
  <2> QED BY <1>3, <2>1, <2>4, <2>5
<1>7. CASE n < 0 /\ v1 < 0 /\ v2 < 0
  <2>1. v1 = n - Ten9 /\ v1 \in Int
    BY SMT, <1>1, <1>2, <1>7 DEF LessTen9, Ten9
  <2>2. v2 = n - 2 * Ten9 /\ v2 \in Int
    BY SMT, <1>1, <1>2, <1>7, <2>1 DEF LessTen9, Ten9
  <2>3. v3 = n + Word32 - 3 * Ten9 /\ v3 <= 2147483647 /\ v3 >= Ten9 /\ v3 \in Int
    BY SMT, <1>1, <1>2, <1>7, <2>1, <2>2 DEF LessTen9, Ten9, Word32
  <2>4. Word32 \in Int /\ Ten9 \in Int /\ Ten9 >= 0
    BY SMT DEF Word32, Ten9
  <2>5. Right(3)
    <3>1. \A q \in 0 .. 3 - 1 : q = 0 \/ q = 1 \/ q = 2
      OBVIOUS
    <3> QED BY SMT, <1>1, <1>2, <1>7, <2>3, <2>4, <3>1
  <2>6. Taken(n, 3)
    BY SMT, <1>1, <1>2, <1>7, <2>3, <2>4 DEF Taken, NoSign, IsLong
  <2> HIDE DEF Right
  <2>7. 3 \in 0 .. 3
    OBVIOUS
  <2> QED BY <1>3, <2>5, <2>6, <2>7
<1>8. v1 \in Int /\ v2 \in Int
  <2>1. v1 \in Int
    BY SMT, <1>1, <1>2 DEF LessTen9, Ten9
  <2> QED BY SMT, <1>2, <2>1 DEF LessTen9, Ten9
<1>9. n >= 0 \/ (n < 0 /\ v1 >= 0) \/ (n < 0 /\ v1 < 0 /\ v2 >= 0) \/ (n < 0 /\ v1 < 0 /\ v2 < 0)
  BY SMT, <1>1, <1>8
<1> HIDE DEF Right
<1> QED BY <1>4, <1>5, <1>6, <1>7, <1>9

(* The lowest nine of ten digits hold less than 1000000000.                *)
LEMMA TenthDigit ==
  ASSUME NEW temp \in [1 .. 10 -> Nat], NEW u, AddsUp(u, temp, 10, 10)
  PROVE  u[9] = temp[10] /\ u[0] \in Nat /\ u[0] < Ten9 * (temp[10] + 1) /\ Ten9 * temp[10] <= u[0]
<1>1. /\ u[10] = 0 /\ \A k \in 0 .. 10 : u[k] \in Nat
      /\ \A k \in 1 .. 10 : temp[k] < 10 /\ u[k - 1] = 10 * u[k] + temp[k]
  BY DEF AddsUp
<1>2. ASSUME NEW k \in Nat, NEW q \in Nat, k + 1 = q, k < 10
      PROVE  u[k] \in Nat /\ u[q] \in Nat /\ 10 * u[q] <= u[k] /\ u[k] <= 10 * u[q] + 9
  <2>1. q \in 1 .. 10 /\ q \in 0 .. 10 /\ k \in 0 .. 10 /\ q - 1 = k
    BY <1>2
  <2>2. u[k] = 10 * u[q] + temp[q] /\ temp[q] < 10 /\ temp[q] \in Nat
    BY <1>1, <2>1
  <2> QED BY <1>1, <2>1, <2>2
<1>3. u[9] = temp[10]
  <2>1. u[10 - 1] = 10 * u[10] + temp[10] /\ temp[10] \in Nat
    BY <1>1
  <2> QED BY <1>1, <2>1
<1> PICK x0, x1, x2, x3, x4, x5, x6, x7, x8, x9 :
           /\ x0 = u[0] /\ x1 = u[1] /\ x2 = u[2] /\ x3 = u[3] /\ x4 = u[4]
           /\ x5 = u[5] /\ x6 = u[6] /\ x7 = u[7] /\ x8 = u[8] /\ x9 = u[9]
  OBVIOUS
<1>4. x0 \in Nat /\ x1 \in Nat /\ 10 * x1 <= x0 /\ x0 <= 10 * x1 + 9
  BY <1>2
<1>5. x2 \in Nat /\ 10 * x2 <= x1 /\ x1 <= 10 * x2 + 9
  BY <1>2
<1>6. x3 \in Nat /\ 10 * x3 <= x2 /\ x2 <= 10 * x3 + 9
  BY <1>2
<1>7. x4 \in Nat /\ 10 * x4 <= x3 /\ x3 <= 10 * x4 + 9
  BY <1>2
<1>8. x5 \in Nat /\ 10 * x5 <= x4 /\ x4 <= 10 * x5 + 9
  BY <1>2
<1>9. x6 \in Nat /\ 10 * x6 <= x5 /\ x5 <= 10 * x6 + 9
  BY <1>2
<1>10. x7 \in Nat /\ 10 * x7 <= x6 /\ x6 <= 10 * x7 + 9
  BY <1>2
<1>11. x8 \in Nat /\ 10 * x8 <= x7 /\ x7 <= 10 * x8 + 9
  BY <1>2
<1>12. x9 \in Nat /\ 10 * x9 <= x8 /\ x8 <= 10 * x9 + 9
  BY <1>2
<1>13. 1000 * x3 <= x0 /\ x0 <= 1000 * x3 + 999
  BY SMT, <1>4, <1>5, <1>6
<1>14. 1000 * x6 <= x3 /\ x3 <= 1000 * x6 + 999
  BY SMT, <1>6, <1>7, <1>8, <1>9
<1>15. 1000 * x9 <= x6 /\ x6 <= 1000 * x9 + 999
  BY SMT, <1>9, <1>10, <1>11, <1>12
<1>16. Ten9 * x9 <= x0 /\ x0 < Ten9 * (x9 + 1)
  BY SMT, <1>4, <1>6, <1>9, <1>12, <1>13, <1>14, <1>15 DEF Ten9
<1> QED BY <1>3, <1>4, <1>16

LEMMA Prtu ==
  ASSUME NEW n, IsLong(n)
  PROVE  Reads(_prtu(n), 10, NoSign(n))
<1> PICK c, w : c = digit1(n) /\ w = Less(n, digit1(n))
  OBVIOUS
<1>1. Taken(n, c)
  BY Digit1Is
<1>2. /\ c \in {0, 1, 2, 3} /\ IsLong(w) /\ w >= 0
      /\ w + c * Ten9 = NoSign(n) /\ (c # 0 => w >= Ten9)
  BY <1>1, Zenon DEF Taken
<1>3. PICK temp, u : Tenths(w, temp, u)
  BY <1>2, TenthsAre
<1>4. temp \in [1 .. 10 -> Nat] /\ AddsUp(u, temp, 10, 10) /\ u[0] = w /\ Digits10(w) = Copied(temp)
  <2>1. w \in Int
    BY <1>2, SMT DEF IsLong
  <2>2. Amount(w) = w
    BY <1>2, <2>1 DEF Amount
  <2> QED BY <1>3, <2>2, Zenon DEF Tenths
<1>5. 10 \in Nat \ {0} /\ 10 \in {2, 8, 10, 16} /\ lower \in {lower, upper}
  OBVIOUS
<1>6. PICK top : CopiesFrom(temp, 10, top)
  BY <1>4, <1>5, CopiedIs
<1> PICK d : d = Copied(temp)
  OBVIOUS
<1>7. /\ top \in 1 .. 10 /\ (\A k \in top + 1 .. 10 : temp[k] = 0)
      /\ d = [q \in 1 .. top |-> temp[top + 1 - q]]
  BY <1>6 DEF CopiesFrom
<1>8. _prtu(n) = InChars([d EXCEPT ![1] = @ + c], lower)
  BY <1>4 DEF _prtu
<1>9. CASE c = 0
  <2>1. d[1] \in Nat /\ d = [q \in 1 .. top |-> d[q]]
    <3>1. 1 \in 1 .. top /\ top + 1 - 1 \in 1 .. 10
      BY <1>7
    <3> QED BY <1>4, <1>7, <3>1
  <2>2. [d EXCEPT ![1] = @ + c] = d
    <3>1. d[1] + c = d[1]
      BY <1>9, <2>1
    <3>2. [d EXCEPT ![1] = d[1]] = d
      BY <2>1
    <3> QED BY <3>1, <3>2
  <2>3. Reads(InChars(Copied(temp), lower), 10, u[0])
    BY <1>4, <1>5, DigitsRead
  <2>4. NoSign(n) = w
    <3>1. Ten9 \in Int /\ w \in Int
      BY <1>2, SMT DEF Ten9, IsLong
    <3> QED BY <1>2, <1>9, <3>1
  <2> QED BY <1>4, <1>8, <2>2, <2>3, <2>4
<1>10. CASE c # 0
  <2> DEFINE raised == [temp EXCEPT ![10] = @ + c]
             r == [k \in 0 .. 10 |-> IF k = 10 THEN 0 ELSE u[k] + c * Power(10, 9 - k)]
  <2>0. Ten9 \in Nat /\ c \in Nat /\ c <= 3 /\ w \in Int /\ w <= 2147483647 /\ Ten9 = 1000000000
    BY <1>2, SMT DEF Ten9, IsLong
  <2>1. u[9] = temp[10] /\ temp[10] \in Nat /\ temp[10] # 0 /\ temp[10] + c < 10
    <3>1. u[9] = temp[10] /\ w < Ten9 * (temp[10] + 1) /\ Ten9 * temp[10] <= w
      BY <1>4, TenthDigit
    <3>2. temp[10] \in Nat
      BY <1>4
    <3>3. temp[10] # 0 /\ temp[10] <= 2
      BY <1>2, <1>10, <2>0, <3>1, <3>2, SMT
    <3> HIDE DEF raised, r
    <3> QED BY <2>0, <3>1, <3>2, <3>3, SMT
  <2>2. top = 10
    BY <1>7, <2>1
  <2>3. raised \in [1 .. 10 -> Nat] /\ raised[10] = temp[10] + c /\ \A k \in 1 .. 9 : raised[k] = temp[k]
    BY <1>4, <2>0, <2>1, SMT
  <2>4. \A k \in Nat : Power(10, k) \in Nat /\ Power(10, k + 1) = 10 * Power(10, k)
    BY PowerIs
  <2>5. /\ u[10] = 0 /\ \A k \in 0 .. 10 : u[k] \in Nat
        /\ \A k \in 1 .. 10 : temp[k] < 10 /\ u[k - 1] = 10 * u[k] + temp[k]
    BY <1>4 DEF AddsUp
  <2>6. \A k \in 0 .. 9 : r[k] = u[k] + c * Power(10, 9 - k) /\ r[k] \in Nat
    <3> TAKE k \in 0 .. 9
    <3>1. 9 - k \in Nat /\ k \in 0 .. 10 /\ k # 10
      OBVIOUS
    <3> PICK p : p = Power(10, 9 - k)
      OBVIOUS
    <3>2. p \in Nat /\ u[k] \in Nat /\ c * p \in Nat
      <4>1. p \in Nat
        BY <2>4, <3>1
      <4>2. c * p \in Nat
        BY <2>0, <4>1, SMT
      <4> QED BY <2>5, <3>1, <4>1, <4>2
    <3>3. r[k] = u[k] + c * p
      BY <3>1
    <3> HIDE DEF r, raised
    <3> QED BY <3>2, <3>3
  <2>7. r[10] = 0
    OBVIOUS
  <2>8. r[9] = raised[10]
    <3>1. Power(10, 0) = 1 /\ 9 - 9 = 0
      BY PowerIs
    <3>2. r[9] = u[9] + c * Power(10, 9 - 9)
      BY <2>6
    <3> HIDE DEF r, raised
    <3> QED BY <2>0, <2>1, <2>3, <3>1, <3>2, SMT
  <2>9. r[0] = NoSign(n)
    <3>1. r[0] = u[0] + c * Power(10, 9 - 0) /\ 9 - 0 = 9
      BY <2>6
    <3>2. Power(10, 9) = Ten9
      BY <2>0, Power10, SMT
    <3> HIDE DEF r, raised
    <3> QED BY <1>2, <1>4, <3>1, <3>2, Zenon
  <2>10. CopiesFrom(raised, 10, 10)
    <3>1. PICK t : CopiesFrom(raised, 10, t)
      BY <1>5, <2>3, CopiedIs
    <3>2. t \in 1 .. 10 /\ \A k \in t + 1 .. 10 : raised[k] = 0
      BY <3>1 DEF CopiesFrom
    <3>3. raised[10] # 0
      BY <2>0, <2>1, <2>3, SMT
    <3>4. t = 10
      BY <3>2, <3>3
    <3> QED BY <3>1, <3>4
  <2>11. Copied(raised) = [d EXCEPT ![1] = @ + c]
    <3>1. Copied(raised) = [q \in 1 .. 10 |-> raised[10 + 1 - q]]
      BY <2>10 DEF CopiesFrom
    <3>2. d = [q \in 1 .. 10 |-> temp[10 + 1 - q]]
      BY <1>7, <2>2
    <3> HIDE DEF raised
    <3>3. ASSUME NEW q \in 1 .. 10
          PROVE  raised[10 + 1 - q] = [d EXCEPT ![1] = @ + c][q]
      <4>1. CASE q = 1
        <5>1. 10 + 1 - 1 = 10
          OBVIOUS
        <5>2. [d EXCEPT ![1] = @ + c][1] = temp[10] + c
          BY <3>2, <5>1
        <5> QED BY <2>3, <4>1, <5>1, <5>2
      <4>2. CASE q # 1
        <5>1. 10 + 1 - q \in 1 .. 9
          BY <4>2
        <5>2. [d EXCEPT ![1] = @ + c][q] = temp[10 + 1 - q]
          BY <3>2, <4>2
        <5> QED BY <2>3, <5>1, <5>2
      <4> QED BY <4>1, <4>2
    <3>4. [d EXCEPT ![1] = @ + c] = [q \in 1 .. 10 |-> [d EXCEPT ![1] = @ + c][q]]
      BY <3>2
    <3> QED BY <3>1, <3>3, <3>4
  <2>12. AddsUp(r, raised, 10, 10)
    <3> HIDE DEF r, raised
    <3>1. ASSUME NEW k \in 0 .. 10
          PROVE  r[k] \in Nat
      <4>1. k = 10 \/ k \in 0 .. 9
        OBVIOUS
      <4> QED BY <2>6, <2>7, <4>1
    <3>2. ASSUME NEW k \in 1 .. 10
          PROVE  raised[k] < 10 /\ r[k - 1] = 10 * r[k] + raised[k]
      <4>1. CASE k = 10
        <5>1. raised[10] < 10 /\ raised[10] \in Nat
          BY <2>0, <2>1, <2>3, SMT
        <5>2. k - 1 = 9
          BY <4>1
        <5> QED BY <2>7, <2>8, <4>1, <5>1, <5>2
      <4>2. CASE k # 10
        <5>1. k \in 1 .. 9 /\ k \in 0 .. 9 /\ k - 1 \in 0 .. 9 /\ 9 - k \in Nat /\ (9 - k) + 1 = 9 - (k - 1)
          BY <4>2
        <5> PICK p, x, y, t : p = Power(10, 9 - k) /\ x = u[k - 1] /\ y = u[k] /\ t = temp[k]
          OBVIOUS
        <5>2. p \in Nat /\ Power(10, 9 - (k - 1)) = 10 * p
          BY <2>4, <5>1
        <5>3. x = 10 * y + t /\ y \in Nat /\ t \in Nat /\ t < 10
          BY <1>4, <2>5, <5>1
        <5>4. r[k - 1] = x + c * (10 * p) /\ r[k] = y + c * p
          BY <2>6, <5>1, <5>2
        <5>5. c * (10 * p) = 10 * (c * p) /\ c * p \in Nat
          BY <2>0, <5>2, SMT
        <5>6. raised[k] = t
          BY <2>3, <5>1
        <5>7. r[k - 1] = 10 * r[k] + t
          BY <5>3, <5>4, <5>5, SMT
        <5> QED BY <5>3, <5>6, <5>7
      <4> QED BY <4>1, <4>2
    <3> QED BY <2>7, <3>1, <3>2 DEF AddsUp
  <2>13. Reads(InChars(Copied(raised), lower), 10, r[0])
    <3> HIDE DEF r, raised
    <3> QED BY <1>5, <2>3, <2>12, DigitsRead
  <2> HIDE DEF r, raised
  <2> QED BY <1>8, <2>9, <2>11, <2>13
<1> QED BY <1>9, <1>10

LEMMA HalfIs ==
  ASSUME NEW x \in Int, NEW y \in Nat, y < 65536, NEW z, z = x * 65536 + y
  PROVE  HalfOf(z) = <<x, y>>
<1> PICK h : h = 65536
  OBVIOUS
<1>1. h \in Nat /\ h > 0 /\ y < h /\ z = x * h + y
  BY SMT
<1>2. z \div h = x /\ z % h = y
  BY SMT, <1>1, QuotientIs
<1> QED BY SMT, <1>2 DEF HalfOf

(* The halves of a number, and of its negative, are what is read back.     *)
LEMMA HalvesAre ==
  ASSUME NEW n, IsLong(n)
  PROVE  /\ HalfOf(NoSign(n)) = Halves(n)
         /\ HalfOf(Amount(n)) = IF n < 0 THEN Negated(Halves(n)) ELSE Halves(n)
<1> PICK q, r, s : q = n \div 65536 /\ r = n % 65536 /\ s = q % 65536
  OBVIOUS
<1>1. n \in Int /\ -2147483647 - 1 <= n /\ n <= 2147483647
  BY SMT DEF IsLong
<1>2. n = 65536 * q + r /\ q \in Int /\ r \in Nat /\ r < 65536
  <2>1. 65536 \in Nat \ {0}
    BY SMT
  <2>2. n = 65536 * (n \div 65536) + (n % 65536) /\ n \div 65536 \in Int /\ n % 65536 \in Nat /\ n % 65536 < 65536
    BY SMT, <1>1, <2>1, DividedInt
  <2> QED BY SMT, <2>2
<1>3. q >= -32768 /\ q < 32768
  BY SMT, <1>1, <1>2
<1>4. Halves(n) = <<s, r>>
  BY SMT DEF Halves
<1>6. CASE n >= 0
  <2>1. q >= 0
    BY SMT, <1>2, <1>6
  <2>2. s = q
    BY SMT, <1>2, <1>3, <2>1
  <2>3. n = q * 65536 + r
    BY SMT, <1>2
  <2>4. HalfOf(n) = <<s, r>>
    <3>1. HalfOf(n) = <<q, r>>
      BY SMT DEF HalfOf
    <3> QED BY <2>2, <3>1, SMT
  <2>5. NoSign(n) = n /\ Amount(n) = n /\ ~(n < 0)
    BY SMT, <1>1, <1>6 DEF NoSign, Amount
  <2> QED BY SMT, <1>4, <2>4, <2>5
<1>7. CASE n < 0
  <2>1. q < 0
    BY SMT, <1>2, <1>7
  <2>2. s = q + 65536
    <3>1. q = (-1) * 65536 + (q + 65536) /\ q + 65536 \in Nat /\ q + 65536 < 65536 /\ -1 \in Int
      BY SMT, <1>2, <1>3, <2>1
    <3> PICK h : h = 65536
      OBVIOUS
    <3>2. h \in Nat /\ h > 0 /\ q = (-1) * h + (q + h) /\ q + h \in Nat /\ q + h < h
      BY SMT, <3>1
    <3>3. q % h = q + h
      BY SMT, <3>1, <3>2, QuotientIs
    <3> QED BY SMT, <3>3
  <2>3. NoSign(n) = (q + 65536) * 65536 + r /\ Amount(n) = -n
    BY SMT, <1>1, <1>2, <1>7 DEF NoSign, Amount, Word32
  <2>4. HalfOf(NoSign(n)) = <<s, r>>
    <3>1. q + 65536 \in Int
      BY SMT, <1>2
    <3>2. HalfOf(NoSign(n)) = <<q + 65536, r>>
      <4> PICK x, y, z : x = q + 65536 /\ y = r /\ z = NoSign(n)
        OBVIOUS
      <4>1. x \in Int /\ y \in Nat /\ y < 65536 /\ z = x * 65536 + y
        BY SMT, <1>2, <2>3, <3>1
      <4>2. HalfOf(z) = <<x, y>>
        BY SMT, <4>1, HalfIs
      <4> QED BY SMT, <4>2
    <3> QED BY SMT, <2>2, <2>3, <3>2
  <2>5. HalfOf(-n) = Negated(<<s, r>>)
    <3>1. CASE r = 0
      <4>1. -n = (-q) * 65536 + 0 /\ -q \in Int /\ 0 \in Nat /\ 0 < 65536
        BY SMT, <1>2, <3>1
      <4>2. HalfOf(-n) = <<-q, 0>>
        <5> PICK x, y, z : x = -q /\ y = 0 /\ z = -n
          OBVIOUS
        <5>1. x \in Int /\ y \in Nat /\ y < 65536 /\ z = x * 65536 + y
          BY SMT, <4>1
        <5>2. HalfOf(z) = <<x, y>>
          BY SMT, <5>1, HalfIs
        <5> QED BY SMT, <5>2
      <4>3. (65536 - s) % 65536 = -q
        <5>1. 65536 - s = -q /\ -q \in Nat /\ -q < 65536
          BY SMT, <1>2, <1>3, <2>1, <2>2
        <5> QED BY SMT, <5>1
      <4>4. Negated(<<s, r>>) = <<(65536 - s) % 65536, 0>>
        BY SMT, <3>1 DEF Negated
      <4> QED BY SMT, <4>2, <4>3, <4>4
    <3>2. CASE r # 0
      <4>1. -n = (-q - 1) * 65536 + (65536 - r) /\ -q - 1 \in Int /\ 65536 - r \in Nat /\ 65536 - r < 65536
        BY SMT, <1>2, <3>2
      <4>2. HalfOf(-n) = <<-q - 1, 65536 - r>>
        <5> PICK x, y, z : x = -q - 1 /\ y = 65536 - r /\ z = -n
          OBVIOUS
        <5>1. x \in Int /\ y \in Nat /\ y < 65536 /\ z = x * 65536 + y
          BY SMT, <4>1
        <5>2. HalfOf(z) = <<x, y>>
          BY SMT, <5>1, HalfIs
        <5> QED BY SMT, <5>2
      <4>3. Negated(<<s, r>>) = <<65535 - s, 65536 - r>>
        BY SMT, <3>2 DEF Negated
      <4>4. 65535 - s = -q - 1
        BY SMT, <1>2, <2>2
      <4> QED BY SMT, <4>2, <4>3, <4>4
    <3> QED BY SMT, <3>1, <3>2
  <2> QED BY SMT, <1>4, <1>7, <2>3, <2>4, <2>5
<1> QED BY SMT, <1>1, <1>6, <1>7

(* Whatever a numeric conversion prints reads as its argument.             *)
Spells(body, conv, n) ==
  /\ body \in Seq(Printed) /\ Len(body) \in Nat \ {0}
  /\ \A k \in 1 .. Len(body) : body[k] \in ToSet(lower) \cup ToSet(upper)
  /\ Len(body) > 1 => body[1] # "0"
  /\ HalvesSpelled(body, BaseOf(conv))
       = IF conv = "d" /\ n < 0 THEN Negated(Halves(n)) ELSE Halves(n)

LEMMA NumeralSpells ==
  ASSUME NEW n, IsLong(n), NEW conv \in Numeric
  PROVE  Spells(Numeral(conv, n), conv, n)
<1> PICK v : v = IF conv = "d" THEN Amount(n) ELSE NoSign(n)
  OBVIOUS
<1>1. Reads(Numeral(conv, n), BaseOf(conv), v)
  <2>1. CASE conv = "d"
    BY <2>1, Prtl10, Zenon DEF Numeral, BaseOf
  <2>2. CASE conv = "u"
    BY <2>2, Prtu, Zenon DEF Numeral, BaseOf
  <2>3. CASE conv = "o"
    BY <2>3, Prtl8, Zenon DEF Numeral, BaseOf
  <2>4. CASE conv = "x"
    BY <2>4, Prtl2And16, Zenon DEF Numeral, BaseOf
  <2>5. CASE conv = "X"
    BY <2>5, Prtl2And16, Zenon DEF Numeral, BaseOf
  <2>6. CASE conv = "b"
    BY <2>6, Prtl2And16, Zenon DEF Numeral, BaseOf
  <2> QED BY <2>1, <2>2, <2>3, <2>4, <2>5, <2>6 DEF Numeric
<1>2. HalfOf(v) = IF conv = "d" /\ n < 0 THEN Negated(Halves(n)) ELSE Halves(n)
  <2>1. CASE conv = "d"
    BY <2>1, HalvesAre, Zenon
  <2>2. CASE conv # "d"
    BY <2>2, HalvesAre, Zenon
  <2> QED BY <2>1, <2>2
<1> QED BY <1>1, <1>2, Zenon DEF Reads, Spells

-----------------------------------------------------------------------------
(* Pieces that are put together, and taken out again.                      *)
JoinSays(S, x, y) ==
  /\ x \o y \in Seq(S) /\ Len(x \o y) = Len(x) + Len(y)
  /\ \A k \in 1 .. Len(x) : (x \o y)[k] = x[k]
  /\ \A k \in 1 .. Len(y) : (x \o y)[Len(x) + k] = y[k]

LEMMA JoinIs ==
  ASSUME NEW S, NEW x \in Seq(S), NEW y \in Seq(S)
  PROVE  JoinSays(S, x, y)
<1>1. x \o y \in Seq(S) /\ Len(x \o y) = Len(x) + Len(y) /\ Len(x) \in Nat /\ Len(y) \in Nat
  OBVIOUS
<1>2. \A k \in 1 .. Len(x) : (x \o y)[k] = x[k]
  OBVIOUS
<1>3. \A k \in 1 .. Len(y) : (x \o y)[Len(x) + k] = y[k]
  <2> TAKE k \in 1 .. Len(y)
  <2>1. Len(x) + k \in 1 .. Len(x) + Len(y) /\ ~(Len(x) + k <= Len(x)) /\ (Len(x) + k) - Len(x) = k
    BY <1>1
  <2> QED BY <2>1
<1> QED BY <1>1, <1>2, <1>3 DEF JoinSays

LEMMA SameSeq ==
  ASSUME NEW S, NEW x \in Seq(S), NEW T, NEW y \in Seq(T), Len(x) = Len(y),
         \A k \in 1 .. Len(x) : x[k] = y[k]
  PROVE  x = y
  OBVIOUS

LEMMA EmptyJoin ==
  ASSUME NEW S, NEW x \in Seq(S)
  PROVE  << >> \o x = x /\ x \o << >> = x
<1>1. << >> \in Seq(S) /\ Len(<< >>) = 0 /\ Len(x) \in Nat
  OBVIOUS
<1>2. << >> \o x = x
  <2>1. << >> \o x \in Seq(S) /\ Len(<< >> \o x) = Len(x)
    BY <1>1
  <2>2. \A k \in 1 .. Len(x) : (<< >> \o x)[k] = x[k]
    BY <1>1
  <2> QED BY <2>1, <2>2, SameSeq
<1>3. x \o << >> = x
  <2>1. x \o << >> \in Seq(S) /\ Len(x \o << >>) = Len(x)
    BY <1>1
  <2>2. \A k \in 1 .. Len(x) : (x \o << >>)[k] = x[k]
    BY <1>1
  <2> QED BY <2>1, <2>2, SameSeq
<1> QED BY <1>2, <1>3

LEMMA LastPiece ==
  ASSUME NEW S, NEW x \in Seq(S), NEW y \in Seq(S)
  PROVE  SubSeq(x \o y, Len(x) + 1, Len(x \o y)) = y
<1> PICK e, n, m : e = x \o y /\ n = Len(x) /\ m = Len(y)
  OBVIOUS
<1>1. e \in Seq(S) /\ Len(e) = n + m /\ n \in Nat /\ m \in Nat /\ \A k \in 1 .. m : e[n + k] = y[k]
  BY JoinIs DEF JoinSays
<1> PICK t : t = SubSeq(e, n + 1, n + m)
  OBVIOUS
<1>2. t \in Seq(S) /\ Len(t) = m
  BY <1>1
<1>3. ASSUME NEW k \in 1 .. m
      PROVE  t[k] = y[k]
  <2>1. t[k] = e[n + k]
    BY <1>1
  <2> QED BY <1>1, <2>1
<1>4. t = y
  BY <1>1, <1>2, <1>3, SameSeq
<1> QED BY <1>1, <1>4

LEMMA CutIs ==
  ASSUME NEW S, NEW e \in Seq(S), NEW n \in Nat, NEW m \in Nat, n + m <= Len(e)
  PROVE  /\ SubSeq(e, n + 1, n + m) \in Seq(S) /\ Len(SubSeq(e, n + 1, n + m)) = m
         /\ \A k \in 1 .. m : SubSeq(e, n + 1, n + m)[k] = e[n + k]
  OBVIOUS

LEMMA MiddlePiece ==
  ASSUME NEW S, NEW x \in Seq(S), NEW y \in Seq(S), NEW z \in Seq(S)
  PROVE  SubSeq((x \o y) \o z, Len(x) + 1, Len((x \o y) \o z) - Len(z)) = y
<1> PICK e, f, n, m, r : e = (x \o y) \o z /\ f = x \o y /\ n = Len(x) /\ m = Len(y) /\ r = Len(z)
  OBVIOUS
<1>1. f \in Seq(S) /\ Len(f) = n + m /\ n \in Nat /\ m \in Nat /\ \A k \in 1 .. m : f[n + k] = y[k]
  BY JoinIs DEF JoinSays
<1>2. e = f \o z /\ r \in Nat
  OBVIOUS
<1>3. e \in Seq(S) /\ Len(e) = Len(f) + r /\ \A k \in 1 .. Len(f) : e[k] = f[k]
  BY <1>1, <1>2, JoinIs DEF JoinSays
<1>4. Len(e) - r = n + m
  BY <1>1, <1>2, <1>3
<1> PICK t : t = SubSeq(e, n + 1, n + m)
  OBVIOUS
<1>5. t \in Seq(S) /\ Len(t) = m
  <2>1. e \in Seq(S) /\ Len(e) \in Nat /\ n \in Nat /\ m \in Nat /\ n + m <= Len(e)
    BY <1>1, <1>2, <1>3
  <2> QED BY <2>1, CutIs
<1>6. ASSUME NEW k \in 1 .. m
      PROVE  t[k] = y[k]
  <2>1. t[k] = e[n + k]
    BY <1>1, <1>2, <1>3
  <2>2. n + k \in 1 .. Len(f)
    BY <1>1
  <2> QED BY <1>1, <1>3, <2>1, <2>2
<1>7. t = y
  BY <1>1, <1>5, <1>6, SameSeq
<1> QED BY <1>4, <1>7

LEMMA TimesAre ==
  ASSUME NEW S, NEW c \in S, NEW n \in Int
  PROVE  /\ Times(c, n) \in Seq(S) /\ Len(Times(c, n)) = (IF n > 0 THEN n ELSE 0)
         /\ Times(c, n) = Times(c, IF n > 0 THEN n ELSE 0)
<1> PICK m : m = IF n > 0 THEN n ELSE 0
  OBVIOUS
<1>1. m \in Nat /\ m = IF m > 0 THEN m ELSE 0
  OBVIOUS
<1>2. Times(c, n) = [k \in 1 .. m |-> c]
  BY DEF Times
<1>3. Times(c, m) = [k \in 1 .. m |-> c]
  BY <1>1 DEF Times
<1>4. [k \in 1 .. m |-> c] \in Seq(S) /\ Len([k \in 1 .. m |-> c]) = m
  BY <1>1
<1> QED BY <1>2, <1>3, <1>4

-----------------------------------------------------------------------------
(* What a format, and what is printed, is made of.                         *)
Pad == " "
Letter == (STRING \cup {"%", "-", "0", "a", "(", "n", "u", "l", ")"} \cup Printed \cup {Pad})
            \cup (Numeric \cup Pairs \cup {"c", "s", "f", "k"})

(* The directive at the start of a format.                                 *)
IsArgs(args) ==
  /\ Len(args) \in {2, 3}
  /\ \A k \in 1 .. Len(args) : IsLong(args[k].long) /\ args[k].text \in Seq(Letter)

LEMMA ArgsLen ==
  ASSUME NEW args, IsArgs(args)
  PROVE  Len(args) \in Nat /\ Len(args) >= 2
<1>1. Len(args) \in {2, 3}
  BY Zenon DEF IsArgs
<1> PICK n : n = Len(args)
  OBVIOUS
<1>2. n \in {2, 3}
  BY <1>1
<1> HIDE DEF IsArgs
<1>3. n \in Nat /\ n >= 2
  BY <1>2
<1> QED BY <1>3

LEMMA DecimalsAre == \A c \in Decimals : DigitOf(c) \in Int /\ c # "NUL"
<1> SUFFICES ASSUME NEW c \in Decimals PROVE DigitOf(c) \in Int /\ c # "NUL"
  OBVIOUS
<1>1. PICK k \in 1 .. 10 : c = lower[k]
  BY DEF Decimals
<1>2. k - 1 \in Nat /\ k - 1 < 16 /\ (k - 1) + 1 = k /\ k \in 1 .. 16
  OBVIOUS
<1>3. CharacterSays(lower)
  BY Characters16
<1>4. DigitOf(lower[(k - 1) + 1]) = k - 1
  BY <1>2, <1>3, Zenon DEF CharacterSays
<1>5. Place(c) = k
  BY <1>1, <1>2, PlaceIs
<1>6. Place("NUL") = 16
  BY DEF Place
<1> QED BY <1>1, <1>2, <1>4, <1>5, <1>6

EndsAt(k, e) ==
  /\ e \in k .. Len(fmt) + 1 /\ Ch(e) \notin Decimals /\ \A q \in k .. e - 1 : Ch(q) \in Decimals

LEMMA EndIs ==
  ASSUME fmt \in Seq(Letter), NEW k \in 1 .. Len(fmt) + 1
  PROVE  \E e : EndsAt(k, e)
<1> DEFINE P == {e \in Nat : e >= k /\ e <= Len(fmt) + 1 /\ Ch(e) \notin Decimals}
<1>1. Len(fmt) + 1 \in P
  <2>1. Ch(Len(fmt) + 1) = "NUL"
    BY DEF Ch
  <2>2. Len(fmt) + 1 \in Nat
    OBVIOUS
  <2> QED BY <2>1, <2>2, DecimalsAre
<1>2. P \in SUBSET Nat
  OBVIOUS
<1> HIDE DEF P
<1>3. PICK e \in P : \A q \in P : e <= q
  BY <1>1, <1>2, LeastNumber
<1>4. e \in Nat /\ e >= k /\ e <= Len(fmt) + 1 /\ Ch(e) \notin Decimals
  BY DEF P
<1>5. ASSUME NEW q \in k .. e - 1
      PROVE  Ch(q) \in Decimals
  <2>1. q \in Nat /\ q >= k /\ q <= Len(fmt) + 1 /\ ~(e <= q)
    BY <1>4
  <2>2. q \notin P
    BY <1>3, <2>1
  <2> QED BY <2>1, <2>2 DEF P
<1>6. e \in k .. Len(fmt) + 1
  BY <1>4
<1> QED BY <1>4, <1>5, <1>6 DEF EndsAt

FieldSays(k, used) ==
  LET f == Field(k, used)
  IN  /\ f.next \in Nat /\ f.next >= k /\ f.next <= Len(fmt) + 1
      /\ f.used \in {used, used + 1} /\ (f.used # used => "*" \in ToSet(fmt))
      /\ (IsArgs(ap) /\ used \in {0, 1} => f.n \in Int)

LEMMA FieldIs ==
  ASSUME fmt \in Seq(Letter), NEW k \in 1 .. Len(fmt) + 1, NEW used \in Nat
  PROVE  FieldSays(k, used)
<1>0. IsArgs(ap) => Len(ap) \in Nat /\ Len(ap) >= 2
  BY ArgsLen
<1> PICK end : end = CHOOSE e \in k .. Len(fmt) + 1 : Ch(e) \notin Decimals /\ \A q \in k .. e - 1 : Ch(q) \in Decimals
  OBVIOUS
<1>1. EndsAt(k, end)
  <2>1. \E e \in k .. Len(fmt) + 1 : Ch(e) \notin Decimals /\ \A q \in k .. e - 1 : Ch(q) \in Decimals
    BY EndIs DEF EndsAt
  <2> QED BY <2>1 DEF EndsAt
<1>2. end \in Nat /\ end >= k /\ end <= Len(fmt) + 1 /\ \A q \in k .. end - 1 : Ch(q) \in Decimals
  BY <1>1 DEF EndsAt
<1> DEFINE r[q \in 0 .. end - k] == IF q = 0 THEN 0 ELSE r[q - 1] * 10 + DigitOf(Ch(k + q - 1))
<1>3. Field(k, used)
        = IF Ch(k) = "*" THEN [next |-> k + 1, used |-> used + 1, n |-> ap[used + 1].long]
          ELSE [next |-> end, used |-> used, n |-> r[end - k]]
  BY DEF Field
<1>4. CASE Ch(k) = "*"
  <2> HIDE DEF r
  <2>1. k <= Len(fmt) /\ fmt[k] = "*"
    BY <1>4 DEF Ch
  <2>2. "*" \in ToSet(fmt)
    BY <2>1 DEF ToSet
  <2>3. Field(k, used) = [next |-> k + 1, used |-> used + 1, n |-> ap[used + 1].long]
    BY <1>3, <1>4
  <2>4. IsArgs(ap) /\ used \in {0, 1} => ap[used + 1].long \in Int
    <3> SUFFICES ASSUME IsArgs(ap), used \in {0, 1} PROVE ap[used + 1].long \in Int
      OBVIOUS
    <3>1. used + 1 \in 1 .. Len(ap)
      <4>1. Len(ap) \in Nat /\ Len(ap) >= 2
        BY <1>0, Zenon
      <4>2. used + 1 \in Nat /\ used + 1 >= 1 /\ used + 1 <= 2
        OBVIOUS
      <4> QED BY <4>1, <4>2
    <3>2. IsLong(ap[used + 1].long)
      BY <3>1, Zenon DEF IsArgs
    <3> QED BY <3>2, SMT DEF IsLong
  <2> QED BY <2>1, <2>2, <2>3, <2>4 DEF FieldSays
<1>5. CASE Ch(k) # "*"
  <2>1. r[end - k] \in Int
    <3> PICK top : top = end - k
      OBVIOUS
    <3>1. top \in Nat
      BY <1>2
    <3> DEFINE IsR(f) == f = [q \in 0 .. top |-> IF q = 0 THEN 0 ELSE f[q - 1] * 10 + DigitOf(Ch(k + q - 1))]
               step == [q \in 1 .. top |-> [c \in Int |-> c * 10 + DigitOf(Ch(k + q - 1))]]
    <3>2. \A q \in 1 .. top : DigitOf(Ch(k + q - 1)) \in Int
      <4> TAKE q \in 1 .. top
      <4>1. k + q - 1 \in k .. end - 1
        BY <1>2
      <4> QED BY <1>2, <4>1, DecimalsAre
    <3>3. step \in StepsOn(top, Int) /\ \A q \in 1 .. top, c \in Int : step[q][c] = c * 10 + DigitOf(Ch(k + q - 1))
      BY <3>2 DEF StepsOn
    <3> HIDE DEF step, r
    <3>4. PICK f : Recurs(f, top, Int, 0, step)
      <4>1. 0 \in Int
        OBVIOUS
      <4> QED BY <3>1, <3>3, <4>1, RecursionExists
    <3>5. /\ f \in [0 .. top -> Int] /\ f[0] = 0
          /\ \A q \in 1 .. top : f[q] = f[q - 1] * 10 + DigitOf(Ch(k + q - 1))
      <4>1. f \in [0 .. top -> Int] /\ f[0] = 0 /\ \A q \in 1 .. top : f[q] = step[q][f[q - 1]]
        BY <3>4 DEF Recurs
      <4>2. \A q \in 1 .. top : f[q - 1] \in Int
        BY <3>1, <4>1
      <4> QED BY <3>3, <4>1, <4>2
    <3>6. IsR(f)
      <4>1. \A q \in 0 .. top : f[q] = IF q = 0 THEN 0 ELSE f[q - 1] * 10 + DigitOf(Ch(k + q - 1))
        <5> TAKE q \in 0 .. top
        <5>1. q = 0 \/ q \in 1 .. top
          OBVIOUS
        <5> QED BY <3>5, <5>1
      <4> QED BY <3>5, <4>1
    <3>7. r = CHOOSE g : IsR(g)
      BY DEF r
    <3>8. IsR(r)
      <4> HIDE DEF IsR
      <4> QED BY <3>6, <3>7
    <3>9. r[0] = 0 /\ \A q \in 1 .. top : r[q] = r[q - 1] * 10 + DigitOf(Ch(k + q - 1))
      <4>1. \A q \in 0 .. top : r[q] = IF q = 0 THEN 0 ELSE r[q - 1] * 10 + DigitOf(Ch(k + q - 1))
        BY <3>8
      <4>2. 0 \in 0 .. top /\ \A q \in 1 .. top : q \in 0 .. top /\ q # 0
        BY <3>1
      <4> QED BY <4>1, <4>2
    <3> HIDE DEF IsR
    <3> DEFINE G == {q \in Nat : q <= top => r[q] \in Int}
    <3>10. 0 \in G
      BY <3>9
    <3>11. ASSUME NEW q \in Nat, q \in G
           PROVE  q + 1 \in G
      <4> SUFFICES ASSUME q + 1 <= top PROVE r[q + 1] \in Int
        OBVIOUS
      <4>1. q + 1 \in 1 .. top /\ (q + 1) - 1 = q /\ q <= top
        BY <3>1
      <4>2. r[q] \in Int
        BY <3>11, <4>1
      <4> PICK x, g : x = r[q] /\ g = DigitOf(Ch(k + (q + 1) - 1))
        OBVIOUS
      <4>3. r[q + 1] = x * 10 + g
        BY <3>9, <4>1
      <4>4. g \in Int
        BY <3>2, <4>1
      <4>5. \A y \in Int, z \in Int : y * 10 + z \in Int
        OBVIOUS
      <4>6. x * 10 + g \in Int
        BY <4>2, <4>4, <4>5, Zenon
      <4> QED BY <4>3, <4>6, Zenon
    <3> HIDE DEF G
    <3>12. top \in G
      BY <3>1, <3>10, <3>11, SetInduction
    <3> QED BY <3>12 DEF G
  <2> HIDE DEF r
  <2>2. Field(k, used) = [next |-> end, used |-> used, n |-> r[end - k]]
    BY <1>3, <1>5
  <2> QED BY <1>2, <2>1, <2>2 DEF FieldSays
<1> QED BY <1>4, <1>5

DirectiveSays ==
  /\ Directive.left \in BOOLEAN /\ Directive.fill \in {"0", Pad}
  /\ Directive.next \in Nat /\ Directive.next >= 3
  /\ Directive.used \in {0, 1, 2} /\ (Directive.used # 0 => "*" \in ToSet(fmt))
  /\ IsArgs(ap) => Directive.fmin \in Int /\ Directive.fmax \in Int

LEMMA DirectiveIs ==
  ASSUME fmt \in Seq(Letter), fmt # << >>
  PROVE  DirectiveSays
<1> PICK top : top = Len(fmt)
  OBVIOUS
<1> PICK z : z = IF Ch(2) = "-" THEN 3 ELSE 2
  OBVIOUS
<1> PICK s : s = IF Ch(z) = "0" THEN z + 1 ELSE z
  OBVIOUS
<1> PICK min : min = Field(s, 0)
  OBVIOUS
<1> PICK max : max = IF Ch(min.next) = "." THEN Field(min.next + 1, min.used) ELSE [min EXCEPT !.n = 0]
  OBVIOUS
<1>1. top \in Nat /\ top >= 1
  OBVIOUS
<1>2. ASSUME NEW k \in Nat, NEW c, Ch(k) = c, c # "NUL"
      PROVE  k <= top
  BY <1>1, <1>2 DEF Ch
<1>3. z \in Nat /\ z >= 2 /\ z <= top + 1
  <2>1. CASE Ch(2) = "-"
    <3>1. 2 <= top
      BY <1>2, <2>1
    <3> QED BY <1>1, <2>1, <3>1
  <2>2. CASE Ch(2) # "-"
    BY <1>1, <2>2
  <2> QED BY <2>1, <2>2
<1>4. s \in Nat /\ s >= 2 /\ s <= top + 1 /\ s \in 1 .. Len(fmt) + 1
  <2>1. CASE Ch(z) = "0"
    <3>1. z <= top
      BY <1>2, <1>3, <2>1
    <3> QED BY <1>1, <1>3, <2>1, <3>1
  <2>2. CASE Ch(z) # "0"
    BY <1>1, <1>3, <2>2
  <2> QED BY <2>1, <2>2
<1>5. FieldSays(s, 0)
  BY <1>4, FieldIs
<1>6. /\ min.next \in Nat /\ min.next >= s /\ min.next <= top + 1
      /\ min.used \in {0, 1} /\ (min.used # 0 => "*" \in ToSet(fmt))
      /\ (IsArgs(ap) => min.n \in Int)
  BY <1>5 DEF FieldSays
<1>7. /\ max.next \in Nat /\ max.next >= 2 /\ max.used \in {0, 1, 2}
      /\ (max.used # 0 => "*" \in ToSet(fmt)) /\ (IsArgs(ap) => max.n \in Int)
  <2>1. CASE Ch(min.next) = "."
    <3>1. min.next <= top
      BY <1>2, <1>6, <2>1
    <3>2. min.next + 1 \in 1 .. Len(fmt) + 1 /\ min.used \in Nat
      BY <1>1, <1>6, <3>1
    <3>3. FieldSays(min.next + 1, min.used)
      BY <3>2, FieldIs
    <3>4. max = Field(min.next + 1, min.used)
      BY <2>1
    <3>5. /\ max.next \in Nat /\ max.next >= min.next + 1 /\ max.used \in {min.used, min.used + 1}
          /\ (max.used # min.used => "*" \in ToSet(fmt))
          /\ (IsArgs(ap) /\ min.used \in {0, 1} => max.n \in Int)
      BY <3>3, <3>4 DEF FieldSays
    <3> QED BY <1>4, <1>6, <3>5
  <2>2. CASE Ch(min.next) # "."
    <3>1. max = [min EXCEPT !.n = 0]
      BY <2>2
    <3>2. min.next = max.next /\ min.used = max.used /\ max.n = 0
      <4>1. Field(s, 0) = [next |-> Field(s, 0).next, used |-> Field(s, 0).used, n |-> Field(s, 0).n]
        <5> PICK end : end = CHOOSE e \in s .. Len(fmt) + 1 : Ch(e) \notin Decimals /\ \A q \in s .. e - 1 : Ch(q) \in Decimals
          OBVIOUS
        <5> DEFINE r[q \in 0 .. end - s] == IF q = 0 THEN 0 ELSE r[q - 1] * 10 + DigitOf(Ch(s + q - 1))
        <5>1. Field(s, 0) = IF Ch(s) = "*" THEN [next |-> s + 1, used |-> 0 + 1, n |-> ap[0 + 1].long]
                            ELSE [next |-> end, used |-> 0, n |-> r[end - s]]
          BY DEF Field
        <5> HIDE DEF r
        <5> QED BY <5>1
      <4> QED BY <3>1, <4>1
    <3> QED BY <1>4, <1>6, <3>2
  <2> QED BY <2>1, <2>2
<1>8. Directive = [left |-> Ch(2) = "-", fill |-> IF Ch(z) = "0" THEN "0" ELSE " ", fmin |-> min.n, fmax |-> max.n,
                   conv |-> Ch(max.next), next |-> max.next + 1, used |-> max.used]
  BY Zenon DEF Directive
<1>9. Directive.left \in BOOLEAN /\ Directive.fill \in {"0", Pad}
  BY <1>8, Zenon DEF Pad
<1>10. Directive.next = max.next + 1 /\ Directive.used = max.used
       /\ Directive.fmin = min.n /\ Directive.fmax = max.n
  BY <1>8
<1>11. Directive.next \in Nat /\ Directive.next >= 3
  BY <1>7, <1>10
<1> QED BY <1>6, <1>7, <1>9, <1>10, <1>11 DEF DirectiveSays

-----------------------------------------------------------------------------
(* What one directive prints.                                              *)
SignOf(minus) == IF minus THEN <<"-">> ELSE << >>
Fields(left, fill, minus, leading, body) ==
  IF left THEN (SignOf(minus) \o body) \o leading
  ELSE IF fill = "0" THEN (SignOf(minus) \o leading) \o body
  ELSE (leading \o SignOf(minus)) \o body
Five(left, fill, minus, leading, body) ==
  ((((IF minus /\ fill = "0" THEN <<"-">> ELSE << >>) \o (IF left THEN << >> ELSE leading))
      \o (IF minus /\ fill = Pad THEN <<"-">> ELSE << >>)) \o body) \o (IF left THEN leading ELSE << >>)
Padded(fmin, len, minus) == IF Fills(fmin, len, minus) > 0 THEN Fills(fmin, len, minus) ELSE 0

LEMMA PadIs == Pad # "0" /\ Pad \in Letter /\ "0" \in Letter /\ "-" \in Letter
  BY Zenon DEF Pad, Letter

(* The five pieces are three: a sign goes before zeroes and after spaces.  *)
LEMMA FiveAreThree ==
  ASSUME NEW S, NEW left \in BOOLEAN, NEW fill \in {"0", Pad}, NEW minus \in BOOLEAN,
         NEW leading \in Seq(S), NEW body \in Seq(S), "-" \in S
  PROVE  Five(left, fill, minus, leading, body) = Fields(left, fill, minus, leading, body)
<1> PICK sg : sg = SignOf(minus)
  OBVIOUS
<1>0. Five(left, fill, minus, leading, body)
        = ((((IF minus /\ fill = "0" THEN <<"-">> ELSE << >>) \o (IF left THEN << >> ELSE leading))
             \o (IF minus /\ fill = Pad THEN <<"-">> ELSE << >>)) \o body) \o (IF left THEN leading ELSE << >>)
  BY Zenon DEF Five
<1>1. sg \in Seq(S) /\ << >> \in Seq(S)
  BY DEF SignOf
<1>2. ASSUME NEW x \in Seq(S), NEW y \in Seq(S)
      PROVE  x \o y \in Seq(S) /\ << >> \o x = x /\ x \o << >> = x
  <2>1. x \o y \in Seq(S)
    BY <1>2
  <2> QED BY <1>2, <2>1, EmptyJoin
<1>3. CASE fill = "0" /\ ~left
  <2>1. (IF minus /\ fill = "0" THEN <<"-">> ELSE << >>) = sg /\ (IF minus /\ fill = Pad THEN <<"-">> ELSE << >>) = << >>
    BY <1>3, PadIs DEF SignOf
  <2>2. ~left
    BY <1>3
  <2>3. Fields(left, fill, minus, leading, body) = (sg \o leading) \o body
    BY <1>3, <2>2, Zenon DEF Fields
  <2>4. sg \o leading \in Seq(S)
    BY <1>1, <1>2
  <2>5. (sg \o leading) \o << >> = sg \o leading
    BY <1>1, <1>2, <2>4
  <2>6. ((sg \o leading) \o body) \in Seq(S)
    BY <1>1, <1>2, <2>4
  <2>7. ((sg \o leading) \o body) \o << >> = (sg \o leading) \o body
    BY <1>1, <1>2, <2>6
  <2> QED BY <1>0, <2>1, <2>2, <2>3, <2>5, <2>7
<1>6. CASE fill = "0" /\ left
  <2>1. (IF minus /\ fill = "0" THEN <<"-">> ELSE << >>) = sg /\ (IF minus /\ fill = Pad THEN <<"-">> ELSE << >>) = << >>
    BY <1>6, PadIs DEF SignOf
  <2>2. Fields(left, fill, minus, leading, body) = (sg \o body) \o leading
    BY <1>6, Zenon DEF Fields
  <2>3. sg \o << >> = sg
    BY <1>1, <1>2
  <2> QED BY <1>0, <1>6, <2>1, <2>2, <2>3
<1>4. CASE fill = Pad /\ left
  <2>1. (IF minus /\ fill = "0" THEN <<"-">> ELSE << >>) = << >> /\ (IF minus /\ fill = Pad THEN <<"-">> ELSE << >>) = sg
    BY <1>4, PadIs DEF SignOf
  <2>2. Fields(left, fill, minus, leading, body) = (sg \o body) \o leading
    BY <1>4, Zenon DEF Fields
  <2>3. << >> \o << >> = << >> /\ << >> \o sg = sg
    BY <1>1, <1>2
  <2> QED BY <1>0, <1>4, <2>1, <2>2, <2>3
<1>5. CASE fill = Pad /\ ~left
  <2>1. (IF minus /\ fill = "0" THEN <<"-">> ELSE << >>) = << >> /\ (IF minus /\ fill = Pad THEN <<"-">> ELSE << >>) = sg
    BY <1>5, PadIs DEF SignOf
  <2>2. Fields(left, fill, minus, leading, body) = (leading \o sg) \o body
    <3>1. fill # "0"
      BY <1>5, PadIs
    <3> QED BY <1>5, <3>1, Zenon DEF Fields
  <2>3. << >> \o leading = leading /\ leading \o sg \in Seq(S)
    BY <1>1, <1>2
  <2>4. (leading \o sg) \o body \in Seq(S)
    BY <1>1, <1>2, <2>3
  <2>5. ((leading \o sg) \o body) \o << >> = (leading \o sg) \o body
    BY <1>1, <1>2, <2>4
  <2> QED BY <1>0, <1>5, <2>1, <2>2, <2>3, <2>5
<1> QED BY <1>3, <1>4, <1>5, <1>6

(* The field is as wide as asked for, and the body is where it should be.  *)
FieldsSay(e, left, fill, minus, k, body, fmin) ==
  LET sign == IF minus THEN 1 ELSE 0
  IN  /\ Len(e) = sign + k + Len(body) /\ k \in 0 .. Len(e)
      /\ (IF left THEN SubSeq(e, 1 + sign, Len(e) - k) ELSE SubSeq(e, 1 + sign + k, Len(e))) = body
      /\ k > 0 => Len(e) = Asked(fmin)
      /\ Len(e) >= Asked(fmin)

FieldsHold(S, e, left, fill, minus, k, body, fmin) ==
  FieldsSay(e, left, fill, minus, k, body, fmin) /\ e \in Seq(S) /\ k <= 80

LEMMA FieldsAre ==
  ASSUME NEW S, NEW left \in BOOLEAN, NEW fill \in {"0", Pad}, NEW minus \in BOOLEAN,
         NEW body \in Seq(S), "-" \in S, "0" \in S, Pad \in S, NEW fmin \in Int,
         NEW k, k = Padded(InRange(fmin), Len(body), minus),
         NEW e, e = Fields(left, fill, minus, Times(fill, k), body)
  PROVE  FieldsHold(S, e, left, fill, minus, k, body, fmin)
<1> PICK sg, n, m, sign, t : /\ sg = SignOf(minus) /\ n = Asked(fmin) /\ m = Len(body)
                             /\ sign = (IF minus THEN 1 ELSE 0) /\ t = Times(fill, k)
  OBVIOUS
<1>1. n \in Nat /\ n <= 80 /\ n = InRange(fmin)
  BY DEF Asked, InRange, MAXSTR
<1>2. sg \in Seq(S) /\ Len(sg) = sign /\ sign \in {0, 1}
  BY DEF SignOf
<1>3. m \in Nat
  OBVIOUS
<1>4. k = (IF Fills(n, m, minus) > 0 THEN Fills(n, m, minus) ELSE 0)
  BY <1>1 DEF Padded
<1>5. Fills(n, m, minus) = (IF n = 0 THEN 0 ELSE n - m) - sign
  BY DEF Fills
<1>6. k \in Nat /\ (k > 0 => sign + k + m = n) /\ sign + k + m >= n /\ k <= 80
  BY <1>1, <1>2, <1>3, <1>4, <1>5
<1>7. t \in Seq(S) /\ Len(t) = k
  <2>1. fill \in S /\ k \in Int
    BY <1>6
  <2> QED BY <1>6, <2>1, TimesAre
<1>8. ASSUME NEW x \in Seq(S), NEW y \in Seq(S)
      PROVE  x \o y \in Seq(S) /\ Len(x \o y) = Len(x) + Len(y) /\ Len(x) \in Nat /\ Len(y) \in Nat
  BY <1>8, JoinIs DEF JoinSays
<1>9. CASE left
  <2>1. e = (sg \o body) \o t
    BY <1>9, Zenon DEF Fields
  <2>2. sg \o body \in Seq(S) /\ Len(sg \o body) = sign + m
    BY <1>2, <1>8
  <2>3. e \in Seq(S) /\ Len(e) = (sign + m) + k
    BY <1>7, <1>8, <2>1, <2>2
  <2>4. SubSeq((sg \o body) \o t, Len(sg) + 1, Len((sg \o body) \o t) - Len(t)) = body
    <3>1. sg \in Seq(S) /\ t \in Seq(S)
      BY <1>2, <1>7
    <3> QED BY <3>1, MiddlePiece
  <2>5. SubSeq(e, 1 + sign, Len(e) - k) = body
    <3>1. sign + 1 = 1 + sign
      BY <1>2
    <3> QED BY <1>2, <1>7, <2>1, <2>4, <3>1
  <2>6. Len(e) = sign + k + m /\ k \in 0 .. Len(e)
    <3> PICK c : c = Len(e)
      OBVIOUS
    <3>1. c = (sign + m) + k /\ sign \in Nat /\ m \in Nat /\ k \in Nat
      BY <1>2, <1>3, <1>6, <2>3
    <3>2. c = sign + k + m /\ k \in 0 .. c
      BY <3>1
    <3> QED BY <3>2
  <2> QED BY <1>6, <1>9, <2>3, <2>5, <2>6 DEF FieldsSay, FieldsHold
<1>10. CASE ~left
  <2>1. PICK w : e = w \o body /\ w \in Seq(S) /\ Len(w) = sign + k
    <3>1. CASE fill = "0"
      <4>1. e = (sg \o t) \o body
        BY <1>10, <3>1, Zenon DEF Fields
      <4>2. sg \o t \in Seq(S) /\ Len(sg \o t) = sign + k
        <5>1. sg \in Seq(S) /\ t \in Seq(S)
          BY <1>2, <1>7
        <5>2. sg \o t \in Seq(S) /\ Len(sg \o t) = Len(sg) + Len(t)
          BY <1>8, <5>1, Zenon
        <5> QED BY <1>2, <1>7, <5>2
      <4> QED BY <4>1, <4>2
    <3>2. CASE fill # "0"
      <4>1. e = (t \o sg) \o body
        BY <1>10, <3>2, Zenon DEF Fields
      <4>2. t \o sg \in Seq(S) /\ Len(t \o sg) = sign + k
        <5>1. sg \in Seq(S) /\ t \in Seq(S)
          BY <1>2, <1>7
        <5>2. t \o sg \in Seq(S) /\ Len(t \o sg) = Len(t) + Len(sg)
          BY <1>8, <5>1, Zenon
        <5>3. k + sign = sign + k
          BY <1>2, <1>6
        <5> QED BY <1>2, <1>7, <5>2, <5>3
      <4> QED BY <4>1, <4>2
    <3> QED BY <3>1, <3>2
  <2>2. e \in Seq(S) /\ Len(e) = (sign + k) + m
    BY <1>8, <2>1
  <2>3. SubSeq(w \o body, Len(w) + 1, Len(w \o body)) = body
    BY <2>1, LastPiece
  <2>4. SubSeq(e, 1 + sign + k, Len(e)) = body
    <3>1. (sign + k) + 1 = 1 + sign + k
      BY <1>2, <1>6
    <3> QED BY <2>1, <2>3, <3>1
  <2>5. Len(e) = sign + k + m /\ k \in 0 .. Len(e)
    BY <1>2, <1>3, <1>6, <2>2
  <2> QED BY <1>6, <1>10, <2>2, <2>4, <2>5 DEF FieldsSay, FieldsHold
<1> QED BY <1>9, <1>10

(* A body is printed in the field that a directive asks for.               *)
InField(e, d, fill, minus, body) == \E k \in 0 .. 80 : Arranged(e, d, fill, minus, k, body)

LEMMA LettersAre == Printed \subseteq Letter /\ Numeric \subseteq Letter /\ STRING \subseteq Letter
  BY Zenon DEF Letter

LEMMA WiderSeq ==
  ASSUME NEW S, NEW T, S \subseteq T, NEW x \in Seq(S)
  PROVE  x \in Seq(T)
  OBVIOUS

LEMMA ArrangedIs ==
  ASSUME NEW d, NEW fill, NEW minus, NEW k, NEW body, NEW e,
         e = Fields(d.left, fill, minus, Times(fill, k), body),
         FieldsSay(e, d.left, fill, minus, k, body, d.fmin)
  PROVE  Arranged(e, d, fill, minus, k, body)
<1>1. e = (IF d.left THEN (SignOf(minus) \o body) \o Times(fill, k)
           ELSE IF fill = "0" THEN (SignOf(minus) \o Times(fill, k)) \o body
           ELSE (Times(fill, k) \o SignOf(minus)) \o body)
  BY Zenon DEF Fields
<1>2. (k > 0 => Len(e) = Asked(d.fmin)) /\ Len(e) >= Asked(d.fmin)
  BY Zenon DEF FieldsSay
<1> QED BY <1>1, <1>2, Zenon DEF Arranged, SignOf

(* A width or a precision is taken when it is not above 80.                *)
LEMMA InRangeIs ==
  ASSUME NEW n \in Int
  PROVE  InRange(n) = Asked(n) /\ Asked(n) \in Nat
BY DEF InRange, Asked, MAXSTR

LEMMA FirstPiece ==
  ASSUME NEW S, NEW e \in Seq(S), NEW m \in Nat, m <= Len(e)
  PROVE  /\ SubSeq(e, 1, m) \in Seq(S) /\ Len(SubSeq(e, 1, m)) = m
         /\ m = Len(e) => SubSeq(e, 1, m) = e
OBVIOUS

LEMMA Within ==
  ASSUME NEW k, NEW n \in Nat, k \in 0 .. n, k <= 80
  PROVE  k \in 0 .. 80
OBVIOUS

(* What is converted is printed up to the precision, in the field asked    *)
(* for.                                                                    *)
Body(d) == IF d.conv = "s" THEN TextOf(d, ap[d.used + 1]) ELSE Converted(d)
Filler(d) == IF d.conv \in {"c", "s"} THEN Pad ELSE d.fill
Cutting(d) == IF d.conv \in DropsPrecision THEN 0 ELSE Asked(d.fmax)
IsMinus(d) == d.conv = "d" /\ ap[d.used + 1].long < 0

LEMMA BodyFormatted ==
  ASSUME NEW d, d.left \in BOOLEAN, d.fill \in {"0", Pad}, d.fmin \in Int, d.fmax \in Int,
         NEW t, t = Body(d), t \in Seq(Letter)
  PROVE  InField(Formatted(d), d, Filler(d), IsMinus(d), CutTo(t, Cutting(d))) /\ Formatted(d) \in Seq(Letter)
<1> DEFINE str == IF d.conv = "s" THEN TextOf(d, ap[d.used + 1]) ELSE Converted(d)
           fill == IF d.conv \in {"c", "s"} THEN " " ELSE d.fill
           fmax == IF d.conv \in DropsPrecision THEN 0 ELSE InRange(d.fmax)
           fmin == InRange(d.fmin)
           len == IF fmax # 0 /\ Len(str) > fmax THEN fmax ELSE Len(str)
           minus == d.conv = "d" /\ ap[d.used + 1].long < 0
           leading == Times(fill, Fills(fmin, len, minus))
           body == SubSeq(str, 1, len)
           sign(c) == IF minus /\ fill = c THEN <<"-">> ELSE << >>
<1>1. Formatted(d) = sign("0") \o (IF d.left THEN << >> ELSE leading) \o sign(" ")
                       \o body \o (IF d.left THEN leading ELSE << >>)
  BY DEF Formatted
<1>2. str = t
  BY Zenon DEF Body
<1>3. fill = Filler(d) /\ fill \in {"0", Pad} /\ fill \in Letter
  <2>1. fill = Filler(d)
    BY Zenon DEF Filler, Pad
  <2>2. Filler(d) \in {"0", Pad}
    BY Zenon DEF Filler
  <2>3. \A c \in {"0", Pad} : c \in Letter
    BY PadIs
  <2> HIDE DEF fill
  <2> QED BY <2>1, <2>2, <2>3, Zenon
<1>4. fmax = Cutting(d) /\ fmax \in Nat
  <2>1. InRange(d.fmax) = Asked(d.fmax) /\ Asked(d.fmax) \in Nat
    BY InRangeIs, Zenon
  <2>2. 0 \in Nat
    OBVIOUS
  <2> QED BY <2>1, <2>2, Zenon DEF Cutting
<1>5. minus = IsMinus(d) /\ minus \in BOOLEAN
  BY Zenon DEF IsMinus
<1> HIDE DEF str, fill, fmax, minus
<1> PICK n : n = Len(t)
  OBVIOUS
<1>6. n \in Nat /\ n = Len(str)
  BY <1>2
<1>7. len \in 0 .. n /\ len = (IF fmax # 0 /\ fmax < n THEN fmax ELSE n)
  BY <1>4, <1>6
<1>8. body \in Seq(Letter) /\ Len(body) = len /\ body = CutTo(t, Cutting(d))
  <2>1. /\ SubSeq(t, 1, len) \in Seq(Letter) /\ Len(SubSeq(t, 1, len)) = len
        /\ len = n => SubSeq(t, 1, len) = t
    <3>1. len \in Nat /\ len <= Len(t) /\ n = Len(t)
      BY <1>6, <1>7
    <3> HIDE DEF len
    <3> QED BY <3>1, FirstPiece, Zenon
  <2>2. CASE fmax # 0 /\ fmax < n
    <3>1. len = fmax
      BY <1>7, <2>2
    <3> HIDE DEF len
    <3> QED BY <1>2, <1>4, <2>1, <2>2, <3>1, Zenon DEF CutTo
  <2>3. CASE ~(fmax # 0 /\ fmax < n)
    <3>1. len = n
      BY <1>7, <2>3
    <3>2. n = Len(t)
      BY Zenon
    <3> HIDE DEF len
    <3> QED BY <1>2, <1>4, <2>1, <2>3, <3>1, <3>2, Zenon DEF CutTo
  <2> QED BY <2>2, <2>3
<1> HIDE DEF body
<1> PICK k : k = Padded(fmin, len, minus)
  OBVIOUS
<1>9. Fills(fmin, len, minus) \in Int
  <2>1. fmin \in Int
    BY DEF InRange, MAXSTR
  <2>2. len \in Int
    BY <1>6, <1>7
  <2> HIDE DEF len, fmin
  <2> QED BY <2>1, <2>2 DEF Fills
<1> HIDE DEF len
<1>10. leading = Times(fill, k) /\ leading \in Seq(Letter)
  <2>1. k = IF Fills(fmin, len, minus) > 0 THEN Fills(fmin, len, minus) ELSE 0
    BY Zenon DEF Padded
  <2> PICK f : f = Fills(fmin, len, minus)
    OBVIOUS
  <2>2. f \in Int /\ k = (IF f > 0 THEN f ELSE 0) /\ leading = Times(fill, f)
    BY <1>9, <2>1
  <2> HIDE DEF leading
  <2>3. Times(fill, f) \in Seq(Letter) /\ Times(fill, f) = Times(fill, IF f > 0 THEN f ELSE 0)
    BY <1>3, <2>2, TimesAre, Zenon
  <2> QED BY <2>2, <2>3, Zenon
<1> HIDE DEF leading
<1> PICK e, lf, fm, fl, mn : /\ e = Formatted(d) /\ lf = d.left /\ fm = d.fmin
                             /\ fl = Filler(d) /\ mn = IsMinus(d)
  OBVIOUS
<1>16. /\ lf \in BOOLEAN /\ fl \in {"0", Pad} /\ mn \in BOOLEAN /\ fm \in Int
       /\ fl = fill /\ mn = minus /\ leading = Times(fl, k)
  BY <1>3, <1>5, <1>10, Zenon
<1>11. e = Fields(lf, fl, mn, Times(fl, k), body)
  <2>1. e = Five(lf, fl, mn, leading, body)
    <3>1. Formatted(d) = Five(d.left, fill, minus, leading, body)
      BY <1>1, Zenon DEF Pad, Five
    <3> QED BY <1>16, <3>1, Zenon
  <2> PICK ld, bd : ld = leading /\ bd = body
    OBVIOUS
  <2>2. "-" \in Letter /\ ld \in Seq(Letter) /\ bd \in Seq(Letter)
    BY <1>8, <1>10, PadIs, Zenon
  <2>3. Five(lf, fl, mn, ld, bd) = Fields(lf, fl, mn, ld, bd)
    BY <1>16, <2>2, FiveAreThree
  <2> QED BY <1>16, <2>1, <2>3, Zenon
<1>12. FieldsHold(Letter, e, lf, fl, mn, k, body, fm)
  <2>2. k = Padded(InRange(fm), Len(body), mn)
    BY <1>8, <1>16, Zenon
  <2>3. "-" \in Letter /\ "0" \in Letter /\ Pad \in Letter /\ body \in Seq(Letter)
    BY <1>8, PadIs, Zenon
  <2> HIDE DEF fmin
  <2> QED BY <1>11, <1>16, <2>2, <2>3, FieldsAre
<1>13. FieldsSay(e, lf, fl, mn, k, body, fm) /\ e \in Seq(Letter) /\ k <= 80
  BY <1>12, Zenon DEF FieldsHold
<1>14. Arranged(e, d, fl, mn, k, body)
  BY <1>11, <1>13, ArrangedIs, Zenon
<1>15. k \in 0 .. 80
  <2>1. k \in 0 .. Len(e) /\ k <= 80
    BY <1>13, Zenon DEF FieldsSay
  <2>2. Len(e) \in Nat
    BY <1>13
  <2> QED BY <2>1, <2>2, Within, Zenon
<1> QED BY <1>8, <1>13, <1>14, <1>15, Zenon DEF InField

-----------------------------------------------------------------------------
(* A format is one directive, alone or after a character and before        *)
(* percents, or it has nothing but percents or none.                       *)
Same(f, m) == (\A k \in m .. Len(f) : f[k] = "%") \/ (\A k \in m .. Len(f) : f[k] # "%")
Ready(f, args) ==
  /\ f \in Seq(Letter) /\ f # << >> /\ f[1] = "%" /\ (Len(f) > 1 => f[2] # "%") /\ Same(f, 3)
  /\ IsArgs(args) /\ ("*" \in ToSet(f) => Len(args) >= 3)
FormatOk(f, args, printed, runs) ==
  /\ f \in Seq(Letter) /\ (~runs => f = << >> /\ printed = << >>)
  /\ \/ Same(f, 1)
     \/ printed \in Seq(Letter) /\ Ready(f, args)
     \/ printed \in Seq(Letter) /\ f # << >> /\ f[1] # "%" /\ Ready(Tail(f), args)
FormatInv == FormatOk(fmt, ap, out, printing)

(* One directive and nothing else.                                         *)
Began(f) == f \in Seq(Letter) /\ Len(f) >= 1 /\ f[1] = "%" /\ \A k \in 2 .. Len(f) : f[k] # "%"

LEMMA BeganGrows ==
  ASSUME NEW f, Began(f), NEW g \in Seq(Letter), \A k \in 1 .. Len(g) : g[k] # "%"
  PROVE  Began(f \o g)
<1> PICK n, m, e : n = Len(f) /\ m = Len(g) /\ e = f \o g
  OBVIOUS
<1>1. f \in Seq(Letter) /\ n >= 1 /\ n \in Nat /\ m \in Nat /\ f[1] = "%" /\ \A k \in 2 .. n : f[k] # "%"
  BY DEF Began
<1>2. /\ e \in Seq(Letter) /\ Len(e) = n + m
      /\ \A k \in 1 .. n : e[k] = f[k]
      /\ \A k \in 1 .. m : e[n + k] = g[k]
  BY <1>1, JoinIs DEF JoinSays
<1>3. e[1] = "%"
  BY <1>1, <1>2
<1>4. ASSUME NEW k \in 2 .. n + m
      PROVE  e[k] # "%"
  <2>1. CASE k <= n
    BY <1>1, <1>2, <2>1
  <2>2. CASE k > n
    <3>1. k - n \in 1 .. m /\ n + (k - n) = k
      BY <1>1, <2>2
    <3> QED BY <1>2, <3>1
  <2> QED BY <1>1, <2>1, <2>2
<1> QED BY <1>1, <1>2, <1>3, <1>4 DEF Began

(* What the parameters of a call are made of.                              *)
LEMMA PartsAre ==
  /\ Flags \subseteq Seq({"-", "0"}) /\ Texts \subseteq Seq(STRING)
  /\ \A t \in Widths \cup Precisions : t \in Seq(STRING) /\ \A k \in 1 .. Len(t) : t[k] # "%"
  /\ \A n \in Longs \cup Stars : IsLong(n)
BY FormatAssumption, SMT DEF FormatAssumption, IsLong

LEMMA FlagsBegin ==
  ASSUME NEW fl \in Flags
  PROVE  Began(<<"%">> \o fl)
<1>1. "%" \in Letter /\ "-" \in Letter /\ "0" \in Letter
  BY Zenon DEF Letter
<1>2. Began(<<"%">>)
  BY <1>1 DEF Began
<1>3. fl \in Seq(Letter) /\ \A k \in 1 .. Len(fl) : fl[k] # "%"
  <2>1. fl \in Seq({"-", "0"})
    BY PartsAre, Zenon
  <2>2. \A k \in 1 .. Len(fl) : fl[k] \in {"-", "0"}
    BY <2>1
  <2>3. {"-", "0"} \subseteq Letter
    BY <1>1
  <2>4. fl \in Seq(Letter)
    BY <2>1, <2>3, WiderSeq
  <2> QED BY <2>2, <2>4
<1> QED BY <1>2, <1>3, BeganGrows, Zenon

LEMMA PlainBegins ==
  ASSUME NEW fl \in Flags, NEW w \in Widths, NEW p \in Precisions, NEW c \in Numeric \cup {"c", "s"}
  PROVE  Began(Plain(fl, w, p, c))
<1>1. ASSUME NEW t \in Widths \cup Precisions
      PROVE  t \in Seq(Letter) /\ \A k \in 1 .. Len(t) : t[k] # "%"
  <2>1. t \in Seq(STRING) /\ \A k \in 1 .. Len(t) : t[k] # "%"
    BY <1>1, PartsAre, Zenon
  <2>2. STRING \subseteq Letter
    BY LettersAre, Zenon
  <2> PICK T : T = STRING
    OBVIOUS
  <2>3. t \in Seq(T) /\ T \subseteq Letter
    BY <2>1, <2>2, Zenon
  <2>4. t \in Seq(Letter)
    BY <2>3, WiderSeq, Zenon
  <2> QED BY <2>1, <2>4, Zenon
<1>2. <<c>> \in Seq(Letter) /\ \A k \in 1 .. Len(<<c>>) : <<c>>[k] # "%"
  <2>1. c # "%"
    BY DEF Numeric
  <2>2. c \in Letter
    BY Zenon DEF Letter
  <2> QED BY <2>1, <2>2
<1>3. Began(<<"%">> \o fl \o w)
  BY <1>1, FlagsBegin, BeganGrows, Zenon
<1>4. Began(<<"%">> \o fl \o w \o p)
  BY <1>1, <1>3, BeganGrows, Zenon
<1>5. Began(<<"%">> \o fl \o w \o p \o <<c>>)
  BY <1>2, <1>4, BeganGrows, Zenon
<1> QED BY <1>5, Zenon DEF Plain

(* The arguments of a call are enough for its directive.                   *)
LEMMA ArgsAre ==
  ASSUME NEW f, NEW star, IsLong(star), NEW n, IsLong(n), NEW t \in Seq(Letter)
  PROVE  IsArgs(ArgsOf(f, star, n, t)) /\ ("*" \in ToSet(f) => Len(ArgsOf(f, star, n, t)) >= 3)
<1> PICK x, y : x = Argument(star, t) /\ y = Argument(n, t)
  OBVIOUS
<1>1. /\ x.long = star /\ y.long = n /\ x.text = t /\ y.text = t
  BY DEF Argument
<1> PICK first : first = IF "*" \in ToSet(f) THEN <<x>> ELSE << >>
  OBVIOUS
<1>2. ArgsOf(f, star, n, t) = first \o <<y, y>>
  BY Zenon DEF ArgsOf
<1>3. /\ first \in Seq({x, y}) /\ Len(first) \in {0, 1} /\ ("*" \in ToSet(f) => Len(first) = 1)
      /\ <<y, y>> \in Seq({x, y}) /\ Len(<<y, y>>) = 2
  <2>1. <<x>> \in Seq({x, y}) /\ << >> \in Seq({x, y}) /\ Len(<<x>>) = 1 /\ Len(<< >>) = 0
    OBVIOUS
  <2>2. <<y, y>> \in Seq({x, y}) /\ Len(<<y, y>>) = 2
    OBVIOUS
  <2>3. first = <<x>> \/ first = << >>
    OBVIOUS
  <2>4. "*" \in ToSet(f) => first = <<x>>
    OBVIOUS
  <2> QED BY <2>1, <2>2, <2>3, <2>4
<1> PICK e : e = first \o <<y, y>>
  OBVIOUS
<1>4. e \in Seq({x, y}) /\ Len(e) = Len(first) + 2
  BY <1>3
<1>5. Len(e) \in {2, 3} /\ ("*" \in ToSet(f) => Len(e) >= 3)
  BY <1>3, <1>4
<1>6. ASSUME NEW k \in 1 .. Len(e)
      PROVE  IsLong(e[k].long) /\ e[k].text \in Seq(Letter)
  <2>1. e[k] = x \/ e[k] = y
    BY <1>4
  <2> QED BY <1>1, <2>1
<1>7. IsArgs(e)
  BY <1>5, <1>6, Zenon DEF IsArgs
<1> QED BY <1>2, <1>5, <1>7, Zenon

LEMMA BeganReady ==
  ASSUME NEW f, Began(f), NEW args, IsArgs(args), "*" \in ToSet(f) => Len(args) >= 3
  PROVE  Ready(f, args)
<1>1. f \in Seq(Letter) /\ f # << >> /\ f[1] = "%" /\ (Len(f) > 1 => f[2] # "%")
  BY DEF Began
<1>2. Same(f, 3)
  <2>1. \A k \in 3 .. Len(f) : k \in 2 .. Len(f)
    BY <1>1
  <2> QED BY <2>1, Zenon DEF Began, Same
<1> QED BY <1>1, <1>2, Zenon DEF Ready

(* What is left of a format after its first places.                        *)
LEMMA FormatRest ==
  ASSUME NEW S, NEW f \in Seq(S), NEW p \in Nat, p >= 1, NEW g, g = SubSeq(f, p, Len(f))
  PROVE  /\ g \in Seq(S) /\ Len(g) \in Nat
         /\ \A k \in 1 .. Len(g) : (p - 1) + k \in p .. Len(f) /\ g[k] = f[(p - 1) + k]
OBVIOUS

LEMMA RestSame ==
  ASSUME NEW f \in Seq(Letter), NEW m \in Nat, Same(f, m), NEW p \in Nat, p >= 1, p >= m,
         NEW g, g = SubSeq(f, p, Len(f))
  PROVE  g \in Seq(Letter) /\ Same(g, 1)
<1>1. g \in Seq(Letter)
  <2>1. SubSeq(f, p, Len(f)) \in Seq(Letter)
    BY SMT
  <2> QED BY <2>1, Zenon
<1>2. ASSUME NEW k \in 1 .. Len(g)
      PROVE  (p - 1) + k \in m .. Len(f) /\ g[k] = f[(p - 1) + k]
  <2>1. (p - 1) + k \in p .. Len(f) /\ g[k] = f[(p - 1) + k]
    BY FormatRest
  <2>2. (p - 1) + k \in m .. Len(f)
    BY <2>1
  <2> QED BY <2>1, <2>2
<1>3. CASE \A k \in m .. Len(f) : f[k] = "%"
  BY <1>1, <1>2, <1>3, Zenon DEF Same
<1>4. CASE \A k \in m .. Len(f) : f[k] # "%"
  BY <1>1, <1>2, <1>4, Zenon DEF Same
<1> QED BY <1>1, <1>3, <1>4, Zenon DEF Same

(* At a percent that begins a directive, the directive is all there is.    *)
LEMMA AtDirective ==
  ASSUME FormatInv, printing, Ch(1) = "%", Ch(2) # "%", Len(fmt) > 1
  PROVE  out \in Seq(Letter) /\ Ready(fmt, ap)
<1>1. fmt \in Seq(Letter) /\ Len(fmt) \in Nat
  BY DEF FormatInv, FormatOk
<1>2. fmt[1] = "%" /\ fmt[2] # "%"
  BY <1>1 DEF Ch
<1>3. ~Same(fmt, 1)
  BY <1>1, <1>2 DEF Same
<1> QED BY <1>2, <1>3, Zenon DEF FormatInv, FormatOk

LEMMA PercentFirst ==
  ASSUME FormatInv, Ch(1) = "%"
  PROVE  /\ fmt \in Seq(Letter) /\ fmt # << >> /\ fmt[1] = "%"
         /\ Same(fmt, 1) \/ (out \in Seq(Letter) /\ Ready(fmt, ap))
<1>1. fmt \in Seq(Letter) /\ Len(fmt) \in Nat
  BY DEF FormatInv, FormatOk
<1>2. 1 <= Len(fmt) /\ fmt[1] = "%"
  BY <1>1 DEF Ch
<1>3. fmt # << >>
  BY <1>1, <1>2
<1> QED BY <1>1, <1>2, <1>3, Zenon DEF FormatInv, FormatOk

(* A call hands over a format of this kind with its arguments.             *)
LEMMA DoprntKeeps ==
  ASSUME FormatInv, NEW f \in Seq(Letter), NEW n, IsLong(n), NEW t \in Seq(Letter), NEW rest,
         \/ Began(f)
         \/ f # << >> /\ f[1] # "%" /\ (\A args : IsArgs(args) => Ready(Tail(f), args)),
         Doprnt(f, n, t, rest)
  PROVE  FormatInv'
<1>1. ~printing /\ fmt' = f /\ printing' = TRUE /\ out' = out
  BY Zenon DEF Doprnt
<1> PICK star \in Stars : ap' = ArgsOf(f, star, n, t)
  BY Zenon DEF Doprnt
<1>2. IsLong(star)
  BY PartsAre, Zenon
<1>3. IsArgs(ap') /\ ("*" \in ToSet(f) => Len(ap') >= 3)
  BY <1>2, ArgsAre
<1>5. out' \in Seq(Letter)
  <2>1. out = << >>
    BY <1>1, Zenon DEF FormatInv, FormatOk
  <2> QED BY <1>1, <2>1
<1>6. \/ Ready(f, ap')
      \/ f # << >> /\ f[1] # "%" /\ Ready(Tail(f), ap')
  <2>1. CASE Began(f)
    BY <1>3, <2>1, BeganReady
  <2>2. CASE ~Began(f)
    BY <1>3, <2>2, Zenon
  <2> QED BY <2>1, <2>2
<1> QED BY <1>1, <1>5, <1>6, Zenon DEF FormatInv, FormatOk

LEMMA PairsKeep ==
  ASSUME FormatInv, NEW c \in Pairs \cup {"f", "k"}, NEW n \in Longs, NEW rest,
         Doprnt(<<"a", "%", c, "%", "%", "%">>, n, << >>, rest)
  PROVE  FormatInv'
<1> PICK f : f = <<"a", "%", c, "%", "%", "%">>
  OBVIOUS
<1>1. "%" \in Letter /\ "a" \in Letter /\ c \in Letter
  BY Zenon DEF Letter
<1>2. f \in Seq(Letter) /\ f # << >> /\ f[1] # "%" /\ << >> \in Seq(Letter)
  BY <1>1
<1>3. c # "%"
  BY DEF Pairs
<1>4. Tail(f) = <<"%", c, "%", "%", "%">>
  OBVIOUS
<1> PICK g : g = <<"%", c, "%", "%", "%">>
  OBVIOUS
<1>5. g \in Seq(Letter) /\ g # << >> /\ g[1] = "%" /\ g[2] # "%" /\ Len(g) = 5
  BY <1>1, <1>3
<1>6. \A k \in 3 .. 5 : g[k] = "%"
  <2>1. g[3] = "%" /\ g[4] = "%" /\ g[5] = "%"
    OBVIOUS
  <2> QED BY <2>1
<1>7. Same(g, 3)
  BY <1>5, <1>6, Zenon DEF Same
<1>8. "*" \notin ToSet(g)
  <2>1. \A k \in 1 .. 5 : g[k] \in {"%", c}
    OBVIOUS
  <2>2. c # "*"
    BY DEF Pairs
  <2>3. DOMAIN g = 1 .. 5
    BY <1>5
  <2>4. "%" # "*"
    OBVIOUS
  <2> QED BY <2>1, <2>2, <2>3, <2>4, Zenon DEF ToSet
<1>9. ASSUME NEW args, IsArgs(args)
      PROVE  Ready(Tail(f), args)
  BY <1>4, <1>5, <1>7, <1>8, <1>9, Zenon DEF Ready
<1>10. IsLong(n)
  BY PartsAre, Zenon
<1>11. Doprnt(f, n, << >>, rest)
  BY Zenon
<1> QED BY <1>2, <1>9, <1>10, <1>11, DoprntKeeps, Zenon

(* What is left after a step is a format of this kind too.                 *)
LEMMA DirectiveKeeps ==
  ASSUME FormatInv, BreaksOff \/ Emit \/ Percent
  PROVE  FormatInv'
<1>1. Ch(1) = "%" /\ printing' = printing /\ printing
  BY Zenon DEF BreaksOff, Emit, Percent
<1>2. /\ fmt \in Seq(Letter) /\ fmt # << >> /\ fmt[1] = "%"
      /\ Same(fmt, 1) \/ (out \in Seq(Letter) /\ Ready(fmt, ap))
  BY <1>1, PercentFirst, Zenon
<1>3. CASE fmt' = << >>
  <2>1. Same(<< >>, 1) /\ << >> \in Seq(Letter)
    BY DEF Same
  <2> QED BY <1>1, <1>3, <2>1, Zenon DEF FormatInv, FormatOk
<1>4. ASSUME NEW p \in Nat, p >= 3, fmt' = SubSeq(fmt, p, Len(fmt)), NEW m \in {1, 3}, Same(fmt, m)
      PROVE  FormatInv'
  <2>1. p >= 1 /\ p >= m /\ m \in Nat
    BY <1>4
  <2>2. fmt' \in Seq(Letter) /\ Same(fmt', 1)
    BY <1>2, <1>4, <2>1, RestSame
  <2> QED BY <1>1, <2>2, Zenon DEF FormatInv, FormatOk
<1>5. CASE BreaksOff
  BY <1>3, <1>5, Zenon DEF BreaksOff
<1>6. CASE Percent
  <2>1. Same(fmt, 1)
    <3>1. Len(fmt) \in Nat
      BY <1>2
    <3>2. Len(fmt) > 1 /\ fmt[2] = "%"
      BY <1>6, <3>1 DEF Percent, Ch
    <3>3. ~Ready(fmt, ap)
      BY <3>2, Zenon DEF Ready
    <3> QED BY <1>2, <3>3, Zenon
  <2>2. fmt' = SubSeq(fmt, 3, Len(fmt))
    BY <1>6, Zenon DEF Percent
  <2>3. 3 \in Nat /\ 3 >= 3 /\ 1 \in {1, 3}
    OBVIOUS
  <2> QED BY <1>4, <2>1, <2>2, <2>3, Zenon
<1>7. CASE Emit
  <2>1. Same(fmt, 1) \/ Same(fmt, 3)
    BY <1>2, Zenon DEF Ready
  <2>2. Directive.next \in Nat /\ Directive.next >= 3
    BY <1>2, DirectiveIs, Zenon DEF DirectiveSays
  <2>3. fmt' = SubSeq(fmt, Directive.next, Len(fmt))
    BY <1>7, Zenon DEF Emit
  <2>4. 1 \in {1, 3} /\ 3 \in {1, 3}
    OBVIOUS
  <2> QED BY <1>4, <2>1, <2>2, <2>3, <2>4, Zenon
<1> QED BY <1>5, <1>6, <1>7

LEMMA EchoKeeps ==
  ASSUME FormatInv, Echo
  PROVE  FormatInv'
<1>1. /\ fmt # << >> /\ fmt[1] # "%" /\ fmt' = Tail(fmt) /\ out' = Append(out, fmt[1])
      /\ ap' = ap /\ printing' = printing /\ printing
  BY Zenon DEF Echo
<1>2. fmt \in Seq(Letter)
  BY Zenon DEF FormatInv, FormatOk
<1>3. Tail(fmt) \in Seq(Letter) /\ fmt[1] \in Letter
  BY <1>1, <1>2
<1>4. CASE Same(fmt, 1)
  <2>1. Tail(fmt) = SubSeq(fmt, 2, Len(fmt))
    BY <1>1, <1>2
  <2>2. Same(Tail(fmt), 1)
    <3>1. 1 \in Nat /\ 2 \in Nat /\ 2 >= 1
      OBVIOUS
    <3> QED BY <1>2, <1>4, <2>1, <3>1, RestSame, Zenon
  <2> QED BY <1>1, <1>3, <2>2, Zenon DEF FormatInv, FormatOk
<1>5. CASE out \in Seq(Letter) /\ Ready(Tail(fmt), ap)
  <2>1. Append(out, fmt[1]) \in Seq(Letter)
    BY <1>3, <1>5
  <2> QED BY <1>1, <1>3, <1>5, <2>1, Zenon DEF FormatInv, FormatOk
<1>6. ~Ready(fmt, ap)
  BY <1>1, Zenon DEF Ready
<1> QED BY <1>4, <1>5, <1>6, Zenon DEF FormatInv, FormatOk

LEMMA FormatStarts == FormatInit => FormatInv
<1> SUFFICES ASSUME FormatInit PROVE FormatInv
  OBVIOUS
<1>1. Same(<< >>, 1) /\ << >> \in Seq(Letter)
  BY DEF Same
<1> QED BY <1>1, Zenon DEF FormatInit, FormatInv, FormatOk

LEMMA FormatKeeps ==
  ASSUME FormatInv, FormatNext
  PROVE  FormatInv'
<1>0. /\ << >> \in Seq(Letter) /\ 0 \in Int /\ IsLong(0)
      /\ \A n \in Longs : IsLong(n)
      /\ \A t \in Texts : t \in Seq(Letter)
  <2>1. << >> \in Seq(Letter) /\ 0 \in Int
    OBVIOUS
  <2>2. IsLong(0)
    BY SMT DEF IsLong
  <2>3. \A n \in Longs : IsLong(n)
    BY PartsAre, Zenon
  <2>4. ASSUME NEW t \in Texts
        PROVE  t \in Seq(Letter)
    <3> PICK T : T = STRING
      OBVIOUS
    <3>1. t \in Seq(T) /\ T \subseteq Letter
      BY PartsAre, LettersAre, Zenon
    <3> QED BY <3>1, WiderSeq, Zenon
  <2> QED BY <2>1, <2>2, <2>3, <2>4, Zenon
<1>1. ASSUME NEW fl \in Flags, NEW w \in Widths, NEW p \in Precisions, NEW c \in Numeric \cup {"c", "s"},
             NEW n, IsLong(n), NEW t \in Seq(Letter), Doprnt(Plain(fl, w, p, c), n, t, << >>)
      PROVE  FormatInv'
  <2>1. Began(Plain(fl, w, p, c))
    BY PlainBegins
  <2>2. Plain(fl, w, p, c) \in Seq(Letter)
    BY <2>1, Zenon DEF Began
  <2> QED BY <1>1, <2>1, <2>2, DoprntKeeps, Zenon
<1>2. ASSUME NEW fl \in Flags, NEW w \in Widths, NEW p \in Precisions, NEW n \in Longs, NEW c \in Numeric,
             Doprnt(Plain(fl, w, p, c), n, << >>, << >>)
      PROVE  FormatInv'
  BY <1>0, <1>1, <1>2, Zenon
<1>3. ASSUME NEW fl \in Flags, NEW w \in Widths, NEW p \in Precisions, NEW t \in Texts, NEW c \in {"c", "s"},
             Doprnt(Plain(fl, w, p, c), 0, t, << >>)
      PROVE  FormatInv'
  BY <1>0, <1>1, <1>3, Zenon
<1>4. ASSUME NEW fl \in Flags, Doprnt(<<"%">> \o fl, 0, << >>, << >>)
      PROVE  FormatInv'
  <2>1. Began(<<"%">> \o fl)
    BY FlagsBegin
  <2> QED BY <1>0, <1>4, <2>1, DoprntKeeps, Zenon DEF Began
<1>5. CASE Done
  <2>1. fmt' = << >> /\ out' = << >> /\ printing' = FALSE
    BY <1>5, Zenon DEF Done
  <2>2. Same(<< >>, 1) /\ << >> \in Seq(Letter)
    BY DEF Same
  <2> QED BY <2>1, <2>2, Zenon DEF FormatInv, FormatOk
<1> QED BY <1>2, <1>3, <1>4, <1>5, PairsKeep, EchoKeeps, DirectiveKeeps, Zenon DEF FormatNext

(* The step that prints a directive has its argument, and what it prints   *)
(* is what Formatted says.                                                 *)
LEMMA Prints ==
  ASSUME FormatInv, [FormatNext]_formatvars, IsDirective, Directive.conv \in Numeric \cup {"s"},
         Formatted(Directive) \in Seq(Letter)
  PROVE  Emitted = Formatted(Directive)
<1>1. printing /\ Len(fmt) > 1 /\ Ch(1) = "%" /\ Ch(2) # "%" /\ fmt' # fmt
  BY Zenon DEF IsDirective
<1>2. fmt \in Seq(Letter) /\ fmt[1] = "%" /\ out \in Seq(Letter)
  BY <1>1, AtDirective, Zenon DEF Ready
<1>3. Directive.conv # "NUL" /\ Consumed(Directive) = 1
  <2>1. Directive.conv # "NUL"
    BY DEF Numeric
  <2>2. Directive.conv \in Numeric \cup {"c", "s"}
    BY Zenon
  <2>3. Directive.conv \notin Pairs
    BY DEF Numeric, Pairs
  <2> QED BY <2>1, <2>2, <2>3, Zenon DEF Consumed
<1>4. FormatNext
  <2>1. FormatNext \/ formatvars' = formatvars
    BY Zenon
  <2> QED BY <1>1, <2>1, Zenon DEF formatvars
<1>5. Emit
  <2>1. ~Echo
    BY <1>2, Zenon DEF Echo
  <2>2. ~Percent /\ ~BreaksOff
    BY <1>1, <1>3, Zenon DEF Percent, BreaksOff
  <2>3. ~Done
    BY <1>1, Zenon DEF Done
  <2>4. ASSUME NEW f, NEW n, NEW t, NEW rest
        PROVE  ~Doprnt(f, n, t, rest)
    BY <1>1, Zenon DEF Doprnt
  <2> QED BY <1>4, <2>1, <2>2, <2>3, <2>4, Zenon DEF FormatNext
<1>6. out' = out \o Formatted(Directive)
  <2>1. out' = (IF Consumed(Directive) = 0 /\ Directive.conv # "f" THEN Append(out, Directive.conv) ELSE out)
                 \o Formatted(Directive)
    BY <1>5, Zenon DEF Emit
  <2>2. ~(Consumed(Directive) = 0)
    BY <1>3
  <2> QED BY <2>1, <2>2, Zenon
<1> PICK e : e = Formatted(Directive)
  OBVIOUS
<1>7. e \in Seq(Letter) /\ SubSeq(out \o e, Len(out) + 1, Len(out \o e)) = e
  BY <1>2, LastPiece, Zenon
<1> QED BY <1>6, <1>7, Zenon DEF Emitted

(* The directive is well formed and its argument is there.                 *)
LEMMA ItsArgument ==
  ASSUME FormatInv, IsDirective
  PROVE  /\ DirectiveSays /\ Directive.fmin \in Int /\ Directive.fmax \in Int
         /\ IsLong(ap[Directive.used + 1].long) /\ ap[Directive.used + 1].text \in Seq(Letter)
<1>1. Ready(fmt, ap)
  BY AtDirective, Zenon DEF IsDirective
<1>2. IsArgs(ap) /\ ("*" \in ToSet(fmt) => Len(ap) >= 3) /\ fmt \in Seq(Letter) /\ fmt # << >>
  BY <1>1, Zenon DEF Ready
<1>3. DirectiveSays
  BY <1>2, DirectiveIs
<1>4. Len(ap) \in Nat /\ Len(ap) >= 2
  BY <1>2, ArgsLen
<1> PICK u, n : u = Directive.used /\ n = Len(ap)
  OBVIOUS
<1>5. u \in {0, 1, 2} /\ (u # 0 => n >= 3) /\ n \in Nat /\ n >= 2
  BY <1>2, <1>3, <1>4, Zenon DEF DirectiveSays
<1>6. u + 1 \in 1 .. n
  BY <1>5
<1> QED BY <1>2, <1>3, <1>6, Zenon DEF IsArgs, DirectiveSays

LEMMA NumbersStep ==
  ASSUME FormatInv, [FormatNext]_formatvars, IsDirective, Directive.conv \in Numeric
  PROVE  NumberReadsBack
<1> PICK d, n : d = Directive /\ n = ap[d.used + 1].long
  OBVIOUS
<1> PICK digits : digits = Numeral(d.conv, n)
  OBVIOUS
<1>1. d.left \in BOOLEAN /\ d.fill \in {"0", Pad} /\ d.fmin \in Int /\ d.fmax \in Int /\ IsLong(n) /\ d.conv \in Numeric
  BY ItsArgument, Zenon DEF DirectiveSays
<1>2. Spells(digits, d.conv, n)
  BY <1>1, NumeralSpells
<1>3. digits \in Seq(Letter)
  <2>1. digits \in Seq(Printed)
    BY <1>2, Zenon DEF Spells
  <2> QED BY <2>1, LettersAre, WiderSeq
<1>4. Body(d) = digits /\ Filler(d) = d.fill
  <2>1. d.conv # "s" /\ d.conv # "c" /\ d.conv \notin Pairs /\ d.conv \notin {"c", "s"}
    BY <1>1 DEF Numeric, Pairs
  <2>2. Converted(d) = digits
    BY <1>1, <2>1, Zenon DEF Converted
  <2> QED BY <2>1, <2>2, Zenon DEF Body, Filler
<1>5. Cutting(d) = IF d.conv = "d" THEN Asked(d.fmax) ELSE 0
  <2>1. d.conv \in DropsPrecision <=> d.conv # "d"
    BY <1>1 DEF DropsPrecision, Numeric, Pairs
  <2> QED BY <2>1, Zenon DEF Cutting
<1>6. InField(Formatted(d), d, d.fill, IsMinus(d), CutTo(digits, Cutting(d))) /\ Formatted(d) \in Seq(Letter)
  BY <1>1, <1>3, <1>4, BodyFormatted
<1>7. Emitted = Formatted(d)
  BY <1>6, Prints, Zenon
<1>8. IsMinus(d) = (d.conv = "d" /\ n < 0)
  BY Zenon DEF IsMinus
<1>9. ReadsAs(digits, BaseOf(d.conv), IF IsMinus(d) THEN Negated(Halves(n)) ELSE Halves(n))
  BY <1>2, <1>8, Zenon DEF Spells, ReadsAs
<1> QED BY <1>5, <1>6, <1>7, <1>8, <1>9, Zenon DEF NumberReadsBack, InField

LEMMA TextsStep ==
  ASSUME FormatInv, [FormatNext]_formatvars, IsDirective, Directive.conv = "s"
  PROVE  TextFills
<1> PICK d, t : d = Directive /\ t = TextOf(d, ap[d.used + 1])
  OBVIOUS
<1>1. /\ d.left \in BOOLEAN /\ d.fill \in {"0", Pad} /\ d.fmin \in Int /\ d.fmax \in Int
      /\ d.conv = "s" /\ ap[d.used + 1].text \in Seq(Letter)
  BY ItsArgument, Zenon DEF DirectiveSays
<1>2. t \in Seq(Letter)
  <2>1. {"(", "n", "u", "l", ")"} \subseteq Letter
    BY Zenon DEF Letter
  <2>2. <<"(", "n", "u", "l", "l", ")">> \in Seq(Letter)
    BY <2>1
  <2> QED BY <1>1, <2>2, Zenon DEF TextOf
<1>3. Body(d) = t /\ Filler(d) = Pad
  BY <1>1, Zenon DEF Body, Filler
<1>4. Cutting(d) = Asked(d.fmax) /\ IsMinus(d) = FALSE
  <2>1. d.conv \notin DropsPrecision /\ d.conv # "d"
    BY <1>1 DEF DropsPrecision, Numeric, Pairs
  <2> QED BY <2>1, Zenon DEF Cutting, IsMinus
<1>5. InField(Formatted(d), d, Pad, FALSE, CutTo(t, Asked(d.fmax))) /\ Formatted(d) \in Seq(Letter)
  <2>1. InField(Formatted(d), d, Filler(d), IsMinus(d), CutTo(t, Cutting(d))) /\ Formatted(d) \in Seq(Letter)
    BY <1>1, <1>2, <1>3, BodyFormatted
  <2> QED BY <1>3, <1>4, <2>1, Zenon
<1>6. Emitted = Formatted(d)
  BY <1>5, Prints, Zenon
<1> QED BY <1>5, <1>6, Zenon DEF TextFills, InField, Pad

(* Whatever flags, widths and precisions a directive is made of, it prints *)
(* its argument in the field asked for: a number of 32 bits, %b one of 19  *)
(* bits, for which string[] has room, and a text, both cut to a precision  *)
(* where doprnt.c keeps it.                                                *)
THEOREM DirectivesCorrect == FormatSpec => DirectivesRight
<1>1. FormatInit => FormatInv
  BY FormatStarts
<1>2. FormatInv /\ [FormatNext]_formatvars => FormatInv'
  <2> SUFFICES ASSUME FormatInv, [FormatNext]_formatvars PROVE FormatInv'
    OBVIOUS
  <2>1. CASE FormatNext
    BY <2>1, FormatKeeps
  <2>2. CASE UNCHANGED formatvars
    BY <2>2, Zenon DEF formatvars, FormatInv
  <2> QED BY <2>1, <2>2
<1>3. ASSUME FormatInv, [FormatNext]_formatvars
      PROVE  NumberReadsBack
  BY <1>3, NumbersStep, Zenon DEF NumberReadsBack
<1>4. ASSUME FormatInv, [FormatNext]_formatvars
      PROVE  TextFills
  BY <1>4, TextsStep, Zenon DEF TextFills
<1> QED BY <1>1, <1>2, <1>3, <1>4, PTL DEF FormatSpec, DirectivesRight
=============================================================================
