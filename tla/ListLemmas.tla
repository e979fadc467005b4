----------------------------- MODULE ListLemmas -----------------------------
(***************************************************************************)
(* What the operations of queue.c do to the sequence that lists a queue,   *)
(* that what is defined by recursion on numbers exists, and what the least *)
(* and the greatest of a set of numbers are.                               *)
(***************************************************************************)
EXTENDS Lists, TLAPS, SequenceTheorems, FiniteSetTheorems, FunctionTheorems

(* A list of S is a sequence over every set that includes S.               *)
LEMMA ListIsSeq ==
  ASSUME NEW T, NEW S \in SUBSET T, NEW q, Enumerates(q, S)
  PROVE  q \in Seq(T)
BY SeqMonotonic DEF Enumerates

(* A sequence whose elements are in T is a sequence over T.                *)
LEMMA SeqOver ==
  ASSUME NEW S, NEW q \in Seq(S), NEW T, \A i \in 1 .. Len(q) : q[i] \in T
  PROVE  q \in Seq(T)
BY IsASeq, LenProperties

(* The empty sequence lists the empty set, and only that.                  *)
LEMMA EmptyList ==
  ASSUME NEW S, NEW q, Enumerates(q, S)
  PROVE  q = << >> <=> S = {}
BY DEF Enumerates

(* Where InsertAt puts the elements: e at place i, those from i on behind. *)
LEMMA InsertAtPlaces ==
  ASSUME NEW S, NEW q \in Seq(S), NEW e \in S, NEW i \in 1 .. Len(q) + 1
  PROVE  /\ InsertAt(q, i, e) \in Seq(S)
         /\ Len(InsertAt(q, i, e)) = Len(q) + 1
         /\ \A j \in 1 .. Len(q) + 1 :
              InsertAt(q, i, e)[j] = IF j < i THEN q[j] ELSE IF j = i THEN e ELSE q[j - 1]
<1> DEFINE a == SubSeq(q, 1, i - 1)
           b == SubSeq(q, i, Len(q))
<1>1. /\ a \in Seq(S) /\ Len(a) = i - 1
      /\ \A j \in 1 .. i - 1 : a[j] = q[j]
  OBVIOUS
<1>2. /\ b \in Seq(S) /\ Len(b) = Len(q) - i + 1
      /\ \A j \in 1 .. Len(q) - i + 1 : b[j] = q[i + j - 1]
  OBVIOUS
<1>3. /\ a \o <<e>> \in Seq(S) /\ Len(a \o <<e>>) = i
      /\ \A j \in 1 .. i : (a \o <<e>>)[j] = IF j < i THEN q[j] ELSE e
  <2> HIDE DEF a
  <2> QED BY <1>1
<1> DEFINE c == a \o <<e>>
<1>4. /\ c \o b \in Seq(S) /\ Len(c \o b) = Len(q) + 1
      /\ \A j \in 1 .. Len(q) + 1 :
           (c \o b)[j] = IF j < i THEN q[j] ELSE IF j = i THEN e ELSE q[j - 1]
  <2>1. /\ c \o b \in Seq(S) /\ Len(c \o b) = Len(c) + Len(b)
        /\ \A j \in 1 .. Len(c) + Len(b) :
             (c \o b)[j] = IF j <= Len(c) THEN c[j] ELSE b[j - Len(c)]
    <3>1. b \in Seq(S) /\ c \in Seq(S)
      BY <1>2, <1>3
    <3> HIDE DEF b, c
    <3> QED BY ONLY <3>1, ConcatProperties
  <2>2. \A j \in 1 .. Len(q) + 1 : j > i =>
          j - Len(c) \in 1 .. Len(q) - i + 1 /\ i + (j - Len(c)) - 1 = j - 1
    BY <1>3
  <2>3. i \in Nat /\ Len(q) \in Nat
    OBVIOUS
  <2> HIDE DEF b, c
  <2>4. /\ Len(c) = i /\ Len(b) = Len(q) - i + 1
        /\ \A j \in 1 .. i : c[j] = IF j < i THEN q[j] ELSE e
    BY <1>2, <1>3 DEF c
  <2>5. /\ c \o b \in Seq(S) /\ Len(c \o b) = Len(q) + 1
    BY <2>1, <2>3, <2>4
  <2>6. ASSUME NEW j \in 1 .. Len(q) + 1
        PROVE  (c \o b)[j] = IF j < i THEN q[j] ELSE IF j = i THEN e ELSE q[j - 1]
    <3>1. (c \o b)[j] = IF j <= i THEN c[j] ELSE b[j - i]
      BY <2>1, <2>3, <2>4
    <3>2. CASE j <= i
      BY <2>3, <2>4, <3>1, <3>2
    <3>3. CASE j > i
      <4>1. j - i \in 1 .. Len(q) - i + 1 /\ i + (j - i) - 1 = j - 1
        BY <2>3, <3>3
      <4>2. b[j - i] = q[i + (j - i) - 1]
        BY <1>2, <4>1
      <4> QED BY <2>3, <3>1, <3>3, <4>1, <4>2
    <3>4. j <= i \/ j > i
      BY <2>3
    <3> QED BY <3>2, <3>3, <3>4
  <2> QED BY <2>5, <2>6
<1> QED BY <1>4 DEF InsertAt

(* Where RemoveAt leaves the elements: those behind place i move up.       *)
LEMMA RemoveAtPlaces ==
  ASSUME NEW S, NEW q \in Seq(S), NEW i \in 1 .. Len(q)
  PROVE  /\ RemoveAt(q, i) \in Seq(S)
         /\ Len(RemoveAt(q, i)) = Len(q) - 1
         /\ \A j \in 1 .. Len(q) - 1 :
              RemoveAt(q, i)[j] = IF j < i THEN q[j] ELSE q[j + 1]
<1> DEFINE a == SubSeq(q, 1, i - 1)
           b == SubSeq(q, i + 1, Len(q))
<1>1. /\ a \in Seq(S) /\ Len(a) = i - 1
      /\ \A j \in 1 .. i - 1 : a[j] = q[j]
  OBVIOUS
<1>2. /\ b \in Seq(S) /\ Len(b) = Len(q) - i
      /\ \A j \in 1 .. Len(q) - i : b[j] = q[i + j]
  OBVIOUS
<1>3. /\ a \o b \in Seq(S) /\ Len(a \o b) = Len(a) + Len(b)
      /\ \A j \in 1 .. Len(a) + Len(b) :
           (a \o b)[j] = IF j <= Len(a) THEN a[j] ELSE b[j - Len(a)]
  BY <1>1, <1>2, ConcatProperties
<1>4. /\ a \o b \in Seq(S) /\ Len(a \o b) = Len(q) - 1
      /\ \A j \in 1 .. Len(q) - 1 : (a \o b)[j] = IF j < i THEN q[j] ELSE q[j + 1]
  <2> HIDE DEF a, b
  <2> QED BY <1>1, <1>2, <1>3
<1> QED BY <1>4 DEF RemoveAt

(* insert() and insertd(): the list with x linked in at any place.         *)
LEMMA InsertLists ==
  ASSUME NEW S, NEW q, Enumerates(q, S), NEW x, x \notin S,
         NEW i \in 1 .. Len(q) + 1
  PROVE  Enumerates(InsertAt(q, i, x), S \cup {x})
<1> DEFINE r == InsertAt(q, i, x)
           T == S \cup {x}
<1>1. q \in Seq(T) /\ q \in Seq(S)
  BY SeqMonotonic DEF Enumerates
<1>2. /\ r \in Seq(T) /\ Len(r) = Len(q) + 1
      /\ \A j \in 1 .. Len(q) + 1 :
           r[j] = IF j < i THEN q[j] ELSE IF j = i THEN x ELSE q[j - 1]
  <2>1. x \in T /\ q \in Seq(T) /\ i \in 1 .. Len(q) + 1
    BY <1>1
  <2> HIDE DEF T
  <2>2. InsertAt(q, i, x) \in Seq(T)
    BY ONLY <2>1, InsertAtPlaces
  <2>3. Len(InsertAt(q, i, x)) = Len(q) + 1
    BY ONLY <2>1, InsertAtPlaces
  <2>4. ASSUME NEW j \in 1 .. Len(q) + 1
        PROVE  InsertAt(q, i, x)[j] = IF j < i THEN q[j] ELSE IF j = i THEN x ELSE q[j - 1]
    BY ONLY <2>1, <2>4, InsertAtPlaces
  <2> QED BY <2>2, <2>3, <2>4
<1> HIDE DEF r
<1>3. \A j, k \in 1 .. Len(r) : r[j] = r[k] => j = k
  <2>1. \A j \in 1 .. Len(q) : q[j] # x
    BY <1>1
  <2>2. \A j, k \in 1 .. Len(q) : q[j] = q[k] => j = k
    BY DEF Enumerates
  <2>3. Len(q) \in Nat /\ i \in Nat
    BY <1>1
  <2> SUFFICES ASSUME NEW j \in 1 .. Len(r), NEW k \in 1 .. Len(r), j < k
               PROVE  r[j] # r[k]
    BY <1>2, <2>3
  <2>4. CASE k < i
    BY <1>2, <2>2, <2>3, <2>4
  <2>5. CASE k = i
    BY <1>2, <2>1, <2>3, <2>5
  <2>6. CASE j < i /\ k > i
    <3>1. r[j] = q[j] /\ r[k] = q[k - 1] /\ j # k - 1
      BY <1>2, <2>3, <2>6
    <3> QED BY <1>2, <2>2, <2>3, <2>6, <3>1
  <2>7. CASE j = i
    <3>1. r[j] = x /\ r[k] = q[k - 1] /\ k - 1 \in 1 .. Len(q)
      BY <1>2, <2>3, <2>7
    <3> QED BY <2>1, <3>1
  <2>8. CASE j > i
    <3>1. /\ r[j] = q[j - 1] /\ r[k] = q[k - 1] /\ j - 1 # k - 1
          /\ j - 1 \in 1 .. Len(q) /\ k - 1 \in 1 .. Len(q)
      BY <1>2, <2>3, <2>8
    <3> QED BY <2>2, <3>1
  <2> QED BY <2>3, <2>4, <2>5, <2>6, <2>7, <2>8
<1>4. \A y \in T : \E j \in 1 .. Len(r) : r[j] = y
  <2> SUFFICES ASSUME NEW y \in T PROVE \E j \in 1 .. Len(r) : r[j] = y
    OBVIOUS
  <2>1. CASE y = x
    BY <2>1, <1>1, <1>2
  <2>2. CASE y \in S
    <3>1. PICK k \in 1 .. Len(q) : q[k] = y
      BY <2>2 DEF Enumerates
    <3>2. CASE k < i
      BY <3>1, <3>2, <1>1, <1>2
    <3>3. CASE k >= i
      <4>1. r[k + 1] = y /\ k + 1 \in 1 .. Len(r)
        BY <3>1, <3>3, <1>1, <1>2
      <4> QED BY <4>1
    <3> QED BY <3>2, <3>3, <1>1
  <2> QED BY <2>1, <2>2
<1> QED BY <1>2, <1>3, <1>4 DEF Enumerates, r

(* getitem(): the list without the element at any place.                   *)
LEMMA RemoveLists ==
  ASSUME NEW S, NEW q, Enumerates(q, S), NEW i \in 1 .. Len(q)
  PROVE  Enumerates(RemoveAt(q, i), S \ {q[i]})
<1> DEFINE r == RemoveAt(q, i)
           T == S \ {q[i]}
<1>1. q \in Seq(S)
  BY DEF Enumerates
<1>2. /\ r \in Seq(S) /\ Len(r) = Len(q) - 1
      /\ \A j \in 1 .. Len(q) - 1 : r[j] = IF j < i THEN q[j] ELSE q[j + 1]
  BY <1>1, RemoveAtPlaces
<1> HIDE DEF r
<1>3. /\ \A j, k \in 1 .. Len(q) : q[j] = q[k] => j = k
      /\ Len(q) \in Nat /\ i \in Nat
  BY <1>1 DEF Enumerates
<1>4. \A j \in 1 .. Len(r) : \E k \in 1 .. Len(q) :
        r[j] = q[k] /\ k # i /\ k = IF j < i THEN j ELSE j + 1
  BY <1>2, <1>3
<1>5. \A j, k \in 1 .. Len(r) : r[j] = r[k] => j = k
  BY <1>2, <1>3, <1>4
<1>6. r \in Seq(T)
  <2>1. \A j \in 1 .. Len(r) : r[j] \in T
    BY <1>1, <1>3, <1>4
  <2> QED BY <1>2, <2>1, SeqOver
<1>7. \A y \in T : \E j \in 1 .. Len(r) : r[j] = y
  <2> SUFFICES ASSUME NEW y \in T PROVE \E j \in 1 .. Len(r) : r[j] = y
    OBVIOUS
  <2>1. PICK k \in 1 .. Len(q) : q[k] = y
    BY DEF Enumerates
  <2>2. CASE k < i
    BY <2>1, <2>2, <1>1, <1>2
  <2>3. CASE k > i
    <3>1. r[k - 1] = y /\ k - 1 \in 1 .. Len(r)
      BY <2>1, <2>3, <1>1, <1>2
    <3> QED BY <3>1
  <2> QED BY <2>1, <2>2, <2>3, <1>1
<1> QED BY <1>5, <1>6, <1>7 DEF Enumerates, r

(* dequeue() and getfirst(): the list without its first element.           *)
LEMMA TailLists ==
  ASSUME NEW S, NEW q, Enumerates(q, S), q # << >>
  PROVE  Head(q) \in S /\ Enumerates(Tail(q), S \ {Head(q)})
<1>1. q \in Seq(S) /\ Len(q) \in Nat \ {0} /\ Head(q) = q[1]
  BY DEF Enumerates
<1>2. /\ Tail(q) \in Seq(S) /\ Len(Tail(q)) = Len(q) - 1
      /\ \A j \in 1 .. Len(q) - 1 : Tail(q)[j] = q[j + 1]
  BY <1>1
<1>3. \A j, k \in 1 .. Len(Tail(q)) : Tail(q)[j] = Tail(q)[k] => j = k
  BY <1>1, <1>2 DEF Enumerates
<1>4. Tail(q) \in Seq(S \ {Head(q)})
  <2>1. \A j \in 1 .. Len(Tail(q)) : Tail(q)[j] \in S \ {Head(q)}
    BY <1>1, <1>2 DEF Enumerates
  <2> QED BY <1>2, <2>1, SeqOver
<1>5. ASSUME NEW y \in S \ {Head(q)}
      PROVE  \E j \in 1 .. Len(Tail(q)) : Tail(q)[j] = y
  <2>1. PICK k \in 1 .. Len(q) : q[k] = y
    BY DEF Enumerates
  <2>2. Tail(q)[k - 1] = y /\ k - 1 \in 1 .. Len(Tail(q))
    BY <2>1, <1>1, <1>2
  <2> QED BY <2>2
<1> QED BY <1>1, <1>3, <1>4, <1>5 DEF Enumerates

(* enqueue(): the list with x at its end.                                  *)
LEMMA AppendLists ==
  ASSUME NEW S, NEW q, Enumerates(q, S), NEW x, x \notin S
  PROVE  Enumerates(Append(q, x), S \cup {x})
<1> DEFINE r == Append(q, x)
           T == S \cup {x}
<1>1. q \in Seq(T) /\ q \in Seq(S)
  BY SeqMonotonic DEF Enumerates
<1>2. /\ r \in Seq(T) /\ Len(r) = Len(q) + 1
      /\ \A j \in 1 .. Len(q) : r[j] = q[j]
      /\ r[Len(q) + 1] = x
  BY <1>1, AppendProperties
<1> HIDE DEF r
<1>3. /\ \A j, k \in 1 .. Len(q) : q[j] = q[k] => j = k
      /\ \A j \in 1 .. Len(q) : q[j] # x
      /\ Len(q) \in Nat
  BY <1>1 DEF Enumerates
<1>4. \A j, k \in 1 .. Len(r) : r[j] = r[k] => j = k
  BY <1>2, <1>3
<1>5. \A y \in T : \E j \in 1 .. Len(r) : r[j] = y
  <2>1. Len(q) + 1 \in 1 .. Len(r)
    BY <1>2, <1>3
  <2>2. ASSUME NEW y \in S PROVE \E j \in 1 .. Len(r) : r[j] = y
    <3>1. PICK k \in 1 .. Len(q) : q[k] = y
      BY DEF Enumerates
    <3>2. k \in 1 .. Len(r) /\ r[k] = y
      BY <1>2, <1>3, <3>1
    <3> QED BY <3>2
  <2> QED BY <1>2, <2>1, <2>2
<1> QED BY <1>2, <1>4, <1>5 DEF Enumerates, r

-----------------------------------------------------------------------------
(* insert() keeps a list in descending order, when nothing but the key of  *)
(* the element it links in changes.                                        *)
LEMMA InsertDescending ==
  ASSUME NEW S, NEW q, Enumerates(q, S), NEW x, x \notin S,
         NEW keys, NEW new, NEW i,
         \A y \in S \cup {x} : new[y] \in Int,
         \A y \in S : keys[y] = new[y],
         Descending(q, keys), IsInsertPos(q, keys, new[x], i)
  PROVE  Descending(InsertAt(q, i, x), new)
<1> DEFINE r == InsertAt(q, i, x)
           T == S \cup {x}
<1>1. q \in Seq(T) /\ q \in Seq(S) /\ x \in T /\ i \in 1 .. Len(q) + 1
  BY SeqMonotonic DEF Enumerates, IsInsertPos
<1>2. /\ r \in Seq(T) /\ Len(r) = Len(q) + 1
      /\ \A j \in 1 .. Len(q) + 1 :
           r[j] = IF j < i THEN q[j] ELSE IF j = i THEN x ELSE q[j - 1]
  <2> HIDE DEF T
  <2> QED BY <1>1, InsertAtPlaces
<1>3. /\ \A j \in 1 .. Len(q) : q[j] \in S /\ keys[q[j]] = new[q[j]] /\ new[q[j]] \in Int
      /\ new[x] \in Int
  BY <1>1
<1>4. \A j, k \in 1 .. Len(q) : j < k => new[q[j]] >= new[q[k]]
  BY <1>3 DEF Descending
<1>5. /\ \A j \in 1 .. Len(q) : j < i => new[q[j]] >= new[x]
      /\ \A j \in 1 .. Len(q) : i <= j => new[x] >= new[q[j]]
  <2>1. ASSUME NEW j \in 1 .. Len(q), j < i PROVE new[q[j]] >= new[x]
    <3>1. j \in 1 .. i - 1
      BY <1>1, <2>1
    <3> QED BY <1>3, <3>1 DEF IsInsertPos, WalksPast
  <2>2. i <= Len(q) => new[x] > new[q[i]]
    BY <1>1, <1>3 DEF IsInsertPos, WalksPast
  <2> QED BY <1>1, <1>3, <1>4, <2>1, <2>2
<1> HIDE DEF r
<1> SUFFICES ASSUME NEW j \in 1 .. Len(r), NEW k \in 1 .. Len(r), j < k
             PROVE  new[r[j]] >= new[r[k]]
  BY DEF Descending, r
<1>6. Len(q) \in Nat /\ i \in Nat /\ j \in Nat /\ k \in Nat
  BY <1>1, <1>2
<1>7. CASE k < i
  <2>1. r[j] = q[j] /\ r[k] = q[k] /\ j \in 1 .. Len(q) /\ k \in 1 .. Len(q)
    BY <1>1, <1>2, <1>6, <1>7
  <2> QED BY <1>4, <2>1
<1>8. CASE j < i /\ k = i
  <2>1. r[j] = q[j] /\ r[k] = x /\ j \in 1 .. Len(q)
    BY <1>1, <1>2, <1>6, <1>8
  <2> QED BY <1>5, <1>8, <2>1
<1>9. CASE j < i /\ k > i
  <2>1. r[j] = q[j] /\ r[k] = q[k - 1] /\ j \in 1 .. Len(q) /\ k - 1 \in 1 .. Len(q) /\ j < k - 1
    BY <1>1, <1>2, <1>6, <1>9
  <2> QED BY <1>4, <2>1
<1>10. CASE j = i
  <2>1. r[j] = x /\ r[k] = q[k - 1] /\ k - 1 \in 1 .. Len(q) /\ i <= k - 1
    BY <1>1, <1>2, <1>6, <1>10
  <2> QED BY <1>5, <2>1
<1>11. CASE j > i
  <2>1. r[j] = q[j - 1] /\ r[k] = q[k - 1] /\ j - 1 \in 1 .. Len(q) /\ k - 1 \in 1 .. Len(q)
    BY <1>1, <1>2, <1>6, <1>11
  <2> QED BY <1>4, <1>6, <2>1, SMTT(20)
<1> QED BY <1>6, <1>7, <1>8, <1>9, <1>10, <1>11

(* getitem() and dequeue() keep the order.                                 *)
LEMMA RemoveDescending ==
  ASSUME NEW S, NEW q \in Seq(S), NEW i \in 1 .. Len(q), NEW keys, Descending(q, keys)
  PROVE  Descending(RemoveAt(q, i), keys)
<1> DEFINE r == RemoveAt(q, i)
<1>1. /\ Len(r) = Len(q) - 1 /\ Len(q) \in Nat
      /\ \A j \in 1 .. Len(q) - 1 : r[j] = IF j < i THEN q[j] ELSE q[j + 1]
  BY RemoveAtPlaces
<1> HIDE DEF r
<1> SUFFICES ASSUME NEW j \in 1 .. Len(r), NEW k \in 1 .. Len(r), j < k
             PROVE  keys[r[j]] >= keys[r[k]]
  BY DEF Descending, r
<1>2. PICK a \in 1 .. Len(q), b \in 1 .. Len(q) : a < b /\ r[j] = q[a] /\ r[k] = q[b]
  <2> DEFINE a == IF j < i THEN j ELSE j + 1
             b == IF k < i THEN k ELSE k + 1
  <2>1. a \in 1 .. Len(q) /\ b \in 1 .. Len(q) /\ a < b /\ r[j] = q[a] /\ r[k] = q[b]
    BY <1>1
  <2> QED BY <2>1
<1> QED BY <1>2 DEF Descending

LEMMA TailDescending ==
  ASSUME NEW S, NEW q, Enumerates(q, S), q # << >>, NEW keys,
         \A y \in S : keys[y] \in Int, Descending(q, keys)
  PROVE  /\ Descending(Tail(q), keys)
         /\ \A y \in S : keys[y] <= keys[Head(q)]
<1>1. q \in Seq(S) /\ Len(q) \in Nat \ {0} /\ Head(q) = q[1] /\ Head(q) \in S
  BY DEF Enumerates
<1>2. Len(Tail(q)) = Len(q) - 1 /\ \A j \in 1 .. Len(q) - 1 : Tail(q)[j] = q[j + 1]
  BY <1>1
<1>3. Descending(Tail(q), keys)
  BY <1>1, <1>2 DEF Descending
<1>4. ASSUME NEW y \in S PROVE keys[y] <= keys[Head(q)]
  <2>1. PICK k \in 1 .. Len(q) : q[k] = y
    BY DEF Enumerates
  <2>2. CASE k = 1
    BY <1>1, <2>1, <2>2
  <2>3. CASE k > 1
    <3>1. 1 \in 1 .. Len(q) /\ 1 < k
      BY <1>1, <2>3
    <3>2. keys[q[1]] >= keys[q[k]]
      BY <3>1 DEF Descending
    <3> QED BY <1>1, <2>1, <3>2
  <2> QED BY <2>2, <2>3
<1> QED BY <1>3, <1>4

-----------------------------------------------------------------------------
(* Induction on the members of a set of numbers: were n not in G, adding 1 *)
(* would map the members up to n one to one to those without 0.            *)
LEMMA SetInduction ==
  ASSUME NEW G, 0 \in G, \A m \in Nat : m \in G => m + 1 \in G
  PROVE  \A n \in Nat : n \in G
<1> SUFFICES ASSUME NEW n \in Nat, n \notin G PROVE FALSE
  OBVIOUS
<1> DEFINE T == {m \in 0 .. n : m \in G}
           f == [m \in T |-> m + 1]
<1>1. IsFiniteSet(T) /\ 0 \in T
  <2>1. IsFiniteSet(0 .. n)
    BY FS_Interval
  <2> QED BY <2>1, FS_Subset
<1>2. f \in [T -> T \ {0}]
  <2>1. ASSUME NEW m \in T
        PROVE  m + 1 \in T \ {0}
    <3>1. m # n
      OBVIOUS
    <3> QED BY <3>1
  <2> QED BY <2>1
<1>3. IsFiniteSet(T \ {0}) /\ Cardinality(T \ {0}) < Cardinality(T)
  <2>1. Cardinality(T) \in Nat
    BY <1>1, FS_CardinalityType
  <2>2. IsFiniteSet(T \ {0}) /\ Cardinality(T \ {0}) = Cardinality(T) - 1
    BY <1>1, FS_RemoveElement
  <2> QED BY <2>1, <2>2
<1>4. \E m, p \in T : m # p /\ f[m] = f[p]
  <2> HIDE DEF T, f
  <2> QED BY <1>1, <1>2, <1>3, FS_PigeonHole
<1> QED BY <1>4

(* A function defined by recursion on the numbers up to top exists.        *)
StepsOn(top, S) == [1 .. top -> [S -> S]]
Recurs(f, top, S, base, step) ==
  f \in [0 .. top -> S] /\ f[0] = base /\ \A n \in 1 .. top : f[n] = step[n][f[n - 1]]

LEMMA RecursionExists ==
  ASSUME NEW top \in Nat, NEW S, NEW base \in S, NEW step \in StepsOn(top, S)
  PROVE  \E f : Recurs(f, top, S, base, step)
<1> DEFINE Upto(m) == \E f \in [0 .. m -> S] :
                        f[0] = base /\ \A n \in 1 .. m : f[n] = step[n][f[n - 1]]
           G == {m \in Nat : m <= top => Upto(m)}
<1>1. 0 \in G
  <2> DEFINE f == [n \in 0 .. 0 |-> base]
  <2>1. f \in [0 .. 0 -> S] /\ f[0] = base
    OBVIOUS
  <2>2. \A n \in 1 .. 0 : FALSE
    OBVIOUS
  <2> QED BY <2>1, <2>2
<1>2. ASSUME NEW m \in Nat, m \in G
      PROVE  m + 1 \in G
  <2> SUFFICES ASSUME m + 1 <= top PROVE Upto(m + 1)
    OBVIOUS
  <2>1. PICK f \in [0 .. m -> S] :
          f[0] = base /\ \A n \in 1 .. m : f[n] = step[n][f[n - 1]]
    BY <1>2
  <2> DEFINE g == [n \in 0 .. m + 1 |-> IF n <= m THEN f[n] ELSE step[m + 1][f[m]]]
  <2>2. g \in [0 .. m + 1 -> S] /\ g[0] = base
    <3>1. m + 1 \in 1 .. top /\ m \in 0 .. m
      OBVIOUS
    <3>2. step[m + 1][f[m]] \in S
      BY <3>1 DEF StepsOn
    <3>3. \A n \in 0 .. m + 1 : n <= m => n \in 0 .. m
      OBVIOUS
    <3> QED BY <2>1, <3>2, <3>3
  <2>3. ASSUME NEW n \in 1 .. m + 1
        PROVE  g[n] = step[n][g[n - 1]]
    <3>2. CASE n <= m
      <4>1. n \in 1 .. m /\ n - 1 \in 0 .. m /\ n - 1 \in 0 .. m + 1 /\ n - 1 <= m
        BY <3>2
      <4>2. f[n] = step[n][f[n - 1]]
        BY <2>1, <4>1
      <4>3. g[n] = f[n] /\ g[n - 1] = f[n - 1]
        BY <3>2, <4>1
      <4> QED BY <4>2, <4>3
    <3>3. CASE n = m + 1
      <4>1. ~(n <= m) /\ n - 1 = m /\ m <= m /\ m \in 0 .. m + 1
        BY <3>3
      <4>2. g[n] = step[n][f[m]] /\ g[m] = f[m]
        BY <3>3, <4>1
      <4> QED BY <4>1, <4>2
    <3> QED BY <3>2, <3>3
  <2> HIDE DEF g
  <2> QED BY <2>2, <2>3
<1> HIDE DEF G
<1>3. \A m \in Nat : m \in G
  BY <1>1, <1>2, SetInduction
<1> QED BY <1>3 DEF G, Recurs

(* And so does one on all numbers: those up to every top agree.            *)
Steps(S) == [Nat \ {0} -> [S -> S]]
Continues(f, S, base, step) ==
  f \in [Nat -> S] /\ f[0] = base /\ \A n \in Nat : f[n + 1] = step[n + 1][f[n]]

LEMMA RecursionOnNumbers ==
  ASSUME NEW S, NEW base \in S, NEW step \in Steps(S)
  PROVE  \E f : Continues(f, S, base, step)
<1> DEFINE Part(top) == [n \in 1 .. top |-> step[n]]
           Rec(g, top) == Recurs(g, top, S, base, Part(top))
           h(top) == CHOOSE g : Rec(g, top)
           f == [n \in Nat |-> h(n)[n]]
<1>1. ASSUME NEW top \in Nat
      PROVE  /\ h(top) \in [0 .. top -> S] /\ h(top)[0] = base
             /\ \A n \in 1 .. top : h(top)[n] = step[n][h(top)[n - 1]]
  <2>1. Part(top) \in StepsOn(top, S) /\ \A n \in 1 .. top : Part(top)[n] = step[n]
    BY DEF StepsOn, Steps
  <2> HIDE DEF Part
  <2>2. \E g : Rec(g, top)
    BY <2>1, RecursionExists
  <2>3. Rec(h(top), top)
    <3> HIDE DEF Rec
    <3> QED BY <2>2
  <2> HIDE DEF h
  <2> QED BY <2>1, <2>3 DEF Recurs
<1> HIDE DEF h
<1>2. ASSUME NEW top \in Nat, NEW m \in Nat, m <= top
      PROVE  h(top + 1)[m] = h(top)[m]
  <2> DEFINE G == {n \in Nat : n <= top => h(top + 1)[n] = h(top)[n]}
  <2>1. 0 \in G
    BY <1>1
  <2>2. ASSUME NEW n \in Nat, n \in G
        PROVE  n + 1 \in G
    <3> SUFFICES ASSUME n + 1 <= top PROVE h(top + 1)[n + 1] = h(top)[n + 1]
      OBVIOUS
    <3>1. top + 1 \in Nat /\ n + 1 \in 1 .. top /\ n + 1 \in 1 .. top + 1 /\ (n + 1) - 1 = n
      OBVIOUS
    <3>2. h(top + 1)[n + 1] = step[n + 1][h(top + 1)[n]]
      BY <1>1, <3>1
    <3>3. h(top)[n + 1] = step[n + 1][h(top)[n]]
      BY <1>1, <3>1
    <3> QED BY <2>2, <3>2, <3>3
  <2> HIDE DEF G
  <2>3. m \in G
    BY <2>1, <2>2, SetInduction
  <2> QED BY <1>2, <2>3 DEF G
<1>3. f \in [Nat -> S]
  <2>1. ASSUME NEW n \in Nat
        PROVE  h(n)[n] \in S
    <3>1. n \in 0 .. n
      OBVIOUS
    <3> QED BY <1>1, <3>1
  <2> QED BY <2>1
<1>4. f[0] = base
  BY <1>1
<1>5. ASSUME NEW n \in Nat
      PROVE  f[n + 1] = step[n + 1][f[n]]
  <2>1. n + 1 \in Nat /\ n + 1 \in 1 .. n + 1 /\ (n + 1) - 1 = n /\ n <= n
    OBVIOUS
  <2>2. h(n + 1)[n + 1] = step[n + 1][h(n + 1)[n]]
    BY <1>1, <2>1
  <2>3. h(n + 1)[n] = h(n)[n]
    BY <1>2, <2>1
  <2> QED BY <2>1, <2>2, <2>3
<1> HIDE DEF f
<1> QED BY <1>3, <1>4, <1>5 DEF Continues

(* A set of numbers that is not empty has a least element, and if it has a *)
(* bound a greatest.                                                       *)
LEMMA LeastNumber ==
  ASSUME NEW S \in SUBSET Nat, S # {}
  PROVE  Min(S) \in S /\ \A y \in S : Min(S) <= y
<1>1. \E least \in S : \A y \in S : least <= y
  <2> SUFFICES ASSUME \A k \in S : \E y \in S : ~(k <= y)
               PROVE  FALSE
    OBVIOUS
  <2> DEFINE G == {n \in Nat : \A k \in 0 .. n : k \notin S}
  <2>1. 0 \in G
    OBVIOUS
  <2>2. ASSUME NEW n \in Nat, n \in G
        PROVE  n + 1 \in G
    <3> SUFFICES n + 1 \notin S
      BY <2>2
    <3>1. \A k \in 0 .. n : k \notin S
      BY <2>2
    <3> QED BY <3>1
  <2> HIDE DEF G
  <2>3. \A n \in Nat : n \in G
    BY <2>1, <2>2, SetInduction
  <2>4. PICK n \in S : TRUE
    OBVIOUS
  <2>5. n \in Nat /\ n \in 0 .. n
    OBVIOUS
  <2> QED BY <2>3, <2>4, <2>5 DEF G
<1> QED BY <1>1 DEF Min

LEMMA GreatestNumber ==
  ASSUME NEW S \in SUBSET Nat, S # {}, NEW top \in Nat, \A y \in S : y <= top
  PROVE  Max(S) \in S /\ \A y \in S : Max(S) >= y
<1> DEFINE T == {top - y : y \in S}
<1>1. T \in SUBSET Nat /\ T # {}
  <2>1. \A y \in S : top - y \in Nat
    OBVIOUS
  <2> QED BY <2>1
<1>2. PICK k \in T : \A y \in T : k <= y
  <2> HIDE DEF T
  <2> QED BY <1>1, LeastNumber
<1>3. PICK most \in S : k = top - most
  OBVIOUS
<1>4. \A y \in S : most >= y
  <2> TAKE y \in S
  <2>1. top - y \in T
    OBVIOUS
  <2> HIDE DEF T
  <2> QED BY <1>2, <1>3, <2>1
<1> QED BY <1>4 DEF Max

(* The least element is the one that is below every other.                 *)
LEMMA LeastIs ==
  ASSUME NEW S \in SUBSET Nat, NEW k \in S, \A y \in S : k <= y
  PROVE  Min(S) = k
<1>1. PICK n \in Nat : n = Min(S) /\ n \in S /\ \A y \in S : n <= y
  BY LeastNumber
<1>2. n <= k /\ k <= n
  BY <1>1
<1> QED BY <1>1, <1>2

LEMMA GreatestIs ==
  ASSUME NEW S \in SUBSET Nat, NEW k \in S, \A y \in S : k >= y
  PROVE  Max(S) = k
<1>1. PICK n \in Nat : n = Max(S) /\ n \in S /\ \A y \in S : n >= y
  <2>1. k \in Nat /\ \A y \in S : y <= k
    OBVIOUS
  <2> QED BY <2>1, GreatestNumber
<1>2. n <= k /\ k <= n
  BY <1>1
<1> QED BY <1>1, <1>2
=============================================================================
