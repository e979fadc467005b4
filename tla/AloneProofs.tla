---------------------------- MODULE AloneProofs ----------------------------
(***************************************************************************)
(* Proofs about the components under the kernel that work alone: the free  *)
(* list of Memory, the register contexts of Context and queuetab.          *)
(***************************************************************************)
EXTENDS Memory, Context, QueueLinks, ListLemmas

-----------------------------------------------------------------------------
(* The free list.                                                          *)

Blocks == [at : Nat, len : Nat \ {0}]
EndOf(b) == b.at + b.len
WithIn(b, w) == b.at <= w /\ w < EndOf(b)

(* Blocks of the heap, each with a gap behind it.                          *)
GoodList(f) ==
  /\ f \in Seq(Blocks)
  /\ \A m \in 1 .. Len(f) : EndOf(f[m]) <= HeapSize
  /\ \A m, n \in 1 .. Len(f) : m < n => EndOf(f[m]) < f[n].at

(* The word w is in a block of the list f.                                 *)
InList(f, w) == \E m \in 1 .. Len(f) : WithIn(f[m], w)
ListWords(f) == UNION {WordsOf(f[m].at, f[m].len) : m \in 1 .. Len(f)}

LEMMA ListBlocks ==
  ASSUME NEW f, GoodList(f), NEW m \in 1 .. Len(f)
  PROVE  /\ f[m] \in Blocks /\ f[m] = Block(f[m].at, f[m].len)
         /\ f[m].at \in Nat /\ f[m].len \in Nat /\ f[m].len > 0
         /\ EndOf(f[m]) \in Nat /\ EndOf(f[m]) <= HeapSize /\ f[m].at < EndOf(f[m])
<1>1. f[m] \in Blocks
  BY DEF GoodList
<1> QED BY <1>1 DEF GoodList, Blocks, EndOf, Block

LEMMA WordsInList ==
  ASSUME NEW f, GoodList(f)
  PROVE  /\ \A w : w \in ListWords(f) <=> w \in Int /\ InList(f, w)
         /\ ListWords(f) \subseteq Words
<1>1. ASSUME NEW m \in 1 .. Len(f), NEW w
      PROVE  w \in WordsOf(f[m].at, f[m].len) <=> w \in Int /\ WithIn(f[m], w)
  <2>1. f[m].at \in Nat /\ f[m].len \in Nat /\ f[m].len > 0
    BY ListBlocks
  <2> QED BY <2>1 DEF WordsOf, WithIn, EndOf
<1>2. \A w : w \in ListWords(f) <=> \E m \in 1 .. Len(f) : w \in WordsOf(f[m].at, f[m].len)
  BY DEF ListWords
<1>3. \A w : w \in ListWords(f) <=> w \in Int /\ InList(f, w)
  BY <1>1, <1>2 DEF InList
<1>4. ASSUME NEW w \in ListWords(f)
      PROVE  w \in Words
  <2>1. PICK m \in 1 .. Len(f) : w \in Int /\ WithIn(f[m], w)
    BY <1>3 DEF InList
  <2>2. f[m].at \in Nat /\ EndOf(f[m]) \in Nat /\ EndOf(f[m]) <= HeapSize
    BY ListBlocks
  <2> QED BY <2>1, <2>2, HeapAssumption DEF WithIn, Words
<1> QED BY <1>3, <1>4

(* The list with one block changed to a part of it.                        *)
LEMMA PartLeft ==
  ASSUME NEW f, GoodList(f), NEW k \in 1 .. Len(f), NEW b \in Blocks,
         f[k].at <= b.at, EndOf(b) <= EndOf(f[k])
  PROVE  /\ GoodList([f EXCEPT ![k] = b])
         /\ \A w \in Int : InList([f EXCEPT ![k] = b], w) <=>
              InList(f, w) /\ (WithIn(f[k], w) => WithIn(b, w))
<1> DEFINE g == [f EXCEPT ![k] = b]
<1>1. /\ g \in Seq(Blocks) /\ Len(g) = Len(f)
      /\ \A m \in 1 .. Len(f) : g[m] = IF m = k THEN b ELSE f[m]
  BY DEF GoodList
<1>2. \A m \in 1 .. Len(f) :
        /\ g[m].at \in Nat /\ EndOf(g[m]) \in Nat
        /\ f[m].at \in Nat /\ EndOf(f[m]) \in Nat
        /\ f[m].at <= g[m].at /\ EndOf(g[m]) <= EndOf(f[m])
  <2> TAKE m \in 1 .. Len(f)
  <2>1. f[m].at \in Nat /\ EndOf(f[m]) \in Nat
    BY ListBlocks
  <2>2. b.at \in Nat /\ EndOf(b) \in Nat
    BY DEF Blocks, EndOf
  <2> QED BY <1>1, <2>1, <2>2
<1> HIDE DEF g
<1>3. GoodList(g)
  <2>1. ASSUME NEW m \in 1 .. Len(f)
        PROVE  EndOf(g[m]) <= HeapSize
    BY <1>2, HeapAssumption DEF GoodList
  <2>2. ASSUME NEW m \in 1 .. Len(f), NEW n \in 1 .. Len(f), m < n
        PROVE  EndOf(g[m]) < g[n].at
    <3>1. EndOf(f[m]) < f[n].at
      BY <2>2 DEF GoodList
    <3> QED BY <1>2, <3>1, SMTT(20)
  <2> QED BY <1>1, <2>1, <2>2 DEF GoodList
<1>4. ASSUME NEW w \in Int
      PROVE  InList(g, w) <=> InList(f, w) /\ (WithIn(f[k], w) => WithIn(b, w))
  <2>1. \A m \in 1 .. Len(f) : m # k /\ WithIn(f[m], w) => ~WithIn(f[k], w)
    BY <1>2 DEF GoodList, WithIn
  <2>2. WithIn(b, w) => WithIn(f[k], w)
    BY <1>1, <1>2, SMTT(20) DEF WithIn
  <2>3. InList(g, w) <=> \E m \in 1 .. Len(f) : IF m = k THEN WithIn(b, w) ELSE WithIn(f[m], w)
    BY <1>1 DEF InList
  <2> QED BY <2>1, <2>2, <2>3 DEF InList
<1> QED BY <1>3, <1>4 DEF g

(* The list without one block.                                             *)
LEMMA BlockLeft ==
  ASSUME NEW f, GoodList(f), NEW k \in 1 .. Len(f)
  PROVE  /\ GoodList(RemoveAt(f, k))
         /\ \A w \in Int : InList(RemoveAt(f, k), w) <=> InList(f, w) /\ ~WithIn(f[k], w)
<1> DEFINE g == RemoveAt(f, k)
<1>1. /\ g \in Seq(Blocks) /\ Len(g) = Len(f) - 1
      /\ \A m \in 1 .. Len(f) - 1 : g[m] = IF m < k THEN f[m] ELSE f[m + 1]
  BY RemoveAtPlaces DEF GoodList
<1> HIDE DEF g
<1>2. Len(f) \in Nat /\ k \in Nat
  BY DEF GoodList
<1>3. \A m \in 1 .. Len(g) : \E n \in 1 .. Len(f) : n = (IF m < k THEN m ELSE m + 1) /\ g[m] = f[n]
  BY <1>1, <1>2
<1>4. \A n \in 1 .. Len(f) : n # k => \E m \in 1 .. Len(g) : n = (IF m < k THEN m ELSE m + 1)
  <2> TAKE n \in 1 .. Len(f)
  <2>1. CASE n < k
    BY <1>1, <1>2, <2>1
  <2>2. CASE n > k
    <3>1. n - 1 \in 1 .. Len(g) /\ n = (n - 1) + 1 /\ ~(n - 1 < k)
      BY <1>1, <1>2, <2>2
    <3> QED BY <3>1
  <2> QED BY <2>1, <2>2, <1>2
<1>5. GoodList(g)
  <2>1. \A m \in 1 .. Len(g) : EndOf(g[m]) <= HeapSize
    BY <1>3 DEF GoodList
  <2>2. ASSUME NEW m \in 1 .. Len(g), NEW n \in 1 .. Len(g), m < n
        PROVE  EndOf(g[m]) < g[n].at
    <3>1. PICK u \in 1 .. Len(f) : u = (IF m < k THEN m ELSE m + 1) /\ g[m] = f[u]
      BY <1>3
    <3>2. PICK v \in 1 .. Len(f) : v = (IF n < k THEN n ELSE n + 1) /\ g[n] = f[v]
      BY <1>3
    <3>3. u < v
      BY <1>1, <1>2, <2>2, <3>1, <3>2
    <3> QED BY <3>1, <3>2, <3>3 DEF GoodList
  <2> QED BY <1>1, <2>1, <2>2 DEF GoodList
<1>6. ASSUME NEW w \in Int
      PROVE  InList(g, w) <=> InList(f, w) /\ ~WithIn(f[k], w)
  <2>1. \A m \in 1 .. Len(f) : m # k /\ WithIn(f[m], w) => ~WithIn(f[k], w)
    <3> TAKE m \in 1 .. Len(f)
    <3>1. f[m].at \in Nat /\ EndOf(f[m]) \in Nat /\ f[k].at \in Nat /\ EndOf(f[k]) \in Nat
      BY ListBlocks
    <3> QED BY <1>2, <3>1 DEF GoodList, WithIn
  <2>2. \A m \in 1 .. Len(g) : \E n \in 1 .. Len(f) : n # k /\ g[m] = f[n]
    BY <1>1, <1>2, <1>3
  <2>3. \A n \in 1 .. Len(f) : n # k => \E m \in 1 .. Len(g) : g[m] = f[n]
    BY <1>1, <1>4
  <2> QED BY <2>1, <2>2, <2>3 DEF InList
<1> QED BY <1>5, <1>6 DEF g

(* The first c blocks of a list, a new one, and those from the d-th on.    *)
Spliced(f, c, b, d) == SubSeq(f, 1, c) \o <<b>> \o SubSeq(f, d, Len(f))

LEMMA SplicedPlaces ==
  ASSUME NEW f \in Seq(Blocks), NEW c \in 0 .. Len(f), NEW d \in c + 1 .. Len(f) + 1,
         NEW b \in Blocks
  PROVE  /\ Spliced(f, c, b, d) \in Seq(Blocks)
         /\ Len(Spliced(f, c, b, d)) = Len(f) + c + 2 - d
         /\ \A m \in 1 .. Len(f) + c + 2 - d :
              Spliced(f, c, b, d)[m] =
                IF m <= c THEN f[m] ELSE IF m = c + 1 THEN b ELSE f[m + d - c - 2]
<1> DEFINE u == SubSeq(f, 1, c)
           v == SubSeq(f, d, Len(f))
           t == u \o <<b>>
<1>0. Len(f) \in Nat /\ c \in Nat /\ d \in Nat
  OBVIOUS
<1>1. u \in Seq(Blocks) /\ Len(u) = c /\ \A m \in 1 .. c : u[m] = f[m]
  OBVIOUS
<1>2. /\ v \in Seq(Blocks) /\ Len(v) = Len(f) + 1 - d
      /\ \A m \in 1 .. Len(f) + 1 - d : v[m] = f[d + m - 1]
  OBVIOUS
<1>3. /\ t \in Seq(Blocks) /\ Len(t) = c + 1
      /\ \A m \in 1 .. c + 1 : t[m] = IF m <= c THEN f[m] ELSE b
  <2> HIDE DEF u
  <2> QED BY <1>1
<1>4. /\ t \o v \in Seq(Blocks) /\ Len(t \o v) = Len(t) + Len(v)
      /\ \A m \in 1 .. Len(t) + Len(v) :
           (t \o v)[m] = IF m <= Len(t) THEN t[m] ELSE v[m - Len(t)]
  <2>1. t \in Seq(Blocks) /\ v \in Seq(Blocks)
    BY <1>2, <1>3
  <2> HIDE DEF t, v
  <2> QED BY ONLY <2>1, ConcatProperties
<1> HIDE DEF t, v
<1>5. ASSUME NEW m \in 1 .. Len(f) + c + 2 - d
      PROVE  (t \o v)[m] = IF m <= c THEN f[m] ELSE IF m = c + 1 THEN b ELSE f[m + d - c - 2]
  <2>1. (t \o v)[m] = IF m <= c + 1 THEN t[m] ELSE v[m - c - 1]
    BY <1>0, <1>2, <1>3, <1>4
  <2>2. CASE m <= c + 1
    BY <1>0, <1>3, <2>1, <2>2
  <2>3. CASE m > c + 1
    <3>1. m - c - 1 \in 1 .. Len(f) + 1 - d /\ d + (m - c - 1) - 1 = m + d - c - 2
      BY <1>0, <2>3
    <3>2. v[m - c - 1] = f[m + d - c - 2]
      BY <1>2, <3>1
    <3> QED BY <1>0, <2>1, <2>3, <3>2, SMTT(20)
  <2>4. m <= c + 1 \/ m > c + 1
    BY <1>0
  <2> QED BY <2>2, <2>3, <2>4
<1>6. Spliced(f, c, b, d) = t \o v
  BY DEF Spliced, t, v
<1>7. Len(t) + Len(v) = Len(f) + c + 2 - d
  BY <1>0, <1>2, <1>3
<1> QED BY <1>4, <1>5, <1>6, <1>7

LEMMA SplicedList ==
  ASSUME NEW f, GoodList(f), NEW c \in 0 .. Len(f), NEW d \in c + 1 .. Len(f) + 1,
         NEW b \in Blocks, EndOf(b) <= HeapSize,
         c > 0 => EndOf(f[c]) < b.at,
         d <= Len(f) => EndOf(b) < f[d].at
  PROVE  /\ GoodList(Spliced(f, c, b, d))
         /\ \A w \in Int : InList(Spliced(f, c, b, d), w) <=>
              WithIn(b, w) \/ \E m \in 1 .. Len(f) : (m <= c \/ m >= d) /\ WithIn(f[m], w)
<1> DEFINE g == Spliced(f, c, b, d)
           From(m) == IF m <= c THEN m ELSE m + d - c - 2
<1>0. Len(f) \in Nat /\ c \in Nat /\ d \in Nat /\ f \in Seq(Blocks)
  BY DEF GoodList
<1>1. /\ g \in Seq(Blocks) /\ Len(g) = Len(f) + c + 2 - d
      /\ \A m \in 1 .. Len(g) :
           g[m] = IF m <= c THEN f[m] ELSE IF m = c + 1 THEN b ELSE f[m + d - c - 2]
  BY <1>0, SplicedPlaces
<1> HIDE DEF g
<1>2. /\ c + 1 \in 1 .. Len(g) /\ g[c + 1] = b
      /\ \A m \in 1 .. Len(g) : m # c + 1 =>
           From(m) \in 1 .. Len(f) /\ (From(m) <= c \/ From(m) >= d) /\ g[m] = f[From(m)]
  <2>1. c + 1 \in 1 .. Len(g) /\ g[c + 1] = b
    BY <1>0, <1>1
  <2>2. ASSUME NEW m \in 1 .. Len(g), m # c + 1
        PROVE  From(m) \in 1 .. Len(f) /\ (From(m) <= c \/ From(m) >= d) /\ g[m] = f[From(m)]
    <3>0. m \in Nat /\ m > 0 /\ m <= Len(f) + c + 2 - d /\ d > c /\ d <= Len(f) + 1 /\ c <= Len(f)
      BY <1>0, <1>1
    <3>1. From(m) \in 1 .. Len(f) /\ (From(m) <= c \/ From(m) >= d)
      BY <1>0, <2>2, <3>0
    <3>2. g[m] = f[From(m)]
      BY <1>0, <1>1, <2>2
    <3> QED BY <3>1, <3>2
  <2> QED BY <2>1, <2>2
<1>3. \A n \in 1 .. Len(f) : n <= c \/ n >= d =>
        \E m \in 1 .. Len(g) : m # c + 1 /\ From(m) = n
  <2> TAKE n \in 1 .. Len(f)
  <2>1. CASE n <= c
    BY <1>0, <1>1, <2>1
  <2>2. CASE n >= d
    <3>1. n + c + 2 - d \in 1 .. Len(g) /\ n + c + 2 - d # c + 1 /\ From(n + c + 2 - d) = n
      BY <1>0, <1>1, <2>2
    <3> QED BY <3>1
  <2> QED BY <2>1, <2>2
<1>4. /\ b.at \in Nat /\ EndOf(b) \in Nat
      /\ \A m \in 1 .. Len(f) : f[m].at \in Nat /\ EndOf(f[m]) \in Nat /\ f[m].at < EndOf(f[m])
  BY ListBlocks DEF Blocks, EndOf
<1>5. \A m \in 1 .. Len(f) : m <= c => EndOf(f[m]) < b.at
  <2> SUFFICES ASSUME NEW m \in 1 .. Len(f), m <= c
               PROVE  EndOf(f[m]) < b.at
    OBVIOUS
  <2>1. c \in 1 .. Len(f) /\ (m = c \/ m < c)
    BY <1>0
  <2>2. m < c => EndOf(f[m]) < f[c].at
    BY <2>1 DEF GoodList
  <2> QED BY <1>0, <1>4, <2>1, <2>2
<1>6. \A m \in 1 .. Len(f) : m >= d => EndOf(b) < f[m].at
  <2> SUFFICES ASSUME NEW m \in 1 .. Len(f), m >= d
               PROVE  EndOf(b) < f[m].at
    OBVIOUS
  <2>1. d \in 1 .. Len(f) /\ (m = d \/ d < m)
    BY <1>0
  <2>2. d < m => EndOf(f[d]) < f[m].at
    BY <2>1 DEF GoodList
  <2> QED BY <1>0, <1>4, <2>1, <2>2
<1>7. GoodList(g)
  <2>1. \A m \in 1 .. Len(g) : EndOf(g[m]) <= HeapSize
    BY <1>2 DEF GoodList
  <2>2. ASSUME NEW m \in 1 .. Len(g), NEW n \in 1 .. Len(g), m < n
        PROVE  EndOf(g[m]) < g[n].at
    <3>1. CASE m # c + 1 /\ n # c + 1
      <4>1. From(m) < From(n)
        BY <1>0, <1>1, <2>2, <3>1
      <4> HIDE DEF From
      <4>2. EndOf(f[From(m)]) < f[From(n)].at
        BY <1>2, <3>1, <4>1 DEF GoodList
      <4> QED BY <1>2, <3>1, <4>2
    <3>2. CASE m = c + 1 /\ n # c + 1
      <4>1. From(n) >= d
        BY <1>0, <1>1, <2>2, <3>2
      <4> HIDE DEF From
      <4> QED BY <1>2, <1>6, <3>2, <4>1
    <3>3. CASE m # c + 1 /\ n = c + 1
      <4>1. From(m) <= c
        BY <1>0, <1>1, <2>2, <3>3
      <4> HIDE DEF From
      <4> QED BY <1>2, <1>5, <3>3, <4>1
    <3> QED BY <2>2, <3>1, <3>2, <3>3
  <2> QED BY <1>1, <2>1, <2>2 DEF GoodList
<1> HIDE DEF From
<1>8. ASSUME NEW w \in Int
      PROVE  InList(g, w) <=>
               WithIn(b, w) \/ \E m \in 1 .. Len(f) : (m <= c \/ m >= d) /\ WithIn(f[m], w)
  BY <1>2, <1>3 DEF InList
<1> QED BY <1>7, <1>8 DEF g

(* What getmem and getstk leave: the words but for n at either end of the  *)
(* block they chose.                                                       *)
LEMMA BottomTaken ==
  ASSUME GoodList(memlist), NEW k \in 1 .. Len(memlist), NEW n \in Nat, n > 0,
         memlist[k].len >= n
  PROVE  /\ GoodList(WithoutBottom(k, n))
         /\ \A w \in Int : InList(WithoutBottom(k, n), w) <=>
              InList(memlist, w) /\ w \notin WordsOf(memlist[k].at, n)
<1> DEFINE b == Block(memlist[k].at + n, memlist[k].len - n)
<1>1. /\ memlist[k].at \in Nat /\ memlist[k].len \in Nat
      /\ EndOf(memlist[k]) = memlist[k].at + memlist[k].len
  BY ListBlocks DEF EndOf
<1>2. CASE memlist[k].len = n
  <2>1. \A w \in Int : WithIn(memlist[k], w) <=> w \in WordsOf(memlist[k].at, n)
    BY <1>1, <1>2 DEF WithIn, WordsOf
  <2>2. WithoutBottom(k, n) = RemoveAt(memlist, k)
    BY <1>2 DEF WithoutBottom
  <2> QED BY <2>1, <2>2, BlockLeft
<1>3. CASE memlist[k].len # n
  <2>1. b \in Blocks /\ memlist[k].at <= b.at /\ EndOf(b) = EndOf(memlist[k])
    BY <1>1, <1>3 DEF Blocks, Block, EndOf
  <2>2. \A w \in Int : WithIn(memlist[k], w) => (WithIn(b, w) <=> w \notin WordsOf(memlist[k].at, n))
    BY <1>1, <2>1 DEF WithIn, WordsOf, Block
  <2>3. WithoutBottom(k, n) = [memlist EXCEPT ![k] = b]
    BY <1>3 DEF WithoutBottom
  <2>4. \A w \in WordsOf(memlist[k].at, n) : WithIn(memlist[k], w)
    BY <1>1 DEF WithIn, WordsOf
  <2> HIDE DEF b
  <2>5. EndOf(b) <= EndOf(memlist[k])
    BY <1>1, <2>1
  <2>6. /\ GoodList([memlist EXCEPT ![k] = b])
        /\ \A w \in Int : InList([memlist EXCEPT ![k] = b], w) <=>
             InList(memlist, w) /\ (WithIn(memlist[k], w) => WithIn(b, w))
    BY <2>1, <2>5, PartLeft
  <2> QED BY <2>2, <2>3, <2>4, <2>6
<1> QED BY <1>2, <1>3

LEMMA TopTaken ==
  ASSUME GoodList(memlist), NEW k \in 1 .. Len(memlist), NEW n \in Nat, n > 0,
         memlist[k].len >= n
  PROVE  /\ GoodList(WithoutTop(k, n))
         /\ \A w \in Int : InList(WithoutTop(k, n), w) <=>
              InList(memlist, w) /\ w \notin WordsOf(EndOf(memlist[k]) - n, n)
<1> DEFINE b == Block(memlist[k].at, memlist[k].len - n)
<1>1. /\ memlist[k].at \in Nat /\ memlist[k].len \in Nat
      /\ EndOf(memlist[k]) = memlist[k].at + memlist[k].len
  BY ListBlocks DEF EndOf
<1>2. CASE memlist[k].len = n
  <2>1. \A w \in Int : WithIn(memlist[k], w) <=> w \in WordsOf(EndOf(memlist[k]) - n, n)
    BY <1>1, <1>2 DEF WithIn, WordsOf
  <2>2. WithoutTop(k, n) = RemoveAt(memlist, k)
    BY <1>2 DEF WithoutTop
  <2> QED BY <2>1, <2>2, BlockLeft
<1>3. CASE memlist[k].len # n
  <2>1. b \in Blocks /\ memlist[k].at = b.at /\ EndOf(b) = EndOf(memlist[k]) - n
    BY <1>1, <1>3 DEF Blocks, Block, EndOf
  <2>2. \A w \in Int : WithIn(memlist[k], w) =>
          (WithIn(b, w) <=> w \notin WordsOf(EndOf(memlist[k]) - n, n))
    BY <1>1, <2>1 DEF WithIn, WordsOf, Block
  <2>3. WithoutTop(k, n) = [memlist EXCEPT ![k] = b]
    BY <1>3 DEF WithoutTop
  <2>4. \A w \in WordsOf(EndOf(memlist[k]) - n, n) : WithIn(memlist[k], w)
    BY <1>1 DEF WithIn, WordsOf
  <2> HIDE DEF b
  <2>5. memlist[k].at <= b.at /\ EndOf(b) <= EndOf(memlist[k])
    BY <1>1, <2>1
  <2>6. /\ GoodList([memlist EXCEPT ![k] = b])
        /\ \A w \in Int : InList([memlist EXCEPT ![k] = b], w) <=>
             InList(memlist, w) /\ (WithIn(memlist[k], w) => WithIn(b, w))
    BY <2>1, <2>5, PartLeft
  <2> QED BY <2>2, <2>3, <2>4, <2>6
<1> QED BY <1>2, <1>3

(* What freemem leaves: the words and those of the block it links in.      *)
LEMMA BlockFreed ==
  ASSUME GoodList(memlist), NEW k \in 1 .. Len(memlist) + 1, NEW p \in Nat, NEW n \in Nat,
         n > 0, p + n <= HeapSize, Place(k, p), ~Overlaps(k, p, n)
  PROVE  /\ GoodList(Freed(k, p, n))
         /\ \A w \in Int : InList(Freed(k, p, n), w) <=>
              InList(memlist, w) \/ w \in WordsOf(p, n)
<1> DEFINE c == IF JoinsPrevious(k, p) THEN k - 2 ELSE k - 1
           d == IF JoinsNext(k, p, n) THEN k + 1 ELSE k
           from == IF JoinsPrevious(k, p) THEN memlist[k - 1].at ELSE p
           to == IF JoinsNext(k, p, n) THEN Top(k) ELSE p + n
           b == Block(from, to - from)
<1>0. /\ Len(memlist) \in Nat /\ k \in Nat /\ k > 0 /\ k <= Len(memlist) + 1
      /\ \A m \in 1 .. Len(memlist) :
           /\ memlist[m].at \in Nat /\ EndOf(memlist[m]) \in Nat
           /\ EndOf(memlist[m]) <= HeapSize /\ memlist[m].at < EndOf(memlist[m])
           /\ Top(m) = EndOf(memlist[m])
  BY ListBlocks DEF Top, EndOf, GoodList
<1>1. k > 1 => k - 1 \in 1 .. Len(memlist) /\ EndOf(memlist[k - 1]) <= p
  BY <1>0 DEF Overlaps
<1>2. k <= Len(memlist) => k \in 1 .. Len(memlist) /\ p + n <= memlist[k].at
  BY <1>0 DEF Overlaps
<1>3. JoinsPrevious(k, p) <=> k > 1 /\ EndOf(memlist[k - 1]) = p
  BY <1>0, <1>1 DEF JoinsPrevious
<1>4. JoinsNext(k, p, n) <=> k <= Len(memlist) /\ memlist[k].at = p + n
  BY <1>0, <1>2 DEF JoinsNext
<1>5. Freed(k, p, n) = Spliced(memlist, c, b, d)
  <2>1. k \in Int
    BY <1>0
  <2>2. (k - 1) - 1 = k - 2
    BY <2>1
  <2>3. (k - 1) + 1 = k
    BY <2>1
  <2> QED BY <2>2, <2>3 DEF Freed, Spliced
<1>6. c \in 0 .. Len(memlist) /\ d \in c + 1 .. Len(memlist) + 1
  BY <1>0, <1>3, <1>4
<1>7. /\ from \in Nat /\ to \in Nat /\ from <= p /\ p + n <= to /\ to <= HeapSize /\ from < to
      /\ from = p \/ (k > 1 /\ from = memlist[k - 1].at /\ EndOf(memlist[k - 1]) = p)
      /\ to = p + n \/ (k <= Len(memlist) /\ to = EndOf(memlist[k]) /\ memlist[k].at = p + n)
  <2>1. from \in Nat /\ from <= p
    BY <1>0, <1>1, <1>3
  <2>2. to \in Nat /\ p + n <= to /\ to <= HeapSize
    BY <1>0, <1>2, <1>4
  <2>3. from = p \/ (k > 1 /\ from = memlist[k - 1].at /\ EndOf(memlist[k - 1]) = p)
    BY <1>3
  <2>4. to = p + n \/ (k <= Len(memlist) /\ to = EndOf(memlist[k]) /\ memlist[k].at = p + n)
    BY <1>0, <1>2, <1>4
  <2> HIDE DEF from, to
  <2>5. from < to
    BY <2>1, <2>2
  <2> QED BY <2>1, <2>2, <2>3, <2>4, <2>5
<1>8. c > 0 => EndOf(memlist[c]) < from
  <2>1. CASE JoinsPrevious(k, p)
    <3>1. c > 0 => k - 2 \in 1 .. Len(memlist) /\ k - 1 \in 1 .. Len(memlist) /\ k - 2 < k - 1
      BY <1>0, <2>1
    <3> QED BY <2>1, <3>1 DEF GoodList
  <2>2. CASE ~JoinsPrevious(k, p)
    BY <1>0, <1>1, <1>3, <2>2
  <2> QED BY <2>1, <2>2
<1>9. d <= Len(memlist) => to < memlist[d].at
  <2>1. CASE JoinsNext(k, p, n)
    <3>1. d <= Len(memlist) => k + 1 \in 1 .. Len(memlist) /\ k \in 1 .. Len(memlist) /\ k < k + 1
      BY <1>0, <2>1
    <3> QED BY <1>0, <2>1, <3>1 DEF GoodList
  <2>2. CASE ~JoinsNext(k, p, n)
    BY <1>0, <1>2, <1>4, <2>2
  <2> QED BY <2>1, <2>2
<1>10. c = k - 1 \/ (c = k - 2 /\ k > 1 /\ from = memlist[k - 1].at /\ EndOf(memlist[k - 1]) = p)
  BY <1>3
<1>11. d = k \/ (d = k + 1 /\ k <= Len(memlist) /\ to = EndOf(memlist[k]) /\ memlist[k].at = p + n)
  BY <1>0, <1>2, <1>4
<1> HIDE DEF from, to, c, d
<1>12. /\ b \in Blocks /\ b.at = from /\ EndOf(b) = to
  BY <1>7 DEF Block, Blocks, EndOf
<1> HIDE DEF b
<1>13. /\ GoodList(Spliced(memlist, c, b, d))
       /\ \A w \in Int : InList(Spliced(memlist, c, b, d), w) <=>
            WithIn(b, w) \/ \E m \in 1 .. Len(memlist) : (m <= c \/ m >= d) /\ WithIn(memlist[m], w)
  BY <1>6, <1>7, <1>8, <1>9, <1>12, SplicedList
<1>14. ASSUME NEW w \in Int
       PROVE  WithIn(b, w) \/ (\E m \in 1 .. Len(memlist) : (m <= c \/ m >= d) /\ WithIn(memlist[m], w))
                <=> InList(memlist, w) \/ w \in WordsOf(p, n)
  <2>1. WithIn(b, w) <=>
          \/ w \in WordsOf(p, n)
          \/ from # p /\ WithIn(memlist[k - 1], w)
          \/ to # p + n /\ WithIn(memlist[k], w)
    <3>1. WithIn(b, w) <=> from <= w /\ w < to
      BY <1>12 DEF WithIn
    <3>2. from <= w /\ w < p <=> from # p /\ WithIn(memlist[k - 1], w)
      BY <1>7, <1>0, <1>1 DEF WithIn
    <3>3. p + n <= w /\ w < to <=> to # p + n /\ WithIn(memlist[k], w)
      BY <1>7, <1>0, <1>2 DEF WithIn
    <3>4. w \in WordsOf(p, n) <=> p <= w /\ w < p + n
      BY DEF WordsOf
    <3> QED BY <1>7, <3>1, <3>2, <3>3, <3>4
  <2>2. from # p => k - 1 \in 1 .. Len(memlist)
    BY <1>1, <1>7
  <2>3. to # p + n => k \in 1 .. Len(memlist)
    BY <1>2, <1>7
  <2>4. \A m \in 1 .. Len(memlist) : ~(m <= c \/ m >= d) /\ WithIn(memlist[m], w) => WithIn(b, w)
    <3>1. ASSUME NEW m \in 1 .. Len(memlist), ~(m <= c \/ m >= d), WithIn(memlist[m], w)
          PROVE  WithIn(b, w)
      <4>1. (m = k - 1 /\ from = memlist[m].at /\ EndOf(memlist[m]) = p)
              \/ (m = k /\ to = EndOf(memlist[m]) /\ memlist[m].at = p + n)
        <5>1. (m = k - 1 /\ c = k - 2) \/ (m = k /\ d = k + 1)
          BY <1>0, <1>6, <1>10, <1>11, <3>1, SMTT(20)
        <5>2. c = k - 2 => c # k - 1
          BY <1>0
        <5>3. d = k + 1 => d # k
          BY <1>0
        <5> QED BY <1>10, <1>11, <5>1, <5>2, <5>3
      <4> QED BY <1>0, <1>7, <1>12, <3>1, <4>1 DEF WithIn
    <3> QED BY <3>1
  <2> QED BY <2>1, <2>2, <2>3, <2>4 DEF InList
<1> QED BY <1>5, <1>13, <1>14

LEMMA Rounded ==
  ASSUME NEW n \in Nat
  PROVE  RoundMB(n) \in Nat /\ RoundMB(n) >= n /\ RoundMB(n) % MB = 0
BY DEF RoundMB, MB

(* The blocks of a list are the longest intervals of its words.            *)
LEMMA BlocksAreRuns ==
  ASSUME NEW f, GoodList(f)
  PROVE  {WordsOf(f[m].at, f[m].len) : m \in 1 .. Len(f)} = Runs(ListWords(f))
<1> DEFINE Piece(m) == WordsOf(f[m].at, f[m].len)
<1>0. Len(f) \in Nat /\ HeapSize \in Nat
  BY HeapAssumption DEF GoodList
<1>1. \A m \in 1 .. Len(f) :
        /\ f[m].at \in Nat /\ f[m].len \in Nat /\ f[m].len > 0
        /\ EndOf(f[m]) = f[m].at + f[m].len /\ EndOf(f[m]) <= HeapSize
        /\ \A w : w \in Piece(m) <=> w \in Int /\ WithIn(f[m], w)
  <2> TAKE m \in 1 .. Len(f)
  <2>1. /\ f[m].at \in Nat /\ f[m].len \in Nat /\ f[m].len > 0
        /\ EndOf(f[m]) = f[m].at + f[m].len /\ EndOf(f[m]) <= HeapSize
    BY ListBlocks DEF EndOf
  <2> QED BY <2>1 DEF WordsOf, WithIn
<1>2. \A w : w \in ListWords(f) <=> w \in Int /\ \E m \in 1 .. Len(f) : WithIn(f[m], w)
  BY WordsInList DEF InList
<1>3. \A m, n \in 1 .. Len(f) : m < n => EndOf(f[m]) < f[n].at
  BY DEF GoodList
(* The words on either side of a block are in none.                        *)
<1>4. ASSUME NEW m \in 1 .. Len(f)
      PROVE  f[m].at - 1 \notin ListWords(f) /\ EndOf(f[m]) \notin ListWords(f)
  <2>1. ASSUME NEW n \in 1 .. Len(f)
        PROVE  ~WithIn(f[n], f[m].at - 1) /\ ~WithIn(f[n], EndOf(f[m]))
    <3>1. /\ f[m].at \in Nat /\ EndOf(f[m]) \in Nat /\ f[m].at < EndOf(f[m])
          /\ f[n].at \in Nat /\ EndOf(f[n]) \in Nat /\ f[n].at < EndOf(f[n])
      BY ListBlocks
    <3>2. CASE m < n
      BY <1>3, <3>1, <3>2 DEF WithIn
    <3>3. CASE n < m
      BY <1>3, <3>1, <3>3 DEF WithIn
    <3>4. CASE m = n
      BY <3>1, <3>4 DEF WithIn
    <3> QED BY <3>2, <3>3, <3>4
  <2> QED BY <1>2, <2>1
<1>5. ASSUME NEW m \in 1 .. Len(f)
      PROVE  Piece(m) \in Runs(ListWords(f))
  <2>1. f[m].at \in Words /\ f[m].len \in 1 .. HeapSize
    BY <1>0, <1>1 DEF Words
  <2>2. Piece(m) \in {WordsOf(u, n) : u \in Words, n \in 1 .. HeapSize}
    BY <2>1
  <2>3. Piece(m) \subseteq ListWords(f)
    BY <1>1, <1>2
  <2>4. ASSUME NEW w \in Piece(m), w - 1 \in ListWords(f)
        PROVE  w - 1 \in Piece(m)
    <3>1. w # f[m].at
      BY <1>4, <2>4
    <3>2. w \in Int /\ f[m].at <= w /\ w < EndOf(f[m]) /\ f[m].at \in Nat /\ EndOf(f[m]) \in Nat
      BY <1>1, <2>4 DEF WithIn
    <3>3. w - 1 \in Int /\ WithIn(f[m], w - 1)
      BY <3>1, <3>2 DEF WithIn
    <3> QED BY <1>1, <3>3
  <2>5. ASSUME NEW w \in Piece(m), w + 1 \in ListWords(f)
        PROVE  w + 1 \in Piece(m)
    <3>1. w + 1 # EndOf(f[m])
      BY <1>4, <2>5
    <3>2. w \in Int /\ f[m].at <= w /\ w < EndOf(f[m]) /\ f[m].at \in Nat /\ EndOf(f[m]) \in Nat
      BY <1>1, <2>5 DEF WithIn
    <3>3. w + 1 \in Int /\ WithIn(f[m], w + 1)
      BY <3>1, <3>2 DEF WithIn
    <3> QED BY <1>1, <3>3
  <2> HIDE DEF Piece
  <2> QED BY <2>2, <2>3, <2>4, <2>5 DEF Runs
<1>6. ASSUME NEW r \in Runs(ListWords(f))
      PROVE  \E m \in 1 .. Len(f) : r = Piece(m)
  <2>1. /\ r \in {WordsOf(u, n) : u \in Words, n \in 1 .. HeapSize}
        /\ r \subseteq ListWords(f)
        /\ \A w \in r : w - 1 \in ListWords(f) => w - 1 \in r
        /\ \A w \in r : w + 1 \in ListWords(f) => w + 1 \in r
    BY DEF Runs
  <2>2. PICK u \in Words, n \in 1 .. HeapSize : r = WordsOf(u, n)
    BY <2>1
  <2>3. u \in Nat /\ n \in Nat /\ n > 0 /\ \A w : w \in r <=> w \in Int /\ u <= w /\ w < u + n
    BY <1>0, <2>2 DEF Words, WordsOf
  <2>4. u \in r /\ u + n - 1 \in r /\ u - 1 \notin r /\ u + n \notin r
    BY <2>3
  <2>5. PICK m \in 1 .. Len(f) : WithIn(f[m], u)
    BY <1>2, <2>1, <2>4
  <2>6. u - 1 \notin ListWords(f) /\ u + n \notin ListWords(f)
    <3>1. (u + n - 1) + 1 = u + n
      BY <2>3
    <3> QED BY <2>1, <2>4, <3>1
  <2>7. f[m].at \in Nat /\ EndOf(f[m]) \in Nat /\ f[m].at <= u /\ u < EndOf(f[m])
    BY <1>1, <2>5 DEF WithIn
  <2>8. f[m].at = u
    <3>1. f[m].at < u => WithIn(f[m], u - 1)
      BY <2>3, <2>7 DEF WithIn
    <3>2. ~WithIn(f[m], u - 1)
      BY <1>2, <2>3, <2>6
    <3> QED BY <2>3, <2>7, <3>1, <3>2
  <2>9. EndOf(f[m]) = u + n
    <3>1. ~(u + n < EndOf(f[m]))
      <4>1. u + n < EndOf(f[m]) => WithIn(f[m], u + n)
        BY <2>3, <2>7 DEF WithIn
      <4> QED BY <1>2, <2>3, <2>6, <4>1
    <3>2. ~(EndOf(f[m]) < u + n)
      <4>1. EndOf(f[m]) < u + n => EndOf(f[m]) \in r
        BY <2>3, <2>7
      <4> QED BY <1>4, <2>1, <4>1
    <3> QED BY <2>3, <2>7, <3>1, <3>2
  <2>10. f[m].len = n
    BY <1>1, <2>3, <2>8, <2>9
  <2> QED BY <2>2, <2>8, <2>10
<1> HIDE DEF Piece
<1>7. {Piece(m) : m \in 1 .. Len(f)} = Runs(ListWords(f))
  BY <1>5, <1>6
<1> QED BY <1>7 DEF Piece

-----------------------------------------------------------------------------
(* What is held.                                                           *)

Holders == [ptr : Int, how : {"mem", "stk", "malloc"}, size : Nat \ {0}]
LengthOf(h) == RoundMB(FreedSize(h))

(* A list of blocks with gaps between them, and of every word of the heap  *)
(* either one block or one holder: the free words are those that nobody    *)
(* holds, no word is held twice, and mlength counts the free ones.         *)
MemInv ==
  /\ GoodList(memlist)
  /\ held \subseteq Holders
  /\ \A h \in held : FreedAt(h) \in Nat /\ FreedAt(h) + LengthOf(h) <= HeapSize
  /\ \A g, h \in held : g # h => Taken(g) \cap Taken(h) = {}
  /\ \A w \in Words : InList(memlist, w) <=> \A h \in held : w \notin Taken(h)
  /\ mlength = Cardinality(ListWords(memlist))

LEMMA HolderLength ==
  ASSUME NEW h \in Holders
  PROVE  LengthOf(h) \in Nat /\ LengthOf(h) > 0
<1>1. FreedSize(h) \in Nat /\ FreedSize(h) > 0
  BY DEF Holders, FreedSize, MB
<1> HIDE DEF FreedSize
<1>2. RoundMB(FreedSize(h)) \in Nat /\ RoundMB(FreedSize(h)) >= FreedSize(h)
  BY <1>1, Rounded
<1> QED BY <1>1, <1>2 DEF LengthOf

(* A list's words are finitely many.                                       *)
LEMMA FinitelyMany ==
  ASSUME NEW f, GoodList(f)
  PROVE  IsFiniteSet(ListWords(f)) /\ Cardinality(ListWords(f)) \in Nat
<1>1. IsFiniteSet(Words)
  BY FS_Interval, HeapAssumption DEF Words
<1> QED BY <1>1, WordsInList, FS_Subset, FS_CardinalityType

LEMMA Stretch ==
  ASSUME NEW p \in Nat, NEW n \in Nat
  PROVE  IsFiniteSet(WordsOf(p, n)) /\ Cardinality(WordsOf(p, n)) = n
<1>1. p \in Int /\ p + n - 1 \in Int
  OBVIOUS
<1> QED BY <1>1, FS_Interval DEF WordsOf

(* One block is handed out to h, which takes n words from p on.            *)
LEMMA HandedOut ==
  ASSUME MemInv, NEW h \in Holders, NEW p \in Nat, NEW n \in Nat, n > 0,
         FreedAt(h) = p, LengthOf(h) = n,
         GoodList(memlist'),
         \A w \in Int : InList(memlist', w) <=> InList(memlist, w) /\ w \notin WordsOf(p, n),
         \A w \in WordsOf(p, n) : InList(memlist, w),
         held' = held \cup {h},
         mlength' = mlength - n
  PROVE  MemInv' /\ H!Next
<1>1. Taken(h) = WordsOf(p, n) /\ \A g : LengthOf(g) = RoundMB(FreedSize(g))
  BY DEF Taken, LengthOf
<1>2. /\ \A w : w \in ListWords(memlist) <=> w \in Int /\ InList(memlist, w)
      /\ ListWords(memlist) \subseteq Words
  BY WordsInList DEF MemInv
<1>3. \A w : w \in ListWords(memlist') <=> w \in Int /\ InList(memlist', w)
  BY WordsInList
<1>4. WordsOf(p, n) \subseteq ListWords(memlist) /\ WordsOf(p, n) \subseteq Int
  BY <1>2 DEF WordsOf
<1>5. ListWords(memlist') = ListWords(memlist) \ WordsOf(p, n)
  BY <1>2, <1>3
<1>6. p \in Words /\ n \in 1 .. HeapSize /\ p + n <= HeapSize
  <2>1. p \in WordsOf(p, n) /\ p + n - 1 \in WordsOf(p, n)
    BY DEF WordsOf
  <2>2. p \in Words /\ p + n - 1 \in Words
    BY <1>2, <1>4, <2>1
  <2> QED BY <2>2, HeapAssumption DEF Words
<1>7. mlength' = Cardinality(ListWords(memlist'))
  <2>1. IsFiniteSet(ListWords(memlist)) /\ Cardinality(ListWords(memlist)) \in Nat
    BY FinitelyMany DEF MemInv
  <2>2. Cardinality(WordsOf(p, n)) = n /\ IsFiniteSet(WordsOf(p, n))
    BY Stretch
  <2>3. ListWords(memlist) \cap WordsOf(p, n) = WordsOf(p, n)
    BY <1>4
  <2>4. Cardinality(ListWords(memlist) \ WordsOf(p, n)) = Cardinality(ListWords(memlist)) - n
    <3>1. Cardinality(ListWords(memlist) \ WordsOf(p, n)) =
            Cardinality(ListWords(memlist)) - Cardinality(ListWords(memlist) \cap WordsOf(p, n))
      BY <2>1, FS_Difference
    <3> QED BY <2>2, <2>3, <3>1
  <2> QED BY <1>5, <2>4 DEF MemInv
<1>8. \A g \in held : Taken(g) \cap Taken(h) = {}
  <2>1. \A g \in held, w \in Words : InList(memlist, w) => w \notin Taken(g)
    BY DEF MemInv
  <2> QED BY <1>1, <1>2, <1>4, <2>1
<1>9. \A w \in Words : InList(memlist', w) <=> \A g \in held' : w \notin Taken(g)
  <2>1. \A w \in Words : w \in Int
    BY DEF Words
  <2> QED BY <1>1, <2>1 DEF MemInv
<1>10. MemInv'
  <2>1. held' \subseteq Holders
    BY DEF MemInv
  <2>2. \A g \in held' : FreedAt(g) \in Nat /\ FreedAt(g) + LengthOf(g) <= HeapSize
    BY <1>6 DEF MemInv
  <2>3. \A g, k \in held' : g # k => Taken(g) \cap Taken(k) = {}
    BY <1>8 DEF MemInv
  <2> QED BY <1>7, <1>9, <2>1, <2>2, <2>3 DEF MemInv
<1>11. H!Take(p, n)
  <2>1. H!Interval(p, n) = WordsOf(p, n)
    BY DEF H!Interval, WordsOf
  <2>2. FreeWords = ListWords(memlist) /\ FreeWords' = ListWords(memlist')
    BY DEF FreeWords, ListWords
  <2>3. {Taken(g) : g \in held'} = {Taken(g) : g \in held} \cup {WordsOf(p, n)}
    BY <1>1
  <2> QED BY <1>4, <1>5, <2>1, <2>2, <2>3 DEF H!Take
<1> QED BY <1>6, <1>10, <1>11 DEF H!Next, H!Words, Words

(* What h held is free again.                                              *)
LEMMA TakenBack ==
  ASSUME MemInv, NEW h \in held, GoodList(memlist'),
         \A w \in Int : InList(memlist', w) <=>
           InList(memlist, w) \/ w \in WordsOf(FreedAt(h), LengthOf(h)),
         held' = held \ {h},
         mlength' = mlength + LengthOf(h)
  PROVE  MemInv' /\ H!Next
<1> DEFINE n == LengthOf(h)
<1>1. Taken(h) = WordsOf(FreedAt(h), n) /\ FreedAt(h) \in Nat /\ n \in Nat /\ n > 0
  BY HolderLength DEF Taken, LengthOf, MemInv
<1>2. /\ \A w : w \in ListWords(memlist) <=> w \in Int /\ InList(memlist, w)
      /\ ListWords(memlist) \subseteq Words
  BY WordsInList DEF MemInv
<1>3. \A w : w \in ListWords(memlist') <=> w \in Int /\ InList(memlist', w)
  BY WordsInList
<1>4. Taken(h) \subseteq Words /\ Taken(h) # {}
  <2>1. FreedAt(h) + n <= HeapSize /\ HeapSize \in Nat
    BY HeapAssumption DEF MemInv
  <2> QED BY <1>1, <2>1 DEF WordsOf, Words
<1> HIDE DEF n
<1>5. \A w \in Words : w \in Int
  BY DEF Words
<1>6. ListWords(memlist') = ListWords(memlist) \cup Taken(h)
  BY <1>1, <1>2, <1>3, <1>4, <1>5 DEF n
<1>7. ListWords(memlist) \cap Taken(h) = {}
  BY <1>2, <1>4 DEF MemInv
<1>8. mlength' = Cardinality(ListWords(memlist'))
  <2>1. IsFiniteSet(ListWords(memlist)) /\ Cardinality(ListWords(memlist)) \in Nat
    BY FinitelyMany DEF MemInv
  <2>2. Cardinality(Taken(h)) = n /\ IsFiniteSet(Taken(h))
    BY <1>1, Stretch
  <2>3. Cardinality(ListWords(memlist) \cap Taken(h)) = 0
    BY <1>7, FS_EmptySet
  <2>4. Cardinality(ListWords(memlist) \cup Taken(h)) = Cardinality(ListWords(memlist)) + n
    <3>1. Cardinality(ListWords(memlist) \cup Taken(h)) =
            Cardinality(ListWords(memlist)) + Cardinality(Taken(h))
              - Cardinality(ListWords(memlist) \cap Taken(h))
      BY <2>1, <2>2, FS_Union
    <3> QED BY <1>1, <2>1, <2>2, <2>3, <3>1
  <2> QED BY <1>6, <2>4 DEF MemInv, n
<1>9. \A g \in held : g # h => Taken(g) \cap Taken(h) = {}
  BY DEF MemInv
<1>10. \A w \in Words : InList(memlist', w) <=> \A g \in held' : w \notin Taken(g)
  <2>1. \A w \in Words : InList(memlist', w) <=> InList(memlist, w) \/ w \in Taken(h)
    BY <1>1, <1>5 DEF n
  <2>2. \A w \in Words : InList(memlist, w) <=> \A g \in held : w \notin Taken(g)
    BY DEF MemInv
  <2> QED BY <1>9, <2>1, <2>2
<1>11. MemInv'
  <2>1. held' \subseteq held
    OBVIOUS
  <2> QED BY <1>8, <1>10, <2>1 DEF MemInv
<1>12. H!Give(Taken(h))
  <2>1. FreeWords = ListWords(memlist) /\ FreeWords' = ListWords(memlist')
    BY DEF FreeWords, ListWords
  <2>2. {Taken(g) : g \in held'} = {Taken(g) : g \in held} \ {Taken(h)}
    <3>1. \A g \in held : g # h => Taken(g) # Taken(h)
      BY <1>4, <1>9
    <3> QED BY <3>1
  <2> QED BY <1>6, <2>1, <2>2 DEF H!Give
<1> QED BY <1>11, <1>12 DEF H!Next

(* getmem and malloc give the bottom of a block, getstk the top.           *)
LEMMA BottomHandedOut ==
  ASSUME MemInv, NEW h \in Holders, NEW k \in 1 .. Len(memlist),
         FirstFit(k, LengthOf(h)), FreedAt(h) = memlist[k].at,
         memlist' = WithoutBottom(k, LengthOf(h)),
         held' = held \cup {h}, mlength' = mlength - LengthOf(h)
  PROVE  MemInv' /\ H!Next
<1>1. GoodList(memlist) /\ LengthOf(h) \in Nat /\ LengthOf(h) > 0
  BY HolderLength DEF MemInv
<1>2. memlist[k].len >= LengthOf(h)
  BY DEF FirstFit, Fits
<1>3. /\ memlist[k].at \in Nat /\ memlist[k].len \in Nat
      /\ EndOf(memlist[k]) = memlist[k].at + memlist[k].len
  BY <1>1, ListBlocks DEF EndOf
<1>4. /\ GoodList(memlist')
      /\ \A w \in Int : InList(memlist', w) <=>
           InList(memlist, w) /\ w \notin WordsOf(FreedAt(h), LengthOf(h))
  BY <1>1, <1>2, BottomTaken
<1>5. \A w \in WordsOf(FreedAt(h), LengthOf(h)) : InList(memlist, w)
  <2>1. \A w \in WordsOf(FreedAt(h), LengthOf(h)) : WithIn(memlist[k], w)
    BY <1>1, <1>2, <1>3 DEF WordsOf, WithIn
  <2> QED BY <2>1 DEF InList
<1> QED BY <1>1, <1>3, <1>4, <1>5, HandedOut

LEMMA TopHandedOut ==
  ASSUME MemInv, NEW h \in Holders, NEW k \in 1 .. Len(memlist),
         LastFit(k, LengthOf(h)), FreedAt(h) = EndOf(memlist[k]) - LengthOf(h),
         memlist' = WithoutTop(k, LengthOf(h)),
         held' = held \cup {h}, mlength' = mlength - LengthOf(h)
  PROVE  MemInv' /\ H!Next
<1>1. GoodList(memlist) /\ LengthOf(h) \in Nat /\ LengthOf(h) > 0
  BY HolderLength DEF MemInv
<1>2. memlist[k].len >= LengthOf(h)
  BY DEF LastFit, Fits
<1>3. /\ memlist[k].at \in Nat /\ memlist[k].len \in Nat
      /\ EndOf(memlist[k]) = memlist[k].at + memlist[k].len
  BY <1>1, ListBlocks DEF EndOf
<1>4. /\ GoodList(memlist')
      /\ \A w \in Int : InList(memlist', w) <=>
           InList(memlist, w) /\ w \notin WordsOf(FreedAt(h), LengthOf(h))
  BY <1>1, <1>2, TopTaken
<1>5. \A w \in WordsOf(FreedAt(h), LengthOf(h)) : InList(memlist, w)
  <2>1. \A w \in WordsOf(FreedAt(h), LengthOf(h)) : WithIn(memlist[k], w)
    BY <1>1, <1>2, <1>3, SMTT(20) DEF WordsOf, WithIn
  <2> QED BY <2>1 DEF InList
<1>6. FreedAt(h) \in Nat
  BY <1>1, <1>2, <1>3
<1> QED BY <1>1, <1>4, <1>5, <1>6, HandedOut

LEMMA GetMemStep ==
  ASSUME MemInv, NEW size \in Sizes, GetMem(size)
  PROVE  MemInv' /\ H!Next
<1>1. size \in Nat \ {0}
  BY SizesAssumption DEF GetMem
<1>2. PICK k \in 1 .. Len(memlist) :
        /\ FirstFit(k, RoundMB(size))
        /\ memlist' = WithoutBottom(k, RoundMB(size))
        /\ held' = held \cup {Holding(memlist[k].at, "mem", size)}
  BY DEF GetMem
<1> DEFINE h == Holding(memlist[k].at, "mem", size)
<1>3. memlist[k].at \in Nat
  BY ListBlocks DEF MemInv
<1>4. h \in Holders /\ FreedAt(h) = memlist[k].at /\ LengthOf(h) = RoundMB(size)
  BY <1>1, <1>3 DEF Holders, Holding, FreedAt, LengthOf, FreedSize
<1>5. mlength' = mlength - RoundMB(size)
  BY DEF GetMem, LengthWithout
<1> HIDE DEF h
<1> QED BY <1>2, <1>4, <1>5, BottomHandedOut DEF h

LEMMA MallocStep ==
  ASSUME MemInv, NEW size \in Sizes, Malloc(size)
  PROVE  MemInv' /\ H!Next
<1>1. size \in Nat \ {0}
  BY SizesAssumption DEF Malloc
<1>2. PICK k \in 1 .. Len(memlist) :
        /\ FirstFit(k, RoundMB(size + MB))
        /\ memlist' = WithoutBottom(k, RoundMB(size + MB))
        /\ held' = held \cup {Holding(memlist[k].at + MB, "malloc", size)}
  BY DEF Malloc
<1> DEFINE h == Holding(memlist[k].at + MB, "malloc", size)
<1>3. memlist[k].at \in Nat
  BY ListBlocks DEF MemInv
<1>4. h \in Holders /\ FreedAt(h) = memlist[k].at /\ LengthOf(h) = RoundMB(size + MB)
  BY <1>1, <1>3 DEF Holders, Holding, FreedAt, LengthOf, FreedSize, MB
<1>5. mlength' = mlength - RoundMB(size + MB)
  BY DEF Malloc, LengthWithout
<1> HIDE DEF h
<1> QED BY <1>2, <1>4, <1>5, BottomHandedOut DEF h

LEMMA GetStkStep ==
  ASSUME MemInv, NEW size \in Sizes, GetStk(size)
  PROVE  MemInv' /\ H!Next
<1>1. size \in Nat \ {0} /\ RoundMB(size) \in Nat
  BY SizesAssumption, Rounded DEF GetStk
<1>2. PICK k \in 1 .. Len(memlist) :
        /\ LastFit(k, RoundMB(size))
        /\ memlist' = WithoutTop(k, RoundMB(size))
        /\ held' = held \cup {Holding(memlist[k].at + memlist[k].len - 1, "stk", size)}
  BY DEF GetStk
<1> DEFINE h == Holding(memlist[k].at + memlist[k].len - 1, "stk", size)
<1>3. /\ memlist[k].at \in Nat /\ memlist[k].len \in Nat
      /\ EndOf(memlist[k]) = memlist[k].at + memlist[k].len
  BY ListBlocks DEF MemInv, EndOf
<1>4. h \in Holders /\ h.how = "stk" /\ h.size = size /\ h.ptr = EndOf(memlist[k]) - 1
  BY <1>1, <1>3 DEF Holders, Holding
<1>5. mlength' = mlength - RoundMB(size)
  BY DEF GetStk, LengthWithout
<1> HIDE DEF h
<1>6. LengthOf(h) = RoundMB(size)
  BY <1>4 DEF LengthOf, FreedSize
<1>7. FreedAt(h) = EndOf(memlist[k]) - RoundMB(size)
  <2>1. FreedAt(h) = (EndOf(memlist[k]) - 1) - RoundMB(size) + 1
    BY <1>4 DEF FreedAt
  <2> QED BY <1>1, <1>3, <2>1
<1> QED BY <1>2, <1>4, <1>5, <1>6, <1>7, TopHandedOut DEF h

(* A holder's block overlaps no free one, so freemem takes it back.        *)
LEMMA FreeStep ==
  ASSUME MemInv, NEW h \in held, Free(h)
  PROVE  MemInv' /\ H!Next
<1> DEFINE p == FreedAt(h)
           n == LengthOf(h)
<1>1. /\ GoodList(memlist) /\ h \in Holders /\ p \in Nat /\ p + n <= HeapSize
      /\ n \in Nat /\ n > 0 /\ Taken(h) = WordsOf(p, n)
  BY HolderLength DEF MemInv, Taken, LengthOf
<1>2. PICK k \in 1 .. Len(memlist) + 1 :
        /\ Place(k, p)
        /\ \/ Overlaps(k, p, n) /\ UNCHANGED <<memlist, mlength>>
           \/ /\ ~Overlaps(k, p, n)
              /\ memlist' = Freed(k, p, n) /\ mlength' = mlength + n
  BY DEF Free, FreeMem, LengthOf
<1>3. held' = held \ {h}
  BY DEF Free
<1> HIDE DEF p, n
<1>4. \A w \in WordsOf(p, n) : w \in Int /\ ~InList(memlist, w)
  <2>1. WordsOf(p, n) \subseteq Words /\ WordsOf(p, n) \subseteq Int
    BY <1>1, HeapAssumption DEF WordsOf, Words
  <2>2. \A w \in Words : InList(memlist, w) => w \notin Taken(h)
    BY DEF MemInv
  <2> QED BY <1>1, <2>1, <2>2
<1>5. Len(memlist) \in Nat /\ k \in Nat
  BY <1>1 DEF GoodList
<1>6. ~Overlaps(k, p, n)
  <2>1. ASSUME k > 1, p < Top(k - 1)
        PROVE  FALSE
    <3>1. k - 1 \in 1 .. Len(memlist) /\ k - 1 \in 1 .. k - 1
      BY <1>5, <2>1
    <3>2. WithIn(memlist[k - 1], p)
      <4>1. memlist[k - 1].at < p
        BY <1>2, <3>1 DEF Place
      <4>2. memlist[k - 1].at \in Nat
        BY <1>1, <3>1, ListBlocks
      <4> QED BY <1>1, <2>1, <4>1, <4>2 DEF WithIn, Top, EndOf
    <3>3. p \in WordsOf(p, n)
      BY <1>1 DEF WordsOf
    <3> QED BY <1>4, <3>1, <3>2, <3>3 DEF InList
  <2>2. ASSUME k <= Len(memlist), p + n > memlist[k].at
        PROVE  FALSE
    <3>1. k \in 1 .. Len(memlist) /\ memlist[k].at >= p
      BY <1>2, <1>5, <2>2 DEF Place
    <3>2. memlist[k].at \in Nat /\ EndOf(memlist[k]) \in Nat /\ memlist[k].at < EndOf(memlist[k])
      BY <1>1, <3>1, ListBlocks
    <3>3. WithIn(memlist[k], memlist[k].at) /\ memlist[k].at \in WordsOf(p, n)
      BY <1>1, <2>2, <3>1, <3>2 DEF WithIn, WordsOf
    <3> QED BY <1>4, <3>1, <3>3 DEF InList
  <2> QED BY <2>1, <2>2 DEF Overlaps
<1>7. /\ GoodList(memlist')
      /\ \A w \in Int : InList(memlist', w) <=> InList(memlist, w) \/ w \in WordsOf(p, n)
  BY <1>1, <1>2, <1>6, BlockFreed
<1>8. mlength' = mlength + n
  BY <1>2, <1>6
<1> QED BY <1>3, <1>7, <1>8, TakenBack DEF p, n

(* Words that are free overlap a free block, so freemem refuses them.      *)
LEMMA FreeAgainStep ==
  ASSUME MemInv, NEW p \in Words, NEW size \in Sizes, FreeAgain(p, size)
  PROVE  UNCHANGED memvars
<1> DEFINE n == RoundMB(size)
<1>1. n \in Nat /\ n > 0 /\ p \in Nat /\ GoodList(memlist)
  BY SizesAssumption, Rounded, HeapAssumption DEF FreeAgain, FreeMem, Words, MemInv
<1>2. PICK k \in 1 .. Len(memlist) + 1 :
        /\ Place(k, p)
        /\ \/ Overlaps(k, p, n) /\ UNCHANGED <<memlist, mlength>>
           \/ ~Overlaps(k, p, n)
  BY DEF FreeAgain, FreeMem
<1>3. WordsOf(p, n) \subseteq FreeWords /\ UNCHANGED held
  BY DEF FreeAgain
<1> HIDE DEF n
<1>4. PICK m \in 1 .. Len(memlist) : WithIn(memlist[m], p)
  <2>1. p \in WordsOf(p, n)
    BY <1>1 DEF WordsOf
  <2>2. FreeWords = ListWords(memlist)
    BY DEF FreeWords, ListWords
  <2> QED BY <1>1, <1>3, <2>1, <2>2, WordsInList DEF InList
<1>5. Len(memlist) \in Nat /\ k \in Nat /\ m \in Nat
  BY <1>1 DEF GoodList
<1>6. /\ memlist[m].at \in Nat /\ EndOf(memlist[m]) \in Nat
      /\ memlist[m].at <= p /\ p < EndOf(memlist[m])
  BY <1>1, <1>4, ListBlocks DEF WithIn
<1>7. Overlaps(k, p, n)
  <2>1. CASE m < k
    <3>1. k > 1 /\ k - 1 \in 1 .. Len(memlist)
      BY <1>5, <2>1
    <3>2. EndOf(memlist[k - 1]) \in Nat /\ memlist[k - 1].at \in Nat
            /\ memlist[k - 1].at < EndOf(memlist[k - 1])
      BY <1>1, <3>1, ListBlocks
    <3>3. m = k - 1 \/ m < k - 1
      BY <1>5, <2>1
    <3>4. m < k - 1 => EndOf(memlist[m]) < memlist[k - 1].at
      BY <1>1, <3>1 DEF GoodList
    <3>5. p < EndOf(memlist[k - 1])
      BY <1>1, <1>6, <3>2, <3>3, <3>4
    <3> QED BY <3>1, <3>5 DEF Overlaps, Top, EndOf
  <2>2. CASE k <= m
    <3>1. k <= Len(memlist) /\ k \in 1 .. Len(memlist) /\ memlist[k].at >= p
      BY <1>2, <1>5, <2>2 DEF Place
    <3>2. memlist[k].at \in Nat /\ EndOf(memlist[k]) \in Nat /\ memlist[k].at < EndOf(memlist[k])
      BY <1>1, <3>1, ListBlocks
    <3>3. k = m \/ k < m
      BY <1>5, <2>2
    <3>4. k < m => EndOf(memlist[k]) < memlist[m].at
      BY <1>1, <3>1 DEF GoodList
    <3>5. p + n > memlist[k].at
      BY <1>1, <1>6, <3>1, <3>2, <3>3, <3>4
    <3> QED BY <3>1, <3>5 DEF Overlaps
  <2> QED BY <1>5, <2>1, <2>2
<1> QED BY <1>2, <1>3, <1>7 DEF memvars

LEMMA MemBegins == MemInit => MemInv /\ H!Init
<1> SUFFICES ASSUME MemInit
             PROVE  MemInv /\ H!Init
  OBVIOUS
<1> USE HeapAssumption
<1>1. /\ Len(memlist) = 1 /\ memlist \in Seq(Blocks)
      /\ memlist[1].at = 0 /\ memlist[1].len = HeapSize /\ EndOf(memlist[1]) = HeapSize
  BY DEF MemInit, Block, Blocks, EndOf
<1>2. GoodList(memlist)
  BY <1>1 DEF GoodList
<1>3. \A w \in Int : InList(memlist, w) <=> w \in Words
  BY <1>1 DEF InList, WithIn, Words
<1>4. ListWords(memlist) = Words
  <2>1. \A w \in Words : w \in Int
    BY DEF Words
  <2> QED BY <1>2, <1>3, <2>1, WordsInList
<1>5. Cardinality(Words) = HeapSize
  <2>1. 0 \in Int /\ HeapSize - 1 \in Int /\ ~(0 > HeapSize - 1) /\ HeapSize - 1 - 0 + 1 = HeapSize
    OBVIOUS
  <2> QED BY <2>1, FS_Interval DEF Words
<1>6. held = {} /\ mlength = HeapSize
  BY DEF MemInit
<1>7. \A w \in Words : w \in Int
  BY DEF Words
<1>8. MemInv
  BY <1>2, <1>3, <1>4, <1>5, <1>6, <1>7 DEF MemInv
<1>9. FreeWords = ListWords(memlist)
  BY DEF FreeWords, ListWords
<1> QED BY <1>4, <1>6, <1>8, <1>9 DEF H!Init, H!Words, Words

LEMMA MemStep ==
  MemInv /\ [MemNext]_memvars =>
    MemInv' /\ [H!Next]_<<FreeWords, {Taken(h) : h \in held}>>
<1> SUFFICES ASSUME MemInv, [MemNext]_memvars
             PROVE  MemInv' /\ [H!Next]_<<FreeWords, {Taken(h) : h \in held}>>
  OBVIOUS
<1>1. CASE \E size \in Sizes : GetMem(size) \/ GetStk(size) \/ Malloc(size)
  BY <1>1, GetMemStep, GetStkStep, MallocStep
<1>2. CASE \E h \in held : Free(h)
  BY <1>2, FreeStep
<1>3. CASE UNCHANGED memvars
  <2>1. memlist' = memlist /\ mlength' = mlength /\ held' = held
    BY <1>3 DEF memvars
  <2>2. MemInv'
    BY <2>1 DEF MemInv
  <2>3. FreeWords' = FreeWords
    BY <2>1 DEF FreeWords
  <2> QED BY <2>1, <2>2, <2>3
<1>4. CASE \E p \in Words, size \in Sizes : FreeAgain(p, size)
  BY <1>3, <1>4, FreeAgainStep
<1> QED BY <1>1, <1>2, <1>3, <1>4 DEF MemNext

LEMMA MemInvariant == MemSpec => []MemInv
<1> QED BY MemBegins, MemStep, PTL DEF MemSpec

(* Every gap between what is held is one block of the list, in address     *)
(* order, and mlength counts the free words: freemem always merges.        *)
THEOREM FreeListKept == MemSpec => []FreeListExact
<1>1. MemInv => FreeListExact
  <2> SUFFICES ASSUME MemInv
               PROVE  FreeListExact
    OBVIOUS
  <2>1. GoodList(memlist)
    BY DEF MemInv
  <2>2. FreeWords = ListWords(memlist)
    BY DEF FreeWords, ListWords
  <2>3. ListWords(memlist) = Words \ TakenWords
    <3>1. \A w \in Words : w \in Int
      BY DEF Words
    <3>2. \A w : w \in TakenWords <=> \E h \in held : w \in Taken(h)
      BY DEF TakenWords
    <3> QED BY <2>1, <3>1, <3>2, WordsInList DEF MemInv
  <2>4. \A m \in 1 .. Len(memlist) - 1 : Top(m) < memlist[m + 1].at
    <3>1. Len(memlist) \in Nat
      BY <2>1 DEF GoodList
    <3>2. \A m \in 1 .. Len(memlist) - 1 :
            m \in 1 .. Len(memlist) /\ m + 1 \in 1 .. Len(memlist) /\ m < m + 1
      BY <3>1
    <3> QED BY <2>1, <3>2 DEF GoodList, Top, EndOf
  <2>5. {WordsOf(memlist[m].at, memlist[m].len) : m \in 1 .. Len(memlist)} = Runs(ListWords(memlist))
    BY <2>1, BlocksAreRuns
  <2> QED BY <2>2, <2>3, <2>4, <2>5 DEF FreeListExact, MemInv
<1> QED BY <1>1, MemInvariant, PTL

(* The allocator implements Heap: getmem, getstk and malloc hand out words *)
(* that are all free, each release gives back exactly what was handed out, *)
(* and a block freed again changes nothing.                                *)
THEOREM AllocatorKeepsPromise == MemSpec => KeepsPromise
<1>1. MemInit => H!Init
  BY MemBegins
<1>2. MemInv /\ [MemNext]_memvars => [H!Next]_<<FreeWords, {Taken(h) : h \in held}>>
  BY MemStep
<1> QED BY <1>1, <1>2, MemInvariant, PTL DEF MemSpec, KeepsPromise, H!Spec

-----------------------------------------------------------------------------
(* Register contexts.                                                      *)

(* What resched left on the stack of a process that has run.               *)
LeftBehind(q) ==
  /\ saved[q].sp = old[q].sp - 4 * CONTEXT_WORDS
  /\ \A r \in Kept : saved[q].word[Slot(r)] = old[q].x[r]
  /\ saved[q].word[2] = 0

(* What create() left on the stack of one that has not.                    *)
MadeNew(q) ==
  /\ nargs[q] \in Nat
  /\ saved[q].sp = NewSp(StackTop, nargs[q])
  /\ saved[q].word = NewWords(nargs[q])

(* The context of every process that is not running is the one it needs to *)
(* start or to go on, and the mask in its frame of resched is the one it   *)
(* called resched with.                                                    *)
CtxInv ==
  /\ running \in Threads /\ sp \in Int /\ x = [r \in Regs |-> x[r]]
  /\ mie \in BOOLEAN
  /\ DOMAIN old = Threads /\ DOMAIN saved = Threads
  /\ DOMAIN nargs = Threads /\ DOMAIN irq = Threads
  /\ saved = [q \in Threads |-> saved[q]]
  /\ \A q \in Threads :
       /\ old[q] \in [is : {"none", "new", "old"}, x : {old[q].x}, sp : Int, mie : BOOLEAN]
       /\ irq[q] = Disabled(old[q].mie)
       /\ q # running /\ old[q].is = "old" => LeftBehind(q)
       /\ q # running /\ old[q].is = "new" => MadeNew(q)
  /\ old[running].is # "none"

(* ctxsw gives every register that it keeps a word of its own: not the one *)
(* of pc nor the one of mstatus.                                           *)
LEMMA SlotsApart ==
  /\ \A r \in Kept : Slot(r) \in 1 .. CONTEXT_WORDS - 1 /\ Slot(r) # 2
  /\ \A r, s \in Kept : Slot(r) = Slot(s) => r = s
<1> DEFINE S == {1} \cup (8 .. 27)
<1>1. \A r \in Kept :
        \/ r = 1 /\ Slot(r) = 1
        \/ r \in 8 .. 9 /\ Slot(r) = r - 5
        \/ r \in 18 .. 27 /\ Slot(r) = r - 13
        \/ r \in 10 .. 17 /\ Slot(r) = r + 5
  <2> TAKE r \in Kept
  <2>1. CASE r = 1
    BY <2>1 DEF Slot, Args
  <2>2. CASE r \in 8 .. 9
    BY <2>2 DEF Slot, Args
  <2>3. CASE r \in 18 .. 27
    BY <2>3 DEF Slot, Args
  <2>4. CASE r \in 10 .. 17
    BY <2>4 DEF Slot, Args
  <2> QED BY <2>1, <2>2, <2>3, <2>4 DEF Kept
<1> HIDE DEF Slot
<1> QED BY <1>1 DEF CONTEXT_WORDS

LEMMA RegistersSaved ==
  ASSUME NEW f, NEW residue, NEW r \in Kept
  PROVE  OldWords(residue, f)[Slot(r)] = f[r] /\ OldWords(residue, f)[2] = 0
<1> DEFINE k == Slot(r)
<1>1. k \in 0 .. CONTEXT_WORDS - 1 /\ k # 2 /\ 2 \in 0 .. CONTEXT_WORDS - 1
  BY SlotsApart DEF CONTEXT_WORDS
<1>2. (CHOOSE s \in Kept : Slot(s) = k) = r
  BY SlotsApart
<1>3. \E s \in Kept : Slot(s) = k
  OBVIOUS
<1> HIDE DEF k
<1>4. OldWords(residue, f)[k] = f[CHOOSE s \in Kept : Slot(s) = k]
  BY <1>1, <1>3 DEF OldWords
<1>5. OldWords(residue, f)[2] = 0
  BY <1>1 DEF OldWords
<1> QED BY <1>2, <1>4, <1>5 DEF k

(* The registers of the process that is switched to, from its context.     *)
LEMMA SwitchesTo ==
  ASSUME CtxInv, NEW q \in Threads, NEW residue \in Residues, Resched(q, residue)
  PROVE  /\ running' = q /\ q # running
         /\ sp' = saved[q].sp + 4 * CONTEXT_WORDS
         /\ \A r \in Kept : x'[r] = saved[q].word[Slot(r)]
         /\ at' = saved[q].word[0] /\ (mie' <=> saved[q].word[2] = 1)
<1>1. Kept \subseteq Regs
  BY DEF Kept, Regs
<1> QED BY <1>1 DEF Resched, Load

LEMMA ReschedKeeps ==
  ASSUME CtxInv, NEW q \in Threads, NEW residue \in Residues, Resched(q, residue)
  PROVE  CtxInv'
<1> DEFINE now == [x EXCEPT ![1] = SwitchReturn]
           left == [sp |-> sp - 4 * CONTEXT_WORDS, word |-> OldWords(residue, now)]
           was == [is |-> "old", x |-> now, sp |-> sp, mie |-> mie]
<1>1. /\ saved' = [saved EXCEPT ![running] = left]
      /\ old' = [old EXCEPT ![running] = was]
      /\ irq' = [irq EXCEPT ![running] = Disabled(mie)]
      /\ nargs' = nargs /\ running' = q /\ q # running /\ old[q].is # "none"
  BY DEF Resched, Load
<1>2. /\ left.sp = was.sp - 4 * CONTEXT_WORDS
      /\ \A r \in Kept : left.word[Slot(r)] = was.x[r]
      /\ left.word[2] = 0
  <2>1. 1 \in Kept
    BY DEF Kept
  <2> HIDE DEF now
  <2>2. \A r \in Kept : OldWords(residue, now)[Slot(r)] = now[r] /\ OldWords(residue, now)[2] = 0
    BY RegistersSaved
  <2>3. left.word = OldWords(residue, now) /\ was.x = now /\ left.sp = sp - 4 * CONTEXT_WORDS /\ was.sp = sp
    OBVIOUS
  <2> HIDE DEF left, was
  <2> QED BY <2>1, <2>2, <2>3
<1>3. /\ was \in [is : {"none", "new", "old"}, x : {was.x}, sp : Int, mie : BOOLEAN]
      /\ was.mie = mie
  BY DEF CtxInv
<1> HIDE DEF left, was
<1>4. /\ saved'[running] = left /\ old'[running] = was /\ irq'[running] = Disabled(mie)
      /\ \A p \in Threads : p # running =>
           saved'[p] = saved[p] /\ old'[p] = old[p] /\ irq'[p] = irq[p]
      /\ DOMAIN old' = Threads /\ DOMAIN saved' = Threads /\ DOMAIN irq' = Threads
      /\ saved' = [p \in Threads |-> saved'[p]]
  BY <1>1 DEF CtxInv
<1>5. ASSUME NEW p \in Threads
      PROVE  /\ old'[p] \in [is : {"none", "new", "old"}, x : {old'[p].x}, sp : Int, mie : BOOLEAN]
             /\ irq'[p] = Disabled(old'[p].mie)
             /\ p # q /\ old'[p].is = "old" => LeftBehind(p)'
             /\ p # q /\ old'[p].is = "new" => MadeNew(p)'
  <2>1. CASE p = running
    <3>1. was.is = "old"
      BY DEF was
    <3> QED BY <1>2, <1>3, <1>4, <2>1, <3>1 DEF LeftBehind
  <2>2. CASE p # running
    <3>1. saved'[p] = saved[p] /\ old'[p] = old[p] /\ irq'[p] = irq[p] /\ nargs'[p] = nargs[p]
      BY <1>1, <1>4, <2>2
    <3> QED BY <2>2, <3>1 DEF CtxInv, LeftBehind, MadeNew
  <2> QED BY <2>1, <2>2
<1>6. /\ sp' \in Int /\ mie' \in BOOLEAN /\ x' = [r \in Regs |-> x'[r]]
  <2>1. saved[q].sp \in Int
    <3>1. CASE old[q].is = "old"
      BY <1>1, <3>1 DEF CtxInv, LeftBehind, CONTEXT_WORDS
    <3>2. CASE old[q].is = "new"
      <4>1. saved[q].sp = NewSp(StackTop, nargs[q]) /\ nargs[q] \in Nat
        BY <1>1, <3>2 DEF CtxInv, MadeNew
      <4> QED BY <4>1, ContextAssumption DEF NewSp, Aligned, Spilled, MAX_REG_ARGS, CONTEXT_WORDS
    <3> QED BY <1>1, <3>1, <3>2 DEF CtxInv
  <2>2. x' = [r \in Regs |-> IF r \in Kept THEN saved[q].word[Slot(r)] ELSE x[r]]
    BY DEF Resched, Load
  <2>3. mie' = (saved[q].word[2] = 1) /\ sp' = saved[q].sp + 4 * CONTEXT_WORDS
    BY DEF Resched, Load
  <2> QED BY <2>1, <2>2, <2>3 DEF CONTEXT_WORDS
<1>7. old'[q].is # "none" /\ DOMAIN nargs' = Threads
  BY <1>1, <1>4 DEF CtxInv
<1> QED BY <1>1, <1>4, <1>5, <1>6, <1>7 DEF CtxInv

LEMMA CreateKeeps ==
  ASSUME CtxInv, NEW q \in Threads, NEW n \in NArgs, CreateContext(q, n)
  PROVE  CtxInv'
<1> DEFINE made == [sp |-> NewSp(StackTop, n), word |-> NewWords(n)]
<1>1. /\ saved' = [saved EXCEPT ![q] = made] /\ nargs' = [nargs EXCEPT ![q] = n]
      /\ old' = [old EXCEPT ![q].is = "new"]
      /\ old[q].is = "none"
      /\ UNCHANGED <<running, x, sp, mie, irq>>
  BY DEF CreateContext, frames
<1>2. made.sp = NewSp(StackTop, n) /\ made.word = NewWords(n) /\ n \in Nat
  BY ContextAssumption
<1> HIDE DEF made
<1>3. q # running
  BY <1>1 DEF CtxInv
<1>4. /\ \A p \in Threads : p # q =>
           saved'[p] = saved[p] /\ old'[p] = old[p] /\ nargs'[p] = nargs[p]
      /\ saved'[q] = made /\ nargs'[q] = n
      /\ DOMAIN old' = Threads /\ DOMAIN saved' = Threads /\ DOMAIN nargs' = Threads
      /\ saved' = [p \in Threads |-> saved'[p]]
  BY <1>1 DEF CtxInv
<1>5. /\ old'[q] \in [is : {"none", "new", "old"}, x : {old'[q].x}, sp : Int, mie : BOOLEAN]
      /\ old'[q].is = "new" /\ old'[q].mie = old[q].mie
  <2>1. old'[q] = [old[q] EXCEPT !.is = "new"]
    BY <1>1 DEF CtxInv
  <2>2. old[q] \in [is : {"none", "new", "old"}, x : {old[q].x}, sp : Int, mie : BOOLEAN]
    BY DEF CtxInv
  <2> QED BY <2>1, <2>2
<1>6. MadeNew(q)'
  BY <1>2, <1>4 DEF MadeNew
<1>7. ASSUME NEW p \in Threads
      PROVE  /\ old'[p] \in [is : {"none", "new", "old"}, x : {old'[p].x}, sp : Int, mie : BOOLEAN]
             /\ irq'[p] = Disabled(old'[p].mie)
             /\ p # running /\ old'[p].is = "old" => LeftBehind(p)'
             /\ p # running /\ old'[p].is = "new" => MadeNew(p)'
  <2>1. CASE p = q
    BY <1>1, <1>5, <1>6, <2>1 DEF CtxInv
  <2>2. CASE p # q
    BY <1>1, <1>4, <2>2 DEF CtxInv, LeftBehind, MadeNew
  <2> QED BY <2>1, <2>2
<1> QED BY <1>1, <1>3, <1>4, <1>7 DEF CtxInv

(* The steps of the process that runs leave every context alone.           *)
LEMMA RunningKeeps ==
  ASSUME CtxInv, UNCHANGED <<running, saved, nargs, irq, old>>,
         sp' \in Int, mie' \in BOOLEAN, x' = [r \in Regs |-> x'[r]]
  PROVE  CtxInv'
BY DEF CtxInv, LeftBehind, MadeNew

LEMMA TickKeepsRegisters ==
  ASSUME CtxInv, Tick
  PROVE  x' = x /\ sp' = sp /\ mie' /\ mie
<1> DEFINE frame == [TrapFrame EXCEPT ![0] = ClkHandler]
<1>1. \A r \in Regs : TrapSlot(r) # 0 /\ \A s \in Regs : TrapSlot(s) = TrapSlot(r) => s = r
  BY DEF TrapSlot, Regs
<1>2. \A r \in Regs : frame[TrapSlot(r)] = x[r]
  <2> TAKE r \in Regs
  <2>1. (CHOOSE s \in Regs : TrapSlot(s) = TrapSlot(r)) = r
    BY <1>1
  <2>2. TrapSlot(r) \in {0} \cup {TrapSlot(s) : s \in Regs} /\ TrapSlot(r) # 0
    BY <1>1
  <2> HIDE DEF TrapSlot
  <2>3. TrapFrame[TrapSlot(r)] = x[r]
    BY <2>1, <2>2 DEF TrapFrame
  <2> QED BY <2>2, <2>3 DEF TrapFrame
<1>3. x' = [r \in Regs |-> frame[TrapSlot(r)]]
  BY DEF Tick
<1> HIDE DEF frame
<1>4. x' = [r \in Regs |-> x[r]]
  BY <1>2, <1>3
<1> QED BY <1>4 DEF CtxInv, Tick

LEMMA CtxStep ==
  ASSUME CtxInv, [CtxNext]_cvars
  PROVE  CtxInv'
<1>1. ASSUME NEW q \in Threads, NEW n \in NArgs, CreateContext(q, n)
      PROVE  CtxInv'
  BY <1>1, CreateKeeps
<1>2. ASSUME NEW q \in Threads, NEW residue \in Residues, Resched(q, residue)
      PROVE  CtxInv'
  BY <1>2, ReschedKeeps
<1>3. CASE Compute
  <2>1. sp' \in Int /\ x' = [r \in Regs |-> x'[r]]
    BY <1>3, ContextAssumption DEF Compute
  <2> QED BY <1>3, <2>1, RunningKeeps DEF Compute, frames, CtxInv
<1>4. CASE UserDisable
  BY <1>4, RunningKeeps DEF UserDisable, frames, CtxInv
<1>5. CASE UserEnable
  BY <1>5, RunningKeeps DEF UserEnable, frames, CtxInv
<1>6. CASE ReschedReturn
  <2>1. x' = [r \in Regs |-> x'[r]]
    BY <1>6 DEF ReschedReturn, CtxInv
  <2>2. mie' \in BOOLEAN /\ sp' \in Int
    BY <1>6 DEF ReschedReturn, CtxInv, Restored
  <2> QED BY <1>6, <2>1, <2>2, RunningKeeps DEF ReschedReturn, frames
<1>7. CASE Tick
  <2>1. x' = x /\ sp' = sp /\ mie' = mie
    BY <1>7, TickKeepsRegisters DEF Tick
  <2> QED BY <1>7, <2>1, RunningKeeps DEF Tick, CtxInv
<1>8. CASE ClkReturn
  <2>1. x' = [r \in Regs |-> x'[r]]
    BY <1>8 DEF ClkReturn, CtxInv
  <2> QED BY <1>8, <2>1, RunningKeeps DEF ClkReturn, frames, CtxInv
<1>9. CASE UNCHANGED cvars
  BY <1>9, RunningKeeps DEF cvars, CtxInv
<1> QED BY <1>1, <1>2, <1>3, <1>4, <1>5, <1>6, <1>7, <1>8, <1>9 DEF CtxNext, Stopped

LEMMA CtxBegins == CtxInit => CtxInv
<1> SUFFICES ASSUME CtxInit
             PROVE  CtxInv
  OBVIOUS
<1>1. running = 0 /\ 0 \in Threads /\ sp \in Int /\ mie = TRUE
  BY ContextAssumption DEF CtxInit, Threads
<1>2. x = [r \in Regs |-> x[r]]
  BY DEF CtxInit
<1>3. \A q \in Threads :
        /\ old[q] = [is |-> IF q = 0 THEN "old" ELSE "none", x |-> x, sp |-> sp, mie |-> TRUE]
        /\ irq[q] = FALSE
  BY DEF CtxInit
<1>4. \A q \in Threads :
        /\ old[q] \in [is : {"none", "new", "old"}, x : {old[q].x}, sp : Int, mie : BOOLEAN]
        /\ irq[q] = Disabled(old[q].mie)
        /\ q # 0 => old[q].is = "none"
  <2> TAKE q \in Threads
  <2> DEFINE st == IF q = 0 THEN "old" ELSE "none"
  <2>1. old[q] = [is |-> st, x |-> x, sp |-> sp, mie |-> TRUE] /\ st \in {"none", "new", "old"}
    BY <1>3
  <2>2. q # 0 => st = "none"
    OBVIOUS
  <2> HIDE DEF st
  <2>3. old[q].x = x /\ old[q].mie = TRUE /\ old[q].is = st /\ old[q].sp = sp
    BY <2>1
  <2>4. old[q] \in [is : {"none", "new", "old"}, x : {old[q].x}, sp : Int, mie : BOOLEAN]
    BY <1>1, <2>1, <2>3
  <2>5. irq[q] = Disabled(old[q].mie)
    BY <1>3, <2>3, Zenon DEF Disabled
  <2> QED BY <2>2, <2>3, <2>4, <2>5
<1>5. old[0].is = "old"
  <2>1. old[0] = [is |-> "old", x |-> x, sp |-> sp, mie |-> TRUE]
    BY <1>1, <1>3
  <2> QED BY <2>1
<1>6. /\ DOMAIN old = Threads /\ DOMAIN saved = Threads /\ DOMAIN nargs = Threads
      /\ DOMAIN irq = Threads /\ saved = [q \in Threads |-> saved[q]]
  BY DEF CtxInit
<1> QED BY <1>1, <1>2, <1>4, <1>5, <1>6 DEF CtxInv

LEMMA CtxInvariant == CtxSpec => []CtxInv
<1>1. CtxInv /\ [CtxNext]_cvars => CtxInv'
  BY CtxStep
<1> QED BY <1>1, CtxBegins, PTL DEF CtxSpec

(* Only resched switches to another process.                               *)
LEMMA OnlyReschedSwitches ==
  ASSUME CtxNext, running' # running
  PROVE  \E q \in Threads, residue \in Residues : Resched(q, residue)
BY DEF CtxNext, CreateContext, Compute, UserDisable, UserEnable, ReschedReturn, Tick,
       ClkReturn, Stopped, cvars

(* A process that is switched to finds the stack pointer and the registers *)
(* it called resched with, interrupts disabled; the clock handler finds    *)
(* those of the code it interrupts.                                        *)
THEOREM ContextsKept == CtxSpec => RegistersKept
<1> DEFINE Kept1 == running' # running /\ old[running'].is = "old" =>
                      /\ sp' = old[running'].sp
                      /\ \A r \in Kept : x'[r] = old[running'].x[r]
                      /\ ~mie'
           Kept2 == at \in {Start, User} /\ at' = ClkHandler /\ running' = running =>
                      x' = x /\ sp' = sp /\ mie'
<1>1. ASSUME CtxInv, CtxNext
      PROVE  Kept1
  <2> SUFFICES ASSUME running' # running, old[running'].is = "old"
               PROVE  /\ sp' = old[running'].sp
                      /\ \A r \in Kept : x'[r] = old[running'].x[r]
                      /\ ~mie'
    OBVIOUS
  <2>1. PICK q \in Threads, residue \in Residues : Resched(q, residue)
    BY <1>1, OnlyReschedSwitches
  <2>2. running' = q /\ LeftBehind(q) /\ old[q].sp \in Int
    BY <1>1, <2>1, SwitchesTo DEF CtxInv
  <2>3. /\ sp' = saved[q].sp + 4 * CONTEXT_WORDS
        /\ \A r \in Kept : x'[r] = saved[q].word[Slot(r)]
        /\ mie' <=> saved[q].word[2] = 1
    BY <1>1, <2>1, SwitchesTo
  <2> QED BY <2>2, <2>3 DEF LeftBehind, CONTEXT_WORDS
<1>2. ASSUME CtxInv, CtxNext
      PROVE  Kept2
  <2> SUFFICES ASSUME at \in {Start, User}, at' = ClkHandler, running' = running
               PROVE  x' = x /\ sp' = sp /\ mie'
    OBVIOUS
  <2>1. Tick
    BY <1>2 DEF CtxNext, CreateContext, Compute, UserDisable, UserEnable, Resched, Load,
                ReschedReturn, ClkReturn, Stopped, cvars, Start, User, SwitchReturn,
                ClkHandler, UserRet, Garbage
  <2> QED BY <1>2, <2>1, TickKeepsRegisters
<1>3. CtxInv /\ [CtxNext]_cvars => [Kept1 /\ Kept2]_cvars
  BY <1>1, <1>2
<1> QED BY <1>3, CtxInvariant, PTL DEF CtxSpec, RegistersKept

(* Behind its call of ctxsw a process gets back the interrupt enable that  *)
(* it called resched with.                                                 *)
THEOREM MasksKept == CtxSpec => MaskKept
<1>1. ASSUME CtxInv, CtxNext, at = SwitchReturn, at' # at
      PROVE  mie' = old[running].mie
  <2>1. ReschedReturn
    BY <1>1 DEF CtxNext, CreateContext, Compute, UserDisable, UserEnable, Resched, Tick,
                ClkReturn, Stopped, cvars, Start, User, SwitchReturn, ClkHandler, UserRet, Garbage
  <2>2. mie' = ~irq[running]
    BY <2>1 DEF ReschedReturn, Restored
  <2>3. irq[running] = ~old[running].mie /\ old[running].mie \in BOOLEAN
    BY <1>1 DEF CtxInv, Disabled
  <2> QED BY <2>2, <2>3
<1>2. CtxInv /\ [CtxNext]_cvars => [at = SwitchReturn /\ at' # at => mie' = old[running].mie]_cvars
  BY <1>1
<1> QED BY <1>2, CtxInvariant, PTL DEF CtxSpec, MaskKept

(* The words of a new process's record that its first switch uses.         *)
LEMMA NewWordsAre ==
  ASSUME NEW n \in Nat
  PROVE  /\ NewWords(n)[0] = Start /\ NewWords(n)[1] = UserRet /\ NewWords(n)[2] = 1
         /\ \A m \in 0 .. n - 1 : NewWords(n)[15 + m] = Arg(m)
<1> DEFINE D == 0 .. CONTEXT_WORDS + Spilled(n) - 1
<1>1. Spilled(n) \in Nat /\ Spilled(n) >= n - 8
  BY DEF Spilled, MAX_REG_ARGS
<1> HIDE DEF Spilled
<1>2. 0 \in D /\ 1 \in D /\ 2 \in D /\ \A m \in 0 .. n - 1 : 15 + m \in D
  BY <1>1 DEF CONTEXT_WORDS
<1>3. NewWords(n) = [k \in D |->
        CASE k = 0 -> Start
          [] k = 1 -> UserRet
          [] k = 2 -> 1
          [] k \in 15 .. 14 + n -> Arg(k - 15)
          [] OTHER -> 0]
  BY DEF NewWords
<1> HIDE DEF D
<1>4. NewWords(n)[0] = Start
  BY <1>2, <1>3
<1>5. NewWords(n)[1] = UserRet
  BY <1>2, <1>3
<1>6. NewWords(n)[2] = 1
  BY <1>2, <1>3
<1>7. ASSUME NEW m \in 0 .. n - 1
      PROVE  NewWords(n)[15 + m] = Arg(m)
  <2>1. 15 + m \in 15 .. 14 + n /\ (15 + m) - 15 = m /\ 15 + m # 0 /\ 15 + m # 1 /\ 15 + m # 2
    OBVIOUS
  <2> QED BY <1>2, <1>3, <2>1
<1> QED BY <1>4, <1>5, <1>6, <1>7

(* A new process starts its function with interrupts enabled, userret to   *)
(* return to, eight arguments in registers and the others on its stack.    *)
THEOREM NewStart == CtxSpec => StartsRight
<1> DEFINE Starts ==
             running' # running /\ old[running'].is = "new" =>
               StartsFunction(running', nargs[running'])
<1>1. ASSUME CtxInv, CtxNext, running' # running, old[running'].is = "new"
      PROVE  Starts
  <2> DEFINE n == nargs[running']
             base == saved[running'].sp
             word == saved[running'].word
  <2>1. PICK q \in Threads, residue \in Residues : Resched(q, residue)
    BY <1>1, OnlyReschedSwitches
  <2>2. running' = q /\ MadeNew(q)
    BY <1>1, <2>1, SwitchesTo DEF CtxInv
  <2>3. n \in Nat /\ word = NewWords(n) /\ base = NewSp(StackTop, n)
    BY <2>2 DEF MadeNew
  <2>4. /\ sp' = base + 4 * CONTEXT_WORDS
        /\ \A r \in Kept : x'[r] = word[Slot(r)]
        /\ at' = word[0] /\ (mie' <=> word[2] = 1)
    BY <1>1, <2>1, <2>2, SwitchesTo
  <2> HIDE DEF n, base, word
  <2>5. base \in Int /\ base <= StackTop - 4 * (Spilled(n) + CONTEXT_WORDS)
          /\ Spilled(n) \in Nat
    <3>1. Spilled(n) \in Nat
      BY <2>3 DEF Spilled, MAX_REG_ARGS
    <3> DEFINE u == StackTop - 4 * (Spilled(n) + CONTEXT_WORDS)
    <3>2. u \in Int
      BY <3>1, ContextAssumption DEF CONTEXT_WORDS
    <3>3. base = Aligned(u)
      BY <2>3 DEF NewSp
    <3> HIDE DEF u
    <3>4. base \in Int /\ base <= u
      BY <3>2, <3>3 DEF Aligned
    <3> QED BY <3>1, <3>4 DEF u
  <2>6. at' = Start /\ mie' /\ x'[1] = UserRet
    <3>1. 1 \in Kept /\ Slot(1) = 1
      BY DEF Kept, Slot, Args
    <3> QED BY <2>3, <2>4, <3>1, NewWordsAre
  <2>7. ASSUME NEW m \in 0 .. n - 1, m < MAX_REG_ARGS
        PROVE  x'[10 + m] = Arg(m)
    <3>1. 10 + m \in Kept /\ Slot(10 + m) = 15 + m
      <4>1. m \in 0 .. 7
        BY <2>3, <2>7 DEF MAX_REG_ARGS
      <4>2. 10 + m \in 10 .. 17 /\ 10 + m \in Kept
        BY <4>1 DEF Kept
      <4>3. \A r \in 10 .. 17 : Slot(r) = r + 5
        BY DEF Slot, Args
      <4> QED BY <4>1, <4>2, <4>3
    <3> QED BY <2>3, <2>4, <3>1, NewWordsAre
  <2>8. ASSUME NEW m \in 0 .. n - 1, ~(m < MAX_REG_ARGS)
        PROVE  word[((sp' + 4 * (m - MAX_REG_ARGS)) - base) \div 4] = Arg(m)
    <3>1. m \in Nat
      BY <2>3
    <3>2. (sp' + 4 * (m - MAX_REG_ARGS)) - base = 4 * (15 + m)
      BY <2>4, <2>5, <3>1 DEF MAX_REG_ARGS, CONTEXT_WORDS
    <3>3. (4 * (15 + m)) \div 4 = 15 + m
      BY <3>1
    <3> QED BY <2>3, <3>2, <3>3, NewWordsAre
  <2>9. sp' + 4 * Spilled(n) <= StackTop
    BY <2>4, <2>5, ContextAssumption DEF CONTEXT_WORDS
  <2> QED BY <2>6, <2>7, <2>8, <2>9 DEF n, base, word, StartsFunction
<1>2. CtxInv /\ [CtxNext]_cvars => [Starts]_cvars
  BY <1>1
<1> QED BY <1>2, CtxInvariant, PTL DEF CtxSpec, StartsRight

-----------------------------------------------------------------------------
(* The queue table: that it implements the sequences of Queues, for any    *)
(* number of processes and queues and any keys within the limits.          *)
(*                                                                         *)
(* The walks of insert() and insertd() and the sums of delays are          *)
(* functions defined by recursion: that they exist and what they are after *)
(* n steps needs an induction, which SetInduction gives.  The invariant    *)
(* (TableInv) says of every queue that it is a chain of different          *)
(* processes linked both ways between its head and its tail (Linked), and  *)
(* that no process is in two: an operation on one queue then cannot touch  *)
(* a link of another, though all are in one array.                         *)

Maps(S) == [S -> S]
Iterates(f, top, base, next) == f[0] = base /\ \A n \in 1 .. top : f[n] = next[f[n - 1]]

LEMMA IterationExists ==
  ASSUME NEW top \in Nat, NEW S, NEW base \in S, NEW next \in Maps(S)
  PROVE  \E f : Iterates(f, top, base, next)
<1> DEFINE step == [n \in 1 .. top |-> next]
<1>1. step \in StepsOn(top, S) /\ \A n \in 1 .. top : step[n] = next
  BY DEF StepsOn, Maps
<1> HIDE DEF step
<1>2. PICK f : Recurs(f, top, S, base, step)
  BY <1>1, RecursionExists
<1> QED BY <1>1, <1>2 DEF Recurs, Iterates

Sums(f, top, base, v) ==
  /\ f \in [0 .. top -> Int] /\ f[0] = base
  /\ \A n \in 1 .. top : f[n] = f[n - 1] + v[n]

LEMMA SumsExist ==
  ASSUME NEW top \in Nat, NEW base \in Int, NEW v \in [1 .. top -> Int]
  PROVE  \E f : Sums(f, top, base, v)
<1> DEFINE step == [n \in 1 .. top |-> [w \in Int |-> w + v[n]]]
<1>1. step \in StepsOn(top, Int)
  BY DEF StepsOn
<1>2. \A n \in 1 .. top, w \in Int : step[n][w] = w + v[n]
  OBVIOUS
<1> HIDE DEF step
<1>3. PICK f : Recurs(f, top, Int, base, step)
  BY <1>1, RecursionExists
<1>4. f \in [0 .. top -> Int] /\ \A n \in 1 .. top : n - 1 \in 0 .. top
  BY <1>3 DEF Recurs
<1>5. \A n \in 1 .. top : f[n - 1] \in Int /\ f[n] = step[n][f[n - 1]]
  BY <1>3, <1>4 DEF Recurs
<1>6. \A n \in 1 .. top : f[n] = f[n - 1] + v[n]
  BY <1>2, <1>5
<1> QED BY <1>3, <1>4, <1>6 DEF Recurs, Sums

-----------------------------------------------------------------------------
(* Walks along links.                                                      *)

Links == [Entry -> Entry \cup {EMPTY}]
NextOf(nx) == [e \in Entry |-> IF nx[e] = EMPTY THEN e ELSE nx[e]]

LEMMA EntriesAre ==
  /\ NQENT \in Nat /\ NPROC \in Nat /\ NQUEUE \in Nat /\ NPROC > 0 /\ NQENT = NPROC + 2 * NQUEUE
  /\ Pid \subseteq Entry /\ Pid = 0 .. NPROC - 1 /\ Entry = 0 .. NQENT - 1
BY TableAssumption DEF NQENT, Pid, Entry

LEMMA WalkSteps ==
  ASSUME NEW nx \in Links, NEW start \in Entry
  PROVE  /\ Walk(nx, start) = [n \in 0 .. NQENT |-> Walk(nx, start)[n]]
         /\ Walk(nx, start)[0] = start
         /\ \A n \in 1 .. NQENT : Walk(nx, start)[n] = NextOf(nx)[Walk(nx, start)[n - 1]]
<1> DEFINE next == NextOf(nx)
           IsWalk(f) == f = [n \in 0 .. NQENT |-> IF n = 0 THEN start ELSE next[f[n - 1]]]
<1>1. next \in Maps(Entry)
  BY DEF NextOf, Links, Maps
<1>2. \E f : IsWalk(f)
  <2>1. NQENT \in Nat
    BY EntriesAre
  <2> HIDE DEF next
  <2>2. PICK f : Iterates(f, NQENT, start, next)
    BY <1>1, <2>1, IterationExists
  <2> DEFINE g == [n \in 0 .. NQENT |-> f[n]]
  <2>3. ASSUME NEW n \in 0 .. NQENT
        PROVE  g[n] = IF n = 0 THEN start ELSE next[g[n - 1]]
    <3>1. n # 0 => n \in 1 .. NQENT /\ n - 1 \in 0 .. NQENT
      BY <2>1
    <3>2. f[0] = start /\ (n # 0 => f[n] = next[f[n - 1]])
      BY <2>2, <3>1 DEF Iterates
    <3>3. g[n] = f[n] /\ (n # 0 => g[n - 1] = f[n - 1])
      BY <3>1
    <3> QED BY <3>2, <3>3
  <2>4. g = [n \in 0 .. NQENT |-> g[n]]
    OBVIOUS
  <2> HIDE DEF g
  <2>5. IsWalk(g)
    BY <2>3, <2>4
  <2> QED BY <2>5
<1>3. Walk(nx, start) = CHOOSE f : IsWalk(f)
  BY DEF Walk, NextOf
<1>4. IsWalk(Walk(nx, start))
  BY <1>2, <1>3
<1> HIDE DEF next
<1>5. \A n \in 0 .. NQENT :
        Walk(nx, start)[n] = IF n = 0 THEN start ELSE next[Walk(nx, start)[n - 1]]
  BY <1>4
<1>6. 0 \in 0 .. NQENT /\ \A n \in 1 .. NQENT : n \in 0 .. NQENT /\ n # 0
  BY EntriesAre
<1> QED BY <1>4, <1>5, <1>6 DEF next

(* The entries on the way from h to t along the sequence s.                *)
Stop(h, t, s, n) == IF n = 0 THEN h ELSE IF n = Len(s) + 1 THEN t ELSE s[n]
Leads(h, t, s, nx) == \A n \in 0 .. Len(s) : nx[Stop(h, t, s, n)] = Stop(h, t, s, n + 1)

LEMMA PlaceIs ==
  ASSUME NEW h \in Entry, NEW t \in Entry, NEW s \in Seq(Pid)
  PROVE  /\ Stop(h, t, s, 0) = h /\ Stop(h, t, s, Len(s) + 1) = t
         /\ \A n \in 1 .. Len(s) : Stop(h, t, s, n) = s[n] /\ s[n] \in Pid
         /\ \A n \in 0 .. Len(s) + 1 : Stop(h, t, s, n) \in Entry
<1>1. \A n \in 1 .. Len(s) : Stop(h, t, s, n) = s[n] /\ s[n] \in Pid
  BY DEF Stop
<1>2. \A n \in 0 .. Len(s) + 1 : n = 0 \/ n = Len(s) + 1 \/ n \in 1 .. Len(s)
  OBVIOUS
<1>3. Stop(h, t, s, 0) = h /\ Stop(h, t, s, Len(s) + 1) = t
  BY DEF Stop
<1> QED BY <1>1, <1>2, <1>3, EntriesAre

(* A walk along s from the head to the tail, and from the entry behind the *)
(* head on, which spells s.                                                *)
LEMMA WalkPlaces ==
  ASSUME NEW nx \in Links, NEW h \in Entry, NEW t \in Entry, NEW s \in Seq(Pid),
         Len(s) < NQENT, Leads(h, t, s, nx)
  PROVE  \A n \in 0 .. Len(s) + 1 : Walk(nx, h)[n] = Stop(h, t, s, n)
<1> DEFINE G == {n \in Nat : n <= Len(s) + 1 => Walk(nx, h)[n] = Stop(h, t, s, n)}
<1>1. 0 \in G
  BY WalkSteps DEF Stop
<1>2. ASSUME NEW n \in Nat, n \in G
      PROVE  n + 1 \in G
  <2> SUFFICES ASSUME n + 1 <= Len(s) + 1
               PROVE  Walk(nx, h)[n + 1] = Stop(h, t, s, n + 1)
    OBVIOUS
  <2>1. n + 1 \in 1 .. NQENT /\ n \in 0 .. Len(s) /\ (n + 1) - 1 = n
    BY EntriesAre
  <2>2. Walk(nx, h)[n] = Stop(h, t, s, n)
    BY <1>2, <2>1
  <2>3. Walk(nx, h)[n + 1] = NextOf(nx)[Stop(h, t, s, n)]
    <3>1. Walk(nx, h)[n + 1] = NextOf(nx)[Walk(nx, h)[(n + 1) - 1]]
      BY <2>1, WalkSteps
    <3> QED BY <2>1, <2>2, <3>1
  <2>4. Stop(h, t, s, n) \in Entry /\ Stop(h, t, s, n + 1) \in Entry
    <3>1. n \in 0 .. Len(s) + 1 /\ n + 1 \in 0 .. Len(s) + 1
      BY <2>1
    <3> QED BY <3>1, PlaceIs
  <2>5. nx[Stop(h, t, s, n)] = Stop(h, t, s, n + 1)
    BY <2>1 DEF Leads
  <2>6. Stop(h, t, s, n + 1) # EMPTY
    BY <2>4, EntriesAre DEF EMPTY
  <2> QED BY <2>3, <2>4, <2>5, <2>6 DEF NextOf
<1> HIDE DEF G
<1>3. \A n \in Nat : n \in G
  BY <1>1, <1>2, SetInduction
<1> QED BY <1>3 DEF G

LEMMA WalkBehind ==
  ASSUME NEW nx \in Links, NEW h \in Entry, NEW t \in Entry, NEW s \in Seq(Pid),
         Len(s) < NQENT, Leads(h, t, s, nx)
  PROVE  /\ nx[h] \in Entry
         /\ \A n \in 0 .. Len(s) : Walk(nx, nx[h])[n] = Stop(h, t, s, n + 1)
<1> DEFINE G == {n \in Nat : n <= Len(s) => Walk(nx, nx[h])[n] = Stop(h, t, s, n + 1)}
<1>0. nx[h] = Stop(h, t, s, 1) /\ nx[h] \in Entry
  <2>1. 0 \in 0 .. Len(s) /\ Stop(h, t, s, 0) = h /\ 0 + 1 = 1
    BY DEF Stop
  <2>2. nx[h] = Stop(h, t, s, 1)
    BY <2>1 DEF Leads
  <2>3. Stop(h, t, s, 1) \in Entry
    BY EntriesAre DEF Stop
  <2> QED BY <2>2, <2>3
<1>1. 0 \in G
  BY <1>0, WalkSteps
<1>2. ASSUME NEW n \in Nat, n \in G
      PROVE  n + 1 \in G
  <2> SUFFICES ASSUME n + 1 <= Len(s)
               PROVE  Walk(nx, nx[h])[n + 1] = Stop(h, t, s, (n + 1) + 1)
    OBVIOUS
  <2>1. n + 1 \in 1 .. NQENT /\ n + 1 \in 0 .. Len(s) /\ (n + 1) - 1 = n
    BY EntriesAre
  <2>2. Walk(nx, nx[h])[n] = Stop(h, t, s, n + 1)
    BY <1>2, <2>1
  <2>3. Walk(nx, nx[h])[n + 1] = NextOf(nx)[Stop(h, t, s, n + 1)]
    BY <1>0, <2>1, <2>2, WalkSteps
  <2>4. Stop(h, t, s, n + 1) \in Entry /\ Stop(h, t, s, (n + 1) + 1) \in Entry
    BY <2>1, PlaceIs
  <2>5. nx[Stop(h, t, s, n + 1)] = Stop(h, t, s, (n + 1) + 1)
    BY <2>1 DEF Leads
  <2>6. Stop(h, t, s, (n + 1) + 1) # EMPTY
    BY <2>4, EntriesAre DEF EMPTY
  <2> QED BY <2>3, <2>4, <2>5, <2>6 DEF NextOf
<1> HIDE DEF G
<1>3. \A n \in Nat : n \in G
  BY <1>1, <1>2, SetInduction
<1> QED BY <1>0, <1>3 DEF G

LEMMA SpellsList ==
  ASSUME NEW f, NEW s \in Seq(Pid), Len(s) < NQENT,
         \A n \in 1 .. Len(s) : f[n - 1] = s[n], f[Len(s)] \notin Pid
  PROVE  Spelled(f) = s
<1> DEFINE ends == {n \in 0 .. NQENT : f[n] \notin Pid} \cup {NQENT}
<1>1. Len(s) \in ends
  BY EntriesAre
<1>2. \A n \in ends : Len(s) <= n
  <2> SUFFICES ASSUME NEW n \in ends, n < Len(s) PROVE FALSE
    BY EntriesAre
  <2>1. n \in 0 .. NQENT /\ n + 1 \in 1 .. Len(s) /\ (n + 1) - 1 = n
    BY EntriesAre
  <2>2. f[n] \in Pid
    BY <2>1
  <2> QED BY <2>2, EntriesAre
<1>3. \A n \in ends : n \in Nat
  BY EntriesAre
<1> HIDE DEF ends
<1>4. Min(ends) = Len(s)
  BY <1>1, <1>2, <1>3 DEF Min
<1>5. Spelled(f) = [n \in 1 .. Len(s) |-> f[n - 1]]
  BY <1>4 DEF Spelled, ends
<1> QED BY <1>5

-----------------------------------------------------------------------------
(* A queue in the table: links in both directions along a sequence.        *)

At(q, s, n) == Stop(queuehead(q), queuetail(q), s, n)

Linked(q, s, nx, pv) ==
  /\ s \in Seq(Pid)
  /\ \A m, n \in 1 .. Len(s) : s[m] = s[n] => m = n
  /\ \A n \in 0 .. Len(s) : nx[At(q, s, n)] = At(q, s, n + 1) /\ pv[At(q, s, n + 1)] = At(q, s, n)

LEMMA QidIs ==
  /\ \A q \in Qid : q \in Nat /\ q \in Entry /\ q + 1 \in Entry /\ q \notin Pid /\ q + 1 \notin Pid
  /\ \A q, r \in Qid : q # r + 1 /\ (q # r => q + 1 # r + 1)
<1>1. \A q \in Qid : \E n \in 0 .. NQUEUE - 1 : q = NPROC + 2 * n
  BY DEF Qid
<1> QED BY <1>1, EntriesAre

LEMMA AtIs ==
  ASSUME NEW q \in Qid, NEW s \in Seq(Pid)
  PROVE  /\ At(q, s, 0) = q /\ At(q, s, Len(s) + 1) = q + 1
         /\ \A n \in 1 .. Len(s) : At(q, s, n) = s[n] /\ s[n] \in Pid
         /\ \A n \in 0 .. Len(s) + 1 : At(q, s, n) \in Entry
BY PlaceIs, QidIs DEF At, queuehead, queuetail

(* No entry is at two places.                                              *)
LEMMA AtApart ==
  ASSUME NEW q \in Qid, NEW s \in Seq(Pid), \A m, n \in 1 .. Len(s) : s[m] = s[n] => m = n
  PROVE  \A m, n \in 0 .. Len(s) + 1 : At(q, s, m) = At(q, s, n) => m = n
<1> SUFFICES ASSUME NEW m \in 0 .. Len(s) + 1, NEW n \in 0 .. Len(s) + 1, At(q, s, m) = At(q, s, n)
             PROVE  m = n
  OBVIOUS
<1>1. \A k \in 0 .. Len(s) + 1 : k = 0 \/ k = Len(s) + 1 \/ k \in 1 .. Len(s)
  OBVIOUS
<1>2. q # q + 1 /\ q \notin Pid /\ q + 1 \notin Pid
  BY QidIs
<1> QED BY <1>1, <1>2, AtIs

LEMMA ListLength ==
  ASSUME NEW s \in Seq(Pid), \A m, n \in 1 .. Len(s) : s[m] = s[n] => m = n
  PROVE  Len(s) <= NPROC
<1> DEFINE f == [n \in 1 .. Len(s) |-> s[n]]
<1>1. f \in [1 .. Len(s) -> Pid] /\ \A m, n \in 1 .. Len(s) : f[m] = f[n] => m = n
  OBVIOUS
<1> HIDE DEF f
<1>2. f \in Injection(1 .. Len(s), Pid)
  BY <1>1, Fun_IsInj
<1>3. NPROC \in Nat /\ NPROC > 0 /\ Pid = 0 .. NPROC - 1 /\ 0 \in Int /\ NPROC - 1 \in Int
      /\ Len(s) \in Nat /\ Len(s) \in Int /\ 1 \in Int
  BY EntriesAre
<1>4. IsFiniteSet(Pid) /\ Cardinality(Pid) = NPROC
  <2>1. /\ IsFiniteSet(0 .. NPROC - 1)
        /\ Cardinality(0 .. NPROC - 1) = IF 0 > NPROC - 1 THEN 0 ELSE (NPROC - 1) - 0 + 1
    BY <1>3, FS_Interval
  <2> QED BY <1>3, <2>1
<1>5. Cardinality(1 .. Len(s)) = Len(s)
  <2>1. Cardinality(1 .. Len(s)) = IF 1 > Len(s) THEN 0 ELSE Len(s) - 1 + 1
    BY <1>3, FS_Interval
  <2> QED BY <1>3, <2>1
<1>6. Cardinality(1 .. Len(s)) <= Cardinality(Pid)
  BY <1>2, <1>4, FS_Injection
<1> QED BY <1>4, <1>5, <1>6

LEMMA LinkedLength ==
  ASSUME NEW q \in Qid, NEW s, NEW nx, NEW pv, Linked(q, s, nx, pv)
  PROVE  s \in Seq(Pid) /\ Len(s) \in Nat /\ Len(s) <= NPROC /\ Len(s) + 1 < NQENT
<1>1. s \in Seq(Pid) /\ Len(s) <= NPROC /\ Len(s) \in Nat
  BY ListLength DEF Linked
<1>2. NQUEUE > 0
  BY EntriesAre DEF Qid
<1> QED BY <1>1, <1>2, EntriesAre

(* What the table says of a linked queue.                                  *)
LEMMA LinkedSpells ==
  ASSUME NEW q \in Qid, NEW s, NEW nx \in Links, NEW pv, Linked(q, s, nx, pv)
  PROVE  /\ Spelled(Walk(nx, nx[q])) = s
         /\ nx[q] \in Entry
         /\ \A n \in 0 .. Len(s) : Walk(nx, nx[q])[n] = At(q, s, n + 1)
         /\ Walk(nx, q)[Len(s) + 1] = q + 1
<1>1. s \in Seq(Pid) /\ Len(s) \in Nat /\ Len(s) < NQENT /\ q \in Entry /\ q + 1 \in Entry /\ q + 1 \notin Pid
  BY LinkedLength, QidIs, EntriesAre
<1>2. Leads(q, q + 1, s, nx)
  BY DEF Linked, Leads, At, queuehead, queuetail
<1>3. nx[q] \in Entry /\ \A n \in 0 .. Len(s) : Walk(nx, nx[q])[n] = At(q, s, n + 1)
  BY <1>1, <1>2, WalkBehind DEF At, queuehead, queuetail
<1>4. \A n \in 1 .. Len(s) : n - 1 \in 0 .. Len(s) /\ (n - 1) + 1 = n
  BY <1>1
<1>5. \A n \in 1 .. Len(s) : Walk(nx, nx[q])[n - 1] = s[n]
  BY <1>1, <1>3, <1>4, AtIs
<1>6. Walk(nx, nx[q])[Len(s)] \notin Pid
  BY <1>1, <1>3, AtIs
<1>7. Spelled(Walk(nx, nx[q])) = s
  BY <1>1, <1>5, <1>6, SpellsList
<1>8. Walk(nx, q)[Len(s) + 1] = Stop(q, q + 1, s, Len(s) + 1)
  BY <1>1, <1>2, WalkPlaces
<1> QED BY <1>1, <1>3, <1>7, <1>8, PlaceIs

(* The other direction spells the queue backwards.                         *)
LEMMA LinkedBack ==
  ASSUME NEW q \in Qid, NEW s, NEW nx, NEW pv \in Links, Linked(q, s, nx, pv)
  PROVE  /\ Spelled(Walk(pv, pv[q + 1])) = Reverse(s)
         /\ Walk(pv, q + 1)[Len(s) + 1] = q
<1> DEFINE u == Reverse(s)
<1>1. s \in Seq(Pid) /\ Len(s) \in Nat /\ Len(s) < NQENT /\ q \in Entry /\ q + 1 \in Entry /\ q \notin Pid
  BY LinkedLength, QidIs, EntriesAre
<1>2. u \in Seq(Pid) /\ Len(u) = Len(s) /\ \A n \in 1 .. Len(s) : u[n] = s[(Len(s) - n) + 1]
  BY <1>1 DEF Reverse
<1> HIDE DEF u
<1>3. ASSUME NEW n \in 0 .. Len(s) + 1
      PROVE  Stop(q + 1, q, u, n) = At(q, s, (Len(s) + 1) - n)
  <2>1. CASE n = 0
    BY <1>1, <1>2, <2>1, PlaceIs, AtIs
  <2>2. CASE n = Len(s) + 1
    BY <1>1, <1>2, <2>2, PlaceIs, AtIs
  <2>3. CASE n \in 1 .. Len(s)
    <3>1. (Len(s) + 1) - n = (Len(s) - n) + 1 /\ (Len(s) - n) + 1 \in 1 .. Len(s)
      BY <1>1, <2>3
    <3>2. Stop(q + 1, q, u, n) = u[n]
      BY <1>1, <1>2, <2>3, PlaceIs
    <3>3. At(q, s, (Len(s) - n) + 1) = s[(Len(s) - n) + 1]
      BY <1>1, <3>1, AtIs
    <3> QED BY <1>2, <2>3, <3>1, <3>2, <3>3
  <2> QED BY <1>1, <2>1, <2>2, <2>3
<1>4. Leads(q + 1, q, u, pv)
  <2> SUFFICES ASSUME NEW n \in 0 .. Len(s)
               PROVE  pv[Stop(q + 1, q, u, n)] = Stop(q + 1, q, u, n + 1)
    BY <1>2 DEF Leads
  <2>1. /\ n \in 0 .. Len(s) + 1 /\ n + 1 \in 0 .. Len(s) + 1 /\ Len(s) - n \in 0 .. Len(s)
        /\ (Len(s) + 1) - n = (Len(s) - n) + 1 /\ (Len(s) + 1) - (n + 1) = Len(s) - n
    BY <1>1
  <2>2. pv[At(q, s, (Len(s) - n) + 1)] = At(q, s, Len(s) - n)
    BY <2>1 DEF Linked
  <2> QED BY <1>3, <2>1, <2>2
<1>5. /\ pv[q + 1] \in Entry
      /\ \A n \in 0 .. Len(u) : Walk(pv, pv[q + 1])[n] = Stop(q + 1, q, u, n + 1)
  BY <1>1, <1>2, <1>4, WalkBehind
<1>6. \A n \in 1 .. Len(u) : n - 1 \in 0 .. Len(u) /\ (n - 1) + 1 = n
  BY <1>1, <1>2
<1>7. \A n \in 1 .. Len(u) : Walk(pv, pv[q + 1])[n - 1] = u[n]
  <2> TAKE n \in 1 .. Len(u)
  <2>1. Walk(pv, pv[q + 1])[n - 1] = Stop(q + 1, q, u, n)
    BY <1>5, <1>6
  <2>2. Stop(q + 1, q, u, n) = u[n]
    BY <1>1, <1>2, PlaceIs
  <2> QED BY <2>1, <2>2
<1>8. Walk(pv, pv[q + 1])[Len(u)] \notin Pid
  <2>1. Len(u) \in 0 .. Len(u)
    BY <1>1, <1>2
  <2>2. Walk(pv, pv[q + 1])[Len(u)] = Stop(q + 1, q, u, Len(u) + 1)
    BY <1>5, <2>1
  <2>3. Stop(q + 1, q, u, Len(u) + 1) = q
    BY <1>1, <1>2, PlaceIs
  <2> QED BY <1>1, <2>2, <2>3
<1>9. Spelled(Walk(pv, pv[q + 1])) = u
  BY <1>1, <1>2, <1>7, <1>8, SpellsList
<1>10. Walk(pv, q + 1)[Len(u) + 1] = Stop(q + 1, q, u, Len(u) + 1)
  BY <1>1, <1>2, <1>4, WalkPlaces
<1> QED BY <1>1, <1>2, <1>9, <1>10, PlaceIs DEF u

-----------------------------------------------------------------------------
(* What an update of the links does to one queue.                          *)

LEMMA LinkedKept ==
  ASSUME NEW q \in Qid, NEW s, NEW nx, NEW pv, NEW nx1, NEW pv1, Linked(q, s, nx, pv),
         \A n \in 0 .. Len(s) : /\ nx1[At(q, s, n)] = nx[At(q, s, n)]
                                /\ pv1[At(q, s, n + 1)] = pv[At(q, s, n + 1)]
  PROVE  Linked(q, s, nx1, pv1)
BY DEF Linked

LEMMA LinkedInsert ==
  ASSUME NEW q \in Qid, NEW s, NEW nx \in Links, NEW pv \in Links, Linked(q, s, nx, pv),
         NEW p \in Pid, \A n \in 1 .. Len(s) : s[n] # p,
         NEW k \in 1 .. Len(s) + 1, NEW nx1, NEW pv1,
         nx1 = [nx EXCEPT ![p] = At(q, s, k), ![At(q, s, k - 1)] = p],
         pv1 = [pv EXCEPT ![p] = At(q, s, k - 1), ![At(q, s, k)] = p]
  PROVE  Linked(q, InsertAt(s, k, p), nx1, pv1)
<1> DEFINE u == InsertAt(s, k, p)
<1>1. s \in Seq(Pid) /\ Len(s) \in Nat /\ k \in Int
  BY DEF Linked
<1>2. /\ u \in Seq(Pid) /\ Len(u) = Len(s) + 1
      /\ \A n \in 1 .. Len(s) + 1 :
           u[n] = IF n < k THEN s[n] ELSE IF n = k THEN p ELSE s[n - 1]
  <2>1. p \in Pid /\ k \in 1 .. Len(s) + 1
    OBVIOUS
  <2>2. u \in Seq(Pid)
    BY ONLY <1>1, <2>1, InsertAtPlaces
  <2>3. Len(u) = Len(s) + 1
    BY ONLY <1>1, <2>1, InsertAtPlaces
  <2>4. ASSUME NEW n \in 1 .. Len(s) + 1
        PROVE  u[n] = IF n < k THEN s[n] ELSE IF n = k THEN p ELSE s[n - 1]
    BY ONLY <1>1, <2>1, <2>4, InsertAtPlaces
  <2> QED BY ONLY <2>2, <2>3, <2>4
<1> HIDE DEF u
<1>3. \A m, n \in 0 .. Len(s) + 1 : At(q, s, m) = At(q, s, n) => m = n
  BY <1>1, AtApart DEF Linked
<1>4. \A n \in 0 .. Len(s) + 1 : At(q, s, n) # p /\ At(q, s, n) \in Entry
  <2>1. \A n \in 0 .. Len(s) + 1 : n = 0 \/ n = Len(s) + 1 \/ n \in 1 .. Len(s)
    BY <1>1
  <2>2. q # p /\ q + 1 # p
    BY QidIs
  <2> QED BY <1>1, <2>1, <2>2, AtIs
<1>5. p \in Entry /\ k \in 0 .. Len(s) + 1 /\ k - 1 \in 0 .. Len(s) + 1
  BY <1>1, EntriesAre
<1>6. ASSUME NEW n \in 0 .. Len(s) + 2
      PROVE  At(q, u, n) = IF n < k THEN At(q, s, n) ELSE IF n = k THEN p ELSE At(q, s, n - 1)
  <2>1. CASE n = 0
    BY <1>1, <1>2, <2>1, AtIs
  <2>2. CASE n = Len(s) + 2
    <3>1. n = Len(u) + 1 /\ n - 1 = Len(s) + 1 /\ ~(n < k) /\ n # k
      BY <1>1, <1>2, <2>2
    <3> QED BY <1>1, <1>2, <3>1, AtIs
  <2>3. CASE n \in 1 .. Len(s) + 1
    <3>1. At(q, u, n) = u[n]
      BY <1>2, <2>3, AtIs
    <3>2. CASE n < k
      <4>1. n \in 1 .. Len(s)
        BY <1>1, <2>3, <3>2
      <4>2. At(q, s, n) = s[n]
        BY <1>1, <4>1, AtIs
      <4> QED BY <1>2, <2>3, <3>1, <3>2, <4>2
    <3>3. CASE n = k
      BY <1>1, <1>2, <2>3, <3>1, <3>3
    <3>4. CASE n > k
      <4>1. n - 1 \in 1 .. Len(s) /\ ~(n < k) /\ n # k
        BY <1>1, <2>3, <3>4
      <4>2. At(q, s, n - 1) = s[n - 1]
        BY <1>1, <4>1, AtIs
      <4> QED BY <1>2, <2>3, <3>1, <4>1, <4>2
    <3> QED BY <1>1, <3>2, <3>3, <3>4
  <2> QED BY <1>1, <2>1, <2>2, <2>3
<1>7. /\ nx1[p] = At(q, s, k) /\ nx1[At(q, s, k - 1)] = p
      /\ \A n \in 0 .. Len(s) + 1 : n # k - 1 => nx1[At(q, s, n)] = nx[At(q, s, n)]
  BY <1>3, <1>4, <1>5 DEF Links
<1>8. /\ pv1[p] = At(q, s, k - 1) /\ pv1[At(q, s, k)] = p
      /\ \A n \in 0 .. Len(s) + 1 : n # k => pv1[At(q, s, n)] = pv[At(q, s, n)]
  BY <1>3, <1>4, <1>5 DEF Links
<1>9. ASSUME NEW n \in 0 .. Len(s) + 1
      PROVE  nx1[At(q, u, n)] = At(q, u, n + 1) /\ pv1[At(q, u, n + 1)] = At(q, u, n)
  <2>0. n \in 0 .. Len(s) + 2 /\ n + 1 \in 0 .. Len(s) + 2 /\ (n + 1) - 1 = n /\ n \in Int
    BY <1>1
  <2>1. CASE n < k - 1
    <3>1. n < k /\ n + 1 < k /\ n \in 0 .. Len(s) /\ n + 1 \in 0 .. Len(s) + 1 /\ n # k - 1 /\ n + 1 # k
      BY <1>1, <2>1
    <3>2. At(q, u, n) = At(q, s, n) /\ At(q, u, n + 1) = At(q, s, n + 1)
      BY <1>6, <2>0, <3>1
    <3>3. nx[At(q, s, n)] = At(q, s, n + 1) /\ pv[At(q, s, n + 1)] = At(q, s, n)
      BY <3>1 DEF Linked
    <3> QED BY <1>7, <1>8, <3>1, <3>2, <3>3
  <2>2. CASE n = k - 1
    <3>1. n < k /\ n + 1 = k /\ ~(n + 1 < k)
      BY <1>1, <2>2
    <3>2. At(q, u, n) = At(q, s, k - 1) /\ At(q, u, n + 1) = p
      BY <1>6, <2>0, <2>2, <3>1
    <3> QED BY <1>7, <1>8, <3>2
  <2>3. CASE n = k
    <3>1. ~(n < k) /\ ~(n + 1 < k) /\ n + 1 # k
      BY <1>1, <2>3
    <3>2. At(q, u, n) = p /\ At(q, u, n + 1) = At(q, s, k)
      BY <1>6, <2>0, <2>3, <3>1
    <3> QED BY <1>7, <1>8, <3>2
  <2>4. CASE n > k
    <3>1. /\ ~(n < k) /\ n # k /\ ~(n + 1 < k) /\ n + 1 # k /\ n - 1 \in 0 .. Len(s) /\ (n - 1) + 1 = n
          /\ n - 1 # k - 1 /\ n - 1 \in 0 .. Len(s) + 1
      BY <1>1, <2>0, <2>4
    <3>2. At(q, u, n) = At(q, s, n - 1) /\ At(q, u, n + 1) = At(q, s, n)
      BY <1>6, <2>0, <3>1
    <3>3. nx[At(q, s, n - 1)] = At(q, s, n) /\ pv[At(q, s, n)] = At(q, s, n - 1)
      BY <3>1 DEF Linked
    <3> QED BY <1>7, <1>8, <3>1, <3>2, <3>3
  <2> QED BY <1>1, <2>0, <2>1, <2>2, <2>3, <2>4
<1>10. \A m, n \in 1 .. Len(u) : u[m] = u[n] => m = n
  <2> SUFFICES ASSUME NEW m \in 1 .. Len(u), NEW n \in 1 .. Len(u), u[m] = u[n], m < n
               PROVE  FALSE
    BY <1>1, <1>2
  <2>0. m \in 1 .. Len(s) + 1 /\ n \in 1 .. Len(s) + 1 /\ m \in Int /\ n \in Int
    BY <1>1, <1>2
  <2>1. CASE n < k
    <3>1. m \in 1 .. Len(s) /\ n \in 1 .. Len(s) /\ m < k
      BY <1>1, <2>0, <2>1
    <3>2. s[m] = s[n]
      BY <1>2, <2>0, <2>1, <3>1
    <3> QED BY <2>0, <3>1, <3>2 DEF Linked
  <2>2. CASE n = k
    <3>1. m \in 1 .. Len(s) /\ m < k
      BY <1>1, <2>0, <2>2
    <3>2. s[m] = p
      BY <1>1, <1>2, <2>0, <2>2, <3>1
    <3> QED BY <3>1, <3>2
  <2>3. CASE n > k /\ m < k
    <3>1. m \in 1 .. Len(s) /\ n - 1 \in 1 .. Len(s) /\ ~(n < k) /\ n # k /\ m # n - 1
      BY <1>1, <2>0, <2>3
    <3>2. s[m] = s[n - 1]
      BY <1>2, <2>0, <2>3, <3>1
    <3> QED BY <3>1, <3>2 DEF Linked
  <2>4. CASE n > k /\ m = k
    <3>1. n - 1 \in 1 .. Len(s) /\ ~(n < k) /\ n # k /\ ~(m < k)
      BY <1>1, <2>0, <2>4
    <3>2. p = s[n - 1]
      BY <1>2, <2>0, <2>4, <3>1
    <3> QED BY <3>1, <3>2
  <2>5. CASE n > k /\ m > k
    <3>1. /\ m - 1 \in 1 .. Len(s) /\ n - 1 \in 1 .. Len(s) /\ ~(n < k) /\ n # k
          /\ ~(m < k) /\ m # k /\ m - 1 # n - 1
      BY <1>1, <2>0, <2>5
    <3>2. s[m - 1] = s[n - 1]
      BY <1>2, <2>0, <3>1
    <3> QED BY <3>1, <3>2 DEF Linked
  <2> QED BY <1>1, <2>0, <2>1, <2>2, <2>3, <2>4, <2>5
<1>11. 0 .. Len(u) = 0 .. Len(s) + 1
  BY <1>2
<1> QED BY <1>2, <1>9, <1>10, <1>11 DEF Linked, u

LEMMA LinkedRemove ==
  ASSUME NEW q \in Qid, NEW s, NEW nx, NEW pv, Linked(q, s, nx, pv),
         NEW k \in 1 .. Len(s), NEW nx1, NEW pv1,
         \A e \in Entry \ {s[k]} :
           /\ nx1[e] = IF e = At(q, s, k - 1) THEN At(q, s, k + 1) ELSE nx[e]
           /\ pv1[e] = IF e = At(q, s, k + 1) THEN At(q, s, k - 1) ELSE pv[e]
  PROVE  Linked(q, RemoveAt(s, k), nx1, pv1)
<1> DEFINE u == RemoveAt(s, k)
<1>1. s \in Seq(Pid) /\ Len(s) \in Nat /\ k \in Int
  BY DEF Linked
<1>2. /\ u \in Seq(Pid) /\ Len(u) = Len(s) - 1
      /\ \A n \in 1 .. Len(s) - 1 : u[n] = IF n < k THEN s[n] ELSE s[n + 1]
  <2>1. k \in 1 .. Len(s)
    OBVIOUS
  <2> QED BY ONLY <1>1, <2>1, RemoveAtPlaces
<1> HIDE DEF u
<1>3. \A m, n \in 0 .. Len(s) + 1 : At(q, s, m) = At(q, s, n) => m = n
  BY <1>1, AtApart DEF Linked
<1>4. \A n \in 0 .. Len(s) + 1 : At(q, s, n) \in Entry
  BY <1>1, AtIs
<1>5. k \in 0 .. Len(s) + 1 /\ k - 1 \in 0 .. Len(s) + 1 /\ k + 1 \in 0 .. Len(s) + 1 /\ s[k] = At(q, s, k)
  BY <1>1, AtIs
<1>6. ASSUME NEW n \in 0 .. Len(s)
      PROVE  At(q, u, n) = IF n < k THEN At(q, s, n) ELSE At(q, s, n + 1)
  <2>1. CASE n = 0
    BY <1>1, <1>2, <2>1, AtIs
  <2>2. CASE n = Len(s)
    <3>1. n = Len(u) + 1 /\ ~(n < k)
      BY <1>1, <1>2, <2>2
    <3> QED BY <1>1, <1>2, <2>2, <3>1, AtIs
  <2>3. CASE n \in 1 .. Len(s) - 1
    <3>1. At(q, u, n) = u[n]
      BY <1>2, <2>3, AtIs
    <3>2. n \in 1 .. Len(s) /\ n + 1 \in 1 .. Len(s)
      BY <1>1, <2>3
    <3>3. At(q, s, n) = s[n] /\ At(q, s, n + 1) = s[n + 1]
      BY <1>1, <3>2, AtIs
    <3> QED BY <1>2, <2>3, <3>1, <3>3
  <2> QED BY <1>1, <2>1, <2>2, <2>3
<1>7. \A n \in 0 .. Len(s) + 1 : n # k =>
        /\ nx1[At(q, s, n)] = IF n = k - 1 THEN At(q, s, k + 1) ELSE nx[At(q, s, n)]
        /\ pv1[At(q, s, n)] = IF n = k + 1 THEN At(q, s, k - 1) ELSE pv[At(q, s, n)]
  BY <1>3, <1>4, <1>5
<1>9. ASSUME NEW n \in 0 .. Len(s) - 1
      PROVE  nx1[At(q, u, n)] = At(q, u, n + 1) /\ pv1[At(q, u, n + 1)] = At(q, u, n)
  <2>0. n \in 0 .. Len(s) /\ n + 1 \in 0 .. Len(s) /\ n \in Int
    BY <1>1
  <2>1. CASE n < k - 1
    <3>1. /\ n < k /\ n + 1 < k /\ n \in 0 .. Len(s) + 1 /\ n + 1 \in 0 .. Len(s) + 1
          /\ n # k /\ n + 1 # k /\ n # k - 1 /\ n + 1 # k + 1
      BY <1>1, <2>1
    <3>2. At(q, u, n) = At(q, s, n) /\ At(q, u, n + 1) = At(q, s, n + 1)
      BY <1>6, <2>0, <3>1
    <3>3. nx[At(q, s, n)] = At(q, s, n + 1) /\ pv[At(q, s, n + 1)] = At(q, s, n)
      BY <2>0 DEF Linked
    <3> QED BY <1>7, <3>1, <3>2, <3>3
  <2>2. CASE n = k - 1
    <3>1. n < k /\ ~(n + 1 < k) /\ (n + 1) + 1 = k + 1 /\ k - 1 # k /\ k + 1 # k
      BY <1>1, <2>2
    <3>2. At(q, u, n) = At(q, s, k - 1) /\ At(q, u, n + 1) = At(q, s, k + 1)
      BY <1>6, <2>0, <2>2, <3>1
    <3> QED BY <1>5, <1>7, <3>1, <3>2
  <2>3. CASE n > k - 1
    <3>1. /\ ~(n < k) /\ ~(n + 1 < k) /\ n + 1 \in 0 .. Len(s) + 1 /\ (n + 1) + 1 \in 0 .. Len(s) + 1
          /\ n + 1 # k /\ (n + 1) + 1 # k /\ n + 1 # k - 1 /\ (n + 1) + 1 # k + 1
      BY <1>1, <2>0, <2>3
    <3>2. At(q, u, n) = At(q, s, n + 1) /\ At(q, u, n + 1) = At(q, s, (n + 1) + 1)
      BY <1>6, <2>0, <3>1
    <3>3. nx[At(q, s, n + 1)] = At(q, s, (n + 1) + 1) /\ pv[At(q, s, (n + 1) + 1)] = At(q, s, n + 1)
      BY <2>0 DEF Linked
    <3> QED BY <1>7, <3>1, <3>2, <3>3
  <2> QED BY <1>1, <2>0, <2>1, <2>2, <2>3
<1>10. \A m, n \in 1 .. Len(u) : u[m] = u[n] => m = n
  <2> SUFFICES ASSUME NEW m \in 1 .. Len(u), NEW n \in 1 .. Len(u), u[m] = u[n]
               PROVE  m = n
    OBVIOUS
  <2>1. /\ m \in 0 .. Len(s) /\ n \in 0 .. Len(s) /\ m \in Int /\ n \in Int
        /\ m \in 0 .. Len(s) + 1 /\ n \in 0 .. Len(s) + 1
        /\ m + 1 \in 0 .. Len(s) + 1 /\ n + 1 \in 0 .. Len(s) + 1
    BY <1>1, <1>2
  <2>2. At(q, u, m) = At(q, u, n)
    BY <1>2, AtIs
  <2>3. (IF m < k THEN m ELSE m + 1) = (IF n < k THEN n ELSE n + 1)
    BY <1>3, <1>6, <2>1, <2>2
  <2> QED BY <1>1, <2>1, <2>3
<1>11. 0 .. Len(u) = 0 .. Len(s) - 1
  BY <1>2
<1> QED BY <1>2, <1>9, <1>10, <1>11 DEF Linked, u

LEMMA Elements ==
  ASSUME NEW s, s \in Seq(Pid), \A m, n \in 1 .. Len(s) : s[m] = s[n] => m = n
  PROVE  /\ Enumerates(s, ToSet(s)) /\ ToSet(s) \subseteq Pid
         /\ \A S : Enumerates(s, S) => S = ToSet(s)
<1>1. ToSet(s) = {s[n] : n \in 1 .. Len(s)}
  BY DEF ToSet
<1>2. s \in Seq(ToSet(s))
  BY <1>1, SeqOver
<1>3. \A S : Enumerates(s, S) => S = ToSet(s)
  BY <1>1 DEF Enumerates
<1>4. ToSet(s) \subseteq Pid
  BY <1>1
<1>5. Enumerates(s, ToSet(s))
  BY <1>1, <1>2 DEF Enumerates
<1> QED BY <1>3, <1>4, <1>5

-----------------------------------------------------------------------------
(* The table.                                                              *)

TableInv ==
  /\ qnext \in Links /\ qprev \in Links /\ qkey \in [Entry -> Int]
  /\ nextqid \in {NPROC + 2 * n : n \in 0 .. NQUEUE}
  /\ \A q \in Queues : /\ Linked(q, ListOf(q), qnext, qprev)
                       /\ qkey[q] = MAXKEY /\ qkey[q + 1] = MINKEY
  /\ \A q, r \in Queues : q # r => ToSet(ListOf(q)) \cap ToSet(ListOf(r)) = {}

LEMMA TableInit == LinksInit => TableInv
<1> SUFFICES ASSUME LinksInit PROVE TableInv
  OBVIOUS
<1>1. qnext \in Links /\ qprev \in Links /\ qkey \in [Entry -> Int]
  BY EntriesAre DEF LinksInit, Links
<1>2. nextqid = NPROC + 2 * 0 /\ 0 \in 0 .. NQUEUE
  BY EntriesAre DEF LinksInit
<1>3. Queues = {}
  BY QidIs, EntriesAre DEF Queues, Qid, LinksInit
<1> QED BY <1>1, <1>2, <1>3 DEF TableInv

(* The queues that are not made yet are empty, and those that are made are *)
(* what their links spell.                                                 *)
LEMMA ListOfIs ==
  /\ \A q \in Qid \ Queues : ListOf(q) = << >>
  /\ \A q \in Queues : q \in Qid /\ ListOf(q) = Spelled(Walk(qnext, qnext[q]))
BY DEF ListOf, Queues, firstid, queuehead

LEMMA NewListOfIs ==
  /\ \A q \in Qid \ Queues' : ListOf(q)' = << >>
  /\ \A q \in Queues' : q \in Qid /\ ListOf(q)' = Spelled(Walk(qnext', qnext'[q]))
BY DEF ListOf, Queues, firstid, queuehead, Walk

(* The queues after a call that relinks one of them.                       *)
LEMMA Relinked ==
  ASSUME TableInv, NEW q \in Queues, NEW s, UNCHANGED nextqid,
         qnext' \in Links, qprev' \in Links, qkey' \in [Entry -> Int],
         \A e \in Entry \ Pid : qkey'[e] = qkey[e],
         Linked(q, s, qnext', qprev'),
         \A r \in Queues \ {q} : /\ Linked(r, ListOf(r), qnext', qprev')
                                 /\ ToSet(s) \cap ToSet(ListOf(r)) = {}
  PROVE  /\ TableInv' /\ ListOf(q)' = s
         /\ \A r \in Qid : r # q => ListOf(r)' = ListOf(r)
<1>1. Queues' = Queues
  BY DEF Queues
<1>2. ListOf(q)' = s
  <2>1. q \in Qid /\ ListOf(q)' = Spelled(Walk(qnext', qnext'[q]))
    BY <1>1, NewListOfIs
  <2>2. Spelled(Walk(qnext', qnext'[q])) = s
    BY <2>1, LinkedSpells
  <2> QED BY <2>1, <2>2
<1>3. ASSUME NEW r \in Queues, r # q
      PROVE  ListOf(r)' = ListOf(r)
  <2>1. r \in Qid /\ ListOf(r)' = Spelled(Walk(qnext', qnext'[r]))
    BY <1>1, NewListOfIs
  <2>2. Spelled(Walk(qnext', qnext'[r])) = ListOf(r)
    BY <1>3, <2>1, LinkedSpells
  <2> QED BY <2>1, <2>2
<1>4. \A r \in Qid : r # q => ListOf(r)' = ListOf(r)
  BY <1>1, <1>3, ListOfIs, NewListOfIs
<1>5. \A r \in Queues : qkey'[r] = MAXKEY /\ qkey'[r + 1] = MINKEY
  BY QidIs, ListOfIs DEF TableInv
<1>6. \A r \in Queues : Linked(r, ListOf(r)', qnext', qprev')
  BY <1>2, <1>3
<1>7. \A r, t \in Queues : r # t => ToSet(ListOf(r)') \cap ToSet(ListOf(t)') = {}
  BY <1>2, <1>3 DEF TableInv
<1>8. ToSet(ListOf(q))' = ToSet(ListOf(q)')
  BY DEF ToSet
<1>9. TableInv'
  BY <1>1, <1>5, <1>6, <1>7 DEF TableInv, Linked, ToSet
<1> QED BY <1>2, <1>4, <1>9

(* The entries of two queues are different ones.                           *)
LEMMA AtOther ==
  ASSUME NEW q \in Qid, NEW r \in Qid, q # r, NEW s \in Seq(Pid), NEW u \in Seq(Pid),
         ToSet(s) \cap ToSet(u) = {}, NEW m \in 0 .. Len(s) + 1, NEW n \in 0 .. Len(u) + 1
  PROVE  At(q, s, m) # At(r, u, n)
<1>1. m = 0 \/ m = Len(s) + 1 \/ m \in 1 .. Len(s)
  OBVIOUS
<1>2. n = 0 \/ n = Len(u) + 1 \/ n \in 1 .. Len(u)
  OBVIOUS
<1>3. At(q, s, m) \in {q, q + 1} \/ (At(q, s, m) \in ToSet(s) /\ At(q, s, m) \in Pid)
  BY <1>1, AtIs DEF ToSet
<1>4. At(r, u, n) \in {r, r + 1} \/ (At(r, u, n) \in ToSet(u) /\ At(r, u, n) \in Pid)
  BY <1>2, AtIs DEF ToSet
<1>5. /\ q # r + 1 /\ r # q + 1 /\ q + 1 # r + 1
      /\ q \notin Pid /\ q + 1 \notin Pid /\ r \notin Pid /\ r + 1 \notin Pid
  BY QidIs
<1> QED BY <1>3, <1>4, <1>5

LEMMA TableQueues ==
  ASSUME TableInv, NEW q \in Queues
  PROVE  /\ q \in Qid /\ Linked(q, ListOf(q), qnext, qprev)
         /\ ListOf(q) \in Seq(Pid) /\ Len(ListOf(q)) \in Nat
         /\ \A m, n \in 1 .. Len(ListOf(q)) : ListOf(q)[m] = ListOf(q)[n] => m = n
         /\ \A r \in Queues \ {q} : /\ r \in Qid /\ ListOf(r) \in Seq(Pid)
                                    /\ ToSet(ListOf(q)) \cap ToSet(ListOf(r)) = {}
BY ListOfIs DEF TableInv, Linked

(* A process linked in at place k of a queue.                              *)
LEMMA Inserted ==
  ASSUME TableInv, NEW q \in Queues, NEW p \in Pid, p \notin Listed,
         NEW k \in 1 .. Len(ListOf(q)) + 1,
         LinkBetween(p, At(q, ListOf(q), k - 1), At(q, ListOf(q), k)),
         UNCHANGED nextqid, qkey' \in [Entry -> Int], \A e \in Entry \ Pid : qkey'[e] = qkey[e]
  PROVE  /\ TableInv' /\ ListOf(q)' = InsertAt(ListOf(q), k, p)
         /\ \A r \in Qid : r # q => ListOf(r)' = ListOf(r)
<1> DEFINE s == ListOf(q)
           u == InsertAt(s, k, p)
<1>1. /\ q \in Qid /\ Linked(q, s, qnext, qprev) /\ s \in Seq(Pid) /\ Len(s) \in Nat
      /\ \A m, n \in 1 .. Len(s) : s[m] = s[n] => m = n
      /\ qnext \in Links /\ qprev \in Links
  BY TableQueues DEF TableInv
<1>2. \A r \in Queues : p \notin ToSet(ListOf(r))
  BY ListOfIs DEF Listed
<1>3. \A n \in 1 .. Len(s) : s[n] # p
  BY <1>2 DEF ToSet
<1>4. /\ qnext' = [qnext EXCEPT ![p] = At(q, s, k), ![At(q, s, k - 1)] = p]
      /\ qprev' = [qprev EXCEPT ![p] = At(q, s, k - 1), ![At(q, s, k)] = p]
  BY DEF LinkBetween
<1>5. k \in 1 .. Len(s) + 1 /\ k \in 0 .. Len(s) + 1 /\ k - 1 \in 0 .. Len(s) + 1
  BY <1>1
<1>6. p \in Entry /\ At(q, s, k) \in Entry /\ At(q, s, k - 1) \in Entry
  BY <1>1, <1>5, AtIs, EntriesAre
<1> HIDE DEF s
<1>7. Linked(q, u, qnext', qprev')
  BY <1>1, <1>3, <1>4, <1>5, LinkedInsert
<1>8. qnext' \in Links /\ qprev' \in Links
  BY <1>1, <1>4, <1>6 DEF Links
<1>9. ToSet(u) = ToSet(s) \cup {p}
  <2>1. Enumerates(s, ToSet(s))
    BY <1>1, Elements
  <2>2. p \notin ToSet(s)
    BY <1>2 DEF s
  <2>3. Enumerates(u, ToSet(s) \cup {p})
    BY <1>5, <2>1, <2>2, InsertLists
  <2>4. u \in Seq(Pid) /\ \A m, n \in 1 .. Len(u) : u[m] = u[n] => m = n
    BY <1>7 DEF Linked
  <2> HIDE DEF u
  <2> QED BY <2>3, <2>4, Elements
<1> HIDE DEF u
<1>10. ASSUME NEW r \in Queues \ {q}
       PROVE  Linked(r, ListOf(r), qnext', qprev') /\ ToSet(u) \cap ToSet(ListOf(r)) = {}
  <2> DEFINE v == ListOf(r)
  <2>1. /\ r \in Qid /\ v \in Seq(Pid) /\ ToSet(s) \cap ToSet(v) = {} /\ r # q
        /\ Linked(r, v, qnext, qprev) /\ Len(v) \in Nat
    BY TableQueues DEF s
  <2>2. p \notin ToSet(v)
    BY <1>2
  <2> HIDE DEF v
  <2>3. ASSUME NEW n \in 0 .. Len(v) + 1
        PROVE  At(r, v, n) \notin {p, At(q, s, k - 1), At(q, s, k)} /\ At(r, v, n) \in Entry
    <3>1. At(r, v, n) # At(q, s, k - 1) /\ At(r, v, n) # At(q, s, k)
      BY <1>1, <1>5, <2>1, AtOther
    <3>2. n = 0 \/ n = Len(v) + 1 \/ n \in 1 .. Len(v)
      BY <2>1
    <3>3. r # p /\ r + 1 # p
      BY <2>1, QidIs
    <3>4. At(r, v, n) # p
      BY <2>1, <2>2, <3>2, <3>3, AtIs DEF ToSet
    <3> QED BY <2>1, <3>1, <3>4, AtIs
  <2>4. ASSUME NEW n \in 0 .. Len(v)
        PROVE  /\ qnext'[At(r, v, n)] = qnext[At(r, v, n)]
               /\ qprev'[At(r, v, n + 1)] = qprev[At(r, v, n + 1)]
    <3>1. n \in 0 .. Len(v) + 1 /\ n + 1 \in 0 .. Len(v) + 1
      BY <2>1
    <3>2. /\ At(r, v, n) \notin {p, At(q, s, k - 1)} /\ At(r, v, n) \in Entry
          /\ At(r, v, n + 1) \notin {p, At(q, s, k)} /\ At(r, v, n + 1) \in Entry
      BY <2>3, <3>1
    <3> QED BY <1>1, <1>4, <3>2 DEF Links
  <2>5. Linked(r, v, qnext', qprev')
    BY <2>1, <2>4, LinkedKept
  <2>6. ToSet(u) \cap ToSet(v) = {}
    BY <1>9, <2>1, <2>2
  <2> QED BY <2>5, <2>6 DEF v
<1> QED BY <1>7, <1>8, <1>10, Relinked DEF s, u

(* A process taken from place k.                                           *)
Unlinked(q, s, k) ==
  \A e \in Entry \ {s[k]} :
    /\ qnext'[e] = IF e = At(q, s, k - 1) THEN At(q, s, k + 1) ELSE qnext[e]
    /\ qprev'[e] = IF e = At(q, s, k + 1) THEN At(q, s, k - 1) ELSE qprev[e]

LEMMA Removed ==
  ASSUME TableInv, NEW q \in Queues, NEW k \in 1 .. Len(ListOf(q)),
         qnext' \in Links, qprev' \in Links, UNCHANGED <<qkey, nextqid>>,
         Unlinked(q, ListOf(q), k)
  PROVE  /\ TableInv' /\ ListOf(q)' = RemoveAt(ListOf(q), k)
         /\ \A r \in Qid : r # q => ListOf(r)' = ListOf(r)
<1> DEFINE s == ListOf(q)
           u == RemoveAt(s, k)
<1>1. /\ q \in Qid /\ Linked(q, s, qnext, qprev) /\ s \in Seq(Pid) /\ Len(s) \in Nat
      /\ \A m, n \in 1 .. Len(s) : s[m] = s[n] => m = n
      /\ qkey \in [Entry -> Int]
  BY TableQueues DEF TableInv
<1>2. \A e \in Entry \ {s[k]} :
        /\ qnext'[e] = IF e = At(q, s, k - 1) THEN At(q, s, k + 1) ELSE qnext[e]
        /\ qprev'[e] = IF e = At(q, s, k + 1) THEN At(q, s, k - 1) ELSE qprev[e]
  BY DEF Unlinked
<1>3. k \in 1 .. Len(s) /\ k \in 0 .. Len(s) + 1 /\ k - 1 \in 0 .. Len(s) + 1 /\ k + 1 \in 0 .. Len(s) + 1
  BY <1>1
<1> HIDE DEF s
<1>4. s[k] = At(q, s, k)
  BY <1>1, <1>3, AtIs
<1>5. Linked(q, u, qnext', qprev')
  BY <1>1, <1>2, <1>3, LinkedRemove
<1>6. ToSet(u) \subseteq ToSet(s)
  <2>1. Enumerates(s, ToSet(s))
    BY <1>1, Elements
  <2>2. Enumerates(u, ToSet(s) \ {s[k]})
    BY <1>3, <2>1, RemoveLists
  <2>3. u \in Seq(Pid) /\ \A m, n \in 1 .. Len(u) : u[m] = u[n] => m = n
    BY <1>5 DEF Linked
  <2> HIDE DEF u
  <2> QED BY <2>2, <2>3, Elements
<1> HIDE DEF u
<1>7. ASSUME NEW r \in Queues \ {q}
      PROVE  Linked(r, ListOf(r), qnext', qprev') /\ ToSet(u) \cap ToSet(ListOf(r)) = {}
  <2> DEFINE v == ListOf(r)
  <2>1. /\ r \in Qid /\ v \in Seq(Pid) /\ ToSet(s) \cap ToSet(v) = {} /\ r # q
        /\ Linked(r, v, qnext, qprev) /\ Len(v) \in Nat
    BY TableQueues DEF s
  <2> HIDE DEF v
  <2>2. ASSUME NEW n \in 0 .. Len(v) + 1
        PROVE  /\ At(r, v, n) \notin {At(q, s, k - 1), At(q, s, k), At(q, s, k + 1)}
               /\ At(r, v, n) \in Entry
    <3>1. At(r, v, n) # At(q, s, k - 1) /\ At(r, v, n) # At(q, s, k) /\ At(r, v, n) # At(q, s, k + 1)
      BY <1>1, <1>3, <2>1, AtOther
    <3> QED BY <2>1, <3>1, AtIs
  <2>3. ASSUME NEW n \in 0 .. Len(v)
        PROVE  /\ qnext'[At(r, v, n)] = qnext[At(r, v, n)]
               /\ qprev'[At(r, v, n + 1)] = qprev[At(r, v, n + 1)]
    <3>1. n \in 0 .. Len(v) + 1 /\ n + 1 \in 0 .. Len(v) + 1
      BY <2>1
    <3> QED BY <1>2, <1>4, <2>2, <3>1
  <2>4. Linked(r, v, qnext', qprev')
    BY <2>1, <2>3, LinkedKept
  <2>5. ToSet(u) \cap ToSet(v) = {}
    BY <1>6, <2>1
  <2> QED BY <2>4, <2>5 DEF v
<1>8. qkey' \in [Entry -> Int] /\ UNCHANGED nextqid /\ \A e \in Entry \ Pid : qkey'[e] = qkey[e]
  BY <1>1
<1> QED BY <1>5, <1>7, <1>8, Relinked DEF s, u

-----------------------------------------------------------------------------
(* One lemma for each call.                                                *)

(* newqueue() makes an empty queue and leaves the others alone.            *)
LEMMA NewQueueMakes ==
  ASSUME TableInv, NewQueue
  PROVE  /\ TableInv' /\ \A r \in Qid : ListOf(r)' = ListOf(r)
         /\ \A p \in Pid : qkey'[p] = qkey[p]
<1>0. PICK q : q = nextqid
  OBVIOUS
<1>1. /\ qnext' = [qnext EXCEPT ![q] = q + 1, ![q + 1] = EMPTY]
      /\ qprev' = [qprev EXCEPT ![q] = EMPTY, ![q + 1] = q]
      /\ qkey' = [qkey EXCEPT ![q] = MAXKEY, ![q + 1] = MINKEY]
      /\ nextqid' = q + 2 /\ q < NQENT
  BY <1>0 DEF NewQueue, queuehead, queuetail
<1>2. PICK n \in 0 .. NQUEUE : q = NPROC + 2 * n
  BY <1>0 DEF TableInv
<1>3. n \in 0 .. NQUEUE - 1 /\ n + 1 \in 0 .. NQUEUE /\ nextqid' = NPROC + 2 * (n + 1)
  BY <1>1, <1>2, EntriesAre
<1>4. q \in Qid /\ q \notin Queues /\ q \in Nat
  <2>1. q \in Qid
    BY <1>2, <1>3 DEF Qid
  <2> QED BY <1>0, <2>1, QidIs DEF Queues
<1>5. Queues' = Queues \cup {q}
  <2>1. Queues' = {r \in Qid : r < q + 2}
    BY <1>1 DEF Queues
  <2>2. ASSUME NEW r \in Qid
        PROVE  r < q + 2 <=> r < q \/ r = q
    BY <1>4, <2>2, QidIs
  <2> QED BY <1>0, <1>4, <2>1, <2>2 DEF Queues
<1>6. q \in Entry /\ q + 1 \in Entry /\ q \notin Pid /\ q + 1 \notin Pid /\ q # q + 1
  BY <1>4, QidIs
<1>7. qnext \in Links /\ qprev \in Links /\ qkey \in [Entry -> Int]
  BY DEF TableInv
<1>8. /\ qnext'[q] = q + 1 /\ qprev'[q + 1] = q /\ qkey'[q] = MAXKEY /\ qkey'[q + 1] = MINKEY
      /\ \A e \in Entry \ {q, q + 1} : qnext'[e] = qnext[e] /\ qprev'[e] = qprev[e] /\ qkey'[e] = qkey[e]
  BY <1>1, <1>6, <1>7 DEF Links
<1>9. qnext' \in Links /\ qprev' \in Links /\ qkey' \in [Entry -> Int]
  BY <1>1, <1>6, <1>7 DEF Links, EMPTY, MAXKEY, MINKEY
<1>10. Linked(q, << >>, qnext', qprev')
  <2>1. Len(<< >>) = 0 /\ << >> \in Seq(Pid) /\ \A m \in 0 .. 0 : m = 0
    OBVIOUS
  <2>2. At(q, << >>, 0) = q /\ At(q, << >>, 0 + 1) = q + 1
    BY <2>1 DEF At, Stop, queuehead, queuetail
  <2> QED BY <1>8, <2>1, <2>2 DEF Linked
<1>11. ASSUME NEW r \in Queues
       PROVE  /\ Linked(r, ListOf(r), qnext', qprev') /\ r \in Qid /\ r # q
              /\ qkey'[r] = MAXKEY /\ qkey'[r + 1] = MINKEY
  <2>1. /\ r \in Qid /\ r # q /\ Linked(r, ListOf(r), qnext, qprev)
        /\ ListOf(r) \in Seq(Pid) /\ Len(ListOf(r)) \in Nat
    BY <1>4, TableQueues
  <2>2. r \notin {q, q + 1} /\ r + 1 \notin {q, q + 1}
    BY <1>4, <2>1, QidIs
  <2>3. ASSUME NEW m \in 0 .. Len(ListOf(r)) + 1
        PROVE  At(r, ListOf(r), m) \in Entry \ {q, q + 1}
    <3>1. m = 0 \/ m = Len(ListOf(r)) + 1 \/ m \in 1 .. Len(ListOf(r))
      BY <2>1
    <3> QED BY <1>6, <2>1, <2>2, <3>1, AtIs
  <2>4. \A m \in 0 .. Len(ListOf(r)) : m \in 0 .. Len(ListOf(r)) + 1 /\ m + 1 \in 0 .. Len(ListOf(r)) + 1
    BY <2>1
  <2>5. Linked(r, ListOf(r), qnext', qprev')
    BY <1>8, <2>1, <2>3, <2>4, LinkedKept
  <2>6. r \in Entry /\ r + 1 \in Entry /\ qkey[r] = MAXKEY /\ qkey[r + 1] = MINKEY
    BY <2>1, QidIs DEF TableInv
  <2> QED BY <1>8, <2>1, <2>2, <2>5, <2>6
<1>12. \A r \in Queues : ListOf(r)' = ListOf(r)
  <2> SUFFICES ASSUME NEW r \in Queues PROVE ListOf(r)' = ListOf(r)
    OBVIOUS
  <2>1. ListOf(r)' = Spelled(Walk(qnext', qnext'[r]))
    BY <1>5, NewListOfIs
  <2>2. Spelled(Walk(qnext', qnext'[r])) = ListOf(r)
    BY <1>9, <1>11, LinkedSpells
  <2> QED BY <2>1, <2>2
<1>13. ListOf(q)' = << >> /\ ListOf(q) = << >>
  <2>1. ListOf(q)' = Spelled(Walk(qnext', qnext'[q]))
    BY <1>5, NewListOfIs
  <2>2. Spelled(Walk(qnext', qnext'[q])) = << >>
    BY <1>4, <1>9, <1>10, LinkedSpells
  <2> QED BY <1>4, <2>1, <2>2, ListOfIs
<1>14. \A r \in Qid : ListOf(r)' = ListOf(r)
  BY <1>5, <1>12, <1>13, ListOfIs, NewListOfIs
<1>15. TableInv'
  <2>1. nextqid' \in {NPROC + 2 * m : m \in 0 .. NQUEUE}
    BY <1>3
  <2>2. \A r \in Queues' : /\ Linked(r, ListOf(r)', qnext', qprev')
                           /\ qkey'[r] = MAXKEY /\ qkey'[r + 1] = MINKEY
    BY <1>5, <1>8, <1>10, <1>11, <1>12, <1>13
  <2>3. \A r, t \in Queues' : r # t => ToSet(ListOf(r)') \cap ToSet(ListOf(t)') = {}
    <3>1. ToSet(<< >>) = {}
      BY DEF ToSet
    <3> QED BY <1>5, <1>12, <1>13, <3>1 DEF TableInv
  <2> QED BY <1>9, <2>1, <2>2, <2>3 DEF TableInv, Linked, ToSet
<1>16. \A p \in Pid : qkey'[p] = qkey[p]
  BY <1>6, <1>8, EntriesAre
<1> QED BY <1>14, <1>15, <1>16

LEMMA EnqueueLinks ==
  ASSUME TableInv, NEW q \in Queues, NEW p \in Pid, p \notin Listed, Enqueue(p, q)
  PROVE  /\ TableInv' /\ ListOf(q)' = InsertAt(ListOf(q), Len(ListOf(q)) + 1, p)
         /\ \A r \in Qid : r # q => ListOf(r)' = ListOf(r)
         /\ UNCHANGED qkey
<1>1. PICK s : s = ListOf(q)
  OBVIOUS
<1>2. q \in Qid /\ Linked(q, s, qnext, qprev) /\ s \in Seq(Pid) /\ Len(s) \in Nat
  BY <1>1, TableQueues
<1>3. /\ Len(s) \in 0 .. Len(s) /\ Len(s) + 1 \in 1 .. Len(s) + 1 /\ (Len(s) + 1) - 1 = Len(s)
  BY <1>2
<1>4. qprev[q + 1] = At(q, s, Len(s)) /\ At(q, s, Len(s) + 1) = q + 1
  BY <1>2, <1>3, AtIs DEF Linked
<1>5. LinkBetween(p, At(q, s, (Len(s) + 1) - 1), At(q, s, Len(s) + 1)) /\ UNCHANGED <<qkey, nextqid>>
  BY <1>3, <1>4 DEF Enqueue, lastid, queuetail
<1>6. qkey' \in [Entry -> Int] /\ (\A e \in Entry \ Pid : qkey'[e] = qkey[e]) /\ UNCHANGED nextqid
  BY <1>5 DEF TableInv
<1> QED BY <1>1, <1>3, <1>5, <1>6, Inserted

(* insert() stops in the queue, for the tail's key is below every other.   *)
LEMMA InsertLinks ==
  ASSUME TableInv, NEW q \in Queues, NEW p \in Pid, p \notin Listed, NEW k \in Keys, Insert(p, q, k)
  PROVE  /\ TableInv' /\ \A r \in Qid : r # q => ListOf(r)' = ListOf(r)
         /\ qkey' = [qkey EXCEPT ![p] = k]
         /\ \E i \in 1 .. Len(ListOf(q)) + 1 :
              /\ \A j \in 1 .. i - 1 : qkey[ListOf(q)[j]] >= k
              /\ i <= Len(ListOf(q)) => qkey[ListOf(q)[i]] < k
              /\ ListOf(q)' = InsertAt(ListOf(q), i, p)
<1>1. PICK s : s = ListOf(q)
  OBVIOUS
<1>2. /\ q \in Qid /\ Linked(q, s, qnext, qprev) /\ s \in Seq(Pid) /\ Len(s) \in Nat
      /\ qnext \in Links /\ qprev \in Links /\ qkey \in [Entry -> Int] /\ qkey[q + 1] = MINKEY
  BY <1>1, TableQueues DEF TableInv
<1>3. PICK seen : seen = Walk(qnext, qnext[q])
  OBVIOUS
<1>4. \A n \in 0 .. Len(s) : seen[n] = At(q, s, n + 1)
  BY <1>2, <1>3, LinkedSpells
<1>5. /\ UNCHANGED nextqid /\ qkey' = [qkey EXCEPT ![p] = k]
      /\ \E n \in 0 .. NQENT : /\ \A j \in 0 .. n - 1 : qkey[seen[j]] >= k
                               /\ ~(qkey[seen[n]] >= k)
                               /\ LinkBetween(p, qprev[seen[n]], seen[n])
  BY <1>3 DEF Insert, InsertGoes, firstid, queuehead
<1>6. PICK n \in 0 .. NQENT : /\ \A j \in 0 .. n - 1 : qkey[seen[j]] >= k
                              /\ ~(qkey[seen[n]] >= k)
                              /\ LinkBetween(p, qprev[seen[n]], seen[n])
  BY <1>5
<1>7. k \in Int /\ k > MINKEY
  BY KeysAssumption DEF MINKEY, MAXKEY
<1>8. n \in 0 .. Len(s)
  <2> SUFFICES ASSUME Len(s) < n PROVE FALSE
    BY <1>2, <1>6, EntriesAre
  <2>1. Len(s) \in 0 .. n - 1 /\ Len(s) \in 0 .. Len(s)
    BY <1>2, EntriesAre
  <2>2. seen[Len(s)] = q + 1
    BY <1>2, <1>4, <2>1, AtIs
  <2>3. qkey[q + 1] >= k
    BY <1>6, <2>1, <2>2
  <2> QED BY <1>2, <1>7, <2>3 DEF MINKEY
<1>9. /\ n + 1 \in 1 .. Len(s) + 1 /\ (n + 1) - 1 = n /\ n \in Nat
      /\ \A j \in 1 .. n : j - 1 \in 0 .. n - 1 /\ j - 1 \in 0 .. Len(s) /\ (j - 1) + 1 = j /\ j \in 1 .. Len(s)
  BY <1>2, <1>8
<1>10. seen[n] = At(q, s, n + 1) /\ qprev[At(q, s, n + 1)] = At(q, s, n)
  BY <1>2, <1>4, <1>8 DEF Linked
<1>11. LinkBetween(p, At(q, s, (n + 1) - 1), At(q, s, n + 1))
  BY <1>6, <1>9, <1>10
<1>12. qkey' \in [Entry -> Int] /\ \A e \in Entry \ Pid : qkey'[e] = qkey[e]
  BY <1>2, <1>5, <1>7, EntriesAre
<1>13. /\ TableInv' /\ ListOf(q)' = InsertAt(s, n + 1, p)
       /\ \A r \in Qid : r # q => ListOf(r)' = ListOf(r)
  BY <1>1, <1>5, <1>9, <1>11, <1>12, Inserted
<1>14. \A j \in 1 .. (n + 1) - 1 : qkey[s[j]] >= k
  <2> SUFFICES ASSUME NEW j \in 1 .. n PROVE qkey[s[j]] >= k
    BY <1>9
  <2>1. seen[j - 1] = At(q, s, j) /\ qkey[seen[j - 1]] >= k
    BY <1>4, <1>6, <1>9
  <2> QED BY <1>2, <1>9, <2>1, AtIs
<1>15. n + 1 <= Len(s) => qkey[s[n + 1]] < k
  <2> SUFFICES ASSUME n + 1 <= Len(s) PROVE qkey[s[n + 1]] < k
    OBVIOUS
  <2>1. n + 1 \in 1 .. Len(s)
    BY <1>9
  <2>2. At(q, s, n + 1) = s[n + 1] /\ s[n + 1] \in Entry
    <3>1. At(q, s, n + 1) = s[n + 1] /\ s[n + 1] \in Pid
      BY <1>2, <2>1, AtIs
    <3> QED BY <3>1, EntriesAre
  <2>3. ~(qkey[s[n + 1]] >= k)
    BY <1>6, <1>10, <2>2
  <2>4. qkey[s[n + 1]] \in Int
    BY <1>2, <2>2
  <2> QED BY <1>7, <2>3, <2>4
<1> QED BY <1>1, <1>5, <1>9, <1>13, <1>14, <1>15

-----------------------------------------------------------------------------
(* Delays.                                                                 *)

LEMMA WalkEntries ==
  ASSUME NEW nx \in Links, NEW start \in Entry
  PROVE  \A n \in 0 .. NQENT : Walk(nx, start)[n] \in Entry
<1> DEFINE G == {n \in Nat : n <= NQENT => Walk(nx, start)[n] \in Entry}
<1>1. 0 \in G
  BY WalkSteps
<1>2. ASSUME NEW n \in Nat, n \in G
      PROVE  n + 1 \in G
  <2> SUFFICES ASSUME n + 1 <= NQENT PROVE Walk(nx, start)[n + 1] \in Entry
    OBVIOUS
  <2>1. n + 1 \in 1 .. NQENT /\ (n + 1) - 1 = n /\ n <= NQENT
    BY EntriesAre
  <2>2. Walk(nx, start)[n + 1] = NextOf(nx)[Walk(nx, start)[n]]
    BY <2>1, WalkSteps
  <2>3. Walk(nx, start)[n] \in Entry
    BY <1>2, <2>1
  <2> QED BY <2>2, <2>3 DEF NextOf, Links
<1> HIDE DEF G
<1>3. \A n \in Nat : n \in G
  BY <1>1, <1>2, SetInduction
<1> QED BY <1>3, EntriesAre DEF G

LEMMA LeftSteps ==
  ASSUME TableInv, NEW seen, \A n \in 0 .. NQENT : seen[n] \in Entry, NEW k \in Int
  PROVE  /\ LeftAfter(seen, k)[0] = k /\ \A n \in 0 .. NPROC : LeftAfter(seen, k)[n] \in Int
         /\ \A n \in 1 .. NPROC : LeftAfter(seen, k)[n] = LeftAfter(seen, k)[n - 1] - qkey[seen[n - 1]]
<1> DEFINE IsLeft(f) == f = [n \in 0 .. NPROC |-> IF n = 0 THEN k ELSE f[n - 1] - qkey[seen[n - 1]]]
           v == [n \in 1 .. NPROC |-> 0 - qkey[seen[n - 1]]]
<1>1. \A n \in 1 .. NPROC : n - 1 \in 0 .. NPROC /\ n \in 0 .. NPROC /\ n # 0 /\ seen[n - 1] \in Entry /\ qkey[seen[n - 1]] \in Int
  <2>1. \A n \in 1 .. NPROC : n - 1 \in 0 .. NPROC /\ n \in 0 .. NPROC /\ n # 0 /\ n - 1 \in 0 .. NQENT
    BY EntriesAre
  <2> QED BY <2>1 DEF TableInv
<1>2. v \in [1 .. NPROC -> Int] /\ \A n \in 1 .. NPROC : v[n] = 0 - qkey[seen[n - 1]]
  BY <1>1
<1> HIDE DEF v
<1>3. PICK f : Sums(f, NPROC, k, v)
  BY <1>2, SumsExist, EntriesAre
<1>4. /\ f \in [0 .. NPROC -> Int] /\ f[0] = k
      /\ \A n \in 1 .. NPROC : f[n] = f[n - 1] - qkey[seen[n - 1]]
  BY <1>1, <1>2, <1>3 DEF Sums
<1>5. IsLeft(f)
  <2>1. \A n \in 0 .. NPROC : n = 0 \/ n \in 1 .. NPROC
    BY EntriesAre
  <2>2. \A n \in 0 .. NPROC : f[n] = IF n = 0 THEN k ELSE f[n - 1] - qkey[seen[n - 1]]
    BY <1>4, <2>1
  <2> QED BY <1>4, <2>2
<1>6. LeftAfter(seen, k) = CHOOSE g : IsLeft(g)
  BY DEF LeftAfter
<1>7. PICK left : left = LeftAfter(seen, k)
  OBVIOUS
<1>8. IsLeft(left)
  BY <1>5, <1>6, <1>7
<1>9. left[0] = k /\ \A n \in 1 .. NPROC : left[n] = left[n - 1] - qkey[seen[n - 1]]
  BY <1>1, <1>8, EntriesAre
<1>10. \A n \in Nat : n \in {m \in Nat : m <= NPROC => left[m] \in Int}
  <2> DEFINE G == {m \in Nat : m <= NPROC => left[m] \in Int}
  <2>1. 0 \in G
    BY <1>9
  <2>2. ASSUME NEW m \in Nat, m \in G
        PROVE  m + 1 \in G
    <3> SUFFICES ASSUME m + 1 <= NPROC PROVE left[m + 1] \in Int
      OBVIOUS
    <3>1. m + 1 \in 1 .. NPROC /\ (m + 1) - 1 = m /\ m <= NPROC
      BY EntriesAre
    <3>2. left[m] \in Int /\ left[m + 1] = left[m] - qkey[seen[m]] /\ qkey[seen[m]] \in Int
      BY <1>1, <1>9, <2>2, <3>1
    <3> QED BY <3>2
  <2> HIDE DEF G
  <2>3. \A n \in Nat : n \in G
    BY <2>1, <2>2, SetInduction
  <2> QED BY <2>3 DEF G
<1>11. \A n \in 0 .. NPROC : left[n] \in Int
  BY <1>10, EntriesAre
<1> QED BY <1>7, <1>9, <1>11

(* The times of a queue's processes, as the specification Queues has them. *)
LEMMA TimeSteps ==
  ASSUME TableInv, NEW q \in Queues
  PROVE  /\ Q!Time(q)[0] = 0 /\ \A n \in 0 .. Len(ListOf(q)) : Q!Time(q)[n] \in Int
         /\ \A n \in 1 .. Len(ListOf(q)) :
              Q!Time(q)[n] = Q!Time(q)[n - 1] + qkey[ListOf(q)[n]]
<1>1. PICK s : s = ListOf(q)
  OBVIOUS
<1>2. q \in Qid /\ s \in Seq(Pid) /\ Len(s) \in Nat /\ qkey \in [Entry -> Int]
  BY <1>1, TableQueues DEF TableInv
<1>3. \A n \in 1 .. Len(s) : /\ n - 1 \in 0 .. Len(s) /\ n \in 0 .. Len(s) /\ n # 0
                             /\ s[n] \in Pid /\ qkey[s[n]] \in Int
  BY <1>2, EntriesAre
<1> DEFINE v == [n \in 1 .. Len(s) |-> qkey[s[n]]]
           list == [r \in Qid |-> ListOf(r)]
           IsTime(f) == f = [n \in 0 .. Len(list[q]) |->
                               IF n = 0 THEN 0 ELSE f[n - 1] + [p \in Pid |-> qkey[p]][list[q][n]]]
<1>4. v \in [1 .. Len(s) -> Int] /\ \A n \in 1 .. Len(s) : v[n] = qkey[s[n]]
  BY <1>3
<1>5. \A n \in 1 .. Len(s) : [p \in Pid |-> qkey[p]][s[n]] = qkey[s[n]]
  BY <1>3
<1> HIDE DEF v
<1>6. PICK f : Sums(f, Len(s), 0, v)
  BY <1>2, <1>4, SumsExist
<1>7. /\ f \in [0 .. Len(s) -> Int] /\ f[0] = 0
      /\ \A n \in 1 .. Len(s) : f[n] = f[n - 1] + qkey[s[n]]
  BY <1>4, <1>6 DEF Sums
<1>8. list[q] = s
  BY <1>1, <1>2
<1>9. IsTime(f)
  <2>1. \A n \in 0 .. Len(s) : n = 0 \/ n \in 1 .. Len(s)
    BY <1>2
  <2>2. \A n \in 0 .. Len(s) :
          f[n] = IF n = 0 THEN 0 ELSE f[n - 1] + [p \in Pid |-> qkey[p]][s[n]]
    BY <1>5, <1>7, <2>1
  <2> HIDE DEF list
  <2> QED BY <1>7, <1>8, <2>2
<1>10. Q!Time(q) = CHOOSE g : IsTime(g)
  BY DEF Q!Time
<1>11. PICK sum : sum = Q!Time(q)
  OBVIOUS
<1>12. IsTime(sum)
  <2> HIDE DEF IsTime
  <2> QED BY <1>9, <1>10, <1>11
<1>13. sum[0] = 0 /\ \A n \in 1 .. Len(s) : sum[n] = sum[n - 1] + qkey[s[n]]
  <2>1. \A n \in 0 .. Len(s) :
          sum[n] = IF n = 0 THEN 0 ELSE sum[n - 1] + [p \in Pid |-> qkey[p]][s[n]]
    <3> HIDE DEF list
    <3> QED BY <1>8, <1>12
  <2>2. 0 \in 0 .. Len(s)
    BY <1>2
  <2> QED BY <1>3, <1>5, <2>1, <2>2
<1>14. \A n \in Nat : n \in {m \in Nat : m <= Len(s) => sum[m] \in Int}
  <2> DEFINE G == {m \in Nat : m <= Len(s) => sum[m] \in Int}
  <2>1. 0 \in G
    BY <1>13
  <2>2. ASSUME NEW m \in Nat, m \in G
        PROVE  m + 1 \in G
    <3> SUFFICES ASSUME m + 1 <= Len(s) PROVE sum[m + 1] \in Int
      OBVIOUS
    <3>1. m + 1 \in 1 .. Len(s) /\ (m + 1) - 1 = m /\ m <= Len(s)
      BY <1>2
    <3>2. sum[m] \in Int /\ sum[m + 1] = sum[m] + qkey[s[m + 1]] /\ qkey[s[m + 1]] \in Int
      BY <1>3, <1>13, <2>2, <3>1
    <3> QED BY <3>2
  <2> HIDE DEF G
  <2>3. \A n \in Nat : n \in G
    BY <2>1, <2>2, SetInduction
  <2> QED BY <2>3 DEF G
<1>15. \A n \in 0 .. Len(s) : sum[n] \in Int
  BY <1>2, <1>14
<1> QED BY <1>1, <1>11, <1>13, <1>15

(* insertd() stops in the queue, and what is left of the key after n steps *)
(* is what the n-th time leaves.                                           *)
LEMMA InsertDLinks ==
  ASSUME TableInv, NEW q \in Queues, NEW p \in Pid, p \notin Listed, NEW k \in Keys, InsertD(p, q, k)
  PROVE  /\ TableInv' /\ \A r \in Qid : r # q => ListOf(r)' = ListOf(r)
         /\ \E i \in 1 .. Len(ListOf(q)) + 1 :
              /\ \A j \in 1 .. i - 1 : Q!Time(q)[j] <= k
              /\ i <= Len(ListOf(q)) => Q!Time(q)[i] > k
              /\ ListOf(q)' = InsertAt(ListOf(q), i, p)
              /\ \A e \in Pid :
                   qkey'[e] = IF e = p THEN k - Q!Time(q)[i - 1]
                              ELSE IF i <= Len(ListOf(q)) /\ e = ListOf(q)[i]
                                   THEN qkey[e] - (k - Q!Time(q)[i - 1])
                              ELSE qkey[e]
<1>1. PICK s, time : s = ListOf(q) /\ time = Q!Time(q)
  OBVIOUS
<1>2. /\ q \in Qid /\ Linked(q, s, qnext, qprev) /\ s \in Seq(Pid) /\ Len(s) \in Nat
      /\ qnext \in Links /\ qprev \in Links /\ qkey \in [Entry -> Int]
      /\ Len(s) <= NPROC /\ Len(s) < NQENT
  BY <1>1, TableQueues, LinkedLength, EntriesAre DEF TableInv
<1>3. PICK seen : seen = Walk(qnext, qnext[q])
  OBVIOUS
<1>4. qnext[q] \in Entry /\ \A n \in 0 .. Len(s) : seen[n] = At(q, s, n + 1)
  BY <1>2, <1>3, LinkedSpells
<1>5. k \in Int
  BY KeysAssumption DEF MINKEY, MAXKEY
<1>6. PICK left : left = LeftAfter(seen, k)
  OBVIOUS
<1>7. /\ left[0] = k /\ \A n \in 0 .. NPROC : left[n] \in Int
      /\ \A n \in 1 .. NPROC : left[n] = left[n - 1] - qkey[seen[n - 1]]
  <2>1. \A n \in 0 .. NQENT : seen[n] \in Entry
    BY <1>2, <1>3, <1>4, WalkEntries
  <2> QED BY <1>5, <1>6, <2>1, LeftSteps
<1>8. /\ time[0] = 0 /\ \A n \in 0 .. Len(s) : time[n] \in Int
      /\ \A n \in 1 .. Len(s) : time[n] = time[n - 1] + qkey[s[n]]
  BY <1>1, TimeSteps
<1>9. \A n \in 1 .. Len(s) : seen[n - 1] = s[n] /\ s[n] \in Pid /\ qkey[s[n]] \in Int
  <2> TAKE n \in 1 .. Len(s)
  <2>1. n - 1 \in 0 .. Len(s) /\ (n - 1) + 1 = n
    BY <1>2
  <2>2. seen[n - 1] = At(q, s, n)
    BY <1>4, <2>1
  <2>3. At(q, s, n) = s[n] /\ s[n] \in Pid
    BY <1>2, AtIs
  <2>4. s[n] \in Entry
    BY <2>3, EntriesAre
  <2> QED BY <1>2, <2>2, <2>3, <2>4
<1>10. \A n \in Nat : n \in {m \in Nat : m <= Len(s) => left[m] = k - time[m]}
  <2> DEFINE G == {m \in Nat : m <= Len(s) => left[m] = k - time[m]}
  <2>1. 0 \in G
    BY <1>5, <1>7, <1>8
  <2>2. ASSUME NEW m \in Nat, m \in G
        PROVE  m + 1 \in G
    <3> SUFFICES ASSUME m + 1 <= Len(s) PROVE left[m + 1] = k - time[m + 1]
      OBVIOUS
    <3>1. /\ m + 1 \in 1 .. NPROC /\ m + 1 \in 1 .. Len(s) /\ (m + 1) - 1 = m
          /\ m <= Len(s) /\ m \in 0 .. Len(s)
      BY <1>2, EntriesAre
    <3>2. left[m] = k - time[m]
      BY <2>2, <3>1
    <3>3. left[m + 1] = left[m] - qkey[s[m + 1]]
      BY <1>7, <1>9, <3>1
    <3>4. time[m + 1] = time[m] + qkey[s[m + 1]] /\ time[m] \in Int /\ qkey[s[m + 1]] \in Int
      BY <1>8, <1>9, <3>1
    <3> QED BY <1>5, <3>2, <3>3, <3>4
  <2> HIDE DEF G
  <2>3. \A n \in Nat : n \in G
    BY <2>1, <2>2, SetInduction
  <2> QED BY <2>3 DEF G
<1>11. \A n \in 0 .. Len(s) : left[n] = k - time[n]
  BY <1>2, <1>10
<1>12. /\ UNCHANGED nextqid
       /\ \E n \in 0 .. NPROC :
            /\ \A j \in 0 .. n - 1 : seen[j] # q + 1 /\ qkey[seen[j]] <= left[j]
            /\ ~(seen[n] # q + 1 /\ qkey[seen[n]] <= left[n])
            /\ LinkBetween(p, IF n = 0 THEN q ELSE seen[n - 1], seen[n])
            /\ qkey' = IF seen[n] = q + 1 THEN [qkey EXCEPT ![p] = left[n]]
                       ELSE [qkey EXCEPT ![p] = left[n], ![seen[n]] = @ - left[n]]
  BY <1>3, <1>6 DEF InsertD, InsertDGoes, firstid, queuehead, queuetail
<1>13. PICK n \in 0 .. NPROC :
         /\ \A j \in 0 .. n - 1 : seen[j] # q + 1 /\ qkey[seen[j]] <= left[j]
         /\ ~(seen[n] # q + 1 /\ qkey[seen[n]] <= left[n])
         /\ LinkBetween(p, IF n = 0 THEN q ELSE seen[n - 1], seen[n])
         /\ qkey' = IF seen[n] = q + 1 THEN [qkey EXCEPT ![p] = left[n]]
                    ELSE [qkey EXCEPT ![p] = left[n], ![seen[n]] = @ - left[n]]
  BY <1>12
<1>14. n \in 0 .. Len(s)
  <2> SUFFICES ASSUME Len(s) < n PROVE FALSE
    BY <1>2, <1>13, EntriesAre
  <2>1. Len(s) \in 0 .. n - 1 /\ Len(s) \in 0 .. Len(s)
    BY <1>2, EntriesAre
  <2>2. seen[Len(s)] = q + 1
    BY <1>2, <1>4, <2>1, AtIs
  <2> QED BY <1>13, <2>1, <2>2
<1>15. /\ n + 1 \in 1 .. Len(s) + 1 /\ (n + 1) - 1 = n /\ n \in Nat /\ n \in 0 .. NPROC
       /\ \A j \in 1 .. n : j - 1 \in 0 .. n - 1 /\ j - 1 \in 0 .. Len(s) /\ j \in 1 .. Len(s) /\ j \in 0 .. Len(s)
  BY <1>2, <1>14
<1>16. seen[n] = At(q, s, n + 1) /\ (IF n = 0 THEN q ELSE seen[n - 1]) = At(q, s, n)
  <2>1. seen[n] = At(q, s, n + 1)
    BY <1>4, <1>14
  <2>2. CASE n = 0
    BY <1>2, <2>1, <2>2, AtIs
  <2>3. CASE n # 0
    <3>1. n - 1 \in 0 .. Len(s) /\ (n - 1) + 1 = n
      BY <1>2, <1>14, <2>3
    <3> QED BY <1>4, <2>1, <2>3, <3>1
  <2> QED BY <2>2, <2>3
<1>17. LinkBetween(p, At(q, s, (n + 1) - 1), At(q, s, n + 1))
  BY <1>13, <1>15, <1>16
<1>18. left[n] = k - time[n] /\ left[n] \in Int
  BY <1>7, <1>11, <1>14, <1>15
<1>19. CASE n = Len(s)
  <2>1. seen[n] = q + 1 /\ qkey' = [qkey EXCEPT ![p] = left[n]]
    BY <1>2, <1>13, <1>16, <1>19, AtIs
  <2>2. qkey' \in [Entry -> Int] /\ \A e \in Entry \ Pid : qkey'[e] = qkey[e]
    BY <1>2, <1>18, <2>1, EntriesAre
  <2>3. /\ TableInv' /\ ListOf(q)' = InsertAt(s, n + 1, p)
        /\ \A r \in Qid : r # q => ListOf(r)' = ListOf(r)
    BY <1>1, <1>12, <1>15, <1>17, <2>2, Inserted
  <2>4. \A j \in 1 .. (n + 1) - 1 : time[j] <= k
    <3> SUFFICES ASSUME NEW j \in 1 .. n PROVE time[j] <= k
      BY <1>15
    <3>1. qkey[s[j]] <= left[j - 1] /\ left[j - 1] = k - time[j - 1]
      BY <1>9, <1>11, <1>13, <1>15
    <3>2. time[j] = time[j - 1] + qkey[s[j]] /\ time[j - 1] \in Int /\ qkey[s[j]] \in Int
      BY <1>8, <1>9, <1>15
    <3> QED BY <1>5, <3>1, <3>2
  <2>5. ~(n + 1 <= Len(s))
    BY <1>2, <1>19
  <2>6. \A e \in Pid : qkey'[e] = IF e = p THEN k - time[(n + 1) - 1] ELSE qkey[e]
    BY <1>2, <1>15, <1>18, <2>1, EntriesAre
  <2> QED BY <1>1, <1>15, <2>3, <2>4, <2>5, <2>6
<1>20. CASE n # Len(s)
  <2>1. n + 1 \in 1 .. Len(s) /\ n + 1 <= Len(s)
    BY <1>2, <1>14, <1>20
  <2>2. seen[n] = s[n + 1] /\ s[n + 1] \in Pid /\ s[n + 1] # q + 1 /\ qkey[s[n + 1]] \in Int
    BY <1>2, <1>9, <1>16, <2>1, AtIs, QidIs
  <2>3. /\ qkey' = [qkey EXCEPT ![p] = left[n], ![s[n + 1]] = @ - left[n]]
        /\ qkey[s[n + 1]] > left[n]
    BY <1>13, <1>18, <2>2
  <2>4. s[n + 1] # p
    <3>1. \A r \in Queues : p \notin ToSet(ListOf(r))
      BY ListOfIs DEF Listed
    <3> QED BY <1>1, <2>1, <3>1 DEF ToSet
  <2>5. qkey' \in [Entry -> Int] /\ \A e \in Entry \ Pid : qkey'[e] = qkey[e]
    <3>1. p \in Entry /\ s[n + 1] \in Entry /\ qkey[s[n + 1]] - left[n] \in Int
      BY <1>18, <2>2, EntriesAre
    <3> QED BY <1>2, <1>18, <2>2, <2>3, <2>4, <3>1
  <2>6. /\ TableInv' /\ ListOf(q)' = InsertAt(s, n + 1, p)
        /\ \A r \in Qid : r # q => ListOf(r)' = ListOf(r)
    BY <1>1, <1>12, <1>15, <1>17, <2>5, Inserted
  <2>7. \A j \in 1 .. (n + 1) - 1 : time[j] <= k
    <3> SUFFICES ASSUME NEW j \in 1 .. n PROVE time[j] <= k
      BY <1>15
    <3>1. qkey[s[j]] <= left[j - 1] /\ left[j - 1] = k - time[j - 1]
      BY <1>9, <1>11, <1>13, <1>15
    <3>2. time[j] = time[j - 1] + qkey[s[j]] /\ time[j - 1] \in Int /\ qkey[s[j]] \in Int
      BY <1>8, <1>9, <1>15
    <3> QED BY <1>5, <3>1, <3>2
  <2>8. time[n + 1] > k
    <3>1. time[n + 1] = time[n] + qkey[s[n + 1]] /\ time[n] \in Int
      BY <1>8, <1>14, <1>15, <2>1
    <3> QED BY <1>5, <1>18, <2>2, <2>3, <3>1
  <2>9. \A e \in Pid :
          qkey'[e] = IF e = p THEN k - time[(n + 1) - 1]
                     ELSE IF n + 1 <= Len(s) /\ e = s[n + 1] THEN qkey[e] - (k - time[(n + 1) - 1])
                     ELSE qkey[e]
    BY <1>2, <1>15, <1>18, <2>1, <2>2, <2>3, <2>4, EntriesAre
  <2> QED BY <1>1, <1>15, <2>6, <2>7, <2>8, <2>9
<1> QED BY <1>19, <1>20

-----------------------------------------------------------------------------
(* A process taken off the queue it is on.                                 *)
Took(p) ==
  \E q \in Qid : \E i \in 1 .. Len(ListOf(q)) :
    /\ ListOf(q)[i] = p /\ ListOf(q)' = RemoveAt(ListOf(q), i)
    /\ \A r \in Qid : r # q => ListOf(r)' = ListOf(r)

LEMMA Places ==
  ASSUME TableInv, NEW q \in Queues, NEW k \in 1 .. Len(ListOf(q))
  PROVE  /\ ListOf(q)[k] = At(q, ListOf(q), k) /\ ListOf(q)[k] \in Pid
         /\ qnext[ListOf(q)[k]] = At(q, ListOf(q), k + 1) /\ qprev[ListOf(q)[k]] = At(q, ListOf(q), k - 1)
         /\ At(q, ListOf(q), k + 1) \in Entry /\ At(q, ListOf(q), k - 1) \in Entry
<1>1. PICK s : s = ListOf(q)
  OBVIOUS
<1>2. q \in Qid /\ Linked(q, s, qnext, qprev) /\ s \in Seq(Pid) /\ Len(s) \in Nat
  BY <1>1, TableQueues
<1>3. /\ k \in 0 .. Len(s) /\ k - 1 \in 0 .. Len(s) /\ (k - 1) + 1 = k /\ k \in 1 .. Len(s)
      /\ k + 1 \in 0 .. Len(s) + 1 /\ k - 1 \in 0 .. Len(s) + 1
  BY <1>1, <1>2
<1>4. qnext[At(q, s, k)] = At(q, s, k + 1) /\ qprev[At(q, s, k)] = At(q, s, k - 1)
  BY <1>2, <1>3 DEF Linked
<1> QED BY <1>1, <1>2, <1>3, <1>4, AtIs

LEMMA GetItemTakes ==
  ASSUME TableInv, NEW p \in Listed, GetItem(p)
  PROVE  TableInv' /\ Took(p) /\ UNCHANGED qkey
<1>1. PICK q \in Qid : p \in ToSet(ListOf(q))
  BY DEF Listed
<1>2. q \in Queues
  <2>1. ToSet(<< >>) = {}
    BY DEF ToSet
  <2> QED BY <1>1, <2>1, ListOfIs
<1>3. PICK k \in 1 .. Len(ListOf(q)) : ListOf(q)[k] = p
  BY <1>1 DEF ToSet
<1>4. PICK s : s = ListOf(q)
  OBVIOUS
<1>5. /\ qnext[p] = At(q, s, k + 1) /\ qprev[p] = At(q, s, k - 1) /\ p \in Pid
      /\ At(q, s, k + 1) \in Entry /\ At(q, s, k - 1) \in Entry
  BY <1>2, <1>3, <1>4, Places
<1>6. qnext \in Links /\ qprev \in Links
  BY DEF TableInv
<1>7. /\ qnext' = [qnext EXCEPT ![At(q, s, k - 1)] = At(q, s, k + 1)]
      /\ qprev' = [qprev EXCEPT ![At(q, s, k + 1)] = At(q, s, k - 1)]
      /\ UNCHANGED <<qkey, nextqid>>
  BY <1>5 DEF GetItem
<1>8. qnext' \in Links /\ qprev' \in Links /\ Unlinked(q, s, k)
  BY <1>5, <1>6, <1>7 DEF Links, Unlinked
<1>9. /\ TableInv' /\ ListOf(q)' = RemoveAt(ListOf(q), k)
      /\ \A r \in Qid : r # q => ListOf(r)' = ListOf(r)
  BY <1>2, <1>3, <1>4, <1>7, <1>8, Removed
<1> QED BY <1>1, <1>3, <1>7, <1>9 DEF Took

LEMMA DequeueTakes ==
  ASSUME TableInv, NEW q \in Queues, Dequeue(q)
  PROVE  TableInv' /\ (\E p \in Pid : Took(p)) /\ UNCHANGED qkey
<1>1. PICK s, p : s = ListOf(q) /\ p = qnext[q]
  OBVIOUS
<1>2. q \in Qid /\ Linked(q, s, qnext, qprev) /\ s \in Seq(Pid) /\ Len(s) \in Nat
  BY <1>1, TableQueues
<1>3. p = At(q, s, 1)
  <2>1. 0 \in 0 .. Len(s) /\ 0 + 1 = 1
    BY <1>2
  <2> QED BY <1>1, <1>2, <2>1, AtIs DEF Linked
<1>4. ~(p >= NPROC)
  BY <1>1 DEF Dequeue, isempty, firstid, queuehead
<1>5. 1 \in 1 .. Len(s)
  <2> SUFFICES ASSUME Len(s) = 0 PROVE FALSE
    BY <1>2
  <2>1. p = q + 1
    <3>1. At(q, s, 1) = At(q, s, Len(s) + 1)
      OBVIOUS
    <3> QED BY <1>2, <1>3, <3>1, AtIs
  <2> QED BY <1>2, <1>4, <2>1, QidIs, EntriesAre
<1>6. /\ s[1] = p /\ qnext[p] = At(q, s, 1 + 1) /\ qprev[p] = At(q, s, 1 - 1) /\ p \in Pid
      /\ At(q, s, 1 + 1) \in Entry /\ At(q, s, 1 - 1) \in Entry
  BY <1>1, <1>3, <1>5, Places
<1>7. qnext \in Links /\ qprev \in Links
  BY DEF TableInv
<1>8. /\ qnext' = [qnext EXCEPT ![At(q, s, 1 - 1)] = At(q, s, 1 + 1), ![p] = EMPTY]
      /\ qprev' = [qprev EXCEPT ![At(q, s, 1 + 1)] = At(q, s, 1 - 1), ![p] = EMPTY]
      /\ UNCHANGED <<qkey, nextqid>>
  BY <1>1, <1>6 DEF Dequeue, firstid, queuehead
<1>9. qnext' \in Links /\ qprev' \in Links /\ Unlinked(q, s, 1)
  BY <1>6, <1>7, <1>8, EntriesAre DEF Links, Unlinked
<1>10. /\ TableInv' /\ ListOf(q)' = RemoveAt(ListOf(q), 1)
       /\ \A r \in Qid : r # q => ListOf(r)' = ListOf(r)
  BY <1>1, <1>5, <1>8, <1>9, Removed
<1> QED BY <1>1, <1>2, <1>5, <1>6, <1>8, <1>10 DEF Took

LEMMA GetLastTakes ==
  ASSUME TableInv, NEW q \in Queues, GetLast(q)
  PROVE  TableInv' /\ (\E p \in Pid : Took(p)) /\ UNCHANGED qkey
<1>1. PICK s : s = ListOf(q)
  OBVIOUS
<1>2. q \in Qid /\ Linked(q, s, qnext, qprev) /\ s \in Seq(Pid) /\ Len(s) \in Nat
  BY <1>1, TableQueues
<1>3. Len(s) \in 1 .. Len(s)
  <2> SUFFICES ASSUME Len(s) = 0 PROVE FALSE
    BY <1>2
  <2>1. 0 \in 0 .. Len(s) /\ 0 + 1 = Len(s) + 1
    BY <1>2
  <2>2. At(q, s, 0) = q /\ At(q, s, 0 + 1) = q + 1
    BY <1>2, <2>1, AtIs
  <2>3. qnext[q] = q + 1
    BY <1>2, <2>1, <2>2 DEF Linked
  <2> QED BY <1>2, <2>3, QidIs, EntriesAre DEF GetLast, isempty, firstid, queuehead
<1>4. Len(s) \in 0 .. Len(s)
  BY <1>2
<1>5. lastid(q) = s[Len(s)] /\ s[Len(s)] \in Pid
  <2>1. qprev[q + 1] = At(q, s, Len(s))
    BY <1>2, <1>4, AtIs DEF Linked
  <2> QED BY <1>2, <1>3, <2>1, AtIs DEF lastid, queuetail
<1>6. lastid(q) \in Listed
  BY <1>1, <1>2, <1>3, <1>5 DEF Listed, ToSet
<1>7. TableInv' /\ Took(lastid(q)) /\ UNCHANGED qkey
  BY <1>6, GetItemTakes DEF GetLast
<1> QED BY <1>5, <1>7

-----------------------------------------------------------------------------
(* The table and the sequences.                                            *)

LEMMA LinkedAt ==
  ASSUME NEW q \in Qid, NEW p, NEW i, ListOf(q)' = InsertAt(ListOf(q), i, p),
         \A r \in Qid : r # q => ListOf(r)' = ListOf(r)
  PROVE  Q!LinkAt(q, i, p)
<1> DEFINE list == [r \in Qid |-> ListOf(r)]
           list1 == [r \in Qid |-> ListOf(r)']
<1>1. list1 = [list EXCEPT ![q] = InsertAt(list[q], i, p)]
  OBVIOUS
<1>2. Q!InsertAt(list[q], i, p) = InsertAt(list[q], i, p)
  BY DEF Q!InsertAt, InsertAt
<1> QED BY <1>1, <1>2 DEF Q!LinkAt

LEMMA SameListed ==
  /\ Q!Listed = Listed
  /\ \A q \in Queues : ListOf(q) = [r \in Qid |-> ListOf(r)][q]
<1>1. \A q \in Qid : [r \in Qid |-> ListOf(r)][q] = ListOf(q)
  OBVIOUS
<1>2. \A q \in Qid : Q!ToSet(ListOf(q)) = ToSet(ListOf(q))
  BY DEF Q!ToSet, ToSet
<1>3. Q!Listed = Listed
  BY <1>1, <1>2 DEF Q!Listed, Listed
<1> QED BY <1>1, <1>3, ListOfIs

LEMMA SameKeys ==
  ASSUME TableInv, NEW p \in Pid
  PROVE  [r \in Pid |-> qkey[r]][p] = qkey[p] /\ qkey[p] \in Int
BY EntriesAre DEF TableInv

LEMMA SpellsEnqueue ==
  ASSUME TableInv, NEW q \in Queues, NEW p \in Pid, p \notin Listed, Enqueue(p, q)
  PROVE  TableInv' /\ Q!Enqueue(p, q)
<1>1. /\ TableInv' /\ ListOf(q)' = InsertAt(ListOf(q), Len(ListOf(q)) + 1, p)
      /\ \A r \in Qid : r # q => ListOf(r)' = ListOf(r)
      /\ UNCHANGED qkey
  BY EnqueueLinks
<1>2. Q!LinkAt(q, Len(ListOf(q)) + 1, p) /\ q \in Qid
  BY <1>1, ListOfIs, LinkedAt
<1>3. [r \in Pid |-> qkey'[r]] = [r \in Pid |-> qkey[r]]
  BY <1>1
<1> QED BY <1>1, <1>2, <1>3, SameListed DEF Q!Enqueue

LEMMA SpellsInsert ==
  ASSUME TableInv, NEW q \in Queues, NEW p \in Pid, p \notin Listed, NEW k \in Keys, Insert(p, q, k)
  PROVE  TableInv' /\ Q!Insert(p, q, k)
<1>1. /\ TableInv' /\ \A r \in Qid : r # q => ListOf(r)' = ListOf(r)
      /\ qkey' = [qkey EXCEPT ![p] = k]
      /\ \E i \in 1 .. Len(ListOf(q)) + 1 :
           /\ \A j \in 1 .. i - 1 : qkey[ListOf(q)[j]] >= k
           /\ i <= Len(ListOf(q)) => qkey[ListOf(q)[i]] < k
           /\ ListOf(q)' = InsertAt(ListOf(q), i, p)
  BY InsertLinks
<1>2. PICK i \in 1 .. Len(ListOf(q)) + 1 :
        /\ \A j \in 1 .. i - 1 : qkey[ListOf(q)[j]] >= k
        /\ i <= Len(ListOf(q)) => qkey[ListOf(q)[i]] < k
        /\ ListOf(q)' = InsertAt(ListOf(q), i, p)
  BY <1>1
<1> DEFINE list == [r \in Qid |-> ListOf(r)]
           keys == [r \in Pid |-> qkey[r]]
<1>3. q \in Qid /\ list[q] = ListOf(q) /\ Q!LinkAt(q, i, p)
  BY <1>1, <1>2, ListOfIs, LinkedAt
<1>4. \A j \in 1 .. Len(ListOf(q)) : ListOf(q)[j] \in Pid /\ keys[ListOf(q)[j]] = qkey[ListOf(q)[j]]
  BY TableQueues, SameKeys
<1>5. [r \in Pid |-> qkey'[r]] = [keys EXCEPT ![p] = k]
  <2>1. qkey \in [Entry -> Int]
    BY DEF TableInv
  <2> QED BY <1>1, <2>1, EntriesAre
<1> HIDE DEF keys
<1>6. \A j \in 1 .. i - 1 : keys[list[q][j]] >= k
  <2>1. \A j \in 1 .. i - 1 : j \in 1 .. Len(ListOf(q))
    BY TableQueues
  <2> QED BY <1>2, <1>3, <1>4, <2>1
<1>7. i <= Len(list[q]) => keys[list[q][i]] < k
  BY <1>2, <1>3, <1>4
<1>8. i \in 1 .. Len(list[q]) + 1
  BY <1>2, <1>3
<1> HIDE DEF list
<1>9. \E i1 \in 1 .. Len(list[q]) + 1 :
        /\ \A j \in 1 .. i1 - 1 : keys[list[q][j]] >= k
        /\ i1 <= Len(list[q]) => keys[list[q][i1]] < k
        /\ Q!LinkAt(q, i1, p)
  BY <1>3, <1>6, <1>7, <1>8
<1> QED BY <1>1, <1>5, <1>9, SameListed DEF Q!Insert, list, keys

LEMMA SpellsInsertD ==
  ASSUME TableInv, NEW q \in Queues, NEW p \in Pid, p \notin Listed, NEW k \in Keys, InsertD(p, q, k)
  PROVE  TableInv' /\ Q!InsertD(p, q, k)
<1>1. /\ TableInv' /\ \A r \in Qid : r # q => ListOf(r)' = ListOf(r)
      /\ \E i \in 1 .. Len(ListOf(q)) + 1 :
           /\ \A j \in 1 .. i - 1 : Q!Time(q)[j] <= k
           /\ i <= Len(ListOf(q)) => Q!Time(q)[i] > k
           /\ ListOf(q)' = InsertAt(ListOf(q), i, p)
           /\ \A e \in Pid :
                qkey'[e] = IF e = p THEN k - Q!Time(q)[i - 1]
                           ELSE IF i <= Len(ListOf(q)) /\ e = ListOf(q)[i]
                                THEN qkey[e] - (k - Q!Time(q)[i - 1])
                           ELSE qkey[e]
  BY InsertDLinks
<1>2. PICK i \in 1 .. Len(ListOf(q)) + 1 :
        /\ \A j \in 1 .. i - 1 : Q!Time(q)[j] <= k
        /\ i <= Len(ListOf(q)) => Q!Time(q)[i] > k
        /\ ListOf(q)' = InsertAt(ListOf(q), i, p)
        /\ \A e \in Pid :
             qkey'[e] = IF e = p THEN k - Q!Time(q)[i - 1]
                        ELSE IF i <= Len(ListOf(q)) /\ e = ListOf(q)[i]
                             THEN qkey[e] - (k - Q!Time(q)[i - 1])
                        ELSE qkey[e]
  BY <1>1
<1> DEFINE list == [r \in Qid |-> ListOf(r)]
           keys == [r \in Pid |-> qkey[r]]
<1>3. q \in Qid /\ list[q] = ListOf(q) /\ Q!LinkAt(q, i, p)
  BY <1>1, <1>2, ListOfIs, LinkedAt
<1>4. \A e \in Pid : keys[e] = qkey[e]
  OBVIOUS
<1> HIDE DEF keys, list
<1>5. [r \in Pid |-> qkey'[r]] =
        [r \in Pid |-> IF r = p THEN k - Q!Time(q)[i - 1]
                       ELSE IF i <= Len(list[q]) /\ r = list[q][i] THEN keys[r] - (k - Q!Time(q)[i - 1])
                       ELSE keys[r]]
  BY <1>2, <1>3, <1>4
<1>6. \E i1 \in 1 .. Len(list[q]) + 1 :
        /\ \A j \in 1 .. i1 - 1 : Q!Time(q)[j] <= k
        /\ i1 <= Len(list[q]) => Q!Time(q)[i1] > k
        /\ Q!LinkAt(q, i1, p)
        /\ [r \in Pid |-> qkey'[r]] =
             [r \in Pid |-> IF r = p THEN k - Q!Time(q)[i1 - 1]
                            ELSE IF i1 <= Len(list[q]) /\ r = list[q][i1]
                                 THEN keys[r] - (k - Q!Time(q)[i1 - 1])
                            ELSE keys[r]]
  BY <1>2, <1>3, <1>5
<1> QED BY <1>1, <1>6, SameListed DEF Q!InsertD, list, keys

LEMMA SpellsTakeOff ==
  ASSUME NEW p \in Pid, Took(p), UNCHANGED qkey
  PROVE  Q!TakeOff(p)
<1>1. PICK q \in Qid : \E i \in 1 .. Len(ListOf(q)) :
        /\ ListOf(q)[i] = p /\ ListOf(q)' = RemoveAt(ListOf(q), i)
        /\ \A r \in Qid : r # q => ListOf(r)' = ListOf(r)
  BY DEF Took
<1>2. PICK i \in 1 .. Len(ListOf(q)) :
        /\ ListOf(q)[i] = p /\ ListOf(q)' = RemoveAt(ListOf(q), i)
        /\ \A r \in Qid : r # q => ListOf(r)' = ListOf(r)
  BY <1>1
<1> DEFINE list == [r \in Qid |-> ListOf(r)]
           list1 == [r \in Qid |-> ListOf(r)']
<1>3. list1 = [list EXCEPT ![q] = RemoveAt(list[q], i)] /\ list[q] = ListOf(q)
  BY <1>2
<1>4. i \in 1 .. Len(list[q]) /\ list[q][i] = p
  BY <1>2, <1>3
<1>5. [r \in Pid |-> qkey'[r]] = [r \in Pid |-> qkey[r]]
  OBVIOUS
<1>6. Q!RemoveAt(list[q], i) = RemoveAt(list[q], i)
  BY DEF Q!RemoveAt, RemoveAt
<1>7. list1 = [list EXCEPT ![q] = Q!RemoveAt(list[q], i)]
  BY <1>3, <1>6
<1>8. \E j \in 1 .. Len(list[q]) :
        list[q][j] = p /\ list1 = [list EXCEPT ![q] = Q!RemoveAt(list[q], j)]
  BY <1>4, <1>7
<1> QED BY <1>5, <1>8 DEF Q!TakeOff

-----------------------------------------------------------------------------
LEMMA LinksStep ==
  ASSUME TableInv, LinksNext
  PROVE  TableInv' /\ (Q!Next \/ UNCHANGED <<[q \in Qid |-> ListOf(q)], [p \in Pid |-> qkey[p]]>>)
<1>1. CASE NewQueue
  <2>1. [q \in Qid |-> ListOf(q)'] = [q \in Qid |-> ListOf(q)]
    BY <1>1, NewQueueMakes
  <2>2. [p \in Pid |-> qkey'[p]] = [p \in Pid |-> qkey[p]]
    BY <1>1, NewQueueMakes
  <2> QED BY <1>1, <2>1, <2>2, NewQueueMakes
<1>2. ASSUME NEW p \in Pid \ Listed, NEW q \in Queues \ (Sorted \cup Delta), Enqueue(p, q)
      PROVE  TableInv' /\ Q!Next
  BY <1>2, SpellsEnqueue, ListOfIs DEF Q!Next
<1>3. ASSUME NEW p \in Pid \ Listed, NEW q \in Queues \cap Sorted, NEW k \in Keys, Insert(p, q, k)
      PROVE  TableInv' /\ Q!Next
  BY <1>3, SpellsInsert, ListOfIs DEF Q!Next
<1>4. ASSUME NEW p \in Pid \ Listed, NEW q \in Queues \cap Delta, NEW k \in Keys, InsertD(p, q, k)
      PROVE  TableInv' /\ Q!Next
  BY <1>4, SpellsInsertD, ListOfIs DEF Q!Next
<1>5. ASSUME NEW p \in Listed, GetItem(p)
      PROVE  TableInv' /\ Q!Next
  <2>1. TableInv' /\ Took(p) /\ UNCHANGED qkey /\ p \in Pid
    <3>1. PICK q \in Qid : p \in ToSet(ListOf(q))
      BY DEF Listed
    <3>2. q \in Queues
      <4>1. ToSet(<< >>) = {}
        BY DEF ToSet
      <4> QED BY <3>1, <4>1, ListOfIs
    <3>3. p \in Pid
      BY <3>1, <3>2, TableQueues, Elements
    <3> QED BY <1>5, <3>3, GetItemTakes
  <2> QED BY <2>1, SpellsTakeOff DEF Q!Next
<1>6. ASSUME NEW q \in Queues, Dequeue(q) \/ GetLast(q)
      PROVE  TableInv' /\ Q!Next
  <2>1. TableInv' /\ (\E p \in Pid : Took(p)) /\ UNCHANGED qkey
    BY <1>6, DequeueTakes, GetLastTakes
  <2> QED BY <2>1, SpellsTakeOff DEF Q!Next
<1> QED BY <1>1, <1>2, <1>3, <1>4, <1>5, <1>6 DEF LinksNext

LEMMA LinksStutter ==
  ASSUME TableInv, UNCHANGED linkvars
  PROVE  TableInv' /\ UNCHANGED <<[q \in Qid |-> ListOf(q)], [p \in Pid |-> qkey[p]]>>
<1>1. qnext' = qnext /\ qprev' = qprev /\ qkey' = qkey /\ nextqid' = nextqid
  BY DEF linkvars
<1>2. Queues' = Queues
  BY <1>1 DEF Queues
<1>3. \A q \in Qid : ListOf(q)' = ListOf(q)
  BY <1>1, <1>2, ListOfIs, NewListOfIs
<1>4. [q \in Qid |-> ListOf(q)'] = [q \in Qid |-> ListOf(q)]
  BY <1>3
<1>5. TableInv'
  <2>1. \A q \in Queues : /\ Linked(q, ListOf(q)', qnext', qprev')
                          /\ qkey'[q] = MAXKEY /\ qkey'[q + 1] = MINKEY
    BY <1>1, <1>3, ListOfIs DEF TableInv
  <2>2. \A q, r \in Queues : q # r => ToSet(ListOf(q)') \cap ToSet(ListOf(r)') = {}
    BY <1>3, ListOfIs DEF TableInv
  <2> QED BY <1>1, <1>2, <2>1, <2>2 DEF TableInv, Linked, ToSet
<1> QED BY <1>1, <1>4, <1>5

(* Every queue is a chain of different processes, linked in both           *)
(* directions between its head and its tail, and no process is on two.     *)
LEMMA TableInvariant == LinksSpec => []TableInv
<1>1. LinksInit => TableInv
  BY TableInit
<1>2. TableInv /\ [LinksNext]_linkvars => TableInv'
  BY LinksStep, LinksStutter
<1> QED BY <1>1, <1>2, PTL DEF LinksSpec

(* newqueue() to getlast() keep both directions of every queue of          *)
(* queuetab in agreement, and the limits in the keys of its ends.          *)
THEOREM LinksKept == LinksSpec => []LinksAgree
<1>1. ASSUME TableInv PROVE LinksAgree
  <2> SUFFICES ASSUME NEW q \in Queues
               PROVE  /\ Walk(qnext, q)[Len(ListOf(q)) + 1] = q + 1
                      /\ Walk(qprev, q + 1)[Len(ListOf(q)) + 1] = q
                      /\ Spelled(Walk(qprev, qprev[q + 1])) = Reverse(ListOf(q))
                      /\ qkey[q] = MAXKEY /\ qkey[q + 1] = MINKEY
    BY DEF LinksAgree, queuehead, queuetail, lastid
  <2>1. q \in Qid /\ Linked(q, ListOf(q), qnext, qprev) /\ qnext \in Links /\ qprev \in Links
    BY <1>1, TableQueues DEF TableInv
  <2> QED BY <1>1, <2>1, LinkedSpells, LinkedBack DEF TableInv
<1> QED BY <1>1, TableInvariant, PTL

(* The operations of queuetab do what the sequences promise: each changes  *)
(* the one queue that it is called for.                                    *)
THEOREM TableSpells == LinksSpec => SpellsQueues
<1>1. LinksInit => Q!Init
  <2> SUFFICES ASSUME LinksInit PROVE Q!Init
    OBVIOUS
  <2>1. Queues = {} /\ \A p \in Pid : qkey[p] = 0
    BY QidIs, EntriesAre DEF Queues, Qid, LinksInit
  <2>2. [q \in Qid |-> ListOf(q)] = [q \in Qid |-> << >>]
    BY <2>1, ListOfIs
  <2>3. [p \in Pid |-> qkey[p]] \in [Pid -> Int]
    BY <2>1
  <2> QED BY <2>2, <2>3 DEF Q!Init
<1>2. TableInv /\ [LinksNext]_linkvars
        => [Q!Next]_<<[q \in Qid |-> ListOf(q)], [p \in Pid |-> qkey[p]]>>
  BY LinksStep, LinksStutter
<1> QED BY <1>1, <1>2, TableInvariant, PTL DEF LinksSpec, SpellsQueues, Q!Spec
=============================================================================
