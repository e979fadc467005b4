------------------------------ MODULE Strings ------------------------------
(***************************************************************************)
(* string.c of the C library, over a small memory of bytes.  The searches  *)
(* and comparisons are operators on the memory; the functions that write   *)
(* give the memory they leave, and are actions.  Arguments are those C     *)
(* allows: strings end inside the memory, there is room at the destination *)
(* and only memmove may overlap.  A list of delimiters is its set.         *)
(***************************************************************************)
EXTENDS Integers, SequencesExt

CONSTANTS
  NMEM,    \* bytes of memory
  Chars    \* bytes that are not NUL

ASSUME StringsAssumption == NMEM \in Nat \ {0} /\ Chars \subseteq Nat \ {0}

NUL  == 0
NULL == -1
Byte == {NUL} \cup Chars

VARIABLES
  mem,     \* the memory of one caller, empty while there is none
  last,    \* strtok: where it goes on, NULL when the string is used up
  ret,     \* what strtok gave last
  \* Checking only: the tokens given for one string, its delimiters and texts.
  toks, expected

strvars == <<mem, last, ret, toks, expected>>
NoTokens == [delim |-> {}, texts |-> << >>]

Addr == DOMAIN mem

StrInit ==
  /\ mem = << >>
  /\ last = NULL /\ ret = NULL
  /\ toks = << >> /\ expected = NoTokens

-----------------------------------------------------------------------------
\* A loop that walks up from s ends at the least offset that satisfies its
\* test; the callers' strings and counts stop it within the memory.
Offsets(s, S) == {k \in 0 .. NMEM - 1 - s : mem[s + k] \in S}
Ends(s) == Offsets(s, {NUL})
Differ(s, p) == {k \in 0 .. NMEM - 1 : /\ s + k < NMEM /\ p + k < NMEM
                                       /\ mem[s + k] # mem[p + k]}
Signum(n) == IF n > 0 THEN 1 ELSE IF n < 0 THEN -1 ELSE 0

strlen(s) == Min(Ends(s))
strnlen(s, len) == Min(Ends(s) \cup {len})

memchr(s, c, n) ==
  LET k == Min(Offsets(s, {c}) \cup {n})
  IN  IF k = n THEN NULL ELSE s + k
strchr(s, c) ==
  LET a == s + Min(Offsets(s, {c, NUL}))
  IN  IF mem[a] = c THEN a ELSE NULL
strrchr(s, c) ==
  LET r[k \in 0 .. strlen(s)] ==
        IF k = 0 THEN NULL ELSE IF mem[s + k - 1] = c THEN s + k - 1 ELSE r[k - 1]
  IN  IF c = NUL THEN s + strlen(s) ELSE r[strlen(s)]

chrnlst(c, l) == mem[l + Min(Offsets(l, {NUL, c}))] # NUL
strspn(s1, s2) ==
  Min({k \in 0 .. strlen(s1) : mem[s1 + k] = NUL \/ ~chrnlst(mem[s1 + k], s2)})
strcspn(s1, s2) ==
  Min({k \in 0 .. strlen(s1) : mem[s1 + k] = NUL \/ chrnlst(mem[s1 + k], s2)})

\* strstr looks for ct only where its first byte is, so never for "".
MatchAt(a, ct) ==
  /\ mem[a] = mem[ct]
  /\ mem[ct + Min(Differ(a, ct) \cup Ends(a) \cup Ends(ct))] = NUL
strstr(cs, ct) ==
  LET a == cs + Min({k \in 0 .. strlen(cs) : mem[cs + k] = NUL \/ MatchAt(cs + k, ct)})
  IN  IF mem[a] = NUL THEN NULL ELSE a

\* The comparisons end at the first difference or at one of the offsets given.
Compared(s, p, ends, same) ==
  LET i == Min(Differ(s, p) \cup ends)
  IN  IF i \in same THEN 0 ELSE Signum(mem[s + i] - mem[p + i])
memcmp(s, p, n) == Compared(s, p, {n}, {n})
strcmp(s, p) == Compared(s, p, Ends(s), {})
strncmp_NoEnd(s, p, n) == memcmp(s, p, n)    \* mutant
strncmp(s, p, n) == Compared(s, p, Ends(s) \cup {n}, {n})

-----------------------------------------------------------------------------
\* The memory after bytes have been copied one at a time, in this order.
Upto(n) == [i \in 1 .. n |-> i - 1]
Copying(m, d, s, order) ==
  LET after[k \in 0 .. Len(order)] ==
        IF k = 0 THEN m
        ELSE LET w == after[k - 1] IN [w EXCEPT ![d + order[k]] = w[s + order[k]]]
  IN  after[Len(order)]

\* The memory m with n bytes from p on set to c.
Filling(m, p, c, n) ==
  LET after[k \in 0 .. n] == IF k = 0 THEN m ELSE [after[k - 1] EXCEPT ![p + k - 1] = c]
  IN  after[n]

memset(p, c, n) == Filling(mem, p, c, n)
bzero(p, len) == memset(p, NUL, len)
memcpy(d, s, n) == Copying(mem, d, s, Upto(n))
memmove_Up(d, s, n) == memcpy(d, s, n)    \* mutant
memmove(d, s, n) == Copying(mem, d, s, IF s < d THEN Reverse(Upto(n)) ELSE Upto(n))

strcpy(d, s) == Copying(mem, d, s, Upto(strlen(s) + 1))
strcat(d, s) == strcpy(d + strlen(d), s)

\* strncpy fills up with NULs; strncat writes n bytes and one NUL at most.
strncpy(d, s, n) ==
  LET k == strnlen(s, n)
  IN  Filling(Copying(mem, d, s, Upto(k)), d + k, NUL, n - k)
strncat(d, s, n) ==
  LET k == strnlen(s, n)
      e == d + strlen(d)
  IN  [Copying(mem, e, s, Upto(k)) EXCEPT ![e + k] = NUL]

\* Exchanges from the ends of the string to its middle.
strreverse(s) ==
  LET len == strlen(s)
      after[k \in 0 .. len \div 2] ==
        IF k = 0 THEN mem
        ELSE LET w == after[k - 1]
                 p == s + k - 1
                 q == s + len - k
             IN  [w EXCEPT ![p] = w[q], ![q] = w[p]]
  IN  after[len \div 2]

-----------------------------------------------------------------------------
\* Legal arguments.
IsString(s) == \E a \in s .. NMEM - 1 : mem[a] = NUL
Strs == {s \in Addr : IsString(s)}
Room(d, n) == d + n <= NMEM
Apart(d, n, s, k) == d + n <= s \/ s + k <= d
Counts == 0 .. NMEM
Disjoint(d, n, s) == Room(d, n) /\ Apart(d, n, s, strlen(s) + 1)
StrPairs == {sp \in Addr \X Strs : Disjoint(sp[1], strlen(sp[2]) + 1, sp[2])}
CatPairs == {sp \in Strs \X Strs : Disjoint(sp[1], strlen(sp[1]) + strlen(sp[2]) + 1, sp[2])}
Moves == {mv \in Addr \X Addr \X Counts : Room(mv[1], mv[3]) /\ Room(mv[2], mv[3])}
Writes ==
  \/ \E p \in Addr, c \in Byte, n \in Counts : Room(p, n) /\ mem' = memset(p, c, n)
  \/ \E p \in Addr, n \in Counts : Room(p, n) /\ mem' = bzero(p, n)
  \/ \E mv \in Moves : mem' = memmove(mv[1], mv[2], mv[3])
  \/ \E mv \in Moves : Apart(mv[1], mv[3], mv[2], mv[3]) /\ mem' = memcpy(mv[1], mv[2], mv[3])
  \/ \E sp \in StrPairs : mem' = strcpy(sp[1], sp[2])
  \/ \E cp \in CatPairs :
       mem' = strcat(cp[1], cp[2]) \/ \E n \in Counts : mem' = strncat(cp[1], cp[2], n)
  \/ \E d \in Addr, s \in Strs, n \in Counts :
       Disjoint(d, n, s) /\ mem' = strncpy(d, s, n)
  \/ \E s \in Strs : mem' = strreverse(s)

\* Nobody writes into a string that strtok still has to go on with.
Write == expected = NoTokens /\ Writes /\ UNCHANGED <<last, ret, toks, expected>>

-----------------------------------------------------------------------------
Text(s) == [i \in 1 .. CHOOSE k \in 0 .. NMEM : mem[s + k] = NUL /\ \A j \in 0 .. k - 1 : mem[s + j] # NUL
              |-> mem[s + i - 1]]

\* The tokens of the string at s: the longest runs without a delimiter.
TokensOf(s, delim) ==
  LET In(a) == a \in s .. s + Len(Text(s)) - 1 /\ mem[a] \notin delim
      starts == {a \in Addr : In(a) /\ ~In(a - 1)}
      Run(a) == [i \in 1 .. Min({k \in 0 .. NMEM : ~In(a + k)}) |-> mem[a + i - 1]]
  IN  [n \in 1 .. Cardinality(starts) |->
         Run(CHOOSE a \in starts : Cardinality({k \in starts : k < a}) = n - 1)]

\* strtok(s, delim), with s = last when it is called with NULL.
Resumes_Behind(b) == b    \* mutant
Resumes(b) == b + 1
Token(s, delim) ==
  LET a == s + Min(Offsets(s, Byte \ delim))
      b == a + 1 + Min(Offsets(a + 1, delim \cup {NUL}))
  IN  \/ /\ mem[a] = NUL
         /\ ret' = NULL /\ last' = NULL
         /\ UNCHANGED <<mem, toks>>
      \/ /\ mem[a] # NUL
         /\ ret' = a /\ toks' = Append(toks, a)
         /\ IF mem[b] = NUL THEN last' = NULL /\ UNCHANGED mem
            ELSE last' = Resumes(b) /\ mem' = [mem EXCEPT ![b] = NUL]

FirstToken(s, delim) ==
  /\ expected = NoTokens /\ IsString(s)
  /\ Token(s, delim)
  /\ expected' = [delim |-> delim, texts |-> TokensOf(s, delim)]

NextToken ==
  /\ ret # NULL
  /\ \/ last = NULL /\ ret' = NULL /\ UNCHANGED <<mem, last, toks>>
     \/ last # NULL /\ Token(last, expected.delim)
  /\ UNCHANGED expected

\* The caller has seen the NULL.
Tokenized ==
  /\ ret = NULL /\ expected # NoTokens
  /\ expected' = NoTokens /\ toks' = << >>
  /\ UNCHANGED <<mem, last, ret>>

Obtain ==
  /\ mem = << >>
  /\ mem' = [a \in 0 .. NMEM - 1 |-> NUL]
  /\ UNCHANGED <<last, ret, toks, expected>>

StrNext ==
  \/ Obtain \/ Write
  \/ \E s \in Addr, delim \in (SUBSET Chars) \ {{}} : FirstToken(s, delim)
  \/ NextToken \/ Tokenized

StrSpec == StrInit /\ [][StrNext]_strvars

-----------------------------------------------------------------------------
Prefix(t, n) == SubSeq(t, 1, IF n < Len(t) THEN n ELSE Len(t))
Precedes(t, u) ==
  \E k \in 0 .. Len(t) :
    /\ k <= Len(u) /\ Prefix(t, k) = Prefix(u, k)
    /\ \/ k = Len(t) /\ k < Len(u)
       \/ k < Len(t) /\ k < Len(u) /\ t[k + 1] < u[k + 1]
Compares(r, t, u) ==
  r = IF Precedes(t, u) THEN -1 ELSE IF Precedes(u, t) THEN 1 ELSE 0
Bytes(s, n) == [i \in 1 .. n |-> mem[s + i - 1]]

\* strcmp, strncmp and memcmp order strings as a dictionary does, up to the
\* end of either or the count, whatever lies behind a NUL.
ComparesRight ==
  \A s, p \in Addr :
    /\ s \in Strs /\ p \in Strs =>
         /\ Compares(strcmp(s, p), Text(s), Text(p))
         /\ \A n \in Counts : Room(s, n) /\ Room(p, n) =>
              Compares(strncmp(s, p, n), Prefix(Text(s), n), Prefix(Text(p), n))
    /\ \A n \in Counts : Room(s, n) /\ Room(p, n) =>
         Compares(memcmp(s, p, n), Bytes(s, n), Bytes(p, n))

LeastOr(S, none) == IF S = {} THEN none ELSE Min(S)
GreatestOr(S, none) == IF S = {} THEN none ELSE Max(S)
SpanOf(t, S) == GreatestOr({n \in 0 .. Len(t) : \A i \in 1 .. n : t[i] \in S}, 0)

\* The searches give the first, or the last, place or the longest span there
\* is, and NULL if there is none; strstr also behind a match that breaks off.
SearchesRight ==
  \A s \in Strs :
    LET t == Text(s)
        Places(c) == {a \in s .. s + Len(t) : mem[a] = c}
    IN  /\ strlen(s) = Len(t)
        /\ \A c \in Byte :
             /\ strchr(s, c) = LeastOr(Places(c), NULL)
             /\ strrchr(s, c) = GreatestOr(Places(c), NULL)
             /\ \A n \in Counts : Room(s, n) =>
                  memchr(s, c, n) = LeastOr({a \in s .. s + n - 1 : mem[a] = c}, NULL)
        /\ \A p \in Strs :
             LET u == Text(p)
             IN  /\ strspn(s, p) = SpanOf(t, ToSet(u))
                 /\ strcspn(s, p) = SpanOf(t, Byte \ ToSet(u))
                 /\ u # << >> =>
                      strstr(s, p) = LeastOr({a \in s .. s + Len(t) - Len(u) : Bytes(a, Len(u)) = u}, NULL)

\* The functions that only read: comparisons as a dictionary would have them
\* and searches that miss no place, whatever lies behind the end of a string.
ReadsRight == ComparesRight /\ SearchesRight

\* The memory with the bytes of seq from d on.
With(d, seq) == [a \in Addr |-> IF a \in d .. d + Len(seq) - 1 THEN seq[a - d + 1] ELSE mem[a]]
NULs(n) == [i \in 1 .. n |-> NUL]

\* A function that writes leaves what it promises at the destination, to the
\* last NUL, and every other byte alone; memmove does so when the source and
\* the destination overlap.
WritesRight ==
  /\ \A mv \in Moves : memmove(mv[1], mv[2], mv[3]) = With(mv[1], Bytes(mv[2], mv[3]))
  /\ \A p \in Addr, c \in Byte, n \in Counts :
       Room(p, n) => memset(p, c, n) = With(p, [i \in 1 .. n |-> c])
  /\ \A sp \in StrPairs : strcpy(sp[1], sp[2]) = With(sp[1], Text(sp[2]) \o NULs(1))
  /\ \A cp \in CatPairs :
       LET d == cp[1]
           t == Text(cp[2])
       IN  /\ strcat(d, cp[2]) = With(d, Text(d) \o t \o NULs(1))
           /\ \A n \in Counts : strncat(d, cp[2], n) = With(d, Text(d) \o Prefix(t, n) \o NULs(1))
  /\ \A d \in Addr, s \in Strs, n \in Counts :
       Disjoint(d, n, s) =>
         strncpy(d, s, n) = With(d, Prefix(Prefix(Text(s), n) \o NULs(n), n))
  /\ \A s \in Strs : strreverse(s) = With(s, Reverse(Text(s)))

\* Successive calls of strtok give the tokens of the string in order, each
\* still there when the next has been found, and NULL only when none is left.
TokensRight ==
  /\ \A i \in 1 .. Len(toks) : i <= Len(expected.texts) /\ Text(toks[i]) = expected.texts[i]
  /\ ret = NULL => Len(toks) = Len(expected.texts)
=============================================================================
