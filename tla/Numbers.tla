------------------------------ MODULE Numbers ------------------------------
(***************************************************************************)
(* Numbers and text in stdlib.c: uitoa, itoa, atoi, atol, abs and labs, on *)
(* words of WIDTH bits in two's complement.  A character is its digit, or  *)
(* one of the others below; a text is what stands before its NUL.          *)
(***************************************************************************)
EXTENDS Integers, SequencesExt

CONSTANTS
  WIDTH,   \* bits of an int
  Bases,   \* bases that callers ask for
  Rooms    \* lengths of the buffers they pass

ASSUME NumbersAssumption == WIDTH \in Nat /\ WIDTH > 1 /\ Bases \subseteq Nat /\ Rooms \subseteq Nat

Power(base, k) == LET p[n \in Nat] == IF n = 0 THEN 1 ELSE base * p[n - 1] IN p[k]
MODULUS == Power(2, WIDTH)
Ints == -(MODULUS \div 2) .. MODULUS \div 2 - 1
Unsigned(n) == n % MODULUS
Signed(n) == ((n + MODULUS \div 2) % MODULUS) - MODULUS \div 2

NULc == 100
Minus == 101
Plus == 102
Space == 103
Tab == 104
Newline == 105
Blank == {Space, Tab, Newline}
Decimal == 0 .. 9

NoText == [null |-> TRUE, buf |-> << >>, ret |-> << >>]

VARIABLE num    \* the number that is being converted, if any
NumInit == num = << >>

-----------------------------------------------------------------------------
abs(n) == Signed(IF n > 0 THEN n ELSE -n)
labs(n) == Signed(IF n < 0 THEN -n ELSE n)
int_abs_LessOne(n) == Unsigned(IF n > 0 THEN n ELSE -(n + 1))    \* mutant
int_abs(n) == IF n > 0 THEN n ELSE Unsigned((MODULUS - 1) - Unsigned(n) + 1)

\* How many characters of S the text t begins with.
Span(t, S) == Min({k \in 0 .. Len(t) : k < Len(t) => t[k + 1] \notin S})

\* lookup has a character for 35 digits; the next is the end of the string.
Characters == 0 .. 34
Lookup(d) == IF d \in Characters THEN d ELSE NULc
BeforeNul(t) == SubSeq(t, 1, Span(t, Characters))

\* The digits from the lowest up, until dividing leaves nothing.
Rest(n, base) == LET r[k \in Nat] == IF k = 0 THEN n ELSE r[k - 1] \div base IN r
DigitCount(n, base) == Min({k \in 1 .. WIDTH : Rest(n, base)[k] = 0})
LowFirst(n, base) == [k \in 1 .. DigitCount(n, base) |-> Lookup(Rest(n, base)[k - 1] % base)]
HasRoom(len, digits) == len > digits

\* strreverse sees the digits up to a NUL among them.
uitoa(n, len, base) ==
  IF len = 0 \/ base < 2 \/ base > 36 THEN NoText
  ELSE IF ~HasRoom(len, DigitCount(n, base)) THEN NoText
  ELSE LET t == Reverse(BeforeNul(LowFirst(n, base)))
       IN  [null |-> FALSE, buf |-> t, ret |-> t]

\* itoa writes the sign and returns what uitoa does, the text behind it.
itoa(n, len, base) ==
  IF len = 0 THEN NoText
  ELSE IF n >= 0 THEN uitoa(int_abs(n), len, base)
  ELSE LET u == uitoa(int_abs(n), len - 1, base)
       IN  IF u.null THEN u ELSE [u EXCEPT !.buf = <<Minus>> \o @]

\* The text without the characters of S it begins with, and the number its
\* digits make, every step in a word.
After(t, S) == SubSeq(t, 1 + Span(t, S), Len(t))
Number(t) ==
  LET r[k \in 0 .. Span(t, Decimal)] == IF k = 0 THEN 0 ELSE Signed(r[k - 1] * 10 + t[k])
  IN  r[Span(t, Decimal)]
SignedNumber(t) ==
  IF t = << >> THEN 0
  ELSE IF t[1] = Minus THEN Signed(-Number(Tail(t)))
  ELSE IF t[1] = Plus THEN Number(Tail(t))
  ELSE Number(t)
atoi(t) == SignedNumber(After(t, {Space, Tab, Newline}))
atol(t) == SignedNumber(After(t, {Space, Tab}))

-----------------------------------------------------------------------------
Convert == num = << >> /\ \E n \in Ints : num' = <<n>>
NumberDone == num # << >> /\ num' = << >>
NumNext == Convert \/ NumberDone
NumSpec == NumInit /\ [][NumNext]_num

-----------------------------------------------------------------------------
ValueOf(t, base) ==
  LET v[k \in 0 .. Len(t)] == IF k = 0 THEN 0 ELSE v[k - 1] * base + t[k] IN v[Len(t)]
DigitsIn(t, base) == \A k \in 1 .. Len(t) : t[k] \in 0 .. base - 1

\* uitoa spells the number, in any base for whose digits it has characters,
\* without leading zeroes, and gives NULL only for a base it does not know or
\* when the text and its NUL do not fit.
SpellsNumber ==
  \A n \in ToSet(num), base \in Bases, len \in Rooms :
    LET u == uitoa(Unsigned(n), len, base)
    IN  /\ ~u.null /\ base < 36 =>
             /\ DigitsIn(u.ret, base) /\ ValueOf(u.ret, base) = Unsigned(n)
             /\ Len(u.ret) < len /\ (Len(u.ret) > 1 => u.ret[1] # 0)
        /\ u.null <=> \/ base \notin 2 .. 36
                      \/ len = 0
                      \/ \A k \in 1 .. len - 1 : Power(base, k) <= Unsigned(n)

\* The least number included, atoi and atol read back what itoa has written
\* to its buffer, behind blanks and with a sign.
ReadsBack ==
  \A n \in ToSet(num) :
    LET text == itoa(n, WIDTH + 2, 10).buf
    IN  /\ atoi(text) = n /\ atol(text) = n
        /\ atoi(<<Space, Newline, Tab>> \o text) = n
        /\ atol(<<Tab, Space>> \o text) = n
        /\ n >= 0 => atoi(<<Plus>> \o text) = n /\ abs(-n) = n /\ labs(-n) = n

\* Numbers survive the way to text and back, at the ends of their range too.
NumbersRight == SpellsNumber /\ ReadsBack
=============================================================================
