------------------------------- MODULE Format -------------------------------
(***************************************************************************)
(* _doprnt of doprnt.c, which kprintf prints with: the text and the        *)
(* directives of one format, its arguments, and the characters given to    *)
(* func.  Numbers have 32 bits.  A character is a string of length one.    *)
(* Numbers longer than the 20 bytes of string[], which only %b makes, are  *)
(* not among the arguments.                                                *)
(***************************************************************************)
EXTENDS Integers, SequencesExt

CONSTANTS
  Flags, Widths, Precisions,   \* parts of a directive, as sequences
  Longs,                       \* numbers that are passed
  Stars,                       \* widths that are passed for *
  Texts                        \* texts that are passed for %s

\* A directive has one %, and its numbers have digits an int has room for.
ASSUME FormatAssumption ==
  /\ Flags \subseteq Seq({"-", "0"}) /\ Texts \subseteq Seq(STRING)
  /\ \A t \in Widths : t \in Seq(STRING) /\ Len(t) < 10
  /\ \A t \in Precisions : t \in Seq(STRING) /\ Len(t) < 11 /\ (t # << >> => t[1] = ".")
  /\ \A t \in Widths \cup Precisions : \A k \in 1 .. Len(t) : t[k] # "%"
  /\ \A n \in Longs \cup Stars : n \in Int /\ -2147483647 - 1 <= n /\ n <= 2147483647

VARIABLES
  fmt, ap,   \* what is left of the format and of the arguments
  string,    \* the text of the last conversion, or what was on the stack
  out,       \* the characters printed
  printing

formatvars == <<fmt, ap, string, out, printing>>

MAXSTR == 80
Ten9 == 1000000000
Null == <<"NULL">>
lower == <<"0","1","2","3","4","5","6","7","8","9","a","b","c","d","e","f">>
upper == <<"0","1","2","3","4","5","6","7","8","9","A","B","C","D","E","F">>
Decimals == {lower[d] : d \in 1 .. 10}
DigitOf(c) == (CHOOSE d \in 1 .. 16 : lower[d] = c \/ upper[d] = c) - 1

FormatInit ==
  /\ fmt = << >> /\ ap = << >> /\ string = << >> /\ out = << >>
  /\ printing = FALSE

-----------------------------------------------------------------------------
\* The conversions fill temp from the lowest digit up and copy it from the
\* highest that is not 0 down.
Copied(temp) ==
  LET top == CHOOSE i \in 1 .. Len(temp) : /\ i > 1 => temp[i] # 0
                                           /\ \A k \in i + 1 .. Len(temp) : temp[k] = 0
  IN  Reverse(SubSeq(temp, 1, top))
InChars(digits, set) == [i \in 1 .. Len(digits) |-> set[digits[i] + 1]]

\* _prtl2, _prtl8, _prtl16 and _prtX16 shift the number by the bits of one
\* digit, with the sign, which divides it by the base and rounds down; only
\* two bits of the 11th octal digit are its own.
Quotients(num, base) == LET q[i \in Nat] == IF i = 0 THEN num ELSE q[i - 1] \div base IN q
Shifted(num, base, places) == [i \in 1 .. places |-> Quotients(num, base)[i - 1] % base]
_prtl2(num)  == InChars(Copied(Shifted(num, 2, 32)), lower)
_prtl8(num)  == LET temp == Shifted(num, 8, 11) IN InChars(Copied([temp EXCEPT ![11] = @ % 4]), lower)
_prtl16(num) == InChars(Copied(Shifted(num, 16, 8)), lower)
_prtX16(num) == InChars(Copied(Shifted(num, 16, 8)), upper)

\* _prtl10 takes the lowest digit off before it makes the number positive.
LowDigit(num) == IF num >= 0 THEN num % 10 ELSE (10 - (num % 10)) % 10
Digits10(num) ==
  LET rest == IF num >= 0 THEN num \div 10 ELSE -((num + LowDigit(num)) \div 10)
  IN  Copied([i \in 1 .. 10 |-> IF i = 1 THEN LowDigit(num) ELSE Quotients(rest, 10)[i - 2] % 10])
_prtl10(num) == InChars(Digits10(num), lower)

\* %u: 1000000000 is subtracted, in 32 bits, until the number is positive,
\* and counted back on to the first digit.
LessTen9(v) == IF v < Ten9 - 2147483647 - 1 THEN (v + 2147483647) + 1147483649 ELSE v - Ten9
Less(num, k) == LET v[i \in Nat] == IF i = 0 THEN num ELSE LessTen9(v[i - 1]) IN v[k]
digit1_Once(num) == IF num < 0 THEN 1 ELSE 0    \* mutant
digit1(num) == CHOOSE k \in 0 .. 3 : Less(num, k) >= 0 /\ \A q \in 0 .. k - 1 : Less(num, q) < 0
_prtu(num) ==
  LET d == Digits10(Less(num, digit1(num)))
  IN  InChars([d EXCEPT ![1] = @ + digit1(num)], lower)

-----------------------------------------------------------------------------
Ch(k) == IF k <= Len(fmt) THEN fmt[k] ELSE "NUL"
ArgsFrom(k) == SubSeq(ap, k + 1, Len(ap))

\* A width or a precision at k: * and an argument, or digits.
Field(k, used) ==
  LET end == CHOOSE e \in k .. Len(fmt) + 1 : Ch(e) \notin Decimals /\ \A q \in k .. e - 1 : Ch(q) \in Decimals
  IN  IF Ch(k) = "*" THEN [next |-> k + 1, used |-> used + 1, n |-> ap[used + 1].long]
      ELSE [next |-> end, used |-> used,
            n |-> LET r[q \in 0 .. end - k] == IF q = 0 THEN 0 ELSE r[q - 1] * 10 + DigitOf(Ch(k + q - 1)) IN r[end - k]]

\* The directive at the start of fmt.
Directive ==
  LET left == Ch(2) = "-"
      z == IF left THEN 3 ELSE 2
      zero == Ch(z) = "0"
      min == Field(IF zero THEN z + 1 ELSE z, 0)
      max == IF Ch(min.next) = "." THEN Field(min.next + 1, min.used) ELSE [min EXCEPT !.n = 0]
  IN  [left |-> left, fill |-> IF zero THEN "0" ELSE " ", fmin |-> min.n, fmax |-> max.n,
       conv |-> Ch(max.next), next |-> max.next + 1, used |-> max.used]

Numeric == {"d", "u", "o", "x", "X", "b"}
Pairs == {"h", "H"}
TextOf(d, arg) == IF arg.text = Null THEN <<"(", "n", "u", "l", "l", ")">> ELSE arg.text
Numeral(conv, n) ==
  CASE conv = "d" -> _prtl10(n)
    [] conv = "u" -> _prtu(n)
    [] conv = "o" -> _prtl8(n)
    [] conv \in {"x", "h"} -> _prtl16(n)
    [] conv \in {"X", "H"} -> _prtX16(n)
    [] conv = "b" -> _prtl2(n)

\* string[] after the conversion: %h and %H put their second number 8 bytes
\* behind the first, beyond its NUL unless it has 8 digits; %s, %f and an
\* unknown conversion leave string[] as it is.
Converted(d) ==
  LET arg == ap[d.used + 1]
  IN  CASE d.conv = "c" -> <<arg.text[1]>>
        [] d.conv \in Numeric -> Numeral(d.conv, arg.long)
        [] d.conv \in Pairs ->
             LET t == Numeral(d.conv, arg.long)
             IN  IF Len(t) = 8 THEN t \o Numeral(d.conv, ap[d.used + 2].long) ELSE t
        [] OTHER -> string
Consumed(d) ==
  CASE d.conv \in Numeric \cup {"c", "s"} -> 1 [] d.conv \in Pairs -> 2 [] OTHER -> 0

InRange(n) == IF n > MAXSTR \/ n < 0 THEN 0 ELSE n
Fills(fmin, len, minus) == (IF fmin = 0 THEN 0 ELSE fmin - len) - (IF minus THEN 1 ELSE 0)
Times(c, n) == [i \in 1 .. (IF n > 0 THEN n ELSE 0) |-> c]

DropsPrecision == (Numeric \ {"d"}) \cup Pairs \cup {"c"}

\* What one directive prints; a * is an argument before the one printed.
Formatted(d) ==
  LET str == IF d.conv = "s" THEN TextOf(d, ap[d.used + 1]) ELSE Converted(d)
      fill == IF d.conv \in {"c", "s"} THEN " " ELSE d.fill
      fmax == IF d.conv \in DropsPrecision THEN 0 ELSE InRange(d.fmax)
      fmin == InRange(d.fmin)
      len == IF fmax # 0 /\ Len(str) > fmax THEN fmax ELSE Len(str)
      minus == d.conv = "d" /\ ap[d.used + 1].long < 0
      leading == Times(fill, Fills(fmin, len, minus))
      sign(c) == IF minus /\ fill = c THEN <<"-">> ELSE << >>
  IN  sign("0") \o (IF d.left THEN << >> ELSE leading) \o sign(" ")
        \o SubSeq(str, 1, len) \o (IF d.left THEN leading ELSE << >>)

-----------------------------------------------------------------------------
Echo ==
  /\ printing /\ fmt # << >> /\ fmt[1] # "%"
  /\ out' = Append(out, fmt[1]) /\ fmt' = Tail(fmt)
  /\ UNCHANGED <<ap, string, printing>>
Percent ==
  /\ printing /\ Ch(1) = "%" /\ Ch(2) = "%"
  /\ out' = Append(out, "%") /\ fmt' = SubSeq(fmt, 3, Len(fmt))
  /\ UNCHANGED <<ap, string, printing>>

\* A format that ends within a directive.
BreaksOff ==
  /\ printing /\ Ch(1) = "%" /\ Ch(2) # "%" /\ Directive.conv = "NUL"
  /\ out' = Append(out, "%") /\ fmt' = << >>
  /\ UNCHANGED <<ap, string, printing>>

Emit ==
  /\ printing /\ Ch(1) = "%" /\ Ch(2) # "%" /\ Directive.conv # "NUL"
  /\ LET d == Directive
     IN  /\ out' = (IF Consumed(d) = 0 /\ d.conv # "f" THEN Append(out, d.conv) ELSE out) \o Formatted(d)
         /\ string' = Converted(d)
         /\ fmt' = SubSeq(fmt, d.next, Len(fmt))
         /\ ap' = ArgsFrom(d.used + Consumed(d))
  /\ UNCHANGED printing

Done ==
  /\ printing /\ fmt = << >>
  /\ printing' = FALSE /\ out' = << >> /\ ap' = << >> /\ string' = << >>
  /\ UNCHANGED fmt

\* The call: a directive alone, with an argument for its star and two more.
Argument(n, t) == [long |-> n, text |-> t]
ArgsOf(f, star, n, t) ==
  (IF "*" \in ToSet(f) THEN <<Argument(star, t)>> ELSE << >>) \o <<Argument(n, t), Argument(n, t)>>
Doprnt(f, n, t, rest) ==
  /\ ~printing /\ printing' = TRUE
  /\ fmt' = f
  /\ \E star \in Stars : ap' = ArgsOf(f, star, n, t)
  /\ string' = rest
  /\ UNCHANGED out

Plain(fl, w, p, c) == <<"%">> \o fl \o w \o p \o <<c>>
FormatNext ==
  \/ \E fl \in Flags, w \in Widths, p \in Precisions, n \in Longs :
       \E c \in Numeric : (c = "b" => n \in 0 .. 2 ^ 19 - 1) /\ Doprnt(Plain(fl, w, p, c), n, << >>, << >>)
  \/ \E fl \in Flags, w \in Widths, p \in Precisions, t \in Texts :
       \E c \in {"c", "s"} : (c = "c" => t \notin {<< >>, Null}) /\ Doprnt(Plain(fl, w, p, c), 0, t, << >>)
  \/ \E c \in Pairs \cup {"f", "k"}, n \in Longs, rest \in {<< >>, <<"?">>} :
       Doprnt(<<"a", "%", c, "%", "%", "%">>, n, << >>, rest)
  \/ \E fl \in Flags : Doprnt(<<"%">> \o fl, 0, << >>, << >>)
  \/ Echo \/ Percent \/ BreaksOff \/ Emit \/ Done

FormatSpec == FormatInit /\ [][FormatNext]_formatvars
-----------------------------------------------------------------------------
\* Widths and precisions beyond 80 count as none.
Asked(n) == IF n \in 0 .. 80 THEN n ELSE 0

\* A field of the characters e: k fills and the body, with a minus before
\* the digits, just as wide as asked for or as the body needs.
Arranged(e, d, fill, minus, k, body) ==
  LET sign == IF minus THEN <<"-">> ELSE << >>
  IN  /\ e = IF d.left THEN sign \o body \o Times(fill, k)
             ELSE IF fill = "0" THEN sign \o Times(fill, k) \o body
             ELSE Times(fill, k) \o sign \o body
      /\ k > 0 => Len(e) = Asked(d.fmin)
      /\ Len(e) >= Asked(d.fmin)

\* A number of 32 bits as two halves, which digits have to add up to.
Halves(n) == <<(n \div 65536) % 65536, n % 65536>>
Negated(h) == IF h[2] = 0 THEN <<(65536 - h[1]) % 65536, 0>> ELSE <<65535 - h[1], 65536 - h[2]>>
HalvesSpelled(body, base) ==
  LET h[k \in 0 .. Len(body)] ==
        IF k = 0 THEN <<0, 0>>
        ELSE LET v == h[k - 1]
                 lo == v[2] * base + DigitOf(body[k])
             IN  <<v[1] * base + lo \div 65536, lo % 65536>>
  IN  h[Len(body)]
BaseOf(conv) == CASE conv = "b" -> 2 [] conv = "o" -> 8 [] conv \in {"d", "u"} -> 10 [] OTHER -> 16
Emitted == SubSeq(out', Len(out) + 1, Len(out'))

IsDirective == printing /\ Len(fmt) > 1 /\ Ch(1) = "%" /\ Ch(2) # "%" /\ fmt' # fmt

\* Digits without leading zeroes, which add up to a number given by halves.
ReadsAs(digits, base, halves) ==
  /\ \A q \in 1 .. Len(digits) : digits[q] \in ToSet(lower) \cup ToSet(upper)
  /\ digits # << >> /\ (Len(digits) > 1 => digits[1] # "0")
  /\ HalvesSpelled(digits, base) = halves

\* A precision cuts what is printed behind its first characters.
CutTo(t, max) == IF max # 0 /\ max < Len(t) THEN SubSeq(t, 1, max) ELSE t

\* The digits of %d, %u, %o, %x, %X and %b read as the argument, signed for
\* %d and unsigned for the others, and are printed in the field asked for,
\* with every combination of flags.  A precision counts for %d alone.
NumberReadsBack ==
  IsDirective /\ Directive.conv \in Numeric =>
    LET d == Directive
        n == ap[d.used + 1].long
        minus == d.conv = "d" /\ n < 0
        digits == Numeral(d.conv, n)
        body == CutTo(digits, IF d.conv = "d" THEN Asked(d.fmax) ELSE 0)
    IN  /\ ReadsAs(digits, BaseOf(d.conv), IF minus THEN Negated(Halves(n)) ELSE Halves(n))
        /\ \E k \in 0 .. 80 : Arranged(Emitted, d, d.fill, minus, k, body)

\* %s prints its text, or (null), cut to the precision and filled with
\* spaces to the width, on the side the flag says, whatever fill it asks for.
TextFills ==
  IsDirective /\ Directive.conv = "s" =>
    LET d == Directive
        body == CutTo(TextOf(d, ap[d.used + 1]), Asked(d.fmax))
    IN  \E k \in 0 .. 80 : Arranged(Emitted, d, " ", FALSE, k, body)

\* A directive prints its argument, all of it that a precision lets pass, in
\* the field asked for.
DirectivesRight == [][NumberReadsBack /\ TextFills]_formatvars
=============================================================================
