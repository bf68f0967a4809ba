----------------------------- MODULE Utilities -----------------------------
(***************************************************************************)
(* The number conversions and the tokenizer of utilities.c.  A character   *)
(* is its code, a C string the sequence of its characters without the      *)
(* final NUL.  Signed numbers are two's complement in M values: a negation *)
(* or product that overflows wraps around.                                 *)
(***************************************************************************)
EXTENDS Integers, Sequences, SequencesExt

CONSTANT M         \* values of an i32 or u32: 2^32

ASSUME ModulusAssumption == M \in Nat /\ M >= 2 /\ M % 2 = 0

IntMin == -(M \div 2)
i32 == IntMin .. (M \div 2) - 1
u32 == 0 .. M - 1

Minus == 45
Zero == 48
UpperA == 65
Space == 32
Char == 0 .. 255

Wrap(v) == ((v - IntMin) % M) + IntMin

\* C's division and remainder, which truncate towards zero.
Quotient(a, b) == IF a >= 0 THEN a \div b ELSE -((-a) \div b)
Remainder(a, b) == a - b * Quotient(a, b)

\* A remainder as a character; a negative one gives one below '0'.
DigitChar(r) == (IF r > 9 THEN r - 10 + UpperA ELSE r + Zero) % 256

\* The digits of a number, the last one first; none for zero.
Digits(n, base) ==
  LET of[k \in Int] ==
        IF k = 0 THEN <<>> ELSE <<DigitChar(Remainder(k, base))>> \o of[Quotient(k, base)]
  IN  of[n]

\* u64_to_cstring is the same for a wider number.
u32_to_cstring(n, base) == IF n = 0 THEN <<Zero>> ELSE Reverse(Digits(n, base))

\* Only decimals have a sign.  -IntMin is IntMin again.
i32_to_cstring(n, base) ==
  IF n = 0 THEN <<Zero>>
  ELSE IF n < 0 /\ base = 10 THEN Reverse(Append(Digits(Wrap(-n), base), Minus))
  ELSE Reverse(Digits(n, base))

\* The value of the digits; what is no digit counts by its code.
Accumulate(str) ==
  LET value[i \in 0 .. Len(str)] ==
        IF i = 0 THEN 0 ELSE (value[i - 1] * 10 + (str[i] - Zero)) % M
  IN  value[Len(str)]

\* Faulty variant: the sign is skipped and forgotten.
cstring_to_i32_unsigned(str) ==
  IF str # <<>> /\ Head(str) = Minus THEN Wrap(Accumulate(Tail(str)))
  ELSE Wrap(Accumulate(str))

cstring_to_i32(str) ==
  IF str # <<>> /\ Head(str) = Minus THEN Wrap(-Accumulate(Tail(str)))
  ELSE Wrap(Accumulate(str))

cstring_to_u32(str) == Accumulate(str)

cstring_len_to_i32(str, len) == cstring_to_i32(SubSeq(str, 1, len))
cstring_len_to_u32(str, len) == cstring_to_u32(SubSeq(str, 1, len))

\* Token idx of the line, counted from 0: what is between two spaces, which may
\* be nothing.  A line with too few spaces has no such token (NULL).
Spaces(line) == {i \in DOMAIN line : line[i] = Space}
NoToken == [found |-> FALSE, token |-> <<>>]
cstring_get_token(line, idx) ==
  LET cuts == <<0>> \o SetToSortSeq(Spaces(line), <) \o <<Len(line) + 1>> IN
  IF idx + 2 > Len(cuts) THEN NoToken
  ELSE [found |-> TRUE, token |-> SubSeq(line, cuts[idx + 1] + 1, cuts[idx + 2] - 1)]
=============================================================================
