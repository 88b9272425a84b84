-------------------------------- MODULE Words --------------------------------
(***************************************************************************)
(* Words of W bits and the texts programs make of them.  The code's words  *)
(* have 32 bits; constants of the code keep their low bits, distances of   *)
(* shifts and rotations are taken modulo W, and a half word, four digits   *)
(* there, has G digits.  A text is a sequence of character codes.          *)
(***************************************************************************)
EXTENDS Naturals, Sequences, SequencesExt, Bitwise

CONSTANT W      \* bits of a word

ASSUME WordAssumption == W \in {8, 16, 24, 32}

G == W \div 8

Low(x) == x % 2^W
Half(x) == x % 2^(W \div 2)
Upper(x) == x \div 2^(W \div 2)

Word == 0..2^W - 1
Xors == [x \in Word |-> [y \in Word |-> x ^^ y]]
Xored(x, y) == Xors[x][y]

Shl(x, n) == Low(x * 2^n)
Shr(x, n) == x \div 2^n

\* x rotated left: what leaves at the top comes back at the bottom.  For n = 0
\* the code shifts right by the width of a word, which the processor takes for
\* a shift by 0.
RotL(x, n) == Low((x * 2^(n % W) * (2^W + 1)) \div 2^W)

\* The same in a half word.
RotHalf(x, n) ==
    LET h == W \div 2 IN Half((x * 2^(n % h) * (2^h + 1)) \div 2^h)

-----------------------------------------------------------------------------
NL == 10
SP == 32
STAR == 42
PLUS == 43
DASH == 45

UpperDigit(d) == IF d < 10 THEN 48 + d ELSE 55 + d
LowerDigit(d) == IF d < 10 THEN 48 + d ELSE 87 + d

Digits == 48..57
UpperHex == Digits \cup (65..70)
AnyHex == UpperHex \cup (97..102)

DigitValue(c) == IF c \in Digits THEN c - 48 ELSE (c - 55) % 32

\* printf with %0nX and with %0nx.
HexUpper(x, n) == [i \in 1..n |-> UpperDigit((x \div 16^(n - i)) % 16)]
HexLower(x, n) == [i \in 1..n |-> LowerDigit((x \div 16^(n - i)) % 16)]

\* The number a text of digits stands for.
HexValue(text) == FoldLeft(LAMBDA v, c : v * 16 + DigitValue(c), 0, text)

UpperCase(text) == [i \in DOMAIN text |-> IF text[i] \in 97..122 THEN text[i] - 32 ELSE text[i]]
LowerCase(text) == [i \in DOMAIN text |-> IF text[i] \in 65..90 THEN text[i] + 32 ELSE text[i]]

\* Pieces of one length joined by dashes.
Dashed(pieces) ==
    LET n == Len(pieces[1]) + 1
    IN  [i \in 1..Len(pieces) * n - 1 |->
            IF i % n = 0 THEN DASH ELSE pieces[1 + i \div n][i % n]]
=============================================================================
