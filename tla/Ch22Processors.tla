--------------------------- MODULE Ch22Processors ---------------------------
(***************************************************************************)
(* What the processors of chapter 22 do to a text: the two of the host     *)
(* (binaries/ch22-oop/oop.cpp), those of plugin_alpha and plugin_beta, and *)
(* the one of the solution (solutions/ch22-checkpoint-plugin.cpp), each    *)
(* with the options it has when main runs it, which configures no plugin.  *)
(*                                                                         *)
(* A text is what lies before the NUL.  Letters are numbered; XorCipher    *)
(* writes two hexadecimal digits for a character, here its two halves.     *)
(* Digits are no letters: toupper leaves them alone, with skip_digits or   *)
(* without.                                                                *)
(***************************************************************************)
EXTENDS Integers, Sequences

CONSTANTS
    Letters,     \* size of the alphabet: 26
    LeetDigits,  \* LeetDigits[n]: the digit to_leet writes for letter n
    CAP          \* out_cap: the size of the pipeline's buffers

ASSUME TextAssumption ==
    /\ Letters \in Nat \ {0} /\ Letters % 2 = 0
    /\ CAP \in Nat \ {0}

Lower(n) == [kind |-> "lower", n |-> n]
Upper(n) == [kind |-> "upper", n |-> n]
Digit(d) == [kind |-> "digit", d |-> d]
Space == [kind |-> "space"]
Half(ch, h) == [kind |-> "hex", of |-> ch, half |-> h]

\* A text that comes on the command line is made of these.
Chars ==
    [kind : {"lower", "upper"}, n : 0..Letters - 1] \cup [kind : {"digit"}, d : Nat] \cup {Space}

IsLetter(ch) == ch.kind \in {"lower", "upper"}

-----------------------------------------------------------------------------
\* in_len < out_cap - 1 ? in_len : out_cap - 1, one place being for the NUL.
Copied(s) == IF Len(s) < CAP - 1 THEN Len(s) ELSE CAP - 1

ToUpper(ch) == IF ch.kind = "lower" THEN Upper(ch.n) ELSE ch

UpperCase(s) == [i \in 1..Copied(s) |-> ToUpper(s[i])]

\* reverse_range(begin, end): end is not part of it.
ReverseRange(s, begin, end) ==
    [i \in DOMAIN s |-> IF i \in begin..end - 1 THEN s[begin + end - 1 - i] ELSE s[i]]

\* A word that is not the first is reversed with the space before it.
BugNextWord(p) == p

\* start = p + 1.
NextWord(p) == p + 1

\* p stands on a space or on the NUL, or it walks on.
Visit(s, walk, p) ==
    IF p > Copied(s) \/ s[p] = Space
    THEN [out |-> ReverseRange(walk.out, walk.start, p), start |-> NextWord(p)]
    ELSE walk

\* word_mode: p walks to the NUL, start is where the current word begins.
ReverseWords(s) ==
    LET walk[p \in 0..Copied(s) + 1] ==
            IF p = 0 THEN [out |-> SubSeq(s, 1, Copied(s)), start |-> 1]
            ELSE Visit(s, walk[p - 1], p)
    IN  walk[Copied(s) + 1].out

ReverseAll(s) == LET n == Copied(s) IN [i \in 1..n |-> s[n + 1 - i]]

Rotated(ch) == IF IsLetter(ch) THEN [ch EXCEPT !.n = (@ + Letters \div 2) % Letters] ELSE ch

Rot13(s) == [i \in 1..Copied(s) |-> Rotated(s[i])]

ToLeet(ch) == IF IsLetter(ch) /\ ch.n \in DOMAIN LeetDigits THEN Digit(LeetDigits[ch.n]) ELSE ch

LeetSpeak(s) == [i \in 1..Copied(s) |-> ToLeet(s[i])]

\* printable: two digits for a character.
XorHex(s) ==
    LET m == IF 2 * Len(s) + 1 > CAP THEN (CAP - 1) \div 2 ELSE Len(s)
    IN  [i \in 1..2 * m |-> Half(s[(i + 1) \div 2], i % 2)]

-----------------------------------------------------------------------------
(***************************************************************************)
(* The same, said at once and without buffers.                             *)
(***************************************************************************)

Cut(s) == SubSeq(s, 1, Copied(s))

\* The places of the word around place i, and the place opposite to i in it.
Word(s, i) == {j \in DOMAIN s : \A k \in DOMAIN s :
                  (i <= k /\ k <= j) \/ (j <= k /\ k <= i) => s[k] # Space}
Begin(s, i) == CHOOSE j \in Word(s, i) : \A k \in Word(s, i) : j <= k
End(s, i) == CHOOSE j \in Word(s, i) : \A k \in Word(s, i) : j >= k
Opposite(s, i) == IF s[i] = Space THEN i ELSE Begin(s, i) + End(s, i) - i

\* Every word is turned round where it stands.
WordsMirrored(s) == [i \in DOMAIN s |-> s[Opposite(s, i)]]
=============================================================================
