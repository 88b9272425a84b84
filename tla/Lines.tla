-------------------------------- MODULE Lines --------------------------------
(***************************************************************************)
(* What fgets and scanf take from a stream of characters: the text the     *)
(* program gets and the rest, which the next call reads.  Neither is       *)
(* called on a stream that is at its end.                                  *)
(***************************************************************************)
EXTENDS Words

LinePart(stream) == SelectInSeq(stream, LAMBDA c : c = NL)

\* fgets(buf, size, stdin): at most size - 1 characters, up to a newline.
FgetsLength(stream, size) ==
    LET nl == LinePart(stream)
        line == IF nl = 0 THEN Len(stream) ELSE nl
    IN  IF line < size THEN line ELSE size - 1

\* The newline that fgets leaves at the end is cut.
Chomp(text) == IF text # <<>> /\ Last(text) = NL THEN Front(text) ELSE text

Fgets(stream, size) ==
    LET n == FgetsLength(stream, size)
    IN  [text |-> Chomp(SubSeq(stream, 1, n)), rest |-> SubSeq(stream, n + 1, Len(stream))]

\* Console.ReadLine(), which has no buffer to fill.
ReadLine(stream) == Fgets(stream, Len(stream) + 2)

\* A text without the blanks at its ends.
Trim(text) ==
    LET kept == {i \in DOMAIN text : text[i] \notin {NL, SP}}
    IN  IF kept = {} THEN <<>> ELSE SubSeq(text, Min(kept), Max(kept))

\* scanf with a width: blanks are skipped, then at most that many characters.
Scanf(stream, size) ==
    LET Blank(c) == c \in {NL, SP}
        from == SelectInSeq(stream, LAMBDA c : ~Blank(c))
        word == IF from = 0 THEN <<>> ELSE SubSeq(stream, from, Len(stream))
        to == SelectInSeq(word, Blank)
        length == IF to = 0 THEN Len(word) ELSE to - 1
        n == IF length < size THEN length ELSE size
    IN  [text |-> SubSeq(word, 1, n), rest |-> SubSeq(word, n + 1, Len(word))]
=============================================================================
