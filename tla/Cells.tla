-------------------------------- MODULE Cells --------------------------------
(***************************************************************************)
(* Files as the container tools of the repository write them: a sequence   *)
(* of cells, one for each field, structure or byte that is written at      *)
(* once, with the number of its bytes where a reader counts them.  A       *)
(* process that writes is the list of writes it still has to make: what    *)
(* dies leaves a beginning of them, whatever stdio had buffered.           *)
(***************************************************************************)
EXTENDS Integers, SequencesExt

\* A sequence, of whatever elements.
IsSequence(s) == Len(s) \in Nat /\ s = [i \in 1..Len(s) |-> s[i]]

\* fopen(path, "wb"), fwrite at a position, and at the end.
Emptied == [op |-> "open"]
WriteAt(at, cells) == [op |-> "at", at |-> at, cells |-> cells]
WriteEnd(cells) == [op |-> "end", cells |-> cells]

Written(cells, w) ==
    CASE w.op = "open" -> <<>>
      [] w.op = "end" -> cells \o w.cells
      [] w.op = "at" -> SubSeq(cells, 1, w.at) \o w.cells
                            \o SubSeq(cells, w.at + Len(w.cells) + 1, Len(cells))

\* A write of several cells reaches the disk cell by cell: the first of them,
\* and what is left to write.
Several(w) == w.op = "at" /\ Len(w.cells) > 1
FirstOf(w) == IF Several(w) THEN WriteAt(w.at, <<Head(w.cells)>>) ELSE w
RestOf(w) == IF Several(w) THEN <<WriteAt(w.at + 1, Tail(w.cells))>> ELSE <<>>

\* One fwrite for each cell of a new file.
WriteAll(cells) == <<Emptied>> \o [i \in DOMAIN cells |-> WriteEnd(<<cells[i]>>)]

Unread == [kind |-> "unread"]
CellAt(cells, n) == IF n < Len(cells) THEN cells[n + 1] ELSE Unread

WidthOf(cell) == IF "width" \in DOMAIN cell THEN cell.width ELSE 1
SizeOf(cells) ==
    LET size[n \in 0..Len(cells)] == IF n = 0 THEN 0 ELSE size[n - 1] + WidthOf(cells[n])
    IN  size[Len(cells)]

\* The byte at which the n-th cell begins.
Begin(cells, n) == SizeOf(SubSeq(cells, 1, n - 1))

\* The cell that begins at a byte, and the cells of a range of bytes; none,
\* when there is none there.
At(cells, offset) ==
    LET starts == {n \in DOMAIN cells : Begin(cells, n) = offset}
    IN  IF starts = {} THEN Unread ELSE cells[CHOOSE n \in starts : TRUE]

Before(cells, offset) ==
    CHOOSE n \in 0..Len(cells) : \A i \in DOMAIN cells : i <= n <=> Begin(cells, i) < offset
Within(cells, end) ==
    CHOOSE n \in 0..Len(cells) :
        \A i \in DOMAIN cells : i <= n <=> Begin(cells, i) + WidthOf(cells[i]) <= end
CellsIn(cells, offset, length) ==
    SubSeq(cells, Before(cells, offset) + 1, Within(cells, offset + length))

ByteCells(bytes) == [i \in DOMAIN bytes |-> [kind |-> "byte", val |-> bytes[i]]]
IsPlain(cells) == \A i \in DOMAIN cells : cells[i].kind = "byte"
ValuesOf(cells) == [i \in DOMAIN cells |-> cells[i].val]
==============================================================================
