----------------------------- MODULE Ch25Format -----------------------------
(***************************************************************************)
(* The archive format of chapter 25 as its C tool                          *)
(* (binaries/ch25-fileformat/fileformat.c) and its Python tool             *)
(* (solutions/ch25-checkpoint-parser.py) write and read it.                *)
(*                                                                         *)
(* A file is a sequence of cells, one for each field of a structure and    *)
(* for each byte of the data; a name is a stem and a suffix, two cells.    *)
(* Sizes and positions count cells.  A damaged length makes a reader take  *)
(* cells for what they are not: the number it then finds is AsNumber of    *)
(* the kind of cell.  A CRC is the sequence it was computed from: no two   *)
(* that differ in one cell have the same.                                  *)
(***************************************************************************)
EXTENDS Integers, Sequences
LOCAL INSTANCE SequencesExt

CONSTANTS
    MAX_RECORDS,
    BITS,        \* bytes and lengths have so many bits
    XOR_KEY,     \* a sequence of bytes
    ASCII,       \* parts of names without any other character
    AsNumber     \* AsNumber[k]: a cell of kind k, read as a length

Kinds == {"magic", "flags", "author", "part", "byte", "crc16", "crc32"}

ASSUME FormatAssumption ==
    /\ MAX_RECORDS \in Nat /\ BITS \in Nat
    /\ XOR_KEY \in Seq(Nat) /\ XOR_KEY # <<>>
    /\ "replaced" \notin ASCII
    /\ \A k \in DOMAIN AsNumber : AsNumber[k] \in Nat
    /\ Kinds \subseteq DOMAIN AsNumber

Num(n) == <<"number", n>>
Mark(m) == <<"magic", m>>
Flags(f) == <<"flags", f>>
Author(a) == <<"author", a>>
Part(p) == <<"part", p>>
Byte(b) == <<"byte", b>>
Crc16(cells) == <<"crc16", cells>>
Crc32(cells) == <<"crc32", cells>>

Number(c) == IF c[1] = "number" THEN c[2] ELSE AsNumber[c[1]]

\* What a file of this format may hold.
IsCell(c) ==
    /\ c = <<c[1], c[2]>> /\ c[1] \in Kinds \cup {"number"}
    /\ c[1] \in {"number", "byte"} => c[2] \in Nat

IsSequence(s) == Len(s) \in Nat /\ s = [i \in 1..Len(s) |-> s[i]]

HEADER_SIZE == 8
REC_HEADER_SIZE == 4
FOOTER_SIZE == 3

\* Xor[a][b] is a ^ b, for numbers of BITS bits.
Xor ==
    LET xor[w \in 0..BITS] ==
            [a \in Nat |-> [b \in Nat |->
                IF w = 0 \/ b = 0 THEN a
                ELSE 2 * xor[w - 1][a \div 2][b \div 2] + ((a + b) % 2)]]
    IN  xor[BITS]

XorAll(lengths) == FoldLeft(LAMBDA v, n : Xor[v][n], 0, lengths)

\* compute_reserved
XorOfLengths(recs) == XorAll([i \in DOMAIN recs |-> recs[i].data_len])

XorCell(c, key) ==
    CASE c[1] = "byte" -> Byte(Xor[c[2]][key])
      [] c[1] = "transformed" /\ c[2][2] = key -> c[2][1]
      [] OTHER -> <<"transformed", <<c, key>>>>

\* xor_transform; a cell that is no byte becomes another one, and the same key undoes it.
XorTransform(data) ==
    [i \in DOMAIN data |-> XorCell(data[i], XOR_KEY[1 + ((i - 1) % Len(XOR_KEY))])]

-----------------------------------------------------------------------------
(***************************************************************************)
(* Writing.  A definition whose name begins with Bug is a wrong variant of *)
(* the definition that follows it; no specification uses it.               *)
(***************************************************************************)
NewRecord(type, name, data) ==
    [type |-> type, flags |-> 0, name |-> name, data |-> data, data_len |-> Len(data)]

Header(recs, flags, author) ==
    LET first == <<Mark("CFRM"), Num(2), Flags(flags), Num(Len(recs)), Num(0)>>
    IN  first \o <<Crc32(first), Author(author), Num(XorOfLengths(recs))>>

\* write_record: the CRC covers the data as they were.
Record(r, flags) ==
    <<Num(r.type), Num(r.flags), Num(Len(r.name)), Num(Len(r.data))>>
    \o r.name
    \o (IF "xor" \in flags THEN XorTransform(r.data) ELSE r.data)
    \o <<Crc16(r.name \o r.data)>>

Footer(payload) == <<Mark("CRFE"), Num(Len(payload) + FOOTER_SIZE), Crc32(payload)>>

\* Stored(recs, flags)[n]: the first n records, one after the other.
Stored(recs, flags) ==
    LET stored[n \in 0..Len(recs)] ==
            IF n = 0 THEN <<>> ELSE stored[n - 1] \o Record(recs[n], flags)
    IN  stored

Payload(recs, flags, author) ==
    Header(recs, flags, author) \o Stored(recs, flags)[Len(recs)]

Archive(recs, flags, author) ==
    LET payload == Payload(recs, flags, author)
    IN  IF "footer" \in flags THEN payload \o Footer(payload) ELSE payload

-----------------------------------------------------------------------------
(***************************************************************************)
(* Reading: what both readers do before they check anything but lengths.   *)
(***************************************************************************)
HeaderFlags(cells) == cells[3][2]
NumRecords(cells) == cells[4][2]
HeaderAuthor(cells) == cells[7][2]

ReadRecord(cells, walk) ==
    LET pos == walk.pos + REC_HEADER_SIZE
        nlen == Number(cells[walk.pos + 3])
        dlen == Number(cells[walk.pos + 4])
        data == SubSeq(cells, pos + nlen + 1, pos + nlen + dlen)
    IN  IF ~walk.ok \/ pos > Len(cells) \/ pos + nlen + dlen + 1 > Len(cells)
        THEN [ok |-> FALSE, pos |-> walk.pos, recs |-> walk.recs]
        ELSE [ok |-> TRUE,
              pos |-> pos + nlen + dlen + 1,
              recs |-> Append(walk.recs,
                  [type |-> Number(cells[walk.pos + 1]), flags |-> Number(cells[walk.pos + 2]),
                   name |-> SubSeq(cells, pos + 1, pos + nlen),
                   data |-> IF "xor" \in HeaderFlags(cells) THEN XorTransform(data) ELSE data,
                   data_len |-> dlen,
                   stored_crc |-> cells[pos + nlen + dlen + 1]])]

\* Walk(cells)[n]: where the readers stand after n records, and what they have.
Walk(cells) ==
    LET walk[n \in 0..NumRecords(cells)] ==
            IF n = 0
            THEN [ok |-> TRUE, pos |-> HEADER_SIZE, recs |-> <<>>]
            ELSE ReadRecord(cells, walk[n - 1])
    IN  walk

Parsed(cells) == Walk(cells)[NumRecords(cells)]

Records(cells) == Parsed(cells).recs

Readable(cells) ==
    /\ Len(cells) >= HEADER_SIZE
    /\ cells[1] = Mark("CFRM")
    /\ NumRecords(cells) <= MAX_RECORDS
    /\ Parsed(cells).ok

-----------------------------------------------------------------------------
(***************************************************************************)
(* Checking.                                                               *)
(***************************************************************************)
HeaderIntact(cells) == cells[6] = Crc32(SubSeq(cells, 1, 5))

LengthsAgree(cells, recs) == cells[8] = Num(XorOfLengths(recs))

RecordsIntact(recs) ==
    \A i \in DOMAIN recs : recs[i].stored_crc = Crc16(recs[i].name \o recs[i].data)

\* Room for a footer behind the last record, which ends at pos.
FooterFits(cells, pos) == pos + FOOTER_SIZE <= Len(cells)

FooterMarked(cells, pos) == cells[pos + 1] = Mark("CRFE")

FooterIntact(cells, pos) ==
    /\ cells[pos + 2] = Num(Len(cells))
    /\ cells[pos + 3] = Crc32(SubSeq(cells, 1, Len(cells) - FOOTER_SIZE))

\* A footer that is not there is no footer to check.
BugCValid(cells) ==
    LET walk == Parsed(cells)
    IN  /\ Readable(cells)
        /\ HeaderIntact(cells) /\ LengthsAgree(cells, walk.recs) /\ RecordsIntact(walk.recs)
        /\ /\ "footer" \in HeaderFlags(cells)
           /\ FooterFits(cells, walk.pos) /\ FooterMarked(cells, walk.pos)
           => FooterIntact(cells, walk.pos)

\* cmd_validate of the C tool counts no error.
CValid(cells) ==
    LET walk == Parsed(cells)
    IN  /\ Readable(cells)
        /\ HeaderIntact(cells) /\ LengthsAgree(cells, walk.recs) /\ RecordsIntact(walk.recs)
        /\ "footer" \in HeaderFlags(cells) =>
              /\ FooterFits(cells, walk.pos)
              /\ FooterMarked(cells, walk.pos) /\ FooterIntact(cells, walk.pos)

\* parse_cfr raises nothing when it is strict.
PyStrict(cells) ==
    LET walk == Parsed(cells)
    IN  /\ Readable(cells)
        /\ HeaderIntact(cells) /\ RecordsIntact(walk.recs) /\ LengthsAgree(cells, walk.recs)
        /\ "footer" \in HeaderFlags(cells) =>
              /\ FooterFits(cells, walk.pos)
              /\ FooterMarked(cells, walk.pos) /\ FooterIntact(cells, walk.pos)

(***************************************************************************)
(* decode("ascii", errors="replace"), and whether encode("ascii") takes    *)
(* the result back.                                                        *)
(***************************************************************************)
IsAscii(c) == IF c[1] = "part" THEN c[2] \in ASCII ELSE c[1] \notin {"crc16", "crc32"}

Decoded(name) == [i \in DOMAIN name |-> IF IsAscii(name[i]) THEN name[i] ELSE Part("replaced")]

AsciiNames(recs) == \A i \in DOMAIN recs : \A j \in DOMAIN recs[i].name : IsAscii(recs[i].name[j])

(***************************************************************************)
(* validate_archive of the Python tool finds no error, and no name that it *)
(* cannot encode again: its parser warns of a bad footer magic and keeps   *)
(* the footer, and nothing counts it.                                      *)
(***************************************************************************)
PyValid(cells) ==
    LET walk == Parsed(cells)
    IN  /\ Readable(cells)
        /\ HeaderIntact(cells) /\ LengthsAgree(cells, walk.recs)
        /\ AsciiNames(walk.recs) /\ RecordsIntact(walk.recs)
        /\ "footer" \in HeaderFlags(cells) =>
              FooterFits(cells, walk.pos) /\ FooterIntact(cells, walk.pos)
=============================================================================
