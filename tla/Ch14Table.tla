------------------------------ MODULE Ch14Table ------------------------------
(***************************************************************************)
(* The .cdat table of binaries/ch14-fileformat/fileformat.c: a header, the *)
(* records one after the other, and behind them the index of their         *)
(* offsets, which the next record overwrites.                              *)
(*                                                                         *)
(* A file is a sequence of cells: the file header, a record header, a      *)
(* name, a text and an index entry are one cell each, and offsets count    *)
(* cells from 0.  A command is the list of writes it still has to make: a  *)
(* process that dies leaves a beginning of them on the disk.               *)
(***************************************************************************)
EXTENDS Cells

CONSTANTS
    MAX_RECORDS,  \* 1024
    NameLen,      \* NameLen[name]: its strlen
    Brim,         \* name lengths that fill the chunk malloc gives for them
    Sample        \* the records of cmd_create: name and data

\* What write_record is given.
IsRecord(rec) == rec = [name |-> rec.name, data |-> rec.data]

ASSUME TableAssumption ==
    /\ MAX_RECORDS \in Nat \ {0}
    /\ \A name \in DOMAIN NameLen : NameLen[name] \in Nat
    /\ Brim \subseteq 1..255
    /\ IsSequence(Sample) /\ \A i \in DOMAIN Sample : IsRecord(Sample[i])

-----------------------------------------------------------------------------
(***************************************************************************)
(* The table in memory: g_index_table, which the end of the process frees. *)
(***************************************************************************)
Entry(offset) == [kind |-> "entry", offset |-> offset]

\* index_add, without a bound.
BugIndexAdd(index, offset) == Append(index, Entry(offset))

\* A full table takes no further offset, and nobody is told.
IndexAdd(index, offset) ==
    IF Len(index) < MAX_RECORDS THEN Append(index, Entry(offset)) ELSE index

-----------------------------------------------------------------------------
(***************************************************************************)
(* Writing.                                                                *)
(***************************************************************************)
Checksum(num_records, index_offset) == <<num_records, index_offset>>

Header(num_records, index_offset) ==
    [kind |-> "header", magic |-> "CDAT", num_records |-> num_records,
     index_offset |-> index_offset, checksum |-> Checksum(num_records, index_offset)]

Placeholder ==
    [kind |-> "header", magic |-> "", num_records |-> 0, index_offset |-> 0, checksum |-> <<>>]

\* rh.name_len = (uint8_t)strlen(name)
NameLenByte(rec) == NameLen[rec.name] % 256

\* write_record: a name of 256 bytes has none, a longer one is cut.
RecordCells(rec) ==
    LET len == NameLenByte(rec)
    IN  <<[kind |-> "record", name_len |-> len, data_len |-> IF rec.data = "" THEN 0 ELSE 1]>>
        \o (IF len = 0 THEN <<>> ELSE <<[kind |-> "name", name |-> rec.name, len |-> len]>>)
        \o (IF rec.data = "" THEN <<>> ELSE <<[kind |-> "data", data |-> rec.data]>>)

\* What a writer has done so far: its writes, where the file ends, its index.
Started(first) == [writes |-> first, end |-> 1, index |-> <<>>]

PutRecord(w, rec) ==
    [writes |-> Append(w.writes, WriteAt(w.end, RecordCells(rec))),
     end |-> w.end + Len(RecordCells(rec)),
     index |-> IndexAdd(w.index, w.end)]

\* write_index, then write_file_header with g_index_count.
TableFinished(w) ==
    w.writes \o <<WriteAt(w.end, w.index), WriteAt(0, <<Header(Len(w.index), w.end)>>)>>

\* cmd_create: until the last write the magic is that of the placeholder.
CreateWrites ==
    LET written[n \in 0..Len(Sample)] ==
            IF n = 0 THEN Started(<<Emptied, WriteAt(0, <<Placeholder>>)>>)
            ELSE PutRecord(written[n - 1], Sample[n])
    IN  TableFinished(written[Len(Sample)])

\* "r+b", the whole header, the magic.
IsTable(cells) == cells # <<>> /\ cells[1].kind = "header" /\ cells[1].magic = "CDAT"

\* The index cmd_add reads, whatever lies there: a died add leaves half a record.
OldIndex(cells) ==
    LET fh == cells[1]
    IN  IF fh.num_records \in 1..MAX_RECORDS
        THEN [i \in 1..fh.num_records |->
                 IF fh.index_offset + i <= Len(cells) THEN cells[fh.index_offset + i] ELSE Unread]
        ELSE <<>>

\* cmd_add: the record over the old index, the new index, the header.
AddWrites(cells, rec) ==
    TableFinished(PutRecord([writes |-> <<>>, end |-> cells[1].index_offset,
                             index |-> OldIndex(cells)], rec))

-----------------------------------------------------------------------------
(***************************************************************************)
(* Reading: cmd_parse follows the records, and prints the index only.  A   *)
(* cell that is no record header is taken for none.                        *)
(***************************************************************************)
NoRecord == [ok |-> FALSE]

\* read_record
ReadRecord(cells, offset) ==
    LET rh == CellAt(cells, offset)
        size == 2 + (IF rh.data_len = 0 THEN 0 ELSE 1)
    IN  IF rh.kind # "record" THEN NoRecord
        ELSE IF rh.name_len = 0 \/ offset + size > Len(cells) THEN NoRecord
        ELSE [ok |-> TRUE, next |-> offset + size, name |-> CellAt(cells, offset + 1),
              data |-> IF rh.data_len = 0 THEN "" ELSE CellAt(cells, offset + 2).data]

\* The records before the first that cannot be read, as far as num_records says.
Follow(cells, found) ==
    LET rec == ReadRecord(cells, found.at)
    IN  IF found.stop \/ ~rec.ok THEN [at |-> found.at, stop |-> TRUE, list |-> found.list]
        ELSE [at |-> rec.next, stop |-> FALSE,
              list |-> Append(found.list, [name |-> rec.name, data |-> rec.data])]

Records(cells) ==
    LET found[n \in 0..cells[1].num_records] ==
            IF n = 0 THEN [at |-> 1, stop |-> FALSE, list |-> <<>>]
            ELSE Follow(cells, found[n - 1])
    IN  found[cells[1].num_records].list

Listed(cells) == IF IsTable(cells) THEN Records(cells) ELSE <<>>

\* The NUL written behind a name that fills its chunk lands in the size of
\* the next one: the process may go on, or be aborted before it prints.
Aborts(list) == {i \in DOMAIN list : list[i].name.len \in Brim}

ParseOutcomes(cells) ==
    IF ~IsTable(cells) THEN {[exit |-> "1", list |-> <<>>]}
    ELSE LET list == Listed(cells)
         IN  {[exit |-> "0", list |-> list]}
             \cup {[exit |-> "killed", list |-> SubSeq(list, 1, n)] :
                      n \in UNION {i - 1..Len(list) : i \in Aborts(list)}}
=============================================================================
